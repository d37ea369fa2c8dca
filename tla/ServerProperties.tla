-------------------------- MODULE ServerProperties --------------------------
(***************************************************************************)
(* What makes the server correct.                                          *)
(***************************************************************************)
EXTENDS Server

\* Every variable has its type; no callback of the listener accepts more than
\* accept_budget connections.
TypeOK ==
  /\ sessions \in Client \cup {Nil}
  /\ node \in [Client ->
       [used : BOOLEAN, next : Client \cup {Nil}, prev : Client \cup {Nil},
        handshake_done : BOOLEAN, target_connecting : BOOLEAN,
        created_at : Nat, connect_started_at : Nat, last_activity_at : Nat]]
  /\ active_connections \in Nat
  /\ fds \subseteq Client /\ leaked \subseteq Client
  /\ pc \in {"wait", "batch", "accept", "tick", "stop", "down"}
  /\ batch \subseteq Client \cup {Listener} /\ ready \subseteq Sessions
  /\ accepted \in 0..accept_budget /\ cursor \in Client \cup {Nil}
  /\ backlog \in Seq(Client) /\ now \in Nat /\ waited \in 0..Second

\* Sequences without repetition.
Orders == UNION {{s \in [1..n -> Client] : \A i, j \in 1..n : i # j => s[i] # s[j]} :
                   n \in 0..Cardinality(Client)}

\* The list holds every session exactly once, forwards and backwards, and
\* active_connections counts it; the tick's cursor never points to a session
\* that is gone.  So it stays through closes of the head, the middle and the
\* end, from callbacks, from the tick and at shutdown (proxy.c:121-139, 1029-1036).
ListConsistent ==
  /\ \E s \in Orders :
       /\ {s[i] : i \in DOMAIN s} = Sessions
       /\ active_connections = Len(s)
       /\ sessions = IF s = <<>> THEN Nil ELSE s[1]
       /\ \A i \in DOMAIN s :
            /\ node[s[i]].next = IF i = Len(s) THEN Nil ELSE s[i + 1]
            /\ node[s[i]].prev = IF i = 1 THEN Nil ELSE s[i - 1]
  /\ pc = "tick" => cursor \in Sessions \cup {Nil}

\* Every open client descriptor belongs to a session, those apart that a failed
\* calloc in session_create strands (proxy.c:865-868); none is left when the
\* server is down.
FdsOwned ==
  /\ fds = Sessions \cup leaked
  /\ pc = "down" => fds = leaked

\* There are never more sessions than max_connections, whatever sessions were
\* refused, closed or failed before they were linked (proxy.c:121-139, 967).
ConnectionLimit == Cardinality(Sessions) <= max_connections

\* README.md:118: a session that does not complete the upgrade, does not reach
\* its target or is idle is dropped: at the latest when its timeout, rounded up
\* to the whole seconds of the clock, and one wait of a second are over,
\* whatever else the loop is busy with.
DroppedInTime ==
  LET Late(since, timeout) ==
        now - since >= (Second * ((timeout + Second - 1) \div Second)) + Second
  IN \A c \in Sessions :
       /\ (handshake_timeout # 0 /\ ~node[c].handshake_done) =>
            ~Late(node[c].created_at, handshake_timeout)
       /\ (connect_timeout # 0 /\ node[c].target_connecting) =>
            ~Late(node[c].connect_started_at, connect_timeout)
       /\ (idle_timeout # 0 /\ node[c].handshake_done) =>
            ~Late(node[c].last_activity_at, idle_timeout)

\* README.md:116, "one noisy client cannot starve the rest of the event loop":
\* a session's event is handled although clients keep connecting.
SessionServed == \A c \in Client : (c \in ready) ~> (c \notin ready \/ pc = "down")

-----------------------------------------------------------------------------
(* Strengthenings: facts that make the properties above inductive.         *)

\* A batch names the listener and sessions that are there, and is walked before
\* the tick.
ThreadInv ==
  /\ batch \subseteq Sessions \cup {Listener}
  /\ pc \in {"wait", "tick", "stop", "down"} => batch = {}
  /\ pc = "down" => Sessions = {}

\* The connections in the listen queue are new, and what is no session is zeroed.
OwnerInv ==
  /\ \A j, k \in DOMAIN backlog : backlog[j] = backlog[k] => j = k
  /\ \A k \in DOMAIN backlog : backlog[k] \notin fds
  /\ fds = Sessions \cup leaked /\ leaked \cap Sessions = {}
  /\ \A c \in Client \ Sessions : node[c] = NoSession

\* s lists the sessions, n of them.
Listing(s, n) ==
  /\ \A j, k \in 1..n : s[j] = s[k] => j = k
  /\ \A c \in Client : node[c].used <=> \E k \in 1..n : s[k] = c
  /\ active_connections = n
  /\ sessions = IF n = 0 THEN Nil ELSE s[1]
  /\ \A k \in 1..n :
       /\ node[s[k]].next = IF k = n THEN Nil ELSE s[k + 1]
       /\ node[s[k]].prev = IF k = 1 THEN Nil ELSE s[k - 1]

\* Whole seconds that cover a timeout.
Covers(timeout) == Second * ((timeout + Second - 1) \div Second)

\* At time t no timeout of c is over for longer than the clock can tell.
InTime(c, t) ==
  /\ handshake_timeout # 0 /\ ~node[c].handshake_done =>
       t - node[c].created_at < Covers(handshake_timeout)
  /\ connect_timeout # 0 /\ node[c].target_connecting =>
       node[c].connect_started_at # 0 /\
       t - node[c].connect_started_at < Covers(connect_timeout)
  /\ idle_timeout # 0 /\ node[c].handshake_done =>
       t - node[c].last_activity_at < Covers(idle_timeout)

\* The tick has come to the p-th session, and those before it are in time now.
Ticking(s, n, p) ==
  /\ cursor = IF p > n THEN Nil ELSE s[p]
  /\ \A k \in 1..p - 1 : InTime(s[k], now)

ListInv ==
  \E n \in 0..Cardinality(Client) : \E s \in [1..n -> Client] :
    /\ Listing(s, n)
    /\ pc = "tick" => \E p \in 1..n + 1 : Ticking(s, n, p)

CountInv ==
  /\ IsFiniteSet(Sessions) /\ active_connections = Cardinality(Sessions)
  /\ active_connections <= max_connections

\* Every session was in time when the last wait began.
TimeInv ==
  /\ now # 0
  /\ \A c \in Sessions : InTime(c, now - waited)
=============================================================================
