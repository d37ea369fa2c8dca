------------------------------- MODULE Server -------------------------------
(***************************************************************************)
(* The server of src/proxy/proxy.c around its sessions: the listener's     *)
(* accept loop, the list of sessions with its count, the tick that drops   *)
(* expired sessions, and the shutdown after the event loop has ended.      *)
(*                                                                         *)
(* A session is one element of Client, named after its descriptor; what    *)
(* its callbacks do to its buffers is the matter of Session.  Time is      *)
(* counted in units of which Second make up a second; callbacks take none. *)
(***************************************************************************)
EXTENDS Naturals, Sequences, FiniteSets

CONSTANTS
  Client,            \* connections there may be at once
  Nil,               \* the null pointer
  max_connections, accept_budget,                               \* config
  handshake_timeout, idle_timeout, connect_timeout,             \* config, 0 is off
  Second,            \* units of time per second
  Faults,            \* system calls and allocations may fail
  MaxTime            \* bound on the clock

ASSUME ServerAssumption ==
  /\ IsFiniteSet(Client) /\ Nil \notin Client /\ "listener" \notin Client
  /\ {max_connections, accept_budget, Second} \subseteq Nat \ {0}
  /\ {handshake_timeout, idle_timeout, connect_timeout, MaxTime} \subseteq Nat
  /\ Faults \in BOOLEAN

VARIABLES
  sessions,            \* head of the list of sessions
  node,                \* the sessions
  active_connections,
  fds,                 \* client descriptors the process has open
  pc, batch, accepted, cursor,   \* the event-loop thread
  backlog,             \* connections waiting in the listen queue
  ready,               \* sessions with an event
  now, waited,         \* the clock; time spent in the current wait
  leaked               \* history: descriptors that no session owns

list == <<sessions, node, active_connections>>
thread == <<pc, batch, accepted, cursor>>
clock == <<now, waited>>
vars == <<list, fds, thread, backlog, ready, clock, leaked>>

NoSession ==
  [used |-> FALSE, next |-> Nil, prev |-> Nil,
   handshake_done |-> FALSE, target_connecting |-> FALSE,
   created_at |-> 0, connect_started_at |-> 0, last_activity_at |-> 0]

Sessions == {c \in Client : node[c].used}
Listener == "listener"

-----------------------------------------------------------------------------
(* The list of sessions.                                                   *)

\* session_create, the part that succeeds: the session becomes the head.
Linked(c) ==
  [x \in Client |->
     CASE x = c -> [NoSession EXCEPT !.used = TRUE, !.next = sessions,
                                     !.created_at = now, !.last_activity_at = now]
       [] x = sessions -> [node[x] EXCEPT !.prev = c]
       [] OTHER -> node[x]]

\* Mutant: the session behind keeps its prev.
UnlinkedForward(c) ==
  [x \in Client |->
     IF x = c THEN NoSession
     ELSE [node[x] EXCEPT !.next = IF node[c].prev = x THEN node[c].next ELSE @]]

\* server_unlink_session and free
Unlinked(c) ==
  [x \in Client |->
     IF x = c THEN NoSession
     ELSE [node[x] EXCEPT !.next = IF node[c].prev = x THEN node[c].next ELSE @,
                          !.prev = IF node[c].next = x THEN node[c].prev ELSE @]]

\* Mutant: a session that never was in the list is counted out of it.
AlwaysLinked(c) == TRUE

\* server_unlink_session finds the session in the list.
IsLinked(c) == node[c].prev # Nil \/ sessions = c

session_close(c) ==
  /\ node' = Unlinked(c)
  /\ sessions' = IF sessions = c THEN node[c].next ELSE sessions
  /\ active_connections' =
       IF IsLinked(c) /\ active_connections # 0 THEN active_connections - 1
       ELSE active_connections
  /\ fds' = fds \ {c} /\ ready' = ready \ {c}

-----------------------------------------------------------------------------
(* The event loop.                                                         *)

\* Up to a second is spent in epoll_wait.
Elapse ==
  /\ pc = "wait" /\ waited < Second /\ now < MaxTime
  /\ now' = now + 1 /\ waited' = waited + 1
  /\ UNCHANGED <<list, fds, thread, backlog, ready, leaked>>

\* It returns with all that is ready, or after a second with nothing.
Wait ==
  /\ pc = "wait"
  /\ backlog # <<>> \/ ready # {} \/ waited = Second
  /\ pc' = "batch" /\ batch' = ready \cup (IF backlog # <<>> THEN {Listener} ELSE {})
  /\ UNCHANGED <<list, fds, accepted, cursor, backlog, ready, clock, leaked>>

\* epoll_wait fails, of a signal for one: run returns and the server ends.
WaitFails ==
  /\ Faults /\ pc = "wait"
  /\ pc' = "stop"
  /\ UNCHANGED <<list, fds, batch, accepted, cursor, backlog, ready, clock, leaked>>

\* The listener's event.
ListenerEvent ==
  /\ pc = "batch" /\ Listener \in batch
  /\ pc' = "accept" /\ accepted' = 0 /\ batch' = batch \ {Listener}
  /\ UNCHANGED <<list, fds, cursor, backlog, ready, clock, leaked>>

\* A session's event, from its callback's point of view.
SessionEvent(c) ==
  /\ pc = "batch" /\ c \in batch
  /\ batch' = batch \ {c} /\ ready' = ready \ {c}
  /\ UNCHANGED <<pc, accepted, cursor, backlog, clock, leaked>>

\* Nothing was moved, or bytes were and session_touch noted it.
SessionMoves(c) ==
  /\ SessionEvent(c)
  /\ \E t \in {node[c].last_activity_at, now} :
       node' = [node EXCEPT ![c].last_activity_at = t]
  /\ UNCHANGED <<sessions, active_connections, fds>>

\* The request was accepted: session_start_target.
SessionUpgrades(c) ==
  /\ SessionEvent(c) /\ ~node[c].handshake_done
  /\ \E in_progress \in BOOLEAN :
       node' = [node EXCEPT ![c].handshake_done = TRUE,
                            ![c].target_connecting = in_progress,
                            ![c].connect_started_at = now,
                            ![c].last_activity_at = now]
  /\ UNCHANGED <<sessions, active_connections, fds>>

\* session_complete_target_connect
SessionConnected(c) ==
  /\ SessionEvent(c) /\ node[c].target_connecting
  /\ node' = [node EXCEPT ![c].target_connecting = FALSE,
                          ![c].connect_started_at = 0,
                          ![c].last_activity_at = now]
  /\ UNCHANGED <<sessions, active_connections, fds>>

\* The callback closes its session.
SessionCloses(c) ==
  /\ pc = "batch" /\ c \in batch
  /\ batch' = batch \ {c}
  /\ session_close(c)
  /\ UNCHANGED <<pc, accepted, cursor, backlog, clock, leaked>>

-----------------------------------------------------------------------------
(* listener_callback.                                                      *)

AtLimit == active_connections >= max_connections

\* Mutant: the callback goes on while there are connections.
AcceptOverEmpty == backlog = <<>>

\* accept(2) would block, or the budget is used up.
AcceptOver == backlog = <<>> \/ accepted = accept_budget

\* Mutant: the connection is not counted.
Uncounted == accepted

\* One more connection accepted by this callback.
Counted == accepted + 1

Accepting == pc = "accept" /\ ~AcceptOver

AcceptDone ==
  /\ pc = "accept" /\ AcceptOver
  /\ pc' = "batch"
  /\ UNCHANGED <<list, fds, batch, accepted, cursor, backlog, ready, clock, leaked>>

\* accept(2) fails otherwise.  The connection stays in the queue, or it is gone:
\* it was aborted, or closed again because it could not be made non-blocking.
AcceptFails ==
  /\ Faults /\ Accepting
  /\ pc' = "batch" /\ backlog' \in {backlog, Tail(backlog)}
  /\ UNCHANGED <<list, fds, batch, accepted, cursor, ready, clock, leaked>>

\* The descriptor is open; a session is created for it.
Accept ==
  /\ Accepting /\ ~AtLimit
  /\ LET c == Head(backlog) IN
     /\ node' = Linked(c) /\ sessions' = c
     /\ fds' = fds \cup {c}
  /\ active_connections' = active_connections + 1
  /\ backlog' = Tail(backlog) /\ accepted' = Counted
  /\ UNCHANGED <<pc, batch, cursor, ready, clock, leaked>>

\* Mutant: the descriptor stays open.
RefusedKept == fds \cup {Head(backlog)}

\* The descriptors after a connection over the limit was accepted and closed.
Refused == fds

Refuse ==
  /\ Accepting /\ AtLimit
  /\ fds' = Refused
  /\ backlog' = Tail(backlog) /\ accepted' = Counted
  /\ UNCHANGED <<list, pc, batch, cursor, ready, clock, leaked>>

\* session_create fails and the callback returns.  After calloc the session
\* is closed before it was ever linked; when calloc itself fails the descriptor
\* stays open, here and in the caller.
CreateFails ==
  /\ Faults /\ Accepting /\ ~AtLimit
  /\ LET c == Head(backlog) IN
     \/ session_close(c) /\ UNCHANGED leaked
     \/ /\ fds' = fds \cup {c} /\ leaked' = leaked \cup {c}
        /\ UNCHANGED <<list, ready>>
  /\ backlog' = Tail(backlog) /\ pc' = "batch"
  /\ UNCHANGED <<batch, accepted, cursor, clock>>

-----------------------------------------------------------------------------
(* proxy_tick, after every batch.                                          *)

\* time(0) counts whole seconds.
time(t) == t \div Second
elapsed_ms(t) == (time(now) - time(t)) * Second

\* Mutant: the timeout has to be exceeded.
TimeoutExceeded(since, timeout) == timeout # 0 /\ elapsed_ms(since) > timeout

\* A timeout that is on has passed.
TimedOut(since, timeout) == timeout # 0 /\ elapsed_ms(since) >= timeout

session_is_expired(c) ==
  \/ /\ node[c].target_connecting /\ node[c].connect_started_at # 0
     /\ TimedOut(node[c].connect_started_at, connect_timeout)
  \/ ~node[c].handshake_done /\ TimedOut(node[c].created_at, handshake_timeout)
  \/ node[c].handshake_done /\ TimedOut(node[c].last_activity_at, idle_timeout)

TimeoutsOff == {handshake_timeout, idle_timeout, connect_timeout} = {0}

TickStarts ==
  /\ pc = "batch" /\ batch = {}
  /\ pc' = "tick" /\ cursor' = IF TimeoutsOff THEN Nil ELSE sessions
  /\ UNCHANGED <<list, fds, batch, accepted, backlog, ready, clock, leaked>>

\* next is read before the session is closed.
TickStep ==
  /\ pc = "tick" /\ cursor # Nil
  /\ cursor' = node[cursor].next
  /\ IF session_is_expired(cursor) THEN session_close(cursor)
     ELSE UNCHANGED <<list, fds, ready>>
  /\ UNCHANGED <<pc, batch, accepted, backlog, clock, leaked>>

TickDone ==
  /\ pc = "tick" /\ cursor = Nil
  /\ pc' = "wait" /\ waited' = 0
  /\ UNCHANGED <<list, fds, batch, accepted, cursor, backlog, ready, now, leaked>>

-----------------------------------------------------------------------------
(* The end of sockify_proxy_run.                                           *)

StopSession ==
  /\ pc = "stop" /\ sessions # Nil
  /\ session_close(sessions)
  /\ UNCHANGED <<thread, backlog, clock, leaked>>

Stopped ==
  /\ pc = "stop" /\ sessions = Nil
  /\ pc' = "down" /\ backlog' = <<>>
  /\ UNCHANGED <<list, fds, batch, accepted, cursor, ready, clock, leaked>>

-----------------------------------------------------------------------------
(* Clients and targets.                                                    *)

\* A connection reaches the listen queue.
Connect(c) ==
  /\ pc # "down" /\ c \notin fds /\ \A i \in 1..Len(backlog) : backlog[i] # c
  /\ backlog' = Append(backlog, c)
  /\ UNCHANGED <<list, fds, thread, ready, clock, leaked>>

\* Something happens on a descriptor of a session.
HasEvent(c) ==
  /\ c \in Sessions \ ready /\ pc # "tick" /\ pc # "stop"
  /\ ready' = ready \cup {c}
  /\ UNCHANGED <<list, fds, thread, backlog, clock, leaked>>

-----------------------------------------------------------------------------

\* sockify_proxy_run up to the event loop; the clock does not start at 0.
Init ==
  /\ sessions = Nil /\ node = [c \in Client |-> NoSession] /\ active_connections = 0
  /\ fds = {} /\ pc = "wait" /\ batch = {} /\ accepted = 0 /\ cursor = Nil
  /\ backlog = <<>> /\ ready = {} /\ now = Second /\ waited = 0
  /\ leaked = {}

LoopStep ==
  \/ Wait \/ ListenerEvent
  \/ \E c \in Client :
       SessionMoves(c) \/ SessionUpgrades(c) \/ SessionConnected(c) \/ SessionCloses(c)
  \/ AcceptDone \/ AcceptFails \/ Accept \/ Refuse \/ CreateFails
  \/ TickStarts \/ TickStep \/ TickDone \/ StopSession \/ Stopped

Next ==
  \/ LoopStep \/ WaitFails \/ Elapse
  \/ \E c \in Client : Connect(c) \/ HasEvent(c)

Spec == Init /\ [][Next]_vars

\* The thread runs.
FairSpec == Spec /\ WF_vars(LoopStep)
=============================================================================
