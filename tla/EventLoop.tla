------------------------------ MODULE EventLoop ------------------------------
(***************************************************************************)
(* The event loop (src/event): the tables of sources of its three working  *)
(* backends, and the loop that waits, walks what was reported and ticks.   *)
(* The callbacks are those of proxy.c, reduced to what they do to the      *)
(* table: accepting adds a source, an upgrade adds another, every handled  *)
(* event ends in modify, session_close removes both.                       *)
(*                                                                         *)
(* A descriptor is named after the session and the side it serves and is   *)
(* not used again.  Addresses are: what malloc gives out may be what the   *)
(* batch at hand still points to.  Callbacks never call stop (no caller in *)
(* src/ does), so the loop ends only when waiting fails.                   *)
(***************************************************************************)
EXTENDS Naturals, Sequences, FiniteSets

CONSTANTS
  Session,      \* sessions there will be
  Addr,         \* where a source may be allocated
  Nil,          \* no address
  Backends,     \* those to consider: "epoll", "kqueue", "poll"
  Interests,    \* what a session may ask for in the end of an event
  ClientTls,    \* config.client_tls_enabled
  MaxTargets,   \* bound on the targets registered at once
  MaxFailures   \* bound on the registered descriptors a modify has failed for

ASSUME EventLoopAssumption ==
  /\ "listener" \notin Session /\ Nil \notin Addr
  /\ IsFiniteSet(Session) /\ IsFiniteSet(Addr)
  /\ Cardinality(Addr) >= (4 * Cardinality(Session)) + 2
  /\ Backends \subseteq {"epoll", "kqueue", "poll"}
  /\ Interests \subseteq SUBSET {"read", "write"}
  /\ ClientTls \in BOOLEAN /\ MaxTargets \in Nat /\ MaxFailures \in Nat

VARIABLES
  backend,    \* what event_loop.c was compiled to create
  loop,       \* [sources, kernel]: the table, and what the kernel was told
  pc,         \* the loop thread: "wait", "walk", "accept", "tick", "undefined", "ended"
  batch,      \* what the last wait reported and the walk has not reached
  i, polled,  \* poll: the index the walk is at; how many pfds were polled
  state,      \* of each session: "none", "pending" in the listen queue, "open", "closed"
  ready,      \* descriptors with a condition their interest waits for
  failed      \* history: descriptors for which modify has failed

vars == <<backend, loop, pc, batch, i, polled, state, ready, failed>>

READ == "read"
WRITE == "write"
Listener == <<"listener", "client">>
Client(s) == <<s, "client">>
Target(s) == <<s, "target">>
Fd == {Listener} \cup (Session \X {"client", "target"})

Unwatched == [events |-> {}, at |-> Nil]

-----------------------------------------------------------------------------
(* The table, common to the backends.                                      *)

Registered(l) == {l.sources[k].fd : k \in DOMAIN l.sources}

\* epoll_find, kqueue_find, poll_find
find(l, fd) == CHOOSE k \in DOMAIN l.sources : l.sources[k].fd = fd

Source(l, fd) == l.sources[find(l, fd)]

Live(l) == {l.sources[k].at : k \in DOMAIN l.sources}

\* Where calloc may put a source: somewhere new, or where one was freed that
\* the batch still points to.  New places are all alike, so one stands for all.
Calloc(l) ==
  LET stale == {e.at : e \in batch} \ Live(l)
  IN stale \cup {CHOOSE a \in Addr : a \notin Live(l) \cup stale}

Append1(l, fd, events, at) ==
  [l EXCEPT !.sources = Append(@, [fd |-> fd, events |-> events, at |-> at])]

\* Mutant: the entry of the last source goes, whichever was to be removed.
DropLast(l, fd) == [l EXCEPT !.sources = SubSeq(@, 1, Len(@) - 1)]

\* The last source moves to the place of the one removed.
SwapRemove(l, fd) ==
  [l EXCEPT !.sources =
     LET n == Len(@)
         k == find(l, fd)
     IN [j \in 1..(n - 1) |-> IF j = k THEN @[n] ELSE @[j]]]

-----------------------------------------------------------------------------
(* Each operation is the set of its outcomes, [ok, loop] for one that may  *)
(* fail.                                                                   *)

Done(l) == [ok |-> TRUE, loop |-> l]
Fail(l) == [ok |-> FALSE, loop |-> l]

\* System calls and allocations may fail.
Faults == Cardinality(failed) < MaxFailures

\* poll_grow, epoll_grow, kqueue_grow and calloc: no memory.
NoMemory(l) == {Fail(x) : x \in IF Faults THEN {l} ELSE {}}

\* EPOLL_CTL_ADD and EPOLL_CTL_MOD
epoll_ctl(l, fd, events, at) ==
  [l EXCEPT !.kernel[fd] = [events |-> events, at |-> at]]

epoll_add_common(l, fd, events) ==
  IF fd \in Registered(l) THEN {Fail(l)}
  ELSE NoMemory(l) \cup
       {Done(epoll_ctl(Append1(l, fd, events, a), fd, events, a)) : a \in Calloc(l)}

\* Mutant: the source is replaced by a new one.
epoll_modify_replaces(l, fd, events) ==
  IF fd \notin Registered(l) THEN {Fail(l)}
  ELSE LET gone == SwapRemove([l EXCEPT !.kernel[fd] = Unwatched], fd)
       IN {Done(epoll_ctl(Append1(gone, fd, events, a), fd, events, a)) : a \in Calloc(l)}

\* source->events is set before the system call that may fail.
epoll_modify_common(l, fd, events) ==
  IF fd \notin Registered(l) THEN {Fail(l)}
  ELSE LET set == [l EXCEPT !.sources[find(l, fd)].events = events]
       IN NoMemory(set) \cup {Done(epoll_ctl(set, fd, events, Source(l, fd).at))}

epoll_remove_common(l, fd) ==
  IF fd \notin Registered(l) THEN l
  ELSE SwapRemove([l EXCEPT !.kernel[fd] = Unwatched], fd)

\* kevent has deleted and added filters of fd.
kevent(l, fd, deleted, added, at) ==
  [l EXCEPT !.kernel[fd] =
     LET events == (@.events \ deleted) \cup added
     IN [events |-> events, at |-> IF events = {} THEN Nil ELSE at]]

\* update_filters tells the kernel the difference, READ before WRITE.  The kernel
\* stops at the first change that fails, as deleting a filter does that is not
\* there.
update_filters(l, fd, at, old, new) ==
  LET Change(f) == IF (f \in old) # (f \in new) THEN <<f>> ELSE <<>>
      changes == Change(READ) \o Change(WRITE)
      Applied(n) == {changes[k] : k \in 1..n}
      After(n) == kevent(l, fd, Applied(n) \ new, Applied(n) \cap new, at)
      Fails(n) == changes[n] \notin new \cup l.kernel[fd].events
      Reached(n) == \A k \in 1..n : ~Fails(k)
  IN {Fail(After(n)) : n \in {k \in 0..(Len(changes) - 1) :
                                Reached(k) /\ (Faults \/ Fails(k + 1))}}
     \cup {Done(After(n)) : n \in {k \in {Len(changes)} : Reached(k)}}

kqueue_add_common(l, fd, events) ==
  IF fd \in Registered(l) THEN {Fail(l)}
  ELSE NoMemory(l) \cup
       UNION {{IF r.ok THEN Done(Append1(r.loop, fd, events, a)) ELSE r :
                 r \in update_filters(l, fd, a, {}, events)} : a \in Calloc(l)}

\* Mutant: source->events is not stored.
kqueue_modify_forgets(l, fd, events) ==
  IF fd \notin Registered(l) THEN {Fail(l)}
  ELSE update_filters(l, fd, Source(l, fd).at, Source(l, fd).events, events)

\* source->events keeps its value when the system call fails.
kqueue_modify_common(l, fd, events) ==
  IF fd \notin Registered(l) THEN {Fail(l)}
  ELSE {IF r.ok THEN Done([r.loop EXCEPT !.sources[find(l, fd)].events = events]) ELSE r :
          r \in update_filters(l, fd, Source(l, fd).at, Source(l, fd).events, events)}

\* Only the filters source->events names are deleted.
kqueue_remove_common(l, fd) ==
  IF fd \notin Registered(l) THEN l
  ELSE SwapRemove(kevent(l, fd, Source(l, fd).events, {}, Source(l, fd).at), fd)

poll_add(l, fd, events) ==
  IF fd \in Registered(l) THEN {Fail(l)}
  ELSE NoMemory(l) \cup {Done(Append1(l, fd, events, Nil))}

poll_modify(l, fd, events) ==
  IF fd \notin Registered(l) THEN {Fail(l)}
  ELSE {Done([l EXCEPT !.sources[find(l, fd)].events = events])}

poll_remove(l, fd) == IF fd \notin Registered(l) THEN l ELSE SwapRemove(l, fd)

-----------------------------------------------------------------------------
(* event_loop.c: the operations of the backend there is.                   *)

sockify_event_loop_add(l, fd, events) ==
  CASE backend = "epoll" -> epoll_add_common(l, fd, events)
    [] backend = "kqueue" -> kqueue_add_common(l, fd, events)
    [] backend = "poll" -> poll_add(l, fd, events)

sockify_event_loop_modify(l, fd, events) ==
  CASE backend = "epoll" -> epoll_modify_common(l, fd, events)
    [] backend = "kqueue" -> kqueue_modify_common(l, fd, events)
    [] backend = "poll" -> poll_modify(l, fd, events)

sockify_event_loop_remove(l, fd) ==
  CASE backend = "epoll" -> epoll_remove_common(l, fd)
    [] backend = "kqueue" -> kqueue_remove_common(l, fd)
    [] backend = "poll" -> poll_remove(l, fd)

\* Closing a descriptor ends what the kernel reports of it.
sockify_net_close(l, fd) == [l EXCEPT !.kernel[fd] = Unwatched]

-----------------------------------------------------------------------------
(* Waiting.  epoll and kqueue hand out the pointers they were given, in    *)
(* any order; poll fills in pfds, where an entry's place is its index.     *)

Interest(fd) ==
  IF backend = "poll" THEN Source(loop, fd).events ELSE loop.kernel[fd].events

Reportable(fd) == fd \in ready /\ fd \in Registered(loop) /\ Interest(fd) # {}

\* An error or a hang-up is reported whatever the interest, by epoll and poll.
Broken == {fd \in Registered(loop) : backend # "kqueue" /\ Interest(fd) = {}}

Entry(fd, filter, at) == [fd |-> fd, filter |-> filter, at |-> at]

Walk(reported) ==
  /\ pc = "wait" /\ pc' = "walk" /\ batch' = reported
  /\ UNCHANGED <<backend, loop, state, ready, failed>>

EpollWait ==
  /\ backend = "epoll"
  /\ \E broken \in SUBSET Broken :
       Walk({Entry(fd, Nil, loop.kernel[fd].at) : fd \in {x \in Fd : Reportable(x)} \cup broken})
  /\ UNCHANGED <<i, polled>>

\* An entry for each filter that is ready: of two, both or one, and which one
\* makes no difference to the walk.
KqueueWait ==
  /\ backend = "kqueue"
  /\ LET reported == {fd \in Fd : Reportable(fd)}
         One(fd) == CHOOSE f \in Interest(fd) : TRUE
     IN \E both \in SUBSET {fd \in reported : Interest(fd) = {READ, WRITE}} :
          Walk(UNION {{Entry(fd, f, loop.kernel[fd].at) :
                         f \in IF fd \in both THEN {READ, WRITE} ELSE {One(fd)}} :
                        fd \in reported})
  /\ UNCHANGED <<i, polled>>

\* Mutant: the walk starts behind the first entry.
PollWaitOffByOne ==
  /\ backend = "poll" /\ loop.sources # <<>>
  /\ Walk({Entry(fd, Nil, find(loop, fd)) : fd \in {x \in Fd : Reportable(x)}})
  /\ i' = 2 /\ polled' = Len(loop.sources)

PollWait ==
  /\ backend = "poll" /\ loop.sources # <<>>
  /\ \E broken \in SUBSET Broken :
       Walk({Entry(fd, Nil, find(loop, fd)) : fd \in {x \in Fd : Reportable(x)} \cup broken})
  /\ i' = 1 /\ polled' = Len(loop.sources)

\* The wait fails, of a signal for one, and run returns.
WaitFails ==
  /\ Faults /\ pc = "wait" /\ pc' = "ended"
  /\ UNCHANGED <<backend, loop, batch, i, polled, state, ready, failed>>

-----------------------------------------------------------------------------
(* The walk.                                                               *)

\* The callback of fd is called next for entry e: through the pointer, or
\* through the index.  What pfds holds behind the polled ones is what an earlier
\* wait or nobody left there.
Calls(e, fd) ==
  /\ pc = "walk"
  /\ IF backend = "poll"
     THEN /\ i <= Len(loop.sources) /\ loop.sources[i].fd = fd
          /\ e.at = i /\ (e \in batch \/ (i > polled /\ e = Entry(fd, Nil, i)))
          /\ i' = i + 1 /\ batch' = batch \ {e}
     ELSE /\ e \in batch
          /\ fd \in Registered(loop) /\ Source(loop, fd).at = e.at
          /\ batch' = batch \ {e} /\ UNCHANGED i

Entries == batch \cup {Entry(fd, Nil, i) : fd \in Registered(loop)}

Called(fd) == \E e \in Entries : Calls(e, fd)

\* poll: no events at this index.
Skip ==
  /\ backend = "poll" /\ pc = "walk" /\ i <= Len(loop.sources)
  /\ \A e \in batch : e.at # i
  /\ i' = i + 1
  /\ UNCHANGED <<backend, loop, pc, batch, polled, state, ready, failed>>

\* epoll, kqueue: the source the entry points to is free and nothing else is
\* there: what source->callback is then, is up to the allocator.
CallsFreed ==
  /\ backend # "poll" /\ pc = "walk"
  /\ \E e \in batch : e.at \notin Live(loop)
  /\ pc' = "undefined"
  /\ UNCHANGED <<backend, loop, batch, i, polled, state, ready, failed>>

WalkDone ==
  /\ pc = "walk"
  /\ IF backend = "poll" THEN i > Len(loop.sources) ELSE batch = {}
  /\ pc' = "tick" /\ batch' = {} /\ i' = 1 /\ polled' = 0
  /\ UNCHANGED <<backend, loop, state, ready, failed>>

-----------------------------------------------------------------------------
(* The callbacks, and the tick.                                            *)

session_close(l, s) ==
  LET gone == sockify_event_loop_remove(sockify_event_loop_remove(l, Client(s)), Target(s))
  IN sockify_net_close(sockify_net_close(gone, Client(s)), Target(s))

Closes(s, l) ==
  /\ loop' = session_close(l, s)
  /\ state' = [state EXCEPT ![s] = "closed"]
  /\ ready' = ready \ {Client(s), Target(s)}
  /\ failed' = failed \ {Client(s), Target(s)}

\* session_update_events, which ignores what modify returns.
Updates(s, l, fd) ==
  \E client, target \in Interests :
    \E r1 \in sockify_event_loop_modify(l, Client(s), client) :
      \E r2 \in IF Target(s) \in Registered(l)
                THEN sockify_event_loop_modify(r1.loop, Target(s), target)
                ELSE {Done(r1.loop)} :
        /\ loop' = r2.loop
        /\ failed' = failed \cup {f \in {Client(s)} : ~r1.ok} \cup {f \in {Target(s)} : ~r2.ok}
        /\ ready' = ready \ {fd}
        /\ UNCHANGED state

\* listener_callback: accept until the queue is empty, with a budget that is
\* larger than Session, or a session cannot be created.
ListenerCallback ==
  /\ Called(Listener) /\ pc' = "accept"
  /\ UNCHANGED <<backend, loop, polled, state, ready, failed>>

Accept(s) ==
  /\ pc = "accept" /\ state[s] = "pending"
  /\ \E r \in sockify_event_loop_add(loop, Client(s),
                                     IF ClientTls THEN {READ, WRITE} ELSE {READ}) :
       IF r.ok THEN /\ loop' = r.loop /\ state' = [state EXCEPT ![s] = "open"]
                    /\ UNCHANGED <<pc, ready, failed>>
       ELSE Closes(s, r.loop) /\ pc' = "walk"
  /\ UNCHANGED <<backend, batch, i, polled>>

AcceptDone ==
  /\ pc = "accept" /\ \A s \in Session : state[s] # "pending"
  /\ pc' = "walk" /\ ready' = ready \ {Listener}
  /\ UNCHANGED <<backend, loop, batch, i, polled, state, failed>>

\* An event is handled and ends in session_update_events.
SessionHandles(s, fd) ==
  /\ Called(fd) /\ Updates(s, loop, fd)
  /\ UNCHANGED <<backend, pc, polled>>

\* The client's event completes the upgrade: session_register_target.
SessionUpgrades(s) ==
  /\ Called(Client(s)) /\ Target(s) \notin Registered(loop)
  /\ Cardinality({x \in Session : Target(x) \in Registered(loop)}) < MaxTargets
  /\ \E r \in sockify_event_loop_add(loop, Target(s), {WRITE}) :
       IF r.ok THEN Updates(s, r.loop, Client(s)) ELSE Closes(s, r.loop)
  /\ UNCHANGED <<backend, pc, polled>>

SessionCloses(s, fd) ==
  /\ Called(fd) /\ Closes(s, loop)
  /\ UNCHANGED <<backend, pc, polled>>

\* proxy_tick closes expired sessions.
TickCloses(s) ==
  /\ pc = "tick" /\ state[s] = "open" /\ Closes(s, loop)
  /\ UNCHANGED <<backend, pc, batch, i, polled>>

TickDone ==
  /\ pc = "tick" /\ pc' = "wait"
  /\ UNCHANGED <<backend, loop, batch, i, polled, state, ready, failed>>

-----------------------------------------------------------------------------
(* The environment: connections arrive, descriptors become ready.  What    *)
(* happens during a walk is noticed by a callback still to come, as if it  *)
(* had happened before, or by the next wait: so it happens at the wait.    *)

Connect(s) ==
  /\ pc = "wait" /\ state[s] = "none"
  /\ state' = [state EXCEPT ![s] = "pending"] /\ ready' = ready \cup {Listener}
  /\ UNCHANGED <<backend, loop, pc, batch, i, polled, failed>>

Becomes(fd) ==
  /\ pc = "wait" /\ fd \in Registered(loop) \ (ready \cup {Listener})
  /\ ready' = ready \cup {fd}
  /\ UNCHANGED <<backend, loop, pc, batch, i, polled, state, failed>>

\* The listener has been added.
Init ==
  /\ backend \in Backends
  /\ \E at \in IF backend = "poll" THEN {Nil} ELSE {CHOOSE a \in Addr : TRUE} :
       loop = [sources |-> <<[fd |-> Listener, events |-> {READ}, at |-> at]>>,
               kernel |-> [fd \in Fd |->
                             IF fd = Listener /\ backend # "poll"
                             THEN [events |-> {READ}, at |-> at] ELSE Unwatched]]
  /\ pc = "wait" /\ batch = {} /\ i = 1 /\ polled = 0
  /\ state = [s \in Session |-> "none"] /\ ready = {} /\ failed = {}

Loop ==
  \/ EpollWait \/ KqueueWait \/ PollWait \/ Skip \/ CallsFreed \/ WalkDone
  \/ ListenerCallback \/ AcceptDone \/ TickDone
  \/ \E s \in Session : Accept(s) \/ SessionUpgrades(s) \/ TickCloses(s)
  \/ \E s \in Session : \E fd \in {Client(s), Target(s)} :
       SessionHandles(s, fd) \/ SessionCloses(s, fd)

Next ==
  \/ Loop \/ WaitFails
  \/ \E s \in Session : Connect(s)
  \/ \E fd \in Fd : Becomes(fd)

Spec == Init /\ [][Next]_vars

\* The loop has the thread for itself and every callback returns.
FairSpec == Spec /\ WF_vars(Loop)

\* The same in a form that is cheaper to check: there are finitely many steps of
\* the environment between two of the loop, and some step of the loop is always
\* possible until it has ended.
EndlessSpec == Spec /\ ([]<>(pc \in {"undefined", "ended"}) \/ []<><<TRUE>>_vars)
=============================================================================
