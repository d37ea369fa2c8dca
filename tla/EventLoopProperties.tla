------------------------- MODULE EventLoopProperties -------------------------
(* What the event loop promises its callers.                               *)
EXTENDS EventLoop

\* The table holds the listener and the descriptors of the open sessions, each
\* once and each at an address of its own, and whatever the kernel still reports
\* is given to the live source of that very descriptor: through adds that fail
\* half-way, removes that move the last entry, and addresses that are used again
\* (ev_epoll.c:85-158, ev_kqueue.c:107-182, ev_poll.c:98-159).
TableConsistent ==
  /\ {Listener} \cup {Client(s) : s \in {x \in Session : state[x] = "open"}}
       \subseteq Registered(loop)
  /\ \A s \in Session : state[s] # "open" =>
       Registered(loop) \cap {Client(s), Target(s)} = {}
  /\ \A j, k \in DOMAIN loop.sources : j # k =>
       /\ loop.sources[j].fd # loop.sources[k].fd
       /\ backend # "poll" => loop.sources[j].at # loop.sources[k].at
  /\ \A fd \in Fd : loop.kernel[fd].at # Nil =>
       fd \in Registered(loop) /\ Source(loop, fd).at = loop.kernel[fd].at

\* The kernel watches a descriptor for what its session asked for last, unless
\* a system call failed for it: the differences update_filters sends and what
\* source->events remembers do not drift apart (ev_kqueue.c:58-90, 137-154).
InterestAgrees ==
  backend # "poll" =>
    \A fd \in Registered(loop) \ failed : loop.kernel[fd].events = Source(loop, fd).events

\* Whatever callbacks of this round have closed and opened since the wait, an
\* event of a descriptor that is still registered reaches it: epoll's and
\* kqueue's pointer still is its source's, and under poll it moves only to an
\* index the walk has passed or comes to not later than its events
\* (ev_epoll.c:142-158, ev_poll.c:140-159).
PendingResolves ==
  \A e \in batch : e.fd \in Registered(loop) =>
    IF backend = "poll" THEN find(loop, e.fd) <= e.at ELSE Source(loop, e.fd).at = e.at

\* README.md:116, "one noisy client cannot starve the rest of the event loop":
\* a descriptor that is ready is served, whatever the callbacks of others do to
\* the table meanwhile.
ReadyServed == \A fd \in Fd : Reportable(fd) ~> (~Reportable(fd) \/ pc = "ended")

\* The same, unless the walk comes to an entry whose source is free: under poll,
\* which skips a source that moved behind the walk, it is ReadyServed.
ReadyServedOrUndefined ==
  \A fd \in Fd : Reportable(fd) ~> (~Reportable(fd) \/ pc = "ended"
                                      \/ (backend # "poll" /\ pc = "undefined"))

-----------------------------------------------------------------------------
(* The inductive invariant from which EventLoopProofs derives the safety   *)
(* properties.                                                             *)

SourceType == [fd : Fd, events : SUBSET {READ, WRITE}, at : Addr \cup {Nil}]
WatchType == [events : SUBSET {READ, WRITE}, at : Addr \cup {Nil}]
LoopType == [sources : Seq(SourceType), kernel : [Fd -> WatchType]]
EntryType == [fd : Fd, filter : {Nil, READ, WRITE}, at : IF backend = "poll" THEN Nat ELSE Addr]

\* A table with one entry and one address per descriptor.
SourcesOk(l) ==
  /\ l \in LoopType
  /\ \A j, k \in DOMAIN l.sources : j # k => l.sources[j].fd # l.sources[k].fd
  /\ backend # "poll" => \A k \in DOMAIN l.sources : l.sources[k].at # Nil
  /\ backend # "poll" =>
       \A j, k \in DOMAIN l.sources : j # k => l.sources[j].at # l.sources[k].at

\* The kernel knows no descriptor that has no source, and no other pointer
\* than the source; epoll keeps the pointer when it watches for nothing.
WatchOk(l, fd) ==
  IF fd \notin Registered(l) THEN l.kernel[fd] = Unwatched
  ELSE /\ l.kernel[fd].at \in {Nil, Source(l, fd).at}
       /\ l.kernel[fd].at = Nil => l.kernel[fd].events = {}
       /\ backend = "epoll" => l.kernel[fd].at = Source(l, fd).at

TableOk(l) == SourcesOk(l) /\ \A fd \in Fd : WatchOk(l, fd)

TypeOK ==
  /\ backend \in Backends
  /\ pc \in {"wait", "walk", "accept", "tick", "undefined", "ended"}
  /\ batch \subseteq EntryType
  /\ i \in Nat \ {0} /\ polled \in Nat
  /\ state \in [Session -> {"none", "pending", "open", "closed"}]
  /\ ready \subseteq Fd /\ failed \subseteq Fd

\* Registered are the listener and descriptors of open sessions.
StateInv ==
  /\ Listener \in Registered(loop)
  /\ \A s \in Session :
       IF state[s] = "open" THEN Client(s) \in Registered(loop)
       ELSE Client(s) \notin Registered(loop) /\ Target(s) \notin Registered(loop)

\* An entry is of a descriptor that is registered or whose session has been
\* closed, so that what is registered during a walk is not in the batch; and
\* the entries of a descriptor point to one place.
BatchInv ==
  /\ \A e \in batch : \A s \in Session : e.fd \in {Client(s), Target(s)} =>
       state[s] = "closed" \/ (state[s] = "open" /\ e.fd \in Registered(loop))
  /\ backend # "poll" => \A e, f \in batch : e.fd = f.fd => e.at = f.at

LoopInv ==
  TypeOK /\ TableOk(loop) /\ StateInv /\ InterestAgrees /\ BatchInv /\ PendingResolves
=============================================================================
