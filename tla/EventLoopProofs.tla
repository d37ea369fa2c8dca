-------------------------- MODULE EventLoopProofs ---------------------------
(***************************************************************************)
(* Proofs about the event loop, for every set of sessions, of backends and *)
(* of interests and every number of failures: the table and what the       *)
(* kernel knows agree, and events reach the source they are for.           *)
(***************************************************************************)
EXTENDS EventLoopProperties, SequenceTheorems, FiniteSetTheorems, TLAPS

-----------------------------------------------------------------------------
(* Descriptors.                                                            *)

LEMMA FdOfSession ==
  ASSUME NEW s \in Session
  PROVE  /\ Client(s) \in Fd /\ Target(s) \in Fd /\ Listener \in Fd
         /\ Client(s) # Target(s) /\ Client(s) # Listener /\ Target(s) # Listener
BY EventLoopAssumption DEF Client, Target, Listener, Fd

LEMMA FdDistinct ==
  ASSUME NEW s \in Session, NEW t \in Session, s # t
  PROVE  {Client(s), Target(s)} \cap {Client(t), Target(t)} = {}
BY DEF Client, Target

LEMMA FdCases ==
  ASSUME NEW fd \in Fd
  PROVE  fd = Listener \/ \E s \in Session : fd \in {Client(s), Target(s)}
BY DEF Client, Target, Listener, Fd

-----------------------------------------------------------------------------
(* The table.                                                              *)

\* What find returns in a table that has each descriptor once.
LEMMA FindPlace ==
  ASSUME NEW l, SourcesOk(l), NEW k \in DOMAIN l.sources
  PROVE  /\ l.sources[k].fd \in Registered(l)
         /\ find(l, l.sources[k].fd) = k /\ Source(l, l.sources[k].fd) = l.sources[k]
<1>1. \A j \in DOMAIN l.sources : l.sources[j].fd = l.sources[k].fd => j = k
  BY DEF SourcesOk
<1>2. find(l, l.sources[k].fd) = k
  BY <1>1 DEF find
<1> QED
  BY <1>2 DEF Registered, Source

LEMMA FindFd ==
  ASSUME NEW l, SourcesOk(l), NEW fd \in Registered(l)
  PROVE  /\ find(l, fd) \in DOMAIN l.sources /\ find(l, fd) \in 1..Len(l.sources)
         /\ fd \in Fd /\ Source(l, fd) \in SourceType /\ Source(l, fd).fd = fd
         /\ Source(l, fd) = l.sources[find(l, fd)]
<1>1. PICK k \in DOMAIN l.sources : l.sources[k].fd = fd
  BY DEF Registered
<1>2. find(l, fd) = k /\ Source(l, fd) = l.sources[k]
  BY <1>1, FindPlace
<1>3. l.sources \in Seq(SourceType)
  BY DEF SourcesOk, LoopType
<1>4. DOMAIN l.sources = 1..Len(l.sources) /\ l.sources[k] \in SourceType
  BY <1>3
<1> QED
  BY <1>1, <1>2, <1>4 DEF SourceType

\* The same sources make the same table.
LEMMA SameSources ==
  ASSUME NEW l, NEW m, m.sources = l.sources
  PROVE  /\ Registered(m) = Registered(l) /\ Live(m) = Live(l)
         /\ \A fd : find(m, fd) = find(l, fd) /\ Source(m, fd) = Source(l, fd)
<1>1. \A fd : find(m, fd) = find(l, fd)
  BY DEF find
<1> QED
  BY <1>1 DEF Registered, Live, Source

\* A table m that has the sources of fds at the places l has them, or earlier.
Keeps(l, m, fds) ==
  \A g \in fds : g \in Registered(m) /\ Source(m, g) = Source(l, g) /\ find(m, g) <= find(l, g)

\* m is l with a source for fd at the end.
Appended(l, m, fd, events, at) ==
  /\ SourcesOk(m) /\ m.kernel = l.kernel
  /\ Registered(m) = Registered(l) \cup {fd}
  /\ Source(m, fd) = [fd |-> fd, events |-> events, at |-> at]
  /\ Keeps(l, m, Registered(l))

LEMMA AppendTable ==
  ASSUME NEW l, SourcesOk(l), NEW fd \in Fd \ Registered(l), NEW events \in SUBSET {READ, WRITE},
         NEW at \in Addr \cup {Nil}, backend # "poll" => at \in Addr \ Live(l)
  PROVE  Appended(l, Append1(l, fd, events, at), fd, events, at)
<1> DEFINE m == Append1(l, fd, events, at)
           x == [fd |-> fd, events |-> events, at |-> at]
           n == Len(l.sources)
<1>1. l.sources \in Seq(SourceType) /\ n \in Nat /\ DOMAIN l.sources = 1..n
  BY DEF SourcesOk, LoopType
<1>2. x \in SourceType
  BY DEF SourceType
<1>3. m \in LoopType /\ m.kernel = l.kernel /\ m.sources = Append(l.sources, x)
  BY <1>1, <1>2, SMTT(30) DEF Append1, SourcesOk, LoopType
<1> HIDE DEF x, m
<1>4. /\ DOMAIN m.sources = 1..(n + 1) /\ m.sources[n + 1] = x
      /\ \A k \in 1..n : m.sources[k] = l.sources[k]
  BY <1>1, <1>2, <1>3
<1>5. \A k \in 1..n : l.sources[k].fd # fd /\ (backend # "poll" => l.sources[k].at # at)
  BY <1>1 DEF Registered, Live
<1>6. x.fd = fd /\ x.at = at
  BY DEF x
<1>7. \A j, k \in DOMAIN m.sources : j # k => m.sources[j].fd # m.sources[k].fd
  <2> SUFFICES ASSUME NEW j \in 1..(n + 1), NEW k \in 1..(n + 1), j # k
               PROVE  m.sources[j].fd # m.sources[k].fd
    BY <1>4
  <2>1. CASE j \in 1..n /\ k \in 1..n
    BY <2>1, <1>1, <1>4 DEF SourcesOk
  <2>2. CASE j = n + 1 /\ k \in 1..n
    BY <2>2, <1>4, <1>5, <1>6
  <2>3. CASE k = n + 1 /\ j \in 1..n
    BY <2>3, <1>4, <1>5, <1>6
  <2> QED
    BY <2>1, <2>2, <2>3, <1>1
<1>8. ASSUME backend # "poll"
      PROVE  /\ \A k \in DOMAIN m.sources : m.sources[k].at # Nil
             /\ \A j, k \in DOMAIN m.sources : j # k => m.sources[j].at # m.sources[k].at
  <2>1. \A k \in 1..(n + 1) : k \in 1..n \/ k = n + 1
    BY <1>1
  <2>2. at # Nil
    BY <1>8, EventLoopAssumption
  <2>3. \A k \in 1..n : l.sources[k].at # Nil
    BY <1>8, <1>1 DEF SourcesOk
  <2>4. \A j, k \in 1..n : j # k => l.sources[j].at # l.sources[k].at
    BY <1>8, <1>1 DEF SourcesOk
  <2> QED
    BY <2>1, <2>2, <2>3, <2>4, <1>4, <1>5, <1>6, <1>8
<1>9. SourcesOk(m)
  BY <1>3, <1>7, <1>8 DEF SourcesOk
<1>10. Source(m, fd) = x /\ fd \in Registered(m)
  BY <1>9, <1>4, <1>6, <1>1, FindPlace
<1>11. Keeps(l, m, Registered(l))
  <2> SUFFICES ASSUME NEW g \in Registered(l)
               PROVE  g \in Registered(m) /\ Source(m, g) = Source(l, g) /\ find(m, g) <= find(l, g)
    BY DEF Keeps
  <2>1. find(l, g) \in 1..n /\ Source(l, g) = l.sources[find(l, g)] /\ Source(l, g).fd = g
    BY FindFd
  <2>2. m.sources[find(l, g)] = l.sources[find(l, g)] /\ find(l, g) \in DOMAIN m.sources
    BY <2>1, <1>1, <1>4
  <2>3. g \in Registered(m) /\ find(m, g) = find(l, g) /\ Source(m, g) = Source(l, g)
    BY <2>1, <2>2, <1>9, FindPlace
  <2> QED
    BY <2>1, <2>3
<1>12. Registered(m) = Registered(l) \cup {fd}
  <2>1. \A g \in Registered(m) : g \in Registered(l) \cup {fd}
    <3> SUFFICES ASSUME NEW k \in 1..(n + 1)
                 PROVE  m.sources[k].fd \in Registered(l) \cup {fd}
      BY <1>4 DEF Registered
    <3>1. CASE k \in 1..n
      BY <3>1, <1>1, <1>4 DEF Registered
    <3>2. CASE k = n + 1
      BY <3>2, <1>4, <1>6
    <3> QED
      BY <3>1, <3>2, <1>1
  <2> QED
    BY <2>1, <1>10, <1>11 DEF Keeps
<1> QED
  BY <1>3, <1>9, <1>10, <1>11, <1>12 DEF Appended, x, m

\* source->events = events
SetEvents(l, fd, events) == [l EXCEPT !.sources[find(l, fd)].events = events]

\* m is l with other events in the source of fd.
EventsSet(l, m, fd, events) ==
  /\ SourcesOk(m) /\ m.kernel = l.kernel
  /\ Registered(m) = Registered(l)
  /\ Source(m, fd).events = events /\ Source(m, fd).at = Source(l, fd).at
  /\ find(m, fd) = find(l, fd)
  /\ Keeps(l, m, Registered(l) \ {fd})

LEMMA SetEventsTable ==
  ASSUME NEW l, SourcesOk(l), NEW fd \in Registered(l), NEW events \in SUBSET {READ, WRITE}
  PROVE  EventsSet(l, SetEvents(l, fd, events), fd, events)
<1> DEFINE m == SetEvents(l, fd, events)
           p == find(l, fd)
           x == [l.sources[p] EXCEPT !.events = events]
           n == Len(l.sources)
<1>1. l.sources \in Seq(SourceType) /\ n \in Nat /\ DOMAIN l.sources = 1..n /\ l \in LoopType
  BY DEF SourcesOk, LoopType
<1>2. p \in 1..n /\ l.sources[p].fd = fd /\ l.sources[p] \in SourceType /\ Source(l, fd) = l.sources[p]
  BY <1>1, FindFd
<1>3. x \in SourceType /\ x.fd = fd /\ x.at = l.sources[p].at /\ x.events = events
  BY <1>2 DEF SourceType
<1>4. m = [l EXCEPT !.sources = [l.sources EXCEPT ![p] = x]]
  BY DEF SetEvents
<1> HIDE DEF x, m, p
<1>5. [l.sources EXCEPT ![p] = x] \in Seq(SourceType) /\ Len([l.sources EXCEPT ![p] = x]) = n
  BY <1>1, <1>2, <1>3
<1>6. m \in LoopType /\ m.kernel = l.kernel /\ m.sources = [l.sources EXCEPT ![p] = x]
  BY <1>1, <1>4, <1>5 DEF LoopType
<1>7. /\ DOMAIN m.sources = 1..n /\ m.sources[p] = x
      /\ \A k \in 1..n : k # p => m.sources[k] = l.sources[k]
  BY <1>1, <1>2, <1>6
<1>8. \A k \in 1..n : m.sources[k].fd = l.sources[k].fd /\ m.sources[k].at = l.sources[k].at
  BY <1>2, <1>3, <1>7
<1>9. SourcesOk(m)
  BY <1>1, <1>6, <1>7, <1>8, SMTT(30) DEF SourcesOk
<1>10. Registered(m) = Registered(l)
  BY <1>1, <1>7, <1>8 DEF Registered
<1>11. \A g \in Registered(l) : find(m, g) = find(l, g)
  <2> SUFFICES ASSUME NEW g \in Registered(l) PROVE find(m, g) = find(l, g)
    OBVIOUS
  <2>1. find(l, g) \in 1..n /\ l.sources[find(l, g)].fd = g
    BY FindFd
  <2> QED
    BY <2>1, <1>7, <1>8, <1>9, FindPlace
<1>12. Source(m, fd) = x
  BY <1>7, <1>11 DEF Source, p
<1>13. Keeps(l, m, Registered(l) \ {fd})
  <2> SUFFICES ASSUME NEW g \in Registered(l) \ {fd}
               PROVE  g \in Registered(m) /\ Source(m, g) = Source(l, g) /\ find(m, g) <= find(l, g)
    BY DEF Keeps
  <2>1. find(l, g) \in 1..n /\ l.sources[find(l, g)].fd = g
    BY FindFd
  <2>2. find(l, g) # p
    BY <2>1, <1>2
  <2> QED
    BY <2>1, <2>2, <1>7, <1>10, <1>11 DEF Source
<1> QED
  BY <1>2, <1>3, <1>6, <1>9, <1>10, <1>11, <1>12, <1>13 DEF EventsSet, m

\* The last source moves to the place that is free: everyone else's source
\* stays, and nobody moves towards the end.
Removed(l, m, fd) ==
  /\ SourcesOk(m) /\ m.kernel = l.kernel
  /\ Registered(m) = Registered(l) \ {fd}
  /\ Keeps(l, m, Registered(l) \ {fd})

LEMMA SwapRemoveTable ==
  ASSUME NEW l, SourcesOk(l), NEW fd \in Registered(l)
  PROVE  Removed(l, SwapRemove(l, fd), fd)
<1> DEFINE m == SwapRemove(l, fd)
           p == find(l, fd)
           n == Len(l.sources)
           rest == [j \in 1..(n - 1) |-> IF j = p THEN l.sources[n] ELSE l.sources[j]]
           From(j) == IF j = p THEN n ELSE j
<1>1. l.sources \in Seq(SourceType) /\ n \in Nat /\ DOMAIN l.sources = 1..n /\ l \in LoopType
  BY DEF SourcesOk, LoopType
<1>2. p \in 1..n /\ l.sources[p].fd = fd
  BY <1>1, FindFd
<1>3. m = [l EXCEPT !.sources = rest]
  BY DEF SwapRemove
<1> HIDE DEF m, p
<1>4. rest \in Seq(SourceType) /\ Len(rest) = n - 1 /\ DOMAIN rest = 1..(n - 1)
  <2>1. \A j \in 1..n : l.sources[j] \in SourceType
    BY <1>1
  <2>2. n \in 1..n /\ n - 1 \in Nat
    BY <1>1, <1>2
  <2>3. \A j \in 1..(n - 1) : rest[j] \in SourceType
    BY <2>1, <2>2
  <2>4. rest \in [1..(n - 1) -> SourceType]
    BY <2>3
  <2> QED
    BY <2>2, <2>4
<1> HIDE DEF rest
<1>5. m \in LoopType /\ m.kernel = l.kernel /\ m.sources = rest
  BY <1>1, <1>3, <1>4 DEF LoopType
<1>6. \A j \in 1..(n - 1) : m.sources[j] = l.sources[From(j)] /\ From(j) \in 1..n /\ From(j) # p
  BY <1>1, <1>2, <1>5 DEF rest
<1>7. \A j, k \in 1..(n - 1) : j # k => From(j) # From(k)
  BY <1>1, <1>2
<1>8. DOMAIN m.sources = 1..(n - 1)
  BY <1>4, <1>5
<1>9. \A k \in 1..n : k # p => \E j \in 1..(n - 1) : From(j) = k /\ j <= k
  <2> SUFFICES ASSUME NEW k \in 1..n, k # p PROVE \E j \in 1..(n - 1) : From(j) = k /\ j <= k
    OBVIOUS
  <2>1. CASE k = n
    BY <2>1, <1>1, <1>2
  <2>2. CASE k # n
    BY <2>2, <1>1, <1>2
  <2> QED
    BY <2>1, <2>2
<1> HIDE DEF From
<1>10. SourcesOk(m)
  <2>1. \A j, k \in 1..(n - 1) : j # k => m.sources[j].fd # m.sources[k].fd
    <3>1. \A j, k \in 1..n : j # k => l.sources[j].fd # l.sources[k].fd
      BY <1>1 DEF SourcesOk
    <3> QED
      BY <3>1, <1>6, <1>7
  <2>2. backend # "poll" => \A k \in 1..(n - 1) : m.sources[k].at # Nil
    BY <1>1, <1>6 DEF SourcesOk
  <2>3. backend # "poll" =>
          \A j, k \in 1..(n - 1) : j # k => m.sources[j].at # m.sources[k].at
    BY <1>1, <1>6, <1>7, SMTT(30) DEF SourcesOk
  <2> QED
    BY <1>5, <1>8, <2>1, <2>2, <2>3 DEF SourcesOk
<1>11. Keeps(l, m, Registered(l) \ {fd})
  <2> SUFFICES ASSUME NEW g \in Registered(l) \ {fd}
               PROVE  g \in Registered(m) /\ Source(m, g) = Source(l, g) /\ find(m, g) <= find(l, g)
    BY DEF Keeps
  <2>1. /\ find(l, g) \in 1..n /\ l.sources[find(l, g)].fd = g
        /\ Source(l, g) = l.sources[find(l, g)]
    BY FindFd
  <2>2. PICK j \in 1..(n - 1) : From(j) = find(l, g) /\ j <= find(l, g)
    BY <2>1, <1>2, <1>9
  <2>3. m.sources[j] = l.sources[find(l, g)] /\ m.sources[j].fd = g
    BY <2>1, <2>2, <1>6
  <2>4. g \in Registered(m) /\ find(m, g) = j /\ Source(m, g) = m.sources[j]
    BY <2>3, <1>8, <1>10, FindPlace
  <2> QED
    BY <2>1, <2>2, <2>3, <2>4
<1>12. Registered(m) = Registered(l) \ {fd}
  <2>1. \A j \in 1..(n - 1) : m.sources[j].fd \in Registered(l) \ {fd}
    <3> SUFFICES ASSUME NEW j \in 1..(n - 1)
                 PROVE  m.sources[j].fd \in Registered(l) \ {fd}
      OBVIOUS
    <3>1. m.sources[j] = l.sources[From(j)] /\ From(j) \in 1..n /\ From(j) # p
      BY <1>6
    <3>2. l.sources[From(j)].fd # l.sources[p].fd
      BY <3>1, <1>1, <1>2 DEF SourcesOk
    <3> QED
      BY <3>1, <3>2, <1>1, <1>2 DEF Registered
  <2>2. \A g \in Registered(m) : g \in Registered(l) \ {fd}
    BY <2>1, <1>8 DEF Registered
  <2> QED
    BY <2>2, <1>11 DEF Keeps
<1> QED
  BY <1>5, <1>10, <1>11, <1>12 DEF Removed, m

-----------------------------------------------------------------------------
(* What the kernel knows.                                                  *)

\* Only what the kernel knows of fd changes.
Rewatched(l, m, fd, watch) ==
  /\ SourcesOk(m) /\ m.sources = l.sources /\ m.kernel[fd] = watch
  /\ \A g \in Fd \ {fd} : m.kernel[g] = l.kernel[g]

LEMMA Rewatch ==
  ASSUME NEW l, SourcesOk(l), NEW fd \in Fd, NEW watch \in WatchType
  PROVE  Rewatched(l, [l EXCEPT !.kernel[fd] = watch], fd, watch)
<1> DEFINE m == [l EXCEPT !.kernel[fd] = watch]
           kernel == [l.kernel EXCEPT ![fd] = watch]
<1>1. l \in LoopType /\ l.kernel \in [Fd -> WatchType]
  BY DEF SourcesOk, LoopType
<1>2. kernel \in [Fd -> WatchType] /\ kernel[fd] = watch /\ \A g \in Fd \ {fd} : kernel[g] = l.kernel[g]
  BY <1>1
<1>3. m = [l EXCEPT !.kernel = kernel]
  OBVIOUS
<1> HIDE DEF kernel, m
<1>4. m \in LoopType /\ m.sources = l.sources /\ m.kernel = kernel
  BY <1>1, <1>2, <1>3 DEF LoopType
<1>5. SourcesOk(m)
  BY <1>4 DEF SourcesOk
<1> QED
  BY <1>2, <1>4, <1>5 DEF Rewatched, m

LEMMA UnwatchedType == Unwatched \in WatchType /\ Unwatched.events = {} /\ Unwatched.at = Nil
BY DEF Unwatched, WatchType

LEMMA WatchedType ==
  ASSUME NEW l, SourcesOk(l), NEW fd \in Fd
  PROVE  /\ l.kernel[fd] \in WatchType
         /\ l.kernel[fd].events \in SUBSET {READ, WRITE} /\ l.kernel[fd].at \in Addr \cup {Nil}
BY DEF SourcesOk, LoopType, WatchType

\* kevent keeps a pointer exactly as long as it has a filter.
Filters(events, at) == [events |-> events, at |-> IF events = {} THEN Nil ELSE at]

LEMMA KeventFilters ==
  ASSUME NEW l, SourcesOk(l), NEW fd \in Fd, NEW at \in Addr \cup {Nil},
         NEW deleted, NEW added \in SUBSET {READ, WRITE}
  PROVE  LET events == (l.kernel[fd].events \ deleted) \cup added
         IN /\ events \in SUBSET {READ, WRITE}
            /\ Rewatched(l, kevent(l, fd, deleted, added, at), fd, Filters(events, at))
<1> DEFINE events == (l.kernel[fd].events \ deleted) \cup added
<1>1. events \in SUBSET {READ, WRITE}
  BY WatchedType
<1>2. Filters(events, at) \in WatchType
  BY <1>1 DEF Filters, WatchType
<1>3. l \in LoopType /\ l.kernel \in [Fd -> WatchType]
  BY DEF SourcesOk, LoopType
<1>4. kevent(l, fd, deleted, added, at) = [l EXCEPT !.kernel[fd] = Filters(events, at)]
  BY <1>3 DEF kevent, Filters
<1> HIDE DEF events
<1> QED
  BY <1>1, <1>2, <1>4, Rewatch DEF events

\* The kernel has the pointer and some filters, the new ones if r is a success
\* and it had the old ones.
Refiltered(l, r, fd, at, old, new) ==
  \E events \in SUBSET {READ, WRITE} :
    /\ Rewatched(l, r.loop, fd, Filters(events, at))
    /\ r.ok /\ old = l.kernel[fd].events => events = new

\* That is what update_filters does, whatever part of the changes is applied
\* (ev_kqueue.c:58-90).
LEMMA UpdateFilters ==
  ASSUME NEW l, SourcesOk(l), NEW fd \in Fd, NEW at \in Addr \cup {Nil},
         NEW old \in SUBSET {READ, WRITE}, NEW new \in SUBSET {READ, WRITE},
         NEW r \in update_filters(l, fd, at, old, new)
  PROVE  Refiltered(l, r, fd, at, old, new)
<1> DEFINE Change(f) == IF (f \in old) # (f \in new) THEN <<f>> ELSE <<>>
           changes == Change(READ) \o Change(WRITE)
           Applied(n) == {changes[k] : k \in 1..n}
           After(n) == kevent(l, fd, Applied(n) \ new, Applied(n) \cap new, at)
           Fails(n) == changes[n] \notin new \cup l.kernel[fd].events
           Reached(n) == \A k \in 1..n : ~Fails(k)
           N == Len(changes)
           E(n) == (l.kernel[fd].events \ (Applied(n) \ new)) \cup (Applied(n) \cap new)
<1>1. /\ changes \in Seq({READ, WRITE}) /\ N \in Nat
      /\ Applied(N) = {f \in {READ, WRITE} : (f \in old) # (f \in new)}
  <2> DEFINE differ == {f \in {READ, WRITE} : (f \in old) # (f \in new)}
  <2>2. CASE (READ \in old) # (READ \in new) /\ (WRITE \in old) # (WRITE \in new)
    <3>1. Change(READ) = <<READ>> /\ Change(WRITE) = <<WRITE>>
      BY <2>2
    <3>2. differ = {READ, WRITE}
      BY <2>2
    <3> HIDE DEF Change, differ
    <3>3. <<READ>> \in Seq({READ, WRITE}) /\ <<WRITE>> \in Seq({READ, WRITE})
      OBVIOUS
    <3>4. /\ changes \in Seq({READ, WRITE}) /\ N = 2
          /\ changes[1] = READ /\ changes[2] = WRITE
      BY <3>1, <3>3
    <3> HIDE DEF changes
    <3>5. Applied(2) = {READ, WRITE}
      BY <3>4
    <3> QED
      BY <3>2, <3>4, <3>5 DEF differ
  <2>3. CASE (READ \in old) # (READ \in new) /\ ~((WRITE \in old) # (WRITE \in new))
    <3>1. Change(READ) = <<READ>> /\ Change(WRITE) = <<>>
      BY <2>3
    <3>2. differ = {READ}
      BY <2>3
    <3> HIDE DEF Change, differ
    <3>3. changes = <<READ>>
      BY <3>1
    <3> HIDE DEF changes
    <3>4. changes \in Seq({READ, WRITE}) /\ N = 1
      BY <3>3
    <3>5. Applied(1) = {READ}
      BY <3>3
    <3> QED
      BY <3>2, <3>4, <3>5 DEF differ
  <2>4. CASE ~((READ \in old) # (READ \in new)) /\ (WRITE \in old) # (WRITE \in new)
    <3>1. Change(READ) = <<>> /\ Change(WRITE) = <<WRITE>>
      BY <2>4
    <3>2. differ = {WRITE}
      BY <2>4
    <3> HIDE DEF Change, differ
    <3>3. changes = <<WRITE>>
      BY <3>1
    <3> HIDE DEF changes
    <3>4. changes \in Seq({READ, WRITE}) /\ N = 1
      BY <3>3
    <3>5. Applied(1) = {WRITE}
      BY <3>3
    <3> QED
      BY <3>2, <3>4, <3>5 DEF differ
  <2>5. CASE ~((READ \in old) # (READ \in new)) /\ ~((WRITE \in old) # (WRITE \in new))
    <3>1. Change(READ) = <<>> /\ Change(WRITE) = <<>>
      BY <2>5
    <3>2. differ = {}
      BY <2>5
    <3> HIDE DEF Change, differ
    <3>3. changes = <<>>
      BY <3>1
    <3> HIDE DEF changes
    <3>4. changes \in Seq({READ, WRITE}) /\ N = 0
      BY <3>3
    <3>5. Applied(0) = {}
      BY <3>3, SMTT(30)
    <3> QED
      BY <3>2, <3>4, <3>5 DEF differ
  <2> QED
    BY <2>2, <2>3, <2>4, <2>5
<1>2. update_filters(l, fd, at, old, new) =
        {Fail(After(n)) : n \in {k \in 0..(N - 1) : Reached(k) /\ (Faults \/ Fails(k + 1))}}
        \cup {Done(After(n)) : n \in {k \in {N} : Reached(k)}}
  BY DEF update_filters
<1> HIDE DEF changes
<1>3. ASSUME NEW n \in 0..N
      PROVE  E(n) \in SUBSET {READ, WRITE} /\ Rewatched(l, After(n), fd, Filters(E(n), at))
  <2>1. Applied(n) \in SUBSET {READ, WRITE}
    BY <1>1
  <2> HIDE DEF Applied
  <2> QED
    BY <2>1, KeventFilters
<1>4. old = l.kernel[fd].events => E(N) = new
  BY <1>1
<1> HIDE DEF After, Reached, Fails, E, N
<1>5. CASE \E n \in 0..N : r = Fail(After(n))
  BY <1>5, <1>3 DEF Refiltered, Fail
<1>6. CASE r = Done(After(N))
  BY <1>6, <1>1, <1>3, <1>4 DEF Refiltered, Done
<1> QED
  BY <1>1, <1>2, <1>5, <1>6

-----------------------------------------------------------------------------
(* The operations of the loop.                                             *)

LEMMA KeepsSame ==
  ASSUME NEW l, NEW m, SourcesOk(l), m.sources = l.sources
  PROVE  Keeps(l, m, Registered(l))
BY SameSources, FindFd DEF Keeps

LEMMA KeepsKeeps ==
  ASSUME NEW l, NEW m, NEW n, SourcesOk(l), SourcesOk(m), SourcesOk(n),
         NEW fds \in SUBSET Registered(l), Keeps(l, m, fds), Keeps(m, n, fds)
  PROVE  Keeps(l, n, fds)
<1> SUFFICES ASSUME NEW g \in fds
             PROVE  g \in Registered(n) /\ Source(n, g) = Source(l, g) /\ find(n, g) <= find(l, g)
  BY DEF Keeps
<1>1. /\ g \in Registered(m) /\ Source(m, g) = Source(l, g) /\ find(m, g) <= find(l, g)
      /\ g \in Registered(n) /\ Source(n, g) = Source(m, g) /\ find(n, g) <= find(m, g)
  BY DEF Keeps
<1>2. find(l, g) \in Int /\ find(m, g) \in Int /\ find(n, g) \in Int
  BY <1>1, FindFd
<1> QED
  BY <1>1, <1>2

LEMMA KeepsSubset ==
  ASSUME NEW l, NEW m, NEW fds, Keeps(l, m, fds), NEW some \in SUBSET fds
  PROVE  Keeps(l, m, some)
BY DEF Keeps

\* What an operation on the descriptors fds leaves alone.
OthersKept(l, m, fds) ==
  /\ SourcesOk(m) /\ Keeps(l, m, Registered(l) \ fds)
  /\ Registered(m) \ fds = Registered(l) \ fds
  /\ \A g \in Fd \ fds : m.kernel[g] = l.kernel[g]

LEMMA WatchKept ==
  ASSUME NEW l, NEW m, NEW fds, OthersKept(l, m, fds), NEW g \in Fd \ fds
  PROVE  /\ WatchOk(l, g) => WatchOk(m, g)
         /\ g \in Registered(l) <=> g \in Registered(m)
         /\ g \in Registered(l) => m.kernel[g] = l.kernel[g] /\ Source(m, g) = Source(l, g)
<1>1. m.kernel[g] = l.kernel[g] /\ (g \in Registered(m) <=> g \in Registered(l))
  BY DEF OthersKept
<1>2. g \in Registered(l) => Source(m, g) = Source(l, g)
  BY DEF OthersKept, Keeps
<1> QED
  BY <1>1, <1>2 DEF WatchOk

LEMMA OthersKeptOk ==
  ASSUME NEW l, NEW m, NEW fds, OthersKept(l, m, fds),
         \A g \in Fd \ fds : WatchOk(l, g), \A g \in fds : WatchOk(m, g)
  PROVE  TableOk(m)
BY WatchKept DEF TableOk, OthersKept

LEMMA OthersKeptTrans ==
  ASSUME NEW l, NEW m, NEW n, NEW fds, SourcesOk(l), OthersKept(l, m, fds), OthersKept(m, n, fds)
  PROVE  OthersKept(l, n, fds)
<1>1. Keeps(l, n, Registered(l) \ fds)
  BY KeepsKeeps DEF OthersKept
<1> QED
  BY <1>1 DEF OthersKept

LEMMA OthersKeptMore ==
  ASSUME NEW l, NEW m, NEW fds, NEW more, OthersKept(l, m, fds), fds \subseteq more
  PROVE  OthersKept(l, m, more)
<1>1. Keeps(l, m, Registered(l) \ more)
  BY KeepsSubset DEF OthersKept
<1> QED
  BY <1>1 DEF OthersKept

LEMMA RewatchedKeeps ==
  ASSUME NEW l, NEW m, NEW fd, NEW watch, SourcesOk(l), Rewatched(l, m, fd, watch)
  PROVE  /\ OthersKept(l, m, {fd}) /\ Keeps(l, m, Registered(l))
         /\ Registered(m) = Registered(l) /\ Live(m) = Live(l)
         /\ Source(m, fd) = Source(l, fd) /\ find(m, fd) = find(l, fd)
<1>1. SourcesOk(m) /\ m.sources = l.sources /\ \A g \in Fd \ {fd} : m.kernel[g] = l.kernel[g]
  BY DEF Rewatched
<1>2. Keeps(l, m, Registered(l))
  BY <1>1, KeepsSame
<1>3. Keeps(l, m, Registered(l) \ {fd})
  BY <1>2, KeepsSubset
<1> QED
  BY <1>1, <1>2, <1>3, SameSources DEF OthersKept

\* The interest the source remembers is the one the kernel has.
AgreesOn(l, fd) == backend # "poll" => l.kernel[fd].events = Source(l, fd).events

\* Add: a source for fd, and nothing for anyone else to notice.  One that fails
\* may leave filters behind, but no source.
Added(l, r, fd) ==
  IF r.ok THEN /\ OthersKept(l, r.loop, {fd}) /\ fd \in Registered(r.loop)
               /\ WatchOk(r.loop, fd) /\ AgreesOn(r.loop, fd)
  ELSE OthersKept(l, r.loop, {fd})

LEMMA EpollAdd ==
  ASSUME NEW l, TableOk(l), NEW fd \in Fd \ Registered(l), NEW events \in SUBSET {READ, WRITE},
         backend = "epoll", Calloc(l) \subseteq Addr \ Live(l),
         NEW r \in epoll_add_common(l, fd, events)
  PROVE  Added(l, r, fd)
<1>1. SourcesOk(l)
  BY DEF TableOk
<1>2. CASE r = Fail(l)
  <2>1. OthersKept(l, l, {fd})
    BY <1>1, KeepsSame, KeepsSubset DEF OthersKept
  <2> QED
    BY <1>2, <2>1 DEF Added, Fail
<1>3. ASSUME NEW a \in Calloc(l),
             r = Done(epoll_ctl(Append1(l, fd, events, a), fd, events, a))
      PROVE  Added(l, r, fd)
  <2> DEFINE x == Append1(l, fd, events, a)
             m == epoll_ctl(x, fd, events, a)
             watch == [events |-> events, at |-> a]
  <2>1. a \in Addr \ Live(l) /\ a \in Addr \cup {Nil}
    OBVIOUS
  <2>2. Appended(l, x, fd, events, a)
    BY <1>1, <2>1, AppendTable
  <2>3. watch \in WatchType
    BY <2>1 DEF WatchType
  <2> HIDE DEF x
  <2>4. Rewatched(x, m, fd, watch)
    BY <2>2, <2>3, Rewatch DEF epoll_ctl, Appended
  <2> HIDE DEF m
  <2>5. OthersKept(x, m, {fd}) /\ Registered(m) = Registered(x) /\ Source(m, fd) = Source(x, fd)
    BY <2>2, <2>4, RewatchedKeeps DEF Appended
  <2>6. OthersKept(l, x, {fd})
    BY <2>2, KeepsSubset DEF OthersKept, Appended
  <2>7. OthersKept(l, m, {fd})
    BY <1>1, <2>5, <2>6, OthersKeptTrans
  <2>8. m.kernel[fd] = watch /\ Source(m, fd).at = a /\ Source(m, fd).events = events
    BY <2>2, <2>4, <2>5 DEF Rewatched, Appended
  <2>9. a # Nil
    BY <2>1, EventLoopAssumption
  <2>10. WatchOk(m, fd) /\ AgreesOn(m, fd) /\ fd \in Registered(m)
    BY <2>2, <2>5, <2>8, <2>9 DEF WatchOk, AgreesOn, Appended
  <2>11. r = Done(m)
    BY <1>3 DEF m, x
  <2> QED
    BY <2>7, <2>10, <2>11 DEF Added, Done
<1> QED
  BY <1>2, <1>3 DEF epoll_add_common, NoMemory

LEMMA SameKept ==
  ASSUME NEW l, SourcesOk(l), NEW fds
  PROVE  OthersKept(l, l, fds)
<1>1. Keeps(l, l, Registered(l) \ fds)
  BY KeepsSame, KeepsSubset
<1> QED
  BY <1>1 DEF OthersKept

LEMMA KqueueAdd ==
  ASSUME NEW l, TableOk(l), NEW fd \in Fd \ Registered(l), NEW events \in SUBSET {READ, WRITE},
         backend = "kqueue", Calloc(l) \subseteq Addr \ Live(l),
         NEW r \in kqueue_add_common(l, fd, events)
  PROVE  Added(l, r, fd)
<1>1. SourcesOk(l) /\ l.kernel[fd] = Unwatched
  BY DEF TableOk, WatchOk
<1>2. CASE r = Fail(l)
  BY <1>1, <1>2, SameKept DEF Added, Fail
<1>3. ASSUME NEW a \in Calloc(l), NEW q \in update_filters(l, fd, a, {}, events),
             r = IF q.ok THEN Done(Append1(q.loop, fd, events, a)) ELSE q
      PROVE  Added(l, r, fd)
  <2> DEFINE m == Append1(q.loop, fd, events, a)
  <2>1. a \in Addr \ Live(l) /\ a \in Addr \cup {Nil} /\ {} \in SUBSET {READ, WRITE}
    OBVIOUS
  <2>2. PICK filters \in SUBSET {READ, WRITE} :
          /\ Rewatched(l, q.loop, fd, Filters(filters, a))
          /\ q.ok /\ {} = l.kernel[fd].events => filters = events
    <3>1. Refiltered(l, q, fd, a, {}, events)
      BY <1>1, <2>1, UpdateFilters
    <3> QED
      BY <3>1 DEF Refiltered
  <2>3. /\ OthersKept(l, q.loop, {fd}) /\ Registered(q.loop) = Registered(l) /\ Live(q.loop) = Live(l)
        /\ SourcesOk(q.loop) /\ q.loop.kernel[fd] = Filters(filters, a)
    BY <1>1, <2>2, RewatchedKeeps DEF Rewatched
  <2>4. CASE ~q.ok
    BY <1>3, <2>3, <2>4 DEF Added
  <2>5. CASE q.ok
    <3>1. filters = events
      BY <1>1, <2>2, <2>5, UnwatchedType
    <3>2. Appended(q.loop, m, fd, events, a)
      BY <2>1, <2>3, AppendTable
    <3>3. r = Done(m)
      BY <1>3, <2>5
    <3> HIDE DEF m
    <3>4. OthersKept(q.loop, m, {fd})
      BY <3>2, KeepsSubset DEF OthersKept, Appended
    <3>5. OthersKept(l, m, {fd})
      BY <1>1, <2>3, <3>4, OthersKeptTrans
    <3>6. /\ m.kernel[fd] = Filters(events, a) /\ fd \in Registered(m)
          /\ Source(m, fd).at = a /\ Source(m, fd).events = events
      BY <2>3, <3>1, <3>2 DEF Appended
    <3>7. WatchOk(m, fd) /\ AgreesOn(m, fd)
      <4>1. a # Nil
        BY <2>1, EventLoopAssumption
      <4> QED
        BY <3>6, <4>1 DEF WatchOk, AgreesOn, Filters
    <3> QED
      BY <3>3, <3>5, <3>6, <3>7 DEF Added, Done
  <2> QED
    BY <2>4, <2>5
<1>4. r = Fail(l) \/ \E a \in Calloc(l) : \E q \in update_filters(l, fd, a, {}, events) :
        r = IF q.ok THEN Done(Append1(q.loop, fd, events, a)) ELSE q
  BY DEF kqueue_add_common, NoMemory
<1> QED
  BY <1>2, <1>3, <1>4

LEMMA PollAdd ==
  ASSUME NEW l, TableOk(l), NEW fd \in Fd \ Registered(l), NEW events \in SUBSET {READ, WRITE},
         backend = "poll", NEW r \in poll_add(l, fd, events)
  PROVE  Added(l, r, fd)
<1>1. SourcesOk(l) /\ l.kernel[fd] = Unwatched
  BY DEF TableOk, WatchOk
<1>2. CASE r = Fail(l)
  BY <1>1, <1>2, SameKept DEF Added, Fail
<1>3. CASE r = Done(Append1(l, fd, events, Nil))
  <2> DEFINE m == Append1(l, fd, events, Nil)
  <2>1. Appended(l, m, fd, events, Nil)
    BY <1>1, AppendTable
  <2> HIDE DEF m
  <2>2. OthersKept(l, m, {fd})
    BY <2>1, KeepsSubset DEF OthersKept, Appended
  <2>3. m.kernel[fd] = Unwatched /\ fd \in Registered(m) /\ SourcesOk(m)
    BY <1>1, <2>1 DEF Appended
  <2>4. WatchOk(m, fd) /\ AgreesOn(m, fd)
    BY <2>3, UnwatchedType DEF WatchOk, AgreesOn
  <2>5. r = Done(m)
    BY <1>3 DEF m
  <2> QED
    BY <2>2, <2>3, <2>4, <2>5 DEF Added, Done
<1> QED
  BY <1>2, <1>3 DEF poll_add, NoMemory

LEMMA AddTable ==
  ASSUME NEW l, TableOk(l), NEW fd \in Fd \ Registered(l), NEW events \in SUBSET {READ, WRITE},
         backend \in {"epoll", "kqueue", "poll"},
         backend # "poll" => Calloc(l) \subseteq Addr \ Live(l),
         NEW r \in sockify_event_loop_add(l, fd, events)
  PROVE  Added(l, r, fd)
BY EpollAdd, KqueueAdd, PollAdd DEF sockify_event_loop_add

\* Modify: the source stays where it is and has the pointer it had.  If it
\* succeeds where source and kernel agreed, they agree again.
Modified(l, r, fd) ==
  /\ TableOk(r.loop) /\ OthersKept(l, r.loop, {fd}) /\ Registered(r.loop) = Registered(l)
  /\ Source(r.loop, fd).at = Source(l, fd).at /\ find(r.loop, fd) = find(l, fd)
  /\ r.ok /\ AgreesOn(l, fd) => AgreesOn(r.loop, fd)

LEMMA ModifiedOk ==
  ASSUME NEW l, NEW m, NEW fd, TableOk(l), OthersKept(l, m, {fd}), WatchOk(m, fd)
  PROVE  TableOk(m)
BY OthersKeptOk DEF TableOk

LEMMA EpollModify ==
  ASSUME NEW l, TableOk(l), NEW fd \in Registered(l), NEW events \in SUBSET {READ, WRITE},
         backend = "epoll", NEW r \in epoll_modify_common(l, fd, events)
  PROVE  Modified(l, r, fd)
<1> DEFINE set == SetEvents(l, fd, events)
           watch == [events |-> events, at |-> Source(l, fd).at]
           m == epoll_ctl(set, fd, events, Source(l, fd).at)
<1>1. SourcesOk(l) /\ fd \in Fd /\ Source(l, fd) \in SourceType /\ WatchOk(l, fd)
  BY FindFd DEF TableOk
<1>2. EventsSet(l, set, fd, events)
  BY <1>1, SetEventsTable
<1>3. r = Fail(set) \/ r = Done(m)
  BY DEF epoll_modify_common, NoMemory, SetEvents
<1> HIDE DEF set
<1>4. watch \in WatchType
  BY <1>1 DEF SourceType, WatchType
<1>5. Rewatched(set, m, fd, watch)
  BY <1>1, <1>2, <1>4, Rewatch DEF epoll_ctl, EventsSet
<1> HIDE DEF m
<1>6. OthersKept(l, set, {fd})
  BY <1>2 DEF OthersKept, EventsSet
<1>7. CASE r = Fail(set)
  <2>1. WatchOk(set, fd)
    BY <1>1, <1>2 DEF WatchOk, EventsSet
  <2>2. TableOk(set)
    BY <1>6, <2>1, ModifiedOk
  <2> QED
    BY <1>2, <1>6, <1>7, <2>2 DEF Modified, Fail, EventsSet
<1>8. CASE r = Done(m)
  <2>1. /\ OthersKept(set, m, {fd}) /\ Registered(m) = Registered(set)
        /\ Source(m, fd) = Source(set, fd) /\ find(m, fd) = find(set, fd)
    BY <1>2, <1>5, RewatchedKeeps DEF EventsSet
  <2>2. OthersKept(l, m, {fd})
    BY <1>1, <1>6, <2>1, OthersKeptTrans
  <2>3. /\ m.kernel[fd] = watch /\ Registered(m) = Registered(l) /\ Source(m, fd).events = events
        /\ Source(m, fd).at = Source(l, fd).at /\ find(m, fd) = find(l, fd)
    BY <1>2, <1>5, <2>1 DEF EventsSet, Rewatched
  <2>4. Source(l, fd).at # Nil
    BY <1>1, FindFd DEF SourcesOk
  <2>5. WatchOk(m, fd) /\ AgreesOn(m, fd)
    BY <2>3, <2>4 DEF WatchOk, AgreesOn
  <2>6. TableOk(m)
    BY <2>2, <2>5, ModifiedOk
  <2> QED
    BY <1>8, <2>2, <2>3, <2>5, <2>6 DEF Modified, Done
<1> QED
  BY <1>3, <1>7, <1>8

LEMMA KqueueModify ==
  ASSUME NEW l, TableOk(l), NEW fd \in Registered(l), NEW events \in SUBSET {READ, WRITE},
         backend = "kqueue", NEW r \in kqueue_modify_common(l, fd, events)
  PROVE  Modified(l, r, fd)
<1> DEFINE at == Source(l, fd).at
           old == Source(l, fd).events
<1>1. /\ SourcesOk(l) /\ fd \in Fd /\ WatchOk(l, fd)
      /\ at \in Addr \cup {Nil} /\ old \in SUBSET {READ, WRITE}
  BY FindFd DEF TableOk, SourceType
<1>2. at # Nil
  BY <1>1, FindFd DEF SourcesOk
<1>3. PICK q \in update_filters(l, fd, at, old, events) :
        r = IF q.ok THEN Done([q.loop EXCEPT !.sources[find(l, fd)].events = events]) ELSE q
  BY DEF kqueue_modify_common
<1> HIDE DEF at, old
<1>4. Refiltered(l, q, fd, at, old, events)
  BY <1>1, UpdateFilters
<1>5. PICK filters \in SUBSET {READ, WRITE} :
        /\ Rewatched(l, q.loop, fd, Filters(filters, at))
        /\ q.ok /\ old = l.kernel[fd].events => filters = events
  BY <1>4 DEF Refiltered
<1>6. /\ OthersKept(l, q.loop, {fd}) /\ Registered(q.loop) = Registered(l)
      /\ SourcesOk(q.loop) /\ q.loop.kernel[fd] = Filters(filters, at)
      /\ Source(q.loop, fd) = Source(l, fd) /\ find(q.loop, fd) = find(l, fd)
  BY <1>1, <1>5, RewatchedKeeps DEF Rewatched
<1>7. WatchOk(q.loop, fd)
  BY <1>2, <1>6 DEF WatchOk, Filters, at
<1>8. TableOk(q.loop)
  BY <1>6, <1>7, ModifiedOk
<1>9. CASE ~q.ok
  BY <1>3, <1>6, <1>8, <1>9 DEF Modified
<1>10. CASE q.ok
  <2> DEFINE m == SetEvents(q.loop, fd, events)
  <2>1. r = Done(m)
    BY <1>3, <1>6, <1>10 DEF SetEvents
  <2>2. EventsSet(q.loop, m, fd, events)
    BY <1>6, SetEventsTable
  <2> HIDE DEF m
  <2>3. OthersKept(q.loop, m, {fd})
    BY <2>2 DEF OthersKept, EventsSet
  <2>4. OthersKept(l, m, {fd})
    BY <1>1, <1>6, <2>3, OthersKeptTrans
  <2>5. /\ Registered(m) = Registered(l) /\ m.kernel[fd] = Filters(filters, at)
        /\ Source(m, fd).at = at /\ Source(m, fd).events = events /\ find(m, fd) = find(l, fd)
    BY <1>6, <2>2 DEF EventsSet, at
  <2>6. WatchOk(m, fd)
    BY <1>2, <2>5 DEF WatchOk, Filters
  <2>7. TableOk(m)
    BY <2>4, <2>6, ModifiedOk
  <2>8. AgreesOn(l, fd) => AgreesOn(m, fd)
    BY <1>5, <1>10, <2>5 DEF AgreesOn, Filters, old
  <2> QED
    BY <2>1, <2>4, <2>5, <2>7, <2>8 DEF Modified, Done, at
<1> QED
  BY <1>9, <1>10

LEMMA PollModify ==
  ASSUME NEW l, TableOk(l), NEW fd \in Registered(l), NEW events \in SUBSET {READ, WRITE},
         backend = "poll", NEW r \in poll_modify(l, fd, events)
  PROVE  Modified(l, r, fd)
<1> DEFINE m == SetEvents(l, fd, events)
<1>1. SourcesOk(l) /\ fd \in Fd /\ WatchOk(l, fd)
  BY FindFd DEF TableOk
<1>2. EventsSet(l, m, fd, events)
  BY <1>1, SetEventsTable
<1>3. r = Done(m)
  BY DEF poll_modify, SetEvents
<1> HIDE DEF m
<1>4. OthersKept(l, m, {fd})
  BY <1>2 DEF OthersKept, EventsSet
<1>5. WatchOk(m, fd)
  BY <1>1, <1>2 DEF WatchOk, EventsSet
<1>6. TableOk(m)
  BY <1>4, <1>5, ModifiedOk
<1> QED
  BY <1>2, <1>3, <1>4, <1>6 DEF Modified, Done, EventsSet, AgreesOn

LEMMA ModifyTable ==
  ASSUME NEW l, TableOk(l), NEW fd \in Registered(l), NEW events \in SUBSET {READ, WRITE},
         backend \in {"epoll", "kqueue", "poll"},
         NEW r \in sockify_event_loop_modify(l, fd, events)
  PROVE  Modified(l, r, fd)
BY EpollModify, KqueueModify, PollModify DEF sockify_event_loop_modify

\* Remove: fd has no source, and the others do not notice.
LEMMA RemoveTable ==
  ASSUME NEW l, SourcesOk(l), NEW fd \in Fd, backend \in {"epoll", "kqueue", "poll"}
  PROVE  LET m == sockify_event_loop_remove(l, fd)
         IN OthersKept(l, m, {fd}) /\ fd \notin Registered(m)
<1> DEFINE m == sockify_event_loop_remove(l, fd)
<1>1. CASE fd \notin Registered(l)
  <2>1. m = l
    BY <1>1 DEF sockify_event_loop_remove, epoll_remove_common, kqueue_remove_common, poll_remove
  <2> QED
    BY <1>1, <2>1, SameKept
<1>2. CASE fd \in Registered(l)
  <2>1. ASSUME NEW x, SourcesOk(x), m = SwapRemove(x, fd), Registered(x) = Registered(l),
               OthersKept(l, x, {fd})
        PROVE  OthersKept(l, m, {fd}) /\ fd \notin Registered(m)
    <3>1. Removed(x, m, fd)
      BY <1>2, <2>1, SwapRemoveTable
    <3> HIDE DEF m
    <3>2. OthersKept(x, m, {fd})
      BY <3>1 DEF OthersKept, Removed
    <3> QED
      BY <2>1, <3>1, <3>2, OthersKeptTrans DEF Removed
  <2>2. CASE backend = "epoll"
    <3>1. m = SwapRemove([l EXCEPT !.kernel[fd] = Unwatched], fd)
      BY <1>2, <2>2 DEF sockify_event_loop_remove, epoll_remove_common
    <3>2. Rewatched(l, [l EXCEPT !.kernel[fd] = Unwatched], fd, Unwatched)
      BY Rewatch, UnwatchedType
    <3> QED
      BY <2>1, <3>1, <3>2, RewatchedKeeps DEF Rewatched
  <2>3. CASE backend = "kqueue"
    <3> DEFINE x == kevent(l, fd, Source(l, fd).events, {}, Source(l, fd).at)
    <3>1. m = SwapRemove(x, fd)
      BY <1>2, <2>3 DEF sockify_event_loop_remove, kqueue_remove_common
    <3>2. Source(l, fd).at \in Addr \cup {Nil} /\ {} \in SUBSET {READ, WRITE}
      BY <1>2, FindFd DEF SourceType
    <3>3. PICK watch : Rewatched(l, x, fd, watch)
      BY <3>2, KeventFilters, ZenonT(40)
    <3> HIDE DEF x
    <3> QED
      BY <2>1, <3>1, <3>3, RewatchedKeeps DEF Rewatched
  <2>4. CASE backend = "poll"
    <3>1. m = SwapRemove(l, fd)
      BY <1>2, <2>4 DEF sockify_event_loop_remove, poll_remove
    <3> QED
      BY <2>1, <3>1, SameKept
  <2> QED
    BY <2>2, <2>3, <2>4
<1> QED
  BY <1>1, <1>2

\* session_close: both descriptors are gone from table and kernel, also what a
\* failed add has left there.
LEMMA CloseTable ==
  ASSUME NEW l, NEW s \in Session, SourcesOk(l), backend \in {"epoll", "kqueue", "poll"},
         \A g \in Fd \ {Client(s), Target(s)} : WatchOk(l, g)
  PROVE  LET m == session_close(l, s)
         IN /\ TableOk(m) /\ OthersKept(l, m, {Client(s), Target(s)})
            /\ Registered(m) = Registered(l) \ {Client(s), Target(s)}
<1> DEFINE fds == {Client(s), Target(s)}
           a == sockify_event_loop_remove(l, Client(s))
           b == sockify_event_loop_remove(a, Target(s))
           c == sockify_net_close(b, Client(s))
           m == sockify_net_close(c, Target(s))
<1>1. Client(s) \in Fd /\ Target(s) \in Fd /\ Client(s) # Target(s)
  BY FdOfSession
<1>2. OthersKept(l, a, {Client(s)}) /\ Client(s) \notin Registered(a)
  BY <1>1, RemoveTable
<1> HIDE DEF a
<1>3. OthersKept(a, b, {Target(s)}) /\ Target(s) \notin Registered(b)
  BY <1>1, <1>2, RemoveTable DEF OthersKept
<1>4. OthersKept(l, b, fds)
  <2>1. OthersKept(l, a, fds) /\ OthersKept(a, b, fds)
    BY <1>2, <1>3, OthersKeptMore
  <2> QED
    BY <2>1, OthersKeptTrans
<1>5. fds \cap Registered(b) = {}
  BY <1>1, <1>2, <1>3 DEF OthersKept
<1> HIDE DEF b
<1>6. Rewatched(b, c, Client(s), Unwatched)
  BY <1>1, <1>4, Rewatch, UnwatchedType DEF OthersKept, sockify_net_close
<1> HIDE DEF c
<1>7. Rewatched(c, m, Target(s), Unwatched)
  BY <1>1, <1>6, Rewatch, UnwatchedType DEF Rewatched, sockify_net_close
<1>8. m = session_close(l, s)
  BY DEF session_close, a, b, c
<1> HIDE DEF m
<1>9. /\ OthersKept(b, c, {Client(s)}) /\ OthersKept(c, m, {Target(s)})
      /\ Registered(m) = Registered(b)
  <2>1. SourcesOk(b) /\ SourcesOk(c)
    BY <1>4, <1>6 DEF OthersKept, Rewatched
  <2> QED
    BY <1>6, <1>7, <2>1, RewatchedKeeps
<1>10. OthersKept(l, m, fds)
  <2>1. OthersKept(b, c, fds) /\ OthersKept(c, m, fds)
    BY <1>9, OthersKeptMore
  <2>2. OthersKept(l, c, fds)
    BY <1>4, <2>1, OthersKeptTrans
  <2> QED
    BY <2>1, <2>2, OthersKeptTrans
<1>11. m.kernel[Target(s)] = Unwatched /\ m.kernel[Client(s)] = Unwatched
  BY <1>1, <1>6, <1>7 DEF Rewatched
<1>12. \A g \in fds : g \notin Registered(m) /\ WatchOk(m, g)
  BY <1>5, <1>9, <1>11 DEF WatchOk
<1>13. Registered(m) = Registered(l) \ fds
  BY <1>10, <1>12 DEF OthersKept
<1>14. TableOk(m)
  BY <1>10, <1>12, OthersKeptOk
<1> QED
  BY <1>8, <1>10, <1>13, <1>14

-----------------------------------------------------------------------------
(* There is always a new address.                                          *)

LEMMA ImageSize ==
  ASSUME NEW S, IsFiniteSet(S), NEW T, NEW f \in [S -> T], \A t \in T : \E x \in S : f[x] = t
  PROVE  IsFiniteSet(T) /\ Cardinality(T) <= Cardinality(S)
BY FS_Surjection, SMTT(30) DEF Surjection

LEMMA FdSize == IsFiniteSet(Fd) /\ Cardinality(Fd) <= (2 * Cardinality(Session)) + 1
<1> DEFINE side == {"client", "target"}
           pairs == Session \X side
<1>1. IsFiniteSet(side) /\ Cardinality(side) = 2
  <2>1. IsFiniteSet({"client"}) /\ Cardinality({"client"}) = 1
    BY FS_Singleton
  <2>2. side = {"client"} \cup {"target"} /\ "target" \notin {"client"}
    OBVIOUS
  <2> QED
    BY <2>1, <2>2, FS_AddElement
<1>2. IsFiniteSet(Session) /\ Cardinality(Session) \in Nat
  BY EventLoopAssumption, FS_CardinalityType
<1> HIDE DEF side
<1>3. IsFiniteSet(pairs) /\ Cardinality(pairs) = Cardinality(Session) * 2
  BY <1>1, <1>2, FS_Product
<1>4. Fd = pairs \cup {Listener}
  BY DEF Fd, side
<1> HIDE DEF pairs
<1>5. IsFiniteSet(Fd) /\ Cardinality(Fd) <= Cardinality(pairs) + 1
  BY <1>2, <1>3, <1>4, FS_AddElement
<1> QED
  BY <1>2, <1>3, <1>5

\* What calloc returns for a source is not where another one lives, whatever the
\* batch still points to: a descriptor has one address there and one in the table.
LEMMA CallocFresh ==
  ASSUME NEW l, SourcesOk(l), NEW fd \in Fd \ Registered(l), backend # "poll",
         batch \subseteq EntryType, \A e, f \in batch : e.fd = f.fd => e.at = f.at
  PROVE  Calloc(l) \subseteq Addr \ Live(l)
<1> DEFINE fds == {e.fd : e \in batch}
           ats == {e.at : e \in batch}
           atOf == [g \in fds |-> (CHOOSE e \in batch : e.fd = g).at]
           liveAt == [g \in Registered(l) |-> Source(l, g).at]
           stale == ats \ Live(l)
           N == Cardinality(Session)
<1>1. \A e \in batch : e.fd \in Fd /\ e.at \in Addr
  BY DEF EntryType
<1>2. IsFiniteSet(Fd) /\ Cardinality(Fd) \in Nat /\ Cardinality(Fd) <= (2 * N) + 1 /\ N \in Nat
  BY FdSize, FS_CardinalityType, EventLoopAssumption
<1>3. IsFiniteSet(ats) /\ Cardinality(ats) <= Cardinality(Fd)
  <2>1. ASSUME NEW e \in batch PROVE atOf[e.fd] = e.at
    <3> DEFINE c == CHOOSE x \in batch : x.fd = e.fd
    <3>1. c \in batch /\ c.fd = e.fd
      OBVIOUS
    <3>2. c.at = e.at
      BY <3>1
    <3> QED
      BY <3>2
  <2>2. atOf \in [fds -> ats]
    BY <2>1
  <2>3. ASSUME NEW t \in ats PROVE \E x \in fds : atOf[x] = t
    <3>1. PICK e \in batch : e.at = t
      OBVIOUS
    <3>2. e.fd \in fds
      OBVIOUS
    <3>3. atOf[e.fd] = t
      BY <2>1, <3>1
    <3> HIDE DEF fds, atOf
    <3> QED
      BY <3>2, <3>3
  <2>4. fds \in SUBSET Fd
    BY <1>1
  <2> HIDE DEF fds, ats, atOf
  <2>5. IsFiniteSet(fds) /\ Cardinality(fds) <= Cardinality(Fd) /\ Cardinality(fds) \in Nat
    BY <1>2, <2>4, FS_Subset, FS_CardinalityType
  <2>6. IsFiniteSet(ats) /\ Cardinality(ats) <= Cardinality(fds)
    BY <2>2, <2>3, <2>5, ImageSize
  <2>7. Cardinality(ats) \in Nat
    BY <2>6, FS_CardinalityType
  <2> QED
    BY <1>2, <2>5, <2>6, <2>7
<1>4. IsFiniteSet(Live(l)) /\ Cardinality(Live(l)) <= Cardinality(Fd) - 1
  <2>1. liveAt \in [Registered(l) -> Live(l)]
    BY FindFd DEF Live
  <2>2. \A t \in Live(l) : \E g \in Registered(l) : liveAt[g] = t
    BY FindPlace DEF Live
  <2>3. Registered(l) \in SUBSET (Fd \ {fd})
    BY FindFd
  <2> HIDE DEF liveAt
  <2>4. IsFiniteSet(Fd \ {fd}) /\ Cardinality(Fd \ {fd}) = Cardinality(Fd) - 1
    BY <1>2, FS_RemoveElement
  <2>5. IsFiniteSet(Registered(l)) /\ Cardinality(Registered(l)) <= Cardinality(Fd) - 1
    BY <2>3, <2>4, FS_Subset
  <2>6. IsFiniteSet(Live(l)) /\ Cardinality(Live(l)) <= Cardinality(Registered(l))
    BY <2>1, <2>2, <2>5, ImageSize
  <2>7. Cardinality(Live(l)) \in Nat /\ Cardinality(Registered(l)) \in Nat
    BY <2>5, <2>6, FS_CardinalityType
  <2> QED
    BY <1>2, <2>5, <2>6, <2>7
<1>5. \E a \in Addr : a \notin Live(l) \cup stale
  <2> HIDE DEF ats
  <2>1. stale \in SUBSET ats
    OBVIOUS
  <2> HIDE DEF stale
  <2>2. IsFiniteSet(stale) /\ Cardinality(stale) <= Cardinality(ats)
    BY <1>3, <2>1, FS_Subset
  <2>3. /\ IsFiniteSet(Live(l) \cup stale) /\ IsFiniteSet(Live(l) \cap stale)
        /\ Cardinality(Live(l) \cup stale) =
             Cardinality(Live(l)) + Cardinality(stale) - Cardinality(Live(l) \cap stale)
    BY <1>4, <2>2, FS_Union, FS_Intersection
  <2>4. /\ Cardinality(stale) \in Nat /\ Cardinality(Live(l)) \in Nat /\ Cardinality(ats) \in Nat
        /\ Cardinality(Live(l) \cap stale) \in Nat /\ Cardinality(Live(l) \cup stale) \in Nat
    BY <1>3, <1>4, <2>2, <2>3, FS_CardinalityType
  <2>5. Cardinality(Live(l) \cup stale) <= (4 * N) + 1
    BY <1>2, <1>3, <1>4, <2>2, <2>3, <2>4
  <2>6. IsFiniteSet(Addr) /\ Cardinality(Addr) >= (4 * N) + 2 /\ Cardinality(Addr) \in Nat
    BY EventLoopAssumption, FS_CardinalityType
  <2>7. CASE Addr \in SUBSET (Live(l) \cup stale)
    <3>1. Cardinality(Addr) <= Cardinality(Live(l) \cup stale)
      BY <2>3, <2>7, FS_Subset
    <3> QED
      BY <1>2, <2>4, <2>5, <2>6, <3>1
  <2> QED
    BY <2>7
<1> DEFINE new == CHOOSE a \in Addr : a \notin Live(l) \cup stale
<1>6. new \in Addr /\ new \notin Live(l)
  BY <1>5
<1>7. Calloc(l) = stale \cup {new}
  BY DEF Calloc
<1>8. stale \subseteq Addr \ Live(l)
  BY <1>1
<1> HIDE DEF new, stale
<1> QED
  BY <1>6, <1>7, <1>8

-----------------------------------------------------------------------------
(* What a step has to keep.                                                *)

\* Who is in both tables has the same pointer, and no later place.
Retains(l, m) ==
  \A g \in Registered(l) \cap Registered(m) :
    Source(m, g).at = Source(l, g).at /\ find(m, g) <= find(l, g)

LEMMA RetainsKept ==
  ASSUME NEW l, NEW m, NEW fds, OthersKept(l, m, fds),
         fds \cap Registered(l) \cap Registered(m) = {}
  PROVE  Retains(l, m)
BY DEF Retains, OthersKept, Keeps

LEMMA PrimedTable ==
  ASSUME backend' = backend, TableOk(loop')
  PROVE  TableOk(loop)'
BY DEF TableOk, SourcesOk, WatchOk, LoopType, SourceType, WatchType

LEMMA TypedBackend ==
  ASSUME TypeOK
  PROVE  backend \in {"epoll", "kqueue", "poll"}
BY EventLoopAssumption DEF TypeOK

\* Entries are only taken out of the batch, and nobody registers whose
\* entry is in it.
LEMMA PendingKept ==
  ASSUME TypeOK, SourcesOk(loop), SourcesOk(loop'), PendingResolves,
         backend' = backend, batch' \subseteq batch, Retains(loop, loop'),
         \A e \in batch : e.fd \in Registered(loop') => e.fd \in Registered(loop)
  PROVE  PendingResolves'
<1> SUFFICES ASSUME NEW e \in batch', e.fd \in Registered(loop')
             PROVE  IF backend = "poll" THEN find(loop', e.fd) <= e.at
                    ELSE Source(loop', e.fd).at = e.at
  BY DEF PendingResolves
<1>1. e \in batch /\ e.fd \in Registered(loop)
  OBVIOUS
<1>2. Source(loop', e.fd).at = Source(loop, e.fd).at /\ find(loop', e.fd) <= find(loop, e.fd)
  BY <1>1 DEF Retains
<1>3. IF backend = "poll" THEN find(loop, e.fd) <= e.at ELSE Source(loop, e.fd).at = e.at
  BY <1>1 DEF PendingResolves
<1>4. find(loop, e.fd) \in Int /\ find(loop', e.fd) \in Int
  BY <1>1, FindFd
<1>5. backend = "poll" => e.at \in Nat
  BY <1>1 DEF TypeOK, EntryType
<1> QED
  BY <1>2, <1>3, <1>4, <1>5

LEMMA BatchType ==
  ASSUME TypeOK, backend' = backend, batch' \subseteq batch
  PROVE  batch' \subseteq EntryType'
BY DEF TypeOK, EntryType

\* A callback is that of a registered descriptor.
LEMMA CalledFd ==
  ASSUME TypeOK, SourcesOk(loop), NEW fd, Called(fd)
  PROVE  /\ pc = "walk" /\ fd \in Registered(loop)
         /\ batch' \subseteq batch /\ i' \in Nat \ {0}
<1>1. PICK e \in Entries : Calls(e, fd)
  BY DEF Called
<1>2. pc = "walk" /\ batch' \subseteq batch /\ i' \in Nat \ {0}
  BY <1>1 DEF Calls, TypeOK
<1>3. CASE backend = "poll"
  <2>1. i <= Len(loop.sources) /\ loop.sources[i].fd = fd
    BY <1>1, <1>3 DEF Calls
  <2>2. i \in Nat \ {0} /\ loop.sources \in Seq(SourceType)
    BY DEF TypeOK, SourcesOk, LoopType
  <2>3. i \in DOMAIN loop.sources
    BY <2>1, <2>2
  <2> QED
    BY <1>2, <2>1, <2>3 DEF Registered
<1>4. CASE backend # "poll"
  BY <1>1, <1>2, <1>4 DEF Calls
<1> QED
  BY <1>3, <1>4

LEMMA SessionOpen ==
  ASSUME StateInv, NEW s \in Session, NEW fd \in {Client(s), Target(s)}, fd \in Registered(loop)
  PROVE  state[s] = "open" /\ Client(s) \in Registered(loop)
BY DEF StateInv

\* A descriptor that is not registered although its session is not closed has
\* no entry in the batch.
LEMMA NewNotInBatch ==
  ASSUME BatchInv, NEW s \in Session, state[s] # "closed", NEW fd \in {Client(s), Target(s)},
         fd \notin Registered(loop)
  PROVE  \A e \in batch : e.fd # fd
BY DEF BatchInv

-----------------------------------------------------------------------------
(* The steps of the callbacks.                                             *)

\* session_close, also after an add that has failed.
LEMMA ClosesKeeps ==
  ASSUME LoopInv, NEW s \in Session, NEW l, OthersKept(loop, l, {Client(s), Target(s)}),
         Closes(s, l), backend' = backend, batch' \subseteq batch, i' \in Nat \ {0},
         polled' \in Nat, pc' \in {"wait", "walk", "accept", "tick", "undefined", "ended"}
  PROVE  LoopInv'
<1> DEFINE fds == {Client(s), Target(s)}
<1> USE DEF LoopInv
<1>1. TableOk(loop) /\ SourcesOk(loop) /\ backend \in {"epoll", "kqueue", "poll"}
  BY TypedBackend DEF TableOk
<1>2. SourcesOk(l) /\ \A g \in Fd \ fds : WatchOk(l, g)
  BY <1>1, WatchKept DEF OthersKept, TableOk
<1>3. /\ TableOk(loop') /\ OthersKept(l, loop', fds)
      /\ Registered(loop') = Registered(l) \ fds
  BY <1>1, <1>2, CloseTable DEF Closes
<1>4. OthersKept(loop, loop', fds)
  BY <1>1, <1>3, OthersKeptTrans
<1>5. Registered(loop') = Registered(loop) \ fds
  BY <1>3 DEF OthersKept
<1>6. SourcesOk(loop') /\ Retains(loop, loop')
  BY <1>3, <1>4, <1>5, RetainsKept DEF TableOk
<1>7. /\ state' = [state EXCEPT ![s] = "closed"]
      /\ ready' = ready \ fds /\ failed' = failed \ fds
  BY DEF Closes
<1> HIDE DEF fds
<1>8. TypeOK'
  BY <1>7, BatchType DEF TypeOK
<1>9. TableOk(loop)'
  BY <1>3, PrimedTable
<1>10. StateInv'
  <2>1. Listener \in Registered(loop')
    BY <1>5, FdOfSession DEF StateInv, fds
  <2>2. ASSUME NEW t \in Session
        PROVE  IF state'[t] = "open" THEN Client(t) \in Registered(loop')
               ELSE Client(t) \notin Registered(loop') /\ Target(t) \notin Registered(loop')
    <3>1. CASE t = s
      BY <1>5, <1>7, <3>1 DEF TypeOK, fds
    <3>2. CASE t # s
      <4>1. Client(t) \notin fds /\ Target(t) \notin fds
        BY <3>2, FdDistinct DEF fds
      <4>2. state'[t] = state[t]
        BY <1>7, <3>2 DEF TypeOK
      <4> QED
        BY <1>5, <4>1, <4>2 DEF StateInv
    <3> QED
      BY <3>1, <3>2
  <2> QED
    BY <2>1, <2>2 DEF StateInv
<1>11. InterestAgrees'
  <2> SUFFICES ASSUME backend # "poll", NEW g \in Registered(loop') \ failed'
               PROVE  loop'.kernel[g].events = Source(loop', g).events
    BY DEF InterestAgrees
  <2>1. g \in Registered(loop) \ failed /\ g \notin fds /\ g \in Fd
    BY <1>1, <1>5, <1>7, FindFd
  <2>2. loop'.kernel[g] = loop.kernel[g] /\ Source(loop', g) = Source(loop, g)
    BY <1>4, <2>1, WatchKept
  <2> QED
    BY <2>1, <2>2 DEF InterestAgrees
<1>12. BatchInv'
  <2>1. ASSUME NEW e \in batch', NEW t \in Session, e.fd \in {Client(t), Target(t)}
        PROVE  state'[t] = "closed" \/ (state'[t] = "open" /\ e.fd \in Registered(loop'))
    <3>1. state[t] = "closed" \/ (state[t] = "open" /\ e.fd \in Registered(loop))
      BY <2>1 DEF BatchInv
    <3>2. CASE t = s
      BY <1>7, <3>2 DEF TypeOK
    <3>3. CASE t # s
      <4>1. e.fd \notin fds
        BY <2>1, <3>3, FdDistinct DEF fds
      <4>2. state'[t] = state[t]
        BY <1>7, <3>3 DEF TypeOK
      <4> QED
        BY <1>5, <3>1, <4>1, <4>2
    <3> QED
      BY <3>2, <3>3
  <2> QED
    BY <2>1 DEF BatchInv
<1>13. PendingResolves'
  BY <1>1, <1>5, <1>6, PendingKept
<1> QED
  BY <1>8, <1>9, <1>10, <1>11, <1>12, <1>13

\* session_update_events, for a table l with the session's sources in it.
LEMMA UpdatesTable ==
  ASSUME NEW s \in Session, NEW l, NEW fd, TableOk(l), backend \in {"epoll", "kqueue", "poll"},
         Client(s) \in Registered(l), Updates(s, l, fd)
  PROVE  /\ TableOk(loop') /\ Registered(loop') = Registered(l) /\ Retains(l, loop')
         /\ \A g \in Registered(l) \ failed' : AgreesOn(l, g) => AgreesOn(loop', g)
         /\ failed \subseteq failed' /\ failed' \subseteq failed \cup {Client(s), Target(s)}
         /\ ready' \subseteq ready /\ state' = state
<1>1. PICK client \in Interests, target \in Interests :
        \E r1 \in sockify_event_loop_modify(l, Client(s), client) :
          \E r2 \in IF Target(s) \in Registered(l)
                    THEN sockify_event_loop_modify(r1.loop, Target(s), target)
                    ELSE {Done(r1.loop)} :
            /\ loop' = r2.loop
            /\ failed' = failed \cup {f \in {Client(s)} : ~r1.ok} \cup {f \in {Target(s)} : ~r2.ok}
            /\ ready' = ready \ {fd}
            /\ UNCHANGED state
  BY DEF Updates
<1>2. PICK r1 \in sockify_event_loop_modify(l, Client(s), client) :
        \E r2 \in IF Target(s) \in Registered(l)
                  THEN sockify_event_loop_modify(r1.loop, Target(s), target)
                  ELSE {Done(r1.loop)} :
          /\ loop' = r2.loop
          /\ failed' = failed \cup {f \in {Client(s)} : ~r1.ok} \cup {f \in {Target(s)} : ~r2.ok}
          /\ ready' = ready \ {fd}
          /\ UNCHANGED state
  BY <1>1
<1>3. PICK r2 \in IF Target(s) \in Registered(l)
                  THEN sockify_event_loop_modify(r1.loop, Target(s), target)
                  ELSE {Done(r1.loop)} :
        /\ loop' = r2.loop
        /\ failed' = failed \cup {f \in {Client(s)} : ~r1.ok} \cup {f \in {Target(s)} : ~r2.ok}
        /\ ready' = ready \ {fd}
        /\ UNCHANGED state
  BY <1>2
<1>4. client \in SUBSET {READ, WRITE} /\ target \in SUBSET {READ, WRITE}
  BY EventLoopAssumption DEF READ, WRITE
<1>5. Client(s) # Target(s) /\ Client(s) \in Fd /\ Target(s) \in Fd
  BY FdOfSession
<1>6. Modified(l, r1, Client(s)) /\ SourcesOk(l)
  BY <1>4, ModifyTable DEF TableOk
<1>7. TableOk(r1.loop) /\ Registered(r1.loop) = Registered(l) /\ SourcesOk(r1.loop)
  BY <1>6 DEF Modified, TableOk
<1>8. \/ Target(s) \in Registered(l) /\ Modified(r1.loop, r2, Target(s))
      \/ Target(s) \notin Registered(l) /\ r2 = Done(r1.loop)
  BY <1>3, <1>4, <1>7, ModifyTable
<1>9. TableOk(loop') /\ Registered(loop') = Registered(l)
  BY <1>3, <1>7, <1>8 DEF Modified, Done
<1>10. ASSUME NEW m, NEW r, NEW x, Modified(m, r, x), SourcesOk(m), NEW g \in Registered(m)
      PROVE  /\ Source(r.loop, g).at = Source(m, g).at /\ find(r.loop, g) <= find(m, g)
             /\ g # x /\ AgreesOn(m, g) => AgreesOn(r.loop, g)
  <2>1. CASE g = x
    <3>1. find(m, g) \in Int
      BY <1>10, FindFd
    <3> QED
      BY <1>10, <2>1, <3>1 DEF Modified
  <2>2. CASE g # x
    <3>1. g \in Fd
      BY <1>10, FindFd
    <3>2. Source(r.loop, g) = Source(m, g) /\ find(r.loop, g) <= find(m, g)
      BY <1>10, <2>2 DEF Modified, OthersKept, Keeps
    <3>3. r.loop.kernel[g] = m.kernel[g]
      BY <1>10, <2>2, <3>1 DEF Modified, OthersKept
    <3> QED
      BY <3>2, <3>3 DEF AgreesOn
  <2> QED
    BY <2>1, <2>2
<1>11. ASSUME NEW g \in Registered(l)
       PROVE  /\ Source(loop', g).at = Source(l, g).at /\ find(loop', g) <= find(l, g)
              /\ g \notin failed' /\ AgreesOn(l, g) => AgreesOn(loop', g)
  <2>1. /\ Source(r1.loop, g).at = Source(l, g).at /\ find(r1.loop, g) <= find(l, g)
        /\ g # Client(s) /\ AgreesOn(l, g) => AgreesOn(r1.loop, g)
    BY <1>6, <1>10
  <2>2. g = Client(s) /\ g \notin failed' /\ AgreesOn(l, g) => AgreesOn(r1.loop, g)
    BY <1>3, <1>6 DEF Modified
  <2>3. CASE Target(s) \in Registered(l) /\ Modified(r1.loop, r2, Target(s))
    <3>1. /\ Source(r2.loop, g).at = Source(r1.loop, g).at /\ find(r2.loop, g) <= find(r1.loop, g)
          /\ g # Target(s) /\ AgreesOn(r1.loop, g) => AgreesOn(r2.loop, g)
      BY <1>7, <1>10, <2>3
    <3>2. g = Target(s) /\ g \notin failed' /\ AgreesOn(r1.loop, g) => AgreesOn(r2.loop, g)
      BY <1>3, <2>3 DEF Modified
    <3>3. find(l, g) \in Int /\ find(r1.loop, g) \in Int /\ find(loop', g) \in Int
      BY <1>6, <1>7, <1>9, FindFd DEF TableOk
    <3> QED
      BY <1>3, <2>1, <2>2, <3>1, <3>2, <3>3
  <2>4. CASE Target(s) \notin Registered(l) /\ r2 = Done(r1.loop)
    <3>1. loop' = r1.loop
      BY <1>3, <2>4 DEF Done
    <3> QED
      BY <2>1, <2>2, <3>1
  <2> QED
    BY <1>8, <2>3, <2>4
<1>12. Retains(l, loop')
  BY <1>11 DEF Retains
<1> QED
  BY <1>3, <1>9, <1>11, <1>12

\* The same with the rest of the state.  The table may have a target that loop
\* has not, as long as the batch does not know of it.
LEMMA UpdatesKeeps ==
  ASSUME LoopInv, NEW s \in Session, NEW l, NEW fd, state[s] = "open", Updates(s, l, fd),
         TableOk(l), Registered(loop) \subseteq Registered(l),
         Registered(l) \subseteq Registered(loop) \cup {Target(s)}, Retains(loop, l),
         \A g \in Registered(l) \ failed : AgreesOn(l, g),
         \A e \in batch : e.fd \in Registered(l) => e.fd \in Registered(loop),
         backend' = backend, batch' \subseteq batch, i' \in Nat \ {0}, UNCHANGED <<pc, polled>>
  PROVE  LoopInv'
<1> USE DEF LoopInv
<1>1. /\ TableOk(loop) /\ SourcesOk(loop) /\ backend \in {"epoll", "kqueue", "poll"}
      /\ Client(s) \in Registered(l) /\ SourcesOk(l)
  BY TypedBackend DEF TableOk, StateInv
<1>2. /\ TableOk(loop') /\ Registered(loop') = Registered(l) /\ Retains(l, loop')
      /\ \A g \in Registered(l) \ failed' : AgreesOn(l, g) => AgreesOn(loop', g)
      /\ failed \subseteq failed' /\ failed' \subseteq failed \cup {Client(s), Target(s)}
      /\ ready' \subseteq ready /\ state' = state
  BY <1>1, UpdatesTable
<1>3. SourcesOk(loop') /\ Retains(loop, loop')
  <2>1. SourcesOk(loop')
    BY <1>2 DEF TableOk
  <2>2. \A g \in Registered(loop) :
          find(loop, g) \in Int /\ find(l, g) \in Int /\ find(loop', g) \in Int
    BY <1>1, <1>2, <2>1, FindFd
  <2> QED
    BY <1>2, <2>1, <2>2 DEF Retains
<1>4. TypeOK'
  <2>1. Client(s) \in Fd /\ Target(s) \in Fd
    BY FdOfSession
  <2> QED
    BY <1>2, <2>1, BatchType DEF TypeOK
<1>5. TableOk(loop)'
  BY <1>2, PrimedTable
<1>6. StateInv'
  <2>1. \A t \in Session : t # s => Client(t) # Target(s) /\ Target(t) # Target(s)
    BY FdDistinct
  <2> QED
    BY <1>1, <1>2, <2>1 DEF StateInv
<1>7. InterestAgrees'
  BY <1>2 DEF InterestAgrees, AgreesOn
<1>8. BatchInv'
  BY <1>2 DEF BatchInv
<1>9. PendingResolves'
  BY <1>1, <1>2, <1>3, PendingKept
<1> QED
  BY <1>4, <1>5, <1>6, <1>7, <1>8, <1>9

\* Whoever calls add: what it needs is there.
LEMMA AddKeeps ==
  ASSUME LoopInv, NEW fd \in Fd \ Registered(loop), NEW events \in SUBSET {READ, WRITE},
         NEW r \in sockify_event_loop_add(loop, fd, events)
  PROVE  /\ OthersKept(loop, r.loop, {fd})
         /\ r.ok => /\ TableOk(r.loop) /\ Registered(r.loop) = Registered(loop) \cup {fd}
                    /\ Retains(loop, r.loop)
                    /\ \A g \in Registered(r.loop) \ failed : AgreesOn(r.loop, g)
<1> USE DEF LoopInv
<1>1. TableOk(loop) /\ SourcesOk(loop) /\ backend \in {"epoll", "kqueue", "poll"}
  BY TypedBackend DEF TableOk
<1>2. backend # "poll" => Calloc(loop) \subseteq Addr \ Live(loop)
  BY <1>1, CallocFresh DEF TypeOK, BatchInv
<1>3. Added(loop, r, fd)
  BY <1>1, <1>2, AddTable
<1>4. OthersKept(loop, r.loop, {fd})
  BY <1>3 DEF Added
<1>5. ASSUME r.ok
      PROVE  /\ TableOk(r.loop) /\ Registered(r.loop) = Registered(loop) \cup {fd}
             /\ Retains(loop, r.loop)
             /\ \A g \in Registered(r.loop) \ failed : AgreesOn(r.loop, g)
  <2>1. fd \in Registered(r.loop) /\ WatchOk(r.loop, fd) /\ AgreesOn(r.loop, fd)
    BY <1>3, <1>5 DEF Added
  <2>2. TableOk(r.loop)
    BY <1>1, <1>4, <2>1, ModifiedOk
  <2>3. Registered(r.loop) = Registered(loop) \cup {fd}
    BY <1>4, <2>1 DEF OthersKept
  <2>4. Retains(loop, r.loop)
    BY <1>4, RetainsKept
  <2>5. ASSUME NEW g \in Registered(r.loop) \ failed PROVE AgreesOn(r.loop, g)
    <3>1. CASE g = fd
      BY <2>1, <3>1
    <3>2. CASE g # fd
      <4>1. g \in Registered(loop) \ failed /\ g \in Fd \ {fd}
        BY <1>1, <2>3, <2>5, <3>2, FindFd
      <4>2. r.loop.kernel[g] = loop.kernel[g] /\ Source(r.loop, g) = Source(loop, g)
        BY <1>4, <4>1, WatchKept
      <4> QED
        BY <4>1, <4>2 DEF InterestAgrees, AgreesOn
    <3> QED
      BY <3>1, <3>2
  <2> QED
    BY <2>2, <2>3, <2>4, <2>5
<1> QED
  BY <1>4, <1>5

LEMMA AcceptKeeps ==
  ASSUME LoopInv, NEW s \in Session, Accept(s)
  PROVE  LoopInv'
<1> USE DEF LoopInv
<1> DEFINE events == IF ClientTls THEN {READ, WRITE} ELSE {READ}
<1>1. PICK r \in sockify_event_loop_add(loop, Client(s), events) :
        IF r.ok THEN /\ loop' = r.loop /\ state' = [state EXCEPT ![s] = "open"]
                     /\ UNCHANGED <<pc, ready, failed>>
        ELSE Closes(s, r.loop) /\ pc' = "walk"
  BY DEF Accept
<1>2. state[s] = "pending" /\ UNCHANGED <<backend, batch, i, polled>>
  BY DEF Accept
<1>3. Client(s) \in Fd \ Registered(loop) /\ Target(s) \notin Registered(loop)
  BY <1>2, FdOfSession DEF StateInv
<1>4. events \in SUBSET {READ, WRITE}
  OBVIOUS
<1> HIDE DEF events
<1>5. /\ OthersKept(loop, r.loop, {Client(s)})
      /\ r.ok => /\ TableOk(r.loop) /\ Registered(r.loop) = Registered(loop) \cup {Client(s)}
                 /\ Retains(loop, r.loop)
                 /\ \A g \in Registered(r.loop) \ failed : AgreesOn(r.loop, g)
  BY <1>3, <1>4, AddKeeps
<1>6. CASE ~r.ok
  <2>1. OthersKept(loop, r.loop, {Client(s), Target(s)})
    BY <1>5, OthersKeptMore
  <2>2. Closes(s, r.loop) /\ pc' = "walk" /\ batch' \subseteq batch /\ i' \in Nat \ {0} /\ polled' \in Nat
    BY <1>1, <1>2, <1>6 DEF TypeOK
  <2> QED
    BY <1>2, <2>1, <2>2, ClosesKeeps
<1>7. CASE r.ok
  <2>1. loop' = r.loop /\ state' = [state EXCEPT ![s] = "open"] /\ UNCHANGED <<pc, ready, failed>>
    BY <1>1, <1>7
  <2>2. /\ TableOk(loop') /\ Registered(loop') = Registered(loop) \cup {Client(s)}
        /\ Retains(loop, loop') /\ \A g \in Registered(loop') \ failed : AgreesOn(loop', g)
    BY <1>5, <1>7, <2>1
  <2>3. /\ state' \in [Session -> {"none", "pending", "open", "closed"}]
        /\ state'[s] = "open" /\ \A t \in Session : t # s => state'[t] = state[t]
    BY <2>1 DEF TypeOK
  <2>4. TypeOK'
    BY <1>2, <2>1, <2>3, BatchType DEF TypeOK
  <2>5. StateInv'
    <3>1. \A t \in Session : t # s => Client(t) # Client(s) /\ Target(t) # Client(s)
      BY FdDistinct
    <3> QED
      BY <2>2, <2>3, <3>1 DEF StateInv
  <2>6. InterestAgrees'
    BY <1>2, <2>1, <2>2 DEF InterestAgrees, AgreesOn
  <2>7. BatchInv'
    <3>1. ASSUME NEW e \in batch, NEW t \in Session, e.fd \in {Client(t), Target(t)}
          PROVE  state'[t] = "closed" \/ (state'[t] = "open" /\ e.fd \in Registered(loop'))
      <4>1. state[t] = "closed" \/ (state[t] = "open" /\ e.fd \in Registered(loop))
        BY <3>1 DEF BatchInv
      <4>2. t # s
        BY <1>2, <4>1
      <4> QED
        BY <2>2, <2>3, <4>1, <4>2
    <3> QED
      BY <1>2, <3>1 DEF BatchInv
  <2>8. PendingResolves'
    <3>1. \A e \in batch : e.fd # Client(s)
      BY <1>2, <1>3, NewNotInBatch
    <3>2. SourcesOk(loop) /\ SourcesOk(loop')
      BY <2>2 DEF TableOk
    <3> QED
      BY <1>2, <2>2, <3>1, <3>2, PendingKept
  <2>9. TableOk(loop)'
    BY <1>2, <2>2, PrimedTable
  <2> QED
    BY <2>4, <2>5, <2>6, <2>7, <2>8, <2>9
<1> QED
  BY <1>6, <1>7

LEMMA HandlesKeeps ==
  ASSUME LoopInv, NEW s \in Session, NEW fd \in {Client(s), Target(s)}, SessionHandles(s, fd)
  PROVE  LoopInv'
<1> USE DEF LoopInv
<1>1. Called(fd) /\ Updates(s, loop, fd) /\ UNCHANGED <<backend, pc, polled>>
  BY DEF SessionHandles
<1>2. TableOk(loop) /\ SourcesOk(loop)
  BY DEF TableOk
<1>3. fd \in Registered(loop) /\ batch' \subseteq batch /\ i' \in Nat \ {0}
  BY <1>1, <1>2, CalledFd
<1>4. state[s] = "open"
  BY <1>3, SessionOpen
<1>5. Retains(loop, loop)
  BY <1>2, FindFd DEF Retains
<1>6. \A g \in Registered(loop) \ failed : AgreesOn(loop, g)
  BY DEF InterestAgrees, AgreesOn
<1> QED
  BY <1>1, <1>2, <1>3, <1>4, <1>5, <1>6, UpdatesKeeps

LEMMA ClosesByCallback ==
  ASSUME LoopInv, NEW s \in Session, NEW fd \in {Client(s), Target(s)}, SessionCloses(s, fd)
  PROVE  LoopInv'
<1> USE DEF LoopInv
<1>1. Called(fd) /\ Closes(s, loop) /\ UNCHANGED <<backend, pc, polled>>
  BY DEF SessionCloses
<1>2. SourcesOk(loop)
  BY DEF TableOk
<1>3. batch' \subseteq batch /\ i' \in Nat \ {0}
  BY <1>1, <1>2, CalledFd
<1>4. OthersKept(loop, loop, {Client(s), Target(s)})
  BY <1>2, SameKept
<1>5. polled' \in Nat /\ pc' \in {"wait", "walk", "accept", "tick", "undefined", "ended"}
  BY <1>1 DEF TypeOK
<1> QED
  BY <1>1, <1>3, <1>4, <1>5, ClosesKeeps

LEMMA TickClosesKeeps ==
  ASSUME LoopInv, NEW s \in Session, TickCloses(s)
  PROVE  LoopInv'
<1> USE DEF LoopInv
<1>1. Closes(s, loop) /\ UNCHANGED <<backend, pc, batch, i, polled>>
  BY DEF TickCloses
<1>2. SourcesOk(loop)
  BY DEF TableOk
<1>3. OthersKept(loop, loop, {Client(s), Target(s)})
  BY <1>2, SameKept
<1>4. /\ polled' \in Nat /\ pc' \in {"wait", "walk", "accept", "tick", "undefined", "ended"}
      /\ batch' \subseteq batch /\ i' \in Nat \ {0}
  BY <1>1 DEF TypeOK
<1> QED
  BY <1>1, <1>3, <1>4, ClosesKeeps

LEMMA UpgradesKeeps ==
  ASSUME LoopInv, NEW s \in Session, SessionUpgrades(s)
  PROVE  LoopInv'
<1> USE DEF LoopInv
<1>1. /\ Called(Client(s)) /\ Target(s) \notin Registered(loop)
      /\ UNCHANGED <<backend, pc, polled>>
  BY DEF SessionUpgrades
<1>2. PICK r \in sockify_event_loop_add(loop, Target(s), {WRITE}) :
        IF r.ok THEN Updates(s, r.loop, Client(s)) ELSE Closes(s, r.loop)
  BY DEF SessionUpgrades
<1>3. SourcesOk(loop) /\ TableOk(loop)
  BY DEF TableOk
<1>4. Client(s) \in Registered(loop) /\ batch' \subseteq batch /\ i' \in Nat \ {0}
  BY <1>1, <1>3, CalledFd
<1>5. state[s] = "open"
  BY <1>4, SessionOpen
<1>6. Target(s) \in Fd \ Registered(loop) /\ {WRITE} \in SUBSET {READ, WRITE}
  BY <1>1, FdOfSession
<1>7. /\ OthersKept(loop, r.loop, {Target(s)})
      /\ r.ok => /\ TableOk(r.loop) /\ Registered(r.loop) = Registered(loop) \cup {Target(s)}
                 /\ Retains(loop, r.loop)
                 /\ \A g \in Registered(r.loop) \ failed : AgreesOn(r.loop, g)
  BY <1>6, AddKeeps
<1>8. CASE r.ok
  <2>1. \A e \in batch : e.fd # Target(s)
    BY <1>1, <1>5, NewNotInBatch
  <2> QED
    BY <1>1, <1>2, <1>4, <1>5, <1>7, <1>8, <2>1, UpdatesKeeps
<1>9. CASE ~r.ok
  <2>1. OthersKept(loop, r.loop, {Client(s), Target(s)})
    BY <1>7, OthersKeptMore
  <2>2. polled' \in Nat /\ pc' \in {"wait", "walk", "accept", "tick", "undefined", "ended"}
    BY <1>1 DEF TypeOK
  <2> QED
    BY <1>1, <1>2, <1>4, <1>9, <2>1, <2>2, ClosesKeeps
<1> QED
  BY <1>8, <1>9

-----------------------------------------------------------------------------
(* The steps that leave the table alone.                                   *)

LEMMA SameTable ==
  ASSUME LoopInv, UNCHANGED <<backend, loop>>
  PROVE  /\ TableOk(loop)' /\ Registered(loop') = Registered(loop)
         /\ UNCHANGED state => StateInv'
         /\ UNCHANGED failed => InterestAgrees'
<1>1. TableOk(loop)'
  BY PrimedTable DEF LoopInv
<1> QED
  BY <1>1 DEF LoopInv, StateInv, InterestAgrees

\* Entries go, sessions arrive.
LEMMA QuietKeeps ==
  ASSUME LoopInv, UNCHANGED <<backend, loop, failed>>, batch' \subseteq batch,
         pc' \in {"wait", "walk", "accept", "tick", "undefined", "ended"},
         i' \in Nat \ {0}, polled' \in Nat, ready' \subseteq Fd,
         state' \in [Session -> {"none", "pending", "open", "closed"}],
         \A s \in Session : state'[s] = state[s] \/ (state[s] = "none" /\ state'[s] = "pending")
  PROVE  LoopInv'
<1> USE DEF LoopInv
<1>1. TableOk(loop)' /\ InterestAgrees'
  BY SameTable
<1>2. TypeOK'
  BY BatchType DEF TypeOK
<1>3. \A s \in Session : (state'[s] = "open" <=> state[s] = "open") /\ (state[s] = "closed" => state'[s] = "closed")
  OBVIOUS
<1>4. StateInv'
  BY <1>3 DEF StateInv
<1>5. BatchInv'
  BY <1>3 DEF BatchInv
<1>6. PendingResolves'
  BY DEF PendingResolves
<1> QED
  BY <1>1, <1>2, <1>4, <1>5, <1>6

\* A wait reports sources that are there.
LEMMA WalkKeeps ==
  ASSUME LoopInv, NEW reported, Walk(reported), reported \subseteq EntryType,
         i' \in Nat \ {0}, polled' \in Nat,
         \A e \in reported :
           /\ e.fd \in Registered(loop)
           /\ IF backend = "poll" THEN find(loop, e.fd) <= e.at ELSE Source(loop, e.fd).at = e.at
  PROVE  LoopInv'
<1> USE DEF LoopInv
<1>1. pc' = "walk" /\ batch' = reported /\ UNCHANGED <<backend, loop, state, ready, failed>>
  BY DEF Walk
<1>2. TableOk(loop)' /\ StateInv' /\ InterestAgrees'
  BY <1>1, SameTable
<1>3. TypeOK'
  BY <1>1 DEF TypeOK, EntryType
<1>4. BatchInv'
  <2>1. ASSUME NEW e \in reported, NEW s \in Session, e.fd \in {Client(s), Target(s)}
        PROVE  state[s] = "open" /\ e.fd \in Registered(loop)
    BY <2>1, SessionOpen
  <2>2. backend # "poll" => \A e, f \in reported : e.fd = f.fd => e.at = f.at
    <3> SUFFICES ASSUME backend # "poll", NEW e \in reported, NEW f \in reported, e.fd = f.fd
                 PROVE  e.at = f.at
      OBVIOUS
    <3>1. Source(loop, e.fd).at = e.at /\ Source(loop, f.fd).at = f.at
      OBVIOUS
    <3> QED
      BY <3>1
  <2> QED
    BY <1>1, <2>1, <2>2 DEF BatchInv
<1>5. PendingResolves'
  BY <1>1 DEF PendingResolves
<1> QED
  BY <1>2, <1>3, <1>4, <1>5

LEMMA EpollWaitKeeps ==
  ASSUME LoopInv, EpollWait
  PROVE  LoopInv'
<1> USE DEF LoopInv
<1>1. PICK broken \in SUBSET Broken :
        Walk({Entry(fd, Nil, loop.kernel[fd].at) : fd \in {x \in Fd : Reportable(x)} \cup broken})
  BY DEF EpollWait
<1>2. backend = "epoll" /\ UNCHANGED <<i, polled>>
  BY DEF EpollWait
<1> DEFINE fds == {x \in Fd : Reportable(x)} \cup broken
           reported == {Entry(fd, Nil, loop.kernel[fd].at) : fd \in fds}
<1>3. \A fd \in fds : fd \in Registered(loop)
  BY DEF Reportable, Broken
<1>4. Walk(reported)
  BY <1>1
<1> HIDE DEF fds
<1>5. ASSUME NEW fd \in fds
      PROVE  fd \in Fd /\ loop.kernel[fd].at = Source(loop, fd).at /\ loop.kernel[fd].at \in Addr
  <2>1. fd \in Registered(loop) /\ SourcesOk(loop) /\ WatchOk(loop, fd) /\ fd \in Fd
    BY <1>3, <1>5, FindFd DEF TableOk
  <2>2. loop.kernel[fd].at = Source(loop, fd).at
    BY <1>2, <2>1 DEF WatchOk
  <2>3. Source(loop, fd).at # Nil /\ Source(loop, fd).at \in Addr \cup {Nil}
    BY <1>2, <2>1, FindFd DEF SourcesOk, SourceType
  <2> QED
    BY <2>1, <2>2, <2>3
<1>6. reported \subseteq EntryType
  BY <1>2, <1>5 DEF EntryType, Entry
<1>7. \A e \in reported : e.fd \in Registered(loop) /\ Source(loop, e.fd).at = e.at
  BY <1>3, <1>5 DEF Entry
<1>8. i' \in Nat \ {0} /\ polled' \in Nat
  BY <1>2 DEF TypeOK
<1> HIDE DEF reported
<1> QED
  BY <1>2, <1>4, <1>6, <1>7, <1>8, WalkKeeps

LEMMA KqueueWaitKeeps ==
  ASSUME LoopInv, KqueueWait
  PROVE  LoopInv'
<1> USE DEF LoopInv
<1> DEFINE fds == {fd \in Fd : Reportable(fd)}
           One(fd) == CHOOSE f \in Interest(fd) : TRUE
<1>1. PICK both \in SUBSET {fd \in fds : Interest(fd) = {READ, WRITE}} :
        Walk(UNION {{Entry(fd, f, loop.kernel[fd].at) :
                       f \in IF fd \in both THEN {READ, WRITE} ELSE {One(fd)}} : fd \in fds})
  BY DEF KqueueWait
<1>2. backend = "kqueue" /\ UNCHANGED <<i, polled>>
  BY DEF KqueueWait
<1> DEFINE Of(fd) == IF fd \in both THEN {READ, WRITE} ELSE {One(fd)}
           reported == UNION {{Entry(fd, f, loop.kernel[fd].at) : f \in Of(fd)} : fd \in fds}
<1>3. Walk(reported)
  BY <1>1
<1>4. ASSUME NEW fd \in fds
      PROVE  /\ fd \in Fd /\ fd \in Registered(loop) /\ Of(fd) \subseteq {READ, WRITE}
             /\ loop.kernel[fd].at = Source(loop, fd).at /\ loop.kernel[fd].at \in Addr
  <2>1. /\ fd \in Registered(loop) /\ SourcesOk(loop) /\ WatchOk(loop, fd) /\ fd \in Fd
        /\ Interest(fd) # {}
    BY <1>4 DEF TableOk, Reportable
  <2>2. Interest(fd) = loop.kernel[fd].events
    BY <1>2 DEF Interest
  <2>3. loop.kernel[fd].events \in SUBSET {READ, WRITE} /\ loop.kernel[fd].at \in Addr \cup {Nil}
    BY <2>1, WatchedType
  <2>4. loop.kernel[fd].at # Nil /\ loop.kernel[fd].at = Source(loop, fd).at
    BY <2>1, <2>2 DEF WatchOk
  <2>5. One(fd) \in {READ, WRITE}
    BY <2>1, <2>2, <2>3
  <2> QED
    BY <2>1, <2>3, <2>4, <2>5
<1> HIDE DEF fds, Of
<1>5. \A e \in reported : \E fd \in fds : \E f \in Of(fd) : e = Entry(fd, f, loop.kernel[fd].at)
  OBVIOUS
<1> HIDE DEF reported
<1>6. reported \subseteq EntryType
  <2> SUFFICES ASSUME NEW e \in reported PROVE e \in EntryType
    OBVIOUS
  <2>1. PICK fd \in fds, f \in {READ, WRITE} : e = Entry(fd, f, loop.kernel[fd].at)
    BY <1>4, <1>5
  <2> QED
    BY <1>2, <1>4, <2>1 DEF EntryType, Entry
<1>7. \A e \in reported : e.fd \in Registered(loop) /\ Source(loop, e.fd).at = e.at
  BY <1>4, <1>5 DEF Entry
<1>8. i' \in Nat \ {0} /\ polled' \in Nat
  BY <1>2 DEF TypeOK
<1> QED
  BY <1>2, <1>3, <1>6, <1>7, <1>8, WalkKeeps

LEMMA PollWaitKeeps ==
  ASSUME LoopInv, PollWait
  PROVE  LoopInv'
<1> USE DEF LoopInv
<1>1. PICK broken \in SUBSET Broken :
        Walk({Entry(fd, Nil, find(loop, fd)) : fd \in {x \in Fd : Reportable(x)} \cup broken})
  BY DEF PollWait
<1>2. backend = "poll" /\ i' = 1 /\ polled' = Len(loop.sources)
  BY DEF PollWait
<1> DEFINE fds == {x \in Fd : Reportable(x)} \cup broken
           reported == {Entry(fd, Nil, find(loop, fd)) : fd \in fds}
<1>3. \A fd \in fds : fd \in Registered(loop)
  BY DEF Reportable, Broken
<1>4. Walk(reported)
  BY <1>1
<1> HIDE DEF fds
<1>5. \A fd \in fds : fd \in Fd /\ find(loop, fd) \in Nat
  BY <1>3, FindFd DEF TableOk
<1>6. reported \subseteq EntryType
  BY <1>2, <1>5 DEF EntryType, Entry
<1>7. \A e \in reported : e.fd \in Registered(loop) /\ find(loop, e.fd) <= e.at
  BY <1>3, <1>5 DEF Entry
<1>8. i' \in Nat \ {0} /\ polled' \in Nat
  BY <1>2 DEF TableOk, SourcesOk, LoopType
<1> HIDE DEF reported
<1> QED
  BY <1>2, <1>4, <1>6, <1>7, <1>8, WalkKeeps

-----------------------------------------------------------------------------
(* The theorems.                                                           *)

LEMMA InitInv == Init => LoopInv
<1> SUFFICES ASSUME Init PROVE LoopInv
  OBVIOUS
<1>1. backend \in {"epoll", "kqueue", "poll"}
  BY EventLoopAssumption DEF Init
<1>2. Addr # {}
  <2>1. CASE Addr = {}
    <3>1. Cardinality(Addr) = 0 /\ Cardinality(Session) \in Nat
      BY <2>1, FS_EmptySet, FS_CardinalityType, EventLoopAssumption
    <3> QED
      BY <3>1, EventLoopAssumption
  <2> QED
    BY <2>1
<1>3. PICK at \in IF backend = "poll" THEN {Nil} ELSE {CHOOSE a \in Addr : TRUE} :
        loop = [sources |-> <<[fd |-> Listener, events |-> {READ}, at |-> at]>>,
                kernel |-> [fd \in Fd |->
                              IF fd = Listener /\ backend # "poll"
                              THEN [events |-> {READ}, at |-> at] ELSE Unwatched]]
  BY DEF Init
<1> DEFINE x == [fd |-> Listener, events |-> {READ}, at |-> at]
           watch == [events |-> {READ}, at |-> at]
<1>4. at \in Addr \cup {Nil} /\ (backend # "poll" => at \in Addr /\ at # Nil)
  BY <1>2, <1>3, EventLoopAssumption
<1>5. Listener \in Fd
  BY DEF Fd
<1>6. x \in SourceType /\ x.fd = Listener /\ x.at = at /\ x.events = {READ}
  BY <1>4, <1>5 DEF SourceType
<1>7. watch \in WatchType /\ watch.at = at /\ watch.events = {READ}
  BY <1>4 DEF WatchType
<1> HIDE DEF x, watch
<1>8. loop.sources = <<x>> /\ loop.kernel = [fd \in Fd |-> IF fd = Listener /\ backend # "poll"
                                                         THEN watch ELSE Unwatched]
  BY <1>3 DEF x, watch
<1>9. loop \in LoopType /\ DOMAIN loop.sources = {1} /\ loop.sources[1] = x
  <2>1. loop.sources \in Seq(SourceType) /\ DOMAIN loop.sources = {1} /\ loop.sources[1] = x
    BY <1>6, <1>8
  <2>2. loop.kernel \in [Fd -> WatchType]
    BY <1>7, <1>8, UnwatchedType
  <2>3. loop = [sources |-> loop.sources, kernel |-> loop.kernel]
    BY <1>3
  <2> QED
    BY <2>1, <2>2, <2>3 DEF LoopType
<1>10. SourcesOk(loop)
  BY <1>4, <1>6, <1>9 DEF SourcesOk
<1>11. Registered(loop) = {Listener} /\ Source(loop, Listener) = x
  <2>1. Registered(loop) = {Listener}
    BY <1>6, <1>9 DEF Registered
  <2>2. Source(loop, Listener) = x
    BY <1>6, <1>9, <1>10, FindPlace
  <2> QED
    BY <2>1, <2>2
<1>12. TableOk(loop)
  <2>1. ASSUME NEW fd \in Fd PROVE WatchOk(loop, fd)
    <3>1. CASE fd # Listener
      BY <1>8, <1>11, <3>1 DEF WatchOk
    <3>2. CASE fd = Listener
      <4>1. loop.kernel[fd] = IF backend # "poll" THEN watch ELSE Unwatched
        BY <1>8, <3>2
      <4> QED
        BY <1>1, <1>4, <1>6, <1>7, <1>11, <3>2, <4>1, UnwatchedType DEF WatchOk
    <3> QED
      BY <3>1, <3>2
  <2> QED
    BY <1>10, <2>1 DEF TableOk
<1>13. StateInv
  <2>1. \A s \in Session : Client(s) # Listener /\ Target(s) # Listener
    BY FdOfSession
  <2> QED
    BY <1>11, <2>1 DEF Init, StateInv
<1>14. InterestAgrees
  <2>1. backend # "poll" => loop.kernel[Listener] = watch
    BY <1>5, <1>8
  <2> QED
    BY <1>6, <1>7, <1>11, <2>1 DEF InterestAgrees
<1>15. TypeOK /\ BatchInv /\ PendingResolves
  BY DEF Init, TypeOK, BatchInv, PendingResolves
<1> QED
  BY <1>12, <1>13, <1>14, <1>15 DEF LoopInv

LEMMA NextInv == LoopInv /\ [Next]_vars => LoopInv'
<1> SUFFICES ASSUME LoopInv, [Next]_vars PROVE LoopInv'
  OBVIOUS
<1> DEFINE Pcs == {"wait", "walk", "accept", "tick", "undefined", "ended"}
           States == {"none", "pending", "open", "closed"}
<1>1. /\ batch \subseteq EntryType /\ i \in Nat \ {0} /\ polled \in Nat /\ pc \in Pcs
      /\ state \in [Session -> States] /\ ready \subseteq Fd
  BY DEF LoopInv, TypeOK
<1>2. CASE EpollWait
  BY <1>2, EpollWaitKeeps
<1>3. CASE KqueueWait
  BY <1>3, KqueueWaitKeeps
<1>4. CASE PollWait
  BY <1>4, PollWaitKeeps
<1>5. CASE Skip
  BY <1>1, <1>5, QuietKeeps DEF Skip
<1>6. CASE CallsFreed
  BY <1>1, <1>6, QuietKeeps DEF CallsFreed
<1>7. CASE WalkDone
  BY <1>1, <1>7, QuietKeeps DEF WalkDone
<1>8. CASE ListenerCallback
  <2>1. batch' \subseteq batch /\ i' \in Nat \ {0}
    BY <1>8, CalledFd DEF ListenerCallback, LoopInv, TableOk
  <2> QED
    BY <1>1, <1>8, <2>1, QuietKeeps DEF ListenerCallback
<1>9. CASE AcceptDone
  BY <1>1, <1>9, QuietKeeps DEF AcceptDone
<1>10. CASE TickDone
  BY <1>1, <1>10, QuietKeeps DEF TickDone
<1>11. ASSUME NEW s \in Session, Accept(s) \/ SessionUpgrades(s) \/ TickCloses(s)
       PROVE  LoopInv'
  BY <1>11, AcceptKeeps, UpgradesKeeps, TickClosesKeeps
<1>12. ASSUME NEW s \in Session, NEW fd \in {Client(s), Target(s)},
              SessionHandles(s, fd) \/ SessionCloses(s, fd)
       PROVE  LoopInv'
  BY <1>12, HandlesKeeps, ClosesByCallback
<1>13. CASE WaitFails
  BY <1>1, <1>13, QuietKeeps DEF WaitFails
<1>14. ASSUME NEW s \in Session, Connect(s)
       PROVE  LoopInv'
  <2>1. /\ state' \in [Session -> States]
        /\ \A t \in Session : state'[t] = state[t] \/ (state[t] = "none" /\ state'[t] = "pending")
    BY <1>1, <1>14 DEF Connect
  <2>2. ready' \subseteq Fd
    BY <1>1, <1>14, FdOfSession DEF Connect
  <2> QED
    BY <1>1, <1>14, <2>1, <2>2, QuietKeeps DEF Connect
<1>15. ASSUME NEW fd \in Fd, Becomes(fd)
       PROVE  LoopInv'
  BY <1>1, <1>15, QuietKeeps DEF Becomes
<1>16. CASE UNCHANGED vars
  BY <1>1, <1>16, QuietKeeps DEF vars
<1> QED
  BY <1>2, <1>3, <1>4, <1>5, <1>6, <1>7, <1>8, <1>9, <1>10, <1>11, <1>12, <1>13, <1>14,
     <1>15, <1>16 DEF Next, Loop

LEMMA LoopAlways == Spec => []LoopInv
BY InitInv, NextInv, PTL DEF Spec

\* For every number of sessions and of failures, in each backend: the table
\* holds the listener and the descriptors of the open sessions, each once and at
\* an address of its own, and the kernel points to no other source, whatever adds
\* fail half-way, removes move and addresses are used again (ev_epoll.c:85-158,
\* ev_kqueue.c:107-182, ev_poll.c:98-159).
THEOREM EventLoopTableConsistent == Spec => []TableConsistent
<1>1. LoopInv => TableConsistent
  <2> SUFFICES ASSUME LoopInv PROVE TableConsistent
    OBVIOUS
  <2>1. SourcesOk(loop) /\ StateInv /\ \A fd \in Fd : WatchOk(loop, fd)
    BY DEF LoopInv, TableOk
  <2>2. {Listener} \cup {Client(s) : s \in {x \in Session : state[x] = "open"}}
          \subseteq Registered(loop)
    BY <2>1 DEF StateInv
  <2>3. \A s \in Session : state[s] # "open" =>
          Registered(loop) \cap {Client(s), Target(s)} = {}
    BY <2>1 DEF StateInv
  <2>4. \A j, k \in DOMAIN loop.sources : j # k =>
          /\ loop.sources[j].fd # loop.sources[k].fd
          /\ backend # "poll" => loop.sources[j].at # loop.sources[k].at
    BY <2>1 DEF SourcesOk
  <2>5. \A fd \in Fd : loop.kernel[fd].at # Nil =>
          fd \in Registered(loop) /\ Source(loop, fd).at = loop.kernel[fd].at
    BY <2>1, UnwatchedType DEF WatchOk
  <2> QED
    BY <2>2, <2>3, <2>4, <2>5 DEF TableConsistent
<1> QED
  BY <1>1, LoopAlways, PTL

\* For every set of interests: what epoll and kqueue watch a descriptor for is
\* what its session asked for last, unless a system call failed for it.  The
\* differences update_filters sends add up (ev_kqueue.c:58-90, 137-154,
\* ev_epoll.c:120-140).
THEOREM EventLoopInterestAgrees == Spec => []InterestAgrees
<1>1. LoopInv => InterestAgrees
  BY DEF LoopInv
<1> QED
  BY <1>1, LoopAlways, PTL

\* For every number of callbacks that close and open sessions between the wait
\* and the end of the walk: an event of a descriptor that is still registered is
\* for its own source, by pointer, or comes to an index the source has not passed
\* (ev_epoll.c:142-158, ev_kqueue.c:156-182, ev_poll.c:140-159).
THEOREM EventLoopPendingResolves == Spec => []PendingResolves
<1>1. LoopInv => PendingResolves
  BY DEF LoopInv
<1> QED
  BY <1>1, LoopAlways, PTL
=============================================================================
