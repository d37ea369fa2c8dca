CONSTANTS
  Session = {s1, s2}
  Addr <- Addresses
  Nil = Nil
  Backends = {"epoll", "kqueue", "poll"}
  Interests <- AllOrNothing
  ClientTls = TRUE
  MaxTargets = 1
  MaxFailures = 1
SPECIFICATION EndlessSpec
INVARIANTS
  TableConsistent
  InterestAgrees
  PendingResolves
PROPERTY
  ReadyServedOrUndefined
CHECK_DEADLOCK FALSE
