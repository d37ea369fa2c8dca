CONSTANTS
  Session = {s1, s2}
  Addr <- Addresses
  Nil = Nil
  Backends = {"epoll"}
  Interests <- AllOrNothing
  ClientTls = FALSE
  MaxTargets = 1
  MaxFailures = 0
SPECIFICATION FairSpec
PROPERTY
  ReadyServed
CHECK_DEADLOCK FALSE
