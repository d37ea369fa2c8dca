----------------------------- MODULE MCEventLoop -----------------------------
(* TLC instance of EventLoop.                                                *)
EXTENDS EventLoopProperties

\* Addresses for every source there can be and for every one a batch points to.
Addresses == 101..(102 + (4 * Cardinality(Session)))

\* All or nothing: two filters change at once, and with no interest only
\* errors are reported.  A client is added with both, a target with WRITE.
AllOrNothing == {{}, {READ, WRITE}}
=============================================================================
