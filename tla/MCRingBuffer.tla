---------------------------- MODULE MCRingBuffer ----------------------------
(* TLC instance of RingBuffer: a ring of three bytes over two byte values,   *)
(* with requests one byte longer than the ring so that writes overflow.      *)
EXTENDS RingBuffer
=============================================================================
