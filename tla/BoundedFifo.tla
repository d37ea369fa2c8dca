---------------------------- MODULE BoundedFifo ----------------------------
(***************************************************************************)
(* What a sockify_buffer promises its user (include/sockify/buffer.h): a   *)
(* FIFO of at most Capacity bytes.  A write stores the longest prefix that *)
(* fits and says how much that was; a peek copies from the front; a        *)
(* consume drops from the front; a read does both.                         *)
(***************************************************************************)
EXTENDS Naturals, Sequences

CONSTANTS Capacity,  \* bytes of backing storage
          Byte,      \* the values a byte can take
          MaxIo      \* longest request a caller makes in one call

VARIABLES queue,  \* the bytes held, oldest first
          result  \* what the last call returned

\* The smaller of two sizes.
least(a, b) == IF a < b THEN a ELSE b

\* Byte strings a caller may pass in.
Request == UNION {[1..n -> Byte] : n \in 0..MaxIo}

\* What a call returns: its status, *written or *consumed, the bytes copied out.
Answer(rc, count, bytes) == [rc |-> rc, count |-> count, bytes |-> bytes]

Init == queue = <<>> /\ result = Answer("ok", 0, <<>>)

Write(s) ==
  LET n == least(Len(s), Capacity - Len(queue)) IN
  /\ queue' = queue \o SubSeq(s, 1, n)
  /\ result' = Answer(IF n < Len(s) THEN "overflow" ELSE "ok", n, <<>>)

Peek(n) ==
  LET c == least(n, Len(queue)) IN
  /\ result' = Answer("ok", c, SubSeq(queue, 1, c))
  /\ UNCHANGED queue

Consume(n) ==
  LET c == least(n, Len(queue)) IN
  /\ queue' = SubSeq(queue, c + 1, Len(queue))
  /\ result' = Answer("ok", c, <<>>)

Read(n) ==
  LET c == least(n, Len(queue)) IN
  /\ queue' = SubSeq(queue, c + 1, Len(queue))
  /\ result' = Answer("ok", c, SubSeq(queue, 1, c))

Clear == queue' = <<>> /\ UNCHANGED result

Next ==
  \/ \E s \in Request : Write(s)
  \/ \E n \in 0..MaxIo : Peek(n) \/ Consume(n) \/ Read(n)
  \/ Clear

vars == <<queue, result>>

Spec == Init /\ [][Next]_vars
=============================================================================
