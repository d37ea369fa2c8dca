----------------------------- MODULE RingBuffer -----------------------------
(***************************************************************************)
(* The fixed-storage ring buffer of src/core/buffer.c.  The caller owns    *)
(* the storage, which malloc leaves uninitialised; read_pos and write_pos  *)
(* index it modulo the capacity and length is the count of bytes held.     *)
(***************************************************************************)
EXTENDS Naturals, Sequences

CONSTANTS Capacity,  \* bytes of backing storage
          Byte,      \* the values a byte can take
          MaxIo      \* longest request a caller makes in one call

ASSUME RingAssumption == Capacity \in Nat \ {0} /\ MaxIo \in Nat

VARIABLES data,       \* the storage, indexed from 0
          read_pos, write_pos, length,
          result      \* what the last call returned

vars == <<data, read_pos, write_pos, length, result>>

Slots == 0..Capacity - 1

\* The positions stay inside the storage and no more is held than fits, however
\* often write, read and consume wrap around (buffer.c:82-88, 146-149).
TypeOK ==
  /\ data \in [Slots -> Byte]
  /\ read_pos \in Slots
  /\ write_pos \in Slots
  /\ length \in 0..Capacity

-----------------------------------------------------------------------------
(* Mutants: plausible slips in buffer.c, used to show that the properties   *)
(* below can fail.                                                          *)

\* The position is compared with > instead of == / >= when it wraps.
WrapLate(p) == IF p <= Capacity THEN p ELSE p - Capacity

\* clear leaves the write position where it was.
ClearReadOnly ==
  /\ read_pos' = 0 /\ length' = 0
  /\ UNCHANGED <<data, write_pos, result>>

\* A full buffer is taken for an empty one: the write forgets what is held.
WritableStale == Capacity

-----------------------------------------------------------------------------

\* A position that ran past the end of the storage starts again at 0.
Wrap(p) == IF p < Capacity THEN p ELSE p - Capacity

\* How far slot p lies after the write position.
Ahead(p) == IF p >= write_pos THEN p - write_pos ELSE p + Capacity - write_pos

\* sockify_buffer_writable
Writable == Capacity - length

least(a, b) == IF a < b THEN a ELSE b

Request == UNION {[1..n -> Byte] : n \in 0..MaxIo}

\* What a call returns: its status, *written or *consumed, the bytes copied out.
Answer(rc, count, bytes) == [rc |-> rc, count |-> count, bytes |-> bytes]

\* sockify_buffer_init on storage nobody has written yet.
Init ==
  /\ data \in [Slots -> Byte]
  /\ read_pos = 0 /\ write_pos = 0 /\ length = 0
  /\ result = Answer("ok", 0, <<>>)

\* sockify_buffer_write: the bytes that fit are stored one slot at a time.
Write(s) ==
  LET n == least(Len(s), Writable) IN
  /\ data' = [p \in Slots |-> IF Ahead(p) < n THEN s[Ahead(p) + 1] ELSE data[p]]
  /\ write_pos' = Wrap(write_pos + n)
  /\ length' = length + n
  /\ result' = Answer(IF n < Len(s) THEN "overflow" ELSE "ok", n, <<>>)
  /\ UNCHANGED read_pos

\* The first n bytes held, in the order they are read.
Held(n) == [i \in 1..n |-> data[Wrap(read_pos + (i - 1))]]

\* sockify_buffer_peek
Peek(n) ==
  /\ result' = Answer("ok", least(n, length), Held(least(n, length)))
  /\ UNCHANGED <<data, read_pos, write_pos, length>>

\* The part of sockify_buffer_consume that moves the positions.
Advance(c) ==
  /\ read_pos' = Wrap(read_pos + c)
  /\ length' = length - c
  /\ UNCHANGED <<data, write_pos>>

\* sockify_buffer_consume
Consume(n) ==
  /\ Advance(least(n, length))
  /\ result' = Answer("ok", least(n, length), <<>>)

\* sockify_buffer_read: a peek followed by a consume of what was copied.
Read(n) ==
  /\ Advance(least(n, length))
  /\ result' = Answer("ok", least(n, length), Held(least(n, length)))

\* sockify_buffer_clear
Clear ==
  /\ read_pos' = 0 /\ write_pos' = 0 /\ length' = 0
  /\ UNCHANGED <<data, result>>

Next ==
  \/ \E s \in Request : Write(s)
  \/ \E n \in 0..MaxIo : Peek(n) \/ Consume(n) \/ Read(n)
  \/ Clear

Spec == Init /\ [][Next]_vars

-----------------------------------------------------------------------------

\* The three position fields agree: the next byte is written just behind the
\* bytes held, in the empty, the wrapped and the full case alike (the comment
\* at buffer.c:3 makes length the authority that keeps them apart).
PositionsAgree == write_pos = Wrap(read_pos + length)

\* The ring buffer is a bounded FIFO: whatever the positions, however often
\* they wrapped and whatever the storage held before, callers see the bytes in
\* the order they were written, none lost and none made up.
Fifo == INSTANCE BoundedFifo WITH queue <- Held(length)
FifoSpec == Fifo!Spec
=============================================================================
