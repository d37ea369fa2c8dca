-------------------------- MODULE RingBufferProofs --------------------------
(***************************************************************************)
(* Proofs about RingBuffer, for every capacity, byte set and request size. *)
(***************************************************************************)
EXTENDS RingBuffer, SequenceTheorems, TLAPS

\* The positions stay inside the storage and agree with the length.
RingInv == TypeOK /\ PositionsAgree

LEMMA WrapIsSlot ==
  ASSUME NEW p \in Slots, NEW c \in 0..Capacity
  PROVE  Wrap(p + c) \in Slots
BY RingAssumption DEF Wrap, Slots

LEMMA RequestIsSeq ==
  ASSUME NEW s \in Request
  PROVE  s \in Seq(Byte) /\ Len(s) \in Nat /\ s \in [1..Len(s) -> Byte]
BY RingAssumption DEF Request

LEMMA InitInv == Init => RingInv
BY RingAssumption DEF Init, RingInv, TypeOK, PositionsAgree, Wrap, Slots

LEMMA WriteInv ==
  ASSUME RingInv, NEW s \in Request, Write(s)
  PROVE  RingInv'
<1> DEFINE n == least(Len(s), Writable)
<1>1. s \in [1..Len(s) -> Byte] /\ Len(s) \in Nat
  BY RequestIsSeq
<1>2. n \in 0..Capacity /\ n <= Len(s) /\ length + n <= Capacity
  BY <1>1, RingAssumption DEF least, Writable, RingInv, TypeOK
<1>3. ASSUME NEW p \in Slots, Ahead(p) < n
      PROVE  Ahead(p) + 1 \in 1..Len(s)
  BY <1>1, <1>2, <1>3, RingAssumption DEF Ahead, Slots, RingInv, TypeOK
<1>4. data' \in [Slots -> Byte]
  BY <1>1, <1>3 DEF Write, RingInv, TypeOK
<1>5. write_pos' \in Slots /\ length' \in 0..Capacity /\ read_pos' \in Slots
  BY <1>2, WrapIsSlot, RingAssumption DEF Write, RingInv, TypeOK
<1>6. PositionsAgree'
  BY <1>2, RingAssumption, SMTT(30) DEF Write, RingInv, TypeOK, PositionsAgree, Wrap, Slots
<1> QED
  BY <1>4, <1>5, <1>6 DEF RingInv, TypeOK

LEMMA AdvanceInv ==
  ASSUME RingInv, NEW c \in 0..length, Advance(c)
  PROVE  RingInv'
BY RingAssumption DEF RingInv, TypeOK, PositionsAgree, Advance, Wrap, Slots

\* What a peek, consume or read moves is at most what is held.
LEMMA LeastHeld ==
  ASSUME RingInv, NEW n \in 0..MaxIo
  PROVE  least(n, length) \in 0..length
BY RingAssumption DEF least, RingInv, TypeOK

LEMMA NextInv == RingInv /\ [Next]_vars => RingInv'
<1> SUFFICES ASSUME RingInv, [Next]_vars PROVE RingInv'
  OBVIOUS
<1>1. CASE \E s \in Request : Write(s)
  BY <1>1, WriteInv
<1>2. ASSUME NEW n \in 0..MaxIo, Peek(n)
      PROVE  RingInv'
  BY <1>2 DEF Peek, RingInv, TypeOK, PositionsAgree, Wrap
<1>3. ASSUME NEW n \in 0..MaxIo, Consume(n) \/ Read(n)
      PROVE  RingInv'
  BY <1>3, LeastHeld, AdvanceInv DEF Consume, Read
<1>4. CASE Clear
  BY <1>4, RingAssumption DEF Clear, RingInv, TypeOK, PositionsAgree, Wrap, Slots
<1>5. CASE UNCHANGED vars
  BY <1>5 DEF vars, RingInv, TypeOK, PositionsAgree, Wrap
<1> QED
  BY <1>1, <1>2, <1>3, <1>4, <1>5 DEF Next

\* Whatever sequence of calls is made, the positions stay inside the storage.
THEOREM RingTypeCorrect == Spec => []TypeOK
<1>1. Spec => []RingInv
  BY InitInv, NextInv, PTL DEF Spec
<1>2. RingInv => TypeOK
  BY DEF RingInv
<1> QED
  BY <1>1, <1>2, PTL

\* Whatever sequence of calls is made, write_pos is length bytes after read_pos.
THEOREM RingPositionsAgree == Spec => []PositionsAgree
<1>1. Spec => []RingInv
  BY InitInv, NextInv, PTL DEF Spec
<1>2. RingInv => PositionsAgree
  BY DEF RingInv
<1> QED
  BY <1>1, <1>2, PTL

-----------------------------------------------------------------------------
(* The refinement: each call does to the bytes held what BoundedFifo says.  *)

\* The bytes held, as a sequence.
LEMMA HeldIsSeq ==
  ASSUME RingInv, NEW n \in 0..length
  PROVE  /\ Held(n) \in Seq(Byte)
         /\ Len(Held(n)) = n
         /\ \A i \in 1..n : Held(n)[i] = data[Wrap(read_pos + (i - 1))]
<1>1. n \in Nat
  BY DEF RingInv, TypeOK
<1>2. \A i \in 1..n : data[Wrap(read_pos + (i - 1))] \in Byte
  <2> TAKE i \in 1..n
  <2>1. i - 1 \in 0..Capacity
    BY RingAssumption DEF RingInv, TypeOK
  <2>2. Wrap(read_pos + (i - 1)) \in Slots
    BY <2>1, WrapIsSlot DEF RingInv, TypeOK
  <2> QED
    BY <2>2 DEF RingInv, TypeOK
<1>3. Held(n) \in [1..n -> Byte]
  BY <1>2 DEF Held
<1> QED
  BY <1>1, <1>3 DEF Held

\* A write stores behind the bytes held and changes none of them.
LEMMA WriteAppends ==
  ASSUME RingInv, NEW s \in Request, Write(s)
  PROVE  Held(length)' = Held(length) \o SubSeq(s, 1, least(Len(s), Writable))
<1> DEFINE n == least(Len(s), Writable)
           q == Held(length)
           w == SubSeq(s, 1, n)
           h == Held(length)'
<1>1. s \in Seq(Byte) /\ s \in [1..Len(s) -> Byte] /\ Len(s) \in Nat
  BY RequestIsSeq
<1>2. n \in 0..Capacity /\ n <= Len(s) /\ length + n <= Capacity /\ length \in Nat
  BY <1>1, RingAssumption DEF least, Writable, RingInv, TypeOK
<1>3. w \in Seq(Byte) /\ Len(w) = n /\ \A i \in 1..n : w[i] = s[i]
  BY <1>1, <1>2, SubSeqProperties
<1>4. q \in Seq(Byte) /\ Len(q) = length
      /\ \A i \in 1..length : q[i] = data[Wrap(read_pos + (i - 1))]
  BY <1>2, HeldIsSeq
<1>5. RingInv'
  BY WriteInv
<1>6. length' = length + n /\ read_pos' = read_pos
  BY DEF Write
<1>7. h \in Seq(Byte) /\ Len(h) = length + n
      /\ \A i \in 1..length + n : h[i] = data'[Wrap(read_pos + (i - 1))]
  <2>1. length' \in 0..length'
    BY <1>2, <1>6
  <2>2. /\ Held(length)' \in Seq(Byte) /\ Len(Held(length)') = length'
        /\ \A i \in 1..length' : Held(length)'[i] = data'[Wrap(read_pos' + (i - 1))]
    <3>1. \A i \in 1..length' : data'[Wrap(read_pos' + (i - 1))] \in Byte
      <4> TAKE i \in 1..length'
      <4>1. i - 1 \in 0..Capacity
        BY <1>5, RingAssumption DEF RingInv, TypeOK
      <4>2. Wrap(read_pos' + (i - 1)) \in Slots
        BY <1>5, <4>1, WrapIsSlot DEF RingInv, TypeOK
      <4> QED
        BY <1>5, <4>2 DEF RingInv, TypeOK
    <3>2. Held(length)' = [i \in 1..length' |-> data'[Wrap(read_pos' + (i - 1))]]
      BY DEF Held, Wrap
    <3>3. Held(length)' \in [1..length' -> Byte]
      BY <3>1, <3>2
    <3> QED
      BY <1>2, <1>6, <3>2, <3>3
  <2> QED
    BY <1>6, <2>2
<1> HIDE DEF h, q, w, n
<1>8. ASSUME NEW i \in 1..length + n
      PROVE  h[i] = (q \o w)[i]
  <2> DEFINE p == Wrap(read_pos + (i - 1))
  <2>0. i - 1 \in 0..Capacity /\ i \in Nat
    BY <1>2, RingAssumption
  <2>1. p \in Slots
    BY <2>0, WrapIsSlot DEF RingInv, TypeOK
  <2>2. data'[p] = IF Ahead(p) < n THEN s[Ahead(p) + 1] ELSE data[p]
    BY <2>1 DEF Write, n
  <2>3. (q \o w)[i] = IF i <= length THEN q[i] ELSE w[i - length]
    BY <1>2, <1>3, <1>4, <1>8, ConcatProperties
  <2>4. CASE i <= length
    <3>1. ~(Ahead(p) < n)
      BY <1>2, <1>8, <2>4, RingAssumption
         DEF RingInv, TypeOK, PositionsAgree, Ahead, Wrap, Slots
    <3>2. i \in 1..length
      BY <1>2, <1>8, <2>4
    <3> QED
      BY <1>4, <1>7, <1>8, <2>2, <2>3, <2>4, <3>1, <3>2
  <2>5. CASE i > length
    <3>1. Ahead(p) = i - 1 - length
      BY <1>2, <1>8, <2>5, RingAssumption
         DEF RingInv, TypeOK, PositionsAgree, Ahead, Wrap, Slots
    <3>2. Ahead(p) < n /\ Ahead(p) + 1 = i - length /\ i - length \in 1..n
      BY <1>2, <1>8, <2>5, <3>1
    <3> QED
      BY <1>2, <1>3, <1>7, <1>8, <2>2, <2>3, <2>5, <3>2
  <2>6. i <= length \/ i > length
    BY <1>2, <2>0
  <2> QED
    BY <2>4, <2>5, <2>6
<1>9. q \o w \in Seq(Byte) /\ Len(q \o w) = length + n
  BY <1>3, <1>4, ConcatProperties
<1>10. h = q \o w
  BY <1>7, <1>8, <1>9, SeqEqual
<1> QED
  BY <1>10 DEF h, q, w, n

\* Dropping c bytes from the front leaves the rest, in order.
LEMMA AdvanceDrops ==
  ASSUME RingInv, NEW c \in 0..length, Advance(c)
  PROVE  Held(length)' = SubSeq(Held(length), c + 1, length)
<1> DEFINE q == Held(length)
           r == SubSeq(q, c + 1, length)
           h == [i \in 1..length - c |-> data[Wrap(Wrap(read_pos + c) + (i - 1))]]
<1>1. length \in Nat /\ length <= Capacity /\ c \in Nat /\ c <= length
  BY RingAssumption DEF RingInv, TypeOK
<1>2. Held(length)' = h
  BY DEF Advance, Held, Wrap
<1>3. q \in Seq(Byte) /\ Len(q) = length
      /\ \A i \in 1..length : q[i] = data[Wrap(read_pos + (i - 1))]
  BY <1>1, HeldIsSeq
<1> HIDE DEF q
<1>4. /\ r \in Seq(Byte) /\ Len(r) = length - c
      /\ \A i \in 1..length - c : r[i] = q[c + i]
  <2>1. \A i \in c + 1..length : q[i] \in Byte
    BY <1>1, <1>3
  <2>2. /\ r \in Seq(Byte)
        /\ Len(r) = IF c + 1 <= length THEN length - (c + 1) + 1 ELSE 0
        /\ \A i \in 1..length - (c + 1) + 1 : r[i] = q[c + 1 + i - 1]
    BY <1>1, <2>1, SubSeqProperties
  <2> QED
    BY <1>1, <2>2
<1>5. ASSUME NEW i \in 1..length - c
      PROVE  h[i] = r[i] /\ h[i] \in Byte
  <2>1. Wrap(Wrap(read_pos + c) + (i - 1)) = Wrap(read_pos + (c + i - 1))
    BY <1>1, RingAssumption DEF RingInv, TypeOK, Wrap, Slots
  <2>2. c + i \in 1..length
    BY <1>1
  <2>3. q[c + i] = data[Wrap(read_pos + (c + i - 1))]
    BY <1>3, <2>2
  <2>4. h[i] = data[Wrap(Wrap(read_pos + c) + (i - 1))]
    OBVIOUS
  <2>5. q[c + i] \in Byte
    BY <1>3, <2>2
  <2> QED
    BY <1>4, <2>1, <2>3, <2>4, <2>5
<1>6. h \in Seq(Byte) /\ Len(h) = length - c
  <2>1. h \in [1..length - c -> Byte]
    BY <1>5
  <2> QED
    BY <1>1, <2>1
<1> HIDE DEF h, r
<1>7. h = r
  BY <1>4, <1>5, <1>6, SeqEqual
<1> QED
  BY <1>2, <1>7 DEF r, q

\* Peeking at c bytes shows the first c bytes held.
LEMMA HeldIsPrefix ==
  ASSUME RingInv, NEW c \in 0..length
  PROVE  Held(c) = SubSeq(Held(length), 1, c)
<1> DEFINE q == Held(length)
           r == SubSeq(q, 1, c)
           h == Held(c)
<1>1. length \in Nat /\ c \in Nat /\ c <= length
  BY RingAssumption DEF RingInv, TypeOK
<1>2. q \in Seq(Byte) /\ Len(q) = length
      /\ \A i \in 1..length : q[i] = data[Wrap(read_pos + (i - 1))]
  BY <1>1, HeldIsSeq
<1>3. h \in Seq(Byte) /\ Len(h) = c
      /\ \A i \in 1..c : h[i] = data[Wrap(read_pos + (i - 1))]
  BY HeldIsSeq
<1> HIDE DEF q, h
<1>4. r \in Seq(Byte) /\ Len(r) = c /\ \A i \in 1..c : r[i] = q[i]
  <2>1. \A i \in 1..c : q[i] \in Byte
    BY <1>1, <1>2
  <2> QED
    BY <1>1, <2>1, SubSeqProperties
<1>5. \A i \in 1..c : h[i] = r[i]
  BY <1>1, <1>2, <1>3, <1>4
<1> HIDE DEF r
<1>6. h = r
  BY <1>3, <1>4, <1>5, SeqEqual
<1> QED
  BY <1>6 DEF h, r, q

LEMMA RefinesInit == RingInv /\ Init => Fifo!Init
<1> SUFFICES ASSUME RingInv, Init PROVE Fifo!Init
  OBVIOUS
<1>1. Held(length) = <<>>
  BY DEF Init, Held
<1> QED
  BY <1>1 DEF Init, Fifo!Init, Fifo!Answer, Answer

LEMMA RefinesNext == RingInv /\ [Next]_vars => [Fifo!Next]_(Fifo!vars)
<1> SUFFICES ASSUME RingInv, [Next]_vars PROVE [Fifo!Next]_(Fifo!vars)
  OBVIOUS
<1>0. length \in 0..length /\ Len(Held(length)) = length /\ length \in Nat
  BY HeldIsSeq DEF RingInv, TypeOK
<1>1. ASSUME NEW s \in Request, Write(s)
      PROVE  Fifo!Next
  <2>1. Fifo!Write(s)
    BY <1>0, <1>1, WriteAppends
       DEF Write, Fifo!Write, Writable, least, Fifo!least, Answer, Fifo!Answer
  <2>2. s \in Fifo!Request
    BY DEF Request, Fifo!Request
  <2> QED
    BY <2>1, <2>2 DEF Fifo!Next
<1>2. ASSUME NEW n \in 0..MaxIo, Peek(n)
      PROVE  Fifo!Next
  <2>1. Held(length)' = Held(length)
    BY <1>2 DEF Peek, Held, Wrap
  <2>2. Fifo!Peek(n)
    BY <1>0, <1>2, <2>1, LeastHeld, HeldIsPrefix
       DEF Peek, Fifo!Peek, least, Fifo!least, Answer, Fifo!Answer
  <2> QED
    BY <2>2 DEF Fifo!Next
<1>3. ASSUME NEW n \in 0..MaxIo, Consume(n)
      PROVE  Fifo!Next
  <2>1. Fifo!Consume(n)
    BY <1>0, <1>3, LeastHeld, AdvanceDrops
       DEF Consume, Fifo!Consume, least, Fifo!least, Answer, Fifo!Answer
  <2> QED
    BY <2>1 DEF Fifo!Next
<1>4. ASSUME NEW n \in 0..MaxIo, Read(n)
      PROVE  Fifo!Next
  <2>1. Fifo!Read(n)
    BY <1>0, <1>4, LeastHeld, AdvanceDrops, HeldIsPrefix
       DEF Read, Fifo!Read, least, Fifo!least, Answer, Fifo!Answer
  <2> QED
    BY <2>1 DEF Fifo!Next
<1>5. CASE Clear
  <2>1. Held(length)' = <<>>
    BY <1>5 DEF Clear, Held
  <2> QED
    BY <1>5, <2>1 DEF Clear, Fifo!Clear, Fifo!Next
<1>6. CASE UNCHANGED vars
  BY <1>6 DEF vars, Fifo!vars, Held, Wrap
<1> QED
  BY <1>1, <1>2, <1>3, <1>4, <1>5, <1>6 DEF Next

\* The ring buffer implements the bounded FIFO: for every capacity and every
\* sequence of calls the bytes come out as they went in, and every count and
\* status returned is the one the FIFO would return.
THEOREM RingImplementsFifo == Spec => FifoSpec
<1>1. Spec => []RingInv
  BY InitInv, NextInv, PTL DEF Spec
<1>2. Init => Fifo!Init
  BY InitInv, RefinesInit
<1> QED
  BY <1>1, <1>2, RefinesNext, PTL DEF Spec, FifoSpec, Fifo!Spec
=============================================================================
