------------------------- MODULE SessionRelayProofs -------------------------
(***************************************************************************)
(* Proofs about a session whose buffers are large enough for the chunks it *)
(* moves (SafeSizes, true of the defaults), for every TLS mode and script: *)
(* no overflow, no loss on the way to the target, and the session is a     *)
(* byte relay.                                                             *)
(***************************************************************************)
EXTENDS SessionSafetyProofs

-----------------------------------------------------------------------------
(* There is room for what is read.                                         *)

LEMMA SafeBounds ==
  ASSUME SafeSizes
  PROVE  /\ {BufSize, Chunk, HsMax, CtlMax, HighWater} \subseteq Nat
         /\ HighWater + Chunk + CtlMax <= BufSize + 1
         /\ HsMax + CtlMax <= BufSize /\ CtlMax <= Chunk /\ Chunk > 0
BY SizeAssumption, HighWaterNat DEF SafeSizes

LEMMA QueueType ==
  ASSUME TypeOK
  PROVE  /\ c2t \in Seq(Nat) /\ Len(c2t) \in Nat /\ Len(c2t) <= BufSize
         /\ done \in Nat /\ csock.read \in Nat /\ done <= csock.read
         /\ t_seen \in Seq(Nat) /\ c_seen \in Seq(Nat)
BY LenProperties DEF TypeOK, TypeSess, TypeNet, TypeHistory, SockType

\* What the target's socket takes comes off the front of client_to_target.
LEMMA WriteTargetCuts ==
  ASSUME TypeOK, WriteTarget
  PROVE  \E n \in 1..Len(c2t) :
           /\ t_seen' = t_seen \o SubSeq(c2t, 1, n)
           /\ c2t' = SubSeq(c2t, n + 1, Len(c2t))
           /\ Len(c2t') = Len(c2t) - n
           /\ t_seen' \o c2t' = t_seen \o c2t
<1> DEFINE n == Taken(tsock, min_size(Chunk, Len(c2t)))
<1>1. /\ t_seen' = t_seen \o SubSeq(c2t, 1, n)
      /\ c2t' = SubSeq(c2t, n + 1, Len(c2t)) /\ n > 0
  BY DEF WriteTarget, ConsumeSent
<1>2. c2t \in Seq(Nat) /\ Len(c2t) \in Nat /\ t_seen \in Seq(Nat) /\ Chunk \in Nat
  BY QueueType, SizeAssumption
<1>3. n \in 1..Len(c2t)
  <2>1. min_size(Chunk, Len(c2t)) \in Nat /\ min_size(Chunk, Len(c2t)) <= Len(c2t)
    BY <1>2, MinSize
  <2>2. tsock \in SockType({"none", "syn", "open", "fin", "rst"})
    BY DEF TypeOK, TypeNet
  <2>3. n \in Nat /\ n <= min_size(Chunk, Len(c2t))
    BY <2>1, <2>2, TakenType
  <2> QED
    BY <1>1, <1>2, <2>1, <2>3
<1> HIDE DEF n
<1> DEFINE a == SubSeq(c2t, 1, n)
           b == SubSeq(c2t, n + 1, Len(c2t))
<1>4. a \in Seq(Nat) /\ b \in Seq(Nat) /\ a \o b = c2t /\ Len(b) = Len(c2t) - n
  BY <1>2, <1>3, CutSeq, SMTT(30)
<1>5. t_seen' = t_seen \o a /\ c2t' = b
  BY <1>1
<1> HIDE DEF a, b
<1>6. (t_seen \o a) \o b = t_seen \o (a \o b)
  <2>1. t_seen \in Seq(Nat) /\ a \in Seq(Nat) /\ b \in Seq(Nat)
    BY <1>2, <1>4
  <2> QED
    BY <2>1, ConcatAssociative, SMTT(40)
<1>7. t_seen' \o c2t' = t_seen \o c2t
  BY <1>4, <1>5, <1>6
<1> QED
  BY <1>1, <1>3, <1>4, <1>5, <1>7

\* A step that reads nothing from the client and parses nothing.
LEMMA KeepRoom ==
  ASSUME SafeSizes, TypeOK, TypeOK', RoomInv,
         done' = done, csock'.read = csock.read, Len(c2t') <= Len(c2t),
         conn'.handshake_done = conn.handshake_done, closing' = closing,
         batch'.c \in {batch.c, {}}, pc # "ws",
         pc' # "ws", pc' = "c_read" => pc = "c_read"
  PROVE  RoomInv'
<1>1. /\ Len(c2t) \in Nat /\ Len(c2t') \in Nat /\ HighWater \in Nat
  BY QueueType, HighWaterNat, SMTT(30) DEF TypeOK, TypeSess
<1>2. /\ (pc = "c_read" /\ closing = 0 /\ conn.handshake_done) => Len(c2t) < HighWater
      /\ ("read" \in batch.c /\ "error" \notin batch.c /\ conn.handshake_done) =>
           Len(c2t) < HighWater
      /\ pc \in {"c_read", "ws"} => batch.c = {}
      /\ (conn.handshake_done /\ pc # "ws" /\ closing = 0) => done = csock.read
  BY DEF RoomInv
<1>3. (Len(c2t) < HighWater) => (Len(c2t') < HighWater)
  BY <1>1
<1> QED
  BY <1>2, <1>3 DEF RoomInv

\* A read reported for a client that was upgraded finds client_to_target below
\* its high-water mark: that is what the descriptor is registered for.
LEMMA WaitRoom ==
  ASSUME SafeSizes, TypeOK, UpgradeInv, InterestInv, RoomInv, Wait
  PROVE  RoomInv'
<1>1. PICK c \in Masks(csock, interest.c, ~conn.client_tls_ready) : batch'.c = c
  BY DEF Wait
<1>2. UNCHANGED <<sess, pc, net, history>> /\ pc = "loop" /\ closing # 2
  BY DEF Wait
<1>3. ASSUME "read" \in c, "error" \notin c, conn.handshake_done PROVE Len(c2t) < HighWater
  <2>1. "read" \in interest.c
    BY <1>3 DEF Masks
  <2>2. interest.c = ClientEvents
    BY <1>2 DEF InterestInv, session_update_events
  <2>3. conn.client_tls_ready
    BY <1>3 DEF UpgradeInv
  <2>4. ~is_high(c2t)
    BY <1>3, <2>1, <2>2, <2>3 DEF ClientEvents
  <2> QED
    BY <2>4, QueueType, HighWaterNat DEF is_high
<1> QED
  BY <1>1, <1>2, <1>3 DEF RoomInv, sess, net, history

\* The read half of the client's handler ends with all frames processed.
LEMMA WsDoneRoom ==
  ASSUME SafeSizes, TypeOK, RoomInv, WsDone
  PROVE  RoomInv'
<1>1. /\ pc = "ws" /\ (Unprocessed = 0 \/ closing # 0) /\ UNCHANGED <<sess, batch, net, history>>
      /\ pc' # "ws" /\ (pc' = "c_read" => ~is_high(c2t))
  BY AfterReadLeads DEF WsDone
<1>2. batch.c = {} /\ (closing = 0 => done = csock.read)
  BY <1>1, QueueType DEF RoomInv, Unprocessed
<1>3. pc' = "c_read" => Len(c2t) < HighWater
  BY <1>1, QueueType, HighWaterNat DEF is_high
<1> QED
  BY <1>1, <1>2, <1>3 DEF RoomInv, sess, net, history

\* A client event starts a read only below the high-water mark.
LEMMA HandleClientRoom ==
  ASSUME SafeSizes, TypeOK, RoomInv, HandleClientEvent
  PROVE  RoomInv'
<1>1. /\ pc = "loop" /\ "error" \notin batch.c /\ batch'.c = {}
      /\ pc' = (IF "read" \in batch.c THEN "c_read" ELSE "c_write")
      /\ UNCHANGED <<closing, c2t, net, history>>
      /\ conn'.handshake_done = conn.handshake_done
  <2>1. batch' = [batch EXCEPT !["c"] = {}] /\ "c" \in DOMAIN batch
    BY DEF HandleClientEvent, Dispatch, TypeOK, TypeThread
  <2> QED
    BY <2>1, LegKeeps DEF HandleClientEvent, Dispatch, Enter, LegEvent
<1> QED
  BY <1>1 DEF RoomInv, net, history

\* A read of frames takes at most a chunk.
LEMMA ReadBound ==
  ASSUME TypeOK, NEW r \in ClientReads
  PROVE  r.n \in Nat /\ r.n <= Chunk /\ csock.read + r.n <= csock.arrived
<1>1. writable(c2t) \in Nat /\ Chunk \in Nat /\ ClientTls \in BOOLEAN
  BY QueueType, SizeAssumption, ModeAssumption, SMTT(30) DEF writable
<1>2. PICK limit \in Nat : limit <= Chunk /\ r \in Reads(csock, ClientTls, limit)
  <2>1. min_size(Chunk, writable(c2t)) \in Nat /\ min_size(Chunk, writable(c2t)) <= Chunk
    BY <1>1, MinSize
  <2> QED
    BY <1>1, <2>1 DEF ClientReads
<1>3. csock \in SockType({"none", "syn", "open", "fin", "rst"})
      /\ csock.read + csock.pend <= csock.arrived
  BY DEF TypeOK, TypeNet, SockType
<1>4. r.n \in Nat /\ r.pend \in Nat /\ r.n <= limit /\ csock.read + r.n + r.pend <= csock.arrived
  BY <1>1, <1>2, <1>3, ReadsBound
<1> QED
  BY <1>1, <1>2, <1>3, <1>4 DEF SockType

LEMMA ReadFramesRoom ==
  ASSUME SafeSizes, TypeOK, RoomInv, ReadFrames
  PROVE  RoomInv'
<1>1. PICK r \in ClientReads : TakeFromClient(r)
  BY DEF ReadFrames
<1>2. /\ csock'.read = csock.read + r.n /\ r.n \in Nat /\ r.n <= Chunk
      /\ closing = 0 /\ pc = "c_read"
  BY <1>1, TakeType, ReadBound, ReadsWhenOpen
<1>3. UNCHANGED <<sess, batch, history>> /\ pc' = "ws" /\ conn.handshake_done
  BY DEF ReadFrames
<1>4. Len(c2t) < HighWater /\ done = csock.read /\ batch.c = {}
  BY <1>2, <1>3 DEF RoomInv
<1>5. Len(c2t) + r.n + CtlMax <= BufSize
  BY <1>2, <1>4, QueueType, SafeBounds, SMTT(30)
<1>6. Unprocessed' = r.n
  BY <1>2, <1>3, <1>4, QueueType DEF Unprocessed, history
<1>7. c2t' = c2t /\ batch'.c = {}
  BY <1>3, <1>4 DEF sess
<1>8. Len(c2t') + Unprocessed' + CtlMax <= BufSize
  BY <1>5, <1>6, <1>7
<1> QED
  BY <1>3, <1>7, <1>8 DEF RoomInv

LEMMA UpgradeRoom ==
  ASSUME SafeSizes, TypeOK, UpgradeInv, RoomInv, Upgrade
  PROVE  RoomInv'
<1>1. PICK r \in ClientReads : \E e \in 1..csock.read + r.n :
        csock.read + r.n <= HsMax /\ TakeFromClient(r) /\ done' = e
  BY DEF Upgrade
<1>2. /\ csock'.read = csock.read + r.n /\ r.n \in Nat /\ pc = "c_read"
  BY <1>1, TakeType, ReadBound, ReadsWhenOpen
<1>3. pc' = "ws" /\ batch'.c = batch.c /\ c2t' = c2t /\ ~conn.handshake_done
  BY DEF Upgrade
<1>4. c2t = <<>> /\ batch.c = {}
  BY <1>2, <1>3 DEF UpgradeInv, RoomInv
<1>5. Unprocessed' <= HsMax /\ Unprocessed' \in Int
  <2>1. csock.read \in Nat /\ r.n \in Nat /\ HsMax \in Nat
    BY <1>2, QueueType, SafeBounds
  <2>2. PICK e \in 1..csock.read + r.n : csock.read + r.n <= HsMax /\ done' = e
    BY <1>1
  <2>3. Unprocessed' = (csock.read + r.n) - e
    BY <1>2, <2>2 DEF Unprocessed
  <2> QED
    BY <2>1, <2>2, <2>3
<1>6. Len(c2t') + Unprocessed' + CtlMax <= BufSize
  BY <1>3, <1>4, <1>5, SafeBounds
<1> QED
  BY <1>3, <1>4, <1>6 DEF RoomInv

\* A call of the parser finds room for a byte, and for a control frame.
LEMMA FeedingRoom ==
  ASSUME SafeSizes, TypeOK, RoomInv, pc = "ws", Unprocessed > 0, closing = 0
  PROVE  /\ payload_capacity > 0 /\ CtlMax <= payload_capacity
         /\ Len(c2t) + Unprocessed + CtlMax <= BufSize
<1>1. Len(c2t) + Unprocessed + CtlMax <= BufSize
  BY DEF RoomInv
<1>2. Unprocessed \in Int
  BY QueueType DEF Unprocessed
<1>3. writable(c2t) > 0 /\ CtlMax <= writable(c2t)
  BY <1>1, <1>2, QueueType, SafeBounds, SMTT(30) DEF writable
<1> QED
  BY <1>1, <1>3, SafeBounds DEF payload_capacity, min_size

\* Payload is what client_to_target grows by.
LEMMA MessageQueue ==
  ASSUME TypeOK, Feeding, NEW op, NEW n \in Nat, done + n <= Len(script),
         session_handle_ws_message(op, n)
  PROVE  c2t' \in Seq(Nat) /\ Len(c2t') \in Nat /\ Len(c2t') <= Len(c2t) + n
<1>1. CASE c2t' = c2t
  BY <1>1, QueueType
<1>2. CASE c2t' = c2t \o [i \in 1..n |-> script[done + i].off]
  <2> DEFINE new == [i \in 1..n |-> script[done + i].off]
  <2>1. \A i \in 1..n : script[done + i].off \in Nat
    <3> SUFFICES ASSUME NEW i \in 1..n PROVE script[done + i].off \in Nat
      OBVIOUS
    <3>1. done + i \in 1..Len(script)
      BY FeedingType, SMTT(30)
    <3>2. script[done + i] \in Token
      BY <3>1, ScriptToken DEF TypeOK
    <3> QED
      BY <3>2 DEF Token
  <2>2. new \in [1..n -> Nat]
    BY <2>1
  <2>3. new \in Seq(Nat) /\ Len(new) = n
    BY <2>2
  <2>4. c2t' = c2t \o new
    BY <1>2
  <2> HIDE DEF new
  <2>5. c2t \o new \in Seq(Nat) /\ Len(c2t \o new) = Len(c2t) + n
    BY <2>3, QueueType, ConcatProperties
  <2> QED
    BY <2>4, <2>5, QueueType
<1> QED
  BY <1>1, <1>2 DEF session_handle_ws_message

\* What the parser takes leaves the bytes that follow the room they had.
LEMMA ParseRoom ==
  ASSUME SafeSizes, TypeOK, RoomInv, Feeding,
         NEW n \in Nat, NEW m \in Nat, done' = done + n, m <= n,
         Len(c2t') \in Nat, Len(c2t') <= Len(c2t) + m,
         UNCHANGED <<pc, batch, csock>>
  PROVE  RoomInv'
<1>1. pc = "ws" /\ batch.c = {}
  BY DEF Feeding, RoomInv
<1>2. Len(c2t) + Unprocessed + CtlMax <= BufSize
  BY FeedingRoom DEF Feeding
<1>3. Unprocessed' = Unprocessed - n /\ Unprocessed \in Int
  BY QueueType DEF Unprocessed
<1> DEFINE u == Unprocessed
           l == Len(c2t)
           k == Len(c2t')
<1>4. /\ l + u + CtlMax <= BufSize /\ u \in Int /\ l \in Nat /\ k \in Nat /\ k <= l + m
      /\ CtlMax \in Nat /\ BufSize \in Nat
  BY <1>2, <1>3, QueueType, SafeBounds
<1> HIDE DEF u, l, k
<1>5. k + (u - n) + CtlMax <= BufSize
  BY <1>4
<1>6. Len(c2t') + Unprocessed' + CtlMax <= BufSize
  BY <1>3, <1>5 DEF u, k
<1> QED
  BY <1>1, <1>6 DEF RoomInv

LEMMA NextRoom ==
  SafeSizes /\ TypeOK /\ UpgradeInv /\ InterestInv /\ RoomInv /\ [Next]_vars => RoomInv'
<1> SUFFICES ASSUME SafeSizes, TypeOK, UpgradeInv, InterestInv, RoomInv, [Next]_vars
             PROVE  RoomInv'
  OBVIOUS
<1>0. TypeOK'
  BY NextType
<1>1. CASE Closes
  <2>1. closing' = 2 /\ pc' = "loop" /\ batch'.c = {}
    BY <1>1, ClosesIsClose DEF session_close, NoEvents
  <2> QED
    BY <2>1 DEF RoomInv
<1>2. CASE Wait
  BY <1>2, WaitRoom
<1>3. CASE WsDone
  BY <1>3, WsDoneRoom
<1>4. CASE ReadClientStops \/ ReadTargetStops \/ WriteClientStops \/ WriteTargetStops
  <2>1. pc \notin {"ws", "loop"} /\ pc' \in {"c_write", "t_write", "loop"}
        /\ UNCHANGED <<sess, batch, net, history>>
    BY <1>4, AfterReadLeads
       DEF ReadClientStops, ReadTargetStops, WriteClientStops, WriteTargetStops, Return
  <2> QED
    BY <1>0, <2>1, QueueType, KeepRoom DEF sess, net, history
<1>5. CASE PeerStep
  <2>1. pc # "ws" /\ UNCHANGED <<sess, thread, history>>
    BY <1>5 DEF PeerStep, ClientArrives, ClientDrains, ClientLeaves, TargetAccepts,
         TargetSends, TargetDrains, TargetLeaves, Concurrently
  <2>2. csock'.read = csock.read
    <3>1. csock \in SockType({"open", "fin", "rst"})
      BY DEF TypeOK, TypeNet
    <3> QED
      BY <1>5, <3>1 DEF PeerStep, ClientArrives, ClientDrains, ClientLeaves, TargetAccepts,
           TargetSends, TargetDrains, TargetLeaves, SockType
  <2> QED
    BY <1>0, <2>1, <2>2, QueueType, KeepRoom DEF sess, thread, history
<1>6. CASE HandleClientEvent
  BY <1>6, HandleClientRoom
<1>7. CASE ClientTlsAgain \/ TargetTlsAgain \/ HandleTargetEvent
  <2>1. batch'.c \in {batch.c, {}}
    BY <1>7 DEF ClientTlsAgain, TargetTlsAgain, HandleTargetEvent, Dispatch, TypeOK, TypeThread
  <2>2. pc' # "c_read"
    BY <1>7 DEF ClientTlsAgain, TargetTlsAgain, HandleTargetEvent, Return, Enter
  <2> QED
    BY <1>0, <1>7, <2>1, <2>2, LegKeeps, LegEnters, QueueType, KeepRoom
       DEF LegEvent, net, history
<1>8. CASE ReadRequest
  <2>1. /\ UNCHANGED sess /\ ~conn.handshake_done /\ batch' = batch
        /\ pc' \in {"c_write", "loop"}
    BY <1>8, AfterReadLeads DEF ReadRequest
  <2> QED
    BY <2>1 DEF RoomInv, sess
<1>9. CASE ReadFrames
  BY <1>9, ReadFramesRoom
<1>10. CASE Upgrade
  BY <1>10, UpgradeRoom
<1>11. CASE WsFull
  BY <1>11, FeedingRoom DEF WsFull
<1>12. CASE WsHeader
  <2>1. Feeding /\ done' = done + 1 /\ c2t' = c2t /\ UNCHANGED <<pc, batch, csock>>
    BY <1>12 DEF WsHeader, thread, net
  <2>2. Len(c2t') \in Nat /\ Len(c2t') <= Len(c2t) + 0
    BY <2>1, QueueType
  <2> QED
    BY <2>1, <2>2, ParseRoom
<1>13. CASE WsEmptyFrame
  <2>1. Feeding /\ done' = done + 1 /\ UNCHANGED <<pc, batch, csock>>
    BY <1>13 DEF WsEmptyFrame, thread, net
  <2>2. PICK op : session_handle_ws_message(op, 0)
    BY <1>13 DEF WsEmptyFrame
  <2>3. done + 0 <= Len(script)
    BY <2>1, FeedingType
  <2>4. Len(c2t') \in Nat /\ Len(c2t') <= Len(c2t) + 0
    BY <2>1, <2>2, <2>3, MessageQueue
  <2> QED
    BY <2>1, <2>4, ParseRoom
<1>14. CASE WsPayload
  <2>1. /\ Feeding /\ done' = done + PayloadStep /\ UNCHANGED <<pc, batch, csock>>
        /\ session_handle_ws_message(ws_parser.op, PayloadStep)
    BY <1>14 DEF WsPayload, thread, net
  <2>2. PayloadStep \in Nat /\ done + PayloadStep <= Len(script)
    BY <2>1, FeedingType, PayloadStepType
  <2>3. Len(c2t') \in Nat /\ Len(c2t') <= Len(c2t) + PayloadStep
    BY <2>1, <2>2, MessageQueue
  <2> QED
    BY <2>1, <2>2, <2>3, ParseRoom
<1>15. CASE WriteClient
  <2>1. csock'.read = csock.read
    BY <1>15 DEF WriteClient, DeliverToClient, TypeOK, TypeNet, SockType
  <2> QED
    BY <1>0, <1>15, <2>1, QueueType, KeepRoom DEF WriteClient
<1>16. CASE NextFrame
  BY <1>0, <1>16, QueueType, KeepRoom DEF NextFrame, Return, net, history
<1>17. CASE ReadTarget
  <2>1. pc = "t_read"
    BY <1>17 DEF ReadTarget, TargetReads
  <2> QED
    BY <1>0, <1>17, <2>1, QueueType, KeepRoom DEF ReadTarget, history
<1>18. CASE WriteTarget
  <2>1. Len(c2t') <= Len(c2t)
    BY <1>18, WriteTargetCuts
  <2> QED
    BY <1>0, <1>18, <2>1, KeepRoom DEF WriteTarget
<1>19. CASE UNCHANGED vars
  BY <1>19 DEF RoomInv, vars, sess, thread, net, history, Unprocessed
<1> QED
  BY <1>1, <1>2, <1>3, <1>4, <1>5, <1>6, <1>7, <1>8, <1>9, <1>10, <1>11, <1>12, <1>13,
     <1>14, <1>15, <1>16, <1>17, <1>18, <1>19 DEF Next, LoopStep, Closes

-----------------------------------------------------------------------------
(* No overflow.                                                            *)

RoomyInv == TypeOK /\ UpgradeInv /\ ClosingInv /\ InterestInv /\ RoomInv

LEMMA WsFits == ASSUME SafeSizes, TypeOK, RoomInv PROVE ~WsOverflow
<1> SUFFICES ASSUME WsOverflow PROVE FALSE
  OBVIOUS
<1>1. Feeding /\ ws_parser.left > 0 /\ DoesNotFit
  BY DEF WsOverflow
<1>2. CtlMax <= payload_capacity
  BY <1>1, FeedingRoom DEF Feeding
<1>3. CASE ws_parser.op \in CtlOps
  <2>1. ws_parser.left <= CtlMax /\ ws_parser.left > payload_capacity
    BY <1>1, <1>3 DEF DoesNotFit, TypeOK, TypeSess
  <2> QED
    BY <1>1, <1>2, <2>1, FeedingType, SafeBounds, SMTT(30)
<1>4. CASE ws_parser.op \notin CtlOps
  <2>1. PayloadStep > writable(c2t)
    BY <1>1, <1>4 DEF DoesNotFit
  <2> QED
    BY <1>1, <2>1, FeedingType, PayloadStepType
<1> QED
  BY <1>3, <1>4

LEMMA TargetFits == ASSUME SafeSizes, TypeOK PROVE ~ReadTargetOverflow
<1> SUFFICES ASSUME ReadTargetOverflow PROVE FALSE
  OBVIOUS
<1>1. PICK r \in TargetReads : r.n > writable(t2c)
  BY DEF ReadTargetOverflow
<1>2. r.n \in Nat /\ r.n <= Chunk /\ ~is_high(t2c)
  BY TargetReadType
<1>3. Len(t2c) \in Nat
  BY LenProperties DEF TypeOK, TypeSess
<1> QED
  BY <1>1, <1>2, <1>3, SafeBounds DEF is_high, writable

LEMMA NextNoOverflow ==
  SafeSizes /\ TypeOK /\ RoomInv /\ reason # "overflow" /\ [Next]_vars => reason' # "overflow"
<1> SUFFICES ASSUME SafeSizes, TypeOK, RoomInv, reason # "overflow", [Next]_vars
             PROVE  reason' # "overflow"
  OBVIOUS
<1>1. ~WsOverflow /\ ~ReadTargetOverflow
  BY WsFits, TargetFits
<1>2. CASE Closes
  BY <1>1, <1>2
     DEF Closes, Expire, EventError, ClientTlsFails, ConnectFails, TargetTlsFails,
         ReadClientFails, RefuseRequest, UpgradeFails, WsProtocolError, WsPingRefused,
         WriteClientFails, CloseSent, ReadTargetFails, WriteTargetFails, session_close
<1>3. CASE Stutters
  BY <1>3, StuttersKeep DEF history
<1>4. CASE LegEvent
  BY <1>4, LegKeeps DEF history
<1>5. CASE ReadFrames \/ ReadRequest \/ Upgrade \/ WsFull \/ WsHeader \/ WsEmptyFrame
           \/ WsPayload \/ WriteClient \/ NextFrame \/ ReadTarget \/ WriteTarget
  BY <1>5 DEF ReadFrames, ReadRequest, Upgrade, WsFull, WsHeader, WsEmptyFrame,
       WsPayload, WriteClient, NextFrame, ReadTarget, WriteTarget, history
<1>6. CASE UNCHANGED vars
  BY <1>6 DEF vars, history
<1> QED
  BY <1>2, <1>3, <1>4, <1>5, <1>6 DEF Next, LoopStep, Closes, Stutters, LegEvent

LEMMA InitInterest == Init => InterestInv
BY InitArmed DEF ArmedInv

LEMMA InitRoom == Init => RoomInv
BY DEF Init, RoomInv, NoEvents

LEMMA InitRoomy == Init => RoomyInv
BY InitType, InitUpgrade, InitInterest, InitRoom DEF RoomyInv

LEMMA NextRoomy == ASSUME SafeSizes PROVE RoomyInv /\ [Next]_vars => RoomyInv'
BY NextType, NextUpgrade, NextClosing, NextInterest, NextRoom DEF RoomyInv

\* With buffers of a safe size no session is dropped because data was read that
\* does not fit: a read of the client starts below the high-water mark because
\* session_update_events registers it only there, and session_process_ws_bytes
\* then always has room for all that was read.  RoomInv carries that from the
\* registration through the batch and the handler to the last frame parsed.
THEOREM SessionNoOverflow == Spec => []NoOverflowClose
<1> DEFINE Inv == SafeSizes => RoomyInv /\ reason # "overflow"
<1>1. Init => Inv
  <2>1. Init => reason # "overflow"
    BY DEF Init
  <2> QED
    BY <2>1, InitRoomy
<1>2. Inv /\ [Next]_vars => Inv'
  <2> SUFFICES ASSUME SafeSizes, RoomyInv, reason # "overflow", [Next]_vars
               PROVE  RoomyInv' /\ reason' # "overflow"
    OBVIOUS
  <2>1. RoomyInv'
    BY NextRoomy
  <2>2. reason' # "overflow"
    BY NextNoOverflow DEF RoomyInv
  <2> QED
    BY <2>1, <2>2
<1>3. Inv => NoOverflowClose
  BY DEF NoOverflowClose
<1> QED
  BY <1>1, <1>2, <1>3, PTL DEF Spec
-----------------------------------------------------------------------------
(* Client to target, nothing is lost, duplicated or reordered.             *)

LEMMA KeepUp ==
  ASSUME UpInOrder, ParserInv, UNCHANGED <<t_seen, c2t, done, script, ws_parser>>,
         closing' \in {closing, 2}
  PROVE  UpInOrder' /\ ParserInv'
<1>1. Sent(done)' = Sent(done)
  BY DEF Sent
<1>2. closing' # 2 => closing' = closing
  OBVIOUS
<1>3. UpInOrder'
  BY <1>1, <1>2 DEF UpInOrder, Numbered
<1>4. ParserInv'
  BY <1>1, <1>2 DEF ParserInv
<1> QED
  BY <1>3, <1>4

LEMMA SentType == ASSUME TypeOK PROVE Sent(done) \in Nat
<1>1. done \in Nat /\ (done # 0 => done \in 1..Len(script))
  <2>1. /\ done \in Nat /\ csock.read \in Nat /\ csock.pend \in Nat /\ csock.arrived \in Nat
        /\ csock.read + csock.pend <= csock.arrived /\ csock.arrived <= Len(script)
        /\ done <= csock.read
    BY DEF TypeOK, TypeHistory, TypeNet, SockType
  <2>2. Len(script) \in Nat
    BY ScriptAssumption, LenProperties DEF TypeOK, TypeNet, IsScript
  <2> QED
    BY <2>1, <2>2
<1>2. done # 0 => script[done] \in Token
  BY <1>1, ScriptToken DEF TypeOK
<1> QED
  BY <1>2 DEF Sent, Token

\* A header carries no data byte, and the payload it announces comes next.
LEMMA HeaderSent ==
  ASSUME TypeOK, Feeding, script[done + 1].k = "hdr"
  PROVE  /\ script[done + 1].off = Sent(done)
         /\ \A j \in 1..script[done + 1].len : done + 1 + j <= Len(script) =>
              script[done + 1 + j].off
                = Sent(done) + (IF script[done + 1].op \in DataOps THEN j ELSE 0)
<1>1. done + 1 \in 1..Len(script) /\ done \in Nat
  BY FeedingType
<1>2. IsScript(script)
  BY ScriptAssumption DEF TypeOK, TypeNet
<1>3. /\ script[done + 1].off = IF done + 1 = 1 THEN 0 ELSE script[(done + 1) - 1].off
      /\ \A j \in 1..script[done + 1].len : (done + 1) + j <= Len(script) =>
           script[(done + 1) + j].off
             = script[done + 1].off + (IF script[done + 1].op \in DataOps THEN j ELSE 0)
  BY <1>1, <1>2 DEF IsScript
<1>4. (done + 1) - 1 = done /\ (done + 1 = 1 <=> done = 0)
  BY <1>1
<1>5. script[done + 1].off = Sent(done)
  BY <1>3, <1>4 DEF Sent
<1> QED
  BY <1>3, <1>5

LEMMA WsHeaderUp ==
  ASSUME TypeOK, ParserInv, UpInOrder, WsHeader
  PROVE  UpInOrder' /\ ParserInv'
<1>1. /\ Feeding /\ script[done + 1].k = "hdr" /\ done' = done + 1
      /\ ws_parser' = [op |-> script[done + 1].op, left |-> script[done + 1].len]
      /\ UNCHANGED <<closing, c2t, t_seen, script>>
  BY DEF WsHeader, net
<1>2. done \in Nat /\ Sent(done)' = Sent(done)
  <2>1. done \in Nat /\ done + 1 # 0
    BY QueueType
  <2>2. Sent(done)' = script[done + 1].off
    BY <1>1, <2>1 DEF Sent
  <2> QED
    BY <1>1, <2>1, <2>2, HeaderSent
<1>3. UpInOrder'
  BY <1>1, <1>2 DEF UpInOrder, Numbered
<1>4. ParserInv'
  <2>1. ws_parser'.op = script[done + 1].op /\ ws_parser'.left = script[done + 1].len
    BY <1>1
  <2> QED
    BY <1>1, <1>2, <2>1, HeaderSent DEF ParserInv
<1> QED
  BY <1>3, <1>4

\* A message that adds nothing to client_to_target and carries no data.
LEMMA WsEmptyFrameUp ==
  ASSUME TypeOK, ParserInv, UpInOrder, WsEmptyFrame
  PROVE  UpInOrder' /\ ParserInv'
<1>1. /\ Feeding /\ script[done + 1].k = "hdr" /\ done' = done + 1 /\ ws_parser.left = 0
      /\ UNCHANGED <<t_seen, script, ws_parser>>
      /\ session_handle_ws_message(script[done + 1].op, 0)
  BY DEF WsEmptyFrame, net
<1>2. Sent(done)' = Sent(done)
  <2>1. done \in Nat /\ done + 1 # 0
    BY QueueType
  <2>2. Sent(done)' = script[done + 1].off
    BY <1>1, <2>1 DEF Sent
  <2> QED
    BY <1>1, <2>1, <2>2, HeaderSent
<1>3. c2t' = c2t
  <2>1. CASE c2t' = c2t \o [i \in 1..0 |-> script[done + i].off]
    <3>1. [i \in 1..0 |-> script[done + i].off] = <<>>
      OBVIOUS
    <3> QED
      BY <2>1, <3>1, QueueType, ConcatEmptySeq
  <2> QED
    BY <1>1, <2>1 DEF session_handle_ws_message
<1>4. closing # 2
  BY <1>1 DEF Feeding
<1>5. UpInOrder'
  BY <1>1, <1>2, <1>3, <1>4 DEF UpInOrder, Numbered
<1>6. ParserInv'
  BY <1>1 DEF ParserInv
<1> QED
  BY <1>5, <1>6

\* The bytes of a payload are the next ones in order.
LEMMA WsPayloadUp ==
  ASSUME SafeSizes, TypeOK, ParserInv, UpInOrder, WsPayload
  PROVE  UpInOrder' /\ ParserInv'
<1> DEFINE n == PayloadStep
           p == ws_parser.left
           data == ws_parser.op \in DataOps
           s == Sent(done)
<1>1. /\ Feeding /\ p > 0 /\ done' = done + n
      /\ ws_parser' = IF p = n THEN NoFrameParsed ELSE [ws_parser EXCEPT !.left = p - n]
      /\ UNCHANGED <<t_seen, script>>
      /\ session_handle_ws_message(ws_parser.op, n)
  BY DEF WsPayload, net
<1>2. /\ closing = 0 /\ s \in Nat /\ done \in Nat /\ p \in Nat
      /\ n \in Nat /\ n <= p /\ done + n <= Len(script) /\ Len(script) \in Nat
  BY <1>1, SentType, FeedingType, PayloadStepType DEF Feeding
<1>3. n > 0
  <2>1. Unprocessed > 0 /\ payload_capacity > 0 /\ p > 0
    BY <1>1 DEF Feeding
  <2> QED
    BY <2>1 DEF PayloadStep, min_size
<1>4. \A j \in 1..p : done + j <= Len(script) =>
        script[done + j].off = s + (IF data THEN j ELSE 0)
  BY <1>1, <1>2 DEF ParserInv
<1>5. t_seen \o c2t = Numbered(0, s)
  BY <1>2 DEF UpInOrder
<1>6. p # n => ws_parser'.left = p - n /\ ws_parser'.op = ws_parser.op
  BY <1>1 DEF TypeOK, TypeSess
<1>7. p = n => ws_parser'.left = 0
  BY <1>1 DEF NoFrameParsed
<1>8. c2t' = c2t \/ (data /\ c2t' = c2t \o [i \in 1..n |-> script[done + i].off])
  BY <1>1 DEF session_handle_ws_message
<1>9. ~data => c2t' = c2t
  BY <1>1 DEF session_handle_ws_message
<1>10. data => c2t' = c2t \o [i \in 1..n |-> script[done + i].off]
  BY <1>1 DEF session_handle_ws_message, DataOps
<1>11. Sent(done)' = script[done + n].off
  BY <1>1, <1>2, <1>3 DEF Sent
<1> HIDE DEF n, p, data, s
<1>12. Sent(done)' = s + (IF data THEN n ELSE 0)
  BY <1>2, <1>3, <1>4, <1>11
<1>13. UpInOrder'
  <2>1. CASE ~data
    <3>1. c2t' = c2t /\ Sent(done)' = s
      BY <1>2, <1>9, <1>12, <2>1
    <3> QED
      BY <1>1, <1>5, <3>1 DEF UpInOrder, Numbered
  <2>2. CASE data
    <3> DEFINE new == [i \in 1..n |-> script[done + i].off]
    <3>1. \A i \in 1..n : script[done + i].off = s + i
      BY <1>2, <1>4, <2>2
    <3>2. new = Numbered(s, n)
      BY <3>1 DEF Numbered
    <3>3. c2t' = c2t \o Numbered(s, n)
      BY <1>10, <2>2, <3>2
    <3>4. t_seen \in Seq(Nat) /\ c2t \in Seq(Nat) /\ Numbered(s, n) \in Seq(Nat)
      BY <1>2, QueueType, NumberedSeq
    <3>5. (t_seen \o c2t) \o Numbered(s, n) = t_seen \o (c2t \o Numbered(s, n))
      BY <3>4, ConcatAssociative, SMTT(40)
    <3>6. Numbered(0, s) \o Numbered(s, n) = Numbered(0, s + n)
      BY <1>2, NumberedAppend
    <3>7. t_seen' \o c2t' = Numbered(0, s + n)
      BY <1>1, <1>5, <3>3, <3>5, <3>6
    <3>8. Sent(done)' = s + n
      BY <1>12, <2>2
    <3>9. Numbered(0, Sent(done))' = Numbered(0, s + n)
      BY <3>8 DEF Numbered
    <3> QED
      BY <3>7, <3>9 DEF UpInOrder
  <2> QED
    BY <2>1, <2>2
<1>14. ParserInv'
  <2> SUFFICES ASSUME p # n, NEW j \in 1..p - n, done' + j <= Len(script)
               PROVE  script[done' + j].off = Sent(done)' + (IF data THEN j ELSE 0)
    BY <1>1, <1>6, <1>7 DEF ParserInv, data
  <2>1. n + j \in 1..p /\ done + (n + j) <= Len(script) /\ done' + j = done + (n + j)
    BY <1>1, <1>2
  <2>2. script[done + (n + j)].off = s + (IF data THEN n + j ELSE 0)
    BY <1>4, <2>1
  <2> QED
    BY <1>2, <1>12, <2>1, <2>2
<1> QED
  BY <1>13, <1>14

\* The upgrade consumes the request, which carries no data byte.
LEMMA UpgradeUp ==
  ASSUME TypeOK, UpgradeInv, ParserInv, UpInOrder, Upgrade
  PROVE  UpInOrder' /\ ParserInv'
<1>1. PICK r \in ClientReads : \E e \in 1..csock.read + r.n :
        /\ RequestEnds(csock.read + r.n, e) /\ script[e].k = "end" /\ done' = e
  BY DEF Upgrade
<1>2. PICK e \in 1..csock.read + r.n : script[e].k = "end" /\ done' = e
  BY <1>1
<1>3. /\ UNCHANGED <<closing, c2t, ws_parser, script, t_seen>> /\ ~conn.handshake_done
  BY DEF Upgrade
<1>4. /\ done = 0 /\ ws_parser.left = 0
  BY <1>3 DEF UpgradeInv, NoFrameParsed
<1>5. e \in 1..Len(script)
  <2>1. csock.arrived <= Len(script) /\ csock.arrived \in Nat /\ csock.read \in Nat
        /\ r.n \in Nat /\ csock.read + r.n <= csock.arrived
    BY ReadBound DEF TypeOK, TypeNet, SockType
  <2>2. Len(script) \in Nat
    BY ScriptAssumption, LenProperties DEF TypeOK, TypeNet, IsScript
  <2> QED
    BY <2>1, <2>2
<1>6. script[e].off = 0
  BY <1>2, <1>5, ScriptAssumption DEF TypeOK, TypeNet, IsScript
<1>7. Sent(done) = 0 /\ Sent(done)' = 0
  BY <1>2, <1>3, <1>4, <1>6 DEF Sent
<1>8. UpInOrder'
  BY <1>3, <1>7 DEF UpInOrder, Numbered
<1>9. ParserInv'
  BY <1>3, <1>4 DEF ParserInv
<1> QED
  BY <1>8, <1>9

OrderInv == RoomyInv /\ ParserInv /\ UpInOrder

LEMMA NextUp ==
  ASSUME SafeSizes PROVE OrderInv /\ [Next]_vars => ParserInv' /\ UpInOrder'
<1> SUFFICES ASSUME OrderInv, [Next]_vars PROVE ParserInv' /\ UpInOrder'
  OBVIOUS
<1>0. TypeOK /\ UpgradeInv /\ RoomInv /\ ParserInv /\ UpInOrder
  BY DEF OrderInv, RoomyInv
<1>1. CASE Closes
  <2>1. closing' = 2
    BY <1>1, ClosesIsClose DEF session_close
  <2> QED
    BY <2>1 DEF ParserInv, UpInOrder
<1>2. CASE Stutters
  <2>1. script' = script
    BY <1>2 DEF Stutters, Wait, ReadClientStops, ReadTargetStops, WriteClientStops,
         WriteTargetStops, WsDone, PeerStep, ClientArrives, ClientDrains, ClientLeaves,
         TargetAccepts, TargetSends, TargetDrains, TargetLeaves, Concurrently, net
  <2> QED
    BY <1>0, <1>2, <2>1, StuttersKeep, KeepUp DEF sess, history
<1>3. CASE LegEvent
  BY <1>0, <1>3, LegKeeps, KeepUp DEF net, history
<1>4. CASE ReadRequest \/ ReadFrames
  BY <1>0, <1>4, KeepUp DEF ReadRequest, ReadFrames, sess, history
<1>5. CASE Upgrade
  BY <1>0, <1>5, UpgradeUp
<1>6. CASE WsFull
  BY <1>0, <1>6, FeedingRoom DEF WsFull
<1>7. CASE WsHeader
  BY <1>0, <1>7, WsHeaderUp
<1>8. CASE WsEmptyFrame
  BY <1>0, <1>8, WsEmptyFrameUp
<1>9. CASE WsPayload
  BY <1>0, <1>9, WsPayloadUp
<1>10. CASE WriteClient \/ NextFrame \/ ReadTarget
  BY <1>0, <1>10, KeepUp DEF WriteClient, NextFrame, ReadTarget, net, history
<1>11. CASE WriteTarget
  <2>1. UNCHANGED <<closing, done, script, ws_parser>>
    BY <1>11 DEF WriteTarget
  <2>2. t_seen' \o c2t' = t_seen \o c2t
    BY <1>0, <1>11, WriteTargetCuts
  <2>3. Sent(done)' = Sent(done)
    BY <2>1 DEF Sent
  <2>4. UpInOrder'
    BY <1>0, <2>1, <2>2, <2>3 DEF UpInOrder, Numbered
  <2>5. ParserInv'
    BY <1>0, <2>1, <2>3 DEF ParserInv
  <2> QED
    BY <2>4, <2>5
<1>12. CASE UNCHANGED vars
  BY <1>0, <1>12, KeepUp DEF vars, sess, net, history
<1> QED
  BY <1>1, <1>2, <1>3, <1>4, <1>5, <1>6, <1>7, <1>8, <1>9, <1>10, <1>11, <1>12
     DEF Next, LoopStep, Closes, Stutters, LegEvent

LEMMA InitOrder == Init => OrderInv
<1> SUFFICES ASSUME Init PROVE ParserInv /\ UpInOrder
  BY InitRoomy DEF OrderInv
<1>1. done = 0 /\ t_seen = <<>> /\ c2t = <<>> /\ ws_parser.left = 0
  BY DEF Init, NoFrameParsed
<1>2. t_seen \o c2t = <<>>
  BY <1>1
<1>3. Numbered(0, Sent(done)) = <<>>
  BY <1>1 DEF Numbered, Sent
<1> QED
  BY <1>1, <1>2, <1>3 DEF ParserInv, UpInOrder

LEMMA NextOrder == ASSUME SafeSizes PROVE OrderInv /\ [Next]_vars => OrderInv'
BY NextRoomy, NextUp DEF OrderInv

\* With buffers of a safe size what the target is handed, followed by
\* client_to_target, is exactly the payload of the frames processed, for every
\* client script, chunk and budget.  ParserInv says where in the script the
\* parser stands inside a frame; RoomInv excludes WsFull, the early return of
\* session_process_ws_bytes that drops bytes.
THEOREM SessionUpInOrder == SafeSizes => (Spec => []UpInOrder)
<1> SUFFICES ASSUME SafeSizes PROVE Spec => []UpInOrder
  OBVIOUS
<1>1. OrderInv => UpInOrder
  BY DEF OrderInv
<1> QED
  BY InitOrder, NextOrder, <1>1, PTL DEF Spec

-----------------------------------------------------------------------------
(* The session is a byte relay.                                            *)

\* The pipe to the client and the state of the relay.
Down == Unsent(client_out) \o t2c
Stage == IF closing = 2 THEN "closed"
         ELSE IF conn.handshake_done THEN "relaying" ELSE "upgrading"

LEMMA CutConcat ==
  ASSUME NEW x \in Seq(Nat), NEW w \in Seq(Nat), x # <<>>
  PROVE  /\ SubSeq(x \o w, 1, Len(x)) = x
         /\ SubSeq(x \o w, Len(x) + 1, Len(x \o w)) = w
<1>1. Len(x) \in Nat /\ Len(w) \in Nat /\ Len(x) > 0 /\ Len(x \o w) = Len(x) + Len(w)
  BY LenProperties, EmptySeq, ConcatProperties
<1>2. SubSeq(x \o w, 1, Len(x)) = x
  <2>1. SubSeq(x \o w, 1, Len(x)) = SubSeq(x, 1, Len(x))
    BY <1>1, SubSeqOfConcat1
  <2> QED
    BY <2>1, SubSeqFull
<1>3. CASE Len(w) = 0
  <2>1. w = <<>>
    BY <1>3, EmptySeq
  <2>2. SubSeq(x \o w, Len(x) + 1, Len(x \o w)) = <<>>
    BY <1>1, <1>3, SubSeqEmpty
  <2> QED
    BY <1>2, <2>1, <2>2
<1>4. CASE Len(w) # 0
  <2> DEFINE a == Len(x) + 1
             b == Len(x) + Len(w)
  <2>1. a \in Len(x) + 1..Len(x) + Len(w) /\ b \in Len(x) + 1..Len(x) + Len(w)
    BY <1>1, <1>4
  <2>2. a - Len(x) = 1 /\ b - Len(x) = Len(w)
    BY <1>1
  <2> HIDE DEF a, b
  <2>3. SubSeq(x \o w, a, b) = SubSeq(w, a - Len(x), b - Len(x))
    BY <2>1, SubSeqOfConcat2
  <2>4. SubSeq(x \o w, a, b) = w
    BY <2>2, <2>3, SubSeqFull
  <2> QED
    BY <1>1, <1>2, <2>4 DEF a, b
<1> QED
  BY <1>1, <1>3, <1>4

\* Steps of the relay, in the session's terms.
LEMMA RelayStutters ==
  ASSUME UNCHANGED <<c2t, t_seen, c_seen>>, Down' = Down, Stage' = Stage
  PROVE  UNCHANGED Relay!vars
BY DEF Relay!vars, Down, Stage

LEMMA RelayCloses ==
  ASSUME closing # 2, closing' = 2, c2t' = <<>>, Down' = <<>>, UNCHANGED <<t_seen, c_seen>>
  PROVE  Relay!Next
<1>1. Relay!Close
  BY DEF Relay!Close, Down
<1> QED
  BY <1>1 DEF Relay!Next

LEMMA RelayUpgrades ==
  ASSUME Stage = "upgrading", Stage' = "relaying", Down' = Down,
         UNCHANGED <<c2t, t_seen, c_seen>>
  PROVE  Relay!Next
<1>1. Relay!Upgrade
  BY DEF Relay!Upgrade, Down, Stage
<1> QED
  BY <1>1 DEF Relay!Next

LEMMA RelayUpEnters ==
  ASSUME NEW n \in 1..BufSize, Stage = "relaying", Stage' = "relaying",
         Len(c2t) + n <= BufSize, c2t' = c2t \o Numbered(Len(t_seen) + Len(c2t), n),
         Down' = Down, UNCHANGED <<t_seen, c_seen>>
  PROVE  Relay!Next
<1>1. Relay!Enter(c2t, t_seen, BufSize, n)
  BY DEF Relay!Enter, Relay!Numbers, Numbered, Stage
<1> QED
  BY <1>1 DEF Relay!Next, Down

LEMMA RelayUpLeaves ==
  ASSUME NEW n \in 1..Len(c2t), Stage = "relaying", Stage' = "relaying",
         t_seen' = t_seen \o SubSeq(c2t, 1, n), c2t' = SubSeq(c2t, n + 1, Len(c2t)),
         Down' = Down, UNCHANGED c_seen
  PROVE  Relay!Next
<1>1. Relay!Leave(c2t, t_seen, n)
  BY DEF Relay!Leave, Stage
<1> QED
  BY <1>1 DEF Relay!Next, Down

LEMMA RelayDownEnters ==
  ASSUME NEW n \in 1..BufSize + Chunk, Stage = "relaying", Stage' = "relaying",
         Len(Down) + n <= BufSize + Chunk,
         Down' = Down \o Numbered(Len(c_seen) + Len(Down), n),
         UNCHANGED <<c2t, t_seen, c_seen>>
  PROVE  Relay!Next
<1>1. Relay!Enter(Unsent(client_out) \o t2c, c_seen, BufSize + Chunk, n)
  BY DEF Relay!Enter, Relay!Numbers, Numbered, Stage, Down
<1> QED
  BY <1>1 DEF Relay!Next

LEMMA RelayDownLeaves ==
  ASSUME NEW n \in 1..Len(Down), Stage = "relaying", Stage' = "relaying",
         c_seen' = c_seen \o SubSeq(Down, 1, n), Down' = SubSeq(Down, n + 1, Len(Down)),
         UNCHANGED <<c2t, t_seen>>
  PROVE  Relay!Next
<1>1. Relay!Leave(Unsent(client_out) \o t2c, c_seen, n)
  BY DEF Relay!Leave, Stage, Down
<1> QED
  BY <1>1 DEF Relay!Next, Down

LEMMA KeepPipe ==
  ASSUME PipeInv, conn'.handshake_done = conn.handshake_done,
         tsock'.peer = tsock.peer, tsock'.arrived = tsock.arrived,
         client_out'.op = client_out.op, client_out'.pay = client_out.pay
  PROVE  PipeInv'
BY DEF PipeInv

LEMMA MessagePipe ==
  ASSUME PipeInv, UNCHANGED <<conn, tsock>>, NEW op, NEW n, session_handle_ws_message(op, n)
  PROVE  PipeInv'
<1>1. CASE client_out' = client_out
  BY <1>1, KeepPipe
<1>2. CASE client_out'.op \in {"pong", "close"}
  BY <1>2 DEF PipeInv
<1> QED
  BY <1>1, <1>2 DEF session_handle_ws_message, QueueClose, Frame

LEMMA PeerPipe == ASSUME TypeOK, PipeInv, PeerStep PROVE PipeInv'
<1>1. UNCHANGED sess
  BY DEF PeerStep, ClientArrives, ClientDrains, ClientLeaves, TargetAccepts,
       TargetSends, TargetDrains, TargetLeaves, Concurrently
<1>2. CASE conn.handshake_done
  BY <1>1, <1>2 DEF PipeInv, sess
<1>3. CASE ~conn.handshake_done
  <2>1. tsock.peer = "none" /\ tsock \in SockType({"none", "syn", "open", "fin", "rst"})
    BY <1>3 DEF PipeInv, TypeOK, TypeNet
  <2>2. tsock'.peer = tsock.peer /\ tsock'.arrived = tsock.arrived
    BY <2>1 DEF PeerStep, ClientArrives, ClientDrains, ClientLeaves, TargetAccepts,
         TargetSends, TargetDrains, TargetLeaves, SockType
  <2> QED
    BY <1>1, <2>2, KeepPipe DEF sess
<1> QED
  BY <1>2, <1>3

LEMMA NextFramePipe == ASSUME TypeOK, PipeInv, NextFrame PROVE PipeInv'
<1>1. UNCHANGED <<conn, tsock>>
  BY DEF NextFrame, net
<1>2. CASE client_out'.op # "binary"
  BY <1>1, <1>2 DEF PipeInv
<1>3. CASE client_out'.op = "binary"
  <2>1. ~pending_close.set
    BY <1>3 DEF NextFrame, Frame
  <2>2. PICK n : FrameChunk(n) /\ n = IF conn.handshake_done THEN min_size(Chunk, Len(t2c)) ELSE 0
    BY <2>1 DEF NextFrame
  <2>3. client_out'.pay = SubSeq(t2c, 1, n)
    BY <1>3, <2>2 DEF FrameChunk, Frame, NoFrame
  <2>4. t2c \in Seq(Nat) /\ Len(t2c) \in Nat /\ Chunk \in Nat
    BY LenProperties, SizeAssumption DEF TypeOK, TypeSess
  <2>5. n \in 0..Len(t2c) /\ n <= Chunk
    BY <2>2, <2>4, MinSize
  <2>6. Len(client_out'.pay) <= Chunk
    BY <2>3, <2>4, <2>5, CutSeq
  <2> QED
    BY <1>1, <2>6 DEF PipeInv
<1> QED
  BY <1>2, <1>3

LEMMA NextPipe == TypeOK /\ PipeInv /\ [Next]_vars => PipeInv'
<1> SUFFICES ASSUME TypeOK, PipeInv, [Next]_vars PROVE PipeInv'
  OBVIOUS
<1>0. tsock \in SockType({"none", "syn", "open", "fin", "rst"})
  BY DEF TypeOK, TypeNet
<1>1. CASE Closes
  <2>1. UNCHANGED <<conn, net>> /\ client_out'.op = "none"
    BY <1>1, ClosesIsClose DEF session_close, NoFrame
  <2> QED
    BY <2>1 DEF PipeInv, net
<1>2. CASE PeerStep
  BY <1>2, PeerPipe
<1>3. CASE Stutters /\ ~PeerStep
  BY <1>3, KeepPipe
     DEF Stutters, Wait, ReadClientStops, ReadTargetStops, WriteClientStops,
         WriteTargetStops, WsDone, sess, net
<1>4. CASE LegEvent
  BY <1>4, LegKeeps, KeepPipe DEF net
<1>5. CASE ReadRequest \/ ReadFrames \/ WsFull \/ WsHeader
  BY <1>5, KeepPipe DEF ReadRequest, ReadFrames, WsFull, WsHeader, sess, net
<1>6. CASE Upgrade
  <2>1. client_out'.op = "http"
    BY <1>6 DEF Upgrade, Frame
  <2>2. conn'.handshake_done
    BY <1>6, ConnTyped DEF Upgrade, session_start_target, ConnType
  <2> QED
    BY <2>1, <2>2 DEF PipeInv
<1>7. CASE WsEmptyFrame \/ WsPayload
  <2>1. UNCHANGED <<conn, tsock>> /\ \E op, n : session_handle_ws_message(op, n)
    BY <1>7 DEF WsEmptyFrame, WsPayload, net
  <2> QED
    BY <2>1, MessagePipe
<1>8. CASE WriteClient
  <2>1. client_out'.op = client_out.op /\ client_out'.pay = client_out.pay
    BY <1>8 DEF WriteClient, DeliverToClient, TypeOK, TypeSess
  <2> QED
    BY <1>8, <2>1, KeepPipe DEF WriteClient
<1>9. CASE NextFrame
  BY <1>9, NextFramePipe
<1>10. CASE ReadTarget
  <2>1. tsock'.peer = tsock.peer /\ tsock'.arrived = tsock.arrived
    BY <1>0, <1>10 DEF ReadTarget, SockType
  <2> QED
    BY <1>10, <2>1, KeepPipe DEF ReadTarget
<1>11. CASE WriteTarget
  <2>1. tsock'.peer = tsock.peer /\ tsock'.arrived = tsock.arrived
    BY <1>0, <1>11 DEF WriteTarget, SockType
  <2> QED
    BY <1>11, <2>1, KeepPipe DEF WriteTarget
<1>12. CASE UNCHANGED vars
  BY <1>12, KeepPipe DEF vars, sess, net
<1> QED
  BY <1>1, <1>2, <1>3, <1>4, <1>5, <1>6, <1>7, <1>8, <1>9, <1>10, <1>11, <1>12
     DEF Next, LoopStep, Closes, Stutters, LegEvent

RelayInv == OrderInv /\ ClosedInv /\ DownInOrder /\ PipeInv

LEMMA DownType ==
  ASSUME TypeOK
  PROVE  /\ Unsent(client_out) \in Seq(Nat) /\ t2c \in Seq(Nat) /\ Down \in Seq(Nat)
         /\ Len(Down) = Len(Unsent(client_out)) + Len(t2c)
         /\ Len(Unsent(client_out)) \in Nat /\ Len(t2c) \in Nat
<1>1. Unsent(client_out) \in Seq(Nat) /\ t2c \in Seq(Nat)
  BY UnsentSeq DEF TypeOK, TypeSess
<1> QED
  BY <1>1, ConcatProperties, LenProperties DEF Down

\* A message of n bytes, none of them data, is no step of the relay.
LEMMA MessageRelays ==
  ASSUME TypeOK, UpgradeInv, Feeding, UNCHANGED <<conn, t2c, t_seen, c_seen>>, c2t' = c2t,
         NEW op, NEW n \in Nat, session_handle_ws_message(op, n)
  PROVE  UNCHANGED Relay!vars
<1>1. closing = 0 /\ closing' \in {0, 1}
  BY DEF Feeding, session_handle_ws_message
<1>2. Stage' = Stage
  BY <1>1 DEF Stage
<1>3. Unsent(client_out') = Unsent(client_out)
  <2>1. CASE client_out' = client_out
    BY <2>1
  <2>2. CASE CanMakeFrame /\ (client_out' = Frame("pong", Blank(n))
                              \/ client_out' = Frame("close", Blank(n)))
    BY <2>2, UnsentSeq, ControlUnsent DEF CanMakeFrame, TypeOK
  <2> QED
    BY <2>1, <2>2 DEF session_handle_ws_message, QueueClose
<1>4. Down' = Down
  BY <1>3 DEF Down, Unsent
<1> QED
  BY <1>2, <1>4, RelayStutters

LEMMA WsEmptyFrameRelays ==
  ASSUME TypeOK, UpgradeInv, WsEmptyFrame
  PROVE  UNCHANGED Relay!vars
<1>1. Feeding /\ UNCHANGED <<conn, t2c, t_seen, c_seen>>
  BY DEF WsEmptyFrame
<1>2. PICK op : session_handle_ws_message(op, 0)
  BY DEF WsEmptyFrame
<1>3. c2t' = c2t
  <2>1. CASE c2t' = c2t \o [i \in 1..0 |-> script[done + i].off]
    <3>1. [i \in 1..0 |-> script[done + i].off] = <<>>
      OBVIOUS
    <3> QED
      BY <2>1, <3>1, QueueType, ConcatEmptySeq
  <2> QED
    BY <1>2, <2>1 DEF session_handle_ws_message
<1> QED
  BY <1>1, <1>2, <1>3, MessageRelays

LEMMA WsPayloadRelays ==
  ASSUME SafeSizes, TypeOK, UpgradeInv, ParserInv, UpInOrder, WsPayload
  PROVE  [Relay!Next]_(Relay!vars)
<1> DEFINE n == PayloadStep
           p == ws_parser.left
           s == Sent(done)
<1>1. /\ Feeding /\ p > 0 /\ UNCHANGED <<conn, t2c, t_seen, c_seen>>
      /\ session_handle_ws_message(ws_parser.op, n)
  BY DEF WsPayload
<1>2. /\ n \in Nat /\ n <= writable(c2t) /\ n <= p
      /\ done + n <= Len(script) /\ s \in Nat
      /\ done \in Nat /\ p \in Nat /\ Len(script) \in Nat
  BY <1>1, FeedingType, PayloadStepType, SentType
<1>5. closing = 0 /\ conn.handshake_done
  BY <1>1 DEF Feeding, UpgradeInv
<1> HIDE DEF n, p, s
<1>3. CASE ws_parser.op \notin DataOps
  <2>1. c2t' = c2t
    BY <1>1, <1>3 DEF session_handle_ws_message
  <2> QED
    BY <1>1, <1>2, <2>1, MessageRelays
<1>4. CASE ws_parser.op \in DataOps
  <2>1. /\ c2t' = c2t \o [i \in 1..n |-> script[done + i].off]
        /\ UNCHANGED <<client_out, closing>>
    BY <1>1, <1>4 DEF session_handle_ws_message, DataOps
  <2>2. n > 0
    <3>1. Unprocessed > 0 /\ payload_capacity > 0
      BY <1>1 DEF Feeding
    <3> QED
      BY <1>1, <3>1 DEF n, p, PayloadStep, min_size
  <2>3. \A j \in 1..p : done + j <= Len(script) => script[done + j].off = s + j
    BY <1>1, <1>2, <1>4, <1>5 DEF ParserInv, s, p
  <2>4. \A i \in 1..n : script[done + i].off = s + i
    BY <1>2, <2>3
  <2>5. c2t' = c2t \o Numbered(s, n)
    BY <2>1, <2>4 DEF Numbered
  <2>6. s = Len(t_seen) + Len(c2t)
    <3>1. t_seen \o c2t = Numbered(0, s)
      BY <1>5 DEF UpInOrder, s
    <3>2. Len(t_seen \o c2t) = Len(t_seen) + Len(c2t)
      BY QueueType, ConcatProperties
    <3> QED
      BY <1>2, <3>1, <3>2, NumberedSeq, ZenonT(40)
  <2>7. Down' = Down /\ Stage = "relaying" /\ Stage' = "relaying"
    BY <1>1, <1>5, <2>1 DEF Down, Unsent, Stage
  <2>8. n \in 1..BufSize /\ Len(c2t) + n <= BufSize
    <3>1. Len(c2t) \in Nat /\ BufSize \in Nat /\ n <= BufSize - Len(c2t)
      BY <1>2, QueueType, SizeAssumption DEF writable
    <3> QED
      BY <1>2, <2>2, <3>1
  <2> QED
    BY <1>1, <2>5, <2>6, <2>7, <2>8, RelayUpEnters
<1> QED
  BY <1>3, <1>4

\* The bytes of data a write takes leave the pipe; a header is no data.
LEMMA WriteClientRelays ==
  ASSUME TypeOK, ClosedInv, UpgradeInv, WriteClient
  PROVE  [Relay!Next]_(Relay!vars)
<1> DEFINE n == Taken(csock, OutLeft(client_out))
           g == [client_out EXCEPT !.pos = client_out.pos + n]
<1>1. /\ DeliverToClient(n) /\ n > 0 /\ UNCHANGED <<conn, closing, c2t, t2c, t_seen>>
      /\ OutLeft(client_out) > 0 /\ closing # 2
  BY DEF WriteClient, ClosedInv
<1>2. TypeSess /\ c_seen \in Seq(Nat) /\ t2c \in Seq(Nat)
  BY DEF TypeOK, TypeSess, TypeHistory
<1>3. n \in Nat /\ n <= OutLeft(client_out)
  <2>1. csock \in SockType({"none", "syn", "open", "fin", "rst"})
    BY DEF TypeOK, TypeNet, SockType
  <2> QED
    BY <1>2, <2>1, OutLeftType, TakenType
<1>4. Stage = "relaying" /\ Stage' = "relaying"
  BY <1>1, NotYet DEF Stage
<1> HIDE DEF n
<1>5. client_out' = g
  BY <1>1 DEF DeliverToClient
<1>6. CASE client_out.op = "binary"
  <2> DEFINE p == IF client_out.pos = 0 THEN n - 1 ELSE n
             x == SubSeq(Unsent(client_out), 1, p)
             y == Unsent(g)
  <2>1. x \in Seq(Nat) /\ y \in Seq(Nat) /\ x \o y = Unsent(client_out)
    BY <1>1, <1>2, <1>3, <1>6, UnsentCut
  <2>2. c_seen' = c_seen \o x
    BY <1>1, <1>6 DEF DeliverToClient
  <2>3. Down' = y \o t2c
    BY <1>1, <1>5 DEF Down, Unsent
  <2> HIDE DEF x, y
  <2>4. Down = x \o (y \o t2c) /\ y \o t2c \in Seq(Nat)
    <3>1. x \in Seq(Nat) /\ y \in Seq(Nat) /\ t2c \in Seq(Nat)
      BY <1>2, <2>1
    <3>2. (x \o y) \o t2c = x \o (y \o t2c)
      BY <3>1, ConcatAssociative, SMTT(40)
    <3> QED
      BY <2>1, <3>1, <3>2, ConcatProperties DEF Down
  <2>5. CASE x = <<>>
    <3>1. c_seen' = c_seen /\ Down' = Down
      BY <1>2, <2>2, <2>3, <2>4, <2>5, ConcatEmptySeq
    <3> QED
      BY <1>1, <1>4, <3>1, RelayStutters
  <2>6. CASE x # <<>>
    <3> DEFINE w == y \o t2c
    <3>1. w \in Seq(Nat) /\ Down = x \o w /\ Down' = w
      BY <2>3, <2>4
    <3> HIDE DEF w
    <3>2. SubSeq(Down, 1, Len(x)) = x /\ SubSeq(Down, Len(x) + 1, Len(Down)) = w
      BY <2>1, <2>6, <3>1, CutConcat
    <3>3. Len(x) \in 1..Len(Down)
      <4>1. Len(Down) = Len(x) + Len(w) /\ Len(x) \in Nat /\ Len(w) \in Nat /\ Len(x) # 0
        BY <2>1, <2>6, <3>1, ConcatProperties, LenProperties, EmptySeq
      <4> QED
        BY <4>1
    <3> QED
      BY <1>1, <1>4, <2>2, <3>1, <3>2, <3>3, RelayDownLeaves
  <2> QED
    BY <2>5, <2>6
<1>7. CASE client_out.op # "binary"
  <2>1. c_seen' = c_seen
    BY <1>1, <1>2, <1>7, ConcatEmptySeq DEF DeliverToClient
  <2>2. client_out'.op = client_out.op
    BY <1>2, <1>5 DEF TypeSess
  <2>3. Down' = Down
    BY <1>1, <1>7, <2>2 DEF Down, Unsent
  <2> QED
    BY <1>1, <1>4, <2>1, <2>3, RelayStutters
<1> QED
  BY <1>6, <1>7

\* Framing a chunk moves bytes within the pipe.
LEMMA NextFrameRelays ==
  ASSUME TypeOK, NextFrame
  PROVE  UNCHANGED Relay!vars
<1>1. OutLeft(client_out) = 0 /\ UNCHANGED <<conn, closing, c2t, t_seen, c_seen>>
  BY DEF NextFrame, history
<1>2. Unsent(client_out) = <<>> /\ t2c \in Seq(Nat) /\ Len(t2c) \in Nat /\ Chunk \in Nat
  BY <1>1, UnsentSeq, LenProperties, SizeAssumption DEF TypeOK, TypeSess
<1>3. Down = t2c
  BY <1>2, ConcatEmptySeq DEF Down
<1>4. Down' = t2c
  <2>1. CASE pending_close.set
    <3>1. client_out' = Frame("close", Blank(pending_close.len)) /\ t2c' = t2c
      BY <2>1 DEF NextFrame
    <3>2. Unsent(client_out') = <<>>
      BY <3>1, ControlUnsent
    <3>3. Down' = <<>> \o t2c
      BY <3>1, <3>2 DEF Down, Unsent
    <3> QED
      BY <1>2, <3>3, ConcatEmptySeq
  <2>2. CASE ~pending_close.set
    <3>1. PICK n : FrameChunk(n) /\ n = IF conn.handshake_done THEN min_size(Chunk, Len(t2c)) ELSE 0
      BY <2>2 DEF NextFrame
    <3>2. n \in 0..Len(t2c)
      BY <1>2, <3>1, MinSize
    <3> DEFINE x == SubSeq(t2c, 1, n)
               y == SubSeq(t2c, n + 1, Len(t2c))
    <3>3. x \in Seq(Nat) /\ Len(x) = n /\ y \in Seq(Nat) /\ x \o y = t2c
      BY <1>2, <3>2, CutSeq
    <3>4. t2c' = y /\ client_out' = IF n > 0 THEN Frame("binary", x) ELSE NoFrame
      BY <3>1 DEF FrameChunk
    <3> HIDE DEF x, y
    <3>5. Unsent(client_out') = x
      <4>1. CASE n > 0
        BY <3>3, <3>4, <4>1, DataUnsent
      <4>2. CASE n = 0
        <5>1. x = <<>>
          BY <3>3, <4>2, EmptySeq
        <5> QED
          BY <3>4, <4>2, <5>1 DEF Unsent, NoFrame
      <4> QED
        BY <3>2, <4>1, <4>2
    <3> QED
      BY <3>3, <3>4, <3>5 DEF Down, Unsent
  <2> QED
    BY <2>1, <2>2
<1>5. Stage' = Stage
  BY <1>1 DEF Stage
<1> QED
  BY <1>1, <1>3, <1>4, <1>5, RelayStutters

\* A read returns at least one byte.
LEMMA ReadsSome ==
  ASSUME NEW s \in SockType({"none", "syn", "open", "fin", "rst"}),
         s.read + s.pend <= s.arrived,
         NEW tls \in BOOLEAN, NEW limit \in Nat, limit > 0, NEW r \in Reads(s, tls, limit)
  PROVE  r.n > 0 /\ s.arrived > 0
<1>1. Avail(s) \in Nat /\ Record \in Nat /\ s.pend \in Nat /\ s.read \in Nat /\ s.arrived \in Nat
  BY SizeAssumption DEF Avail, SockType
<1>2. Avail(s) > 0
  BY <1>1 DEF Reads
<1>3. CASE ~tls
  <2>1. r = [n |-> min_size(limit, Avail(s)), pend |-> 0]
    BY <1>2, <1>3 DEF Reads
  <2>2. r.n = min_size(limit, Avail(s)) /\ s.arrived > 0
    BY <1>1, <1>2, <2>1 DEF Avail
  <2> QED
    BY <1>1, <1>2, <2>2 DEF min_size
<1>4. CASE tls
  <2>1. PICK b \in (IF s.pend > 0 THEN {s.pend} ELSE 1..min_size(Record, Avail(s))) :
          r = [n |-> min_size(limit, b), pend |-> b - min_size(limit, b)]
    BY <1>1, <1>2, <1>4 DEF Reads
  <2>2. b > 0 /\ r.n = min_size(limit, b)
    BY <1>1, <2>1
  <2> QED
    BY <1>1, <1>2, <2>2 DEF min_size, Avail
<1>5. s.arrived > 0
  BY <1>1, <1>2 DEF Avail
<1> QED
  BY <1>3, <1>4, <1>5

LEMMA ReadTargetRelays ==
  ASSUME TypeOK, ClosedInv, DownInOrder, PipeInv, ReadTarget
  PROVE  Relay!Next
<1>1. PICK r \in TargetReads :
        r.n <= writable(t2c) /\ t2c' = t2c \o Numbered(tsock.read, r.n)
  BY DEF ReadTarget
<1>2. UNCHANGED <<conn, closing, client_out, c2t, t_seen, c_seen>>
  BY DEF ReadTarget, history
<1>3. pc = "t_read" /\ r \in Reads(tsock, conn.target = "tls", Chunk)
  BY DEF TargetReads
<1>4. r.n \in Nat /\ tsock.read \in Nat
  BY TargetReadType
<1>5. r.n > 0 /\ tsock.arrived > 0
  <2>1. tsock \in SockType({"none", "syn", "open", "fin", "rst"})
        /\ tsock.read + tsock.pend <= tsock.arrived
        /\ Chunk \in Nat /\ Chunk > 0 /\ (conn.target = "tls") \in BOOLEAN
    BY SizeAssumption DEF TypeOK, TypeNet
  <2> QED
    BY <1>3, <2>1, ReadsSome
<1>6. closing # 2 /\ conn.handshake_done
  BY <1>3, <1>5 DEF ClosedInv, PipeInv
<1>7. Stage = "relaying" /\ Stage' = "relaying"
  BY <1>2, <1>6 DEF Stage
<1> DEFINE u == Unsent(client_out)
           y == Numbered(tsock.read, r.n)
<1>8. u \in Seq(Nat) /\ t2c \in Seq(Nat) /\ y \in Seq(Nat) /\ c_seen \in Seq(Nat)
  BY <1>4, DownType, QueueType, NumberedSeq
<1>9. u \o (t2c \o y) = (u \o t2c) \o y
  <2> HIDE DEF u, y
  <2> QED
    BY <1>8, ConcatAssociative, SMTT(40)
<1>10. Down' = Down \o y
  BY <1>1, <1>2, <1>9 DEF Down, Unsent
<1>11. tsock.read = Len(c_seen) + Len(Down)
  <2>1. (c_seen \o u) \o t2c = Numbered(0, tsock.read)
    BY <1>6 DEF DownInOrder
  <2>2. Len(Numbered(0, tsock.read)) = tsock.read
    BY <1>4, NumberedSeq
  <2> HIDE DEF u
  <2>3. c_seen \o u \in Seq(Nat) /\ Len(c_seen \o u) = Len(c_seen) + Len(u)
    BY <1>8, ConcatProperties
  <2>4. Len((c_seen \o u) \o t2c) = Len(c_seen \o u) + Len(t2c)
    BY <1>8, <2>3, ConcatProperties
  <2>5. Len(Down) = Len(u) + Len(t2c)
    BY DownType DEF u
  <2>6. Len(c_seen) \in Nat /\ Len(u) \in Nat /\ Len(t2c) \in Nat
    BY <1>8, LenProperties
  <2>7. tsock.read = Len((c_seen \o u) \o t2c)
    BY <2>1, <2>2
  <2>8. tsock.read = Len(c_seen) + Len(u) + Len(t2c)
    BY <2>3, <2>4, <2>7
  <2> QED
    BY <2>5, <2>6, <2>8
<1>12. Len(u) <= Chunk
  <2>1. CASE client_out.op = "binary"
    <3>1. Len(client_out.pay) <= Chunk /\ Len(client_out.pay) \in Nat
      BY <2>1, LenProperties DEF PipeInv, TypeOK, TypeSess
    <3>2. Len(u) = IF client_out.pos = 0 THEN Len(client_out.pay)
                   ELSE Len(client_out.pay) + 1 - client_out.pos
      BY <2>1, UnsentType DEF TypeOK
    <3>3. client_out.pos \in Nat
      BY DEF TypeOK, TypeSess
    <3> QED
      BY <3>1, <3>2, <3>3, SizeAssumption, SMTT(30)
  <2>2. CASE client_out.op # "binary"
    BY <2>2, SizeAssumption DEF Unsent
  <2> QED
    BY <2>1, <2>2
<1>13. r.n \in 1..BufSize + Chunk /\ Len(Down) + r.n <= BufSize + Chunk
  <2>1. Len(Down) = Len(u) + Len(t2c) /\ Len(u) \in Nat /\ Len(t2c) \in Nat
    BY DownType
  <2>2. r.n <= BufSize - Len(t2c) /\ BufSize \in Nat /\ Chunk \in Nat
    BY <1>1, SizeAssumption DEF writable
  <2> HIDE DEF u
  <2> QED
    BY <1>4, <1>5, <1>12, <2>1, <2>2
<1>14. Down' = Down \o Numbered(Len(c_seen) + Len(Down), r.n)
  BY <1>10, <1>11
<1> QED
  BY <1>2, <1>7, <1>13, <1>14, RelayDownEnters

LEMMA NextRelays ==
  ASSUME SafeSizes PROVE RelayInv /\ [Next]_vars => [Relay!Next]_(Relay!vars)
<1> SUFFICES ASSUME RelayInv, [Next]_vars PROVE [Relay!Next]_(Relay!vars)
  OBVIOUS
<1>0. /\ TypeOK /\ ClosedInv /\ UpgradeInv /\ RoomInv /\ ParserInv
      /\ UpInOrder /\ DownInOrder /\ PipeInv
  BY DEF RelayInv, OrderInv, RoomyInv
<1>1. CASE Closes
  <2>1. closing # 2
    BY <1>0, <1>1, ClosedStops DEF Next, LoopStep, Closes
  <2>2. /\ closing' = 2 /\ c2t' = <<>> /\ UNCHANGED <<t_seen, c_seen>>
        /\ t2c' = <<>> /\ client_out' = NoFrame
    BY <1>1, ClosesIsClose DEF session_close
  <2>3. Down' = <<>>
    BY <2>2 DEF Down, Unsent, NoFrame
  <2> QED
    BY <2>1, <2>2, <2>3, RelayCloses
<1>2. CASE Stutters
  BY <1>2, StuttersKeep, RelayStutters DEF Down, Stage, Unsent, sess, history
<1>3. CASE LegEvent
  BY <1>0, <1>3, LegKeeps, RelayStutters DEF Down, Stage, Unsent, history
<1>4. CASE ReadRequest \/ ReadFrames
  BY <1>4, RelayStutters DEF ReadRequest, ReadFrames, Down, Stage, Unsent, sess, history
<1>5. CASE Upgrade
  <2>1. /\ client_out' = Frame("http", Blank(1)) /\ OutLeft(client_out) = 0
        /\ UNCHANGED <<closing, c2t, t2c, t_seen, c_seen>> /\ ~conn.handshake_done
    BY <1>5 DEF Upgrade, CanMakeFrame
  <2>2. conn'.handshake_done
    BY <1>0, <1>5, ConnTyped DEF Upgrade, session_start_target, ConnType
  <2>3. closing = 0
    BY <1>5, ReadsWhenOpen DEF Upgrade
  <2>4. Unsent(client_out) = <<>> /\ Unsent(client_out') = <<>>
    BY <1>0, <2>1, UnsentSeq, ControlUnsent DEF TypeOK
  <2>5. Down' = Down
    BY <2>1, <2>4 DEF Down, Unsent
  <2>6. Stage = "upgrading" /\ Stage' = "relaying"
    BY <2>1, <2>2, <2>3 DEF Stage
  <2> QED
    BY <2>1, <2>5, <2>6, RelayUpgrades
<1>6. CASE WsFull
  BY <1>0, <1>6, FeedingRoom DEF WsFull
<1>7. CASE WsHeader
  BY <1>7, RelayStutters DEF WsHeader, Down, Stage, Unsent
<1>8. CASE WsEmptyFrame
  BY <1>0, <1>8, WsEmptyFrameRelays
<1>9. CASE WsPayload
  BY <1>0, <1>9, WsPayloadRelays
<1>10. CASE WriteClient
  BY <1>0, <1>10, WriteClientRelays
<1>11. CASE NextFrame
  BY <1>0, <1>11, NextFrameRelays
<1>12. CASE ReadTarget
  BY <1>0, <1>12, ReadTargetRelays
<1>13. CASE WriteTarget
  <2>1. UNCHANGED <<conn, closing, client_out, t2c, c_seen>> /\ closing # 2
    BY <1>0, <1>13 DEF WriteTarget, ClosedInv
  <2>2. conn.handshake_done
    BY <1>0, <1>13, NotYet DEF WriteTarget, TargetWriteOver
  <2>3. Down' = Down /\ Stage = "relaying" /\ Stage' = "relaying"
    BY <2>1, <2>2 DEF Down, Stage, Unsent
  <2> QED
    BY <1>0, <1>13, <2>1, <2>3, WriteTargetCuts, RelayUpLeaves
<1>14. CASE UNCHANGED vars
  BY <1>14, RelayStutters DEF Down, Stage, Unsent, vars, sess, history
<1> QED
  BY <1>1, <1>2, <1>3, <1>4, <1>5, <1>6, <1>7, <1>8, <1>9, <1>10, <1>11, <1>12, <1>13, <1>14
     DEF Next, LoopStep, Closes, Stutters, LegEvent

\* A session with buffers of a safe size implements ByteRelay: every read,
\* frame, write, hang-up and timeout of proxy.c is a step of two bounded
\* in-order pipes that are cut together, or no step of them at all.
THEOREM SessionImplementsRelay == SafeSizes => (Spec => RelaySpec)
<1> SUFFICES ASSUME SafeSizes PROVE Spec => RelaySpec
  OBVIOUS
<1>1. Init => RelayInv
  <2> SUFFICES ASSUME Init PROVE DownInOrder /\ PipeInv
    BY InitOrder, InitClosed DEF RelayInv
  <2>1. PipeInv
    BY DEF Init, PipeInv, NoFrame
  <2>2. DownInOrder
    BY InitDown
  <2> QED
    BY <2>1, <2>2
<1>2. RelayInv /\ [Next]_vars => RelayInv'
  <2>1. RelayInv => TypeOK /\ OrderInv /\ ClosedInv /\ DownInOrder /\ PipeInv
    BY DEF RelayInv, OrderInv, RoomyInv
  <2> QED
    BY <2>1, NextOrder, NextClosed, NextDown, NextPipe DEF RelayInv
<1>3. Init => Relay!Init
  <2> SUFFICES ASSUME Init PROVE Relay!Init
    OBVIOUS
  <2>1. /\ c2t = <<>> /\ t_seen = <<>> /\ t2c = <<>> /\ c_seen = <<>>
        /\ client_out = NoFrame /\ closing = 0 /\ ~conn.handshake_done
    BY DEF Init
  <2> QED
    BY <2>1 DEF Relay!Init, Unsent, NoFrame
<1> QED
  BY <1>1, <1>2, <1>3, NextRelays, PTL DEF Spec, RelaySpec, Relay!Spec
=============================================================================
