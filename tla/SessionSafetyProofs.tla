------------------------ MODULE SessionSafetyProofs ------------------------
(***************************************************************************)
(* Proofs of Session's safety invariants, for every buffer size, budget,   *)
(* TLS mode and script: the events and callbacks of a session, and the two *)
(* streams it writes (the client's is a response and whole frames, and the *)
(* target's is inside TLS unless connect(2) returned at once).             *)
(***************************************************************************)
EXTENDS SessionTypeProofs

\* A connection attempt has a target.
ConnectInv == conn.target_connecting => conn.target # "none"

\* The invariant behind WakeupsArmed.
ArmedInv == TypeOK /\ InterestInv /\ ConnectInv

\* The registrations depend on the session's fields only.
LEMMA KeepEvents ==
  ASSUME UNCHANGED sess PROVE session_update_events' = session_update_events
BY DEF sess, session_update_events, ClientEvents, TargetEvents, TlsMask, OutLeft,
       is_high, HighWater

LEMMA ReturnInterest == ASSUME Return PROVE InterestInv'
BY DEF Return, InterestInv

LEMMA AfterReadInterest ==
  ASSUME NEW writer \in {"c_write", "t_write"}, AfterRead(writer) PROVE InterestInv'
<1>1. CASE "write" \in events
  BY <1>1 DEF AfterRead, InterestInv
<1>2. CASE "write" \notin events
  BY <1>2, ReturnInterest DEF AfterRead
<1> QED
  BY <1>1, <1>2

\* A step that leaves the session and the thread where they are.
LEMMA KeepInterest ==
  ASSUME InterestInv, UNCHANGED <<sess, pc, interest>> PROVE InterestInv'
<1>1. session_update_events' = session_update_events
  BY KeepEvents
<1> QED
  BY <1>1 DEF InterestInv, sess

\* A handler that starts leaves the loop.
LEMMA EnterInterest ==
  ASSUME TypeOK, HandleClientEvent \/ HandleTargetEvent PROVE InterestInv'
<1>1. pc' # "loop"
  BY DEF HandleClientEvent, HandleTargetEvent, Enter
<1> QED
  BY <1>1 DEF InterestInv

LEMMA NextInterest == TypeOK /\ InterestInv /\ [Next]_vars => InterestInv'
<1> SUFFICES ASSUME TypeOK, InterestInv, [Next]_vars PROVE InterestInv'
  OBVIOUS
<1>1. CASE Closes
  <2>1. closing' = 2
    BY <1>1, ClosesIsClose DEF session_close
  <2> QED
    BY <2>1 DEF InterestInv
<1>2. CASE Wait
  BY <1>2, KeepInterest DEF Wait
<1>3. CASE ReadClientStops \/ ReadTargetStops \/ ReadRequest \/ WsFull
  BY <1>3, AfterReadInterest DEF ReadClientStops, ReadTargetStops, ReadRequest, WsFull
<1>4. CASE WriteClientStops \/ WriteTargetStops \/ ClientTlsAgain \/ TargetTlsAgain
           \/ NextFrame
  BY <1>4, ReturnInterest
     DEF WriteClientStops, WriteTargetStops, ClientTlsAgain, TargetTlsAgain, NextFrame
<1>5. CASE HandleClientEvent \/ HandleTargetEvent
  BY <1>5, EnterInterest
<1>6. CASE ReadFrames \/ Upgrade
  BY <1>6 DEF ReadFrames, Upgrade, InterestInv
<1>7. CASE WsDone
  <2>1. CASE is_high(c2t)
    BY <1>7, <2>1, AfterReadInterest DEF WsDone
  <2>2. CASE ~is_high(c2t)
    BY <1>7, <2>2 DEF WsDone, InterestInv
  <2> QED
    BY <2>1, <2>2
<1>8. CASE WsHeader \/ WsEmptyFrame \/ WsPayload
  BY <1>8, SMTT(30) DEF WsHeader, WsEmptyFrame, WsPayload, Feeding, thread, InterestInv
<1>9. CASE WriteClient \/ ReadTarget \/ WriteTarget
  BY <1>9, TargetReadType DEF WriteClient, ReadTarget, WriteTarget, InterestInv
<1>10. CASE PeerStep
  <2>1. UNCHANGED <<sess, thread>>
    BY <1>10 DEF PeerStep, ClientArrives, ClientDrains, ClientLeaves, TargetAccepts,
       TargetSends, TargetDrains, TargetLeaves, Concurrently
  <2> QED
    BY <2>1, KeepInterest DEF thread
<1>11. CASE UNCHANGED vars
  BY <1>11, KeepInterest DEF vars, thread
<1> QED
  BY <1>1, <1>2, <1>3, <1>4, <1>5, <1>6, <1>7, <1>8, <1>9, <1>10, <1>11
     DEF Next, LoopStep, Closes

LEMMA NextConnect == TypeOK /\ ConnectInv /\ [Next]_vars => ConnectInv'
<1> SUFFICES ASSUME TypeOK, ConnectInv, [Next]_vars PROVE ConnectInv'
  OBVIOUS
<1> USE DEF ConnectInv
<1>1. /\ conn \in [handshake_done : BOOLEAN, target : {"none", "plain", "tls"},
               target_connecting : BOOLEAN, client_tls_ready : BOOLEAN,
               target_tls_ready : BOOLEAN, cwant : SUBSET {"read", "write"},
               twant : SUBSET {"read", "write"},
               cflights : 0..Flights, tflights : 0..Flights]
  BY DEF TypeOK, TypeSess
<1>2. CompletedConnect.target_connecting => CompletedConnect.target # "none"
  BY <1>1 DEF CompletedConnect
<1>3. CASE ClientTlsAgain \/ HandleClientEvent
  BY <1>1, <1>3 DEF ClientTlsAgain, HandleClientEvent
<1>4. CASE TargetTlsAgain
  <2> DEFINE k == CompletedConnect
  <2>1. ~k.target_connecting
    BY <1>4 DEF TargetTlsAgain, TargetHandshakes
  <2>2. k \in [handshake_done : BOOLEAN, target : {"none", "plain", "tls"},
               target_connecting : BOOLEAN, client_tls_ready : BOOLEAN,
               target_tls_ready : BOOLEAN, cwant : SUBSET {"read", "write"},
               twant : SUBSET {"read", "write"},
               cflights : 0..Flights, tflights : 0..Flights]
    BY <1>1, ModeAssumption DEF CompletedConnect
  <2>3. PICK w \in {"read", "write"} :
          conn' = [k EXCEPT !.tflights = k.tflights - 1, !.twant = {w}]
    BY <1>4 DEF TargetTlsAgain
  <2> HIDE DEF k
  <2> QED
    BY <2>1, <2>2, <2>3
<1>5. CASE HandleTargetEvent
  <2> DEFINE k == CompletedConnect
  <2>1. conn' = IF k.target_connecting THEN k
                ELSE [k EXCEPT !.target_tls_ready = TRUE, !.twant = {}]
    BY <1>5 DEF HandleTargetEvent
  <2>2. k \in [handshake_done : BOOLEAN, target : {"none", "plain", "tls"},
               target_connecting : BOOLEAN, client_tls_ready : BOOLEAN,
               target_tls_ready : BOOLEAN, cwant : SUBSET {"read", "write"},
               twant : SUBSET {"read", "write"},
               cflights : 0..Flights, tflights : 0..Flights]
    BY <1>1, ModeAssumption DEF CompletedConnect
  <2>3. k.target_connecting => k.target # "none"
    BY <1>2
  <2> HIDE DEF k
  <2> QED
    BY <2>1, <2>2, <2>3
<1>6. CASE Upgrade
  <2>1. PICK mode \in ConnectModes :
          conn' = [session_start_target(mode) EXCEPT !.handshake_done = TRUE]
    BY <1>6 DEF Upgrade
  <2>2. conn'.target = "plain"
    BY <1>1, <2>1 DEF session_start_target
  <2> QED
    BY <2>2
<1>7. CASE conn' = conn
  BY <1>7
<1>8. CASE Closes
  BY <1>8, <1>7, ClosesIsClose DEF session_close
<1>9. CASE PeerStep
  BY <1>9, <1>7 DEF PeerStep, ClientArrives, ClientDrains, ClientLeaves, TargetAccepts,
       TargetSends, TargetDrains, TargetLeaves, Concurrently, sess
<1>10. CASE Wait \/ ReadClientStops \/ ReadTargetStops \/ WriteClientStops
            \/ WriteTargetStops \/ ReadFrames \/ ReadRequest \/ WsDone \/ WsFull
  BY <1>10, <1>7, SMTT(30) DEF Wait, ReadClientStops, ReadTargetStops, WriteClientStops,
     WriteTargetStops, ReadFrames, ReadRequest, WsDone, WsFull, sess
<1>11. CASE WsHeader \/ WsEmptyFrame \/ WsPayload \/ WriteClient \/ NextFrame
            \/ ReadTarget \/ WriteTarget
  BY <1>11, <1>7 DEF WsHeader, WsEmptyFrame, WsPayload, WriteClient, NextFrame,
     ReadTarget, WriteTarget
<1>12. CASE UNCHANGED vars
  BY <1>12, <1>7 DEF vars, sess
<1> QED
  BY <1>3, <1>4, <1>5, <1>6, <1>8, <1>9, <1>10, <1>11, <1>12
     DEF Next, LoopStep, Closes

LEMMA InitArmed == Init => ArmedInv
<1> SUFFICES ASSUME Init PROVE ArmedInv
  OBVIOUS
<1>1. TypeOK
  BY InitType
<1>2. ConnectInv
  BY DEF Init, ConnectInv
<1>3. InterestInv
  <2>1. TargetEvents = {}
    BY DEF Init, TargetEvents
  <2>2. OutLeft(client_out) = 0 /\ t2c = <<>>
    BY DEF Init, OutLeft, NoFrame
  <2>3. ClientEvents = IF ClientTls THEN {"read", "write"} ELSE {"read"}
    <3>1. /\ conn.client_tls_ready = ~ClientTls /\ conn.cwant = {}
          /\ ~conn.handshake_done /\ closing = 0
      BY DEF Init
    <3>2. CASE ClientTls
      BY <2>2, <3>1, <3>2 DEF ClientEvents, TlsMask
    <3>3. CASE ~ClientTls
      <4>1. conn.client_tls_ready
        BY <3>1, <3>3
      <4> QED
        BY <2>2, <3>1, <3>3, <4>1 DEF ClientEvents
    <3> QED
      BY <3>2, <3>3
  <2> QED
    BY <2>1, <2>3 DEF Init, InterestInv, session_update_events
<1> QED
  BY <1>1, <1>2, <1>3 DEF ArmedInv

\* The registrations of session_update_events are what WakeupsArmed asks for.
LEMMA ArmedIsArmed == ArmedInv => WakeupsArmed
<1> SUFFICES ASSUME ArmedInv, pc = "loop", closing # 2, conn.client_tls_ready
             PROVE  WakeupsArmed
  BY DEF WakeupsArmed
<1>1. interest.c = ClientEvents /\ interest.t = TargetEvents
  BY DEF ArmedInv, InterestInv, session_update_events
<1>2. Len(c2t) \in Nat /\ Len(t2c) \in Nat /\ HighWater \in Nat
  BY HighWaterNat, LenProperties DEF ArmedInv, TypeOK, TypeSess
<1>3. (~is_high(c2t) <=> Len(c2t) < HighWater) /\ (~is_high(t2c) <=> Len(t2c) < HighWater)
  BY <1>2 DEF is_high
<1>4. ("write" \in interest.c) = (OutLeft(client_out) > 0 \/ t2c # <<>>)
  BY <1>1 DEF ClientEvents
<1>5. ("read" \in interest.c) =
        (closing = 0 /\ (conn.handshake_done => Len(c2t) < HighWater))
  <2>1. CASE closing = 0 /\ (~conn.handshake_done \/ ~is_high(c2t))
    <3>1. "read" \in interest.c
      BY <1>1, <2>1 DEF ClientEvents
    <3> QED
      BY <1>3, <2>1, <3>1
  <2>2. CASE ~(closing = 0 /\ (~conn.handshake_done \/ ~is_high(c2t)))
    <3>1. "read" \notin interest.c
      BY <1>1, <2>2 DEF ClientEvents
    <3> QED
      BY <1>3, <2>2, <3>1
  <2> QED
    BY <2>1, <2>2
<1>6. ASSUME conn.target # "none", ~conn.target_connecting, conn.target_tls_ready
      PROVE  /\ ("write" \in interest.t) = (c2t # <<>>)
             /\ ("read" \in interest.t) = (Len(t2c) < HighWater)
  <2>1. interest.t = (IF ~is_high(t2c) THEN {"read"} ELSE {})
                       \cup (IF c2t # <<>> THEN {"write"} ELSE {})
    BY <1>1, <1>6 DEF TargetEvents
  <2>2. ("write" \in interest.t) = (c2t # <<>>)
    BY <2>1
  <2>3. "read" \in interest.t <=> ~is_high(t2c)
    BY <2>1
  <2> QED
    BY <1>3, <2>2, <2>3
<1>7. conn.target_connecting => "write" \in interest.t
  BY <1>1 DEF TargetEvents, ArmedInv, ConnectInv
<1> QED
  BY <1>4, <1>5, <1>6, <1>7 DEF WakeupsArmed

\* Whenever the thread waits it is registered for exactly what can go on, on
\* both descriptors: session_update_events at the end of every callback of
\* proxy.c leaves no queued byte without a write event and reads nothing while
\* a buffer is full.
THEOREM SessionWakeups == Spec => []WakeupsArmed
<1>1. Init => ArmedInv
  BY InitArmed
<1>2. ArmedInv /\ [Next]_vars => ArmedInv'
  BY NextType, NextInterest, NextConnect DEF ArmedInv
<1>3. ArmedInv => WakeupsArmed
  BY ArmedIsArmed
<1> QED
  BY <1>1, <1>2, <1>3, PTL DEF Spec

-----------------------------------------------------------------------------
(* A received CLOSE always has output.                                     *)

LEMMA KeepClosing ==
  ASSUME ClosingInv, UNCHANGED <<closing, pending_close, client_out>>,
         pc # "c_write" \/ pc' = pc
  PROVE  ClosingInv'
BY DEF ClosingInv, OutLeft

\* A frame just made has its header to send.
LEMMA FrameHasOutput ==
  ASSUME NEW op \in {"http", "binary", "pong", "close"}, NEW n \in Nat
  PROVE  OutLeft(Frame(op, Blank(n))) > 0
<1>1. Len(Blank(n)) = n
  BY BlankSeq
<1> QED
  BY <1>1 DEF OutLeft, Frame

\* Only a read that finds the session open upgrades it.
LEMMA ReadsWhenOpen ==
  ASSUME NEW r \in ClientReads PROVE closing = 0 /\ pc = "c_read"
BY DEF ClientReads, ClientReadOver

LEMMA MessageClosing ==
  ASSUME TypeOK, ClosingInv, Feeding, UNCHANGED pc,
         NEW op, NEW n \in Nat, session_handle_ws_message(op, n)
  PROVE  ClosingInv'
<1>1. closing = 0 /\ pc = "ws" /\ ~pending_close.set
  BY DEF Feeding, ClosingInv
<1>2. OutLeft(client_out) \in Nat
  BY OutLeftType DEF TypeOK
<1>3. CASE closing' = closing /\ pending_close' = pending_close
  BY <1>1, <1>3 DEF ClosingInv
<1>4. CASE closing' = 1 /\ QueueClose(n)
  <2>1. CASE CanMakeFrame
    <3>1. client_out' = Frame("close", Blank(n)) /\ pending_close' = NoClose
      BY <1>4, <2>1 DEF QueueClose
    <3>2. OutLeft(client_out') > 0
      BY <3>1, FrameHasOutput
    <3> QED
      BY <1>4, <3>1, <3>2 DEF ClosingInv, NoClose, OutLeft
  <2>2. CASE ~CanMakeFrame
    <3>1. client_out' = client_out
      BY <1>4, <2>2 DEF QueueClose
    <3>2. OutLeft(client_out') > 0
      BY <1>2, <2>2, <3>1 DEF CanMakeFrame
    <3> QED
      BY <1>4, <3>2 DEF ClosingInv, OutLeft
  <2> QED
    BY <2>1, <2>2
<1> QED
  BY <1>3, <1>4 DEF session_handle_ws_message

LEMMA NextClosing == TypeOK /\ ClosingInv /\ [Next]_vars => ClosingInv'
<1> SUFFICES ASSUME TypeOK, ClosingInv, [Next]_vars PROVE ClosingInv'
  OBVIOUS
<1>1. CASE Closes
  <2>1. closing' = 2 /\ pending_close' = NoClose
    BY <1>1, ClosesIsClose DEF session_close
  <2> QED
    BY <2>1 DEF ClosingInv, NoClose
<1>2. CASE Wait \/ ReadClientStops \/ ReadTargetStops \/ ReadRequest \/ WsFull \/ WsDone
           \/ WriteTargetStops \/ ReadFrames
  BY <1>2, KeepClosing, ReadsWhenOpen
     DEF Wait, ReadClientStops, ReadTargetStops, ReadRequest, WsFull, WsDone,
         WriteTargetStops, ReadFrames, sess
<1>3. CASE ClientTlsAgain \/ TargetTlsAgain \/ HandleClientEvent \/ HandleTargetEvent
  BY <1>3, KeepClosing
     DEF ClientTlsAgain, TargetTlsAgain, HandleClientEvent, HandleTargetEvent, Dispatch
<1>4. CASE WriteClientStops
  <2>1. OutLeft(client_out) > 0 /\ UNCHANGED <<closing, pending_close, client_out>>
    BY <1>4 DEF WriteClientStops, sess
  <2> QED
    BY <2>1 DEF ClosingInv, OutLeft
<1>5. CASE Upgrade
  <2>1. closing = 0 /\ closing' = closing /\ pending_close' = pending_close
    BY <1>5, ReadsWhenOpen DEF Upgrade
  <2> QED
    BY <2>1 DEF ClosingInv
<1>6. CASE WsHeader
  BY <1>6, KeepClosing DEF WsHeader, thread
<1>7. CASE WsEmptyFrame
  BY <1>7, MessageClosing DEF WsEmptyFrame, thread
<1>8. CASE WsPayload
  BY <1>8, MessageClosing, PayloadStepType DEF WsPayload, thread
<1>9. CASE WriteClient
  BY <1>9 DEF WriteClient, ClosingInv
<1>10. CASE NextFrame
  <2>1. CASE pending_close.set
    <3>1. pending_close.len \in Nat
      BY SizeAssumption DEF TypeOK, TypeSess
    <3>2. /\ client_out' = Frame("close", Blank(pending_close.len))
          /\ pending_close' = NoClose
      BY <1>10, <2>1 DEF NextFrame
    <3>3. OutLeft(client_out') > 0
      BY <3>1, <3>2, FrameHasOutput
    <3> QED
      BY <3>2, <3>3 DEF ClosingInv, NoClose, OutLeft
  <2>2. CASE ~pending_close.set
    BY <1>10, <2>2, SMTT(30) DEF NextFrame, ClosingInv
  <2> QED
    BY <2>1, <2>2
<1>11. CASE ReadTarget \/ WriteTarget
  BY <1>11, KeepClosing DEF ReadTarget, WriteTarget
<1>12. CASE PeerStep
  <2>1. UNCHANGED <<sess, thread>>
    BY <1>12 DEF PeerStep, ClientArrives, ClientDrains, ClientLeaves, TargetAccepts,
       TargetSends, TargetDrains, TargetLeaves, Concurrently
  <2> QED
    BY <2>1, KeepClosing DEF sess, thread
<1>13. CASE UNCHANGED vars
  BY <1>13, KeepClosing DEF vars, sess, thread
<1> QED
  BY <1>1, <1>2, <1>3, <1>4, <1>5, <1>6, <1>7, <1>8, <1>9, <1>10, <1>11, <1>12, <1>13
     DEF Next, LoopStep, Closes

\* A session that has received a CLOSE never waits without a frame to send, be
\* it the answer or the frame the answer waits for: session_handle_ws_message
\* and session_write_client hand the CLOSE over to client_out in time.
THEOREM SessionClosingHasOutput == Spec => []ClosingHasOutput
<1>1. Init => TypeOK /\ ClosingInv
  BY InitType DEF Init, ClosingInv, NoClose
<1>2. (TypeOK /\ ClosingInv) /\ [Next]_vars => (TypeOK /\ ClosingInv)'
  BY NextType, NextClosing
<1>3. TypeOK /\ ClosingInv => ClosingHasOutput
  BY DEF ClosingInv, ClosingHasOutput
<1> QED
  BY <1>1, <1>2, <1>3, PTL DEF Spec

-----------------------------------------------------------------------------
(* Target to client, nothing is lost, duplicated or reordered.             *)

LEMMA NumberedAppend ==
  ASSUME NEW m \in Nat, NEW n \in Nat
  PROVE  Numbered(0, m) \o Numbered(m, n) = Numbered(0, m + n)
<1> DEFINE s == Numbered(0, m)
           t == Numbered(m, n)
           u == Numbered(0, m + n)
<1>1. s \in Seq(Nat) /\ Len(s) = m /\ \A i \in 1..m : s[i] = 0 + i
  BY NumberedSeq
<1>2. t \in Seq(Nat) /\ Len(t) = n /\ \A i \in 1..n : t[i] = m + i
  BY NumberedSeq
<1>3. u \in Seq(Nat) /\ Len(u) = m + n /\ \A i \in 1..m + n : u[i] = 0 + i
  BY NumberedSeq
<1> HIDE DEF s, t, u
<1>4. /\ s \o t \in Seq(Nat) /\ Len(s \o t) = m + n
      /\ \A i \in 1..m + n : (s \o t)[i] = IF i <= m THEN s[i] ELSE t[i - m]
  BY <1>1, <1>2, ConcatProperties, ZenonT(40)
<1>5. ASSUME NEW i \in 1..m + n PROVE (s \o t)[i] = u[i]
  <2>1. CASE i <= m
    BY <1>1, <1>3, <1>4, <2>1
  <2>2. CASE i > m
    <3>1. i - m \in 1..n
      BY <2>2
    <3> QED
      BY <1>2, <1>3, <1>4, <2>2, <3>1, SMTT(30)
  <2>3. i <= m \/ i > m
    OBVIOUS
  <2> QED
    BY <2>1, <2>2, <2>3
<1>6. s \o t = u
  BY <1>3, <1>4, <1>5, SeqEqual
<1> QED
  BY <1>6 DEF s, t, u

\* The end piece of a sequence after its first k elements.
LEMMA EndPiece ==
  ASSUME NEW s \in Seq(Nat), NEW k \in 0..Len(s)
  PROVE  /\ SubSeq(s, k + 1, Len(s)) \in Seq(Nat)
         /\ Len(SubSeq(s, k + 1, Len(s))) = Len(s) - k
         /\ \A i \in 1..Len(s) - k : SubSeq(s, k + 1, Len(s))[i] = s[k + i]
<1> DEFINE m == k + 1
           n == Len(s)
<1>1. n \in Nat /\ m \in Nat /\ m >= 1 /\ m = k + 1 /\ k \in Nat
  BY LenProperties
<1>2. \A i \in 1..n : s[i] \in Nat
  BY LenProperties
<1> HIDE DEF m, n
<1>3. m \in Int /\ n \in Int /\ \A i \in m..n : s[i] \in Nat
  BY <1>1, <1>2
<1>4. \A i \in 1..n - m + 1 : SubSeq(s, m, n)[i] = s[m + i - 1]
  BY <1>3, SubSeqProperties
<1>5. ASSUME NEW i \in 1..n - k PROVE SubSeq(s, m, n)[i] = s[k + i]
  <2>1. i \in 1..n - m + 1 /\ m + i - 1 = k + i
    BY <1>1
  <2> QED
    BY <1>4, <2>1
<1>6. SubSeq(s, m, n) \in Seq(Nat) /\ Len(SubSeq(s, m, n)) = n - k
  BY CutSeq DEF m, n
<1> QED
  BY <1>5, <1>6 DEF m, n

\* Cutting p bytes off the end piece of a sequence leaves a shorter end piece.
LEMMA CutAgain ==
  ASSUME NEW s \in Seq(Nat), NEW a \in 0..Len(s), NEW p \in 0..Len(s) - a
  PROVE  SubSeq(SubSeq(s, a + 1, Len(s)), 1, p) \o SubSeq(s, a + p + 1, Len(s))
           = SubSeq(s, a + 1, Len(s))
<1> DEFINE u == SubSeq(s, a + 1, Len(s))
           v == SubSeq(s, a + p + 1, Len(s))
           w == SubSeq(u, p + 1, Len(u))
<1>1. Len(s) \in Nat /\ a + p \in 0..Len(s) /\ Len(s) - (a + p) = Len(s) - a - p
  BY LenProperties
<1>2. /\ u \in Seq(Nat) /\ Len(u) = Len(s) - a
      /\ \A i \in 1..Len(s) - a : u[i] = s[a + i]
  BY EndPiece
<1>3. /\ v \in Seq(Nat) /\ Len(v) = Len(s) - a - p
      /\ \A i \in 1..Len(s) - a - p : v[i] = s[a + p + i]
  BY <1>1, EndPiece
<1> HIDE DEF u, v
<1>4. /\ w \in Seq(Nat) /\ Len(w) = Len(s) - a - p
      /\ \A i \in 1..Len(s) - a - p : w[i] = u[p + i]
  <2>1. p \in 0..Len(u)
    BY <1>2
  <2> QED
    BY <1>2, <2>1, EndPiece
<1>5. SubSeq(u, 1, p) \o w = u
  BY <1>1, <1>2, CutSeq
<1> HIDE DEF w
<1>6. ASSUME NEW i \in 1..Len(s) - a - p PROVE w[i] = v[i]
  <2>1. p + i \in 1..Len(s) - a
    BY <1>1
  <2>2. w[i] = s[a + (p + i)]
    BY <1>2, <1>4, <2>1
  <2>3. a + (p + i) = a + p + i
    BY <1>1
  <2> QED
    BY <1>3, <2>2, <2>3
<1>7. w = v
  BY <1>3, <1>4, <1>6, SeqEqual
<1> QED
  BY <1>5, <1>7 DEF u, v

LEMMA UnsentSeq ==
  ASSUME TypeSess
  PROVE  /\ Unsent(client_out) \in Seq(Nat)
         /\ OutLeft(client_out) = 0 => Unsent(client_out) = <<>>
<1>1. CASE client_out.op = "binary"
  <2>1. Unsent(client_out) \in Seq(Nat)
    BY <1>1, UnsentType
  <2>2. ASSUME OutLeft(client_out) = 0 PROVE Len(Unsent(client_out)) = 0
    <3>1. Len(client_out.pay) \in Nat /\ client_out.pos \in Nat
      BY LenProperties DEF TypeSess
    <3>2. Len(client_out.pay) + 1 = client_out.pos
      BY <1>1, <2>2, <3>1 DEF OutLeft
    <3> QED
      BY <1>1, <3>1, <3>2, UnsentType
  <2> QED
    BY <2>1, <2>2, EmptySeq
<1>2. CASE client_out.op # "binary"
  BY <1>2, EmptySeq DEF Unsent
<1> QED
  BY <1>1, <1>2

\* A frame that is not data holds none.
LEMMA ControlUnsent ==
  ASSUME NEW op \in {"none", "http", "pong", "close"}, NEW pay
  PROVE  Unsent(Frame(op, pay)) = <<>> /\ Unsent(NoFrame) = <<>>
BY DEF Unsent, Frame, NoFrame

LEMMA DataUnsent ==
  ASSUME NEW pay \in Seq(Nat) PROVE Unsent(Frame("binary", pay)) = pay
BY SubSeqFull DEF Unsent, Frame

\* What the client's socket takes of a data frame is what the frame loses.
LEMMA UnsentCut ==
  ASSUME TypeSess, client_out.op = "binary", NEW n \in Nat, n > 0, n <= OutLeft(client_out)
  PROVE  LET p == IF client_out.pos = 0 THEN n - 1 ELSE n
             g == [client_out EXCEPT !.pos = client_out.pos + n] IN
         /\ SubSeq(Unsent(client_out), 1, p) \in Seq(Nat)
         /\ Unsent(g) \in Seq(Nat)
         /\ SubSeq(Unsent(client_out), 1, p) \o Unsent(g) = Unsent(client_out)
<1> DEFINE pay == client_out.pay
           a == IF client_out.pos = 0 THEN 0 ELSE client_out.pos - 1
           p == IF client_out.pos = 0 THEN n - 1 ELSE n
           g == [client_out EXCEPT !.pos = client_out.pos + n]
<1>1. /\ pay \in Seq(Nat) /\ Len(pay) \in Nat
      /\ client_out.pos \in Nat /\ client_out.pos <= Len(pay) + 1
  BY LenProperties DEF TypeSess
<1>2. n <= Len(pay) + 1 - client_out.pos
  BY <1>1 DEF OutLeft
<1>3. /\ a \in 0..Len(pay) /\ p \in 0..Len(pay) - a
      /\ a + 1 = (IF client_out.pos = 0 THEN 1 ELSE client_out.pos)
      /\ a + p + 1 = client_out.pos + n /\ client_out.pos + n # 0
      /\ a + p \in 0..Len(pay) /\ Len(pay) - a \in Nat
  <2> DEFINE L == Len(pay)
             q == client_out.pos
  <2>1. L \in Nat /\ q \in Nat /\ q <= L + 1 /\ n <= L + 1 - q
    BY <1>1, <1>2
  <2> HIDE DEF L, q
  <2>2. CASE q = 0
    <3>1. a = 0 /\ p = n - 1
      BY <2>2 DEF q
    <3> HIDE DEF a, p
    <3>2. /\ a \in 0..L /\ p \in 0..L - a /\ a + 1 = 1 /\ a + p + 1 = q + n /\ q + n # 0
          /\ a + p \in 0..L /\ L - a \in Nat
      BY <2>1, <2>2, <3>1
    <3> QED
      BY <2>2, <3>2 DEF L, q
  <2>3. CASE q # 0
    <3>1. a = q - 1 /\ p = n
      BY <2>3 DEF q
    <3> HIDE DEF a, p
    <3>2. /\ a \in 0..L /\ p \in 0..L - a /\ a + 1 = q /\ a + p + 1 = q + n /\ q + n # 0
          /\ a + p \in 0..L /\ L - a \in Nat
      BY <2>1, <2>3, <3>1
    <3> QED
      BY <2>3, <3>2 DEF L, q
  <2> QED
    BY <2>2, <2>3
<1>4. Unsent(client_out) = SubSeq(pay, a + 1, Len(pay))
  BY <1>3 DEF Unsent
<1>5. Unsent(g) = SubSeq(pay, a + p + 1, Len(pay))
  <2>1. g.op = "binary" /\ g.pay = pay /\ g.pos = client_out.pos + n
    BY DEF TypeSess
  <2> HIDE DEF g, a, p
  <2> QED
    BY <1>3, <2>1 DEF Unsent
<1> HIDE DEF a, p, g, pay
<1>7. SubSeq(pay, a + p + 1, Len(pay)) \in Seq(Nat)
  BY <1>1, <1>3, CutSeq
<1>8. /\ SubSeq(pay, a + 1, Len(pay)) \in Seq(Nat)
      /\ Len(SubSeq(pay, a + 1, Len(pay))) = Len(pay) - a
  BY <1>1, <1>3, CutSeq
<1>9. SubSeq(SubSeq(pay, a + 1, Len(pay)), 1, p) \in Seq(Nat)
  BY <1>3, <1>8, CutSeq
<1>10. SubSeq(SubSeq(pay, a + 1, Len(pay)), 1, p) \o SubSeq(pay, a + p + 1, Len(pay))
         = SubSeq(pay, a + 1, Len(pay))
  BY <1>1, <1>3, CutAgain
<1>11. /\ SubSeq(Unsent(client_out), 1, p) \in Seq(Nat)
       /\ Unsent(g) \in Seq(Nat)
       /\ SubSeq(Unsent(client_out), 1, p) \o Unsent(g) = Unsent(client_out)
  BY <1>4, <1>5, <1>7, <1>9, <1>10
<1> QED
  BY <1>11 DEF p, g

\* The step neither takes from the target nor gives to the client.
LEMMA KeepDown ==
  ASSUME DownInOrder, closing = 2 => closing' = 2, c_seen' = c_seen, t2c' = t2c,
         Unsent(client_out') = Unsent(client_out), tsock'.read = tsock.read
  PROVE  DownInOrder'
<1>1. Unsent(client_out)' = Unsent(client_out)
  BY DEF Unsent
<1>2. Numbered(0, tsock.read)' = Numbered(0, tsock.read)
  BY DEF Numbered
<1> QED
  BY <1>1, <1>2 DEF DownInOrder

LEMMA MessageDown ==
  ASSUME TypeOK, DownInOrder, Feeding, UNCHANGED <<c_seen, t2c, tsock>>,
         NEW op, NEW n \in Nat, session_handle_ws_message(op, n)
  PROVE  DownInOrder'
<1>1. closing = 0
  BY DEF Feeding
<1>2. CASE client_out' = client_out
  BY <1>1, <1>2, KeepDown
<1>3. CASE CanMakeFrame /\ (client_out' = Frame("pong", Blank(n))
                            \/ client_out' = Frame("close", Blank(n)))
  <2>1. Unsent(client_out) = <<>>
    BY <1>3, UnsentSeq DEF CanMakeFrame, TypeOK
  <2>2. Unsent(client_out') = <<>>
    BY <1>3, ControlUnsent
  <2> QED
    BY <1>1, <2>1, <2>2, KeepDown
<1> QED
  BY <1>2, <1>3 DEF session_handle_ws_message, QueueClose

LEMMA WriteClientDown ==
  ASSUME TypeOK, DownInOrder, WriteClient
  PROVE  DownInOrder'
<1> DEFINE n == Taken(csock, OutLeft(client_out))
           g == [client_out EXCEPT !.pos = client_out.pos + n]
<1>1. /\ DeliverToClient(n) /\ n > 0 /\ UNCHANGED <<closing, t2c, tsock>>
      /\ OutLeft(client_out) > 0
  BY DEF WriteClient
<1>2. TypeSess /\ c_seen \in Seq(Nat) /\ t2c \in Seq(Nat)
  BY DEF TypeOK, TypeSess, TypeHistory
<1>3. n \in Nat /\ n <= OutLeft(client_out)
  <2>1. csock \in SockType({"none", "syn", "open", "fin", "rst"})
    BY DEF TypeOK, TypeNet, SockType
  <2> QED
    BY <1>2, <2>1, OutLeftType, TakenType
<1> HIDE DEF n
<1>4. client_out' = g
  BY <1>1 DEF DeliverToClient
<1>5. CASE client_out.op = "binary"
  <2> DEFINE p == IF client_out.pos = 0 THEN n - 1 ELSE n
             x == SubSeq(Unsent(client_out), 1, p)
             y == Unsent(g)
  <2>1. x \in Seq(Nat) /\ y \in Seq(Nat) /\ x \o y = Unsent(client_out)
    BY <1>1, <1>2, <1>3, <1>5, UnsentCut
  <2>2. c_seen' = c_seen \o x
    BY <1>1, <1>5 DEF DeliverToClient
  <2>3. Unsent(client_out)' = y
    BY <1>4 DEF Unsent
  <2> HIDE DEF x, y
  <2>4. (c_seen \o x) \o y = c_seen \o Unsent(client_out)
    <3>1. c_seen \in Seq(Nat) /\ x \in Seq(Nat) /\ y \in Seq(Nat)
      BY <1>2, <2>1
    <3>2. (c_seen \o x) \o y = c_seen \o (x \o y)
      BY <3>1, ConcatAssociative, SMTT(40)
    <3> QED
      BY <2>1, <3>2
  <2>5. (c_seen \o Unsent(client_out) \o t2c)' = c_seen \o Unsent(client_out) \o t2c
    BY <1>1, <2>2, <2>3, <2>4
  <2>6. Numbered(0, tsock.read)' = Numbered(0, tsock.read)
    BY <1>1 DEF Numbered
  <2> QED
    BY <1>1, <2>5, <2>6 DEF DownInOrder
<1>6. CASE client_out.op # "binary"
  <2>1. c_seen' = c_seen \o <<>>
    BY <1>1, <1>6 DEF DeliverToClient
  <2>2. c_seen' = c_seen
    BY <1>2, <2>1, ConcatEmptySeq
  <2>3. client_out'.op = client_out.op
    BY <1>2, <1>4 DEF TypeSess
  <2>4. Unsent(client_out') = Unsent(client_out)
    BY <1>6, <2>3 DEF Unsent
  <2> QED
    BY <1>1, <2>2, <2>4, KeepDown
<1> QED
  BY <1>5, <1>6

LEMMA NextFrameDown ==
  ASSUME TypeOK, DownInOrder, NextFrame
  PROVE  DownInOrder'
<1>1. /\ OutLeft(client_out) = 0 /\ UNCHANGED <<closing, tsock, c_seen>>
  BY DEF NextFrame, net, history
<1>2. Unsent(client_out) = <<>>
  BY <1>1, UnsentSeq DEF TypeOK
<1>3. CASE pending_close.set
  <2>1. client_out' = Frame("close", Blank(pending_close.len)) /\ t2c' = t2c
    BY <1>3 DEF NextFrame
  <2>2. Unsent(client_out') = <<>>
    BY <2>1, ControlUnsent
  <2> QED
    BY <1>1, <1>2, <2>1, <2>2, KeepDown
<1>4. CASE ~pending_close.set
  <2>1. PICK n : FrameChunk(n) /\ n = IF conn.handshake_done THEN min_size(Chunk, Len(t2c)) ELSE 0
    BY <1>4 DEF NextFrame
  <2>2. t2c \in Seq(Nat) /\ c_seen \in Seq(Nat) /\ Len(t2c) \in Nat /\ Chunk \in Nat
    BY LenProperties, SizeAssumption DEF TypeOK, TypeSess, TypeHistory
  <2>3. n \in 0..Len(t2c)
    BY <2>1, <2>2, MinSize
  <2> DEFINE x == SubSeq(t2c, 1, n)
             y == SubSeq(t2c, n + 1, Len(t2c))
  <2>4. x \in Seq(Nat) /\ Len(x) = n /\ y \in Seq(Nat) /\ x \o y = t2c
    BY <2>2, <2>3, CutSeq
  <2>5. t2c' = y /\ client_out' = IF n > 0 THEN Frame("binary", x) ELSE NoFrame
    BY <2>1 DEF FrameChunk
  <2> HIDE DEF x, y
  <2>6. Unsent(client_out') = x
    <3>1. CASE n > 0
      BY <2>4, <2>5, <3>1, DataUnsent
    <3>2. CASE n = 0
      <4>1. x = <<>>
        BY <2>4, <3>2, EmptySeq
      <4> QED
        BY <2>5, <3>2, <4>1 DEF Unsent, NoFrame
    <3> QED
      BY <2>3, <3>1, <3>2
  <2>7. Unsent(client_out)' = x
    BY <2>6 DEF Unsent
  <2>8. (c_seen \o x) \o y = c_seen \o t2c
    <3>1. c_seen \in Seq(Nat) /\ x \in Seq(Nat) /\ y \in Seq(Nat)
      BY <2>2, <2>4
    <3>2. (c_seen \o x) \o y = c_seen \o (x \o y)
      BY <3>1, ConcatAssociative
    <3> QED
      BY <2>4, <3>2
  <2>9. c_seen \o <<>> = c_seen
    BY <2>2, ConcatEmptySeq
  <2>10. (c_seen \o Unsent(client_out) \o t2c)' = c_seen \o Unsent(client_out) \o t2c
    BY <1>1, <1>2, <2>5, <2>7, <2>8, <2>9
  <2>11. Numbered(0, tsock.read)' = Numbered(0, tsock.read)
    BY <1>1 DEF Numbered
  <2> QED
    BY <1>1, <2>10, <2>11 DEF DownInOrder
<1> QED
  BY <1>3, <1>4

LEMMA ReadTargetDown ==
  ASSUME TypeOK, DownInOrder, ReadTarget
  PROVE  DownInOrder'
<1>1. PICK r \in TargetReads :
        /\ tsock' = [tsock EXCEPT !.read = tsock.read + r.n, !.pend = r.pend]
        /\ t2c' = t2c \o Numbered(tsock.read, r.n)
  BY DEF ReadTarget
<1>2. UNCHANGED <<closing, client_out, c_seen>>
  BY DEF ReadTarget, history
<1>3. r.n \in Nat /\ tsock.read \in Nat
  BY TargetReadType
<1>4. tsock'.read = tsock.read + r.n
  BY <1>1 DEF TypeOK, TypeNet, SockType
<1> DEFINE x == c_seen \o Unsent(client_out)
           y == Numbered(tsock.read, r.n)
<1>5. t2c \in Seq(Nat) /\ x \in Seq(Nat) /\ y \in Seq(Nat)
  <2>1. c_seen \in Seq(Nat) /\ t2c \in Seq(Nat) /\ Unsent(client_out) \in Seq(Nat)
    BY UnsentSeq DEF TypeOK, TypeSess, TypeHistory
  <2> QED
    BY <1>3, <2>1, NumberedSeq, ConcatProperties
<1>6. (c_seen \o Unsent(client_out))' = x
  BY <1>2 DEF Unsent
<1>7. Numbered(0, tsock.read)' = Numbered(0, tsock.read) \o y
  <2>1. Numbered(0, tsock.read)' = Numbered(0, tsock.read + r.n)
    BY <1>4 DEF Numbered
  <2> QED
    BY <1>3, <2>1, NumberedAppend
<1>8. t2c' = t2c \o y
  BY <1>1
<1>9. closing # 2 => x \o t2c = Numbered(0, tsock.read)
  BY DEF DownInOrder
<1> HIDE DEF x, y
<1>10. x \o (t2c \o y) = (x \o t2c) \o y
  BY <1>5, ConcatAssociative, SMTT(40)
<1>11. closing # 2 => x \o (t2c \o y) = Numbered(0, tsock.read) \o y
  BY <1>9, <1>10
<1> QED
  BY <1>2, <1>6, <1>7, <1>8, <1>11 DEF DownInOrder

LEMMA NextDown == TypeOK /\ DownInOrder /\ [Next]_vars => DownInOrder'
<1> SUFFICES ASSUME TypeOK, DownInOrder, [Next]_vars PROVE DownInOrder'
  OBVIOUS
<1>1. CASE Closes
  <2>1. closing' = 2
    BY <1>1, ClosesIsClose DEF session_close
  <2> QED
    BY <2>1 DEF DownInOrder
<1>2. CASE Wait \/ ReadClientStops \/ ReadTargetStops \/ WriteClientStops \/ WriteTargetStops
           \/ WsDone
  <2>1. UNCHANGED <<sess, net, history>>
    BY <1>2 DEF Wait, ReadClientStops, ReadTargetStops, WriteClientStops, WriteTargetStops,
                WsDone
  <2> QED
    BY <2>1, KeepDown DEF sess, net, history
<1>3. CASE ReadRequest \/ ReadFrames \/ WsFull
  BY <1>3, KeepDown DEF ReadRequest, ReadFrames, WsFull, sess, net, history
<1>4. CASE ClientTlsAgain \/ TargetTlsAgain \/ HandleClientEvent \/ HandleTargetEvent
  BY <1>4, KeepDown
     DEF ClientTlsAgain, TargetTlsAgain, HandleClientEvent, HandleTargetEvent, net, history
<1>5. CASE Upgrade
  <2>1. CanMakeFrame /\ client_out' = Frame("http", Blank(1))
        /\ UNCHANGED <<closing, t2c, c_seen>>
    BY <1>5 DEF Upgrade
  <2>2. tsock'.read = tsock.read
    BY <1>5 DEF Upgrade, TypeOK, TypeNet, SockType
  <2>3. Unsent(client_out) = <<>>
    BY <2>1, UnsentSeq DEF CanMakeFrame, TypeOK
  <2>4. Unsent(client_out') = <<>>
    BY <2>1, ControlUnsent
  <2> QED
    BY <2>1, <2>2, <2>3, <2>4, KeepDown
<1>6. CASE WsHeader
  BY <1>6, KeepDown DEF WsHeader, net
<1>7. CASE WsEmptyFrame
  BY <1>7, MessageDown DEF WsEmptyFrame, net
<1>8. CASE WsPayload
  BY <1>8, MessageDown, PayloadStepType DEF WsPayload, net
<1>9. CASE WriteClient
  BY <1>9, WriteClientDown
<1>10. CASE NextFrame
  BY <1>10, NextFrameDown
<1>11. CASE ReadTarget
  BY <1>11, ReadTargetDown
<1>12. CASE WriteTarget
  <2>1. UNCHANGED <<closing, t2c, client_out, c_seen>>
    BY <1>12 DEF WriteTarget
  <2>2. tsock'.read = tsock.read
    BY <1>12 DEF WriteTarget, TypeOK, TypeNet, SockType
  <2> QED
    BY <2>1, <2>2, KeepDown
<1>13. CASE PeerStep
  <2>1. UNCHANGED <<sess, history>>
    BY <1>13 DEF PeerStep, ClientArrives, ClientDrains, ClientLeaves, TargetAccepts,
       TargetSends, TargetDrains, TargetLeaves, Concurrently
  <2>2. tsock'.read = tsock.read
    BY <1>13 DEF PeerStep, ClientArrives, ClientDrains, ClientLeaves, TargetAccepts,
       TargetSends, TargetDrains, TargetLeaves, TypeOK, TypeNet, SockType
  <2> QED
    BY <2>1, <2>2, KeepDown DEF sess, history
<1>14. CASE UNCHANGED vars
  BY <1>14, KeepDown DEF vars, sess, net, history
<1> QED
  BY <1>1, <1>2, <1>3, <1>4, <1>5, <1>6, <1>7, <1>8, <1>9, <1>10, <1>11, <1>12, <1>13,
     <1>14 DEF Next, LoopStep, Closes

LEMMA InitDown == Init => DownInOrder
<1> SUFFICES ASSUME Init PROVE DownInOrder
  OBVIOUS
<1>1. c_seen = <<>> /\ t2c = <<>> /\ Unsent(client_out) = <<>> /\ tsock.read = 0
  BY DEF Init, Unsent, NoFrame
<1>2. Numbered(0, 0) = <<>>
  BY NumberedSeq, EmptySeq
<1>3. <<>> \o <<>> \o <<>> = <<>>
  BY EmptyType, ConcatEmptySeq
<1> QED
  BY <1>1, <1>2, <1>3 DEF DownInOrder

\* What reached the client, the rest of the frame being sent and
\* target_to_client are together what was read from the target, in order:
\* session_read_target, session_write_client and the frames that answer pings
\* and CLOSE neither lose nor repeat a byte, whatever the sizes of buffers,
\* chunks, records and send buffers.
THEOREM SessionDownInOrder == Spec => []DownInOrder
<1>1. Init => TypeOK /\ DownInOrder
  BY InitType, InitDown
<1>2. (TypeOK /\ DownInOrder) /\ [Next]_vars => (TypeOK /\ DownInOrder)'
  BY NextType, NextDown
<1> QED
  BY <1>1, <1>2, PTL DEF Spec

-----------------------------------------------------------------------------
(* Before and after the upgrade.                                           *)

ConnType ==
  [handshake_done : BOOLEAN, target : {"none", "plain", "tls"},
   target_connecting : BOOLEAN, client_tls_ready : BOOLEAN,
   target_tls_ready : BOOLEAN, cwant : SUBSET {"read", "write"},
   twant : SUBSET {"read", "write"}, cflights : 0..Flights, tflights : 0..Flights]

LEMMA ConnTyped == ASSUME TypeOK PROVE conn \in ConnType
BY DEF TypeOK, TypeSess, ConnType

\* CompletedConnect completes a connection attempt and nothing else.
LEMMA CompletedType ==
  ASSUME TypeOK
  PROVE  /\ CompletedConnect \in ConnType
         /\ CompletedConnect.handshake_done = conn.handshake_done
         /\ CompletedConnect.client_tls_ready = conn.client_tls_ready
<1>1. conn \in ConnType
  BY ConnTyped
<1> QED
  BY <1>1, ModeAssumption DEF CompletedConnect, ConnType

LegEvent == ClientTlsAgain \/ TargetTlsAgain \/ HandleClientEvent \/ HandleTargetEvent

\* The start of a handler upgrades nothing.
LEMMA LegKeeps ==
  ASSUME TypeOK, LegEvent
  PROVE  /\ conn'.handshake_done = conn.handshake_done
         /\ conn.client_tls_ready => conn'.client_tls_ready
         /\ HandleClientEvent => conn'.client_tls_ready
         /\ UNCHANGED <<closing, pending_close, c2t, t2c, client_out, ws_parser, net, history>>
<1>1. conn \in ConnType
  BY ConnTyped
<1>2. UNCHANGED <<closing, pending_close, c2t, t2c, client_out, ws_parser, net, history>>
  BY DEF LegEvent, ClientTlsAgain, TargetTlsAgain, HandleClientEvent, HandleTargetEvent
<1>3. CASE HandleClientEvent
  BY <1>1, <1>2, <1>3 DEF HandleClientEvent, ConnType
<1>4. CASE ClientTlsAgain
  <2>1. conn'.handshake_done = conn.handshake_done
        /\ conn'.client_tls_ready = conn.client_tls_ready
    BY <1>1, <1>4 DEF ClientTlsAgain, ConnType
  <2> QED
    BY <1>2, <1>3, <2>1
<1> DEFINE k == CompletedConnect
<1>5. /\ k \in ConnType /\ k.handshake_done = conn.handshake_done
      /\ k.client_tls_ready = conn.client_tls_ready
  BY CompletedType
<1>6. CASE TargetTlsAgain
  <2>1. PICK w \in {"read", "write"} :
          conn' = [k EXCEPT !.tflights = k.tflights - 1, !.twant = {w}]
    BY <1>6 DEF TargetTlsAgain
  <2> HIDE DEF k
  <2>2. conn'.handshake_done = conn.handshake_done
        /\ conn'.client_tls_ready = conn.client_tls_ready
    BY <1>5, <2>1 DEF ConnType
  <2> QED
    BY <1>2, <1>3, <2>2
<1>7. CASE HandleTargetEvent
  <2>1. conn' = IF k.target_connecting THEN k
                ELSE [k EXCEPT !.target_tls_ready = TRUE, !.twant = {}]
    BY <1>7 DEF HandleTargetEvent
  <2> HIDE DEF k
  <2>2. conn'.handshake_done = conn.handshake_done
        /\ conn'.client_tls_ready = conn.client_tls_ready
    BY <1>5, <2>1 DEF ConnType
  <2> QED
    BY <1>2, <1>3, <2>2
<1> QED
  BY <1>3, <1>4, <1>6, <1>7 DEF LegEvent

\* Where a handler starts.
LEMMA LegEnters ==
  ASSUME LegEvent
  PROVE  /\ pc = "loop" /\ pc' # "ws"
         /\ pc' = "c_read" => HandleClientEvent /\ "read" \in batch.c
<1>1. pc = "loop"
  BY DEF LegEvent, ClientTlsAgain, TargetTlsAgain, HandleClientEvent, HandleTargetEvent,
         Dispatch
<1>2. CASE ClientTlsAgain \/ TargetTlsAgain
  BY <1>1, <1>2 DEF ClientTlsAgain, TargetTlsAgain, Return
<1>3. CASE HandleClientEvent
  BY <1>1, <1>3 DEF HandleClientEvent, Enter
<1>4. CASE HandleTargetEvent
  BY <1>1, <1>4 DEF HandleTargetEvent, Enter
<1> QED
  BY <1>2, <1>3, <1>4 DEF LegEvent

\* The end of the read half leads to the write half or to the loop.
LEMMA AfterReadLeads ==
  ASSUME NEW writer, AfterRead(writer) PROVE pc' \in {writer, "loop"}
BY DEF AfterRead, Return

\* Steps that change neither the session's fields nor the history.
Stutters ==
  \/ Wait \/ ReadClientStops \/ ReadTargetStops \/ WriteClientStops \/ WriteTargetStops
  \/ WsDone \/ PeerStep

LEMMA StuttersKeep ==
  ASSUME Stutters
  PROVE  /\ UNCHANGED <<sess, history>>
         /\ pc' = "ws" => pc = "ws"
         /\ pc' = "c_read" => pc = "c_read" \/ (pc = "ws" /\ ~is_high(c2t))
<1>1. CASE Wait
  BY <1>1 DEF Wait
<1>2. CASE ReadClientStops \/ ReadTargetStops
  BY <1>2, AfterReadLeads DEF ReadClientStops, ReadTargetStops
<1>3. CASE WriteClientStops \/ WriteTargetStops
  BY <1>3 DEF WriteClientStops, WriteTargetStops, Return
<1>4. CASE WsDone
  BY <1>4, AfterReadLeads DEF WsDone
<1>5. CASE PeerStep
  BY <1>5 DEF PeerStep, ClientArrives, ClientDrains, ClientLeaves, TargetAccepts,
       TargetSends, TargetDrains, TargetLeaves, Concurrently, thread
<1> QED
  BY <1>1, <1>2, <1>3, <1>4, <1>5 DEF Stutters

LEMMA KeepUpgrade ==
  ASSUME UpgradeInv, UNCHANGED <<sess, history>>,
         pc' = "ws" => pc = "ws", pc' = "c_read" => pc \in {"c_read", "ws"}
  PROVE  UpgradeInv'
BY DEF UpgradeInv, sess, history

\* Nothing is queued for either peer before the upgrade.
LEMMA NotYet ==
  ASSUME TypeOK, UpgradeInv, ~conn.handshake_done
  PROVE  OutLeft(client_out) = 0 /\ c2t = <<>> /\ ~Feeding /\ pc # "ws"
BY DEF UpgradeInv, OutLeft, NoFrame, Feeding

LEMMA NextUpgrade == TypeOK /\ UpgradeInv /\ ClosingInv /\ [Next]_vars => UpgradeInv'
<1> SUFFICES ASSUME TypeOK, UpgradeInv, ClosingInv, [Next]_vars PROVE UpgradeInv'
  OBVIOUS
<1>0. conn \in ConnType
  BY ConnTyped
<1>1. CASE Closes
  <2>1. PICK why \in Reasons : session_close(why)
    BY <1>1, ClosesIsClose
  <2> QED
    BY <2>1 DEF session_close, UpgradeInv
<1>2. CASE Stutters
  BY <1>2, StuttersKeep, KeepUpgrade
<1>3. CASE LegEvent
  BY <1>3, LegKeeps, LegEnters DEF UpgradeInv, history
<1>4. CASE ReadRequest
  <2>1. UNCHANGED <<sess, history>> /\ pc' \in {"c_write", "loop"}
    BY <1>4, AfterReadLeads DEF ReadRequest
  <2> QED
    BY <2>1, KeepUpgrade
<1>5. CASE ReadFrames
  <2>1. UNCHANGED <<sess, history>> /\ pc' = "ws" /\ conn.handshake_done
    BY <1>5 DEF ReadFrames
  <2> QED
    BY <2>1 DEF UpgradeInv, sess, history
<1>6. CASE Upgrade
  <2>1. PICK mode \in ConnectModes :
          conn' = [session_start_target(mode) EXCEPT !.handshake_done = TRUE]
    BY <1>6 DEF Upgrade
  <2>2. pc = "c_read"
    BY <1>6, ReadsWhenOpen DEF Upgrade
  <2>3. conn'.handshake_done /\ conn'.client_tls_ready = conn.client_tls_ready
    BY <1>0, <2>1 DEF session_start_target, ConnType
  <2> QED
    BY <2>2, <2>3 DEF UpgradeInv
<1>7. CASE WsFull \/ WsHeader \/ WsEmptyFrame \/ WsPayload
  <2>1. pc = "ws" /\ conn' = conn
    BY <1>7 DEF WsFull, WsHeader, WsEmptyFrame, WsPayload, Feeding, sess
  <2> QED
    BY <2>1 DEF UpgradeInv
<1>8. CASE WriteClient
  <2>1. conn.handshake_done
    BY <1>8, NotYet DEF WriteClient
  <2> QED
    BY <1>8, <2>1 DEF WriteClient, UpgradeInv
<1>9. CASE NextFrame
  <2>1. UNCHANGED <<conn, closing, c2t, ws_parser, history>> /\ pc' = "loop"
    BY <1>9 DEF NextFrame, Return
  <2>2. ASSUME ~conn.handshake_done PROVE client_out' = NoFrame
    <3>1. ~pending_close.set
      BY <2>2 DEF UpgradeInv, ClosingInv
    <3> QED
      BY <1>9, <2>2, <3>1 DEF NextFrame, FrameChunk
  <2> QED
    BY <2>1, <2>2 DEF UpgradeInv, history
<1>10. CASE ReadTarget
  BY <1>10, TargetReadType DEF ReadTarget, UpgradeInv, history
<1>11. CASE WriteTarget
  <2>1. conn.handshake_done
    BY <1>11, NotYet DEF WriteTarget, TargetWriteOver
  <2> QED
    BY <1>11, <2>1 DEF WriteTarget, UpgradeInv
<1>12. CASE UNCHANGED vars
  BY <1>12, KeepUpgrade DEF vars, thread
<1> QED
  BY <1>1, <1>2, <1>3, <1>4, <1>5, <1>6, <1>7, <1>8, <1>9, <1>10, <1>11, <1>12
     DEF Next, LoopStep, Closes, Stutters, LegEvent
-----------------------------------------------------------------------------
(* A closed session is over.                                               *)

\* No handler is running and nothing is left to dispatch: no step is enabled.
LEMMA ClosedStops == ASSUME ClosedInv, closing = 2, Next PROVE FALSE
<1>1. /\ pc = "loop" /\ batch.c = {} /\ batch.t = {} /\ batch["c"] = {} /\ batch["t"] = {}
  BY DEF ClosedInv, NoEvents
<1>2. CASE EventError \/ Wait \/ Expire
  BY <1>1, <1>2 DEF EventError, Wait, Expire
<1>3. CASE LegEvent \/ ClientTlsFails \/ ConnectFails \/ TargetTlsFails
  BY <1>1, <1>3 DEF LegEvent, ClientTlsAgain, TargetTlsAgain, HandleClientEvent,
       HandleTargetEvent, Dispatch, ClientTlsFails, ConnectFails, TargetTlsFails
<1>4. CASE ReadClientStops \/ ReadClientFails \/ ReadFrames \/ RefuseRequest
           \/ ReadRequest \/ Upgrade \/ UpgradeFails
  BY <1>1, <1>4 DEF ReadClientStops, ReadClientFails, ReadFrames, RefuseRequest,
       ReadRequest, Upgrade, UpgradeFails, ClientReads
<1>5. CASE WsDone \/ WsFull \/ WsHeader \/ WsEmptyFrame \/ WsPayload
           \/ WsProtocolError \/ WsOverflow \/ WsPingRefused
  BY <1>1, <1>5 DEF WsDone, WsFull, WsHeader, WsEmptyFrame, WsPayload,
       WsProtocolError, WsOverflow, WsPingRefused, Feeding
<1>6. CASE WriteClient \/ WriteClientStops \/ WriteClientFails \/ NextFrame \/ CloseSent
  BY <1>1, <1>6 DEF WriteClient, WriteClientStops, WriteClientFails, NextFrame, CloseSent
<1>7. CASE ReadTarget \/ ReadTargetOverflow \/ ReadTargetStops \/ ReadTargetFails
           \/ WriteTarget \/ WriteTargetStops \/ WriteTargetFails
  BY <1>1, <1>7 DEF ReadTarget, ReadTargetOverflow, ReadTargetStops, ReadTargetFails,
       WriteTarget, WriteTargetStops, WriteTargetFails, TargetReads
<1>8. CASE PeerStep
  BY <1>8 DEF PeerStep, ClientArrives, ClientDrains, ClientLeaves, TargetAccepts,
       TargetSends, TargetDrains, TargetLeaves, Concurrently
<1> QED
  BY <1>2, <1>3, <1>4, <1>5, <1>6, <1>7, <1>8 DEF Next, LoopStep, LegEvent

\* Only session_close closes a session.
LEMMA OnlyCloseCloses ==
  ASSUME Next, closing # 2, closing' = 2 PROVE Closes
<1>1. CASE Stutters
  BY <1>1, StuttersKeep DEF sess
<1>2. CASE LegEvent
  BY <1>2 DEF LegEvent, ClientTlsAgain, TargetTlsAgain, HandleClientEvent, HandleTargetEvent
<1>3. CASE ReadFrames \/ ReadRequest \/ Upgrade \/ WsFull \/ WsHeader
  BY <1>3 DEF ReadFrames, ReadRequest, Upgrade, WsFull, WsHeader, sess
<1>4. CASE WsEmptyFrame \/ WsPayload
  BY <1>4, SMTT(30) DEF WsEmptyFrame, WsPayload, session_handle_ws_message
<1>5. CASE WriteClient \/ NextFrame \/ ReadTarget \/ WriteTarget
  BY <1>5 DEF WriteClient, NextFrame, ReadTarget, WriteTarget
<1> QED
  BY <1>1, <1>2, <1>3, <1>4, <1>5 DEF Next, LoopStep, Closes, Stutters, LegEvent

LEMMA NextClosed == ClosedInv /\ [Next]_vars => ClosedInv'
<1> SUFFICES ASSUME ClosedInv, [Next]_vars PROVE ClosedInv'
  OBVIOUS
<1>1. CASE Next
  <2>1. SUFFICES ASSUME closing' = 2 PROVE pc' = "loop" /\ batch' = NoEvents
    BY DEF ClosedInv
  <2>2. Closes
    BY <1>1, <2>1, ClosedStops, OnlyCloseCloses
  <2> QED
    BY <2>2, ClosesIsClose DEF session_close
<1>2. CASE UNCHANGED vars
  BY <1>2 DEF ClosedInv, vars, sess, thread
<1> QED
  BY <1>1, <1>2
-----------------------------------------------------------------------------
(* The client's stream.                                                    *)

StreamInv == TypeOK /\ ClosedInv /\ UpgradeInv /\ ClosingInv /\ WireInv /\ ClientStreamOk

LEMMA KeepWire ==
  ASSUME WireInv, ClientStreamOk, UNCHANGED <<wire, client_out, pending_close>>,
         closing' = closing \/ closing' = 2,
         conn'.handshake_done = conn.handshake_done
  PROVE  WireInv' /\ ClientStreamOk'
BY DEF WireInv, ClientStreamOk, OutLeft

\* A frame takes the place of one that is all sent: then all that was begun is
\* finished, and the response is out.
LEMMA FrameOver ==
  ASSUME TypeOK, WireInv, closing # 2, OutLeft(client_out) = 0
  PROVE  /\ wire.left = 0
         /\ conn.handshake_done => wire.last # "none"
<1>1. client_out # Frame("http", Blank(1))
  BY FrameHasOutput
<1> QED
  BY <1>1 DEF WireInv

\* The frame that takes its place is not the response, and is a CLOSE only in a
\* session that has received one.
LEMMA NewFrame ==
  ASSUME StreamInv, closing # 2, conn.handshake_done, OutLeft(client_out) = 0,
         closing = 0 \/ pending_close.set,
         UNCHANGED <<wire, conn>>, closing' # 2,
         NEW op \in {"binary", "pong", "close"}, NEW pay, client_out' = Frame(op, pay),
         op = "close" => closing' = 1 /\ ~pending_close'.set
  PROVE  WireInv' /\ ClientStreamOk'
<1>1. wire.left = 0 /\ wire.last # "none"
  BY FrameOver DEF StreamInv
<1>2. wire.last # "close"
  BY DEF StreamInv, WireInv
<1>3. client_out'.op = op /\ client_out'.pos = 0
  BY DEF Frame
<1> QED
  BY <1>1, <1>2, <1>3 DEF StreamInv, WireInv, ClientStreamOk

LEMMA MessageWire ==
  ASSUME StreamInv, Feeding, UNCHANGED <<wire, conn>>,
         NEW op, NEW n \in Nat, session_handle_ws_message(op, n)
  PROVE  WireInv' /\ ClientStreamOk'
<1>1. closing = 0 /\ pc = "ws" /\ conn.handshake_done
  BY DEF Feeding, StreamInv, UpgradeInv
<1>2. CASE UNCHANGED <<client_out, pending_close, closing>>
  BY <1>2, KeepWire DEF StreamInv
<1>3. CASE /\ CanMakeFrame /\ client_out' = Frame("pong", Blank(n))
           /\ UNCHANGED <<closing, pending_close>>
  BY <1>1, <1>3, NewFrame DEF CanMakeFrame
<1>4. CASE closing' = 1 /\ QueueClose(n)
  <2>1. CASE CanMakeFrame
    <3>1. client_out' = Frame("close", Blank(n)) /\ ~pending_close'.set
      BY <1>4, <2>1 DEF QueueClose, NoClose
    <3> QED
      BY <1>1, <1>4, <2>1, <3>1, NewFrame DEF CanMakeFrame
  <2>2. CASE ~CanMakeFrame
    <3>1. client_out' = client_out
      BY <1>4, <2>2 DEF QueueClose
    <3>2. client_out.op # "close"
      BY <1>1 DEF StreamInv, WireInv
    <3> QED
      BY <1>1, <1>4, <3>1, <3>2 DEF StreamInv, WireInv, ClientStreamOk, OutLeft
  <2> QED
    BY <2>1, <2>2
<1> QED
  BY <1>2, <1>3, <1>4 DEF session_handle_ws_message

LEMMA WriteClientWire ==
  ASSUME StreamInv, WriteClient
  PROVE  WireInv' /\ ClientStreamOk'
<1> DEFINE n == Taken(csock, OutLeft(client_out))
<1>1. /\ DeliverToClient(n) /\ n > 0 /\ OutLeft(client_out) > 0
      /\ UNCHANGED <<closing, pending_close, conn>>
  BY DEF WriteClient
<1>2. TypeSess /\ client_out \in [op : {"none", "http", "binary", "pong", "close"},
                                  pay : Seq(Nat), pos : Nat]
      /\ wire \in [last : {"none", "http", "binary", "pong", "close"}, left : Nat, ok : BOOLEAN]
  BY DEF StreamInv, TypeOK, TypeSess, TypeHistory
<1>3. n \in Nat /\ n <= OutLeft(client_out)
  <2>1. csock \in SockType({"none", "syn", "open", "fin", "rst"})
    BY DEF StreamInv, TypeOK, TypeNet, SockType
  <2> QED
    BY <1>2, <2>1, OutLeftType, TakenType
<1>4. client_out.op # "none" /\ OutLeft(client_out) = Len(client_out.pay) + 1 - client_out.pos
      /\ Len(client_out.pay) \in Nat
  BY <1>1, <1>2, OutLeftType, LenProperties
<1> HIDE DEF n
<1>5. /\ client_out'.op = client_out.op /\ client_out'.pay = client_out.pay
      /\ client_out'.pos = client_out.pos + n /\ client_out'.pos > 0
  BY <1>1, <1>2, <1>3 DEF DeliverToClient
<1>6. wire'.last = client_out.op /\ wire'.left = OutLeft(client_out) - n
  BY <1>1 DEF DeliverToClient
<1>7. OutLeft(client_out)' = OutLeft(client_out) - n
  <2>1. OutLeft(client_out') = Len(client_out.pay) + 1 - (client_out.pos + n)
    BY <1>4, <1>5 DEF OutLeft
  <2>2. client_out.pos \in Nat
    BY <1>2
  <2> QED
    BY <1>3, <1>4, <2>1, <2>2 DEF OutLeft
<1>8. closing # 2
  BY DEF StreamInv, ClosedInv, WriteClient
<1>9. conn.handshake_done
  BY <1>1, NotYet DEF StreamInv
<1>10. wire'.ok
  <2>1. wire.ok
    BY DEF StreamInv, ClientStreamOk
  <2>2. CASE client_out.pos = 0
    <3>1. wire.left = 0 /\ wire.last # "close"
      BY <1>8, <2>2 DEF StreamInv, WireInv
    <3>2. client_out.op = "http" => wire.last = "none"
      BY <1>8, <2>2 DEF StreamInv, WireInv
    <3>3. client_out.op # "http" => wire.last # "none"
      BY <1>8, <1>9 DEF StreamInv, WireInv, Frame
    <3>4. (wire.last = "none") = (client_out.op = "http")
      BY <3>2, <3>3
    <3> QED
      BY <1>1, <2>1, <2>2, <3>1, <3>4 DEF DeliverToClient
  <2>3. CASE client_out.pos # 0
    <3>1. wire.last = client_out.op /\ wire.left = OutLeft(client_out)
      BY <1>4, <1>8, <2>3 DEF StreamInv, WireInv
    <3> QED
      BY <1>1, <2>1, <2>3, <3>1 DEF DeliverToClient
  <2> QED
    BY <2>2, <2>3
<1>11. client_out.op = "close" => closing = 1 /\ ~pending_close.set
  BY <1>8 DEF StreamInv, WireInv
<1>12. WireInv'
  <2>1. client_out'.op # "none" /\ client_out'.pos # 0
    BY <1>4, <1>5
  <2>2. wire'.left = OutLeft(client_out)' /\ wire'.last = client_out'.op
    BY <1>5, <1>6, <1>7
  <2> QED
    BY <1>1, <1>4, <1>5, <1>6, <1>11, <2>1, <2>2 DEF WireInv
<1> QED
  BY <1>10, <1>12 DEF ClientStreamOk

LEMMA NextFrameWire ==
  ASSUME StreamInv, NextFrame
  PROVE  WireInv' /\ ClientStreamOk'
<1>1. /\ OutLeft(client_out) = 0 /\ UNCHANGED <<closing, conn, wire>>
      /\ pending_close.set \/ closing = 0
  BY DEF NextFrame, history
<1>2. closing # 2 /\ (pending_close.set => closing = 1)
  BY <1>1 DEF StreamInv, ClosingInv
<1>3. CASE pending_close.set
  <2>1. conn.handshake_done
    BY <1>2, <1>3 DEF StreamInv, UpgradeInv
  <2>2. client_out' = Frame("close", Blank(pending_close.len)) /\ ~pending_close'.set
    BY <1>3 DEF NextFrame, NoClose
  <2> QED
    BY <1>1, <1>2, <1>3, <2>1, <2>2, NewFrame
<1>4. CASE ~pending_close.set
  <2>1. PICK n : FrameChunk(n) /\ n = IF conn.handshake_done THEN min_size(Chunk, Len(t2c)) ELSE 0
    BY <1>4 DEF NextFrame
  <2>2. CASE client_out' = NoFrame
    <3>1. wire.left = 0 /\ (conn.handshake_done => wire.last # "none")
      BY <1>1, <1>2, FrameOver DEF StreamInv
    <3>2. wire.last # "close"
      BY <1>1, <1>2, <1>4 DEF StreamInv, WireInv
    <3> QED
      BY <1>1, <2>2, <3>1, <3>2 DEF StreamInv, WireInv, ClientStreamOk, NoFrame
  <2>3. CASE n > 0 /\ client_out' = Frame("binary", SubSeq(t2c, 1, n))
    <3>1. conn.handshake_done
      BY <2>1, <2>3
    <3> QED
      BY <1>1, <1>2, <2>3, <3>1, NewFrame
  <2> QED
    BY <2>1, <2>2, <2>3 DEF FrameChunk
<1> QED
  BY <1>3, <1>4

LEMMA NextWire == StreamInv /\ [Next]_vars => WireInv' /\ ClientStreamOk'
<1> SUFFICES ASSUME StreamInv, [Next]_vars PROVE WireInv' /\ ClientStreamOk'
  OBVIOUS
<1>0. TypeOK /\ UpgradeInv /\ ClosingInv /\ WireInv /\ ClientStreamOk
  BY DEF StreamInv
<1>1. CASE Closes
  <2>1. closing' = 2 /\ wire' = wire
    BY <1>1, ClosesIsClose DEF session_close
  <2> QED
    BY <1>0, <2>1 DEF WireInv, ClientStreamOk
<1>2. CASE Stutters
  BY <1>0, <1>2, StuttersKeep, KeepWire DEF sess, history
<1>3. CASE LegEvent
  BY <1>0, <1>3, LegKeeps, KeepWire DEF history
<1>4. CASE ReadRequest \/ ReadFrames \/ WsFull
  BY <1>0, <1>4, KeepWire DEF ReadRequest, ReadFrames, WsFull, sess, history
<1>5. CASE Upgrade
  <2>1. /\ client_out' = Frame("http", Blank(1)) /\ UNCHANGED <<wire, closing, pending_close>>
        /\ ~conn.handshake_done /\ OutLeft(client_out) = 0
    BY <1>5 DEF Upgrade, CanMakeFrame
  <2>2. closing = 0
    BY <1>5, ReadsWhenOpen DEF Upgrade
  <2>3. wire.left = 0 /\ wire.last = "none"
    BY <1>0, <2>1, <2>2, FrameOver DEF UpgradeInv
  <2>4. client_out'.op = "http" /\ client_out'.pos = 0
    BY <2>1 DEF Frame
  <2> QED
    BY <1>0, <2>1, <2>3, <2>4 DEF WireInv, ClientStreamOk, Blank
<1>6. CASE WsHeader
  BY <1>0, <1>6, KeepWire DEF WsHeader
<1>7. CASE WsEmptyFrame
  BY <1>7, MessageWire DEF WsEmptyFrame
<1>8. CASE WsPayload
  BY <1>0, <1>8, MessageWire, PayloadStepType DEF WsPayload
<1>9. CASE WriteClient
  BY <1>9, WriteClientWire
<1>10. CASE NextFrame
  BY <1>10, NextFrameWire, SMTT(30)
<1>11. CASE ReadTarget \/ WriteTarget
  BY <1>0, <1>11, KeepWire DEF ReadTarget, WriteTarget, history
<1>12. CASE UNCHANGED vars
  BY <1>0, <1>12, KeepWire DEF vars, sess, history
<1> QED
  BY <1>1, <1>2, <1>3, <1>4, <1>5, <1>6, <1>7, <1>8, <1>9, <1>10, <1>11, <1>12
     DEF Next, LoopStep, Closes, Stutters, LegEvent

LEMMA InitClosed == Init => ClosedInv
BY DEF Init, ClosedInv

LEMMA InitUpgrade == Init => UpgradeInv /\ ClosingInv
<1> SUFFICES ASSUME Init PROVE UpgradeInv /\ ClosingInv
  OBVIOUS
<1>1. closing = 0 /\ pending_close = NoClose
  BY DEF Init
<1> QED
  BY <1>1 DEF Init, UpgradeInv, ClosingInv, NoClose

\* The client is sent the 101 response and then whole frames, one after the
\* other, and nothing behind a CLOSE: session_make_ws_frame is refused while
\* client_out has bytes left, and the CLOSE that had to wait is made by
\* session_write_client when the frame before is out.  WireInv relates the frame
\* in client_out to the frame last begun on the wire.
THEOREM SessionClientStream == Spec => []ClientStreamOk
<1>1. Init => StreamInv
  <2> SUFFICES ASSUME Init PROVE WireInv /\ ClientStreamOk
    BY InitType, InitUpgrade, InitClosed DEF StreamInv
  <2> QED
    BY DEF Init, WireInv, ClientStreamOk, NoFrame, NoClose, Frame
<1>2. StreamInv /\ [Next]_vars => StreamInv'
  BY NextType, NextClosed, NextUpgrade, NextClosing, NextWire DEF StreamInv
<1>3. StreamInv => ClientStreamOk
  BY DEF StreamInv
<1> QED
  BY <1>1, <1>2, <1>3, PTL DEF Spec
-----------------------------------------------------------------------------
(* The target's leg.                                                       *)

EncryptInv == TypeOK /\ ConnectInv /\ UpgradeInv /\ ClosingInv /\ LegInv

LEMMA KeepLeg ==
  ASSUME LegInv, UNCHANGED <<conn, t_seen>>,
         pc' = "t_write" => pc = "t_write" \/ (pc = "t_read" /\ "write" \in events),
         pc' = "t_read" => pc = "t_read" /\ events' = events
  PROVE  LegInv'
BY DEF LegInv

\* A step of the client's handler, or of frame parsing, does not get to the
\* target's handler.
LEMMA StuttersLeg ==
  ASSUME Stutters
  PROVE  /\ pc' = "t_write" => pc = "t_write" \/ (pc = "t_read" /\ "write" \in events)
         /\ pc' = "t_read" => pc = "t_read" /\ events' = events
<1>1. CASE Wait
  BY <1>1 DEF Wait
<1>2. CASE ReadClientStops
  BY <1>2, AfterReadLeads DEF ReadClientStops
<1>3. CASE ReadTargetStops
  BY <1>3 DEF ReadTargetStops, AfterRead, Return
<1>4. CASE WriteClientStops \/ WriteTargetStops
  BY <1>4 DEF WriteClientStops, WriteTargetStops, Return
<1>5. CASE WsDone
  BY <1>5, AfterReadLeads DEF WsDone
<1>6. CASE PeerStep
  BY <1>6 DEF PeerStep, ClientArrives, ClientDrains, ClientLeaves, TargetAccepts,
       TargetSends, TargetDrains, TargetLeaves, Concurrently, thread
<1> QED
  BY <1>1, <1>2, <1>3, <1>4, <1>5, <1>6 DEF Stutters

\* A target event that leads to the write half completes the connection first.
LEMMA TargetEventLeg ==
  ASSUME TypeOK, ConnectInv, LegInv, HandleTargetEvent, TargetTls, "immediate" \notin ConnectModes
  PROVE  /\ conn'.target # "none" <=> conn.target # "none"
         /\ conn'.target = "plain" =>
              conn'.target_connecting /\ pc' # "t_write" /\ ~(pc' = "t_read" /\ "write" \in events')
         /\ conn.target = "tls" => conn'.target = "tls"
<1> DEFINE k == CompletedConnect
<1>1. conn \in ConnType /\ k \in ConnType
  BY ConnTyped, CompletedType
<1>2. /\ conn' = IF k.target_connecting THEN k
                  ELSE [k EXCEPT !.target_tls_ready = TRUE, !.twant = {}]
      /\ pc' = IF "read" \in batch.t THEN "t_read" ELSE "t_write"
      /\ events' = batch.t
      /\ Dispatch("t")
  BY DEF HandleTargetEvent, Enter
<1>3. batch.t # {} /\ batch.t \in SUBSET {"read", "write"}
  BY <1>2, DispatchType DEF Dispatch, TypeOK
<1>4. pc' = "t_write" => "write" \in events'
  BY <1>2, <1>3
<1>5. CASE conn.target_connecting /\ "write" \in batch.t
  <2>1. k.target = "tls" /\ conn.target # "none"
    <3>1. k.target = "tls"
      BY <1>1, <1>5 DEF CompletedConnect, ConnType
    <3> QED
      BY <1>5, <3>1 DEF ConnectInv
  <2> HIDE DEF k
  <2>2. conn'.target = "tls"
    BY <1>1, <1>2, <2>1 DEF ConnType
  <2> QED
    BY <2>1, <2>2
<1>6. CASE ~(conn.target_connecting /\ "write" \in batch.t)
  <2>1. k = conn
    BY <1>6 DEF CompletedConnect
  <2> HIDE DEF k
  <2>2. conn'.target = conn.target /\ conn'.target_connecting = conn.target_connecting
    BY <1>1, <1>2, <2>1 DEF ConnType
  <2>3. conn.target = "plain" => conn.target_connecting
    BY DEF LegInv
  <2> QED
    BY <1>2, <1>4, <1>6, <2>2, <2>3
<1> QED
  BY <1>5, <1>6

LEMMA TargetTlsLeg ==
  ASSUME TypeOK, ConnectInv, TargetTlsAgain
  PROVE  conn'.target = "tls" /\ conn.target # "none" /\ pc' = "loop"
<1> DEFINE k == CompletedConnect
<1>1. conn \in ConnType /\ k \in ConnType
  BY ConnTyped, CompletedType
<1>2. k.target = "tls" /\ pc' = "loop"
  BY DEF TargetTlsAgain, TargetHandshakes, Return
<1>3. PICK w \in {"read", "write"} :
        conn' = [k EXCEPT !.tflights = k.tflights - 1, !.twant = {w}]
  BY DEF TargetTlsAgain
<1>4. conn.target_connecting \/ k = conn
  BY DEF CompletedConnect
<1> HIDE DEF k
<1>5. conn'.target = "tls"
  BY <1>1, <1>2, <1>3 DEF ConnType
<1> QED
  BY <1>2, <1>4, <1>5 DEF ConnectInv

LEMMA NextLeg == EncryptInv /\ [Next]_vars => LegInv'
<1> SUFFICES ASSUME EncryptInv, [Next]_vars PROVE LegInv'
  OBVIOUS
<1>0. TypeOK /\ ConnectInv /\ UpgradeInv /\ ClosingInv /\ LegInv /\ conn \in ConnType
  BY ConnTyped DEF EncryptInv
<1>1. CASE Closes
  BY <1>0, <1>1, ClosesIsClose, KeepLeg DEF session_close
<1>2. CASE Stutters
  BY <1>0, <1>2, StuttersKeep, StuttersLeg, KeepLeg DEF sess, history
<1>3. CASE ClientTlsAgain \/ HandleClientEvent
  <2>1. /\ conn'.target = conn.target /\ conn'.handshake_done = conn.handshake_done
        /\ conn'.target_connecting = conn.target_connecting /\ t_seen' = t_seen
    BY <1>0, <1>3 DEF ClientTlsAgain, HandleClientEvent, ConnType, history
  <2>2. pc' \in {"loop", "c_read", "c_write"}
    BY <1>3 DEF ClientTlsAgain, HandleClientEvent, Return, Enter
  <2> QED
    BY <1>0, <2>1, <2>2 DEF LegInv
<1>4. CASE TargetTlsAgain
  <2>1. conn'.handshake_done = conn.handshake_done
    BY <1>0, <1>4, LegKeeps DEF LegEvent
  <2> QED
    BY <1>0, <1>4, <2>1, TargetTlsLeg DEF LegInv
<1>5. CASE HandleTargetEvent
  <2>1. conn'.handshake_done = conn.handshake_done /\ t_seen' = t_seen
    BY <1>0, <1>5, LegKeeps DEF LegEvent, history
  <2> QED
    BY <1>0, <1>5, <2>1, TargetEventLeg DEF LegInv
<1>6. CASE ReadRequest
  BY <1>0, <1>6, AfterReadLeads, KeepLeg DEF ReadRequest, sess, history
<1>7. CASE ReadFrames \/ WsHeader \/ WsEmptyFrame \/ WsPayload
  BY <1>0, <1>7, KeepLeg
     DEF ReadFrames, WsHeader, WsEmptyFrame, WsPayload, sess, history, thread
<1>8. CASE WsFull
  BY <1>0, <1>8, AfterReadLeads, KeepLeg DEF WsFull, sess
<1>9. CASE Upgrade
  <2>1. PICK mode \in ConnectModes \ {"failed"} :
          conn' = [session_start_target(mode) EXCEPT !.handshake_done = TRUE]
    BY <1>9 DEF Upgrade
  <2>2. "immediate" \notin ConnectModes => mode = "in_progress"
    BY ModeAssumption
  <2>3. /\ conn'.handshake_done /\ conn'.target = "plain"
        /\ conn'.target_connecting = (mode = "in_progress")
    BY <1>0, <2>1 DEF session_start_target, ConnType
  <2>4. pc' = "ws" /\ t_seen' = t_seen /\ ~conn.handshake_done
    BY <1>9 DEF Upgrade
  <2> QED
    BY <1>0, <2>2, <2>3, <2>4 DEF LegInv
<1>10. CASE WriteClient \/ ReadTarget
  BY <1>0, <1>10, KeepLeg DEF WriteClient, ReadTarget, history
<1>11. CASE NextFrame
  BY <1>0, <1>11, KeepLeg DEF NextFrame, Return, history
<1>12. CASE WriteTarget
  <2>1. conn.handshake_done
    BY <1>0, <1>12, NotYet DEF WriteTarget, TargetWriteOver
  <2>2. pc = "t_write" /\ pc' = pc /\ conn' = conn
    BY <1>12 DEF WriteTarget
  <2> QED
    BY <1>0, <2>1, <2>2 DEF LegInv, ConnType
<1>13. CASE UNCHANGED vars
  BY <1>0, <1>13, KeepLeg DEF vars, sess, thread, history
<1> QED
  BY <1>1, <1>2, <1>3, <1>4, <1>5, <1>6, <1>7, <1>8, <1>9, <1>10, <1>11, <1>12, <1>13
     DEF Next, LoopStep, Closes, Stutters

\* With --target-tls no payload reaches the target outside TLS, as long as
\* connect(2) never completes at once: session_start_target leaves a plain
\* transport, session_complete_target_connect replaces it when the write event
\* comes, and until then nothing is written.  (The run that expects a violation
\* shows that a connect(2) that does complete at once breaks it.)
THEOREM SessionTargetEncrypted ==
  "immediate" \notin ConnectModes => (Spec => []TargetLegEncrypted)
<1> SUFFICES ASSUME "immediate" \notin ConnectModes PROVE Spec => []TargetLegEncrypted
  OBVIOUS
<1>1. Init => EncryptInv
  <2> SUFFICES ASSUME Init PROVE EncryptInv
    OBVIOUS
  <2>1. TypeOK /\ ConnectInv /\ UpgradeInv /\ ClosingInv
    BY InitType, InitArmed, InitUpgrade DEF ArmedInv
  <2>2. ~conn.handshake_done /\ conn.target = "none" /\ t_seen = <<>>
    BY DEF Init
  <2> QED
    BY <2>1, <2>2 DEF EncryptInv, LegInv
<1>2. EncryptInv /\ [Next]_vars => EncryptInv'
  BY NextType, NextConnect, NextUpgrade, NextClosing, NextLeg DEF EncryptInv
<1>3. EncryptInv => TargetLegEncrypted
  BY DEF EncryptInv, LegInv, TargetLegEncrypted
<1> QED
  BY <1>1, <1>2, <1>3, PTL DEF Spec
=============================================================================
