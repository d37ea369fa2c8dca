------------------------- MODULE SessionTypeProofs -------------------------
(***************************************************************************)
(* Type correctness of Session, for every configuration and every client   *)
(* script.                                                                 *)
(***************************************************************************)
EXTENDS SessionProperties, SequenceTheorems, TLAPS

-----------------------------------------------------------------------------
(* Facts about the operators.                                              *)

LEMMA MinSize ==
  ASSUME NEW a \in Nat, NEW b \in Nat
  PROVE  min_size(a, b) \in Nat /\ min_size(a, b) <= a /\ min_size(a, b) <= b
BY DEF min_size

LEMMA HighWaterNat == HighWater \in Nat
BY SizeAssumption DEF HighWater

LEMMA ScriptToken ==
  ASSUME TypeNet, NEW i \in 1..Len(script)
  PROVE  /\ script \in Seq(Token) /\ Len(script) \in Nat
         /\ script[i] \in Token
BY ScriptAssumption DEF TypeNet, IsScript

LEMMA NumberedSeq ==
  ASSUME NEW m \in Nat, NEW n \in Nat
  PROVE  /\ Numbered(m, n) \in Seq(Nat) /\ Len(Numbered(m, n)) = n
         /\ \A i \in 1..n : Numbered(m, n)[i] = m + i
<1>1. Numbered(m, n) \in [1..n -> Nat]
  BY DEF Numbered
<1> QED
  BY <1>1 DEF Numbered

LEMMA BlankSeq ==
  ASSUME NEW n \in Nat
  PROVE  Blank(n) \in Seq(Nat) /\ Len(Blank(n)) = n
<1>1. Blank(n) \in [1..n -> Nat]
  BY SMTT(40) DEF Blank
<1> QED
  BY <1>1 DEF Blank

\* Cutting a sequence in two.
LEMMA CutSeq ==
  ASSUME NEW s \in Seq(Nat), NEW n \in 0..Len(s)
  PROVE  /\ SubSeq(s, 1, n) \in Seq(Nat) /\ Len(SubSeq(s, 1, n)) = n
         /\ SubSeq(s, n + 1, Len(s)) \in Seq(Nat)
         /\ Len(SubSeq(s, n + 1, Len(s))) = Len(s) - n
         /\ SubSeq(s, 1, n) \o SubSeq(s, n + 1, Len(s)) = s
<1>1. Len(s) \in Nat /\ n \in Nat /\ \A i \in 1..Len(s) : s[i] \in Nat
  BY LenProperties
<1>2. SubSeq(s, 1, n) \in Seq(Nat) /\ Len(SubSeq(s, 1, n)) = n
  BY <1>1, SubSeqProperties
<1>3. SubSeq(s, n + 1, Len(s)) \in Seq(Nat) /\ Len(SubSeq(s, n + 1, Len(s))) = Len(s) - n
  BY <1>1, SubSeqProperties
<1>4. SubSeq(s, 1, n) \o SubSeq(s, n + 1, Len(s)) = SubSeq(s, 1, Len(s))
  <2>1. 1 \in 1..Len(s) + 1 /\ n \in 1 - 1..Len(s) /\ Len(s) \in n..Len(s)
    BY <1>1
  <2> QED
    BY <2>1, ConcatAdjacentSubSeq
<1>5. SubSeq(s, 1, Len(s)) = s
  BY SubSeqFull
<1> QED
  BY <1>2, <1>3, <1>4, <1>5

\* What a read returns was there and fits the limit.
LEMMA ReadsBound ==
  ASSUME NEW s \in SockType({"none", "syn", "open", "fin", "rst"}),
         s.read + s.pend <= s.arrived,
         NEW tls \in BOOLEAN, NEW limit \in Nat, NEW r \in Reads(s, tls, limit)
  PROVE  /\ r.n \in Nat /\ r.pend \in Nat
         /\ r.n <= limit
         /\ s.read + r.n + r.pend <= s.arrived
<1>1. Avail(s) \in Nat /\ Record \in Nat /\ s.pend \in Nat /\ s.pend <= Avail(s)
      /\ s.read \in Nat /\ s.arrived \in Nat
  BY SizeAssumption DEF Avail, SockType
<1>2. CASE Avail(s) > 0 /\ ~tls
  BY <1>1, <1>2, MinSize DEF Reads, Avail
<1>3. CASE Avail(s) > 0 /\ tls
  <2>1. PICK b \in (IF s.pend > 0 THEN {s.pend} ELSE 1..min_size(Record, Avail(s))) :
          r = [n |-> min_size(limit, b), pend |-> b - min_size(limit, b)]
    BY <1>1, <1>3 DEF Reads
  <2>2. min_size(Record, Avail(s)) \in Nat /\ min_size(Record, Avail(s)) <= Avail(s)
    BY <1>1, MinSize
  <2>3. b \in Nat /\ b <= Avail(s)
    BY <1>1, <2>1, <2>2
  <2>4. min_size(limit, b) \in Nat /\ min_size(limit, b) <= limit /\ min_size(limit, b) <= b
    BY <2>3, MinSize
  <2>5. r.n = min_size(limit, b) /\ r.pend = b - min_size(limit, b)
    BY <2>1
  <2> QED
    BY <1>1, <2>3, <2>4, <2>5 DEF Avail
<1>4. CASE Avail(s) = 0
  BY <1>1, <1>4 DEF Reads
<1> QED
  BY <1>1, <1>2, <1>3, <1>4

-----------------------------------------------------------------------------
(* Pieces that many actions share.                                         *)

Reasons == {"none", "error", "timeout", "tls", "connect", "client_gone",
            "target_gone", "bad_request", "protocol", "overflow", "pong_busy",
            "close_frame"}

LEMMA EmptyType ==
  /\ <<>> \in Seq(Nat) /\ Len(<<>>) = 0
  /\ NoFrame \in [op : {"none", "http", "binary", "pong", "close"},
                  pay : Seq(Nat), pos : Nat]
  /\ NoFrame.pos <= Len(NoFrame.pay) + 1
BY EmptySeq DEF NoFrame

LEMMA InitType == Init => TypeOK
<1> SUFFICES ASSUME Init PROVE TypeOK
  OBVIOUS
<1>1. TypeSess
  BY EmptyType, SizeAssumption, ModeAssumption
     DEF Init, TypeSess, NoClose, NoFrameParsed, CtlOps
<1>2. TypeThread
  BY SizeAssumption DEF Init, TypeThread, Phases, NoEvents
<1>3. TypeNet
  <2>1. script \in Seq(Token) /\ Len(script) \in Nat
    BY ScriptAssumption, LenProperties DEF Init, IsScript
  <2> QED
    BY <2>1, SizeAssumption DEF Init, TypeNet, SockType
<1>4. TypeHistory
  BY EmptyType DEF Init, TypeHistory
<1> QED
  BY <1>1, <1>2, <1>3, <1>4 DEF TypeOK

LEMMA CloseType ==
  ASSUME TypeOK, NEW why \in Reasons, session_close(why)
  PROVE  TypeOK'
<1>1. TypeSess'
  <2>1. conn' = conn /\ closing' = 2 /\ c2t' = <<>> /\ t2c' = <<>>
        /\ client_out' = NoFrame /\ pending_close' = NoClose /\ ws_parser' = NoFrameParsed
    BY DEF session_close
  <2>2. NoClose \in [set : BOOLEAN, len : 0..CtlMax]
    BY SizeAssumption DEF NoClose
  <2>3. /\ NoFrameParsed \in [op : DataOps \cup CtlOps \cup {"none"}, left : Nat]
        /\ NoFrameParsed.op \notin CtlOps
    BY DEF NoFrameParsed, CtlOps
  <2>4. BufSize \in Nat
    BY SizeAssumption
  <2> QED
    BY <2>1, <2>2, <2>3, <2>4, EmptyType, SMTT(30) DEF TypeOK, TypeSess
<1>2. TypeThread'
  BY DEF session_close, TypeThread, Phases, NoEvents
<1>3. TypeNet'
  BY DEF TypeOK, session_close, TypeNet, net
<1>4. TypeHistory'
  BY DEF TypeOK, session_close, TypeHistory, net, Reasons
<1> QED
  BY <1>1, <1>2, <1>3, <1>4 DEF TypeOK

\* The registrations a state calls for.
LEMMA EventsType ==
  TypeSess =>
    session_update_events \in [c : SUBSET {"read", "write"}, t : SUBSET {"read", "write"}]
<1> SUFFICES ASSUME TypeSess
             PROVE  session_update_events \in
                      [c : SUBSET {"read", "write"}, t : SUBSET {"read", "write"}]
  OBVIOUS
<1>1. conn.cwant \in SUBSET {"read", "write"} /\ conn.twant \in SUBSET {"read", "write"}
  BY DEF TypeSess
<1>2. ClientEvents \in SUBSET {"read", "write"}
  BY <1>1 DEF ClientEvents, TlsMask
<1>3. TargetEvents \in SUBSET {"read", "write"}
  BY <1>1 DEF TargetEvents, TlsMask
<1> QED
  BY <1>2, <1>3 DEF session_update_events

\* A handler that returns leaves the thread well typed if the session is.
LEMMA ReturnType ==
  ASSUME TypeThread, TypeSess', Return, UNCHANGED batch \/ batch' \in
           [c : SUBSET {"read", "write", "error"}, t : SUBSET {"read", "write", "error"}]
  PROVE  TypeThread'
<1>1. (session_update_events \in [c : SUBSET {"read", "write"}, t : SUBSET {"read", "write"}])'
  BY EventsType, PTL
<1> QED
  BY <1>1 DEF Return, TypeThread, Phases

LEMMA AfterReadType ==
  ASSUME TypeThread, TypeSess', NEW writer \in {"c_write", "t_write"},
         AfterRead(writer), UNCHANGED batch
  PROVE  TypeThread'
<1>1. CASE "write" \in events
  <2>1. pc' = writer /\ ops' = 0 /\ events' = events /\ interest' = interest
    BY <1>1 DEF AfterRead
  <2>2. WriteBudget \in Nat
    BY SizeAssumption
  <2> QED
    BY <2>1, <2>2 DEF TypeThread, Phases
<1>2. CASE "write" \notin events
  BY <1>2, ReturnType DEF AfterRead
<1> QED
  BY <1>1, <1>2

\* Taking one side's event off the batch.
LEMMA DispatchType ==
  ASSUME TypeThread, NEW side \in {"c", "t"}, Dispatch(side)
  PROVE  /\ batch' \in [c : SUBSET {"read", "write", "error"},
                        t : SUBSET {"read", "write", "error"}]
         /\ batch[side] \in SUBSET {"read", "write"}
BY DEF Dispatch, TypeThread

LEMMA KeepSess == ASSUME TypeSess, UNCHANGED sess PROVE TypeSess'
BY DEF TypeSess, sess

LEMMA KeepThread == ASSUME TypeThread, UNCHANGED thread PROVE TypeThread'
BY DEF TypeThread, thread

LEMMA KeepNet == ASSUME TypeNet, UNCHANGED net PROVE TypeNet'
BY DEF TypeNet, net

LEMMA KeepHistory == ASSUME TypeHistory, UNCHANGED <<history, csock>> PROVE TypeHistory'
BY DEF TypeHistory, history

\* Steps that end the session.
Closes ==
  \/ Expire \/ EventError \/ ClientTlsFails \/ ConnectFails \/ TargetTlsFails
  \/ ReadClientFails \/ RefuseRequest \/ UpgradeFails
  \/ WsProtocolError \/ WsOverflow \/ WsPingRefused
  \/ WriteClientFails \/ CloseSent
  \/ ReadTargetOverflow \/ ReadTargetFails \/ WriteTargetFails

LEMMA ClosesIsClose == Closes => \E why \in Reasons : session_close(why)
BY DEF Closes, Reasons, Expire, EventError, ClientTlsFails, ConnectFails,
       TargetTlsFails, ReadClientFails, RefuseRequest, UpgradeFails,
       WsProtocolError, WsOverflow, WsPingRefused, WriteClientFails, CloseSent,
       ReadTargetOverflow, ReadTargetFails, WriteTargetFails

LEMMA MasksType ==
  ASSUME NEW s, NEW want \in SUBSET {"read", "write"}, NEW h, NEW m \in Masks(s, want, h)
  PROVE  m \in SUBSET {"read", "write", "error"}
<1> DEFINE ready == {e \in want : IF e = "read" THEN Readable(s) ELSE Writable(s)}
           A == IF h THEN SUBSET want ELSE {ready}
           X == IF s.peer = "rst" THEN {{}, {"read", "error"}} ELSE {{}}
<1>1. m \in {a \cup x : a \in A, x \in X}
  BY DEF Masks
<1>2. \A a \in A : a \subseteq want
  OBVIOUS
<1>3. \A x \in X : x \subseteq {"read", "error"}
  OBVIOUS
<1> HIDE DEF A, X
<1>4. PICK a \in A, x \in X : m = a \cup x
  BY <1>1
<1> QED
  BY <1>2, <1>3, <1>4

LEMMA WaitType == ASSUME TypeOK, Wait PROVE TypeOK'
<1>1. PICK c \in Masks(csock, interest.c, ~conn.client_tls_ready),
           t \in Masks(tsock, interest.t, conn.target = "tls" /\ ~conn.target_tls_ready) :
        batch' = [c |-> c, t |-> t]
  BY DEF Wait
<1>2. c \in SUBSET {"read", "write", "error"} /\ t \in SUBSET {"read", "write", "error"}
  <2>1. interest.c \in SUBSET {"read", "write"} /\ interest.t \in SUBSET {"read", "write"}
    BY DEF TypeOK, TypeThread
  <2> QED
    BY <1>1, <2>1, MasksType
<1>3. TypeThread'
  BY <1>1, <1>2 DEF TypeOK, TypeThread, Wait
<1> QED
  BY <1>3, KeepSess, KeepNet, KeepHistory DEF TypeOK, Wait, net

\* Steps that leave everything but the thread alone.
LEMMA StopsType ==
  ASSUME TypeOK,
         ReadClientStops \/ ReadTargetStops \/ WriteClientStops \/ WriteTargetStops
  PROVE  TypeOK'
<1>1. UNCHANGED <<sess, batch, net, history>>
  BY DEF ReadClientStops, ReadTargetStops, WriteClientStops, WriteTargetStops
<1>2. TypeSess' /\ TypeNet' /\ TypeHistory'
  BY <1>1, KeepSess, KeepNet, KeepHistory DEF TypeOK, net
<1>3. CASE ReadClientStops \/ ReadTargetStops
  BY <1>1, <1>2, <1>3, AfterReadType DEF ReadClientStops, ReadTargetStops, TypeOK
<1>4. CASE WriteClientStops \/ WriteTargetStops
  BY <1>1, <1>2, <1>4, ReturnType DEF WriteClientStops, WriteTargetStops, TypeOK
<1> QED
  BY <1>2, <1>3, <1>4 DEF TypeOK

LEMMA TlsAgainType ==
  ASSUME TypeOK, ClientTlsAgain \/ TargetTlsAgain
  PROVE  TypeOK'
<1>1. conn' \in [handshake_done : BOOLEAN, target : {"none", "plain", "tls"},
                 target_connecting : BOOLEAN, client_tls_ready : BOOLEAN,
                 target_tls_ready : BOOLEAN, cwant : SUBSET {"read", "write"},
                 twant : SUBSET {"read", "write"},
                 cflights : 0..Flights, tflights : 0..Flights]
  <2>1. Flights \in Nat /\ TargetTls \in BOOLEAN
    BY SizeAssumption, ModeAssumption
  <2>2. CASE ClientTlsAgain
    <3>1. PICK w \in {"read", "write"} :
            conn' = [conn EXCEPT !.cflights = conn.cflights - 1, !.cwant = {w}]
      BY <2>2 DEF ClientTlsAgain
    <3>2. conn.cflights - 1 \in 0..Flights /\ {w} \in SUBSET {"read", "write"}
      BY <2>1, <2>2 DEF ClientTlsAgain, TypeOK, TypeSess
    <3> QED
      BY <3>1, <3>2 DEF TypeOK, TypeSess
  <2>3. CASE TargetTlsAgain
    <3> DEFINE k == CompletedConnect
    <3>1. PICK w \in {"read", "write"} :
            conn' = [k EXCEPT !.tflights = k.tflights - 1, !.twant = {w}]
      BY <2>3 DEF TargetTlsAgain
    <3>2. k \in [handshake_done : BOOLEAN, target : {"none", "plain", "tls"},
                 target_connecting : BOOLEAN, client_tls_ready : BOOLEAN,
                 target_tls_ready : BOOLEAN, cwant : SUBSET {"read", "write"},
                 twant : SUBSET {"read", "write"},
                 cflights : 0..Flights, tflights : 0..Flights]
      BY <2>1 DEF CompletedConnect, TypeOK, TypeSess
    <3>3. k.tflights > 0
      BY <2>3 DEF TargetTlsAgain
    <3> HIDE DEF k
    <3>4. k.tflights - 1 \in 0..Flights /\ {w} \in SUBSET {"read", "write"}
      BY <2>1, <3>2, <3>3
    <3> QED
      BY <3>1, <3>2, <3>4
  <2> QED
    BY <2>2, <2>3
<1>2. UNCHANGED <<closing, pending_close, c2t, t2c, client_out, ws_parser, net, history>>
  BY DEF ClientTlsAgain, TargetTlsAgain
<1>3. TypeSess'
  BY <1>1, <1>2 DEF TypeOK, TypeSess
<1>4. TypeThread'
  BY <1>3, DispatchType, ReturnType DEF TypeOK, ClientTlsAgain, TargetTlsAgain
<1> QED
  BY <1>2, <1>3, <1>4, KeepNet, KeepHistory DEF TypeOK, net

LEMMA HandleType ==
  ASSUME TypeOK, HandleClientEvent \/ HandleTargetEvent
  PROVE  TypeOK'
<1>1. conn' \in [handshake_done : BOOLEAN, target : {"none", "plain", "tls"},
                 target_connecting : BOOLEAN, client_tls_ready : BOOLEAN,
                 target_tls_ready : BOOLEAN, cwant : SUBSET {"read", "write"},
                 twant : SUBSET {"read", "write"},
                 cflights : 0..Flights, tflights : 0..Flights]
  <2>1. Flights \in Nat /\ TargetTls \in BOOLEAN
    BY SizeAssumption, ModeAssumption
  <2>2. CASE HandleClientEvent
    BY <2>1, <2>2 DEF HandleClientEvent, TypeOK, TypeSess
  <2>3. CASE HandleTargetEvent
    BY <2>1, <2>3, ZenonT(40) DEF HandleTargetEvent, CompletedConnect, TypeOK, TypeSess
  <2> QED
    BY <2>2, <2>3
<1>2. UNCHANGED <<closing, pending_close, c2t, t2c, client_out, ws_parser, net, history>>
  BY DEF HandleClientEvent, HandleTargetEvent
<1>3. TypeSess'
  BY <1>1, <1>2 DEF TypeOK, TypeSess
<1>4. TypeThread'
  <2>1. PICK side \in {"c", "t"}, reader \in {"c_read", "t_read"}, writer \in {"c_write", "t_write"} :
          Dispatch(side) /\ Enter(batch[side], reader, writer)
    BY DEF HandleClientEvent, HandleTargetEvent
  <2>2. ReadBudget \in Nat /\ WriteBudget \in Nat
    BY SizeAssumption
  <2> QED
    BY <2>1, <2>2, DispatchType DEF TypeOK, Enter, TypeThread, Phases
<1> QED
  BY <1>2, <1>3, <1>4, KeepNet, KeepHistory DEF TypeOK, net

\* A read of the client's socket: nothing is taken that had not arrived.
LEMMA TakeType ==
  ASSUME TypeOK, NEW r \in ClientReads, TakeFromClient(r)
  PROVE  /\ csock' \in SockType({"open", "fin", "rst"})
         /\ csock'.read + csock'.pend <= csock'.arrived /\ csock'.arrived = csock.arrived
         /\ csock'.read = csock.read + r.n /\ csock.read \in Nat /\ r.n \in Nat
         /\ pc = "c_read" /\ ops + 1 <= ReadBudget
<1>1. pc = "c_read" /\ ~ClientReadOver
  BY DEF ClientReads
<1>2. ops \in Nat /\ ops <= ReadBudget /\ ops # ReadBudget
  BY <1>1 DEF TypeOK, TypeThread, ClientReadOver
<1>3. ReadBudget \in Nat /\ Chunk \in Nat /\ BufSize \in Nat /\ ClientTls \in BOOLEAN
  BY SizeAssumption, ModeAssumption
<1>4. PICK limit \in Nat : r \in Reads(csock, ClientTls, limit)
  <2>1. writable(c2t) \in Nat
    BY <1>3, LenProperties DEF writable, TypeOK, TypeSess
  <2>2. min_size(Chunk, writable(c2t)) \in Nat
    BY <1>3, <2>1, MinSize
  <2> QED
    BY <1>1, <1>3, <2>2 DEF ClientReads
<1>5. csock \in SockType({"none", "syn", "open", "fin", "rst"})
      /\ csock.read + csock.pend <= csock.arrived
  BY DEF TypeOK, TypeNet, SockType
<1>6. /\ r.n \in Nat /\ r.pend \in Nat
      /\ csock.read + r.n + r.pend <= csock.arrived
  BY <1>3, <1>4, <1>5, ReadsBound
<1>7. csock' = [csock EXCEPT !.read = csock.read + r.n, !.pend = r.pend]
  BY DEF TakeFromClient
<1>8. csock \in SockType({"open", "fin", "rst"})
  BY DEF TypeOK, TypeNet
<1>9. csock' \in SockType({"open", "fin", "rst"})
  <2>1. csock.read + r.n \in Nat
    BY <1>6, <1>8 DEF SockType
  <2> QED
    BY <1>6, <1>7, <1>8, <2>1 DEF SockType
<1>10. /\ csock'.read = csock.read + r.n /\ csock'.pend = r.pend
       /\ csock'.arrived = csock.arrived /\ csock.read \in Nat
  BY <1>7, <1>8 DEF SockType
<1>11. ops + 1 <= ReadBudget
  BY <1>2, <1>3
<1> QED
  BY <1>1, <1>6, <1>9, <1>10, <1>11

LEMMA ReadFramesType == ASSUME TypeOK, ReadFrames PROVE TypeOK'
<1>1. PICK r \in ClientReads : TakeFromClient(r)
  BY DEF ReadFrames
<1>2. TypeSess'
  BY KeepSess DEF ReadFrames, TypeOK
<1>3. TypeThread'
  BY <1>1, TakeType DEF ReadFrames, TypeOK, TypeThread, Phases
<1>4. TypeNet'
  BY <1>1, TakeType DEF ReadFrames, TypeOK, TypeNet
<1>5. TypeHistory'
  BY <1>1, TakeType DEF ReadFrames, TypeOK, TypeHistory, history
<1> QED
  BY <1>2, <1>3, <1>4, <1>5 DEF TypeOK

LEMMA ReadRequestType == ASSUME TypeOK, ReadRequest PROVE TypeOK'
<1>1. PICK r \in ClientReads : TakeFromClient(r)
  BY DEF ReadRequest
<1>2. TypeSess'
  BY KeepSess DEF ReadRequest, TypeOK
<1>3. TypeThread'
  BY <1>2, AfterReadType DEF ReadRequest, TypeOK
<1>4. TypeNet'
  BY <1>1, TakeType DEF ReadRequest, TypeOK, TypeNet
<1>5. TypeHistory'
  BY <1>1, TakeType DEF ReadRequest, TypeOK, TypeHistory, history
<1> QED
  BY <1>2, <1>3, <1>4, <1>5 DEF TypeOK

\* A frame that is begun.
LEMMA FrameType ==
  ASSUME NEW op \in {"none", "http", "binary", "pong", "close"}, NEW pay \in Seq(Nat)
  PROVE  /\ Frame(op, pay) \in [op : {"none", "http", "binary", "pong", "close"},
                                pay : Seq(Nat), pos : Nat]
         /\ Frame(op, pay).pos <= Len(Frame(op, pay).pay) + 1
         /\ OutLeft(Frame(op, pay)) \in Nat
BY LenProperties DEF Frame, OutLeft

LEMMA UpgradeType == ASSUME TypeOK, Upgrade PROVE TypeOK'
<1>1. PICK r \in ClientReads, mode \in ConnectModes \ {"failed"} :
        \E e \in 1..csock.read + r.n :
          /\ TakeFromClient(r)
          /\ done' = e
          /\ conn' = [session_start_target(mode) EXCEPT !.handshake_done = TRUE]
          /\ tsock' = [tsock EXCEPT !.peer = IF mode = "in_progress" THEN "syn" ELSE "open"]
  BY DEF Upgrade
<1>2. TypeSess'
  <2>1. client_out' = Frame("http", Blank(1)) /\ Blank(1) \in Seq(Nat)
    BY BlankSeq DEF Upgrade
  <2>2. /\ client_out' \in [op : {"none", "http", "binary", "pong", "close"},
                            pay : Seq(Nat), pos : Nat]
        /\ client_out'.pos <= Len(client_out'.pay) + 1
    BY <2>1, FrameType
  <2>3. conn' \in [handshake_done : BOOLEAN, target : {"none", "plain", "tls"},
                   target_connecting : BOOLEAN, client_tls_ready : BOOLEAN,
                   target_tls_ready : BOOLEAN, cwant : SUBSET {"read", "write"},
                   twant : SUBSET {"read", "write"},
                   cflights : 0..Flights, tflights : 0..Flights]
    <3>1. PICK b \in BOOLEAN :
            conn' = [[conn EXCEPT !.target = "plain", !.target_connecting = b]
                       EXCEPT !.handshake_done = TRUE]
      <4>1. (mode = "in_progress") \in BOOLEAN
        OBVIOUS
      <4> QED
        BY <1>1, <4>1 DEF session_start_target
    <3> QED
      BY <3>1 DEF TypeOK, TypeSess
  <2>4. UNCHANGED <<closing, pending_close, c2t, t2c, ws_parser>>
    BY DEF Upgrade
  <2> QED
    BY <2>2, <2>3, <2>4 DEF TypeOK, TypeSess
<1>3. TypeThread'
  BY <1>1, TakeType DEF Upgrade, TypeOK, TypeThread, Phases
<1>4. TypeNet'
  <2>1. tsock' \in SockType({"none", "syn", "open", "fin", "rst"})
        /\ tsock'.read = tsock.read /\ tsock'.pend = tsock.pend /\ tsock'.arrived = tsock.arrived
    BY <1>1 DEF TypeOK, TypeNet, SockType
  <2> QED
    BY <1>1, <2>1, TakeType DEF Upgrade, TypeOK, TypeNet
<1>5. TypeHistory'
  <2>1. done' \in Nat /\ done' <= csock'.read
    BY <1>1, TakeType
  <2> QED
    BY <2>1 DEF Upgrade, TypeOK, TypeHistory
<1> QED
  BY <1>2, <1>3, <1>4, <1>5 DEF TypeOK
LEMMA WsDoneType == ASSUME TypeOK, WsDone PROVE TypeOK'
<1>1. TypeSess' /\ TypeNet' /\ TypeHistory'
  BY KeepSess, KeepNet, KeepHistory DEF TypeOK, WsDone, net
<1>2. TypeThread'
  <2>1. CASE is_high(c2t)
    BY <1>1, <2>1, AfterReadType DEF TypeOK, WsDone
  <2>2. CASE ~is_high(c2t)
    BY <2>2 DEF TypeOK, WsDone, TypeThread, Phases
  <2> QED
    BY <2>1, <2>2
<1> QED
  BY <1>1, <1>2 DEF TypeOK

LEMMA WsFullType == ASSUME TypeOK, WsFull PROVE TypeOK'
<1>1. TypeSess' /\ TypeNet'
  BY KeepSess, KeepNet DEF TypeOK, WsFull
<1>2. TypeThread'
  BY <1>1, AfterReadType DEF TypeOK, WsFull
<1>3. TypeHistory'
  BY DEF TypeOK, WsFull, TypeHistory, TypeNet, SockType, net
<1> QED
  BY <1>1, <1>2, <1>3 DEF TypeOK

\* Where the parser stands and what it may hand over.
LEMMA FeedingType ==
  ASSUME TypeOK, Feeding
  PROVE  /\ done \in Nat /\ csock.read \in Nat /\ done + 1 <= csock.read
         /\ Unprocessed \in Nat /\ Unprocessed = csock.read - done
         /\ payload_capacity \in Nat /\ payload_capacity <= writable(c2t)
         /\ writable(c2t) \in Nat /\ csock.read <= Len(script) /\ Len(script) \in Nat
         /\ ws_parser.left \in Nat
<1>1. done \in Nat /\ csock.read \in Nat /\ csock.pend \in Nat /\ csock.arrived \in Nat
      /\ csock.read + csock.pend <= csock.arrived /\ csock.arrived <= Len(script)
  BY DEF TypeOK, TypeHistory, TypeNet, SockType
<1>2. Len(script) \in Nat
  BY ScriptAssumption, LenProperties DEF TypeOK, TypeNet, IsScript
<1>3. writable(c2t) \in Nat
  <2>1. c2t \in Seq(Nat) /\ Len(c2t) <= BufSize
    BY DEF TypeOK, TypeSess
  <2>2. Len(c2t) \in Nat
    BY <2>1, LenProperties
  <2> QED
    BY <2>1, <2>2, SizeAssumption DEF writable
<1>4. payload_capacity \in Nat /\ payload_capacity <= writable(c2t)
  BY <1>3, SizeAssumption, MinSize DEF payload_capacity
<1>5. ws_parser.left \in Nat
  BY DEF TypeOK, TypeSess
<1> QED
  BY <1>1, <1>2, <1>3, <1>4, <1>5, SMTT(30) DEF Feeding, Unprocessed

LEMMA PayloadStepType ==
  ASSUME TypeOK, Feeding
  PROVE  /\ PayloadStep \in Nat /\ PayloadStep <= Unprocessed
         /\ PayloadStep <= payload_capacity /\ PayloadStep <= ws_parser.left
<1>1. Unprocessed \in Nat /\ payload_capacity \in Nat /\ ws_parser.left \in Nat
  BY FeedingType
<1>2. /\ min_size(Unprocessed, payload_capacity) \in Nat
      /\ min_size(Unprocessed, payload_capacity) <= Unprocessed
      /\ min_size(Unprocessed, payload_capacity) <= payload_capacity
  BY <1>1, MinSize
<1>3. /\ PayloadStep \in Nat /\ PayloadStep <= min_size(Unprocessed, payload_capacity)
      /\ PayloadStep <= ws_parser.left
  BY <1>1, <1>2, MinSize DEF PayloadStep
<1> QED
  BY <1>1, <1>2, <1>3

\* The session after a message of n payload bytes.
LEMMA MessageType ==
  ASSUME TypeOK, Feeding, NEW op \in DataOps \cup CtlOps, NEW n \in Nat,
         n <= writable(c2t), done + n <= Len(script), op \in CtlOps => n <= CtlMax,
         session_handle_ws_message(op, n),
         conn' = conn, t2c' = t2c,
         ws_parser' \in [op : DataOps \cup CtlOps \cup {"none"}, left : Nat],
         ws_parser'.op \in CtlOps => ws_parser'.left <= CtlMax
  PROVE  TypeSess'
<1> DEFINE FType == [op : {"none", "http", "binary", "pong", "close"},
                     pay : Seq(Nat), pos : Nat]
           CType == [set : BOOLEAN, len : 0..CtlMax]
<1>1. TypeSess
  BY DEF TypeOK
<1>2. Blank(n) \in Seq(Nat)
  BY BlankSeq
<1>3. /\ Frame("pong", Blank(n)) \in FType
      /\ Frame("pong", Blank(n)).pos <= Len(Frame("pong", Blank(n)).pay) + 1
      /\ Frame("close", Blank(n)) \in FType
      /\ Frame("close", Blank(n)).pos <= Len(Frame("close", Blank(n)).pay) + 1
  BY <1>2, FrameType
<1>4. c2t' \in Seq(Nat) /\ Len(c2t') <= BufSize
  <2>1. CASE op \in DataOps
    <3> DEFINE new == [i \in 1..n |-> script[done + i].off]
    <3>1. \A i \in 1..n : script[done + i].off \in Nat
      <4> SUFFICES ASSUME NEW i \in 1..n PROVE script[done + i].off \in Nat
        OBVIOUS
      <4>1. done + i \in 1..Len(script)
        BY FeedingType
      <4>2. script[done + i] \in Token
        BY <4>1, ScriptToken DEF TypeOK
      <4> QED
        BY <4>2 DEF Token
    <3>2. new \in [1..n -> Nat]
      BY <3>1
    <3>3. new \in Seq(Nat) /\ Len(new) = n
      BY <3>2
    <3>4. c2t' = c2t \o new
      BY <2>1 DEF session_handle_ws_message, DataOps
    <3> HIDE DEF new
    <3>5. c2t \in Seq(Nat) /\ Len(c2t) \in Nat /\ BufSize \in Nat
      BY <1>1, LenProperties, SizeAssumption DEF TypeSess
    <3>6. c2t \o new \in Seq(Nat) /\ Len(c2t \o new) = Len(c2t) + n
      BY <3>3, <3>5, ConcatProperties
    <3> QED
      BY <3>4, <3>5, <3>6 DEF writable
  <2>2. CASE op \in CtlOps
    <3>1. c2t' = c2t
      BY <2>2 DEF session_handle_ws_message, DataOps, CtlOps
    <3> QED
      BY <1>1, <3>1 DEF TypeSess
  <2> QED
    BY <2>1, <2>2
<1>5. /\ client_out' \in FType /\ client_out'.pos <= Len(client_out'.pay) + 1
      /\ pending_close' \in CType /\ closing' \in 0..2
  <2>1. client_out \in FType /\ client_out.pos <= Len(client_out.pay) + 1
        /\ pending_close \in CType /\ closing \in 0..2
    BY <1>1 DEF TypeSess
  <2>2. CASE op = "close"
    <3>1. n \in 0..CtlMax /\ NoClose \in CType
      BY <2>2, SizeAssumption DEF CtlOps, NoClose
    <3>2. closing' = 1 /\ QueueClose(n)
      BY <2>2 DEF session_handle_ws_message, DataOps
    <3>3. [set |-> TRUE, len |-> n] \in CType
      BY <3>1
    <3>4. client_out' \in {client_out, Frame("close", Blank(n))}
          /\ pending_close' \in {NoClose, [set |-> TRUE, len |-> n]}
      BY <3>2 DEF QueueClose
    <3> HIDE DEF FType, CType
    <3>5. client_out' \in FType /\ client_out'.pos <= Len(client_out'.pay) + 1
      BY <1>3, <2>1, <3>4
    <3>6. pending_close' \in CType
      BY <3>1, <3>3, <3>4
    <3> QED
      BY <3>2, <3>5, <3>6
  <2>3. CASE op # "close"
    <3>1. client_out' \in {client_out, Frame("pong", Blank(n))}
          /\ UNCHANGED <<pending_close, closing>>
      BY <2>3 DEF session_handle_ws_message
    <3> HIDE DEF FType, CType
    <3> QED
      BY <1>3, <2>1, <3>1
  <2> QED
    BY <2>2, <2>3
<1> QED
  BY <1>1, <1>4, <1>5 DEF TypeSess

\* A header the parser accepts.
LEMMA HeaderType ==
  ASSUME TypeOK, Feeding, script[done + 1].k = "hdr"
  PROVE  /\ script[done + 1].op \in DataOps \cup CtlOps
         /\ script[done + 1].len \in Nat
         /\ script[done + 1].op \in CtlOps => script[done + 1].len <= CtlMax
<1>1. done + 1 \in 1..Len(script)
  BY FeedingType
<1>2. script[done + 1] \in Token /\ IsScript(script)
  BY <1>1, ScriptToken, ScriptAssumption DEF TypeOK, TypeNet
<1> QED
  BY <1>1, <1>2 DEF IsScript, Token
LEMMA WsHeaderType == ASSUME TypeOK, WsHeader PROVE TypeOK'
<1>1. Feeding /\ script[done + 1].k = "hdr"
      /\ ws_parser' = [op |-> script[done + 1].op, left |-> script[done + 1].len]
  BY DEF WsHeader
<1>2. TypeSess'
  <2>1. /\ ws_parser' \in [op : DataOps \cup CtlOps \cup {"none"}, left : Nat]
        /\ ws_parser'.op \in CtlOps => ws_parser'.left <= CtlMax
    BY <1>1, HeaderType
  <2> QED
    BY <2>1 DEF TypeOK, TypeSess, WsHeader
<1>3. TypeThread' /\ TypeNet'
  BY KeepThread, KeepNet DEF TypeOK, WsHeader
<1>4. TypeHistory'
  BY <1>1, FeedingType DEF TypeOK, WsHeader, TypeHistory, net
<1> QED
  BY <1>2, <1>3, <1>4 DEF TypeOK

LEMMA WsEmptyFrameType == ASSUME TypeOK, WsEmptyFrame PROVE TypeOK'
<1>1. Feeding /\ script[done + 1].k = "hdr"
      /\ session_handle_ws_message(script[done + 1].op, 0)
  BY DEF WsEmptyFrame
<1>2. TypeSess'
  <2>1. 0 <= writable(c2t) /\ done + 0 <= Len(script) /\ 0 <= CtlMax
    <3>1. CtlMax \in Nat
      BY SizeAssumption
    <3> QED
      BY <1>1, <3>1, FeedingType
  <2>2. conn' = conn /\ t2c' = t2c /\ ws_parser' = ws_parser
    BY DEF WsEmptyFrame
  <2>3. /\ ws_parser' \in [op : DataOps \cup CtlOps \cup {"none"}, left : Nat]
        /\ ws_parser'.op \in CtlOps => ws_parser'.left <= CtlMax
    BY <2>2 DEF TypeOK, TypeSess
  <2> QED
    BY <1>1, <2>1, <2>2, <2>3, HeaderType, MessageType
<1>3. TypeThread' /\ TypeNet'
  BY KeepThread, KeepNet DEF TypeOK, WsEmptyFrame
<1>4. TypeHistory'
  BY <1>1, FeedingType DEF TypeOK, WsEmptyFrame, TypeHistory, net
<1> QED
  BY <1>2, <1>3, <1>4 DEF TypeOK

LEMMA WsPayloadType == ASSUME TypeOK, WsPayload PROVE TypeOK'
<1> DEFINE n == PayloadStep
<1>1. Feeding /\ ws_parser.left > 0 /\ session_handle_ws_message(ws_parser.op, n)
      /\ done' = done + n
  BY DEF WsPayload
<1>2. /\ n \in Nat /\ n <= writable(c2t) /\ n <= ws_parser.left /\ n <= csock.read - done
      /\ done \in Nat /\ csock.read \in Nat /\ ws_parser.left \in Nat
      /\ csock.read <= Len(script) /\ Len(script) \in Nat
  BY <1>1, FeedingType, PayloadStepType
<1>3. TypeSess'
  <2>1. ws_parser.op \in DataOps \cup CtlOps
    <3>1. ws_parser.op \in DataOps \/ ws_parser.op = "ping" \/ ws_parser.op = "pong"
          \/ ws_parser.op = "close"
      BY <1>1 DEF session_handle_ws_message
    <3> QED
      BY <3>1 DEF CtlOps
  <2>2. ws_parser.op \in CtlOps => ws_parser.left <= CtlMax
    BY DEF TypeOK, TypeSess
  <2>3. ws_parser.op \in CtlOps => n <= CtlMax
    BY <1>2, <2>2, SizeAssumption
  <2>4. /\ ws_parser' \in [op : DataOps \cup CtlOps \cup {"none"}, left : Nat]
        /\ ws_parser'.op \in CtlOps => ws_parser'.left <= CtlMax
    <3>1. CASE ws_parser.left = n
      BY <3>1 DEF WsPayload, NoFrameParsed, CtlOps
    <3>2. CASE ws_parser.left # n
      <4>1. ws_parser' = [ws_parser EXCEPT !.left = ws_parser.left - n]
        BY <3>2 DEF WsPayload
      <4>2. ws_parser.left - n \in Nat /\ ws_parser.left - n <= ws_parser.left
        BY <1>2
      <4>3. ws_parser \in [op : DataOps \cup CtlOps \cup {"none"}, left : Nat]
        BY DEF TypeOK, TypeSess
      <4>4. ws_parser' \in [op : DataOps \cup CtlOps \cup {"none"}, left : Nat]
            /\ ws_parser'.op = ws_parser.op /\ ws_parser'.left = ws_parser.left - n
        BY <4>1, <4>2, <4>3
      <4>5. ws_parser'.op \in CtlOps => ws_parser'.left <= CtlMax
        <5>1. CtlMax \in Nat /\ ws_parser.left \in Nat
          BY <1>2, SizeAssumption
        <5> QED
          BY <2>2, <4>2, <4>4, <5>1
      <4> QED
        BY <4>4, <4>5
    <3> QED
      BY <3>1, <3>2
  <2>5. conn' = conn /\ t2c' = t2c
    BY DEF WsPayload
  <2>6. done + n <= Len(script)
    BY <1>2
  <2> HIDE DEF n
  <2> QED
    BY <1>1, <1>2, <2>1, <2>3, <2>4, <2>5, <2>6, MessageType
<1>4. TypeThread' /\ TypeNet'
  BY KeepThread, KeepNet DEF TypeOK, WsPayload
<1>5. TypeHistory'
  <2>1. done' \in Nat /\ done' <= csock.read
    BY <1>1, <1>2
  <2> QED
    BY <2>1 DEF TypeOK, WsPayload, TypeHistory, net
<1> QED
  BY <1>3, <1>4, <1>5 DEF TypeOK

\* A write takes no more than it was given and no more than there is room for.
LEMMA TakenType ==
  ASSUME NEW s \in SockType({"none", "syn", "open", "fin", "rst"}), NEW len \in Nat
  PROVE  /\ Taken(s, len) \in Nat /\ Taken(s, len) <= len
         /\ s.fill + Taken(s, len) \in 0..SndBuf
<1>1. SndBuf \in Nat /\ s.fill \in Nat /\ SndBuf - s.fill \in Nat
  BY SizeAssumption DEF SockType
<1>2. Taken(s, len) \in Nat /\ Taken(s, len) <= len /\ Taken(s, len) <= SndBuf - s.fill
  BY <1>1, MinSize DEF Taken
<1> QED
  BY <1>1, <1>2

\* Bytes left of the frame being sent.
LEMMA OutLeftType ==
  ASSUME TypeSess
  PROVE  /\ OutLeft(client_out) \in Nat
         /\ OutLeft(client_out) > 0 =>
              /\ client_out.op # "none"
              /\ OutLeft(client_out) = Len(client_out.pay) + 1 - client_out.pos
<1>1. Len(client_out.pay) \in Nat /\ client_out.pos \in Nat
      /\ client_out.pos <= Len(client_out.pay) + 1
  BY LenProperties DEF TypeSess
<1> QED
  BY <1>1 DEF OutLeft

\* What has not been sent of a frame is a sequence of bytes, at least as long
\* as the payload bytes a write of no more than the rest of the frame takes.
LEMMA UnsentType ==
  ASSUME TypeSess, client_out.op = "binary"
  PROVE  /\ Unsent(client_out) \in Seq(Nat)
         /\ Len(Unsent(client_out)) =
              IF client_out.pos = 0 THEN Len(client_out.pay)
              ELSE Len(client_out.pay) + 1 - client_out.pos
<1>1. /\ client_out.pay \in Seq(Nat) /\ Len(client_out.pay) \in Nat
      /\ client_out.pos \in Nat /\ client_out.pos <= Len(client_out.pay) + 1
  BY LenProperties DEF TypeSess
<1>2. CASE client_out.pos = 0
  <2>1. Unsent(client_out) = SubSeq(client_out.pay, 1, Len(client_out.pay))
    BY <1>2 DEF Unsent
  <2> QED
    BY <1>1, <1>2, <2>1, SubSeqFull
<1>3. CASE client_out.pos # 0
  <2> DEFINE m == client_out.pos - 1
  <2>1. m \in 0..Len(client_out.pay) /\ m + 1 = client_out.pos
    BY <1>1, <1>3
  <2>2. Unsent(client_out) = SubSeq(client_out.pay, m + 1, Len(client_out.pay))
    BY <1>3, <2>1 DEF Unsent
  <2> HIDE DEF m
  <2>3. /\ SubSeq(client_out.pay, m + 1, Len(client_out.pay)) \in Seq(Nat)
        /\ Len(SubSeq(client_out.pay, m + 1, Len(client_out.pay))) = Len(client_out.pay) - m
    BY <1>1, <2>1, CutSeq
  <2> QED
    BY <1>1, <1>3, <2>1, <2>2, <2>3, SMTT(30)
<1> QED
  BY <1>2, <1>3

LEMMA WriteClientType == ASSUME TypeOK, WriteClient PROVE TypeOK'
<1> DEFINE n == Taken(csock, OutLeft(client_out))
<1>1. /\ pc = "c_write" /\ OutLeft(client_out) > 0 /\ ops < WriteBudget /\ n > 0
      /\ DeliverToClient(n) /\ ops' = ops + 1
      /\ UNCHANGED <<conn, closing, pending_close, c2t, t2c, ws_parser, pc, events,
                     interest, batch, tsock, script, done, t_seen, reason>>
  BY DEF WriteClient
<1>2. TypeSess /\ TypeThread /\ TypeNet /\ TypeHistory
  BY DEF TypeOK
<1>3. /\ OutLeft(client_out) \in Nat
      /\ client_out.op # "none"
      /\ OutLeft(client_out) = Len(client_out.pay) + 1 - client_out.pos
  BY <1>1, <1>2, OutLeftType
<1>4. n \in Nat /\ n <= OutLeft(client_out) /\ csock.fill + n \in 0..SndBuf
  <2>1. csock \in SockType({"none", "syn", "open", "fin", "rst"})
    BY <1>2 DEF TypeNet, SockType
  <2> QED
    BY <1>3, <2>1, TakenType
<1> HIDE DEF n
<1>5. Len(client_out.pay) \in Nat /\ client_out.pos \in Nat
      /\ client_out \in [op : {"none", "http", "binary", "pong", "close"},
                         pay : Seq(Nat), pos : Nat]
  BY <1>2, LenProperties DEF TypeSess
<1>6. TypeSess'
  <2>1. client_out' = [client_out EXCEPT !.pos = client_out.pos + n]
    BY <1>1 DEF DeliverToClient
  <2>2. client_out.pos + n \in Nat /\ client_out.pos + n <= Len(client_out.pay) + 1
    BY <1>3, <1>4, <1>5
  <2>3. /\ client_out' \in [op : {"none", "http", "binary", "pong", "close"},
                            pay : Seq(Nat), pos : Nat]
        /\ client_out'.pos <= Len(client_out'.pay) + 1
    BY <1>5, <2>1, <2>2
  <2> QED
    BY <1>1, <1>2, <2>3 DEF TypeSess
<1>7. TypeThread'
  <2>1. ops' \in Nat /\ ops' <= WriteBudget
    BY <1>1, <1>2, SizeAssumption DEF TypeThread
  <2> QED
    BY <1>1, <1>2, <2>1 DEF TypeThread, Phases
<1>8. csock' = [csock EXCEPT !.fill = csock.fill + n]
  BY <1>1 DEF DeliverToClient
<1>9. TypeNet'
  BY <1>1, <1>2, <1>4, <1>8 DEF TypeNet, SockType
<1>10. TypeHistory'
  <2>1. c_seen' \in Seq(Nat)
    <3>1. CASE client_out.op = "binary"
      <4> DEFINE payload == IF client_out.pos = 0 THEN n - 1 ELSE n
      <4>1. /\ Unsent(client_out) \in Seq(Nat)
            /\ Len(Unsent(client_out)) =
                 IF client_out.pos = 0 THEN Len(client_out.pay)
                 ELSE Len(client_out.pay) + 1 - client_out.pos
        BY <1>2, <3>1, UnsentType
      <4>2. payload \in 0..Len(Unsent(client_out))
        BY <1>1, <1>3, <1>4, <1>5, <4>1
      <4>3. c_seen' = c_seen \o SubSeq(Unsent(client_out), 1, payload)
        BY <1>1, <3>1 DEF DeliverToClient
      <4> HIDE DEF payload
      <4>4. SubSeq(Unsent(client_out), 1, payload) \in Seq(Nat)
        BY <4>1, <4>2, CutSeq
      <4>5. c_seen \in Seq(Nat)
        BY <1>2 DEF TypeHistory
      <4> QED
        BY <4>3, <4>4, <4>5, ConcatProperties
    <3>2. CASE client_out.op # "binary"
      <4>1. c_seen' = c_seen \o <<>> /\ c_seen \in Seq(Nat)
        BY <1>1, <1>2, <3>2 DEF DeliverToClient, TypeHistory
      <4> QED
        BY <4>1, ConcatProperties, EmptyType
    <3> QED
      BY <3>1, <3>2
  <2>2. wire' \in [last : {"none", "http", "binary", "pong", "close"}, left : Nat, ok : BOOLEAN]
    <3>1. PICK b \in BOOLEAN :
            wire' = [last |-> client_out.op, left |-> OutLeft(client_out) - n, ok |-> b]
      <4> DEFINE b == /\ wire.ok
                      /\ IF client_out.pos = 0
                         THEN /\ wire.left = 0
                              /\ wire.last # "close"
                              /\ (wire.last = "none") = (client_out.op = "http")
                         ELSE wire.last = client_out.op /\ wire.left = OutLeft(client_out)
      <4>1. b \in BOOLEAN
        OBVIOUS
      <4>2. wire' = [last |-> client_out.op, left |-> OutLeft(client_out) - n, ok |-> b]
        BY <1>1 DEF DeliverToClient
      <4> QED
        BY <4>1, <4>2
    <3>2. OutLeft(client_out) - n \in Nat
      BY <1>3, <1>4
    <3> QED
      BY <1>5, <3>1, <3>2
  <2>3. csock'.read = csock.read
    BY <1>2, <1>8 DEF TypeNet, SockType
  <2> QED
    BY <1>1, <1>2, <2>1, <2>2, <2>3 DEF TypeHistory
<1> QED
  BY <1>6, <1>7, <1>9, <1>10 DEF TypeOK
LEMMA NextFrameType == ASSUME TypeOK, NextFrame PROVE TypeOK'
<1> DEFINE FType == [op : {"none", "http", "binary", "pong", "close"},
                     pay : Seq(Nat), pos : Nat]
<1>1. UNCHANGED <<conn, closing, c2t, ws_parser, batch, net, history>> /\ Return
  BY DEF NextFrame
<1>2. TypeSess /\ TypeThread /\ TypeNet /\ TypeHistory
  BY DEF TypeOK
<1>3. /\ client_out' \in FType /\ client_out'.pos <= Len(client_out'.pay) + 1
      /\ pending_close' \in [set : BOOLEAN, len : 0..CtlMax]
      /\ t2c' \in Seq(Nat) /\ Len(t2c') <= BufSize
  <2>1. /\ t2c \in Seq(Nat) /\ Len(t2c) \in Nat /\ Len(t2c) <= BufSize
        /\ BufSize \in Nat /\ Chunk \in Nat /\ CtlMax \in Nat
        /\ pending_close \in [set : BOOLEAN, len : 0..CtlMax]
    BY <1>2, LenProperties, SizeAssumption DEF TypeSess
  <2>2. CASE pending_close.set
    <3>1. /\ client_out' = Frame("close", Blank(pending_close.len))
          /\ pending_close' = NoClose /\ t2c' = t2c
      BY <2>2 DEF NextFrame
    <3>2. Blank(pending_close.len) \in Seq(Nat)
      BY <2>1, BlankSeq
    <3>3. /\ Frame("close", Blank(pending_close.len)) \in FType
          /\ Frame("close", Blank(pending_close.len)).pos
               <= Len(Frame("close", Blank(pending_close.len)).pay) + 1
      BY <3>2, FrameType
    <3>4. NoClose \in [set : BOOLEAN, len : 0..CtlMax]
      BY <2>1 DEF NoClose
    <3> QED
      BY <2>1, <3>1, <3>3, <3>4
  <2>3. CASE ~pending_close.set
    <3>1. PICK n \in 0..Len(t2c) : FrameChunk(n)
      <4>1. min_size(Chunk, Len(t2c)) \in 0..Len(t2c) /\ 0 \in 0..Len(t2c)
        <5>1. min_size(Chunk, Len(t2c)) \in Nat /\ min_size(Chunk, Len(t2c)) <= Len(t2c)
          BY <2>1, MinSize
        <5> QED
          BY <2>1, <5>1
      <4> QED
        BY <2>3, <4>1 DEF NextFrame
    <3>2. pending_close' = pending_close
      BY <2>3 DEF NextFrame
    <3>3. /\ SubSeq(t2c, 1, n) \in Seq(Nat)
          /\ t2c' \in Seq(Nat) /\ Len(t2c') = Len(t2c) - n
      BY <2>1, <3>1, CutSeq DEF FrameChunk
    <3>4. /\ Frame("binary", SubSeq(t2c, 1, n)) \in FType
          /\ Frame("binary", SubSeq(t2c, 1, n)).pos
               <= Len(Frame("binary", SubSeq(t2c, 1, n)).pay) + 1
      BY <3>3, FrameType
    <3>5. client_out' \in {Frame("binary", SubSeq(t2c, 1, n)), NoFrame}
      BY <3>1 DEF FrameChunk
    <3>6. NoFrame \in FType /\ NoFrame.pos <= Len(NoFrame.pay) + 1
      BY EmptyType
    <3> HIDE DEF FType
    <3>7. client_out' \in FType /\ client_out'.pos <= Len(client_out'.pay) + 1
      BY <3>4, <3>5, <3>6
    <3>8. Len(t2c') <= BufSize
      BY <2>1, <3>3
    <3> QED
      BY <2>1, <3>2, <3>3, <3>7, <3>8
  <2> QED
    BY <2>2, <2>3
<1>4. TypeSess'
  BY <1>1, <1>2, <1>3 DEF TypeSess
<1>5. TypeThread'
  BY <1>1, <1>2, <1>4, ReturnType
<1>6. TypeNet' /\ TypeHistory'
  BY <1>1, <1>2, KeepNet, KeepHistory DEF net
<1> QED
  BY <1>4, <1>5, <1>6 DEF TypeOK

\* A read of the target's socket.
LEMMA TargetReadType ==
  ASSUME TypeOK, NEW r \in TargetReads
  PROVE  /\ r.n \in Nat /\ r.pend \in Nat /\ r.n <= Chunk
         /\ tsock.read + r.n + r.pend <= tsock.arrived
         /\ pc = "t_read" /\ ~is_high(t2c) /\ ops + 1 <= ReadBudget
         /\ tsock.read \in Nat
<1>1. pc = "t_read" /\ ~TargetReadOver /\ r \in Reads(tsock, conn.target = "tls", Chunk)
  BY DEF TargetReads
<1>2. ops \in Nat /\ ops <= ReadBudget /\ ops # ReadBudget /\ ReadBudget \in Nat
  BY <1>1, SizeAssumption DEF TypeOK, TypeThread, TargetReadOver
<1>3. tsock \in SockType({"none", "syn", "open", "fin", "rst"})
      /\ tsock.read + tsock.pend <= tsock.arrived
      /\ Chunk \in Nat /\ (conn.target = "tls") \in BOOLEAN
  BY SizeAssumption DEF TypeOK, TypeNet
<1>4. /\ r.n \in Nat /\ r.pend \in Nat /\ r.n <= Chunk
      /\ tsock.read + r.n + r.pend <= tsock.arrived
  BY <1>1, <1>3, ReadsBound
<1>5. tsock.read \in Nat
  BY <1>3 DEF SockType
<1> QED
  BY <1>1, <1>2, <1>4, <1>5 DEF TargetReadOver

LEMMA ReadTargetType == ASSUME TypeOK, ReadTarget PROVE TypeOK'
<1>1. PICK r \in TargetReads :
        /\ r.n <= writable(t2c)
        /\ tsock' = [tsock EXCEPT !.read = tsock.read + r.n, !.pend = r.pend]
        /\ t2c' = t2c \o Numbered(tsock.read, r.n)
  BY DEF ReadTarget
<1>2. /\ r.n \in Nat /\ r.pend \in Nat
      /\ tsock.read + r.n + r.pend <= tsock.arrived
      /\ pc = "t_read" /\ ops + 1 <= ReadBudget /\ tsock.read \in Nat
  BY <1>1, TargetReadType
<1>3. UNCHANGED <<conn, closing, pending_close, c2t, client_out, ws_parser, pc, events,
                  interest, batch, csock, script, history>> /\ ops' = ops + 1
  BY DEF ReadTarget
<1>4. TypeSess'
  <2>1. t2c \in Seq(Nat) /\ Len(t2c) \in Nat /\ Len(t2c) <= BufSize /\ BufSize \in Nat
    BY LenProperties, SizeAssumption DEF TypeOK, TypeSess
  <2>2. Numbered(tsock.read, r.n) \in Seq(Nat) /\ Len(Numbered(tsock.read, r.n)) = r.n
    BY <1>2, NumberedSeq
  <2>3. t2c' \in Seq(Nat) /\ Len(t2c') = Len(t2c) + r.n
    <3>1. /\ t2c \o Numbered(tsock.read, r.n) \in Seq(Nat)
          /\ Len(t2c \o Numbered(tsock.read, r.n)) = Len(t2c) + Len(Numbered(tsock.read, r.n))
      BY <2>1, <2>2, ConcatProperties
    <3> QED
      BY <1>1, <2>2, <3>1
  <2>4. Len(t2c') <= BufSize
    BY <1>1, <1>2, <2>1, <2>3 DEF writable
  <2> QED
    BY <1>3, <2>3, <2>4 DEF TypeOK, TypeSess
<1>5. TypeThread'
  BY <1>2, <1>3 DEF TypeOK, TypeThread, Phases
<1>6. TypeNet'
  <2>1. tsock \in SockType({"none", "syn", "open", "fin", "rst"}) /\ tsock.arrived <= MaxTraffic
    BY DEF TypeOK, TypeNet
  <2>2. tsock.read + r.n \in Nat
    BY <1>2
  <2>3. tsock' \in SockType({"none", "syn", "open", "fin", "rst"})
        /\ tsock'.read = tsock.read + r.n /\ tsock'.pend = r.pend
        /\ tsock'.arrived = tsock.arrived
    BY <1>1, <1>2, <2>1, <2>2 DEF SockType
  <2> QED
    BY <1>2, <1>3, <2>1, <2>3 DEF TypeOK, TypeNet
<1>7. TypeHistory'
  BY <1>3, KeepHistory DEF TypeOK
<1> QED
  BY <1>4, <1>5, <1>6, <1>7 DEF TypeOK

LEMMA WriteTargetType == ASSUME TypeOK, WriteTarget PROVE TypeOK'
<1> DEFINE n == Taken(tsock, min_size(Chunk, Len(c2t)))
<1>1. /\ pc = "t_write" /\ ~TargetWriteOver
      /\ t_seen' = t_seen \o SubSeq(c2t, 1, n)
      /\ c2t' = SubSeq(c2t, n + 1, Len(c2t))
      /\ tsock' = [tsock EXCEPT !.fill = tsock.fill + n]
      /\ ops' = ops + 1
      /\ UNCHANGED <<conn, closing, pending_close, t2c, client_out, ws_parser, pc, events,
                     interest, batch, csock, script, done, c_seen, wire, reason>>
  BY DEF WriteTarget, ConsumeSent
<1>2. TypeSess /\ TypeThread /\ TypeNet /\ TypeHistory
  BY DEF TypeOK
<1>3. c2t \in Seq(Nat) /\ Len(c2t) \in Nat /\ Len(c2t) <= BufSize
      /\ BufSize \in Nat /\ Chunk \in Nat
  BY <1>2, LenProperties, SizeAssumption DEF TypeSess
<1>4. n \in 0..Len(c2t) /\ tsock.fill + n \in 0..SndBuf
  <2>1. min_size(Chunk, Len(c2t)) \in Nat /\ min_size(Chunk, Len(c2t)) <= Len(c2t)
    BY <1>3, MinSize
  <2>2. tsock \in SockType({"none", "syn", "open", "fin", "rst"})
    BY <1>2 DEF TypeNet
  <2>3. /\ n \in Nat /\ n <= min_size(Chunk, Len(c2t))
        /\ tsock.fill + n \in 0..SndBuf
    BY <2>1, <2>2, TakenType
  <2> QED
    BY <1>3, <2>1, <2>3
<1> HIDE DEF n
<1>5. /\ SubSeq(c2t, 1, n) \in Seq(Nat)
      /\ c2t' \in Seq(Nat) /\ Len(c2t') <= BufSize
  <2>1. /\ SubSeq(c2t, 1, n) \in Seq(Nat)
        /\ SubSeq(c2t, n + 1, Len(c2t)) \in Seq(Nat)
        /\ Len(SubSeq(c2t, n + 1, Len(c2t))) = Len(c2t) - n
    BY <1>3, <1>4, CutSeq
  <2>2. Len(c2t) - n <= BufSize
    BY <1>3, <1>4
  <2> QED
    BY <1>1, <2>1, <2>2
<1>6. TypeSess'
  BY <1>1, <1>2, <1>5, ZenonT(60) DEF TypeSess
<1>7. TypeThread'
  <2>1. ops \in Nat /\ ops <= WriteBudget /\ ops # WriteBudget /\ WriteBudget \in Nat
    BY <1>1, <1>2, SizeAssumption DEF TypeThread, TargetWriteOver
  <2>2. ops' \in Nat /\ ops' <= WriteBudget
    BY <1>1, <2>1
  <2> QED
    BY <1>1, <1>2, <2>2 DEF TypeThread, Phases
<1>8. TypeNet'
  BY <1>1, <1>2, <1>4 DEF TypeNet, SockType
<1>9. TypeHistory'
  <2>1. t_seen' \in Seq(Nat)
    BY <1>1, <1>2, <1>5, ConcatProperties DEF TypeHistory
  <2> QED
    BY <1>1, <1>2, <2>1 DEF TypeHistory
<1> QED
  BY <1>6, <1>7, <1>8, <1>9 DEF TypeOK

LEMMA PeerType == ASSUME TypeOK, PeerStep PROVE TypeOK'
<1>1. Concurrently
  BY DEF PeerStep, ClientArrives, ClientDrains, ClientLeaves, TargetAccepts,
         TargetSends, TargetDrains, TargetLeaves
<1>2. TypeSess' /\ TypeThread'
  BY <1>1, KeepSess, KeepThread DEF TypeOK, Concurrently
<1>3. TypeNet' /\ csock'.read = csock.read
  <2>1. /\ script' = script /\ script \in Scripts /\ Len(script) \in Nat
        /\ SndBuf \in Nat /\ MaxTraffic \in Nat
    BY <1>1, SizeAssumption, ScriptAssumption, LenProperties
       DEF TypeOK, TypeNet, IsScript, Concurrently
  <2>2. /\ csock \in SockType({"open", "fin", "rst"})
        /\ csock.arrived \in Nat /\ csock.read \in Nat /\ csock.pend \in Nat
        /\ csock.fill \in 0..SndBuf
        /\ csock.read + csock.pend <= csock.arrived /\ csock.arrived <= Len(script)
    BY DEF TypeOK, TypeNet, SockType
  <2>3. /\ tsock \in SockType({"none", "syn", "open", "fin", "rst"})
        /\ tsock.arrived \in Nat /\ tsock.read \in Nat /\ tsock.pend \in Nat
        /\ tsock.fill \in 0..SndBuf
        /\ tsock.read + tsock.pend <= tsock.arrived /\ tsock.arrived <= MaxTraffic
    BY DEF TypeOK, TypeNet, SockType
  <2>4. CASE ClientArrives
    <3>1. csock' = [csock EXCEPT !.arrived = csock.arrived + 1] /\ tsock' = tsock
          /\ csock.arrived < Len(script)
      BY <2>4 DEF ClientArrives
    <3>2. csock.arrived + 1 \in Nat /\ csock.arrived + 1 <= Len(script)
          /\ csock.read + csock.pend <= csock.arrived + 1
      BY <2>1, <2>2, <3>1
    <3> QED
      BY <2>1, <2>2, <2>3, <3>1, <3>2 DEF TypeNet, SockType
  <2>5. CASE ClientDrains
    <3>1. csock' = [csock EXCEPT !.fill = csock.fill - 1] /\ tsock' = tsock
          /\ csock.fill > 0
      BY <2>5 DEF ClientDrains
    <3>2. csock.fill - 1 \in 0..SndBuf
      BY <2>1, <2>2, <3>1
    <3> QED
      BY <2>1, <2>2, <2>3, <3>1, <3>2 DEF TypeNet, SockType
  <2>6. CASE ClientLeaves
    BY <2>1, <2>2, <2>3, <2>6 DEF ClientLeaves, TypeNet, SockType
  <2>7. CASE TargetAccepts
    BY <2>1, <2>2, <2>3, <2>7 DEF TargetAccepts, TypeNet, SockType
  <2>8. CASE TargetSends
    <3>1. tsock' = [tsock EXCEPT !.arrived = tsock.arrived + 1] /\ csock' = csock
          /\ tsock.arrived + Len(script) < MaxTraffic
      BY <2>8 DEF TargetSends
    <3>2. tsock.arrived + 1 \in Nat /\ tsock.arrived + 1 <= MaxTraffic
          /\ tsock.read + tsock.pend <= tsock.arrived + 1
      BY <2>1, <2>3, <3>1
    <3> QED
      BY <2>1, <2>2, <2>3, <3>1, <3>2 DEF TypeNet, SockType
  <2>9. CASE TargetDrains
    <3>1. tsock' = [tsock EXCEPT !.fill = tsock.fill - 1] /\ csock' = csock
          /\ tsock.fill > 0
      BY <2>9 DEF TargetDrains
    <3>2. tsock.fill - 1 \in 0..SndBuf
      BY <2>1, <2>3, <3>1
    <3> QED
      BY <2>1, <2>2, <2>3, <3>1, <3>2 DEF TypeNet, SockType
  <2>10. CASE TargetLeaves
    BY <2>1, <2>2, <2>3, <2>10 DEF TargetLeaves, TypeNet, SockType
  <2> QED
    BY <2>4, <2>5, <2>6, <2>7, <2>8, <2>9, <2>10 DEF PeerStep
<1>4. TypeHistory'
  BY <1>1, <1>3 DEF TypeOK, TypeHistory, Concurrently, history
<1> QED
  BY <1>2, <1>3, <1>4 DEF TypeOK

-----------------------------------------------------------------------------

LEMMA NextType == TypeOK /\ [Next]_vars => TypeOK'
<1> SUFFICES ASSUME TypeOK, [Next]_vars PROVE TypeOK'
  OBVIOUS
<1>1. CASE Closes
  BY <1>1, ClosesIsClose, CloseType
<1>2. CASE Wait
  BY <1>2, WaitType
<1>3. CASE ReadClientStops \/ ReadTargetStops \/ WriteClientStops \/ WriteTargetStops
  BY <1>3, StopsType
<1>4. CASE ClientTlsAgain \/ TargetTlsAgain
  BY <1>4, TlsAgainType
<1>5. CASE HandleClientEvent \/ HandleTargetEvent
  BY <1>5, HandleType
<1>6. CASE ReadFrames \/ ReadRequest \/ Upgrade
  BY <1>6, ReadFramesType, ReadRequestType, UpgradeType
<1>7. CASE WsDone \/ WsFull \/ WsHeader \/ WsEmptyFrame \/ WsPayload
  BY <1>7, WsDoneType, WsFullType, WsHeaderType, WsEmptyFrameType, WsPayloadType
<1>8. CASE WriteClient \/ NextFrame \/ ReadTarget \/ WriteTarget
  BY <1>8, WriteClientType, NextFrameType, ReadTargetType, WriteTargetType
<1>9. CASE PeerStep
  BY <1>9, PeerType
<1>10. CASE UNCHANGED vars
  BY <1>10, KeepSess, KeepThread, KeepNet, KeepHistory DEF TypeOK, vars, net
<1> QED
  BY <1>1, <1>2, <1>3, <1>4, <1>5, <1>6, <1>7, <1>8, <1>9, <1>10
     DEF Next, LoopStep, Closes

\* Every reachable state is well typed, for all buffer sizes, budgets, TLS
\* modes and scripts: session_process_ws_bytes and session_read_target never
\* store past buffer_size, session_write_client never sends past client_out_len,
\* and the three budgets of proxy.c bound the system calls of a handler.
THEOREM SessionTypeCorrect == Spec => []TypeOK
<1>1. Init => TypeOK
  BY InitType
<1>2. TypeOK /\ [Next]_vars => TypeOK'
  BY NextType
<1> QED
  BY <1>1, <1>2, PTL DEF Spec
=============================================================================
