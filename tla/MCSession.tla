------------------------------ MODULE MCSession ------------------------------
(* Small client scripts for TLC runs of Session.                             *)
EXTENDS SessionProperties, FiniteSets

Tok(k, op, len) == [k |-> k, op |-> op, len |-> len]
Req == <<Tok("req", "none", 0), Tok("end", "none", 0)>>
Hdr(op, len) == <<Tok("hdr", op, len)>>
Payload(k, n) == [i \in 1..n |-> Tok(k, "none", 0)]
Data(op, len) == Hdr(op, len) \o Payload("dat", len)
Ctl(op, len) == Hdr(op, len) \o Payload("ctl", len)

\* The tokens with their data bytes numbered.
Script(s) ==
  [i \in 1..Len(s) |->
     [k |-> s[i].k, op |-> s[i].op, len |-> s[i].len,
      off |-> Cardinality({j \in 1..i : s[j].k = "dat"})]]

\* Mostly from the client: data split over frames, control frames in between.
\* Mostly from the target: a ping and a CLOSE to be answered meanwhile.
RelayScripts ==
  {Script(Req \o Data("binary", 4) \o Ctl("ping", 1) \o Data("text", 1) \o Ctl("close", 0)),
   Script(Req \o Data("binary", 5) \o Ctl("pong", 0) \o Data("continuation", 2)),
   Script(Req \o Ctl("ping", 1) \o Ctl("close", 1))}

\* Requests and frames that are refused, and frames for a buffer smaller than
\* what is read at once.
FaultScripts ==
  {Script(<<Tok("req", "none", 0), Tok("badend", "none", 0)>>),
   Script(Payload("req", 6) \o Req),
   Script(Req \o Data("binary", 1) \o <<Tok("badhdr", "none", 0)>>),
   Script(Req \o Ctl("ping", 0) \o Data("text", 1) \o Ctl("close", 0)),
   Script(Req \o Data("binary", 3)),
   Script(Req \o Data("binary", 1) \o Ctl("ping", 2)),
   Script(Req \o Ctl("close", 1))}

\* For liveness: data that reaches the high-water mark, a ping, a CLOSE.
LiveScripts ==
  {Script(Req \o Data("binary", 2)),
   Script(Req \o Ctl("ping", 0)),
   Script(Req \o Ctl("close", 1))}

\* Data in several TLS records.
TlsScripts == {Script(Req \o Data("binary", 4))}
=============================================================================
