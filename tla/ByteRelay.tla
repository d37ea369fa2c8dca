----------------------------- MODULE ByteRelay -----------------------------
(***************************************************************************)
(* What a session promises its two peers: two bounded, lossless, in-order  *)
(* pipes that are closed together and for good.  Bytes are numbered in the *)
(* order in which they enter a pipe.                                       *)
(***************************************************************************)
EXTENDS Naturals, Sequences

CONSTANTS UpCapacity, DownCapacity

VARIABLES up, up_out,      \* bytes in the pipe to the target, bytes out of it
          down, down_out,  \* the same towards the client
          state            \* "upgrading", "relaying" or "closed"

vars == <<up, up_out, down, down_out, state>>

Numbers(from, n) == [i \in 1..n |-> from + i]

Init ==
  /\ up = <<>> /\ up_out = <<>> /\ down = <<>> /\ down_out = <<>>
  /\ state = "upgrading"

Upgrade ==
  /\ state = "upgrading" /\ state' = "relaying"
  /\ UNCHANGED <<up, up_out, down, down_out>>

\* The next n bytes enter a pipe that has room for them.
Enter(pipe, out, capacity, n) ==
  /\ state = "relaying" /\ n > 0 /\ Len(pipe) + n <= capacity
  /\ pipe' = pipe \o Numbers(Len(out) + Len(pipe), n)
  /\ UNCHANGED <<out, state>>

\* The oldest n bytes leave it.
Leave(pipe, out, n) ==
  /\ state = "relaying" /\ n > 0
  /\ out' = out \o SubSeq(pipe, 1, n)
  /\ pipe' = SubSeq(pipe, n + 1, Len(pipe))
  /\ UNCHANGED state

\* Both pipes are cut; what they held is gone.
Close ==
  /\ state # "closed" /\ state' = "closed"
  /\ up' = <<>> /\ down' = <<>>
  /\ UNCHANGED <<up_out, down_out>>

Next ==
  \/ Upgrade \/ Close
  \/ /\ UNCHANGED <<down, down_out>>
     /\ \/ \E n \in 1..UpCapacity : Enter(up, up_out, UpCapacity, n)
        \/ \E n \in 1..Len(up) : Leave(up, up_out, n)
  \/ /\ UNCHANGED <<up, up_out>>
     /\ \/ \E n \in 1..DownCapacity : Enter(down, down_out, DownCapacity, n)
        \/ \E n \in 1..Len(down) : Leave(down, down_out, n)

Spec == Init /\ [][Next]_vars
=============================================================================
