------------------------------ MODULE MCServer ------------------------------
(* TLC instance of Server.                                                   *)
EXTENDS ServerProperties, TLC

CONSTANTS c1, c2, c3, c4

\* Clients are interchangeable; used for the safety runs only.
Symmetry == Permutations(Client)
=============================================================================
