------------------------------ MODULE MCRedrive ------------------------------
(***************************************************************************)
(* Finite instances of Redrive for TLC.                                     *)
(***************************************************************************)
EXTENDS Redrive, TLC

CONSTANTS p1, p2, m1, m2

LinkFaults == {"link"}
=============================================================================
