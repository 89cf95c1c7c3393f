------------------------------- MODULE MCMirror -------------------------------
(***************************************************************************)
(* A finite instance of Mirror for TLC.                                     *)
(***************************************************************************)
EXTENDS Mirror

AllLevels == 0..3
=============================================================================
