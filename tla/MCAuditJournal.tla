--------------------------- MODULE MCAuditJournal ---------------------------
(***************************************************************************)
(* Finite instances of AuditJournal for TLC.                                *)
(***************************************************************************)
EXTENDS AuditJournalRefinement, TLC

CONSTANTS o1, o2, n1

\* Operations that are not notes are interchangeable.
Symmetry == Permutations(Ops \ Notes)
=============================================================================
