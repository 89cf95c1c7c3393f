----------------------- MODULE AuditJournalRefinement -----------------------
(***************************************************************************)
(* The journal implements AuditContract: what is owed is what the spool and *)
(* the quarantine hold, and an operation has its answer when it has left    *)
(* the queue for the last time.  A dead operation is told nothing.          *)
(***************************************************************************)
EXTENDS AuditJournal

KindOf(phase) == IF phase = "skipped" THEN "outcome" ELSE phase

recordedBar == {<<log[i].op, KindOf(log[i].phase)>> : i \in 1..Len(log)}
owedBar == {e.op : e \in Queued}
toldBar ==
  [o \in Ops |->
     IF pc[o] # "done" THEN "pending"
     ELSE IF answer[o] \in {"ok", "kept"} THEN answer[o] ELSE "error"]

Contract == INSTANCE AuditContract
  WITH recorded <- recordedBar, owed <- owedBar, told <- toldBar

\* Every step of the journal is a step of the contract or changes nothing of
\* what it speaks about.
ImplementsContract == Contract!Spec

\* What the mapping needs beyond JournalInv: an operation whose outcome is logged
\* does not run again, and a note that is told "ok" is logged.
OverOf(o) ==
  /\ Logged(o, "outcome") => /\ task[o] \in {"finish", "emergency"}
                             /\ pc[o] \in {"release", "done", "crashed"}
  /\ task[o] = "note" /\ answer[o] = "ok" => Logged(o, "note")

RefinementInv == JournalInv /\ \A o \in Ops : OverOf(o)
=============================================================================
