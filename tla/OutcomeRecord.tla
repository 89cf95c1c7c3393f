---------------------------- MODULE OutcomeRecord ----------------------------
(***************************************************************************)
(* The outcome record of an operation: what it holds, what the replay of a  *)
(* queued outcome accepts (cmd/mutation_audit.go,                           *)
(* validateMutationSpoolRecord), and how each kind of command fills it from *)
(* its counters and its error.  Operators only; OutcomeAccounting and the   *)
(* modules of the backends' changes use them.                               *)
(***************************************************************************)
EXTENDS Integers

Errors == {"none", "error"}
Compensations == {"", "succeeded", "incomplete", "not-safe"}
Outcome == [status : {"success", "failed", "partial"}, succeeded : Nat, failed : Nat,
            skipped : Nat, uncertain : Nat, error : Errors,
            compensation : Compensations]

Count(t) == t.succeeded + t.failed + t.uncertain
Tallies == [succeeded : Nat, failed : Nat, uncertain : Nat]
Zero == [succeeded |-> 0, failed |-> 0, uncertain |-> 0]

-----------------------------------------------------------------------------
(***************************************************************************)
(* validateMutationSpoolRecord: the counts, the status and the compensation.*)
(***************************************************************************)
CountsMatch(items, o) ==
  items > 0 => o.succeeded + o.failed + o.skipped + o.uncertain = items

StatusMatches(o) ==
  /\ o.status = "success" => /\ o.failed = 0 /\ o.uncertain = 0
                             /\ o.error = "none" /\ o.compensation = ""
  /\ o.status = "failed" => o.succeeded = 0
  /\ o.status = "partial" => /\ o.succeeded > 0
                             /\ o.failed > 0 \/ o.uncertain > 0 \/ o.error # "none"

CompensationMatches(o) ==
  /\ o.compensation = "succeeded" => o.uncertain = 0
  /\ o.compensation = "incomplete" => o.uncertain > 0
  /\ o.compensation = "not-safe" => o.succeeded > 0 \/ o.uncertain > 0

Acceptable(items, o) ==
  CountsMatch(items, o) /\ StatusMatches(o) /\ CompensationMatches(o)

-----------------------------------------------------------------------------
(***************************************************************************)
(* The outcomes the commands end with.                                      *)
(***************************************************************************)
\* Mutant: nothing keeps it from falling below zero.
Unclamped(n) == n

NotNegative(n) == IF n < 0 THEN 0 ELSE n

Record(s, t, skipped, e, c) ==
  [status |-> s, succeeded |-> t.succeeded, failed |-> t.failed, skipped |-> skipped,
   uncertain |-> t.uncertain, error |-> e, compensation |-> c]

\* finishBatchMutationAuditWithOutcome and persistReadAuditBatch.
BatchStatus(t, e) ==
  IF t.failed > 0 \/ t.uncertain > 0 \/ e # "none"
    THEN IF t.succeeded > 0 THEN "partial" ELSE "failed"
    ELSE "success"

BatchOutcome(n, t, e) ==
  Record(BatchStatus(t, e), t, NotNegative(n - Count(t)), e, "")

\* dlq redrive: nothing reported and an error is one item nobody knows about.
RedriveTally(t, e) == IF Count(t) = 0 /\ e # "none" THEN [t EXCEPT !.uncertain = 1] ELSE t

\* normalizeMutationAuditOutcome of an operation on one resource.
SingleOutcome(e) ==
  IF e = "none" THEN Record("success", [Zero EXCEPT !.succeeded = 1], 0, e, "")
                ELSE Record("failed", [Zero EXCEPT !.failed = 1], 0, e, "")

\* finishContextImportAudit: ctx set and ctx import.
ImportOutcome(n, c, doubtful, e) ==
  CASE e = "none" -> Record("success", [Zero EXCEPT !.succeeded = n], 0, e, c)
    [] e # "none" /\ (doubtful \/ c = "incomplete") ->
         Record("failed", [Zero EXCEPT !.uncertain = n], 0, e, c)
    [] e # "none" /\ ~doubtful /\ c = "not-safe" ->
         Record("partial", [Zero EXCEPT !.succeeded = n], 0, e, c)
    [] OTHER ->
         Record("failed", [Zero EXCEPT !.failed = 1], NotNegative(n - 1), e, c)

\* Mutant: what was stored before the error keeps counting as succeeded.
AfterFailureOnly(t) == t

\* Mutant: the write that failed stays a failure although it may have been made.
AfterIncompleteStored(t) ==
  [t EXCEPT !.uncertain = @ + t.succeeded, !.succeeded = 0]

\* afterSuccessfulCompensation and afterIncompleteCompensation.
AfterSuccessful(t) == [t EXCEPT !.failed = @ + t.succeeded, !.succeeded = 0]
AfterIncomplete(t) ==
  [t EXCEPT !.uncertain = @ + t.succeeded + t.failed, !.succeeded = 0, !.failed = 0]

MigrateOutcome(n, t, e, c) ==
  Record(IF e = "none" THEN "success" ELSE IF t.succeeded > 0 THEN "partial" ELSE "failed",
         t, NotNegative(n - Count(t)), e, c)

\* auditPruneMutationOutcome.
PruneTally(n, deleted, durable, e) ==
  [succeeded |-> IF e # "none" /\ ~durable THEN 0 ELSE deleted,
   failed |-> IF e # "none" /\ deleted < n THEN 1 ELSE 0,
   uncertain |-> IF e # "none" /\ ~durable THEN deleted ELSE 0]

\* Mutant: the file at which the deletion stopped counts as skipped as well.
PruneSkippedTwice(n, deleted, e) == n - deleted

PruneSkipped(n, deleted, e) ==
  IF e # "none" /\ deleted < n THEN n - deleted - 1 ELSE n - deleted

PruneOutcome(n, deleted, durable, e) ==
  Record(CASE e = "none" -> "success"
           [] e # "none" /\ durable /\ deleted > 0 -> "partial"
           [] OTHER -> "failed",
         PruneTally(n, deleted, durable, e), PruneSkipped(n, deleted, e), e, "")

\* beginMutationAudit, when the intent may be in the log and may not.
SkippedOutcome(items) ==
  Record("failed", Zero, IF items > 0 THEN items ELSE 1, "error", "")
=============================================================================
