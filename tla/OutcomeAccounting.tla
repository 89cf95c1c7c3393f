-------------------------- MODULE OutcomeAccounting --------------------------
(***************************************************************************)
(* What an operation says of itself in its audit outcome (OutcomeRecord):   *)
(* how the commands of cmd/ come to the counters they fill it from.         *)
(* A queued outcome that replay does not accept stays at the head of the    *)
(* queue for good, and no command may begin before it is replayed: so every *)
(* outcome that any command ends with has to be acceptable.                 *)
(*                                                                          *)
(* One operation runs: it takes its items one by one and stops, or not, at  *)
(* the first error; a change of contexts or credentials may be undone; then *)
(* the operation is counted.  Two counters no program has, "made" and       *)
(* "open", say how many items have surely, and perhaps, taken effect.       *)
(***************************************************************************)
EXTENDS OutcomeRecord

CONSTANTS
  MaxItems,    \* bound on the items of one operation
  NotCounted   \* the outcome of an operation that still runs

ASSUME MaxItemsAssumption == MaxItems \in Nat \ {0}

VARIABLES
  kind,      \* which command runs
  total,     \* the items it was planned with
  phase,     \* running, ended, counted
  tally,     \* its counters: mqgov.BatchOutcome, credentialMigrationProgress
  error,     \* the error it ended with, or none
  undoing,   \* what compensation came to: none, restored, kept or doubtful
  status,    \* compensationStatus
  made,      \* items that have taken effect
  open,      \* items that may have
  outcome    \* the outcome record

vars == <<kind, total, phase, tally, error, undoing, status, made, open, outcome>>

Stopping == {"mirror", "redrive"}       \* brokers, up to the first error
Credentialed == {"import", "migrate"}   \* context changes with compensation
Kinds == Stopping \cup Credentialed \cup
           {"fleet", "purge", "prune", "single", "refused"}

\* Metadata.Items of the intent: 0 when the command does not plan items, and
\* at least 1 for a read.
Items == CASE kind = "purge" -> 0
           [] kind = "fleet" /\ total = 0 -> 1
           [] OTHER -> total

-----------------------------------------------------------------------------
Init ==
  /\ kind \in Kinds
  /\ total \in 0 .. MaxItems
  /\ kind \in {"redrive", "import", "migrate", "prune"} => total > 0
  /\ kind = "single" => total <= 1
  /\ phase = "running"
  /\ tally = Zero /\ error = "none"
  /\ undoing = "none" /\ status = ""
  /\ made = 0 /\ open = 0
  /\ outcome = NotCounted

Left == phase = "running" /\ Count(tally) < total
Tallied(field) == tally' = [tally EXCEPT ![field] = @ + 1]
Stop(e) == phase' = "ended" /\ error' = e

\* A message is mirrored or redriven, a credential stored, a file deleted or a
\* context read.
ItemSucceeds ==
  /\ Left /\ kind \in Stopping \cup Credentialed \cup {"fleet", "prune"}
  /\ Tallied("succeeded")
  /\ made' = made + 1
  /\ UNCHANGED <<kind, total, phase, error, undoing, status, open, outcome>>

\* A broker refuses an item, or the source of a redrive cannot be read.
ItemFails ==
  /\ Left /\ kind \in Stopping
  /\ Tallied("failed")
  /\ Stop("error")
  /\ UNCHANGED <<kind, total, undoing, status, made, open, outcome>>

\* Nobody can say whether the broker took the item.
ItemUnclear ==
  /\ Left /\ kind \in Stopping
  /\ Tallied("uncertain")
  /\ open' = open + 1
  /\ Stop("error")
  /\ UNCHANGED <<kind, total, undoing, status, made, outcome>>

\* One context of a fleet fails; the others are still read.
ContextFails ==
  /\ Left /\ kind = "fleet"
  /\ Tallied("failed")
  /\ error' = "error"
  /\ UNCHANGED <<kind, total, phase, undoing, status, made, open, outcome>>

\* The last item is done, or the source of a redrive is empty; a redrive may
\* also fail before it has touched anything.
End ==
  /\ phase = "running" /\ kind \in Stopping \cup {"fleet", "prune"}
  /\ \/ (kind = "redrive" \/ Count(tally) = total) /\ Stop(error)
     \/ kind = "redrive" /\ Count(tally) = 0 /\ Stop("error")
  /\ UNCHANGED <<kind, total, tally, undoing, status, made, open, outcome>>

(***************************************************************************)
(* A credential is not stored, or the contexts are not written; a failed    *)
(* write may have been made.  The failure is then compensated or reconciled.*)
(***************************************************************************)
StoreFails ==
  /\ Left /\ kind \in Credentialed
  /\ \E writes \in BOOLEAN :   \* was anything written, or only looked up?
       /\ (Count(tally) > 0) => writes
       /\ open' = open + (IF writes THEN 1 ELSE 0)
       /\ undoing' = IF writes THEN "open" ELSE "none"
  /\ Tallied("failed")
  /\ Stop("error")
  /\ UNCHANGED <<kind, total, status, made, outcome>>

CommitFails ==
  /\ phase = "running" /\ kind \in Credentialed /\ Count(tally) = total
  /\ undoing' = "open"
  /\ Stop("error")
  /\ UNCHANGED <<kind, total, tally, status, made, open, outcome>>

CommitSucceeds ==
  /\ phase = "running" /\ kind \in Credentialed /\ Count(tally) = total
  /\ Stop("none")
  /\ UNCHANGED <<kind, total, tally, undoing, status, made, open, outcome>>

Undoing == phase = "ended" /\ undoing = "open"
Progress(t) == tally' = IF kind = "migrate" THEN t ELSE tally

Restored ==
  /\ Undoing
  /\ undoing' = "restored"
  /\ \/ status' = "succeeded"
     \/ kind = "import" /\ tally.failed = 0 /\ status' = ""  \* no credentials
  /\ made' = 0 /\ open' = 0
  /\ Progress(AfterSuccessful(tally))
  /\ UNCHANGED <<kind, total, phase, error, outcome>>

\* The contexts turn out to have been written.
Kept ==
  /\ Undoing /\ tally.failed = 0
  /\ undoing' = "kept" /\ status' = "not-safe"
  /\ UNCHANGED <<kind, total, phase, tally, error, made, open, outcome>>

\* Nothing is restored, or not all of it is.
Doubtful ==
  /\ Undoing
  /\ undoing' = "doubtful" /\ status' \in {"not-safe", "incomplete"}
  /\ made' = 0 /\ open' = open + made
  /\ Progress(AfterIncomplete(tally))
  /\ UNCHANGED <<kind, total, phase, error, outcome>>

\* audit prune stops: before it changed anything, at the release of the store
\* lock, or after deletions of which none is known to be durable.
PruneFails ==
  /\ phase = "running" /\ kind = "prune"
  /\ \/ (made = 0 \/ made = total) /\ UNCHANGED <<made, open, undoing>>
     \/ made' = 0 /\ open' = made /\ undoing' = "doubtful"
  /\ Stop("error")
  /\ UNCHANGED <<kind, total, tally, status, outcome>>

\* A backend purges partitions and reports them, or only that it failed.
Purge ==
  /\ phase = "running" /\ kind = "purge"
  /\ \E t \in [succeeded : 0 .. total, failed : 0 .. total, uncertain : 0 .. total] :
       /\ Count(t) = total
       /\ tally' = t
       /\ made' = t.succeeded /\ open' = t.uncertain
       /\ Stop(IF t.failed > 0 \/ t.uncertain > 0 THEN "error" ELSE "none")
  /\ UNCHANGED <<kind, total, undoing, status, outcome>>

PurgeFails ==
  /\ phase = "running" /\ kind = "purge"
  /\ open' \in {0, 1}
  /\ Stop("error")
  /\ UNCHANGED <<kind, total, tally, undoing, status, made, outcome>>

\* An operation on one resource; after an error it may have been done.
Operate ==
  /\ phase = "running" /\ kind = "single"
  /\ \/ Stop("none") /\ made' = 1 /\ UNCHANGED open
     \/ Stop("error") /\ open' \in {0, 1} /\ UNCHANGED made
  /\ UNCHANGED <<kind, total, tally, undoing, status, outcome>>

\* The operation is not started: nobody knows whether its intent is recorded.
Refuse ==
  /\ phase = "running" /\ kind = "refused"
  /\ Stop("error")
  /\ UNCHANGED <<kind, total, tally, undoing, status, made, open, outcome>>

Counted ==
  CASE kind = "mirror" -> BatchOutcome(total, tally, error)
    [] kind = "fleet" -> BatchOutcome(Items, tally, error)
    [] kind = "redrive" -> BatchOutcome(total, RedriveTally(tally, error), error)
    [] kind = "purge" ->
         LET t == RedriveTally(tally, error) IN BatchOutcome(Count(t), t, error)
    [] kind = "import" -> ImportOutcome(total, status, undoing = "doubtful", error)
    [] kind = "migrate" -> MigrateOutcome(total, tally, error, status)
    [] kind = "prune" ->
         PruneOutcome(total, tally.succeeded, undoing # "doubtful", error)
    [] kind = "single" -> SingleOutcome(error)
    [] kind = "refused" -> SkippedOutcome(Items)

Finish ==
  /\ phase = "ended" /\ undoing # "open"
  /\ phase' = "counted"
  /\ outcome' = Counted
  /\ UNCHANGED <<kind, total, tally, error, undoing, status, made, open>>

Halt == phase = "counted" /\ UNCHANGED vars

Next ==
  \/ ItemSucceeds \/ ItemFails \/ ItemUnclear \/ ContextFails \/ End
  \/ StoreFails \/ CommitFails \/ CommitSucceeds
  \/ Restored \/ Kept \/ Doubtful
  \/ PruneFails \/ Purge \/ PurgeFails \/ Operate \/ Refuse
  \/ Finish \/ Halt

Spec == Init /\ [][Next]_vars

-----------------------------------------------------------------------------
(***************************************************************************)
(* Properties                                                               *)
(***************************************************************************)

\* Type invariant: the variables hold values of their types, and no counter is
\* ever negative or above the items of the operation.
TypeOK ==
  /\ kind \in Kinds
  /\ total \in 0 .. MaxItems
  /\ phase \in {"running", "ended", "counted"}
  /\ tally \in Tallies /\ Count(tally) <= total
  /\ error \in Errors
  /\ undoing \in {"none", "open", "restored", "kept", "doubtful"}
  /\ status \in Compensations
  /\ made \in Nat /\ open \in Nat
  /\ outcome \in Outcome \cup {NotCounted}

\* Every outcome a command ends with passes the validation of queue replay
\* (mutation_audit.go:987-1100): no command can leave behind a record that
\* blocks all later ones.
OutcomeAccepted == phase = "counted" => Acceptable(Items, outcome)

\* What has taken effect, or may have, is reported as succeeded or uncertain:
\* neither a failed write that was made, nor a restore that failed, nor a lost
\* broker answer disappears among the failed and skipped items.  An operation
\* on one resource is left out: any error of it is counted as failed.
NothingHidden ==
  phase = "counted" /\ kind # "single" =>
    made + open <= outcome.succeeded + outcome.uncertain

\* What is reported as succeeded has taken effect and still has: it was not
\* undone by a compensation, and its durability is not in doubt.
NothingInvented == phase = "counted" => outcome.succeeded <= made
=============================================================================
