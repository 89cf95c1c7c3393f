----------------------------- MODULE KafkaChange -----------------------------
(***************************************************************************)
(* The two changes of the Kafka backend that go over several partitions:    *)
(* "group reset-offset" (kafka.go ResetOffset) and "topic purge"            *)
(* (PurgeTopic), up to the audit outcome of the command.                    *)
(*                                                                          *)
(* Each is a chain of requests to a cluster that goes on living: producers  *)
(* append, retention removes the oldest records, members join the group and *)
(* commit.  The last request changes all partitions at once and is answered *)
(* partition by partition; an answer may be missing, and the request itself *)
(* may fail after it took effect.                                           *)
(***************************************************************************)
EXTENDS OutcomeRecord, FiniteSets, Functions

CONSTANTS
  Partitions,   \* of the topic
  MaxOffset,    \* bound on the end of a log
  Requests      \* what is asked: [op, to, n]

Positions == {"earliest", "latest", "time", "offset", "shift"}
None == -1                        \* the group has no committed offset
Answers == {"ok", "refused", "missing"}
Reading == {"asked", "described", "fetched", "based", "started"}
Steps == Reading \cup {"planned", "answered", "ended"}

VARIABLES
  first, last,   \* the log of a partition: its oldest record, and its end
  committed,     \* the committed offset of the group
  members,       \* has the group members?
  request,       \* the request of the command
  step,          \* where the command is
  from, to,      \* PartitionImpact: what was read, and what will be asked for
  units,         \* the partitions of the result, 0 when there is none
  tally, error,  \* the BatchOutcome and error of the backend
  affected,      \* AffectedMessages of a purge
  goal,          \* ghost: where a reset is asked to put each partition
  unlisted,      \* ghost: the partitions whose entry in its listing has an error
  done,          \* ghost: the partitions the cluster has changed
  removed,       \* ghost: the records the purge has removed, for each partition
  outcome        \* the outcome record

cluster == <<first, last, committed, members>>
ghosts == <<done, removed>>
wanted == <<goal, unlisted>>
kafkaVars == <<cluster, request, step, from, to, units, tally, error, affected,
               wanted, ghosts, outcome>>

NoOutcome == Record("failed", Zero, 0, "none", "")
Larger(m, n) == IF m >= n THEN m ELSE n

Init ==
  /\ first \in [Partitions -> 0 .. MaxOffset]
  /\ last \in [Partitions -> 0 .. MaxOffset]
  /\ \A p \in Partitions : first[p] <= last[p]
  /\ request \in Requests
  /\ committed \in [Partitions -> {None} \cup 0 .. MaxOffset]
  /\ \A p \in Partitions : committed[p] <= last[p]
  /\ members \in BOOLEAN
  /\ request.op = "purge" => ~members /\ committed = [p \in Partitions |-> None]
  /\ step = "asked"
  /\ from = [p \in Partitions |-> 0] /\ to = [p \in Partitions |-> 0]
  /\ units = 0 /\ tally = Zero /\ error = "none" /\ affected = 0
  /\ goal = [p \in Partitions |-> 0] /\ unlisted = {}
  /\ done = {} /\ removed = [p \in Partitions |-> 0]
  /\ outcome = NoOutcome

-----------------------------------------------------------------------------
(***************************************************************************)
(* The cluster, before the command is done with it.                         *)
(***************************************************************************)
Alive == step \in Steps \ {"answered", "ended"}
Command == <<request, step, from, to, units, tally, error, affected, wanted, ghosts,
             outcome>>

Append(p) ==
  /\ Alive /\ last[p] < MaxOffset
  /\ last' = [last EXCEPT ![p] = @ + 1]
  /\ UNCHANGED <<first, committed, members, Command>>

Retain(p) ==
  /\ Alive /\ first[p] < last[p]
  /\ first' = [first EXCEPT ![p] = @ + 1]
  /\ UNCHANGED <<last, committed, members, Command>>

\* Members come and go; only members commit.
JoinOrLeave ==
  /\ Alive /\ request.op = "reset"
  /\ members' = ~members
  /\ UNCHANGED <<first, last, committed, Command>>

MemberCommits(p) ==
  /\ Alive /\ members
  /\ \E n \in Larger(committed[p], first[p]) .. last[p] :
       committed' = [committed EXCEPT ![p] = n]
  /\ UNCHANGED <<first, last, members, Command>>

-----------------------------------------------------------------------------
(***************************************************************************)
(* Reset: describe the group, read its offsets, read the target offsets.    *)
(***************************************************************************)
Resetting == request.op = "reset"
Purging == request.op = "purge"
Unwritten == <<cluster, request, units, tally, error, affected, ghosts, outcome>>

\* Any request before the last one may fail; a group with members is refused.
ReadFails ==
  /\ step \in Reading
  /\ step' = "answered" /\ error' = "error"
  /\ UNCHANGED <<cluster, request, from, to, units, tally, affected, wanted, ghosts,
                 outcome>>

\* ensureGroupInactive
DescribeGroup ==
  /\ Resetting /\ step = "asked" /\ ~members
  /\ step' = "described"
  /\ UNCHANGED <<Unwritten, from, to, wanted>>

\* offsetPlan, committedOffset: no commit counts as offset 0.
FetchCommitted ==
  /\ Resetting /\ step = "described"
  /\ from' = [p \in Partitions |-> IF committed[p] = None THEN 0 ELSE committed[p]]
  /\ step' = "fetched"
  /\ UNCHANGED <<Unwritten, to, wanted>>

\* shiftOffsets reads the offsets once more, and takes no commit as it is.
FetchAgain ==
  /\ Resetting /\ step = "fetched" /\ request.to = "shift"
  /\ to' = committed
  /\ step' = "based"
  /\ UNCHANGED <<Unwritten, from, wanted>>

\* targetOffsets, fixedOffsets, shiftOffsets
Targets ==
  CASE request.to = "earliest" -> {first}
    [] request.to = "latest" -> {last}
    [] request.to = "time" -> {t \in [Partitions -> 0 .. MaxOffset] :
                                 \A p \in Partitions : t[p] \in first[p] .. last[p]}
    [] request.to = "offset" -> {[p \in Partitions |-> request.n]}
    [] request.to = "shift" -> {[p \in Partitions |-> NotNegative(to[p] + request.n)]}

\* What these requests ask for does not depend on what is listed.
Listless == {"offset", "shift"}

\* Where the plan puts a partition: an entry with an error has offset -1, and the
\* partition stays where it was read, at 0 without a commit.
PlannedAt(p, t, u) == IF p \in u THEN from[p] ELSE t[p]

\* offsetPlan; a request that fails for a partition only does not fail the plan.
ListTargets ==
  /\ Resetting /\ step = IF request.to = "shift" THEN "based" ELSE "fetched"
  /\ goal' \in Targets
  /\ unlisted' \in SUBSET (IF request.to \in Listless THEN {} ELSE Partitions)
  /\ to' = [p \in Partitions |-> PlannedAt(p, goal', unlisted')]
  /\ step' = "planned"
  /\ UNCHANGED <<Unwritten, from>>

-----------------------------------------------------------------------------
(***************************************************************************)
(* Purge: list the start offsets, then the end offsets.                     *)
(***************************************************************************)
ListStart ==
  /\ Purging /\ step = "asked"
  /\ from' = first
  /\ step' = "started"
  /\ UNCHANGED <<Unwritten, to, wanted>>

ListEnd ==
  /\ Purging /\ step = "started"
  /\ to' = last
  /\ step' = "planned"
  /\ UNCHANGED <<Unwritten, from, wanted>>

-----------------------------------------------------------------------------
(***************************************************************************)
(* The last request.  The cluster takes an offset commit from outside only  *)
(* while the group has no members, and says of each partition what it did;  *)
(* a missing answer leaves it open.                                         *)
(***************************************************************************)
Answered(answer, a) == {p \in Partitions : answer[p] = a}

\* kafkaOffsetCommitOutcome, kafkaDeleteRecordsOutcome
Outcomes(answer) ==
  [succeeded |-> Cardinality(Answered(answer, "ok")),
   failed |-> Cardinality(Answered(answer, "refused")),
   uncertain |-> Cardinality(Answered(answer, "missing"))]

ErrorOf(t) == IF t.failed > 0 \/ t.uncertain > 0 THEN "error" ELSE "none"

\* What the cluster may have done when it answers so.
Effects(answer) ==
  {landed \in SUBSET Partitions :
     /\ Answered(answer, "ok") \subseteq landed
     /\ landed \cap Answered(answer, "refused") = {}
     /\ Resetting /\ members => landed = {}}

Answer(t, e) ==
  /\ units' = Cardinality(Partitions)
  /\ tally' = t /\ error' = e
  /\ step' = "answered"

CommitTo(landed) ==
  /\ done' = landed
  /\ committed' = [p \in Partitions |-> IF p \in landed THEN to[p] ELSE committed[p]]

\* commitOffsetPlan
CommitOffsets ==
  /\ Resetting /\ step = "planned"
  /\ \E answer \in [Partitions -> Answers] : \E landed \in Effects(answer) :
       /\ CommitTo(landed)
       /\ Answer(Outcomes(answer), ErrorOf(Outcomes(answer)))
  /\ UNCHANGED <<first, last, members, request, from, to, affected, wanted, removed,
                 outcome>>

\* The commit as a whole fails: nobody knows of any partition.
CommitLost ==
  /\ Resetting /\ step = "planned"
  /\ \E landed \in SUBSET Partitions :
       /\ members => landed = {}
       /\ CommitTo(landed)
  /\ Answer([Zero EXCEPT !.uncertain = Cardinality(Partitions)], "error")
  /\ UNCHANGED <<first, last, members, request, from, to, affected, wanted, removed,
                 outcome>>

\* Mutant: the low watermark counts as the last record that was deleted.
AffectedInclusive(answer) ==
  SumFunctionOnSet([p \in Partitions |->
                      IF first'[p] <= from[p] THEN 0 ELSE first'[p] - from[p] - 1],
                   Answered(answer, "ok"))

\* appliedDeleteRecordsImpact: from the start offset that was listed to the
\* low watermark in the answer.
Affected(answer) ==
  SumFunctionOnSet([p \in Partitions |->
                      IF first'[p] < from[p] THEN 0 ELSE first'[p] - from[p]],
                   Answered(answer, "ok"))

\* deleteRecords up to the end offsets that were listed; the request may also
\* report an error beside its answers.
DeleteRecords ==
  /\ Purging /\ step = "planned"
  /\ \E answer \in [Partitions -> Answers], lost \in BOOLEAN :
     \E landed \in Effects(answer) :
       /\ done' = landed
       /\ first' = [p \in Partitions |->
                      IF p \in landed THEN Larger(first[p], to[p]) ELSE first[p]]
       /\ removed' = [p \in Partitions |-> first'[p] - first[p]]
       /\ affected' = Affected(answer)
       /\ Answer(Outcomes(answer), IF lost THEN "error" ELSE ErrorOf(Outcomes(answer)))
  /\ UNCHANGED <<last, committed, members, request, from, to, wanted, outcome>>

-----------------------------------------------------------------------------
(***************************************************************************)
(* The outcome of the command (cmd/group.go, cmd/topic.go).                 *)
(***************************************************************************)
ResetOutcome ==
  IF Count(tally) > 0 THEN BatchOutcome(Count(tally), tally, error)
  ELSE BatchOutcome(IF error = "none" THEN units ELSE Larger(units, 1),
                    IF error = "none" THEN [Zero EXCEPT !.succeeded = units]
                                      ELSE [Zero EXCEPT !.failed = 1],
                    error)

\* purgeMutationOutcome
PurgeTally ==
  IF Count(tally) > 0 THEN tally
  ELSE [Zero EXCEPT !.succeeded = units, !.uncertain = IF error = "none" THEN 0 ELSE 1]

Finish ==
  /\ step = "answered"
  /\ step' = "ended"
  /\ outcome' = IF Resetting THEN ResetOutcome
                ELSE BatchOutcome(Count(PurgeTally), PurgeTally, error)
  /\ UNCHANGED <<cluster, request, from, to, units, tally, error, affected, wanted,
                 ghosts>>

Next ==
  \/ \E p \in Partitions : Append(p) \/ Retain(p) \/ MemberCommits(p)
  \/ JoinOrLeave
  \/ ReadFails
  \/ DescribeGroup \/ FetchCommitted \/ FetchAgain \/ ListTargets
  \/ ListStart \/ ListEnd
  \/ CommitOffsets \/ CommitLost \/ DeleteRecords
  \/ Finish

Spec == Init /\ [][Next]_kafkaVars

-----------------------------------------------------------------------------
(***************************************************************************)
(* Properties                                                               *)
(***************************************************************************)

\* Type invariant: no offset below zero is asked for.
TypeOK ==
  /\ first \in [Partitions -> Nat] /\ last \in [Partitions -> Nat]
  /\ committed \in [Partitions -> {None} \cup Nat]
  /\ members \in BOOLEAN
  /\ request \in Requests /\ step \in Steps
  /\ from \in [Partitions -> Nat] /\ to \in [Partitions -> Int]
  /\ step = "planned" => to \in [Partitions -> Nat]
  /\ units \in {0, Cardinality(Partitions)}
  /\ tally \in Tallies /\ error \in Errors
  /\ goal \in [Partitions -> Nat] /\ unlisted \subseteq Partitions
  /\ done \subseteq Partitions
  /\ outcome \in Outcome

\* Every partition the cluster changed is among the succeeded or uncertain ones
\* of the outcome, and every one counted as succeeded was changed
\* (kafka.go:860-890, 1066-1093): no missing answer and no lost request turns a
\* change into a failure.
ChangesCounted ==
  step = "ended" =>
    /\ Cardinality(done) <= outcome.succeeded + outcome.uncertain
    /\ outcome.succeeded <= Cardinality(done)

\* An outcome that says success says it of every partition: a reset has put the
\* group where it was asked to, but for a partition whose listing has an error,
\* which is where it was read (kafka.go:924-927); no record that was listed is
\* left after a purge.
SuccessIsComplete ==
  step = "ended" /\ outcome.status = "success" =>
    \A p \in Partitions :
      IF Resetting THEN committed[p] = PlannedAt(p, goal, unlisted)
                   ELSE first[p] >= to[p]

\* A purge that ends well reports at least the records it removed, whatever
\* retention removed meanwhile (kafka.go:1293-1315): what is on record never
\* understates the loss.
PurgeNeverUnderReports ==
  step = "ended" /\ Purging /\ outcome.status = "success" =>
    SumFunctionOnSet(removed, Partitions) <= affected

\* A reset that says success has put every partition where it was asked to:
\* CHANGELOG.md:70-71, "Batch operations now report bounded succeeded, failed,
\* and uncertain counts instead of treating partial backend results as complete
\* success".
ResetMeansMoved ==
  step = "ended" /\ Resetting /\ outcome.status = "success" => committed = goal

-----------------------------------------------------------------------------
(***************************************************************************)
(* The inductive invariant                                                  *)
(***************************************************************************)

\* A reset names a position, and none below zero (kafka.go:545-560).
KafkaAssumption ==
  /\ IsFiniteSet(Partitions) /\ MaxOffset \in Nat
  /\ Requests \subseteq [op : {"purge"}, to : {"none"}, n : {0}]
                          \cup [op : {"reset"}, to : Positions, n : Int]
  /\ \A r \in Requests : r.to = "offset" => r.n >= 0

\* Before the last request nothing is changed, removed or counted.
NothingYet ==
  /\ Alive => /\ done = {} /\ removed = [p \in Partitions |-> 0]
              /\ units = 0 /\ tally = Zero /\ error = "none"
  /\ step # "ended" => outcome = NoOutcome

\* The start of a log only moves away from where a purge has listed it.
StartListed ==
  Purging /\ step \in {"started", "planned"} =>
    \A p \in Partitions : from[p] <= first[p]

\* What was answered tells apart what the cluster may have changed: nothing was
\* asked of it, or each partition is counted once.
AnswerTrue ==
  step = "answered" =>
    \/ tally = Zero /\ units = 0 /\ error = "error" /\ done = {}
    \/ /\ units = Cardinality(Partitions) /\ Count(tally) = units
       /\ tally.succeeded <= Cardinality(done)
       /\ Cardinality(done) <= tally.succeeded + tally.uncertain

\* Without an error every partition was changed.
AllChanged ==
  ~Alive /\ error = "none" =>
    /\ \A p \in Partitions : IF Resetting THEN committed[p] = to[p] ELSE first[p] >= to[p]
    /\ Purging => SumFunctionOnSet(removed, Partitions) <= affected

\* What is committed is what was asked for, where that was listed.
PlanTrue ==
  Resetting /\ (step = "planned" \/ (~Alive /\ error = "none")) =>
    \A p \in Partitions : to[p] = PlannedAt(p, goal, unlisted)

\* A success is recorded only without an error.
RecordedTrue ==
  step = "ended" => ChangesCounted /\ (outcome.status = "success" => error = "none")

KafkaInv ==
  /\ TypeOK /\ NothingYet /\ StartListed /\ AnswerTrue /\ AllChanged /\ PlanTrue
  /\ RecordedTrue
=============================================================================
