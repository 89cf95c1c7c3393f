--------------------------- MODULE CommandsProofs ---------------------------
(***************************************************************************)
(* Proofs about AllCommands, for every value of its constants: its          *)
(* inductive invariant, the properties that follow from it, and what a step *)
(* may never do.  The steps of the single commands are BackendProofs,       *)
(* OutcomeAccountingProofs and, for the journal, AuditJournalProofs.        *)
(***************************************************************************)
EXTENDS BackendProofs

QuietJournal == INSTANCE AuditJournalProofs
                  WITH Notes <- {}, Faults <- Failures \ {"crash", "remove", "quarantine"}

-----------------------------------------------------------------------------
(***************************************************************************)
(* The journal without the failures that log a record twice: the proofs are *)
(* those of AuditJournalProofs, about an instance with the same values.     *)
(***************************************************************************)

\* The two instances have the same definitions.
LEMMA QuietSame ==
  /\ Quiet!Init <=> QuietJournal!Init
  /\ [Quiet!Next]_(Quiet!vars) <=> [QuietJournal!Next]_(QuietJournal!vars)
  /\ Quiet!QuietInv <=> QuietJournal!QuietInv
<1>1. Quiet!Init <=> QuietJournal!Init
  BY DEF Quiet!Init, QuietJournal!Init
<1>2. UNCHANGED Quiet!vars <=> UNCHANGED QuietJournal!vars
  BY DEF Quiet!vars, QuietJournal!vars, Quiet!store, QuietJournal!store
<1>3. Quiet!Next <=> QuietJournal!Next
  BY DEF Quiet!Start, QuietJournal!Start, Quiet!EnterQueue,
         QuietJournal!EnterQueue, Quiet!QueueUnavailable,
         QuietJournal!QueueUnavailable, Quiet!LockLeft, QuietJournal!LockLeft,
         Quiet!ListSpool, QuietJournal!ListSpool, Quiet!ListRejected,
         QuietJournal!ListRejected, Quiet!ValidSequences,
         QuietJournal!ValidSequences, Quiet!ReplayAppend,
         QuietJournal!ReplayAppend, Quiet!ReplayReadFails,
         QuietJournal!ReplayReadFails, Quiet!RemoveReplayed,
         QuietJournal!RemoveReplayed, Quiet!RemoveFails,
         QuietJournal!RemoveFails, Quiet!MarkIndeterminate,
         QuietJournal!MarkIndeterminate, Quiet!MarkFails,
         QuietJournal!MarkFails, Quiet!AppendIntent,
         QuietJournal!AppendIntent, Quiet!AppendOutcome,
         QuietJournal!AppendOutcome, Quiet!AppendNote,
         QuietJournal!AppendNote, Quiet!Replayed, QuietJournal!Replayed,
         Quiet!NextSequence, QuietJournal!NextSequence,
         Quiet!NextSequenceFails, QuietJournal!NextSequenceFails,
         Quiet!CommitSpoolFile, QuietJournal!CommitSpoolFile,
         Quiet!SpoolFileFails, QuietJournal!SpoolFileFails, Quiet!SpoolEntry,
         QuietJournal!SpoolEntry, Quiet!Unspooled, QuietJournal!Unspooled,
         Quiet!LastSequence, QuietJournal!LastSequence, Quiet!MaxRecord,
         QuietJournal!MaxRecord, Quiet!Behind, QuietJournal!Behind,
         Quiet!Sequences, QuietJournal!Sequences, Quiet!Queued,
         QuietJournal!Queued, Quiet!LeaveQueue, QuietJournal!LeaveQueue,
         Quiet!ReleaseFails, QuietJournal!ReleaseFails, Quiet!Operate,
         QuietJournal!Operate, Quiet!Crash, QuietJournal!Crash, Quiet!Reclaim,
         QuietJournal!Reclaim, Quiet!Halt, QuietJournal!Halt, Quiet!Finished,
         QuietJournal!Finished, Quiet!Move, QuietJournal!Move, Quiet!Step,
         QuietJournal!Step, Quiet!Next, QuietJournal!Next, Quiet!Goto,
         QuietJournal!Goto, Quiet!Tell, QuietJournal!Tell, Quiet!ReplayFailed,
         QuietJournal!ReplayFailed, Quiet!AppendRecord,
         QuietJournal!AppendRecord, Quiet!MayExist, QuietJournal!MayExist,
         Quiet!Results, QuietJournal!Results, Quiet!HeadOf,
         QuietJournal!HeadOf, Quiet!vars, QuietJournal!vars, Quiet!store,
         QuietJournal!store
<1>4. Quiet!QuietInv <=> QuietJournal!QuietInv
  BY DEF Quiet!QuietInv, QuietJournal!QuietInv, Quiet!JournalInv,
         QuietJournal!JournalInv, Quiet!OnceInv, QuietJournal!OnceInv,
         Quiet!TypeOK, QuietJournal!TypeOK, Quiet!LockInv,
         QuietJournal!LockInv, Quiet!NumberInv, QuietJournal!NumberInv,
         Quiet!EntryInv, QuietJournal!EntryInv, Quiet!ReplayInv,
         QuietJournal!ReplayInv, Quiet!HandleInv, QuietJournal!HandleInv,
         Quiet!HandleOf, QuietJournal!HandleOf, Quiet!AnswerInv,
         QuietJournal!AnswerInv, Quiet!AnswerOf, QuietJournal!AnswerOf,
         Quiet!OnceOf, QuietJournal!OnceOf, Quiet!LoggedOnce,
         QuietJournal!LoggedOnce, Quiet!Logged, QuietJournal!Logged,
         Quiet!Paired, QuietJournal!Paired, Quiet!HeadOf, QuietJournal!HeadOf,
         Quiet!Queued, QuietJournal!Queued, Quiet!Locked, QuietJournal!Locked,
         Quiet!Record, QuietJournal!Record, Quiet!Entry, QuietJournal!Entry,
         Quiet!Labels, QuietJournal!Labels, Quiet!Tasks, QuietJournal!Tasks,
         Quiet!Phases, QuietJournal!Phases, Quiet!Answers,
         QuietJournal!Answers
<1> QED
  BY <1>1, <1>2, <1>3, <1>4

LEMMA QuietInitially == Quiet!Init => Quiet!QuietInv
<1>1. QuietJournal!JournalAssumption
  BY CommandsAssumption DEF QuietJournal!JournalAssumption, QuietJournal!AllFaults,
                            Journal!AllFaults
<1> QED
  BY <1>1, QuietSame, QuietJournal!QuietInit

LEMMA QuietSteps ==
  ASSUME Quiet!QuietInv, [Quiet!Next]_(Quiet!vars)
  PROVE  Quiet!QuietInv'
<1>1. QuietJournal!JournalAssumption
  BY CommandsAssumption DEF QuietJournal!JournalAssumption, QuietJournal!AllFaults,
                            Journal!AllFaults
<1>2. (Failures \ {"crash", "remove", "quarantine"}) \cap {"crash", "remove", "quarantine"} = {}
  OBVIOUS
<1>3. QuietJournal!QuietInv'
  BY <1>1, <1>2, QuietSame, QuietJournal!QuietSteps
<1>4. QuietJournal!QuietInv' => Quiet!QuietInv'
  BY QuietSame, PTL
<1> QED
  BY <1>3, <1>4

-----------------------------------------------------------------------------
(***************************************************************************)
(* audit prune: from the lock on, the policy is the one that was authorized, *)
(* and the target is as it was listed unless another command touched it.    *)
(***************************************************************************)
LEMMA PruneCardinality ==
  \A S : Prune!Cardinality(S) = Cardinality(S)
BY DEF Prune!Cardinality, Cardinality, Prune!IsFiniteSet, IsFiniteSet

\* The outcome of a prune counts what was deleted, as succeeded or uncertain.
LEMMA PruneOutcomes ==
  ASSUME NEW n \in Nat, NEW d \in 0 .. n, NEW durable \in BOOLEAN,
         NEW e \in Prune!Errors
  PROVE  LET o == Prune!PruneOutcome(n, d, durable, e) IN
         /\ o \in Prune!Outcome
         /\ d <= o.succeeded + o.uncertain /\ o.succeeded <= d
<1> DEFINE t == Prune!PruneTally(n, d, durable, e)
           s == CASE e = "none" -> "success"
                  [] e # "none" /\ durable /\ d > 0 -> "partial"
                  [] OTHER -> "failed"
           o == Prune!PruneOutcome(n, d, durable, e)
<1>1. /\ t.succeeded \in Nat /\ t.failed \in Nat /\ t.uncertain \in Nat
      /\ d <= t.succeeded + t.uncertain /\ t.succeeded <= d
  BY DEF Prune!PruneTally
<1>2. Prune!PruneSkipped(n, d, e) \in Nat
  BY DEF Prune!PruneSkipped
<1>3. s \in {"success", "failed", "partial"}
  OBVIOUS
<1>4. o = [status |-> s, succeeded |-> t.succeeded, failed |-> t.failed,
           skipped |-> Prune!PruneSkipped(n, d, e), uncertain |-> t.uncertain,
           error |-> e, compensation |-> ""]
  BY DEF Prune!PruneOutcome, Prune!Record
<1> HIDE DEF t, s, o
<1>5. o.succeeded = t.succeeded /\ o.uncertain = t.uncertain
  BY <1>4
<1>6. o \in Prune!Outcome
  BY <1>1, <1>2, <1>3, <1>4 DEF Prune!Outcome, Prune!Compensations
<1> QED
  BY <1>1, <1>5, <1>6 DEF o

LEMMA PruneNoOutcome ==
  /\ Prune!NoOutcome \in Prune!Outcome
  /\ Prune!NoOutcome.succeeded = 0 /\ Prune!NoOutcome.uncertain = 0
BY DEF Prune!NoOutcome, Prune!Outcome, Prune!Record, Prune!Zero, Prune!Errors,
       Prune!Compensations

\* What a command plans to delete, and deletes, is finite.
LEMMA PruneFinite ==
  ASSUME Prune!PruneAssumption, Prune!TypeOK, NEW p \in Pruners
  PROVE  /\ Prune!Candidates(p) \subseteq listing[p]
         /\ Cardinality(Prune!Candidates(p)) \in Nat
         /\ Cardinality(deleted[p]) \in 0 .. Cardinality(Prune!Candidates(p))
<1>1. Prune!Candidates(p) \subseteq listing[p]
  BY DEF Prune!Candidates
<1>2. IsFiniteSet(1 .. MaxFile)
  BY FS_Interval DEF Prune!PruneAssumption
<1>3. IsFiniteSet(Prune!Candidates(p))
  BY <1>1, <1>2, FS_Subset DEF Prune!TypeOK
<1>4. IsFiniteSet(deleted[p]) /\ Cardinality(deleted[p]) <= Cardinality(Prune!Candidates(p))
  BY <1>3, FS_Subset DEF Prune!TypeOK
<1> QED
  BY <1>1, <1>3, <1>4, FS_CardinalityType

LEMMA PruneInit ==
  ASSUME Prune!PruneAssumption
  PROVE  Prune!Init => Prune!PruneInv
<1> SUFFICES ASSUME Prune!Init PROVE Prune!PruneInv
  OBVIOUS
<1> USE DEF Prune!Init
<1>1. Prune!TypeOK
  <2>1. rotated \in [Prune!Logs -> SUBSET (1 .. MaxFile)]
        /\ newest \in [Prune!Logs -> 0 .. MaxFile]
    BY DEF Prune!PruneAssumption
  <2> QED
    BY <2>1, PruneNoOutcome DEF Prune!TypeOK, Prune!Steps, Prune!Faults
<1>2. /\ Prune!LockHeld /\ Prune!Authorized /\ Prune!ListedOrTouched
      /\ Prune!NothingYet /\ Prune!NotSelfDisturbed /\ Prune!ChangesCounted
  BY DEF Prune!LockHeld, Prune!Authorized, Prune!ListedOrTouched, Prune!NothingYet,
         Prune!NotSelfDisturbed, Prune!ChangesCounted, Prune!Holding, Prune!Planning
<1> QED
  BY <1>1, <1>2 DEF Prune!PruneInv

\* A log rotates.
LEMMA PruneRotates ==
  ASSUME Prune!PruneAssumption, Prune!TypeOK, NEW l \in Prune!Logs, Prune!Rotate(l)
  PROVE  /\ rotated' \in [Prune!Logs -> SUBSET (1 .. MaxFile)]
         /\ newest' \in [Prune!Logs -> 0 .. MaxFile]
         /\ l # "target" => rotated'["target"] = rotated["target"]
<1>1. newest' = [newest EXCEPT ![l] = @ + 1] /\ newest[l] < MaxFile
      /\ rotated' = [rotated EXCEPT ![l] = @ \cup {newest'[l]}]
  BY DEF Prune!Rotate
<1>2. newest'[l] \in 1 .. MaxFile /\ newest' \in [Prune!Logs -> 0 .. MaxFile]
  BY <1>1 DEF Prune!TypeOK, Prune!PruneAssumption
<1> QED
  BY <1>1, <1>2 DEF Prune!TypeOK, Prune!Logs

\* An append of a prune command is to the control log, and disturbs nobody.
LEMMA PruneAppends ==
  ASSUME Prune!PruneAssumption, Prune!TypeOK, NEW p \in Pruners, Prune!AppendRecord(p)
  PROVE  /\ rotated' \in [Prune!Logs -> SUBSET (1 .. MaxFile)]
         /\ newest' \in [Prune!Logs -> 0 .. MaxFile]
         /\ rotated'["target"] = rotated["target"]
         /\ touched' = touched
<1>1. CASE UNCHANGED <<rotated, newest, touched>>
  BY <1>1 DEF Prune!TypeOK
<1>2. CASE /\ Prune!Rotate("control")
           /\ touched' = [q \in Pruners |-> touched[q] \/ (q # p /\ "control" = "target")]
  <2>1. touched' = [q \in Pruners |-> touched[q]]
    BY <1>2 DEF Prune!TypeOK
  <2> QED
    BY <1>2, <2>1, PruneRotates DEF Prune!TypeOK, Prune!Logs
<1> QED
  BY <1>1, <1>2 DEF Prune!AppendRecord, Prune!ControlLog, Prune!logs

\* The other commands: they log, and they change the policy.
LEMMA PruneOthers ==
  ASSUME Prune!PruneAssumption, Prune!PruneInv,
         Prune!ChangePolicy \/ \E l \in Prune!Logs : Prune!RotateByOthers(l)
  PROVE  Prune!PruneInv'
<1> USE DEF Prune!PruneInv
<1>0. UNCHANGED <<selector, pc, listing, approved, error, started, deleted, outcome, lock>>
  BY DEF Prune!ChangePolicy, Prune!RotateByOthers, Prune!Command
<1>c. \A p \in Pruners : Prune!Candidates(p)' = Prune!Candidates(p)
  BY <1>0 DEF Prune!Candidates
<1>1. CASE Prune!ChangePolicy
  <2>1. lock = NoOne /\ policy' \in Policies /\ UNCHANGED <<rotated, newest, touched>>
    BY <1>1 DEF Prune!ChangePolicy, Prune!logs
  <2>2. Prune!TypeOK'
    BY <1>0, <1>c, <2>1 DEF Prune!TypeOK
  <2>3. Prune!LockHeld'
    BY <1>0, <2>1 DEF Prune!LockHeld, Prune!PruneAssumption
  <2>4. /\ Prune!Authorized' /\ Prune!ListedOrTouched' /\ Prune!NothingYet'
        /\ Prune!NotSelfDisturbed' /\ Prune!ChangesCounted'
    BY <1>0, <2>1
       DEF Prune!Authorized, Prune!ListedOrTouched, Prune!NothingYet,
           Prune!NotSelfDisturbed, Prune!ChangesCounted
  <2> QED
    BY <2>2, <2>3, <2>4
<1>2. ASSUME NEW l \in Prune!Logs, Prune!RotateByOthers(l)
      PROVE  Prune!PruneInv'
  <2>1. /\ rotated' \in [Prune!Logs -> SUBSET (1 .. MaxFile)]
        /\ newest' \in [Prune!Logs -> 0 .. MaxFile]
        /\ l # "target" => rotated'["target"] = rotated["target"]
    BY <1>2, PruneRotates DEF Prune!RotateByOthers
  <2>2. touched' = [p \in Pruners |-> touched[p] \/ l = "target"] /\ policy' = policy
    BY <1>2 DEF Prune!RotateByOthers
  <2>3. touched' \in [Pruners -> BOOLEAN]
    BY <2>2
  <2>4. Prune!TypeOK'
    BY <1>0, <1>c, <2>1, <2>2, <2>3 DEF Prune!TypeOK
  <2>5. Prune!LockHeld' /\ Prune!Authorized' /\ Prune!NothingYet' /\ Prune!ChangesCounted'
    BY <1>0, <2>2
       DEF Prune!LockHeld, Prune!Authorized, Prune!NothingYet, Prune!ChangesCounted
  <2>6. Prune!NotSelfDisturbed' /\ Prune!ListedOrTouched'
    <3>1. \A p \in Pruners : touched[p] \/ l = "target" => touched'[p]
      BY <2>2
    <3> QED
      BY <1>0, <2>1, <3>1 DEF Prune!NotSelfDisturbed, Prune!ListedOrTouched
  <2> QED
    BY <2>4, <2>5, <2>6
<1> QED
  BY <1>1, <1>2

\* The steps of a command: what they leave to the others.
LEMMA PruneFrame ==
  ASSUME Prune!PruneAssumption, Prune!TypeOK, NEW p \in Pruners,
         \/ Prune!Plan(p) \/ Prune!Authorize(p) \/ Prune!NothingToDo(p) \/ Prune!Enter(p)
         \/ Prune!Validate(p) \/ Prune!LogIntent(p) \/ Prune!Delete(p) \/ Prune!Unlock(p)
         \/ Prune!Finish(p)
  PROVE  /\ selector' = selector /\ policy' = policy
         /\ \A q \in Pruners \ {p} :
              /\ pc'[q] = pc[q] /\ listing'[q] = listing[q] /\ approved'[q] = approved[q]
              /\ error'[q] = error[q] /\ started'[q] = started[q]
              /\ deleted'[q] = deleted[q] /\ outcome'[q] = outcome[q]
              /\ Prune!Candidates(q)' = Prune!Candidates(q)
<1> SUFFICES /\ selector' = selector /\ policy' = policy
             /\ \A q \in Pruners \ {p} :
                  /\ pc'[q] = pc[q] /\ listing'[q] = listing[q]
                  /\ approved'[q] = approved[q]
                  /\ error'[q] = error[q] /\ started'[q] = started[q]
                  /\ deleted'[q] = deleted[q] /\ outcome'[q] = outcome[q]
  BY DEF Prune!Candidates
<1> USE DEF Prune!TypeOK, Prune!Goto, Prune!Fail, Prune!LeaveEarly, Prune!Unplanned,
            Prune!Result, Prune!Remove
<1>1. CASE Prune!Plan(p) \/ Prune!Authorize(p) \/ Prune!NothingToDo(p)
  BY <1>1 DEF Prune!Plan, Prune!Authorize, Prune!NothingToDo
<1>2. CASE Prune!Enter(p)
  BY <1>2 DEF Prune!Enter
<1>3. CASE Prune!Validate(p) \/ Prune!LogIntent(p)
  BY <1>3 DEF Prune!Validate, Prune!LogIntent
<1>4. CASE Prune!Delete(p)
  BY <1>4 DEF Prune!Delete
<1>5. CASE Prune!Unlock(p) \/ Prune!Finish(p)
  BY <1>5 DEF Prune!Unlock, Prune!Finish
<1> QED
  BY <1>1, <1>2, <1>3, <1>4, <1>5

\* The types, after a step of a command.
LEMMA PruneTypes ==
  ASSUME Prune!PruneAssumption, Prune!PruneInv, NEW p \in Pruners,
         \/ Prune!Plan(p) \/ Prune!Authorize(p) \/ Prune!NothingToDo(p) \/ Prune!Enter(p)
         \/ Prune!Validate(p) \/ Prune!LogIntent(p) \/ Prune!Delete(p) \/ Prune!Unlock(p)
         \/ Prune!Finish(p)
  PROVE  Prune!TypeOK'
<1>0. Prune!TypeOK /\ Prune!NothingYet
  BY DEF Prune!PruneInv
<1>1. /\ policy' = policy /\ selector' = selector
      /\ \A q \in Pruners \ {p} :
              /\ listing'[q] = listing[q] /\ outcome'[q] = outcome[q]
              /\ deleted'[q] = deleted[q] /\ Prune!Candidates(q)' = Prune!Candidates(q)
  BY <1>0, PruneFrame
<1>2. /\ Prune!Candidates(p) \subseteq listing[p]
      /\ deleted[p] \subseteq Prune!Candidates(p) /\ outcome[p] \in Prune!Outcome
      /\ listing[p] \subseteq 1 .. MaxFile
  BY <1>0, PruneFinite DEF Prune!TypeOK
<1>3. SUFFICES
        /\ rotated' \in [Prune!Logs -> SUBSET (1 .. MaxFile)]
        /\ newest' \in [Prune!Logs -> 0 .. MaxFile]
        /\ lock' \in Pruners \cup {NoOne} /\ pc' \in [Pruners -> Prune!Steps]
        /\ approved' \in [Pruners -> Policies] /\ error' \in [Pruners -> Prune!Faults]
        /\ started' \in [Pruners -> BOOLEAN] /\ touched' \in [Pruners -> BOOLEAN]
        /\ listing' \in [Pruners -> SUBSET (1 .. MaxFile)]
        /\ deleted' \in [Pruners -> SUBSET (1 .. MaxFile)]
        /\ outcome' \in [Pruners -> Prune!Outcome]
        /\ deleted'[p] \subseteq Prune!Candidates(p)'
  BY <1>0, <1>1 DEF Prune!TypeOK
<1>4. listing' = listing => Prune!Candidates(p)' = Prune!Candidates(p)
  BY <1>1 DEF Prune!Candidates
<1> USE DEF Prune!TypeOK, Prune!Goto, Prune!Fail, Prune!LeaveEarly, Prune!Unplanned,
            Prune!Result, Prune!Steps, Prune!Faults, Prune!logs
<1>5. CASE Prune!Plan(p)
  <2>1. deleted[p] = {} /\ deleted' = deleted /\ outcome' = outcome
    BY <1>0, <1>5 DEF Prune!Plan, Prune!NothingYet, Prune!Planning
  <2>2. listing' = [listing EXCEPT ![p] = rotated["target"]]
        /\ rotated["target"] \in SUBSET (1 .. MaxFile)
    BY <1>0, <1>5 DEF Prune!Plan, Prune!Logs
  <2>3. listing' \in [Pruners -> SUBSET (1 .. MaxFile)]
    BY <1>0, <2>2
  <2> QED
    BY <1>0, <1>2, <1>5, <2>1, <2>3 DEF Prune!Plan
<1>6. CASE Prune!Authorize(p) \/ Prune!NothingToDo(p)
  BY <1>0, <1>2, <1>4, <1>6 DEF Prune!Authorize, Prune!NothingToDo
<1>7. CASE Prune!Enter(p)
  BY <1>0, <1>2, <1>4, <1>7 DEF Prune!Enter
<1>8. CASE Prune!Validate(p)
  BY <1>0, <1>2, <1>4, <1>8 DEF Prune!Validate
<1>9. CASE Prune!LogIntent(p)
  <2>1. /\ rotated' \in [Prune!Logs -> SUBSET (1 .. MaxFile)]
        /\ newest' \in [Prune!Logs -> 0 .. MaxFile]
        /\ touched' = touched
    BY <1>0, <1>9, PruneAppends DEF Prune!LogIntent
  <2> QED
    BY <1>0, <1>2, <1>4, <1>9, <2>1 DEF Prune!LogIntent
<1>10. CASE Prune!Delete(p)
  <2>1. \/ \E fs \in SUBSET Prune!Candidates(p) : Prune!Remove(p, fs)
        \/ UNCHANGED <<rotated, deleted, touched>>
    BY <1>10 DEF Prune!Delete, Prune!Oldest
  <2>2. /\ rotated' \in [Prune!Logs -> SUBSET (1 .. MaxFile)]
        /\ touched' \in [Pruners -> BOOLEAN]
        /\ deleted' \in [Pruners -> SUBSET (1 .. MaxFile)]
        /\ deleted'[p] \subseteq Prune!Candidates(p)
    <3>1. CASE UNCHANGED <<rotated, deleted, touched>>
      BY <1>0, <1>2, <3>1
    <3>2. ASSUME NEW fs \in SUBSET Prune!Candidates(p), Prune!Remove(p, fs)
          PROVE  /\ rotated' \in [Prune!Logs -> SUBSET (1 .. MaxFile)]
                 /\ touched' \in [Pruners -> BOOLEAN]
                 /\ deleted' \in [Pruners -> SUBSET (1 .. MaxFile)]
                 /\ deleted'[p] \subseteq Prune!Candidates(p)
      <4>1. /\ rotated' = [rotated EXCEPT !["target"] = @ \ fs]
            /\ deleted' = [deleted EXCEPT ![p] = fs]
            /\ touched' = [q \in Pruners |-> touched[q] \/ (q # p /\ fs # {})]
        BY <3>2 DEF Prune!Remove
      <4>2. fs \in SUBSET (1 .. MaxFile)
        BY <1>2
      <4> QED
        BY <1>0, <4>1, <4>2 DEF Prune!Logs
    <3> QED
      BY <2>1, <3>1, <3>2
  <2>3. error' \in [Pruners -> Prune!Faults] /\ started' \in [Pruners -> BOOLEAN]
    BY <1>0, <1>10 DEF Prune!Delete
  <2>4. /\ pc' = [pc EXCEPT ![p] = "deleted"]
        /\ UNCHANGED <<newest, policy, lock, selector, listing, approved, outcome>>
    BY <1>10 DEF Prune!Delete
  <2> QED
    BY <1>0, <1>2, <1>4, <2>2, <2>3, <2>4
<1>11. CASE Prune!Unlock(p)
  BY <1>0, <1>2, <1>4, <1>11 DEF Prune!Unlock
<1>12. CASE Prune!Finish(p)
  <2>1. /\ rotated' \in [Prune!Logs -> SUBSET (1 .. MaxFile)]
        /\ newest' \in [Prune!Logs -> 0 .. MaxFile]
        /\ touched' = touched
    BY <1>0, <1>12, PruneAppends DEF Prune!Finish
  <2>2. outcome' \in [Pruners -> Prune!Outcome]
    <3>1. outcome' = [outcome EXCEPT ![p] =
             Prune!PruneOutcome(Prune!Cardinality(Prune!Candidates(p)),
                                Prune!Cardinality(deleted[p]), ~started[p],
                                IF error[p] = "none" THEN "none" ELSE "error")]
      BY <1>12 DEF Prune!Finish
    <3>2. /\ Prune!Cardinality(Prune!Candidates(p)) \in Nat
          /\ Prune!Cardinality(deleted[p])
               \in 0 .. Prune!Cardinality(Prune!Candidates(p))
          /\ (~started[p]) \in BOOLEAN
          /\ (IF error[p] = "none" THEN "none" ELSE "error") \in Prune!Errors
      BY <1>0, PruneFinite, PruneCardinality DEF Prune!Errors
    <3>3. Prune!PruneOutcome(Prune!Cardinality(Prune!Candidates(p)),
                             Prune!Cardinality(deleted[p]), ~started[p],
                             IF error[p] = "none" THEN "none" ELSE "error")
            \in Prune!Outcome
      BY <3>2, PruneOutcomes
    <3> QED
      BY <1>0, <3>1, <3>3
  <2> QED
    BY <1>0, <1>2, <1>4, <1>12, <2>1, <2>2 DEF Prune!Finish
<1> QED
  BY <1>5, <1>6, <1>7, <1>8, <1>9, <1>10, <1>11, <1>12

\* Before the lock: the listing, the policy that is found, and the lock itself.
LEMMA PrunePlans ==
  ASSUME Prune!PruneAssumption, Prune!PruneInv, NEW p \in Pruners,
         Prune!Plan(p) \/ Prune!Authorize(p) \/ Prune!NothingToDo(p) \/ Prune!Enter(p)
  PROVE  Prune!PruneInv'
<1>0. /\ Prune!TypeOK /\ Prune!LockHeld /\ Prune!Authorized /\ Prune!ListedOrTouched
      /\ Prune!NothingYet /\ Prune!NotSelfDisturbed /\ Prune!ChangesCounted
  BY DEF Prune!PruneInv
<1>1. /\ policy' = policy
      /\ \A q \in Pruners \ {p} :
              /\ pc'[q] = pc[q] /\ listing'[q] = listing[q] /\ approved'[q] = approved[q]
              /\ error'[q] = error[q] /\ started'[q] = started[q]
              /\ deleted'[q] = deleted[q] /\ outcome'[q] = outcome[q]
  BY <1>0, PruneFrame
<1>2. Prune!TypeOK'
  BY PruneTypes
<1>3. /\ pc[p] \in {"asked", "planned", "authorized"} /\ rotated' = rotated
      /\ started' = started /\ deleted' = deleted /\ outcome' = outcome
      /\ error' = error \/ (pc'[p] = "ended" /\ error'[p] = "error")
      /\ touched' = touched \/ (Prune!Plan(p) /\ touched' = [touched EXCEPT ![p] = FALSE])
      /\ pc'[p] \in {"planned", "authorized", "locked", "ended"}
  BY <1>0
     DEF Prune!TypeOK, Prune!Plan, Prune!Authorize, Prune!NothingToDo, Prune!Enter,
         Prune!Goto, Prune!Fail, Prune!logs, Prune!Unplanned, Prune!Result
<1>4. /\ deleted[p] = {} /\ ~started[p] /\ error[p] = "none"
      /\ outcome[p] = Prune!NoOutcome
  BY <1>0, <1>3 DEF Prune!NothingYet, Prune!Planning
<1>5. Prune!NothingYet'
  <2>1. ASSUME NEW q \in Pruners
        PROVE  /\ pc'[q] \in Prune!Planning =>
                    deleted'[q] = {} /\ ~started'[q] /\ error'[q] = "none"
               /\ pc'[q] # "ended" => outcome'[q] = Prune!NoOutcome
    <3>1. CASE q = p
      BY <1>3, <1>4, <3>1 DEF Prune!Planning
    <3>2. CASE q # p
      BY <1>0, <1>1, <3>2 DEF Prune!NothingYet
    <3> QED
      BY <3>1, <3>2
  <2> QED
    BY <2>1 DEF Prune!NothingYet, Prune!NoOutcome, Prune!Record, Prune!Zero
<1>6. Prune!ChangesCounted'
  <2>1. ASSUME NEW q \in Pruners, pc'[q] = "ended"
        PROVE  /\ Cardinality(deleted'[q]) <= outcome'[q].succeeded + outcome'[q].uncertain
               /\ outcome'[q].succeeded <= Cardinality(deleted'[q])
    <3>1. CASE q = p
      BY <1>3, <1>4, <3>1, PruneNoOutcome, FS_EmptySet
    <3>2. CASE q # p
      BY <1>0, <1>1, <2>1, <3>2, PruneCardinality DEF Prune!ChangesCounted
    <3> QED
      BY <3>1, <3>2
  <2> QED
    BY <2>1, PruneCardinality DEF Prune!ChangesCounted
<1>7. Prune!NotSelfDisturbed'
  BY <1>0, <1>1, <1>3, <1>4 DEF Prune!NotSelfDisturbed, Prune!TypeOK
<1>8. Prune!ListedOrTouched'
  <2>1. ASSUME NEW q \in Pruners, pc'[q] \in Prune!Planning \ {"asked"}
        PROVE  rotated["target"] = listing'[q] \/ touched'[q]
    <3>1. CASE q # p
      BY <1>0, <1>1, <1>3, <2>1, <3>1 DEF Prune!ListedOrTouched, Prune!TypeOK
    <3>2. CASE q = p /\ Prune!Plan(p)
      BY <1>0, <3>2 DEF Prune!Plan, Prune!TypeOK
    <3>3. CASE q = p /\ ~Prune!Plan(p)
      <4>1. pc[p] \in {"planned", "authorized"} /\ listing' = listing
        BY <3>3
           DEF Prune!Authorize, Prune!NothingToDo, Prune!Enter, Prune!Unplanned
      <4> QED
        BY <1>0, <1>3, <3>3, <4>1 DEF Prune!ListedOrTouched, Prune!Planning
    <3> QED
      BY <3>1, <3>2, <3>3
  <2> QED
    BY <1>3, <2>1 DEF Prune!ListedOrTouched
<1>9. Prune!Authorized' /\ Prune!LockHeld'
  <2>1. CASE Prune!Enter(p)
    <3>1. approved' = approved /\ pc'[p] \in {"locked", "ended"}
          /\ (lock' = lock \/ lock = NoOne)
          /\ (pc'[p] = "locked" => lock' = p /\ approved[p] = policy)
          /\ pc[p] = "authorized"
      BY <1>0, <2>1
         DEF Prune!Enter, Prune!Goto, Prune!Fail, Prune!SamePolicy, Prune!TypeOK
    <3>2. approved[p] \in Permits
      BY <1>0, <3>1 DEF Prune!Authorized
    <3>3. \A q \in Pruners \ {p} : pc[q] \in Prune!Holding => lock # NoOne
      BY <1>0 DEF Prune!LockHeld, Prune!PruneAssumption
    <3>4. Prune!Authorized'
      BY <1>0, <1>1, <3>1 DEF Prune!Authorized
    <3> QED
      BY <1>0, <1>1, <3>1, <3>2, <3>3, <3>4 DEF Prune!LockHeld, Prune!Holding
  <2>2. CASE ~Prune!Enter(p)
    <3>1. /\ lock' = lock /\ pc'[p] \in {"planned", "authorized", "ended"}
          /\ pc'[p] = "authorized" => approved'[p] \in Permits
      BY <1>0, <2>2
         DEF Prune!Plan, Prune!Authorize, Prune!NothingToDo, Prune!Goto, Prune!TypeOK
    <3> QED
      BY <1>0, <1>1, <3>1 DEF Prune!LockHeld, Prune!Authorized, Prune!Holding
  <2> QED
    BY <2>1, <2>2
<1> QED
  BY <1>2, <1>5, <1>6, <1>7, <1>8, <1>9 DEF Prune!PruneInv

\* Under the lock: the command checks, logs its intent, deletes and unlocks.
LEMMA PruneLocked ==
  ASSUME Prune!PruneAssumption, Prune!PruneInv, NEW p \in Pruners,
         Prune!Validate(p) \/ Prune!LogIntent(p) \/ Prune!Delete(p) \/ Prune!Unlock(p)
  PROVE  Prune!PruneInv'
<1>0. /\ Prune!TypeOK /\ Prune!LockHeld /\ Prune!Authorized /\ Prune!ListedOrTouched
      /\ Prune!NothingYet /\ Prune!NotSelfDisturbed /\ Prune!ChangesCounted
  BY DEF Prune!PruneInv
<1>1. /\ policy' = policy
      /\ \A q \in Pruners \ {p} :
              /\ pc'[q] = pc[q] /\ listing'[q] = listing[q] /\ approved'[q] = approved[q]
              /\ error'[q] = error[q] /\ started'[q] = started[q]
              /\ deleted'[q] = deleted[q] /\ outcome'[q] = outcome[q]
  BY <1>0, PruneFrame
<1>2. Prune!TypeOK'
  BY PruneTypes
<1>3. /\ pc[p] \in Prune!Holding /\ approved' = approved /\ listing' = listing
      /\ outcome' = outcome
      /\ pc'[p] \in {"checked", "intent", "deleted", "unlocked", "ended"}
      /\ pc'[p] \in Prune!Holding => lock' = lock
      /\ lock' \in {lock, NoOne}
  BY <1>0
     DEF Prune!TypeOK, Prune!Validate, Prune!LogIntent, Prune!Delete, Prune!Unlock,
         Prune!Goto, Prune!Fail, Prune!LeaveEarly, Prune!Holding, Prune!Unplanned,
         Prune!Result
<1>4. \A q \in Pruners : touched[q] => touched'[q]
  <2>1. CASE Prune!LogIntent(p)
    BY <1>0, <2>1, PruneAppends DEF Prune!LogIntent
  <2>2. CASE Prune!Delete(p)
    BY <2>2 DEF Prune!Delete, Prune!Remove
  <2>3. CASE Prune!Validate(p) \/ Prune!Unlock(p)
    BY <2>3 DEF Prune!Validate, Prune!Unlock
  <2> QED
    BY <2>1, <2>2, <2>3
<1>5. rotated'["target"] # rotated["target"] =>
        pc'[p] = "deleted" /\ \A q \in Pruners \ {p} : touched'[q]
  <2>1. CASE Prune!LogIntent(p)
    BY <1>0, <2>1, PruneAppends DEF Prune!LogIntent, Prune!logs
  <2>2. CASE Prune!Validate(p) \/ Prune!Unlock(p)
    BY <2>2 DEF Prune!Validate, Prune!Unlock, Prune!logs
  <2>3. CASE Prune!Delete(p)
    <3>1. CASE UNCHANGED rotated
      BY <3>1
    <3>2. ASSUME NEW fs, Prune!Remove(p, fs)
          PROVE  /\ fs # {} => \A q \in Pruners \ {p} : touched'[q]
                 /\ fs = {} => rotated'["target"] = rotated["target"]
      BY <1>0, <3>2 DEF Prune!Remove, Prune!TypeOK, Prune!Logs
    <3>3. pc'[p] = "deleted"
      BY <1>0, <2>3 DEF Prune!Delete, Prune!Goto, Prune!TypeOK
    <3> QED
      BY <2>3, <3>1, <3>2, <3>3 DEF Prune!Delete
  <2> QED
    BY <2>1, <2>2, <2>3
<1>6. Prune!NothingYet'
  <2>1. pc'[p] \in Prune!Planning =>
          deleted'[p] = {} /\ ~started'[p] /\ error'[p] = "none"
    <3>1. CASE Prune!Delete(p) \/ Prune!Unlock(p)
      BY <1>0, <3>1
         DEF Prune!Delete, Prune!Unlock, Prune!Goto, Prune!Fail, Prune!TypeOK,
             Prune!Planning
    <3>2. CASE Prune!Validate(p) \/ Prune!LogIntent(p)
      <4>1. /\ pc[p] \in Prune!Planning /\ deleted' = deleted /\ started' = started
            /\ pc'[p] = "ended" \/ error' = error
        BY <1>0, <3>2
           DEF Prune!Validate, Prune!LogIntent, Prune!Goto, Prune!Fail,
               Prune!LeaveEarly, Prune!TypeOK, Prune!Planning, Prune!Result
      <4> QED
        BY <1>0, <4>1 DEF Prune!NothingYet, Prune!Planning
    <3> QED
      BY <3>1, <3>2
  <2>2. outcome'[p] = Prune!NoOutcome
    BY <1>0, <1>3 DEF Prune!NothingYet, Prune!Holding
  <2>3. ASSUME NEW q \in Pruners
        PROVE  /\ pc'[q] \in Prune!Planning =>
                    deleted'[q] = {} /\ ~started'[q] /\ error'[q] = "none"
               /\ pc'[q] # "ended" => outcome'[q] = Prune!NoOutcome
    BY <1>0, <1>1, <2>1, <2>2 DEF Prune!NothingYet
  <2> QED
    BY <2>3 DEF Prune!NothingYet, Prune!NoOutcome, Prune!Record, Prune!Zero
<1>7. Prune!ChangesCounted'
  <2>1. pc'[p] = "ended" => deleted'[p] = {}
    <3>1. pc'[p] = "ended" => Prune!Validate(p) \/ Prune!LogIntent(p)
      BY <1>0
         DEF Prune!Delete, Prune!Unlock, Prune!Goto, Prune!Fail, Prune!TypeOK
    <3> QED
      BY <1>0, <3>1
         DEF Prune!Validate, Prune!LogIntent, Prune!Result, Prune!NothingYet, Prune!Planning
  <2>2. ASSUME NEW q \in Pruners, pc'[q] = "ended"
        PROVE  /\ Cardinality(deleted'[q]) <= outcome'[q].succeeded + outcome'[q].uncertain
               /\ outcome'[q].succeeded <= Cardinality(deleted'[q])
    <3>1. CASE q = p
      <4>1. outcome'[p] = Prune!NoOutcome
        BY <1>0, <1>3 DEF Prune!NothingYet, Prune!Holding
      <4> QED
        BY <2>1, <2>2, <3>1, <4>1, PruneNoOutcome, FS_EmptySet
    <3>2. CASE q # p
      BY <1>0, <1>1, <2>2, <3>2, PruneCardinality DEF Prune!ChangesCounted
    <3> QED
      BY <3>1, <3>2
  <2> QED
    BY <2>2, PruneCardinality DEF Prune!ChangesCounted
<1>8. Prune!NotSelfDisturbed'
  <2>1. error'[p] = "conflict" => touched'[p]
    <3>1. error'[p] = "conflict" =>
            \/ error[p] = "conflict"
            \/ pc[p] \in {"locked", "intent"} /\ ~Prune!Unchanged(p)
      BY <1>0
         DEF Prune!Validate, Prune!LogIntent, Prune!Delete, Prune!Unlock, Prune!Goto,
             Prune!Fail, Prune!LeaveEarly, Prune!TypeOK
    <3>2. pc[p] \in {"locked", "intent"} /\ ~Prune!Unchanged(p) => touched[p]
      BY <1>0 DEF Prune!ListedOrTouched, Prune!Planning, Prune!Unchanged
    <3> QED
      BY <1>0, <1>4, <3>1, <3>2 DEF Prune!NotSelfDisturbed
  <2> QED
    BY <1>0, <1>1, <1>4, <2>1 DEF Prune!NotSelfDisturbed
<1>9. Prune!ListedOrTouched'
  <2>1. ASSUME NEW q \in Pruners, pc'[q] \in Prune!Planning \ {"asked"}
        PROVE  rotated'["target"] = listing'[q] \/ touched'[q]
    <3>1. CASE q # p
      BY <1>0, <1>1, <1>3, <1>4, <1>5, <2>1, <3>1 DEF Prune!ListedOrTouched
    <3>2. CASE q = p
      <4>1. pc[p] \in Prune!Planning \ {"asked"} /\ pc'[p] # "deleted"
        BY <1>0, <1>3, <2>1, <3>2
           DEF Prune!Holding, Prune!Planning, Prune!Unlock, Prune!Delete, Prune!Goto,
               Prune!Fail, Prune!TypeOK, Prune!Validate, Prune!LogIntent
      <4> QED
        BY <1>0, <1>3, <1>4, <1>5, <3>2, <4>1 DEF Prune!ListedOrTouched
    <3> QED
      BY <3>1, <3>2
  <2> QED
    BY <2>1 DEF Prune!ListedOrTouched
<1>10. Prune!LockHeld'
  <2>1. \A q \in Pruners \ {p} : pc[q] \notin Prune!Holding
    BY <1>0, <1>3 DEF Prune!LockHeld
  <2> QED
    BY <1>0, <1>1, <1>3, <2>1 DEF Prune!LockHeld
<1>11. Prune!Authorized'
  BY <1>0, <1>1, <1>3 DEF Prune!Authorized
<1> QED
  BY <1>2, <1>6, <1>7, <1>8, <1>9, <1>10, <1>11 DEF Prune!PruneInv

\* The outcome is recorded.
LEMMA PruneFinishes ==
  ASSUME Prune!PruneAssumption, Prune!PruneInv, NEW p \in Pruners, Prune!Finish(p)
  PROVE  Prune!PruneInv'
<1>0. /\ Prune!TypeOK /\ Prune!LockHeld /\ Prune!Authorized /\ Prune!ListedOrTouched
      /\ Prune!NothingYet /\ Prune!NotSelfDisturbed /\ Prune!ChangesCounted
  BY DEF Prune!PruneInv
<1>1. /\ pc[p] = "unlocked" /\ pc' = [pc EXCEPT ![p] = "ended"]
      /\ outcome' = [outcome EXCEPT ![p] =
             Prune!PruneOutcome(Prune!Cardinality(Prune!Candidates(p)),
                                Prune!Cardinality(deleted[p]), ~started[p],
                                IF error[p] = "none" THEN "none" ELSE "error")]
      /\ UNCHANGED <<policy, lock, selector, listing, approved, error, started, deleted>>
  BY DEF Prune!Finish, Prune!Goto, Prune!Unplanned
<1>2. rotated'["target"] = rotated["target"] /\ touched' = touched
  BY <1>0, PruneAppends DEF Prune!Finish
<1>3. Prune!TypeOK'
  BY PruneTypes
<1>4. /\ Prune!LockHeld' /\ Prune!Authorized' /\ Prune!ListedOrTouched'
      /\ Prune!NotSelfDisturbed'
  BY <1>0, <1>1, <1>2
     DEF Prune!LockHeld, Prune!Authorized, Prune!ListedOrTouched, Prune!NotSelfDisturbed,
         Prune!Holding, Prune!Planning, Prune!TypeOK
<1>5. Prune!NothingYet'
  BY <1>0, <1>1
     DEF Prune!NothingYet, Prune!Planning, Prune!TypeOK, Prune!NoOutcome, Prune!Record,
         Prune!Zero
<1>6. Prune!ChangesCounted'
  <2>1. /\ Prune!Cardinality(Prune!Candidates(p)) \in Nat
        /\ Prune!Cardinality(deleted[p]) \in 0 .. Prune!Cardinality(Prune!Candidates(p))
        /\ (~started[p]) \in BOOLEAN
        /\ (IF error[p] = "none" THEN "none" ELSE "error") \in Prune!Errors
    BY <1>0, PruneFinite, PruneCardinality DEF Prune!Errors
  <2>2. outcome'[p] = Prune!PruneOutcome(Prune!Cardinality(Prune!Candidates(p)),
                                Prune!Cardinality(deleted[p]), ~started[p],
                                IF error[p] = "none" THEN "none" ELSE "error")
    BY <1>0, <1>1 DEF Prune!TypeOK
  <2>3. /\ Prune!Cardinality(deleted[p]) <= outcome'[p].succeeded + outcome'[p].uncertain
        /\ outcome'[p].succeeded <= Prune!Cardinality(deleted[p])
    BY <2>1, <2>2, PruneOutcomes
  <2>4. ASSUME NEW q \in Pruners, pc'[q] = "ended"
        PROVE  /\ Prune!Cardinality(deleted'[q])
                    <= outcome'[q].succeeded + outcome'[q].uncertain
               /\ outcome'[q].succeeded <= Prune!Cardinality(deleted'[q])
    <3>1. CASE q = p
      BY <1>1, <2>3, <3>1
    <3>2. CASE q # p
      BY <1>0, <1>1, <2>4, <3>2 DEF Prune!ChangesCounted, Prune!TypeOK
    <3> QED
      BY <3>1, <3>2
  <2> QED
    BY <2>4, PruneCardinality DEF Prune!ChangesCounted
<1> QED
  BY <1>3, <1>4, <1>5, <1>6 DEF Prune!PruneInv

LEMMA PruneSteps ==
  ASSUME Prune!PruneAssumption
  PROVE  Prune!PruneInv /\ [Prune!Next]_(Prune!pruneVars) => Prune!PruneInv'
<1> SUFFICES ASSUME Prune!PruneInv, [Prune!Next]_(Prune!pruneVars) PROVE Prune!PruneInv'
  OBVIOUS
<1>1. CASE Prune!ChangePolicy \/ \E l \in Prune!Logs : Prune!RotateByOthers(l)
  BY <1>1, PruneOthers
<1>2. ASSUME NEW p \in Pruners,
             Prune!Plan(p) \/ Prune!Authorize(p) \/ Prune!NothingToDo(p) \/ Prune!Enter(p)
      PROVE  Prune!PruneInv'
  BY <1>2, PrunePlans
<1>3. ASSUME NEW p \in Pruners,
             Prune!Validate(p) \/ Prune!LogIntent(p) \/ Prune!Delete(p) \/ Prune!Unlock(p)
      PROVE  Prune!PruneInv'
  BY <1>3, PruneLocked
<1>4. ASSUME NEW p \in Pruners, Prune!Finish(p) PROVE Prune!PruneInv'
  BY <1>4, PruneFinishes
<1>5. CASE UNCHANGED Prune!pruneVars
  <2>1. UNCHANGED <<rotated, newest, policy, lock, selector, pc, listing, approved, error,
                    started, deleted, outcome, touched>>
    BY <1>5 DEF Prune!pruneVars, Prune!logs
  <2>2. \A p \in Pruners : Prune!Candidates(p)' = Prune!Candidates(p)
    BY <2>1 DEF Prune!Candidates
  <2>3. Prune!TypeOK'
    BY <2>1, <2>2 DEF Prune!PruneInv, Prune!TypeOK
  <2> QED
    BY <2>1, <2>3
       DEF Prune!PruneInv, Prune!LockHeld, Prune!Authorized, Prune!ListedOrTouched,
           Prune!NothingYet, Prune!NotSelfDisturbed, Prune!ChangesCounted
<1> QED
  BY <1>1, <1>2, <1>3, <1>4, <1>5 DEF Prune!Next

\* Files are deleted under the lock alone, and so under the policy of the
\* authorization.
LEMMA PrunePermitted ==
  ASSUME Prune!PruneInv, [Prune!Next]_(Prune!pruneVars)
  PROVE  Prune!DeletesPermitted
<1> SUFFICES ASSUME NEW p \in Pruners, deleted'[p] # deleted[p]
             PROVE  policy \in Permits
  BY DEF Prune!DeletesPermitted
<1>1. PICK q \in Pruners : Prune!Delete(q)
  <2>1. deleted' # deleted
    OBVIOUS
  <2> QED
    BY <2>1
       DEF Prune!Next, Prune!pruneVars, Prune!RotateByOthers, Prune!ChangePolicy,
           Prune!Command, Prune!Plan, Prune!Authorize, Prune!NothingToDo, Prune!Enter,
           Prune!Validate, Prune!LogIntent, Prune!Unlock, Prune!Finish, Prune!Result
<1> QED
  BY <1>1 DEF Prune!Delete, Prune!PruneInv, Prune!LockHeld, Prune!Holding

-----------------------------------------------------------------------------
(***************************************************************************)
(* All commands: a step is one of the component that runs.                  *)
(***************************************************************************)
LEMMA CommandStays ==
  ASSUME [MCNext]_mcVars
  PROVE  command' = command
BY DEF MCNext, mcVars, Runs

LEMMA KafkaRuns ==
  ASSUME [MCNext]_mcVars, command = "kafka"
  PROVE  [Kafka!Next]_(Kafka!kafkaVars)
<1>1. CASE MCNext
  BY <1>1 DEF MCNext, Runs
<1>2. CASE UNCHANGED mcVars
  BY <1>2 DEF mcVars, ofKafka, ofLogs, ofChange, Kafka!kafkaVars, Kafka!cluster,
              Kafka!ghosts, Kafka!wanted
<1> QED
  BY <1>1, <1>2

LEMMA ReadRuns ==
  ASSUME [MCNext]_mcVars, command = "read"
  PROVE  [Read!Next]_(Read!readVars)
<1>1. CASE MCNext
  BY <1>1 DEF MCNext, Runs
<1>2. CASE UNCHANGED mcVars
  BY <1>2 DEF mcVars, ofRead, ofLogs, Read!readVars, Read!log
<1> QED
  BY <1>1, <1>2

LEMMA PulsarRuns ==
  ASSUME [MCNext]_mcVars, command = "pulsar"
  PROVE  [Pulsar!Next]_(Pulsar!pulsarVars)
<1>1. CASE MCNext
  BY <1>1 DEF MCNext, Runs
<1>2. CASE UNCHANGED mcVars
  BY <1>2 DEF mcVars, ofPulsar, ofChange, Pulsar!pulsarVars, Pulsar!topic
<1> QED
  BY <1>1, <1>2

LEMMA AclRuns ==
  ASSUME [MCNext]_mcVars, command = "acl"
  PROVE  [Acl!Next]_(Acl!aclVars)
<1>1. CASE MCNext
  BY <1>1 DEF MCNext, Runs
<1>2. CASE UNCHANGED mcVars
  BY <1>2 DEF mcVars, ofAcl, Acl!aclVars
<1> QED
  BY <1>1, <1>2

LEMMA TopicRuns ==
  ASSUME [MCNext]_mcVars, command = "topic"
  PROVE  [Topic!Next]_(Topic!topicVars)
<1>1. CASE MCNext
  BY <1>1 DEF MCNext, Runs
<1>2. CASE UNCHANGED mcVars
  BY <1>2 DEF mcVars, ofTopic, Topic!topicVars
<1> QED
  BY <1>1, <1>2

LEMMA PruneRuns ==
  ASSUME [MCNext]_mcVars, command = "prune"
  PROVE  [Prune!Next]_(Prune!pruneVars)
<1>1. CASE MCNext
  BY <1>1 DEF MCNext, Runs
<1>2. CASE UNCHANGED mcVars
  BY <1>2 DEF mcVars, ofPrune, Prune!pruneVars, Prune!logs
<1> QED
  BY <1>1, <1>2

LEMMA QuietRuns ==
  ASSUME [MCNext]_mcVars, command = "quiet"
  PROVE  [Quiet!Next]_(Quiet!vars)
<1>1. CASE MCNext
  BY <1>1 DEF MCNext, Runs
<1>2. CASE UNCHANGED mcVars
  BY <1>2 DEF mcVars, ofJournal, Quiet!vars, Quiet!store
<1> QED
  BY <1>1, <1>2

\* Init establishes the invariant.
LEMMA CommandsInit == MCInit => CommandsInv
<1> SUFFICES ASSUME MCInit PROVE CommandsInv
  OBVIOUS
<1>1. /\ command \in {"counts", "kafka", "read", "pulsar", "acl", "topic", "prune",
                      "journal", "quiet"}
      /\ command = "kafka" => Kafka!Init
      /\ command = "read" => Read!Init
      /\ command = "pulsar" => Pulsar!Init
      /\ command = "acl" => Acl!Init
      /\ command = "topic" => Topic!Init
      /\ command = "prune" => Prune!Init
      /\ command = "quiet" => Quiet!Init
  BY DEF MCInit
<1> QED
  BY <1>1, CommandsAssumption, KafkaInit, ReadInit, PulsarInit, AclInit, TopicInit,
     PruneInit, QuietInitially DEF CommandsInv

\* Every step keeps it.
LEMMA CommandsSteps == CommandsInv /\ [MCNext]_mcVars => CommandsInv'
<1> SUFFICES ASSUME CommandsInv, [MCNext]_mcVars PROVE CommandsInv'
  OBVIOUS
<1>1. command' = command
  BY CommandStays
<1>2. command = "kafka" => Kafka!KafkaInv'
  BY CommandsAssumption, KafkaRuns, KafkaSteps DEF CommandsInv
<1>3. command = "read" => Read!ReadInv'
  BY CommandsAssumption, ReadRuns, ReadSteps DEF CommandsInv
<1>4. command = "pulsar" => Pulsar!PulsarInv'
  BY CommandsAssumption, PulsarRuns, PulsarSteps DEF CommandsInv
<1>5. command = "acl" => Acl!AclInv'
  BY AclRuns, AclSteps DEF CommandsInv
<1>6. command = "topic" => Topic!CreationInv'
  BY CommandsAssumption, TopicRuns, TopicSteps DEF CommandsInv
<1>7. command = "prune" => Prune!PruneInv'
  BY CommandsAssumption, PruneRuns, PruneSteps DEF CommandsInv
<1>8. command = "quiet" => Quiet!QuietInv'
  BY QuietRuns, QuietSteps DEF CommandsInv
<1> QED
  BY <1>1, <1>2, <1>3, <1>4, <1>5, <1>6, <1>7, <1>8 DEF CommandsInv

\* The inductive invariant: whichever component runs, its own holds.
THEOREM CommandsInvariant == MCSpec => []CommandsInv
BY CommandsInit, CommandsSteps, PTL DEF MCSpec

-----------------------------------------------------------------------------
(***************************************************************************)
(* The properties of the components.                                        *)
(***************************************************************************)

\* Every variable of a command keeps its type.
THEOREM CommandsTyped == MCSpec => []Typed
<1>1. CommandsInv => Typed
  <2> SUFFICES ASSUME CommandsInv PROVE Typed
    OBVIOUS
  <2>1. command = "acl" => Acl!TypeOK
    BY DEF CommandsInv, Acl!AclInv
  <2>2. command = "prune" => Prune!TypeOK
    BY DEF CommandsInv, Prune!PruneInv
  <2> QED
    BY <2>1, <2>2, KafkaSafe, ReadSafe, PulsarSafe, TopicSafe DEF CommandsInv, Typed
<1> QED
  BY <1>1, CommandsInvariant, PTL

\* What a purge or a reset on Kafka, a purge on Pulsar and an audit prune changed
\* is among the succeeded and uncertain parts of its outcome, and what succeeded
\* was changed (but for the topic that a purge without subscriptions counts).  A
\* reset on Pulsar that is not on record as failed did what it counts, no more
\* and no less; a creation on RocketMQ that is on record as failed was not
\* carried out.  Nothing is said of a failed Pulsar reset, whose skip may have
\* taken effect, nor of who made the topic of a creation that succeeded.
THEOREM CommandsCount == MCSpec => []ChangesCounted
<1>1. CommandsInv => ChangesCounted
  <2> SUFFICES ASSUME CommandsInv PROVE ChangesCounted
    OBVIOUS
  <2>1. command = "prune" => Prune!ChangesCounted
    BY DEF CommandsInv, Prune!PruneInv
  <2> QED
    BY <2>1, KafkaSafe, PulsarSafe, TopicSafe DEF CommandsInv, ChangesCounted
<1> QED
  BY <1>1, CommandsInvariant, PTL

\* Success is said of every partition of a Kafka purge, and of a Kafka reset with
\* every partition where it was asked to be, but for those whose listing has an
\* error, which the reset leaves where it read them (kafka.go:924-927); of every
\* listed subscription of a Pulsar purge; and of every name server.
THEOREM CommandsSucceed == MCSpec => []SuccessHolds
<1>1. CommandsInv => SuccessHolds
  BY KafkaSafe, PulsarSafe, TopicSafe DEF CommandsInv, SuccessHolds
<1> QED
  BY <1>1, CommandsInvariant, PTL

\* A Kafka purge that says success never says it removed less than it did, however
\* the partitions grow and are cleaned meanwhile (kafka.go, PurgeTopic).
THEOREM PurgesReported == MCSpec => []PurgeNeverUnderReports
<1>1. CommandsInv => PurgeNeverUnderReports
  BY KafkaSafe DEF CommandsInv, PurgeNeverUnderReports
<1> QED
  BY <1>1, CommandsInvariant, PTL

\* A tail or mirror shows the window it listed, whole and nothing else, and its
\* counts and spans are of just that, although partitions grow, and lose records
\* to retention and compaction, between its listing and its last poll.
THEOREM WindowsShown == MCSpec => []WindowShown
<1>1. CommandsInv => WindowShown
  BY ReadSafe DEF CommandsInv, WindowShown
<1> QED
  BY <1>1, CommandsInvariant, PTL

\* No RocketMQ creation overwrites a topic that a name server knew.
THEOREM NeverOverwritten == MCSpec => []VisibleNeverOverwritten
<1>1. CommandsInv => VisibleNeverOverwritten
  BY TopicSafe DEF CommandsInv, VisibleNeverOverwritten
<1> QED
  BY <1>1, CommandsInvariant, PTL

\* An audit prune that finds its listing changed was disturbed by another
\* command, never by its own intent.
THEOREM NeverSelfDisturbed == MCSpec => []NotSelfDisturbed
<1>1. CommandsInv => NotSelfDisturbed
  BY DEF CommandsInv, Prune!PruneInv, NotSelfDisturbed
<1> QED
  BY <1>1, CommandsInvariant, PTL

\* Without crashes, failing removals and failing quarantine renames no record is
\* logged twice.
THEOREM RecordsOnce == MCSpec => []LoggedOnce
<1>1. CommandsInv => LoggedOnce
  BY DEF CommandsInv, Quiet!QuietInv, Quiet!OnceInv, LoggedOnce
<1> QED
  BY <1>1, CommandsInvariant, PTL

\* A Pulsar reset skips the backlog of a subscription with consumers only when
\* these came after its statistics, or when there were none.
THEOREM BusyByRace == MCSpec => BusyOnlyByRace
<1>1. CommandsInv /\ [MCNext]_mcVars => [command = "pulsar" => Pulsar!BusyStep]_mcVars
  BY PulsarRuns, PulsarBusy DEF CommandsInv
<1> QED
  BY <1>1, CommandsInvariant, PTL DEF MCSpec, BusyOnlyByRace

\* A permission that an ACL command did not ask for is lost only when another
\* command wrote it since the first has read.
THEOREM LostByOverlap == MCSpec => LostOnlyByOverlap
<1>1. CommandsInv /\ [MCNext]_mcVars => [command = "acl" => Acl!KeepsOthers]_mcVars
  BY AclRuns, AclSafe DEF CommandsInv
<1> QED
  BY <1>1, CommandsInvariant, PTL DEF MCSpec, LostOnlyByOverlap

\* Every deletion of an audit prune is under a policy that permits it when it
\* happens, however the policy changed after the authorization.
THEOREM CurrentPolicy == MCSpec => UnderCurrentPolicy
<1>1. CommandsInv /\ [MCNext]_mcVars => [command = "prune" => Prune!DeletesPermitted]_mcVars
  BY PruneRuns, PrunePermitted DEF CommandsInv
<1> QED
  BY <1>1, CommandsInvariant, PTL DEF MCSpec, UnderCurrentPolicy
=============================================================================
