---------------------------- MODULE AuditJournal ----------------------------
(***************************************************************************)
(* The two-phase audit journal of cmd/mutation_audit.go.                    *)
(*                                                                          *)
(* Every audited operation of every mqgov process writes an intent record   *)
(* before it touches its target and an outcome record afterwards.  All of   *)
(* them share one audit log and one outcome spool, the directory            *)
(* <audit.log>.outcome-spool, which holds outcome records whose append      *)
(* failed, the sequence file that numbers them, the records quarantined     *)
(* with the suffix .indeterminate, and the cross-process queue lock.        *)
(*                                                                          *)
(* An operation is an actor of its own: the operations of one process run   *)
(* one after the other, those of several processes interleave, and nothing  *)
(* in the journal tells the two cases apart.  One step is one durable       *)
(* effect on the file system, so that a crash can fall between any two.     *)
(***************************************************************************)
EXTENDS Naturals, Sequences, FiniteSets

CONSTANTS
  Ops,      \* audited operations: reads and mutations, each with its id
  Notes,    \* the operations that append one safe record and nothing else
  Faults,   \* the kinds of failure that may happen
  MaxSeq,   \* the largest spool sequence number (2^64 - 1 in the code)
  NoOp      \* nobody

AllFaults == {"acquire", "list", "append", "remove", "quarantine",
              "sequence", "spool", "release", "crash"}

ASSUME JournalAssumption ==
  /\ Notes \subseteq Ops
  /\ Faults \subseteq AllFaults
  /\ MaxSeq \in Nat
  /\ NoOp \notin Ops

VARIABLES
  log,         \* the audit log: the records that are really in it, in order
  spool,       \* outcome records waiting for replay
  quarantine,  \* spool records renamed to *.indeterminate
  sequence,    \* the sequence file; 0 when there is none
  litter,      \* an unexpected entry (a *.tmp file) is left in the spool
  lock,        \* who holds the queue lock
  pc,          \* where each operation is
  task,        \* which function of the journal it is in
  todo,        \* the directory listing the replay of an operation works on
  answer,      \* what the operation is told, final once it is done
  applied      \* the operations that have touched their target

store == <<spool, quarantine, sequence, litter>>
vars == <<log, store, lock, pc, task, todo, answer, applied>>

-----------------------------------------------------------------------------
Labels == {"idle", "acquire", "list", "replay", "remove", "removeFail",
           "mark", "sequence", "file", "release", "run",
           "done", "crashed"}
Tasks == {"begin", "finish", "emergency", "note"}
Phases == {"intent", "outcome", "skipped", "note"}

\* What an operation is told.  "ok": no journal error.  "refused": it may not
\* run (AUDIT_INCOMPLETE or LOCAL_IO_ERROR).  "kept", "unkept" and "unknown":
\* AUDIT_INCOMPLETE after the outcome was spooled, could not be spooled, or may
\* be in the log.  "unreleased": LOCAL_IO_ERROR after a durable outcome.
Answers == {"none", "ok", "refused", "kept", "unkept", "unknown", "unreleased"}

Record == [op : Ops, phase : Phases]
Entry == [seq : Nat, op : Ops, phase : Phases]

Queued == spool \cup quarantine
Sequences == {e.seq : e \in Queued}
MaxRecord == CHOOSE n \in Sequences \cup {0} : \A m \in Sequences : m <= n

Goto(o, label) == pc' = [pc EXCEPT ![o] = label]
Tell(o, what) == answer' = [answer EXCEPT ![o] = what]
\* Mutant: the listing is not sorted.
HeadUnsorted(o) == todo[o]

HeadOf(o) == {e \in todo[o] : \A d \in todo[o] : e.seq <= d.seq}

Logged(o, phase) == \E i \in 1..Len(log) : log[i] = [op |-> o, phase |-> phase]

(***************************************************************************)
(* The commit state opskit-core reports of an append.  An error without a   *)
(* state (a record rejected before the append) counts as notCommitted.      *)
(***************************************************************************)
Results == {"committed", "notCommitted", "postCommit", "indeterminate"}
MayExist(r) == r \in {"postCommit", "indeterminate"}

AppendRecord(o, phase, r) ==
  /\ r = "committed" \/ "append" \in Faults
  /\ \/ /\ r # "notCommitted"
        /\ log' = Append(log, [op |-> o, phase |-> phase])
     \/ /\ r \in {"notCommitted", "indeterminate"}
        /\ UNCHANGED log

-----------------------------------------------------------------------------
Init ==
  /\ log = << >>
  /\ spool = {} /\ quarantine = {} /\ sequence = 0 /\ litter = FALSE
  /\ lock = NoOp
  /\ pc = [o \in Ops |-> "idle"]
  /\ task = [o \in Ops |-> IF o \in Notes THEN "note" ELSE "begin"]
  /\ todo = [o \in Ops |-> {}]
  /\ answer = [o \in Ops |-> "none"]
  /\ applied = {}

\* The command reaches its first journal call.
Start(o) ==
  /\ pc[o] = "idle"
  /\ Goto(o, "acquire")
  /\ UNCHANGED <<log, store, lock, task, todo, answer, applied>>

(***************************************************************************)
(* withMutationAuditQueue and spoolMutationAuditOutcomeEmergency enter the  *)
(* queue.  The emergency spool does not replay.                             *)
(***************************************************************************)
EnterQueue(o) ==
  /\ pc[o] = "acquire"
  /\ lock = NoOp
  /\ lock' = o
  /\ Goto(o, IF task[o] = "emergency" THEN "sequence" ELSE "list")
  /\ UNCHANGED <<log, store, task, todo, answer, applied>>

\* A lock that was taken before its files failed their checks is given back, and
\* that can fail too.
LockLeft(o) ==
  {lock} \cup (IF lock = NoOp /\ {"acquire", "release"} \subseteq Faults
                 THEN {o} ELSE {})

\* The directories cannot be made or verified, or the bounded retry for the
\* lock gives up: a held lock is never waited for without end.
QueueUnavailable(o) ==
  /\ pc[o] = "acquire"
  /\ lock # NoOp \/ "acquire" \in Faults
  /\ \/ /\ task[o] \in {"begin", "note"}
        /\ Tell(o, "refused") /\ Goto(o, "done") /\ UNCHANGED task
     \/ /\ task[o] = "finish"
        /\ task' = [task EXCEPT ![o] = "emergency"]
        /\ UNCHANGED <<pc, answer>>
     \/ /\ task[o] = "emergency"
        /\ Tell(o, "unkept") /\ Goto(o, "done") /\ UNCHANGED task
  /\ lock' \in LockLeft(o)
  /\ UNCHANGED <<log, store, todo, applied>>

(***************************************************************************)
(* replayMutationAuditSpoolLocked.                                          *)
(***************************************************************************)
\* A replay error: a begin or a note gives up, a finish spools its outcome
\* behind the entries that could not be replayed.
ReplayFailed(o) ==
  IF task[o] = "finish"
    THEN Goto(o, "sequence") /\ UNCHANGED answer
    ELSE Goto(o, "release") /\ Tell(o, "refused")

\* validateMutationSpoolSequence, on the names found in the spool.
ValidSequences ==
  /\ \A e \in spool : e.seq # 0
  /\ \A d, e \in spool : d.seq = e.seq => d = e
  /\ spool # {} => sequence # 0
  /\ sequence # 0 => \A e \in spool : e.seq <= sequence

\* Mutant: quarantined records do not block.
ListPastQuarantine(o) ==
  /\ pc[o] = "list"
  /\ ~litter /\ ValidSequences
  /\ todo' = [todo EXCEPT ![o] = spool]
  /\ Goto(o, "replay")
  /\ UNCHANGED <<log, store, lock, task, answer, applied>>

ListSpool(o) ==
  /\ pc[o] = "list"
  /\ ~litter /\ quarantine = {} /\ ValidSequences
  /\ todo' = [todo EXCEPT ![o] = spool]
  /\ Goto(o, "replay")
  /\ UNCHANGED <<log, store, lock, task, answer, applied>>

ListRejected(o) ==
  /\ pc[o] = "list"
  /\ litter \/ quarantine # {} \/ ~ValidSequences \/ "list" \in Faults
  /\ ReplayFailed(o)
  /\ UNCHANGED <<log, store, lock, task, todo, applied>>

\* Mutant: a failed append counts as replayed.
ReplayAppendDrops(o) ==
  /\ pc[o] = "replay"
  /\ \E e \in HeadOf(o), r \in Results :
       /\ AppendRecord(e.op, e.phase, r)
       /\ \/ r = "committed" /\ Goto(o, "remove") /\ UNCHANGED answer
          \/ r = "postCommit" /\ Goto(o, "removeFail") /\ UNCHANGED answer
          \/ r = "indeterminate" /\ Goto(o, "mark") /\ UNCHANGED answer
          \/ r = "notCommitted" /\ Goto(o, "remove") /\ UNCHANGED answer
  /\ UNCHANGED <<store, lock, task, todo, applied>>

ReplayAppend(o) ==
  /\ pc[o] = "replay"
  /\ \E e \in HeadOf(o), r \in Results :
       /\ AppendRecord(e.op, e.phase, r)
       /\ \/ r = "committed" /\ Goto(o, "remove") /\ UNCHANGED answer
          \/ r = "postCommit" /\ Goto(o, "removeFail") /\ UNCHANGED answer
          \/ r = "indeterminate" /\ Goto(o, "mark") /\ UNCHANGED answer
          \/ r = "notCommitted" /\ ReplayFailed(o)
  /\ UNCHANGED <<store, lock, task, todo, applied>>

\* readMutationSpoolRecord fails before anything is appended.
ReplayReadFails(o) ==
  /\ pc[o] = "replay" /\ todo[o] # {} /\ "list" \in Faults
  /\ ReplayFailed(o)
  /\ UNCHANGED <<log, store, lock, task, todo, applied>>

RemoveReplayed(o) ==
  /\ pc[o] \in {"remove", "removeFail"}
  /\ \E e \in HeadOf(o) :
       /\ spool' = spool \ {e}
       /\ todo' = [todo EXCEPT ![o] = @ \ {e}]
  /\ IF pc[o] = "remove"
       THEN Goto(o, "replay") /\ UNCHANGED answer
       ELSE ReplayFailed(o)
  /\ UNCHANGED <<log, quarantine, sequence, litter, lock, task, applied>>

\* os.Remove fails, or the directory cannot be synced after it.
RemoveFails(o) ==
  /\ pc[o] \in {"remove", "removeFail"}
  /\ "remove" \in Faults
  /\ \/ UNCHANGED spool
     \/ \E e \in HeadOf(o) : spool' = spool \ {e}
  /\ ReplayFailed(o)
  /\ UNCHANGED <<log, quarantine, sequence, litter, lock, task, todo, applied>>

\* Mutant: the record is removed where it should be kept aside.
DiscardIndeterminate(o) ==
  /\ pc[o] = "mark"
  /\ \E e \in HeadOf(o) :
       /\ spool' = spool \ {e}
       /\ UNCHANGED quarantine
  /\ ReplayFailed(o)
  /\ UNCHANGED <<log, sequence, litter, lock, task, todo, applied>>

MarkIndeterminate(o) ==
  /\ pc[o] = "mark"
  /\ \E e \in HeadOf(o) :
       /\ spool' = spool \ {e}
       /\ quarantine' = quarantine \cup {e}
  /\ ReplayFailed(o)
  /\ UNCHANGED <<log, sequence, litter, lock, task, todo, applied>>

MarkFails(o) ==
  /\ pc[o] = "mark" /\ "quarantine" \in Faults
  /\ ReplayFailed(o)
  /\ UNCHANGED <<log, store, lock, task, todo, applied>>

\* Mutant: an operation does not wait for the replay to end.
ReplayStarted(o) == pc[o] = "replay"

(***************************************************************************)
(* The operation's own record: the rest of beginMutationAudit,              *)
(* finishMutationAudit and appendQueuedAuditRecord.                         *)
(***************************************************************************)
Replayed(o) == pc[o] = "replay" /\ todo[o] = {}

AppendIntent(o) ==
  /\ Replayed(o) /\ task[o] = "begin"
  /\ \E r \in Results :
       /\ AppendRecord(o, "intent", r)
       /\ \/ r = "committed" /\ Tell(o, "ok") /\ Goto(o, "release")
          \/ r = "notCommitted" /\ Tell(o, "refused") /\ Goto(o, "release")
          \/ MayExist(r) /\ Goto(o, "sequence") /\ UNCHANGED answer
  /\ UNCHANGED <<store, lock, task, todo, applied>>

\* Mutant: an outcome that may exist is spooled too.
AppendOutcomeTwice(o) ==
  /\ Replayed(o) /\ task[o] = "finish"
  /\ \E r \in Results :
       /\ AppendRecord(o, "outcome", r)
       /\ \/ r = "committed" /\ Tell(o, "ok") /\ Goto(o, "release")
          \/ r # "committed" /\ Goto(o, "sequence") /\ UNCHANGED answer
  /\ UNCHANGED <<store, lock, task, todo, applied>>

AppendOutcome(o) ==
  /\ Replayed(o) /\ task[o] = "finish"
  /\ \E r \in Results :
       /\ AppendRecord(o, "outcome", r)
       /\ \/ r = "committed" /\ Tell(o, "ok") /\ Goto(o, "release")
          \/ MayExist(r) /\ Tell(o, "unknown") /\ Goto(o, "release")
          \/ r = "notCommitted" /\ Goto(o, "sequence") /\ UNCHANGED answer
  /\ UNCHANGED <<store, lock, task, todo, applied>>

AppendNote(o) ==
  /\ Replayed(o) /\ task[o] = "note"
  /\ \E r \in Results :
       /\ AppendRecord(o, "note", r)
       /\ Tell(o, IF r = "committed" THEN "ok" ELSE "refused")
  /\ Goto(o, "release")
  /\ UNCHANGED <<store, lock, task, todo, applied>>

(***************************************************************************)
(* writeMutationSpoolRecord: number the record, then write it.  A begin     *)
(* whose intent may exist spools an outcome that says all was skipped.      *)
(***************************************************************************)
SpoolEntry(o) ==
  [seq |-> sequence, op |-> o,
   phase |-> IF task[o] = "begin" THEN "skipped" ELSE "outcome"]
\* Mutant: the sequence file is not read.
LastInSpool == MaxRecord

LastSequence == IF sequence = 0 THEN MaxRecord ELSE sequence
Behind == sequence # 0 /\ \E n \in Sequences : n > sequence

\* Mutant: the number is not saved.
NextSequenceUnsaved(o) ==
  /\ pc[o] = "sequence"
  /\ ~litter /\ ~Behind /\ LastSequence < MaxSeq
  /\ UNCHANGED sequence
  /\ Goto(o, "file")
  /\ UNCHANGED <<log, spool, quarantine, litter, lock, task, todo, answer, applied>>

NextSequence(o) ==
  /\ pc[o] = "sequence"
  /\ ~litter /\ ~Behind /\ LastSequence < MaxSeq
  /\ sequence' = LastSequence + 1
  /\ Goto(o, "file")
  /\ UNCHANGED <<log, spool, quarantine, litter, lock, task, todo, answer, applied>>

\* What the failed spool leaves: a begin is told the same either way.
Unspooled(o) ==
  /\ Tell(o, IF task[o] = "begin" THEN "refused" ELSE "unkept")
  /\ Goto(o, "release")

\* Nothing changed, sequence.tmp was left behind, or the new number was
\* committed and only its verification failed.
NextSequenceFails(o) ==
  /\ pc[o] = "sequence"
  /\ \/ litter \/ Behind \/ LastSequence >= MaxSeq
     \/ "sequence" \in Faults
  /\ \/ UNCHANGED <<sequence, litter>>
     \/ "sequence" \in Faults /\ litter' = TRUE /\ UNCHANGED sequence
     \/ /\ "sequence" \in Faults
        /\ ~litter /\ ~Behind /\ LastSequence < MaxSeq
        /\ sequence' = LastSequence + 1 /\ UNCHANGED litter
  /\ Unspooled(o)
  /\ UNCHANGED <<log, spool, quarantine, lock, task, todo, applied>>

CommitSpoolFile(o) ==
  /\ pc[o] = "file"
  /\ spool' = spool \cup {SpoolEntry(o)}
  /\ Tell(o, IF task[o] = "begin" THEN "refused" ELSE "kept")
  /\ Goto(o, "release")
  /\ UNCHANGED <<log, quarantine, sequence, litter, lock, task, todo, applied>>

\* The temporary file cannot be written, and may stay behind; or it is renamed
\* and only the directory sync after it fails.
SpoolFileFails(o) ==
  /\ pc[o] = "file" /\ "spool" \in Faults
  /\ \/ litter' \in BOOLEAN /\ (litter => litter') /\ UNCHANGED spool
     \/ spool' = spool \cup {SpoolEntry(o)} /\ UNCHANGED litter
  /\ Unspooled(o)
  /\ UNCHANGED <<log, quarantine, sequence, lock, task, todo, applied>>

\* Mutant: a refused begin runs all the same.
LeaveQueueAnyway(o) ==
  /\ pc[o] = "release"
  /\ lock' = NoOp
  /\ Goto(o, IF task[o] = "begin" THEN "run" ELSE "done")
  /\ UNCHANGED <<log, store, task, todo, answer, applied>>

(***************************************************************************)
(* Leaving the queue.  A lock that cannot be released turns success, and    *)
(* only success, into LOCAL_IO_ERROR.                                       *)
(***************************************************************************)
LeaveQueue(o) ==
  /\ pc[o] = "release"
  /\ lock' = NoOp
  /\ Goto(o, IF task[o] = "begin" /\ answer[o] = "ok" THEN "run" ELSE "done")
  /\ UNCHANGED <<log, store, task, todo, answer, applied>>

ReleaseFails(o) ==
  /\ pc[o] = "release" /\ "release" \in Faults
  /\ Goto(o, "done")
  /\ \/ answer[o] = "ok" /\ task[o] = "finish" /\ Tell(o, "unreleased")
     \/ answer[o] = "ok" /\ task[o] # "finish" /\ Tell(o, "refused")
     \/ answer[o] = "kept" /\ task[o] = "emergency" /\ Tell(o, "unkept")
     \/ /\ answer[o] # "ok" /\ ~(answer[o] = "kept" /\ task[o] = "emergency")
        /\ UNCHANGED answer
  /\ UNCHANGED <<log, store, lock, task, todo, applied>>

\* The operation itself, which succeeds or fails with or without an effect.
Operate(o) ==
  /\ pc[o] = "run"
  /\ applied' \in {applied, applied \cup {o}}
  /\ task' = [task EXCEPT ![o] = "finish"]
  /\ Tell(o, "none")
  /\ Goto(o, "acquire")
  /\ UNCHANGED <<log, store, lock, todo>>

\* The process dies.  A temporary file it was writing may stay in the spool.
Crash(o) ==
  /\ "crash" \in Faults
  /\ pc[o] \notin {"idle", "done", "crashed"}
  /\ Goto(o, "crashed")
  /\ litter' \in {litter, litter \/ pc[o] \in {"sequence", "file"}}
  /\ UNCHANGED <<log, spool, quarantine, sequence, lock, task, todo, answer, applied>>

\* The lock of an operation that is over may be freed by the end of its process
\* or taken over as stale: at once, later or never.
Reclaim(o) ==
  /\ pc[o] \in {"done", "crashed"} /\ lock = o
  /\ lock' = NoOp
  /\ UNCHANGED <<log, store, pc, task, todo, answer, applied>>

-----------------------------------------------------------------------------
Step(o) ==
  \/ EnterQueue(o) \/ QueueUnavailable(o)
  \/ ListSpool(o) \/ ListRejected(o)
  \/ ReplayAppend(o) \/ ReplayReadFails(o)
  \/ RemoveReplayed(o) \/ RemoveFails(o)
  \/ MarkIndeterminate(o) \/ MarkFails(o)
  \/ AppendIntent(o) \/ AppendOutcome(o) \/ AppendNote(o)
  \/ NextSequence(o) \/ NextSequenceFails(o)
  \/ CommitSpoolFile(o) \/ SpoolFileFails(o)
  \/ LeaveQueue(o) \/ ReleaseFails(o)
  \/ Operate(o)

Finished == \A o \in Ops : pc[o] \in {"done", "crashed"}
Halt == Finished /\ UNCHANGED vars

Move(o) == Start(o) \/ Step(o) \/ Crash(o) \/ Reclaim(o)

Next == (\E o \in Ops : Move(o)) \/ Halt

Spec == Init /\ [][Next]_vars

(***************************************************************************)
(* A live process keeps executing: its next step is taken unless it dies.   *)
(* Nothing makes a command start, a process survive or a lock expire.       *)
(***************************************************************************)
FairSpec == Spec /\ \A o \in Ops : WF_vars(Step(o))

-----------------------------------------------------------------------------
(***************************************************************************)
(* Properties                                                               *)
(***************************************************************************)

\* Type invariant: the variables hold values of their types.
TypeOK ==
  /\ log \in Seq(Record)
  /\ spool \in SUBSET Entry /\ quarantine \in SUBSET Entry
  /\ sequence \in Nat /\ litter \in BOOLEAN
  /\ lock \in Ops \cup {NoOp}
  /\ pc \in [Ops -> Labels]
  /\ task \in [Ops -> Tasks]
  /\ todo \in [Ops -> SUBSET Entry]
  /\ answer \in [Ops -> Answers]
  /\ applied \in SUBSET Ops

\* An operation that touched its target has a durable intent: whatever fails
\* in begin, the operation does not run without it (README.md:328).
EffectNeedsIntent == \A o \in applied : Logged(o, "intent")

Paired(o) ==
  \E i, j \in 1..Len(log) :
    /\ i < j
    /\ log[i] = [op |-> o, phase |-> "intent"]
    /\ log[j] = [op |-> o, phase |-> "outcome"]

\* An operation that is told all went well has both its records in the log,
\* the intent before the outcome, whoever else wrote to the log in between.
OkMeansPaired ==
  \A o \in Ops \ Notes :
    pc[o] = "done" /\ answer[o] = "ok" => Paired(o)

\* An outcome that was spooled is never lost: until it is in the log it stays
\* in the spool or in quarantine, through every failed replay of every other
\* operation and every crash (README.md:329).
KeptIsDurable ==
  \A o \in Ops :
    pc[o] = "done" /\ answer[o] = "kept" =>
      Logged(o, "outcome") \/ \E e \in Queued : e.op = o /\ e.phase = "outcome"

\* An operation that was refused has not touched its target.
RefusedIsUntouched ==
  \A o \in Ops : pc[o] = "done" /\ answer[o] = "refused" => o \notin applied

\* The outcome a begin spools for an intent of unknown fate says that
\* everything was skipped, and that is the truth: the operation never runs.
SkippedIsTruthful ==
  \A o \in applied :
    ~Logged(o, "skipped") /\ \A e \in Queued : e.op = o => e.phase # "skipped"

\* The spool the journal writes is one its own replay accepts: numbers start
\* at one, no two records share one, and the sequence file is never behind.
OwnSpoolAccepted == ValidSequences /\ ~Behind

(***************************************************************************)
(* The inductive invariant behind the safety properties.  Everything it     *)
(* says of an operation in the queue rests on the lock: nobody else changes *)
(* the log or the spool between the listing and the operation's own record. *)
(***************************************************************************)
Locked == {"list", "replay", "remove", "removeFail", "mark", "sequence",
           "file", "release"}

LockInv == \A o \in Ops : pc[o] \in Locked => lock = o

\* Numbers in the spool are distinct and bounded by the sequence file, and the
\* number an operation has just drawn is above them all.
NumberInv ==
  /\ \A e \in Queued : 1 <= e.seq /\ e.seq <= sequence
  /\ \A d, e \in Queued : d.seq = e.seq => d = e
  /\ \A o \in Ops : pc[o] = "file" =>
       1 <= sequence /\ \A e \in Queued : e.seq < sequence

\* An operation spools at most one record, as the last thing it does.
EntryInv ==
  /\ \A e \in Queued :
       /\ pc[e.op] \in {"release", "done", "crashed"}
       /\ \/ e.phase = "outcome" /\ task[e.op] \in {"finish", "emergency"}
          \/ e.phase = "skipped" /\ task[e.op] = "begin" /\ answer[e.op] # "ok"
  /\ \A d, e \in Queued : d.op = e.op => d = e

\* The listing an operation replays is the spool as it is now, and the head is
\* removed only after it was appended.
ReplayInv ==
  \A o \in Ops :
    /\ pc[o] \in {"replay", "remove", "removeFail", "mark"} =>
         todo[o] = spool /\ quarantine = {}
    /\ pc[o] \in {"remove", "removeFail"} =>
         \A e \in HeadOf(o) : Logged(e.op, e.phase)

\* An operation runs, and finishes, only after its intent was logged.
HandleOf(o) ==
  /\ task[o] = "begin" /\ answer[o] = "ok" => Logged(o, "intent")
  /\ task[o] \in {"finish", "emergency"} => Logged(o, "intent")
  /\ o \in applied => task[o] \in {"finish", "emergency"}
  /\ pc[o] = "run" => task[o] = "begin" /\ answer[o] = "ok"
  /\ answer[o] = "refused" => task[o] \in {"begin", "note"}
  /\ o \in Notes <=> task[o] = "note"
  /\ pc[o] \in {"sequence", "file"} => task[o] # "note"
  /\ pc[o] \in {"list", "replay", "remove", "removeFail", "mark"} =>
       task[o] # "emergency"
  /\ pc[o] \notin {"release", "run", "done", "crashed"} => answer[o] = "none"
  /\ task[o] = "emergency" => answer[o] # "ok"
  /\ Logged(o, "skipped") => task[o] = "begin" /\ answer[o] # "ok"
                             /\ pc[o] \in {"release", "done", "crashed"}
HandleInv == \A o \in Ops : HandleOf(o)

\* "ok" is said when both records are logged, "kept" when the outcome is kept.
AnswerOf(o) ==
  /\ answer[o] = "ok" /\ task[o] \in {"finish", "emergency"} => Paired(o)
  /\ answer[o] = "kept" =>
       Logged(o, "outcome") \/ \E e \in Queued : e.op = o /\ e.phase = "outcome"
  /\ pc[o] = "done" /\ answer[o] = "ok" => task[o] # "begin"
AnswerInv == \A o \in Ops : AnswerOf(o)

JournalInv ==
  /\ TypeOK /\ LockInv /\ NumberInv /\ EntryInv
  /\ ReplayInv /\ HandleInv /\ AnswerInv

\* Without crashes and without failing removals, every record is logged once.
LoggedOnce ==
  \A i, j \in 1..Len(log) : log[i] = log[j] => i = j

\* Without crashes and without failing removals and quarantine renames: a record
\* that is logged is behind the operation, and a spooled record is logged only
\* while somebody is about to take it out of the spool.
OnceOf(o) ==
  /\ Logged(o, "intent") =>
       ~(task[o] = "begin" /\ pc[o] \in {"idle", "acquire", "list", "replay", "remove",
                                        "removeFail", "mark"})
  /\ Logged(o, "outcome") => /\ task[o] \in {"finish", "emergency"}
                             /\ pc[o] \in {"release", "done", "crashed"}
  /\ Logged(o, "note") => task[o] = "note" /\ pc[o] \in {"release", "done", "crashed"}

OnceInv ==
  /\ LoggedOnce
  /\ \A o \in Ops : OnceOf(o)
  /\ \A e \in spool : Logged(e.op, e.phase) =>
       \E o \in Ops : pc[o] \in {"remove", "removeFail", "mark"} /\ e \in HeadOf(o)

QuietInv == JournalInv /\ OnceInv

\* No intent is logged while an older outcome still waits in the spool or in
\* quarantine: an operation is recorded as begun only after every outcome
\* before it is (README.md:329).
ReplayBarrier ==
  [][\A o \in Ops : log' = Append(log, [op |-> o, phase |-> "intent"])
       => Queued = {}]_vars

\* Outcomes are replayed in the order they were spooled.
ReplayInOrder ==
  [][\A e \in spool : log' = Append(log, [op |-> e.op, phase |-> e.phase])
       => \A d \in spool : e.seq <= d.seq]_vars

\* Once a record is in quarantine the log is frozen: nothing is appended, by a
\* replay or by an operation, until somebody reconciles it (README.md:332).
QuarantineFreezesLog == [][quarantine # {} => UNCHANGED log]_vars

\* A spool number is used once: the sequence never goes back, every number that
\* is drawn is a new one, and a record is written under the number just drawn,
\* above all that were ever in the spool.
NumbersAreFresh ==
  [][/\ sequence' >= sequence
     /\ \A o \in Ops : pc[o] # "file" /\ pc'[o] = "file" => sequence' > sequence
     /\ \A e \in spool' \ spool : sequence = e.seq
                                  /\ \A d \in Queued : d.seq < e.seq]_vars

\* What a replay appends is not in the log yet: "only definitely uncommitted
\* queue entries are eligible for automatic replay" (README.md:331).
OnlyUncommittedReplayed ==
  [][\A e \in spool : log' = Append(log, [op |-> e.op, phase |-> e.phase])
       => ~Logged(e.op, e.phase)]_vars

\* A started operation ends or dies: it waits neither for a lock that a dead
\* process holds, nor in a replay that cannot make progress.
Terminates ==
  \A o \in Ops : pc[o] # "idle" ~> pc[o] \in {"done", "crashed"}
=============================================================================
