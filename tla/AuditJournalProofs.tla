------------------------- MODULE AuditJournalProofs -------------------------
(***************************************************************************)
(* Proofs about AuditJournal, for every set of operations and notes, every  *)
(* set of faults and every bound of the sequence.                           *)
(***************************************************************************)
EXTENDS AuditJournalRefinement, TLAPS

-----------------------------------------------------------------------------
(***************************************************************************)
(* Lemmas about the log and the spool                                       *)
(***************************************************************************)

\* What one append does to the log, whatever commit state it reports: it adds
\* at most the record, and does so when the record is said to be committed.
LEMMA AppendLemma ==
  ASSUME log \in Seq(Record),
         NEW p \in Ops, NEW ph \in Phases, NEW r \in Results,
         AppendRecord(p, ph, r)
  PROVE  /\ log' \in Seq(Record)
         /\ \A q \in Ops, k \in Phases : Logged(q, k) => Logged(q, k)'
         /\ \A q \in Ops, k \in Phases :
              Logged(q, k)' => Logged(q, k) \/ (q = p /\ k = ph)
         /\ r \in {"committed", "postCommit"} => Logged(p, ph)'
         /\ \A q \in Ops : Paired(q) => Paired(q)'
         /\ ph = "outcome" /\ Logged(p, "intent")
              /\ r \in {"committed", "postCommit"} => Paired(p)'
<1> DEFINE rec == [op |-> p, phase |-> ph]
<1>1. CASE UNCHANGED log /\ r \in {"notCommitted", "indeterminate"}
  BY <1>1 DEF Logged, Paired
<1>2. CASE log' = Append(log, rec)
  <2>1. rec \in Record
    BY DEF Record
  <2>2. /\ log' \in Seq(Record)
        /\ Len(log') = Len(log) + 1
        /\ \A i \in 1..Len(log) : log'[i] = log[i]
        /\ log'[Len(log) + 1] = rec
        /\ Len(log) \in Nat
    BY <1>2, <2>1
  <2>3. \A q \in Ops, k \in Phases : Logged(q, k) => Logged(q, k)'
    BY <2>2 DEF Logged
  <2>4. \A q \in Ops, k \in Phases :
          Logged(q, k)' => Logged(q, k) \/ (q = p /\ k = ph)
    BY <2>2 DEF Logged
  <2>5. Logged(p, ph)'
    BY <2>2 DEF Logged
  <2>6. \A q \in Ops : Paired(q) => Paired(q)'
    BY <2>2 DEF Paired
  <2>7. ph = "outcome" /\ Logged(p, "intent") => Paired(p)'
    BY <2>2 DEF Paired, Logged
  <2> QED
    BY <2>2, <2>3, <2>4, <2>5, <2>6, <2>7
<1> QED
  BY <1>1, <1>2 DEF AppendRecord

\* A spool number is never drawn below one.
LEMMA LastSequenceLemma ==
  ASSUME TypeOK, NumberInv
  PROVE  LastSequence = sequence
<1>1. CASE sequence = 0
  <2>1. Sequences = {}
    BY <1>1 DEF NumberInv, Sequences, Queued, TypeOK, Entry
  <2>2. MaxRecord = 0
    BY <2>1 DEF MaxRecord
  <2> QED
    BY <1>1, <2>2 DEF LastSequence
<1>2. CASE sequence # 0
  BY <1>2 DEF LastSequence
<1> QED
  BY <1>1, <1>2

-----------------------------------------------------------------------------
(***************************************************************************)
(* Type correctness                                                         *)
(***************************************************************************)

\* What the answer of a failed replay and a failed spool may be.
LEMMA FailureTypes ==
  ASSUME TypeOK, NEW o \in Ops
  PROVE  /\ ReplayFailed(o) => /\ pc' \in [Ops -> Labels]
                               /\ answer' \in [Ops -> Answers]
         /\ Unspooled(o) => /\ pc' \in [Ops -> Labels]
                            /\ answer' \in [Ops -> Answers]
         /\ pc[o] = "file" => SpoolEntry(o) \in Entry
         /\ HeadOf(o) \subseteq Entry
BY DEF TypeOK, ReplayFailed, Unspooled, Goto, Tell, Labels, Answers,
       SpoolEntry, Entry, Phases, HeadOf

\* Every record and every file the journal writes has its type, and every
\* operation stays on its way through begin, the operation itself and finish.
LEMMA TypeStep ==
  ASSUME JournalInv, NEW o \in Ops, Move(o)
  PROVE  TypeOK'
<1> USE JournalAssumption
<1>t. TypeOK
  BY DEF JournalInv
<1>f. /\ ReplayFailed(o) => pc' \in [Ops -> Labels] /\ answer' \in [Ops -> Answers]
      /\ Unspooled(o) => pc' \in [Ops -> Labels] /\ answer' \in [Ops -> Answers]
      /\ SpoolEntry(o) \in Entry
      /\ HeadOf(o) \subseteq Entry
  BY <1>t, FailureTypes DEF SpoolEntry, Entry, Phases, TypeOK
<1> USE DEF TypeOK, vars, store, Goto, Tell, Labels, Answers, Tasks
<1>1. CASE Start(o)
  BY <1>t, <1>1 DEF Start
<1>2. CASE EnterQueue(o)
  BY <1>t, <1>2 DEF EnterQueue
<1>3. CASE QueueUnavailable(o)
  BY <1>t, <1>3 DEF QueueUnavailable, LockLeft
<1>4. CASE ListSpool(o)
  BY <1>t, <1>4 DEF ListSpool
<1>5. CASE ListRejected(o)
  BY <1>t, <1>f, <1>5 DEF ListRejected
<1>6. CASE ReplayAppend(o)
  <2> PICK e \in HeadOf(o), r \in Results :
        /\ AppendRecord(e.op, e.phase, r)
        /\ \/ r = "committed" /\ Goto(o, "remove") /\ UNCHANGED answer
           \/ r = "postCommit" /\ Goto(o, "removeFail") /\ UNCHANGED answer
           \/ r = "indeterminate" /\ Goto(o, "mark") /\ UNCHANGED answer
           \/ r = "notCommitted" /\ ReplayFailed(o)
    BY <1>6 DEF ReplayAppend
  <2>1. e.op \in Ops /\ e.phase \in Phases
    BY <1>f DEF Entry
  <2>2. log' \in Seq(Record)
    BY <1>t, <2>1, AppendLemma
  <2>3. pc' \in [Ops -> Labels] /\ answer' \in [Ops -> Answers]
    BY <1>t, <1>f
  <2> QED
    BY <1>t, <1>6, <2>2, <2>3 DEF ReplayAppend
<1>7. CASE ReplayReadFails(o)
  BY <1>t, <1>f, <1>7 DEF ReplayReadFails
<1>8. CASE RemoveReplayed(o)
  <2>1. pc' \in [Ops -> Labels] /\ answer' \in [Ops -> Answers]
    BY <1>t, <1>f, <1>8 DEF RemoveReplayed
  <2> QED
    BY <1>t, <1>8, <2>1, ZenonT(30) DEF RemoveReplayed
<1>9. CASE RemoveFails(o)
  BY <1>t, <1>f, <1>9 DEF RemoveFails
<1>10. CASE MarkIndeterminate(o)
  BY <1>t, <1>f, <1>10 DEF MarkIndeterminate
<1>11. CASE MarkFails(o)
  BY <1>t, <1>f, <1>11 DEF MarkFails
<1>12. CASE AppendIntent(o)
  <2>1. log' \in Seq(Record)
    BY <1>t, <1>12, AppendLemma DEF AppendIntent, Phases
  <2> QED
    BY <1>t, <1>12, <2>1 DEF AppendIntent
<1>13. CASE AppendOutcome(o)
  <2>1. log' \in Seq(Record)
    BY <1>t, <1>13, AppendLemma DEF AppendOutcome, Phases
  <2> QED
    BY <1>t, <1>13, <2>1 DEF AppendOutcome
<1>14. CASE AppendNote(o)
  <2>1. log' \in Seq(Record)
    BY <1>t, <1>14, AppendLemma DEF AppendNote, Phases
  <2> QED
    BY <1>t, <1>14, <2>1 DEF AppendNote
<1>15. CASE NextSequence(o)
  BY <1>t, <1>15, LastSequenceLemma DEF NextSequence, JournalInv
<1>16. CASE NextSequenceFails(o)
  <2>1. LastSequence = sequence
    BY <1>t, LastSequenceLemma DEF JournalInv
  <2>2. sequence' \in Nat /\ litter' \in BOOLEAN
    <3>1. \/ sequence' = sequence /\ litter' = litter
          \/ sequence' = sequence /\ litter' = TRUE
          \/ sequence' = sequence + 1 /\ litter' = litter
      BY <1>16, <2>1 DEF NextSequenceFails
    <3>2. sequence \in Nat /\ litter \in BOOLEAN
      BY <1>t
    <3>3. sequence' \in Nat
      BY <3>1, <3>2
    <3>4. litter' \in BOOLEAN
      BY <3>1, <3>2, Zenon
    <3> QED
      BY <3>3, <3>4
  <2>3. pc' \in [Ops -> Labels] /\ answer' \in [Ops -> Answers]
    BY <1>f, <1>16 DEF NextSequenceFails
  <2> QED
    BY <1>t, <1>16, <2>2, <2>3 DEF NextSequenceFails
<1>17. CASE CommitSpoolFile(o)
  BY <1>t, <1>f, <1>17 DEF CommitSpoolFile
<1>18. CASE SpoolFileFails(o)
  BY <1>t, <1>f, <1>18 DEF SpoolFileFails
<1>19. CASE LeaveQueue(o)
  BY <1>t, <1>19 DEF LeaveQueue
<1>20. CASE ReleaseFails(o)
  BY <1>t, <1>20 DEF ReleaseFails
<1>21. CASE Operate(o)
  BY <1>t, <1>21 DEF Operate
<1>22. CASE Crash(o) \/ Reclaim(o)
  BY <1>t, <1>22 DEF Crash, Reclaim
<1> QED
  BY <1>1, <1>2, <1>3, <1>4, <1>5, <1>6, <1>7, <1>8, <1>9, <1>10, <1>11,
     <1>12, <1>13, <1>14, <1>15, <1>16, <1>17, <1>18, <1>19, <1>20, <1>21,
     <1>22 DEF Move, Step

-----------------------------------------------------------------------------
(***************************************************************************)
(* The queue lock                                                           *)
(***************************************************************************)

\* Only the operation that steps moves, and only from outside the queue does it
\* touch neither the lock nor anything the lock protects.
LEMMA FrameLemma ==
  ASSUME TypeOK, NEW o \in Ops, Move(o)
  PROVE  /\ \A p \in Ops \ {o} : /\ pc'[p] = pc[p] /\ task'[p] = task[p]
                                 /\ answer'[p] = answer[p] /\ todo'[p] = todo[p]
                                 /\ p \in applied' <=> p \in applied
         /\ pc[o] \notin Locked => UNCHANGED <<log, spool, quarantine, sequence>>
<1> USE DEF TypeOK, store, Goto, Tell, ReplayFailed, Unspooled, Locked
<1>1. CASE Start(o)
  BY <1>1 DEF Start
<1>2. CASE EnterQueue(o)
  BY <1>2 DEF EnterQueue
<1>3. CASE QueueUnavailable(o)
  BY <1>3 DEF QueueUnavailable
<1>4. CASE ListSpool(o)
  BY <1>4 DEF ListSpool
<1>5. CASE ListRejected(o)
  BY <1>5 DEF ListRejected
<1>6. CASE ReplayAppend(o)
  BY <1>6 DEF ReplayAppend
<1>7. CASE ReplayReadFails(o)
  BY <1>7 DEF ReplayReadFails
<1>8. CASE RemoveReplayed(o)
  BY <1>8 DEF RemoveReplayed
<1>9. CASE RemoveFails(o)
  BY <1>9 DEF RemoveFails
<1>10. CASE MarkIndeterminate(o)
  BY <1>10 DEF MarkIndeterminate
<1>11. CASE MarkFails(o)
  BY <1>11 DEF MarkFails
<1>12. CASE AppendIntent(o)
  BY <1>12 DEF AppendIntent, Replayed
<1>13. CASE AppendOutcome(o)
  BY <1>13 DEF AppendOutcome, Replayed
<1>14. CASE AppendNote(o)
  BY <1>14 DEF AppendNote, Replayed
<1>15. CASE NextSequence(o)
  BY <1>15 DEF NextSequence
<1>16. CASE NextSequenceFails(o)
  BY <1>16 DEF NextSequenceFails
<1>17. CASE CommitSpoolFile(o)
  BY <1>17 DEF CommitSpoolFile
<1>18. CASE SpoolFileFails(o)
  BY <1>18 DEF SpoolFileFails
<1>19. CASE LeaveQueue(o)
  BY <1>19 DEF LeaveQueue
<1>20. CASE ReleaseFails(o)
  BY <1>20 DEF ReleaseFails
<1>21. CASE Operate(o)
  BY <1>21 DEF Operate
<1>22. CASE Crash(o) \/ Reclaim(o)
  BY <1>22 DEF Crash, Reclaim
<1> QED
  BY <1>1, <1>2, <1>3, <1>4, <1>5, <1>6, <1>7, <1>8, <1>9, <1>10, <1>11,
     <1>12, <1>13, <1>14, <1>15, <1>16, <1>17, <1>18, <1>19, <1>20, <1>21,
     <1>22 DEF Move, Step

\* An operation in the queue holds the lock: it enters only when nobody does,
\* and nobody else frees it.
LEMMA LockStep ==
  ASSUME JournalInv, NEW o \in Ops, Move(o)
  PROVE  LockInv'
<1>t. TypeOK /\ LockInv
  BY DEF JournalInv
<1>a. SUFFICES ASSUME NEW p \in Ops, pc'[p] \in Locked
               PROVE  lock' = p
  BY DEF LockInv
<1> USE JournalAssumption
        DEF TypeOK, store, Goto, Tell, ReplayFailed, Unspooled, Locked
<1>1. CASE Start(o)
  BY <1>t, <1>a, <1>1 DEF Start, LockInv
<1>2. CASE EnterQueue(o)
  BY <1>t, <1>a, <1>2 DEF EnterQueue, LockInv
<1>3. CASE QueueUnavailable(o)
  BY <1>t, <1>a, <1>3 DEF QueueUnavailable, LockLeft, LockInv
<1>4. CASE pc[o] \in Locked /\ UNCHANGED lock
  <2>1. p # o => pc[p] \in Locked
    BY <1>t, <1>a, FrameLemma
  <2> QED
    BY <1>t, <1>4, <2>1 DEF LockInv
<1>5. CASE LeaveQueue(o)
  BY <1>t, <1>a, <1>5 DEF LeaveQueue, LockInv
<1>6. CASE ReleaseFails(o)
  BY <1>t, <1>a, <1>6 DEF ReleaseFails, LockInv
<1>7. CASE Operate(o)
  BY <1>t, <1>a, <1>7 DEF Operate, LockInv
<1>8. CASE Crash(o) \/ Reclaim(o)
  BY <1>t, <1>a, <1>8 DEF Crash, Reclaim, LockInv
<1>9. CASE \/ ListSpool(o) \/ ListRejected(o) \/ ReplayAppend(o)
           \/ ReplayReadFails(o) \/ RemoveReplayed(o) \/ RemoveFails(o)
           \/ MarkIndeterminate(o) \/ MarkFails(o)
  BY <1>t, <1>4, <1>9 DEF ListSpool, ListRejected, ReplayAppend, ReplayReadFails,
     RemoveReplayed, RemoveFails, MarkIndeterminate, MarkFails
<1>10. CASE \/ AppendIntent(o) \/ AppendOutcome(o) \/ AppendNote(o)
            \/ NextSequence(o) \/ NextSequenceFails(o)
            \/ CommitSpoolFile(o) \/ SpoolFileFails(o)
  BY <1>t, <1>4, <1>10 DEF AppendIntent, AppendOutcome, AppendNote, Replayed,
     NextSequence, NextSequenceFails, CommitSpoolFile, SpoolFileFails
<1> QED
  BY <1>1, <1>2, <1>3, <1>5, <1>6, <1>7, <1>8, <1>9, <1>10 DEF Move, Step

-----------------------------------------------------------------------------
(***************************************************************************)
(* The spool                                                                *)
(***************************************************************************)

\* How one step changes the spool, the quarantine and the sequence file: a file
\* is removed, quarantined or written, or a number is drawn.
LEMMA SpoolChange ==
  ASSUME JournalInv, NEW o \in Ops, Move(o)
  PROVE  \/ UNCHANGED <<spool, quarantine, sequence>>
         \/ /\ pc[o] \in {"remove", "removeFail"}
            /\ \E e \in HeadOf(o) : spool' = spool \ {e}
            /\ UNCHANGED <<quarantine, sequence>>
         \/ /\ pc[o] = "mark" /\ pc'[o] \in {"sequence", "release"}
            /\ \E e \in HeadOf(o) : /\ spool' = spool \ {e}
                                    /\ quarantine' = quarantine \cup {e}
            /\ UNCHANGED sequence
         \/ /\ pc[o] = "file" /\ pc'[o] = "release"
            /\ spool' = spool \cup {SpoolEntry(o)}
            /\ UNCHANGED <<quarantine, sequence>>
         \/ /\ pc[o] = "sequence" /\ sequence' = sequence + 1
            /\ UNCHANGED <<spool, quarantine>>
<1>t. TypeOK /\ LastSequence = sequence
  BY LastSequenceLemma DEF JournalInv
<1> USE DEF TypeOK, store, Goto, Tell, ReplayFailed, Unspooled
<1>1. CASE RemoveReplayed(o)
  BY <1>t, <1>1 DEF RemoveReplayed
<1>2. CASE RemoveFails(o)
  BY <1>t, <1>2 DEF RemoveFails
<1>3. CASE MarkIndeterminate(o)
  BY <1>t, <1>3 DEF MarkIndeterminate
<1>4. CASE NextSequence(o)
  BY <1>t, <1>4 DEF NextSequence
<1>5. CASE NextSequenceFails(o)
  BY <1>t, <1>5 DEF NextSequenceFails
<1>6. CASE CommitSpoolFile(o)
  BY <1>t, <1>6 DEF CommitSpoolFile
<1>7. CASE SpoolFileFails(o)
  BY <1>t, <1>7 DEF SpoolFileFails
<1>8. CASE Start(o) \/ EnterQueue(o) \/ QueueUnavailable(o) \/ ListSpool(o)
           \/ ListRejected(o) \/ ReplayAppend(o) \/ ReplayReadFails(o)
           \/ MarkFails(o)
  BY <1>8 DEF Start, EnterQueue, QueueUnavailable, ListSpool, ListRejected,
     ReplayAppend, ReplayReadFails, MarkFails
<1>9. CASE AppendIntent(o) \/ AppendOutcome(o) \/ AppendNote(o)
           \/ LeaveQueue(o) \/ ReleaseFails(o) \/ Operate(o) \/ Crash(o) \/ Reclaim(o)
  BY <1>9 DEF AppendIntent, AppendOutcome, AppendNote, LeaveQueue,
     ReleaseFails, Operate, Crash, Reclaim
<1> QED
  BY <1>1, <1>2, <1>3, <1>4, <1>5, <1>6, <1>7, <1>8, <1>9 DEF Move, Step

\* An operation that is about to write its record has just drawn its number.
LEMMA NumberDrawn ==
  ASSUME JournalInv, NEW o \in Ops, Move(o),
         pc'[o] = "file"
  PROVE  /\ pc[o] = "sequence" /\ sequence' = sequence + 1
         /\ UNCHANGED <<spool, quarantine>>
<1>t. TypeOK /\ LastSequence = sequence
  BY LastSequenceLemma DEF JournalInv
<1> USE DEF TypeOK, Goto, Tell, ReplayFailed, Unspooled
<1>1. CASE NextSequence(o)
  BY <1>t, <1>1 DEF NextSequence
<1>2. CASE Start(o) \/ EnterQueue(o) \/ QueueUnavailable(o) \/ ListSpool(o)
           \/ ListRejected(o) \/ ReplayAppend(o) \/ ReplayReadFails(o)
           \/ RemoveReplayed(o) \/ RemoveFails(o)
  BY <1>t, <1>2 DEF Start, EnterQueue, QueueUnavailable, ListSpool,
     ListRejected, ReplayAppend, ReplayReadFails, RemoveReplayed, RemoveFails
<1>3. CASE MarkIndeterminate(o) \/ MarkFails(o) \/ AppendIntent(o)
           \/ AppendOutcome(o) \/ AppendNote(o) \/ NextSequenceFails(o)
  BY <1>t, <1>3 DEF MarkIndeterminate, MarkFails, AppendIntent,
     AppendOutcome, AppendNote, NextSequenceFails, Replayed
<1>4. CASE CommitSpoolFile(o) \/ SpoolFileFails(o) \/ LeaveQueue(o)
           \/ ReleaseFails(o) \/ Operate(o) \/ Crash(o) \/ Reclaim(o)
  BY <1>t, <1>4 DEF CommitSpoolFile, SpoolFileFails, LeaveQueue,
     ReleaseFails, Operate, Crash, Reclaim
<1> QED
  BY <1>1, <1>2, <1>3, <1>4 DEF Move, Step

\* Numbers stay distinct and bounded: the one that is written was drawn, under
\* the lock that is still held, above all the others.
LEMMA NumberStep ==
  ASSUME JournalInv, NEW o \in Ops, Move(o)
  PROVE  NumberInv'
<1>t. TypeOK /\ LockInv /\ NumberInv /\ ReplayInv
  BY DEF JournalInv
<1>f. /\ \A p \in Ops \ {o} : pc'[p] = pc[p]
      /\ HeadOf(o) \subseteq Entry
      /\ pc[o] \in {"remove", "removeFail", "mark"} => HeadOf(o) \subseteq spool
  BY <1>t, FrameLemma, FailureTypes DEF HeadOf, ReplayInv
<1>file. pc'[o] = "file" => /\ pc[o] = "sequence" /\ sequence' = sequence + 1
                            /\ UNCHANGED <<spool, quarantine>>
  BY NumberDrawn
<1>other. ASSUME pc[o] \in Locked, NEW p \in Ops \ {o}
          PROVE  pc'[p] # "file"
  BY <1>t, <1>f, <1>other DEF LockInv, Locked
<1> USE DEF TypeOK, NumberInv, Queued, Entry
<1>1. CASE UNCHANGED <<spool, quarantine, sequence>>
  BY <1>t, <1>f, <1>file, <1>1
<1>2. CASE pc[o] \in {"remove", "removeFail"}
           /\ (\E e \in HeadOf(o) : spool' = spool \ {e})
           /\ UNCHANGED <<quarantine, sequence>>
  BY <1>t, <1>f, <1>file, <1>other, <1>2 DEF Locked
<1>3. CASE /\ pc[o] = "mark" /\ pc'[o] \in {"sequence", "release"}
           /\ \E e \in HeadOf(o) : /\ spool' = spool \ {e}
                                   /\ quarantine' = quarantine \cup {e}
           /\ UNCHANGED sequence
  <2>1. (spool \cup quarantine)' = spool \cup quarantine
    BY <1>f, <1>3
  <2> QED
    BY <1>t, <1>f, <1>other, <1>3, <2>1 DEF Locked
<1>4. CASE /\ pc[o] = "file" /\ pc'[o] = "release"
           /\ spool' = spool \cup {SpoolEntry(o)}
           /\ UNCHANGED <<quarantine, sequence>>
  <2>1. SpoolEntry(o).seq = sequence
    BY DEF SpoolEntry
  <2>2. \A p \in Ops : pc'[p] # "file"
    BY <1>4, <1>other DEF Locked
  <2> QED
    BY <1>t, <1>4, <2>1, <2>2
<1>5. CASE /\ pc[o] = "sequence" /\ sequence' = sequence + 1
           /\ UNCHANGED <<spool, quarantine>>
  BY <1>t, <1>f, <1>other, <1>5 DEF Locked
<1> QED
  BY <1>1, <1>2, <1>3, <1>4, <1>5, SpoolChange

\* How one step changes the log: an operation in the queue appends the head of
\* its replay, or its own record once its replay is done.
LEMMA LogChange ==
  ASSUME JournalInv, NEW o \in Ops, Move(o)
  PROVE  \/ UNCHANGED log
         \/ /\ pc[o] = "replay" /\ todo' = todo
            /\ UNCHANGED <<task, spool, quarantine>>
            /\ \E r \in Results, e \in HeadOf(o) :
                 /\ AppendRecord(e.op, e.phase, r)
                 /\ pc'[o] \in {"remove", "removeFail"} =>
                      r \in {"committed", "postCommit"}
                 /\ answer' = answer \/ (task[o] # "finish" /\ Tell(o, "refused"))
         \/ /\ Replayed(o) /\ todo' = todo
            /\ UNCHANGED <<task, spool, quarantine>>
            /\ \E r \in Results, ph \in {"intent", "outcome", "note"} :
                 /\ AppendRecord(o, ph, r)
                 /\ ph = "intent" <=> task[o] = "begin"
                 /\ ph = "outcome" <=> task[o] = "finish"
                 /\ pc'[o] \in {"release", "sequence"}
                 /\ \/ answer' = answer
                    \/ Tell(o, "ok") /\ r = "committed"
                    \/ Tell(o, "refused") /\ task[o] # "finish"
                    \/ Tell(o, "unknown")
<1>t. TypeOK /\ HandleInv
  BY DEF JournalInv
<1> USE DEF TypeOK, store, Goto, Tell, ReplayFailed
<1>1. CASE ReplayAppend(o)
  BY <1>t, <1>1 DEF ReplayAppend
<1>2. CASE AppendIntent(o)
  BY <1>t, <1>2 DEF AppendIntent, Replayed
<1>3. CASE AppendOutcome(o)
  BY <1>t, <1>3 DEF AppendOutcome, Replayed
<1>4. CASE AppendNote(o)
  BY <1>t, <1>4 DEF AppendNote, Replayed
<1>5. CASE Start(o) \/ EnterQueue(o) \/ QueueUnavailable(o) \/ ListSpool(o)
           \/ ListRejected(o) \/ ReplayReadFails(o) \/ RemoveReplayed(o)
           \/ RemoveFails(o) \/ MarkIndeterminate(o) \/ MarkFails(o)
  BY <1>5 DEF Start, EnterQueue, QueueUnavailable, ListSpool, ListRejected,
     ReplayReadFails, RemoveReplayed, RemoveFails, MarkIndeterminate, MarkFails
<1>6. CASE NextSequence(o) \/ NextSequenceFails(o) \/ CommitSpoolFile(o)
           \/ SpoolFileFails(o) \/ LeaveQueue(o) \/ ReleaseFails(o)
           \/ Operate(o) \/ Crash(o) \/ Reclaim(o)
  BY <1>6 DEF NextSequence, NextSequenceFails, CommitSpoolFile, SpoolFileFails,
     LeaveQueue, ReleaseFails, Operate, Crash, Reclaim
<1> QED
  BY <1>1, <1>2, <1>3, <1>4, <1>5, <1>6 DEF Move, Step

\* An operation that has spooled its record does nothing more in the journal.
LEMMA SettledLemma ==
  ASSUME TypeOK, NEW o \in Ops, Move(o),
         pc[o] \in {"release", "done", "crashed"}
  PROVE  /\ task' = task
         /\ \/ pc'[o] \in {"release", "done", "crashed"}
            \/ pc'[o] = "run" /\ task[o] = "begin" /\ answer[o] = "ok"
         /\ answer'[o] = "ok" => answer[o] = "ok"
<1> USE DEF TypeOK, Goto, Tell
<1>1. CASE LeaveQueue(o)
  BY <1>1 DEF LeaveQueue
<1>2. CASE ReleaseFails(o)
  BY <1>2 DEF ReleaseFails
<1>3. CASE Crash(o) \/ Reclaim(o)
  BY <1>3 DEF Crash, Reclaim
<1>4. CASE Start(o) \/ EnterQueue(o) \/ QueueUnavailable(o) \/ ListSpool(o)
           \/ ListRejected(o) \/ ReplayReadFails(o) \/ RemoveReplayed(o)
           \/ RemoveFails(o) \/ MarkIndeterminate(o) \/ MarkFails(o)
  BY <1>4 DEF Start, EnterQueue, QueueUnavailable, ListSpool, ListRejected,
     ReplayReadFails, RemoveReplayed, RemoveFails, MarkIndeterminate, MarkFails
<1>5. CASE ReplayAppend(o) \/ AppendIntent(o) \/ AppendOutcome(o)
           \/ AppendNote(o) \/ NextSequence(o) \/ NextSequenceFails(o)
           \/ CommitSpoolFile(o) \/ SpoolFileFails(o) \/ Operate(o)
  BY <1>5 DEF ReplayAppend, AppendIntent, AppendOutcome, AppendNote, Replayed,
     NextSequence, NextSequenceFails, CommitSpoolFile, SpoolFileFails, Operate
<1> QED
  BY <1>1, <1>2, <1>3, <1>4, <1>5 DEF Move, Step

\* Spooled records belong to operations that are done with the journal.
LEMMA EntryStep ==
  ASSUME JournalInv, NEW o \in Ops, Move(o)
  PROVE  EntryInv'
<1>t. TypeOK /\ EntryInv /\ HandleInv /\ ReplayInv
  BY DEF JournalInv
<1>f. /\ \A p \in Ops \ {o} : /\ pc'[p] = pc[p] /\ task'[p] = task[p]
                              /\ answer'[p] = answer[p]
      /\ pc[o] \in {"remove", "removeFail", "mark"} => HeadOf(o) \subseteq spool
  BY <1>t, FrameLemma DEF HeadOf, ReplayInv
<1>old. ASSUME NEW e \in Queued
        PROVE  /\ pc'[e.op] \in {"release", "done", "crashed"}
               /\ \/ e.phase = "outcome" /\ task'[e.op] \in {"finish", "emergency"}
                  \/ /\ e.phase = "skipped" /\ task'[e.op] = "begin"
                     /\ answer'[e.op] # "ok"
  <2>1. e \in Entry
    BY <1>t DEF TypeOK, Queued
  <2>2. CASE e.op = o
    <3>1. pc[o] \in {"release", "done", "crashed"}
      BY <1>t, <2>2 DEF EntryInv
    <3>2. /\ task' = task
          /\ \/ pc'[o] \in {"release", "done", "crashed"}
             \/ pc'[o] = "run" /\ task[o] = "begin" /\ answer[o] = "ok"
          /\ answer'[o] = "ok" => answer[o] = "ok"
      BY <1>t, <3>1, SettledLemma
    <3> QED
      BY <1>t, <2>2, <3>2 DEF EntryInv
  <2>3. CASE e.op # o
    BY <1>t, <1>f, <2>1, <2>3 DEF EntryInv, Entry
  <2> QED
    BY <2>2, <2>3
<1>1. CASE Queued' \subseteq Queued
  BY <1>old, <1>1, <1>t DEF EntryInv
<1>2. CASE /\ pc[o] = "file" /\ pc'[o] = "release"
           /\ spool' = spool \cup {SpoolEntry(o)}
           /\ UNCHANGED <<quarantine, sequence>>
  <2>1. task'[o] = task[o] /\ answer'[o] # "ok"
    <3>1. CommitSpoolFile(o) \/ SpoolFileFails(o)
      BY <1>t, <1>2 DEF Move, Step, Start, EnterQueue, QueueUnavailable, ListSpool,
         ListRejected, ReplayReadFails, RemoveReplayed, RemoveFails,
         MarkIndeterminate, MarkFails, ReplayAppend, AppendIntent,
         AppendOutcome, AppendNote, Replayed, NextSequence, NextSequenceFails,
         LeaveQueue, ReleaseFails, Operate, Crash, Reclaim, Goto, TypeOK
    <3> QED
      BY <1>t, <3>1 DEF CommitSpoolFile, SpoolFileFails, Unspooled, Tell, TypeOK
  <2>2. SpoolEntry(o).op = o
        /\ SpoolEntry(o).phase = (IF task[o] = "begin" THEN "skipped" ELSE "outcome")
    BY DEF SpoolEntry
  <2>3. task[o] \in {"begin", "finish", "emergency"}
    BY <1>t, <1>2 DEF HandleInv, HandleOf, TypeOK, Tasks
  <2>4. \A e \in Queued : e.op # o
    BY <1>2, <1>t DEF EntryInv
  <2>5. Queued' = Queued \cup {SpoolEntry(o)}
    BY <1>2 DEF Queued
  <2>6. \A d, e \in Queued' : d.op = e.op => d = e
    BY <1>t, <2>2, <2>4, <2>5 DEF EntryInv
  <2>7. \A e \in Queued' :
          /\ pc'[e.op] \in {"release", "done", "crashed"}
          /\ \/ e.phase = "outcome" /\ task'[e.op] \in {"finish", "emergency"}
             \/ e.phase = "skipped" /\ task'[e.op] = "begin" /\ answer'[e.op] # "ok"
    BY <1>2, <1>old, <2>1, <2>2, <2>3, <2>5
  <2> QED
    BY <2>6, <2>7 DEF EntryInv
<1> QED
  BY <1>1, <1>2, <1>f, SpoolChange DEF Queued

-----------------------------------------------------------------------------
(***************************************************************************)
(* Replay                                                                   *)
(***************************************************************************)

\* The log never forgets, and what one step adds to it is named by LogChange.
LEMMA LogGrows ==
  ASSUME JournalInv, NEW o \in Ops, Move(o)
  PROVE  /\ \A q \in Ops, k \in Phases : Logged(q, k) => Logged(q, k)'
         /\ \A q \in Ops : Paired(q) => Paired(q)'
         /\ \A q \in Ops : Logged(q, "skipped")' =>
              \/ Logged(q, "skipped")
              \/ \E e \in spool : e.op = q /\ e.phase = "skipped"
<1>t. TypeOK /\ ReplayInv
  BY DEF JournalInv
<1>1. CASE UNCHANGED log
  BY <1>1 DEF Logged, Paired
<1>2. ASSUME pc[o] = "replay", NEW r \in Results, NEW e \in HeadOf(o),
             AppendRecord(e.op, e.phase, r)
      PROVE  /\ \A q \in Ops, k \in Phases : Logged(q, k) => Logged(q, k)'
             /\ \A q \in Ops : Paired(q) => Paired(q)'
             /\ \A q \in Ops : Logged(q, "skipped")' =>
                  \/ Logged(q, "skipped")
                  \/ e \in spool /\ e.op = q /\ e.phase = "skipped"
  <2>1. e \in Entry /\ e \in spool /\ "skipped" \in Phases
    BY <1>t, <1>2 DEF HeadOf, ReplayInv, TypeOK, Phases
  <2> QED
    BY <1>t, <1>2, <2>1, AppendLemma DEF Entry, TypeOK
<1>3. ASSUME NEW r \in Results, NEW ph \in {"intent", "outcome", "note"},
             AppendRecord(o, ph, r)
      PROVE  /\ \A q \in Ops, k \in Phases : Logged(q, k) => Logged(q, k)'
             /\ \A q \in Ops : Paired(q) => Paired(q)'
             /\ \A q \in Ops : Logged(q, "skipped")' => Logged(q, "skipped")
  <2>1. ph \in Phases /\ "skipped" \in Phases /\ ph # "skipped"
    BY DEF Phases
  <2> QED
    BY <1>t, <1>3, <2>1, AppendLemma DEF TypeOK
<1> QED
  BY <1>1, <1>2, <1>3, LogChange

\* The listing of a replay stays exact: only its own operation changes the
\* spool, and it removes the head after appending it.
LEMMA ReplayStep ==
  ASSUME JournalInv, NEW o \in Ops, Move(o)
  PROVE  ReplayInv'
<1>t. TypeOK /\ LockInv /\ NumberInv /\ ReplayInv
  BY DEF JournalInv
<1> DEFINE Replaying(p) == pc[p] \in {"replay", "remove", "removeFail", "mark"}
           Good(p) == /\ Replaying(p) => todo[p] = spool /\ quarantine = {}
                      /\ pc[p] \in {"remove", "removeFail"} =>
                           \A e \in HeadOf(p) : Logged(e.op, e.phase)
<1>other. ASSUME NEW p \in Ops \ {o}
          PROVE  Good(p)'
  <2>1. CASE pc[p] \in Locked
    <3>1. pc[o] \notin Locked
      BY <1>t, <2>1 DEF LockInv
    <3>2. UNCHANGED <<log, spool, quarantine, sequence>>
          /\ pc'[p] = pc[p] /\ todo'[p] = todo[p]
      BY <1>t, <3>1, FrameLemma
    <3> QED
      BY <1>t, <3>2 DEF ReplayInv, HeadOf, Logged
  <2>2. CASE pc[p] \notin Locked
    BY <1>t, <2>2, FrameLemma DEF Locked
  <2> QED
    BY <2>1, <2>2
<1>self. Good(o)'
  <2> USE DEF TypeOK, store, Goto, Tell, ReplayFailed, Unspooled
  <2>1. CASE ListSpool(o)
    BY <1>t, <2>1 DEF ListSpool
  <2>2. CASE ReplayAppend(o)
    <3> PICK e \in HeadOf(o), r \in Results :
          /\ AppendRecord(e.op, e.phase, r)
          /\ \/ r = "committed" /\ Goto(o, "remove") /\ UNCHANGED answer
             \/ r = "postCommit" /\ Goto(o, "removeFail") /\ UNCHANGED answer
             \/ r = "indeterminate" /\ Goto(o, "mark") /\ UNCHANGED answer
             \/ r = "notCommitted" /\ ReplayFailed(o)
      BY <2>2 DEF ReplayAppend
    <3>1. UNCHANGED <<todo, spool, quarantine>> /\ pc[o] = "replay"
      BY <2>2 DEF ReplayAppend
    <3>2. HeadOf(o)' = HeadOf(o)
      BY <3>1 DEF HeadOf
    <3>3. HeadOf(o) \subseteq Entry /\ HeadOf(o) \subseteq spool
      BY <1>t, <3>1 DEF HeadOf, ReplayInv
    <3>4. \A d \in HeadOf(o) : d = e
      BY <1>t, <3>3 DEF HeadOf, NumberInv, Queued, Entry
    <3>5. r \in {"committed", "postCommit"} => Logged(e.op, e.phase)'
      BY <1>t, <3>3, AppendLemma DEF Entry
    <3>6. pc'[o] \in {"remove", "removeFail"} => r \in {"committed", "postCommit"}
      BY <1>t
    <3>7. pc'[o] \in {"remove", "removeFail"} =>
            \A d \in HeadOf(o)' : Logged(d.op, d.phase)'
      BY <3>2, <3>4, <3>5, <3>6
    <3> QED
      BY <1>t, <3>1, <3>7 DEF ReplayInv
  <2>3. CASE RemoveReplayed(o)
    <3>1. PICK e \in HeadOf(o) : /\ spool' = spool \ {e}
                                 /\ todo' = [todo EXCEPT ![o] = @ \ {e}]
      BY <2>3 DEF RemoveReplayed
    <3>2. pc'[o] \notin {"remove", "removeFail"} /\ UNCHANGED quarantine
          /\ pc[o] \in {"remove", "removeFail"}
      BY <1>t, <2>3 DEF RemoveReplayed
    <3> QED
      BY <1>t, <3>1, <3>2 DEF ReplayInv
  <2>4. CASE Start(o) \/ EnterQueue(o) \/ QueueUnavailable(o) \/ ListRejected(o)
             \/ ReplayReadFails(o) \/ RemoveFails(o) \/ MarkIndeterminate(o)
             \/ MarkFails(o) \/ Operate(o) \/ Crash(o) \/ Reclaim(o)
    BY <1>t, <2>4 DEF Start, EnterQueue, QueueUnavailable, ListRejected,
       ReplayReadFails, RemoveFails, MarkIndeterminate, MarkFails, Operate, Crash, Reclaim
  <2>5. CASE AppendIntent(o) \/ AppendOutcome(o) \/ AppendNote(o)
             \/ NextSequence(o) \/ NextSequenceFails(o) \/ CommitSpoolFile(o)
             \/ SpoolFileFails(o) \/ LeaveQueue(o) \/ ReleaseFails(o)
    BY <1>t, <2>5 DEF AppendIntent, AppendOutcome, AppendNote, Replayed,
       NextSequence, NextSequenceFails, CommitSpoolFile, SpoolFileFails,
       LeaveQueue, ReleaseFails
  <2> QED
    BY <2>1, <2>2, <2>3, <2>4, <2>5 DEF Move, Step
<1> QED
  BY <1>other, <1>self DEF ReplayInv

-----------------------------------------------------------------------------
(***************************************************************************)
(* Begin, run, finish                                                       *)
(***************************************************************************)

\* An operation runs and finishes only under a logged intent; one whose outcome
\* says it was skipped has come to its end.
LEMMA HandleStep ==
  ASSUME JournalInv, NEW o \in Ops, Move(o)
  PROVE  HandleInv'
<1>t. TypeOK /\ HandleInv /\ EntryInv /\ ReplayInv
  BY DEF JournalInv
<1>h. HandleOf(o)
  BY <1>t DEF HandleInv, HandleOf
<1>g. /\ \A q \in Ops, k \in Phases : Logged(q, k) => Logged(q, k)'
      /\ \A q \in Ops : Logged(q, "skipped")' =>
           \/ Logged(q, "skipped")
           \/ \E e \in spool : e.op = q /\ e.phase = "skipped"
      /\ {"intent", "outcome", "skipped"} \subseteq Phases
  BY LogGrows DEF Phases
<1>s. \A q \in Ops : Logged(q, "skipped")' =>
        task[q] = "begin" /\ answer[q] # "ok"
        /\ pc[q] \in {"release", "done", "crashed"}
  BY <1>t, <1>g DEF HandleInv, HandleOf, EntryInv, Queued
<1>other. ASSUME NEW p \in Ops \ {o}
          PROVE  HandleOf(p)'
  BY <1>t, <1>g, <1>s, FrameLemma DEF HandleInv, HandleOf
<1>k. Logged(o, "skipped")' => task'[o] = "begin" /\ answer'[o] # "ok"
                               /\ pc'[o] \in {"release", "done", "crashed"}
  <2> SUFFICES ASSUME Logged(o, "skipped")'
               PROVE  task'[o] = "begin" /\ answer'[o] # "ok"
                      /\ pc'[o] \in {"release", "done", "crashed"}
    OBVIOUS
  <2>1. task[o] = "begin" /\ answer[o] # "ok"
        /\ pc[o] \in {"release", "done", "crashed"}
    BY <1>s
  <2> QED
    BY <1>t, <2>1, SettledLemma
<1>i. /\ Logged(o, "intent") => Logged(o, "intent")'
  BY <1>g
<1>self. HandleOf(o)'
  <2> USE DEF TypeOK, store, Goto, Tell, ReplayFailed, Unspooled
  <2>1. CASE AppendIntent(o)
    <3>1. PICK r \in Results :
            /\ AppendRecord(o, "intent", r)
            /\ \/ r = "committed" /\ Tell(o, "ok") /\ Goto(o, "release")
               \/ r = "notCommitted" /\ Tell(o, "refused") /\ Goto(o, "release")
               \/ MayExist(r) /\ Goto(o, "sequence") /\ UNCHANGED answer
      BY <2>1 DEF AppendIntent
    <3>2. r = "committed" => Logged(o, "intent")'
      BY <1>t, <1>g, <3>1, AppendLemma
    <3>3. /\ pc[o] = "replay" /\ task[o] = "begin"
          /\ UNCHANGED <<task, applied>>
      BY <2>1 DEF AppendIntent, Replayed
    <3> QED
      BY <1>t, <1>h, <1>i, <1>k, <3>1, <3>2, <3>3 DEF HandleOf
  <2>2. CASE AppendOutcome(o)
    <3>1. /\ UNCHANGED <<task, applied>> /\ task[o] = "finish"
          /\ pc[o] = "replay" /\ pc'[o] \in {"release", "sequence"}
          /\ \/ answer'[o] \in {"ok", "unknown"} /\ pc'[o] = "release"
             \/ answer'[o] = answer[o]
      BY <1>t, <2>2 DEF AppendOutcome, Replayed
    <3> QED
      BY <1>t, <1>h, <1>i, <1>k, <3>1 DEF HandleOf
  <2>3. CASE AppendNote(o)
    <3>1. /\ UNCHANGED <<task, applied>> /\ task[o] = "note"
          /\ pc[o] = "replay" /\ pc'[o] = "release"
      BY <1>t, <2>3 DEF AppendNote, Replayed
    <3> QED
      BY <1>t, <1>h, <1>i, <1>k, <3>1 DEF HandleOf
  <2>4. CASE ReplayAppend(o)
    <3>1. /\ UNCHANGED <<task, applied>> /\ pc[o] = "replay"
          /\ \/ /\ pc'[o] \in {"remove", "removeFail", "mark"}
                /\ answer'[o] = answer[o]
             \/ /\ task[o] = "finish" /\ pc'[o] = "sequence"
                /\ answer'[o] = answer[o]
             \/ /\ task[o] # "finish" /\ pc'[o] = "release"
                /\ answer'[o] = "refused"
      BY <1>t, <2>4 DEF ReplayAppend
    <3>2. task[o] # "finish" => task[o] \in {"begin", "note"}
      BY <1>t, <1>h, <3>1 DEF HandleOf, Tasks
    <3> QED
      BY <1>t, <1>h, <1>i, <1>k, <3>1, <3>2 DEF HandleOf
  <2>5. CASE RemoveReplayed(o)
    <3>1. /\ UNCHANGED <<task, applied>> /\ pc[o] \in {"remove", "removeFail"}
          /\ \/ pc'[o] = "replay" /\ answer'[o] = answer[o]
             \/ /\ task[o] = "finish" /\ pc'[o] = "sequence"
                /\ answer'[o] = answer[o]
             \/ /\ task[o] # "finish" /\ pc'[o] = "release"
                /\ answer'[o] = "refused"
      BY <1>t, <2>5 DEF RemoveReplayed
    <3>2. task[o] # "finish" => task[o] \in {"begin", "note"}
      BY <1>t, <1>h, <3>1 DEF HandleOf, Tasks
    <3> QED
      BY <1>t, <1>h, <1>i, <1>k, <3>1, <3>2 DEF HandleOf
  <2>6. CASE RemoveFails(o) \/ MarkIndeterminate(o) \/ MarkFails(o)
    BY <1>t, <1>h, <1>i, <1>k, <2>6
       DEF RemoveFails, MarkIndeterminate, MarkFails, HandleOf, Tasks
  <2>7. CASE ListSpool(o) \/ ListRejected(o) \/ ReplayReadFails(o)
    BY <1>t, <1>h, <1>i, <1>k, <2>7
       DEF ListSpool, ListRejected, ReplayReadFails, HandleOf, Tasks
  <2>8. CASE NextSequence(o) \/ NextSequenceFails(o)
    BY <1>t, <1>h, <1>i, <1>k, <2>8 DEF NextSequence, NextSequenceFails, HandleOf
  <2>9. CASE CommitSpoolFile(o) \/ SpoolFileFails(o)
    BY <1>t, <1>h, <1>i, <1>k, <2>9 DEF CommitSpoolFile, SpoolFileFails, HandleOf
  <2>10. CASE Start(o) \/ EnterQueue(o) \/ LeaveQueue(o) \/ Crash(o) \/ Reclaim(o)
    BY <1>t, <1>h, <1>i, <1>k, <2>10
       DEF Start, EnterQueue, LeaveQueue, Crash, Reclaim, HandleOf
  <2>11. CASE QueueUnavailable(o)
    <3>1. /\ UNCHANGED applied /\ pc[o] = "acquire"
          /\ \/ /\ task[o] \in {"begin", "note"} /\ answer'[o] = "refused"
                /\ pc'[o] = "done" /\ UNCHANGED task
             \/ /\ task[o] = "finish" /\ task'[o] = "emergency"
                /\ UNCHANGED <<pc, answer>>
             \/ /\ task[o] = "emergency" /\ answer'[o] = "unkept"
                /\ pc'[o] = "done" /\ UNCHANGED task
      BY <1>t, <2>11 DEF QueueUnavailable
    <3> QED
      BY <1>t, <1>h, <1>i, <1>k, <3>1 DEF HandleOf
  <2>12. CASE ReleaseFails(o)
    <3>1. /\ UNCHANGED <<task, applied>> /\ pc[o] = "release" /\ pc'[o] = "done"
          /\ \/ answer[o] # "ok" /\ answer'[o] \in {answer[o], "unkept"}
             \/ answer[o] = "ok" /\ task[o] = "finish" /\ answer'[o] = "unreleased"
             \/ answer[o] = "ok" /\ task[o] # "finish" /\ answer'[o] = "refused"
      BY <1>t, <2>12 DEF ReleaseFails
    <3>2. answer[o] = "ok" => task[o] # "emergency"
      BY <1>h DEF HandleOf
    <3>3. task[o] # "finish" /\ task[o] # "emergency" => task[o] \in {"begin", "note"}
      BY <1>t DEF Tasks
    <3> QED
      BY <1>t, <1>h, <1>i, <1>k, <3>1, <3>2, <3>3 DEF HandleOf
  <2>13. CASE Operate(o)
    BY <1>t, <1>h, <1>i, <1>k, <2>13 DEF Operate, HandleOf
  <2> QED
    BY <2>1, <2>2, <2>3, <2>4, <2>5, <2>6, <2>7, <2>8, <2>9, <2>10, <2>11,
       <2>12, <2>13 DEF Move, Step
<1> QED
  BY <1>other, <1>self DEF HandleInv, HandleOf

-----------------------------------------------------------------------------
(***************************************************************************)
(* What an operation is told                                                *)
(***************************************************************************)

\* An outcome that is logged or in the spool stays logged, in the spool or in
\* quarantine.
LEMMA OutcomeStays ==
  ASSUME JournalInv, NEW o \in Ops, Move(o), NEW p \in Ops,
         Logged(p, "outcome") \/ \E e \in Queued : e.op = p /\ e.phase = "outcome"
  PROVE  \/ Logged(p, "outcome")'
         \/ \E e \in Queued' : e.op = p /\ e.phase = "outcome"
<1>t. TypeOK /\ ReplayInv /\ "outcome" \in Phases
  BY DEF JournalInv, Phases
<1>1. CASE Logged(p, "outcome")
  BY <1>t, <1>1, LogGrows
<1>2. ASSUME NEW e \in Queued, e.op = p, e.phase = "outcome"
      PROVE  \/ Logged(p, "outcome")'
             \/ \E d \in Queued' : d.op = p /\ d.phase = "outcome"
  <2>1. CASE e \in Queued'
    BY <1>2, <2>1
  <2>2. CASE e \notin Queued'
    <3>1. pc[o] \in {"remove", "removeFail"} /\ e \in HeadOf(o)
      BY <2>2, SpoolChange DEF Queued
    <3>2. Logged(p, "outcome")
      BY <1>t, <1>2, <3>1 DEF ReplayInv
    <3> QED
      BY <1>t, <3>2, LogGrows
  <2> QED
    BY <2>1, <2>2
<1> QED
  BY <1>1, <1>2

\* "ok" is said only after both records are logged, "kept" only after the
\* outcome is in the spool.
LEMMA AnswerStep ==
  ASSUME JournalInv, NEW o \in Ops, Move(o)
  PROVE  AnswerInv'
<1>t. TypeOK /\ HandleInv /\ AnswerInv
  BY DEF JournalInv
<1>h. HandleOf(o) /\ AnswerOf(o)
  BY <1>t DEF HandleInv, HandleOf, AnswerInv, AnswerOf
<1>p. \A q \in Ops : Paired(q) => Paired(q)'
  BY LogGrows
<1>k. ASSUME NEW p \in Ops, answer[p] = "kept"
      PROVE  \/ Logged(p, "outcome")'
             \/ \E e \in Queued' : e.op = p /\ e.phase = "outcome"
  <2>1. Logged(p, "outcome") \/ \E e \in Queued : e.op = p /\ e.phase = "outcome"
    BY <1>t, <1>k DEF AnswerInv, AnswerOf
  <2> QED
    BY <2>1, OutcomeStays
<1>other. ASSUME NEW p \in Ops \ {o}
          PROVE  AnswerOf(p)'
  BY <1>t, <1>p, <1>k, FrameLemma DEF AnswerInv, AnswerOf
<1>self. AnswerOf(o)'
  <2> USE DEF TypeOK, store, Goto, Tell, ReplayFailed, Unspooled
  <2>1. CASE AppendOutcome(o)
    <3>1. PICK r \in Results :
            /\ AppendRecord(o, "outcome", r)
            /\ \/ r = "committed" /\ Tell(o, "ok") /\ Goto(o, "release")
               \/ MayExist(r) /\ Tell(o, "unknown") /\ Goto(o, "release")
               \/ r = "notCommitted" /\ Goto(o, "sequence") /\ UNCHANGED answer
      BY <2>1 DEF AppendOutcome
    <3>2. task[o] = "finish" /\ pc[o] = "replay" /\ UNCHANGED task
      BY <2>1 DEF AppendOutcome, Replayed
    <3>3. Logged(o, "intent") /\ answer[o] = "none"
      BY <1>h, <3>2 DEF HandleOf
    <3>4. r = "committed" => Paired(o)'
      BY <1>t, <3>1, <3>3, AppendLemma DEF Phases
    <3>5. answer'[o] = "ok" => r = "committed"
      BY <1>t, <3>1, <3>3
    <3>6. answer'[o] # "kept" /\ pc'[o] # "done"
      BY <1>t, <3>1, <3>3
    <3> QED
      BY <3>4, <3>5, <3>6 DEF AnswerOf
  <2>2. CASE CommitSpoolFile(o)
    <3>1. /\ task[o] # "begin" => SpoolEntry(o) \in Queued'
          /\ SpoolEntry(o).op = o
          /\ task[o] # "begin" => SpoolEntry(o).phase = "outcome"
          /\ answer'[o] = "kept" => task[o] # "begin"
          /\ answer'[o] # "ok"
      BY <1>t, <2>2 DEF CommitSpoolFile, SpoolEntry, Queued
    <3> QED
      BY <3>1 DEF AnswerOf
  <2>3. CASE LeaveQueue(o)
    BY <1>t, <1>h, <1>p, <1>k, <2>3 DEF LeaveQueue, AnswerOf
  <2>4. CASE ReleaseFails(o)
    BY <1>t, <1>h, <1>p, <1>k, <2>4 DEF ReleaseFails, AnswerOf
  <2>5. CASE AppendIntent(o)
    BY <1>t, <1>h, <1>p, <1>k, <2>5 DEF AppendIntent, Replayed, HandleOf, AnswerOf
  <2>6. CASE AppendNote(o)
    BY <1>t, <1>h, <1>p, <1>k, <2>6 DEF AppendNote, Replayed, HandleOf, AnswerOf
  <2>7. CASE ReplayAppend(o)
    BY <1>t, <1>h, <1>p, <1>k, <2>7 DEF ReplayAppend, HandleOf, AnswerOf
  <2>8. CASE RemoveReplayed(o) \/ RemoveFails(o)
    BY <1>t, <1>h, <1>p, <1>k, <2>8 DEF RemoveReplayed, RemoveFails, HandleOf, AnswerOf
  <2>9. CASE MarkIndeterminate(o) \/ MarkFails(o)
    BY <1>t, <1>h, <1>p, <1>k, <2>9 DEF MarkIndeterminate, MarkFails, HandleOf, AnswerOf
  <2>10. CASE ListSpool(o) \/ ListRejected(o) \/ ReplayReadFails(o)
    BY <1>t, <1>h, <1>p, <1>k, <2>10
       DEF ListSpool, ListRejected, ReplayReadFails, HandleOf, AnswerOf
  <2>11. CASE NextSequence(o) \/ NextSequenceFails(o) \/ SpoolFileFails(o)
    BY <1>t, <1>h, <1>p, <1>k, <2>11
       DEF NextSequence, NextSequenceFails, SpoolFileFails, HandleOf, AnswerOf
  <2>12. CASE Start(o) \/ EnterQueue(o) \/ QueueUnavailable(o)
    BY <1>t, <1>h, <1>p, <1>k, <2>12
       DEF Start, EnterQueue, QueueUnavailable, HandleOf, AnswerOf
  <2>13. CASE Operate(o) \/ Crash(o) \/ Reclaim(o)
    BY <1>t, <1>h, <1>p, <1>k, <2>13 DEF Operate, Crash, Reclaim, HandleOf, AnswerOf
  <2> QED
    BY <2>1, <2>2, <2>3, <2>4, <2>5, <2>6, <2>7, <2>8, <2>9, <2>10, <2>11,
       <2>12, <2>13 DEF Move, Step
<1> QED
  BY <1>other, <1>self DEF AnswerInv, AnswerOf

-----------------------------------------------------------------------------
(***************************************************************************)
(* Theorems                                                                 *)
(***************************************************************************)

LEMMA InitLemma == Init => JournalInv
<1> SUFFICES ASSUME Init PROVE JournalInv
  OBVIOUS
<1> USE JournalAssumption DEF Init
<1>1. TypeOK
  <2>1. log \in Seq(Record)
    OBVIOUS
  <2>2. pc \in [Ops -> Labels] /\ answer \in [Ops -> Answers]
    BY DEF Labels, Answers
  <2>3. task \in [Ops -> Tasks]
    BY DEF Tasks
  <2>4. todo \in [Ops -> SUBSET Entry]
    OBVIOUS
  <2>5. litter \in BOOLEAN
    OBVIOUS
  <2>6. /\ spool \in SUBSET Entry /\ quarantine \in SUBSET Entry
        /\ sequence \in Nat /\ lock \in Ops \cup {NoOp}
        /\ applied \in SUBSET Ops
    OBVIOUS
  <2> QED
    BY <2>1, <2>2, <2>3, <2>4, <2>5, <2>6, Zenon DEF TypeOK
<1>2. /\ \A q \in Ops, k \in Phases : ~Logged(q, k)
      /\ "skipped" \in Phases /\ Queued = {}
  BY DEF Logged, Queued, Phases
<1>3. LockInv /\ NumberInv /\ EntryInv /\ ReplayInv
  BY <1>2 DEF LockInv, Locked, NumberInv, EntryInv, ReplayInv
<1>4. HandleInv
  BY <1>2 DEF HandleInv, HandleOf
<1>5. AnswerInv
  BY DEF AnswerInv, AnswerOf
<1> QED
  BY <1>1, <1>3, <1>4, <1>5 DEF JournalInv

LEMMA StepLemma == JournalInv /\ [Next]_vars => JournalInv'
<1> SUFFICES ASSUME JournalInv, [Next]_vars PROVE JournalInv'
  OBVIOUS
<1>1. ASSUME NEW o \in Ops, Move(o)
      PROVE  JournalInv'
  BY <1>1, TypeStep, LockStep, NumberStep, EntryStep, ReplayStep, HandleStep,
     AnswerStep DEF JournalInv
<1>2. CASE UNCHANGED vars
  <2>1. UNCHANGED <<log, spool, quarantine, sequence, litter, lock, pc, task,
                    todo, answer, applied>>
    BY <1>2 DEF vars, store
  <2>2. TypeOK' /\ LockInv' /\ NumberInv' /\ EntryInv'
    BY <2>1 DEF JournalInv, TypeOK, LockInv, NumberInv, EntryInv, Queued
  <2>3. /\ \A q \in Ops, k \in Phases : Logged(q, k)' <=> Logged(q, k)
        /\ \A q \in Ops : Paired(q)' <=> Paired(q)
        /\ \A q \in Ops : HeadOf(q)' = HeadOf(q)
        /\ {"intent", "outcome", "skipped"} \subseteq Phases
        /\ Queued' = Queued
    BY <2>1 DEF Logged, Paired, HeadOf, Queued, Phases
  <2>4. ReplayInv'
    <3>1. \A q \in Ops : HeadOf(q) \subseteq Entry
      BY DEF JournalInv, TypeOK, HeadOf
    <3> QED
      BY <2>1, <2>3, <3>1 DEF JournalInv, ReplayInv, Entry
  <2>5. HandleInv'
    BY <2>1, <2>3 DEF JournalInv, HandleInv, HandleOf
  <2>6. AnswerInv'
    BY <2>1, <2>3 DEF JournalInv, AnswerInv, AnswerOf
  <2> QED
    BY <2>2, <2>4, <2>5, <2>6 DEF JournalInv
<1> QED
  BY <1>1, <1>2 DEF Next, Halt

\* The inductive invariant holds in every reachable state: the lock gives the
\* operation in the queue a spool nobody else changes, from the listing of its
\* replay to its own record (withMutationAuditQueue).
THEOREM JournalInvariant == Spec => []JournalInv
BY InitLemma, StepLemma, PTL DEF Spec

\* Every variable keeps its type.
THEOREM TypeCorrect == Spec => []TypeOK
<1>1. JournalInv => TypeOK
  BY DEF JournalInv
<1> QED
  BY <1>1, JournalInvariant, PTL

\* No operation touches its target without a logged intent, whatever fails in
\* beginMutationAudit.
THEOREM EffectIntent == Spec => []EffectNeedsIntent
<1>1. JournalInv => EffectNeedsIntent
  BY DEF JournalInv, HandleInv, HandleOf, EffectNeedsIntent, TypeOK
<1> QED
  BY <1>1, JournalInvariant, PTL

\* An operation that beginMutationAudit refused has not touched its target.
THEOREM RefusedUntouched == Spec => []RefusedIsUntouched
<1>1. JournalInv => RefusedIsUntouched
  BY DEF JournalInv, HandleInv, HandleOf, RefusedIsUntouched
<1> QED
  BY <1>1, JournalInvariant, PTL

\* An operation for which finishMutationAudit returns no journal error has its
\* intent and then its outcome in the log.
THEOREM OkPaired == Spec => []OkMeansPaired
<1>1. JournalInv => OkMeansPaired
  <2> SUFFICES ASSUME JournalInv, NEW o \in Ops \ Notes,
                      pc[o] = "done", answer[o] = "ok"
               PROVE  Paired(o)
    BY DEF OkMeansPaired
  <2>1. task[o] \in {"finish", "emergency"}
    BY DEF JournalInv, AnswerInv, AnswerOf, HandleInv, HandleOf, TypeOK, Tasks
  <2> QED
    BY <2>1 DEF JournalInv, AnswerInv, AnswerOf
<1> QED
  BY <1>1, JournalInvariant, PTL

\* A spooled outcome is in the log, in the spool or in quarantine for ever.
THEOREM KeptDurable == Spec => []KeptIsDurable
<1>1. JournalInv => KeptIsDurable
  BY DEF JournalInv, AnswerInv, AnswerOf, KeptIsDurable
<1> QED
  BY <1>1, JournalInvariant, PTL

\* A record that says an operation was skipped is true for ever.
THEOREM SkippedTruthful == Spec => []SkippedIsTruthful
<1>1. JournalInv => SkippedIsTruthful
  BY DEF JournalInv, HandleInv, HandleOf, EntryInv, SkippedIsTruthful, TypeOK
<1> QED
  BY <1>1, JournalInvariant, PTL

\* replayMutationAuditSpoolLocked never rejects the numbers the journal wrote.
THEOREM SpoolAccepted == Spec => []OwnSpoolAccepted
<1>1. JournalInv => OwnSpoolAccepted
  <2> SUFFICES ASSUME TypeOK, NumberInv
               PROVE  ValidSequences /\ ~Behind
    BY DEF JournalInv, OwnSpoolAccepted
  <2> QED
    BY DEF NumberInv, ValidSequences, Behind, Sequences, Queued, TypeOK, Entry
<1> QED
  BY <1>1, JournalInvariant, PTL

-----------------------------------------------------------------------------
(***************************************************************************)
(* What a step may never do                                                 *)
(***************************************************************************)

\* One append adds one record: what was appended can be read off the log.
LEMMA AppendedRecord ==
  ASSUME log \in Seq(Record), NEW p \in Ops, NEW ph \in Phases, NEW r \in Results,
         AppendRecord(p, ph, r),
         NEW q \in Ops, NEW k \in Phases,
         log' = Append(log, [op |-> q, phase |-> k])
  PROVE  q = p /\ k = ph
<1>1. log' # log
  <2>1. Len(log') = Len(log) + 1 /\ Len(log) \in Nat
    BY DEF Record
  <2> QED
    BY <2>1
<1>2. log' = Append(log, [op |-> p, phase |-> ph])
  BY <1>1 DEF AppendRecord
<1>3. /\ log'[Len(log) + 1] = [op |-> p, phase |-> ph]
      /\ log'[Len(log) + 1] = [op |-> q, phase |-> k]
  BY <1>2 DEF Record
<1> QED
  BY <1>3

\* A record is appended only by the holder of the lock, as the head of its
\* listing or, when nothing is spooled or in quarantine, as its own.
LEMMA WhoAppends ==
  ASSUME JournalInv, NEW o \in Ops, Move(o),
         NEW q \in Ops, NEW k \in Phases,
         log' = Append(log, [op |-> q, phase |-> k])
  PROVE  /\ quarantine = {}
         /\ \/ \E e \in HeadOf(o) : e.op = q /\ e.phase = k /\ todo[o] = spool
            \/ spool = {} /\ q = o
<1>t. /\ TypeOK /\ ReplayInv /\ log \in Seq(Record)
      /\ {"intent", "outcome", "note"} \subseteq Phases
      /\ HeadOf(o) \subseteq Entry
  BY FailureTypes DEF JournalInv, TypeOK, Phases, HeadOf
<1>1. log' # log
  <2>1. Len(log') = Len(log) + 1 /\ Len(log) \in Nat
    BY <1>t DEF Record
  <2> QED
    BY <2>1
<1>2. CASE /\ pc[o] = "replay"
           /\ \E r \in Results, e \in HeadOf(o) : AppendRecord(e.op, e.phase, r)
  <2>1. PICK r \in Results, e \in HeadOf(o) : AppendRecord(e.op, e.phase, r)
    BY <1>2
  <2>2. e.op \in Ops /\ e.phase \in Phases
    BY <1>t DEF Entry
  <2>3. q = e.op /\ k = e.phase
    BY <1>t, <2>1, <2>2, AppendedRecord
  <2> QED
    BY <1>t, <1>2, <2>3 DEF ReplayInv
<1>3. CASE /\ Replayed(o)
           /\ \E r \in Results, ph \in {"intent", "outcome", "note"} :
                AppendRecord(o, ph, r)
  <2>1. PICK r \in Results, ph \in {"intent", "outcome", "note"} :
          AppendRecord(o, ph, r)
    BY <1>3
  <2>2. q = o
    BY <1>t, <2>1, AppendedRecord
  <2> QED
    BY <1>t, <1>3, <2>2 DEF ReplayInv, Replayed
<1> QED
  BY <1>1, <1>2, <1>3, LogChange

\* beginMutationAudit logs no intent while an outcome is spooled or in
\* quarantine, whatever other operations do between its listing and its append.
THEOREM Barrier == Spec => ReplayBarrier
<1>1. ASSUME JournalInv, [Next]_vars
      PROVE  [\A o \in Ops : log' = Append(log, [op |-> o, phase |-> "intent"])
                => Queued = {}]_vars
  <2>1. CASE UNCHANGED vars
    BY <2>1
  <2>2. ASSUME NEW o \in Ops, Move(o),
               NEW q \in Ops, log' = Append(log, [op |-> q, phase |-> "intent"])
        PROVE  Queued = {}
    <3>1. /\ quarantine = {}
          /\ \/ \E e \in HeadOf(o) : e.phase = "intent" /\ todo[o] = spool
             \/ spool = {}
      BY <1>1, <2>2, WhoAppends DEF Phases
    <3>2. \A e \in spool : e.phase # "intent"
      BY <1>1 DEF JournalInv, EntryInv, Queued
    <3> QED
      BY <3>1, <3>2 DEF Queued, HeadOf
  <2> QED
    BY <1>1, <2>1, <2>2 DEF Next, Halt
<1> QED
  BY <1>1, JournalInvariant, PTL DEF Spec, ReplayBarrier

\* replayMutationAuditSpoolLocked appends the spooled outcomes in the order of
\* their numbers.
THEOREM InOrder == Spec => ReplayInOrder
<1>1. ASSUME JournalInv, [Next]_vars
      PROVE  [\A e \in spool : log' = Append(log, [op |-> e.op, phase |-> e.phase])
                => \A d \in spool : e.seq <= d.seq]_vars
  <2>1. CASE UNCHANGED vars
    BY <2>1
  <2>2. ASSUME NEW o \in Ops, Move(o),
               NEW e \in spool, NEW d \in spool,
               log' = Append(log, [op |-> e.op, phase |-> e.phase])
        PROVE  e.seq <= d.seq
    <3>1. e.op \in Ops /\ e.phase \in Phases
      BY <1>1 DEF JournalInv, TypeOK, Entry
    <3>2. PICK h \in HeadOf(o) : h.op = e.op /\ todo[o] = spool
      BY <1>1, <2>2, <3>1, WhoAppends
    <3>3. h = e
      BY <1>1, <3>2 DEF JournalInv, EntryInv, Queued, HeadOf
    <3> QED
      BY <3>2, <3>3 DEF HeadOf
  <2> QED
    BY <1>1, <2>1, <2>2 DEF Next, Halt
<1> QED
  BY <1>1, JournalInvariant, PTL DEF Spec, ReplayInOrder

\* While a record is in quarantine nobody appends anything to the log.
THEOREM FrozenLog == Spec => QuarantineFreezesLog
<1>1. ASSUME JournalInv, [Next]_vars
      PROVE  [quarantine # {} => UNCHANGED log]_vars
  <2>1. CASE UNCHANGED vars
    BY <2>1
  <2>2. ASSUME NEW o \in Ops, Move(o), quarantine # {}
        PROVE  UNCHANGED log
    BY <1>1, <2>2, LogChange DEF JournalInv, ReplayInv, Replayed
  <2> QED
    BY <1>1, <2>1, <2>2 DEF Next, Halt
<1> QED
  BY <1>1, JournalInvariant, PTL DEF Spec, QuarantineFreezesLog

\* A number that nextMutationSpoolSequence gave out is never given out again,
\* and a record is written under a number above all that are in the spool.
THEOREM FreshNumbers == Spec => NumbersAreFresh
<1>1. ASSUME JournalInv, [Next]_vars
      PROVE  [/\ sequence' >= sequence
              /\ \A o \in Ops : pc[o] # "file" /\ pc'[o] = "file" =>
                   sequence' > sequence
              /\ \A e \in spool' \ spool :
                   sequence = e.seq /\ \A d \in Queued : d.seq < e.seq]_vars
  <2>1. CASE UNCHANGED vars
    BY <2>1
  <2>2. ASSUME NEW o \in Ops, Move(o)
        PROVE  /\ sequence' >= sequence
               /\ \A p \in Ops : pc[p] # "file" /\ pc'[p] = "file" =>
                    sequence' > sequence
               /\ \A e \in spool' \ spool :
                    sequence = e.seq /\ \A d \in Queued : d.seq < e.seq
    <3>1. sequence \in Nat
      BY <1>1 DEF JournalInv, TypeOK
    <3>2. sequence' >= sequence
      BY <1>1, <2>2, <3>1, SpoolChange
    <3>3. ASSUME NEW e \in spool' \ spool
          PROVE  sequence = e.seq /\ \A d \in Queued : d.seq < e.seq
      <4>1. pc[o] = "file" /\ e = SpoolEntry(o)
        BY <1>1, <2>2, <3>3, SpoolChange
      <4>2. e.seq = sequence
        BY <4>1 DEF SpoolEntry
      <4> QED
        BY <1>1, <4>1, <4>2 DEF JournalInv, NumberInv
    <3>4. ASSUME NEW p \in Ops, pc[p] # "file", pc'[p] = "file"
          PROVE  sequence' > sequence
      <4>1. p = o
        BY <1>1, <2>2, <3>4, FrameLemma DEF JournalInv
      <4> QED
        BY <1>1, <2>2, <3>1, <3>4, <4>1, NumberDrawn
    <3> QED
      BY <3>2, <3>3, <3>4
  <2> QED
    BY <1>1, <2>1, <2>2 DEF Next, Halt
<1> QED
  BY <1>1, JournalInvariant, PTL DEF Spec, NumbersAreFresh

-----------------------------------------------------------------------------
(***************************************************************************)
(* Every record once, where no process dies, no replayed file stays in the  *)
(* spool, and no record of unknown fate does.                               *)
(***************************************************************************)

\* A record that was not in the log is there once after its append.
LEMMA OnceAppend ==
  ASSUME log \in Seq(Record), LoggedOnce,
         NEW p \in Ops, NEW ph \in Phases, NEW r \in Results,
         AppendRecord(p, ph, r), ~Logged(p, ph)
  PROVE  LoggedOnce'
<1>1. CASE UNCHANGED log
  BY <1>1 DEF LoggedOnce
<1>2. CASE log' = Append(log, [op |-> p, phase |-> ph])
  <2>1. [op |-> p, phase |-> ph] \in Record
    BY DEF Record
  <2>2. /\ Len(log) \in Nat /\ Len(log') = Len(log) + 1
        /\ \A i \in 1..Len(log) : log'[i] = log[i]
        /\ log'[Len(log) + 1] = [op |-> p, phase |-> ph]
    BY <1>2, <2>1
  <2>3. \A i \in 1..Len(log) : log'[i] # log'[Len(log) + 1]
    BY <2>2 DEF Logged
  <2> QED
    BY <2>2, <2>3 DEF LoggedOnce
<1> QED
  BY <1>1, <1>2 DEF AppendRecord

\* What stands in the spool is not in the log, but while its file is removed.
LEMMA SpooledUnlogged ==
  ASSUME QuietInv, NEW o \in Ops, pc[o] \in Locked \ {"remove", "removeFail", "mark"},
         NEW e \in spool
  PROVE  ~Logged(e.op, e.phase)
BY DEF QuietInv, JournalInv, LockInv, OnceInv, Locked

\* The record that is removed, or set aside, is the only one that may be logged.
LEMMA HeadTaken ==
  ASSUME QuietInv, NEW o \in Ops, pc[o] \in {"remove", "removeFail", "mark"},
         NEW h \in HeadOf(o), NEW e \in spool \ {h}
  PROVE  ~Logged(e.op, e.phase)
<1>1. SUFFICES ASSUME Logged(e.op, e.phase) PROVE FALSE
  OBVIOUS
<1>2. PICK q \in Ops : pc[q] \in {"remove", "removeFail", "mark"} /\ e \in HeadOf(q)
  BY <1>1 DEF QuietInv, OnceInv
<1>3. q = o
  BY <1>2 DEF QuietInv, JournalInv, LockInv, Locked
<1>4. todo[o] = spool /\ HeadOf(o) \subseteq Entry
  BY FailureTypes DEF QuietInv, JournalInv, ReplayInv
<1>5. e.seq = h.seq
  <2>1. e.seq \in Nat /\ h.seq \in Nat
    BY <1>2, <1>3, <1>4 DEF Entry
  <2>2. e.seq <= h.seq /\ h.seq <= e.seq
    BY <1>2, <1>3, <1>4 DEF HeadOf
  <2> QED
    BY <2>1, <2>2
<1> QED
  BY <1>4, <1>5 DEF QuietInv, JournalInv, NumberInv, Queued, HeadOf


\* A replay appends the first spooled record.
LEMMA OnceReplayed ==
  ASSUME QuietInv, NEW o \in Ops, ReplayAppend(o)
  PROVE  OnceInv'
<1>t. /\ TypeOK /\ LockInv /\ EntryInv /\ ReplayInv /\ HandleInv /\ OnceInv
      /\ log \in Seq(Record) /\ spool \subseteq Entry /\ pc \in [Ops -> Labels]
      /\ HeadOf(o) \subseteq Entry
  BY FailureTypes DEF QuietInv, JournalInv, TypeOK
<1>1. PICK e \in HeadOf(o), r \in Results :
        /\ AppendRecord(e.op, e.phase, r)
        /\ \/ r # "notCommitted" /\ pc' \in {[pc EXCEPT ![o] = "remove"],
                  [pc EXCEPT ![o] = "removeFail"], [pc EXCEPT ![o] = "mark"]}
           \/ r = "notCommitted" /\ pc' = [pc EXCEPT ![o] =
                                            IF task[o] = "finish" THEN "sequence" ELSE "release"]
  BY DEF ReplayAppend, Goto, ReplayFailed
<1>2. pc[o] = "replay" /\ UNCHANGED <<spool, task, todo>>
  BY DEF ReplayAppend, store
<1>3. todo[o] = spool /\ e \in spool /\ e.op \in Ops /\ e.phase \in Phases
  BY <1>t, <1>1, <1>2 DEF ReplayInv, HeadOf, Entry
<1>4. /\ e.op # o /\ pc[e.op] \in {"release", "done", "crashed"}
      /\ (e.phase = "outcome" /\ task[e.op] \in {"finish", "emergency"}) \/ e.phase = "skipped"
  BY <1>t, <1>2, <1>3 DEF EntryInv, Queued
<1>5. \A d \in spool : ~Logged(d.op, d.phase)
  BY <1>2, SpooledUnlogged DEF Locked
<1>6. LoggedOnce'
  BY <1>t, <1>1, <1>3, <1>5, OnceAppend DEF OnceInv
<1>7. /\ \A q \in Ops, k \in Phases :
           Logged(q, k)' => Logged(q, k) \/ (q = e.op /\ k = e.phase)
      /\ {"intent", "outcome", "note"} \subseteq Phases
  BY <1>t, <1>1, <1>3, AppendLemma DEF Phases
<1>8. ASSUME NEW q \in Ops PROVE OnceOf(q)'
  <2>0. OnceOf(q) /\ OnceOf(o)
    BY <1>t DEF OnceInv
  <2>1. CASE q = o
    BY <1>2, <1>4, <1>7, <2>0, <2>1 DEF OnceOf
  <2>2. CASE q # o
    <3>1. pc'[q] = pc[q] /\ task'[q] = task[q]
      BY <1>t, <1>1, <1>2, <2>2
    <3> QED
      BY <1>4, <1>7, <2>0, <3>1 DEF OnceOf
  <2> QED
    BY <2>1, <2>2
<1>9. ASSUME NEW d \in spool', Logged(d.op, d.phase)'
      PROVE  \E q \in Ops : pc'[q] \in {"remove", "removeFail", "mark"} /\ d \in HeadOf(q)'
  <2>1. d \in spool /\ d.op \in Ops /\ d.phase \in Phases
    BY <1>t, <1>2, <1>9 DEF Entry
  <2>2. d.op = e.op
    BY <1>5, <1>7, <1>9, <2>1
  <2>3. d = e
    BY <1>t, <1>3, <2>1, <2>2 DEF EntryInv, Queued
  <2>4. r # "notCommitted"
    <3>1. log' # log
      BY <1>5, <1>9, <2>1 DEF Logged
    <3> QED
      BY <1>1, <3>1 DEF AppendRecord
  <2>5. pc'[o] \in {"remove", "removeFail", "mark"}
    BY <1>t, <1>1, <2>4
  <2>6. HeadOf(o)' = HeadOf(o)
    BY <1>2 DEF HeadOf
  <2> QED
    BY <1>1, <2>3, <2>5, <2>6
<1> QED
  BY <1>6, <1>8, <1>9 DEF OnceInv

\* An operation appends its own record, when the spool is empty.
LEMMA OnceOwn ==
  ASSUME QuietInv, NEW o \in Ops, AppendIntent(o) \/ AppendOutcome(o) \/ AppendNote(o)
  PROVE  OnceInv'
<1>t. /\ TypeOK /\ ReplayInv /\ OnceInv /\ OnceOf(o)
      /\ log \in Seq(Record) /\ pc \in [Ops -> Labels]
      /\ {"intent", "outcome", "note"} \subseteq Phases
  BY DEF QuietInv, JournalInv, TypeOK, OnceInv, Phases
<1>1. PICK ph \in {"intent", "outcome", "note"}, r \in Results :
        /\ AppendRecord(o, ph, r)
        /\ \/ /\ ph = "intent" /\ task[o] = "begin"
              /\ pc' \in {[pc EXCEPT ![o] = "release"], [pc EXCEPT ![o] = "sequence"]}
           \/ /\ ph = "outcome" /\ task[o] = "finish"
              /\ \/ r # "notCommitted" /\ pc' = [pc EXCEPT ![o] = "release"]
                 \/ r = "notCommitted" /\ pc' = [pc EXCEPT ![o] = "sequence"]
           \/ /\ ph = "note" /\ task[o] = "note" /\ pc' = [pc EXCEPT ![o] = "release"]
  BY DEF AppendIntent, AppendOutcome, AppendNote, Goto, MayExist
<1>2. /\ pc[o] = "replay" /\ todo[o] = {} /\ UNCHANGED <<spool, task>>
  BY DEF AppendIntent, AppendOutcome, AppendNote, Replayed, store
<1>3. spool' = {}
  BY <1>t, <1>2 DEF ReplayInv
<1>4. ~Logged(o, ph) /\ ~Logged(o, "outcome") /\ ~Logged(o, "note")
      /\ (task[o] = "begin" => ~Logged(o, "intent"))
  BY <1>t, <1>1, <1>2 DEF OnceOf
<1>5. LoggedOnce'
  BY <1>t, <1>1, <1>4, OnceAppend DEF OnceInv
<1>6. \A q \in Ops, k \in Phases : Logged(q, k)' => Logged(q, k) \/ (q = o /\ k = ph)
  BY <1>t, <1>1, AppendLemma
<1>7. ASSUME NEW q \in Ops PROVE OnceOf(q)'
  <2>1. CASE q = o
    <3>1. r = "notCommitted" => ~Logged(o, ph)'
      BY <1>1, <1>4 DEF AppendRecord, Logged
    <3>2. /\ pc'[o] \in {"release", "sequence"} /\ task'[o] = task[o]
          /\ ph # "intent" /\ Logged(o, ph)' => pc'[o] = "release"
      BY <1>t, <1>1, <1>2, <3>1
    <3> QED
      BY <1>t, <1>1, <1>4, <1>6, <2>1, <3>2 DEF OnceOf
  <2>2. CASE q # o
    <3>1. pc'[q] = pc[q] /\ task'[q] = task[q] /\ OnceOf(q)
      BY <1>t, <1>1, <1>2, <2>2 DEF OnceInv
    <3> QED
      BY <1>t, <1>6, <2>2, <3>1 DEF OnceOf
  <2> QED
    BY <2>1, <2>2
<1> QED
  BY <1>3, <1>5, <1>7 DEF OnceInv

\* Where a step that appends nothing leaves the operation.
LEMMA OnceMoves ==
  ASSUME QuietInv, Faults \cap {"crash", "remove", "quarantine"} = {}, NEW o \in Ops,
         Move(o), UNCHANGED log, ~ReplayAppend(o),
         ~AppendIntent(o), ~AppendOutcome(o), ~AppendNote(o)
  PROVE  OnceOf(o)'
<1>t. /\ pc \in [Ops -> Labels] /\ task \in [Ops -> Tasks] /\ OnceOf(o) /\ HandleOf(o)
  BY DEF QuietInv, JournalInv, TypeOK, OnceInv, HandleInv
<1>l. \A k \in Phases : Logged(o, k)' <=> Logged(o, k)
  BY DEF Logged
<1>p. {"intent", "outcome", "note"} \subseteq Phases
  BY DEF Phases
<1> USE DEF Goto, Tell, ReplayFailed, Unspooled
<1>1. CASE Start(o)
  BY <1>t, <1>l, <1>p, <1>1 DEF Start, OnceOf
<1>2. CASE EnterQueue(o)
  BY <1>t, <1>l, <1>p, <1>2 DEF EnterQueue, OnceOf
<1>3. CASE QueueUnavailable(o)
  BY <1>t, <1>l, <1>p, <1>3 DEF QueueUnavailable, OnceOf
<1>4. CASE ListSpool(o)
  BY <1>t, <1>l, <1>p, <1>4 DEF ListSpool, OnceOf
<1>5. CASE ListRejected(o) \/ ReplayReadFails(o)
  BY <1>t, <1>l, <1>p, <1>5 DEF ListRejected, ReplayReadFails, OnceOf
<1>6. CASE RemoveReplayed(o)
  BY <1>t, <1>l, <1>p, <1>6 DEF RemoveReplayed, OnceOf
<1>7. CASE MarkIndeterminate(o)
  BY <1>t, <1>l, <1>p, <1>7 DEF MarkIndeterminate, OnceOf
<1>8. CASE NextSequence(o) \/ NextSequenceFails(o)
  BY <1>t, <1>l, <1>p, <1>8 DEF NextSequence, NextSequenceFails, OnceOf
<1>9. CASE CommitSpoolFile(o) \/ SpoolFileFails(o)
  BY <1>t, <1>l, <1>p, <1>9 DEF CommitSpoolFile, SpoolFileFails, OnceOf
<1>10. CASE LeaveQueue(o) \/ ReleaseFails(o)
  BY <1>t, <1>l, <1>p, <1>10 DEF LeaveQueue, ReleaseFails, OnceOf, HandleOf
<1>11. CASE Operate(o)
  BY <1>t, <1>l, <1>p, <1>11 DEF Operate, OnceOf
<1>12. CASE Reclaim(o)
  BY <1>t, <1>l, <1>p, <1>12 DEF Reclaim, OnceOf
<1>13. ~RemoveFails(o) /\ ~MarkFails(o) /\ ~Crash(o)
  BY DEF RemoveFails, MarkFails, Crash
<1> QED
  BY <1>1, <1>2, <1>3, <1>4, <1>5, <1>6, <1>7, <1>8, <1>9, <1>10, <1>11, <1>12, <1>13
     DEF Move, Step

\* What it leaves in the spool is not logged, but while it is taken out.
LEMMA OnceSpool ==
  ASSUME QuietInv, Faults \cap {"crash", "remove", "quarantine"} = {}, NEW o \in Ops,
         Move(o), UNCHANGED log, ~ReplayAppend(o),
         NEW e \in spool', Logged(e.op, e.phase)'
  PROVE  \E q \in Ops : pc'[q] \in {"remove", "removeFail", "mark"} /\ e \in HeadOf(q)'
<1>t. /\ TypeOK /\ LockInv /\ HandleOf(o) /\ OnceOf(o) /\ pc \in [Ops -> Labels]
  BY DEF QuietInv, JournalInv, TypeOK, OnceInv, HandleInv
<1>l. Logged(e.op, e.phase)
  BY DEF Logged
<1>1. CASE pc[o] \in {"remove", "removeFail", "mark"}
  <2>1. RemoveReplayed(o) \/ MarkIndeterminate(o)
    <3>1. ~RemoveFails(o) /\ ~MarkFails(o) /\ ~Crash(o)
      BY DEF RemoveFails, MarkFails, Crash
    <3> QED
      BY <1>1, <3>1
         DEF Move, Step, Start, EnterQueue, QueueUnavailable, ListSpool, ListRejected,
             ReplayReadFails, AppendIntent, AppendOutcome, AppendNote, Replayed,
             NextSequence, NextSequenceFails, CommitSpoolFile, SpoolFileFails,
             LeaveQueue, ReleaseFails, Operate, Reclaim
  <2>2. PICK h \in HeadOf(o) : spool' = spool \ {h}
    BY <2>1 DEF RemoveReplayed, MarkIndeterminate
  <2> QED
    BY <1>1, <1>l, <2>2, HeadTaken
<1>2. CASE pc[o] \notin {"remove", "removeFail", "mark"}
  <2>1. CASE e \in spool
    <3>1. PICK q \in Ops : pc[q] \in {"remove", "removeFail", "mark"} /\ e \in HeadOf(q)
      BY <1>l, <2>1 DEF QuietInv, OnceInv
    <3>2. q # o
      BY <1>2, <3>1
    <3>3. pc'[q] = pc[q] /\ HeadOf(q)' = HeadOf(q)
      BY <1>t, <3>2, FrameLemma DEF HeadOf
    <3> QED
      BY <3>1, <3>3
  <2>2. CASE e \notin spool
    <3>1. pc[o] = "file" /\ e = SpoolEntry(o)
      BY <2>2, SpoolChange DEF QuietInv
    <3>2. e.op = o /\ e.phase \in {"outcome", "skipped"}
      BY <3>1 DEF SpoolEntry
    <3> QED
      BY <1>t, <1>l, <3>1, <3>2 DEF OnceOf, HandleOf
  <2> QED
    BY <2>1, <2>2
<1> QED
  BY <1>1, <1>2

\* A step that appends nothing.
LEMMA OnceRest ==
  ASSUME QuietInv, Faults \cap {"crash", "remove", "quarantine"} = {}, NEW o \in Ops,
         Move(o), ~ReplayAppend(o), ~AppendIntent(o), ~AppendOutcome(o), ~AppendNote(o)
  PROVE  OnceInv'
<1>1. UNCHANGED log
  BY DEF Move, Step, Start, EnterQueue, QueueUnavailable, ListSpool, ListRejected,
         ReplayReadFails, RemoveReplayed, RemoveFails, MarkIndeterminate, MarkFails,
         NextSequence, NextSequenceFails, CommitSpoolFile, SpoolFileFails, LeaveQueue,
         ReleaseFails, Operate, Crash, Reclaim
<1>2. LoggedOnce'
  BY <1>1 DEF QuietInv, OnceInv, LoggedOnce
<1>3. ASSUME NEW q \in Ops PROVE OnceOf(q)'
  <2>1. CASE q = o
    BY <1>1, <2>1, OnceMoves
  <2>2. CASE q # o
    <3>1. pc'[q] = pc[q] /\ task'[q] = task[q] /\ OnceOf(q)
      BY <2>2, FrameLemma DEF QuietInv, JournalInv, OnceInv
    <3> QED
      BY <1>1, <3>1 DEF OnceOf, Logged
  <2> QED
    BY <2>1, <2>2
<1>4. \A e \in spool' : Logged(e.op, e.phase)' =>
        \E q \in Ops : pc'[q] \in {"remove", "removeFail", "mark"} /\ e \in HeadOf(q)'
  BY <1>1, OnceSpool
<1> QED
  BY <1>2, <1>3, <1>4 DEF OnceInv

LEMMA QuietInit == Init => QuietInv
<1> SUFFICES ASSUME Init PROVE QuietInv
  OBVIOUS
<1>1. JournalInv
  BY InitLemma
<1>2. log = << >> /\ spool = {}
  BY DEF Init
<1>3. \A q, k : ~Logged(q, k)
  BY <1>2 DEF Logged
<1>4. OnceInv
  BY <1>2, <1>3 DEF OnceInv, OnceOf, LoggedOnce
<1> QED
  BY <1>1, <1>4 DEF QuietInv

LEMMA QuietSteps ==
  ASSUME Faults \cap {"crash", "remove", "quarantine"} = {}
  PROVE  QuietInv /\ [Next]_vars => QuietInv'
<1> SUFFICES ASSUME QuietInv, [Next]_vars PROVE QuietInv'
  OBVIOUS
<1>1. JournalInv'
  BY StepLemma DEF QuietInv
<1>2. ASSUME NEW o \in Ops, Move(o) PROVE OnceInv'
  BY <1>2, OnceReplayed, OnceOwn, OnceRest
<1>3. CASE UNCHANGED vars
  <2>1. UNCHANGED <<log, spool, pc, task, todo>>
    BY <1>3 DEF vars, store
  <2>2. \A q \in Ops : HeadOf(q)' = HeadOf(q)
    BY <2>1 DEF HeadOf
  <2>3. \A q, k : Logged(q, k)' <=> Logged(q, k)
    BY <2>1 DEF Logged
  <2>4. LoggedOnce' /\ \A q \in Ops : OnceOf(q)'
    BY <2>1, <2>3 DEF QuietInv, OnceInv, LoggedOnce, OnceOf
  <2> QED
    BY <1>1, <2>1, <2>2, <2>3, <2>4 DEF QuietInv, OnceInv
<1> QED
  BY <1>1, <1>2, <1>3 DEF Next, Halt, QuietInv

\* No record is logged twice when no process dies in the journal, what was
\* replayed can be removed, and what is of unknown fate can be set aside
\* (README.md:330); appends, listings, spool files, the sequence and the locks
\* may fail.
THEOREM OnlyOnce ==
  ASSUME Faults \cap {"crash", "remove", "quarantine"} = {}
  PROVE  Spec => []LoggedOnce
<1>1. QuietInv => LoggedOnce
  BY DEF QuietInv, OnceInv
<1> QED
  BY <1>1, QuietInit, QuietSteps, PTL DEF Spec

-----------------------------------------------------------------------------
(***************************************************************************)
(* The journal implements its contract                                      *)
(***************************************************************************)

\* Who logs an outcome: a replay of a spooled one, or the operation itself on its
\* way out of the queue.
LEMMA OutcomeLogged ==
  ASSUME JournalInv, NEW o \in Ops, Move(o), NEW q \in Ops, Logged(q, "outcome")'
  PROVE  \/ Logged(q, "outcome")
         \/ \E e \in spool : e.op = q /\ e.phase = "outcome"
         \/ q = o /\ AppendOutcome(o) /\ pc'[o] = "release"
<1>t. /\ TypeOK /\ ReplayInv /\ log \in Seq(Record) /\ pc \in [Ops -> Labels]
      /\ HeadOf(o) \subseteq Entry
      /\ {"intent", "outcome", "note"} \subseteq Phases
  BY FailureTypes DEF JournalInv, TypeOK, Phases
<1>1. CASE UNCHANGED log
  BY <1>1 DEF Logged
<1>2. CASE ReplayAppend(o)
  <2>1. PICK e \in HeadOf(o), r \in Results : AppendRecord(e.op, e.phase, r)
    BY <1>2 DEF ReplayAppend
  <2>2. e.op \in Ops /\ e.phase \in Phases /\ e \in spool
    BY <1>t, <1>2, <2>1 DEF Entry, ReplayAppend, ReplayInv, HeadOf
  <2> QED BY <1>t, <2>1, <2>2, AppendLemma
<1>3. CASE AppendOutcome(o)
  <2>1. PICK r \in Results :
          /\ AppendRecord(o, "outcome", r)
          /\ r = "notCommitted" \/ Goto(o, "release")
    BY <1>3 DEF AppendOutcome, MayExist
  <2>2. Logged(q, "outcome") \/ q = o
    BY <1>t, <2>1, AppendLemma
  <2>3. r = "notCommitted" => Logged(q, "outcome")
    BY <2>1 DEF AppendRecord, Logged
  <2> QED BY <1>t, <1>3, <2>1, <2>2, <2>3 DEF Goto
<1>4. CASE AppendIntent(o) \/ AppendNote(o)
  <2>1. PICK r \in Results, ph \in {"intent", "note"} : AppendRecord(o, ph, r)
    BY <1>4 DEF AppendIntent, AppendNote
  <2> QED BY <1>t, <2>1, AppendLemma
<1> QED
  BY <1>1, <1>2, <1>3, <1>4
     DEF Move, Step, Start, EnterQueue, QueueUnavailable, ListSpool, ListRejected,
         ReplayReadFails, RemoveReplayed, RemoveFails, MarkIndeterminate, MarkFails,
         NextSequence, NextSequenceFails, CommitSpoolFile, SpoolFileFails, LeaveQueue,
         ReleaseFails, Operate, Crash, Reclaim

\* A note is told "ok" by the step that logs it.
LEMMA NoteLogged ==
  ASSUME JournalInv, NEW o \in Ops, Move(o), task'[o] = "note", answer'[o] = "ok"
  PROVE  task[o] = "note" /\ (answer[o] = "ok" \/ Logged(o, "note")')
<1>t. TypeOK /\ log \in Seq(Record) /\ "note" \in Phases
  BY DEF JournalInv, TypeOK, Phases
<1> USE DEF TypeOK, Goto, Tell, ReplayFailed, Unspooled
<1>1. CASE AppendNote(o)
  <2>1. PICK r \in Results :
          AppendRecord(o, "note", r) /\ Tell(o, IF r = "committed" THEN "ok" ELSE "refused")
    BY <1>1 DEF AppendNote
  <2>2. r = "committed"
    BY <1>t, <2>1
  <2> QED BY <1>t, <1>1, <2>1, <2>2, AppendLemma DEF AppendNote
<1>2. CASE Start(o) \/ EnterQueue(o) \/ QueueUnavailable(o) \/ ListSpool(o)
           \/ ListRejected(o) \/ ReplayReadFails(o) \/ RemoveReplayed(o)
           \/ RemoveFails(o) \/ MarkIndeterminate(o) \/ MarkFails(o)
  BY <1>t, <1>2 DEF Start, EnterQueue, QueueUnavailable, ListSpool, ListRejected,
     ReplayReadFails, RemoveReplayed, RemoveFails, MarkIndeterminate, MarkFails
<1>3. CASE ReplayAppend(o) \/ AppendIntent(o) \/ AppendOutcome(o)
  BY <1>t, <1>3 DEF ReplayAppend, AppendIntent, AppendOutcome
<1>4. CASE NextSequence(o) \/ NextSequenceFails(o)
           \/ CommitSpoolFile(o) \/ SpoolFileFails(o)
  BY <1>t, <1>4 DEF NextSequence, NextSequenceFails, CommitSpoolFile, SpoolFileFails
<1>5. CASE LeaveQueue(o) \/ ReleaseFails(o) \/ Operate(o) \/ Crash(o) \/ Reclaim(o)
  BY <1>t, <1>5 DEF LeaveQueue, ReleaseFails, Operate, Crash, Reclaim
<1> QED
  BY <1>1, <1>2, <1>3, <1>4, <1>5 DEF Move, Step

\* What is over stays over.
LEMMA OverStep ==
  ASSUME RefinementInv, NEW o \in Ops, Move(o), NEW q \in Ops
  PROVE  OverOf(q)'
<1>t. /\ JournalInv /\ TypeOK /\ EntryInv /\ OverOf(q)
      /\ {"outcome", "note"} \subseteq Phases
  BY DEF RefinementInv, JournalInv, Phases
<1>g. Logged(q, "note") => Logged(q, "note")'
  BY <1>t, LogGrows
<1>s. Logged(q, "outcome") \/ (\E e \in spool : e.op = q /\ e.phase = "outcome")
        => task[q] \in {"finish", "emergency"} /\ pc[q] \in {"release", "done", "crashed"}
  BY <1>t DEF OverOf, EntryInv, Queued
<1>1. CASE q # o
  <2>1. pc'[q] = pc[q] /\ task'[q] = task[q] /\ answer'[q] = answer[q]
    BY <1>t, <1>1, FrameLemma
  <2>2. Logged(q, "outcome")' =>
          Logged(q, "outcome") \/ \E e \in spool : e.op = q /\ e.phase = "outcome"
    BY <1>t, <1>1, OutcomeLogged
  <2> QED BY <1>t, <1>g, <1>s, <2>1, <2>2 DEF OverOf
<1>2. CASE q = o
  <2>1. ASSUME Logged(q, "outcome")'
        PROVE  /\ task'[q] \in {"finish", "emergency"}
               /\ pc'[q] \in {"release", "done", "crashed"}
    <3>1. CASE AppendOutcome(o) /\ pc'[o] = "release"
      BY <1>2, <3>1 DEF AppendOutcome
    <3>2. CASE Logged(q, "outcome") \/ \E e \in spool : e.op = q /\ e.phase = "outcome"
      BY <1>t, <1>s, <1>2, <3>2, SettledLemma
    <3> QED BY <1>t, <2>1, <3>1, <3>2, OutcomeLogged
  <2>2. task'[q] = "note" /\ answer'[q] = "ok" => Logged(q, "note")'
    BY <1>t, <1>g, <1>2, NoteLogged DEF OverOf
  <2> QED BY <2>1, <2>2 DEF OverOf
<1> QED BY <1>1, <1>2

\* Everything the mapping needs holds in every reachable state.
LEMMA RefinementInvariant == Spec => []RefinementInv
<1>1. Init => RefinementInv
  <2> SUFFICES ASSUME Init PROVE RefinementInv
    OBVIOUS
  <2>1. \A o \in Ops : OverOf(o)
    BY DEF Init, OverOf, Logged
  <2> QED BY <2>1, InitLemma DEF RefinementInv
<1>2. RefinementInv /\ [Next]_vars => RefinementInv'
  <2> SUFFICES ASSUME RefinementInv, [Next]_vars PROVE RefinementInv'
    OBVIOUS
  <2>1. JournalInv'
    BY StepLemma DEF RefinementInv
  <2>2. CASE UNCHANGED vars
    BY <2>1, <2>2 DEF RefinementInv, OverOf, vars, Logged
  <2>3. ASSUME NEW o \in Ops, Move(o) PROVE RefinementInv'
    BY <2>1, <2>3, OverStep DEF RefinementInv
  <2> QED BY <2>2, <2>3 DEF Next, Halt
<1> QED BY <1>1, <1>2, PTL DEF Spec

\* What a step does to the contract's variables: an append adds at most one
\* record, and an operation is told its answer when it gets to its end.
LEMMA BarMoves ==
  ASSUME JournalInv, NEW o \in Ops, Move(o)
  PROVE  /\ \A p \in Ops, ph \in Phases, r \in Results :
              AppendRecord(p, ph, r) =>
                recordedBar' \in {recordedBar, recordedBar \cup {<<p, KindOf(ph)>>}}
         /\ UNCHANGED log => recordedBar' = recordedBar
         /\ pc[o] # "done" /\ pc'[o] # "done" => toldBar' = toldBar
         /\ UNCHANGED <<pc, answer>> => toldBar' = toldBar
         /\ pc[o] # "done" /\ pc'[o] = "done" =>
              toldBar' = [toldBar EXCEPT ![o] =
                            IF answer'[o] \in {"ok", "kept"} THEN answer'[o] ELSE "error"]
<1>t. TypeOK /\ log \in Seq(Record) /\ pc \in [Ops -> Labels] /\ answer \in [Ops -> Answers]
  BY DEF JournalInv, TypeOK
<1>1. ASSUME NEW p \in Ops, NEW ph \in Phases, NEW r \in Results, AppendRecord(p, ph, r)
      PROVE  recordedBar' \in {recordedBar, recordedBar \cup {<<p, KindOf(ph)>>}}
  <2>1. CASE UNCHANGED log
    BY <2>1 DEF recordedBar
  <2>2. CASE log' = Append(log, [op |-> p, phase |-> ph])
    <3>1. /\ Len(log') = Len(log) + 1 /\ Len(log) \in Nat
          /\ \A i \in 1..Len(log) : log'[i] = log[i]
          /\ log'[Len(log) + 1] = [op |-> p, phase |-> ph]
      BY <1>t, <2>2 DEF Record
    <3>2. 1..Len(log') = 1..Len(log) \cup {Len(log) + 1}
      BY <3>1
    <3>3. recordedBar' = {<<log'[i].op, KindOf(log'[i].phase)>> : i \in 1..Len(log')}
      BY DEF recordedBar, KindOf
    <3>4. {<<log'[i].op, KindOf(log'[i].phase)>> : i \in 1..Len(log)} = recordedBar
      BY <3>1 DEF recordedBar
    <3>5. recordedBar' = {<<log'[i].op, KindOf(log'[i].phase)>> : i \in 1..Len(log)}
                          \cup {<<p, KindOf(ph)>>}
      BY <3>1, <3>2, <3>3
    <3> QED BY <3>4, <3>5
  <2> QED BY <1>1, <2>1, <2>2 DEF AppendRecord
<1>2. UNCHANGED log => recordedBar' = recordedBar
  BY DEF recordedBar
<1>f. \A p \in Ops \ {o} : pc'[p] = pc[p] /\ answer'[p] = answer[p]
  BY <1>t, FrameLemma
<1>3. UNCHANGED <<pc, answer>> => toldBar' = toldBar
  BY DEF toldBar
<1>4. CASE pc[o] # "done" /\ pc'[o] # "done"
  BY <1>1, <1>2, <1>3, <1>f, <1>4 DEF toldBar
<1>5. CASE pc[o] # "done" /\ pc'[o] = "done"
  <2>1. toldBar' = [toldBar EXCEPT ![o] =
                      IF answer'[o] \in {"ok", "kept"} THEN answer'[o] ELSE "error"]
    BY <1>f, <1>5 DEF toldBar
  <2> QED BY <1>1, <1>2, <1>3, <1>5, <2>1
<1> QED BY <1>1, <1>2, <1>3, <1>4, <1>5

\* The contract's variables and the journal's: a record is recorded when it is
\* logged, and an outcome is owed while it is spooled or in quarantine.
LEMMA BarMeaning ==
  ASSUME TypeOK, NEW o \in Ops
  PROVE  /\ \A k \in Phases : Logged(o, k) => <<o, KindOf(k)>> \in recordedBar
         /\ <<o, "outcome">> \in recordedBar => Logged(o, "outcome") \/ Logged(o, "skipped")
         /\ o \in owedBar <=> \E e \in Queued : e.op = o
         /\ Queued = {} => owedBar = {}
         /\ toldBar[o] = "pending" <=> pc[o] # "done"
<1>1. \A k \in Phases : Logged(o, k) => <<o, KindOf(k)>> \in recordedBar
  BY DEF Logged, recordedBar
<1>2. <<o, "outcome">> \in recordedBar => Logged(o, "outcome") \/ Logged(o, "skipped")
  <2> SUFFICES ASSUME <<o, "outcome">> \in recordedBar
               PROVE  Logged(o, "outcome") \/ Logged(o, "skipped")
    OBVIOUS
  <2>1. PICK i \in 1..Len(log) : log[i].op = o /\ KindOf(log[i].phase) = "outcome"
    BY DEF recordedBar
  <2>2. log[i].phase \in {"outcome", "skipped"} /\ log[i] \in Record
    BY <2>1 DEF KindOf, TypeOK
  <2>3. log[i] = [op |-> o, phase |-> log[i].phase]
    BY <2>1, <2>2 DEF Record
  <2> QED BY <2>2, <2>3 DEF Logged
<1>3. (o \in owedBar <=> \E e \in Queued : e.op = o) /\ (Queued = {} => owedBar = {})
  BY DEF owedBar
<1>4. toldBar[o] = "pending" <=> pc[o] # "done"
  BY DEF toldBar
<1> QED BY <1>1, <1>2, <1>3, <1>4

\* A replay logs an outcome that is owed, an operation its own record while
\* nothing is owed.
LEMMA ContractAppends ==
  ASSUME RefinementInv, NEW o \in Ops, Move(o),
         ReplayAppend(o) \/ AppendIntent(o) \/ AppendOutcome(o) \/ AppendNote(o)
  PROVE  [Contract!Next]_(Contract!vars)
<1>t. /\ JournalInv /\ TypeOK /\ ReplayInv /\ EntryInv /\ HandleOf(o) /\ OverOf(o)
      /\ pc \in [Ops -> Labels] /\ HeadOf(o) \subseteq Entry
      /\ {"intent", "outcome", "note"} \subseteq Phases
  BY FailureTypes DEF RefinementInv, JournalInv, HandleInv, TypeOK, Phases
<1>m. /\ \A p \in Ops, ph \in Phases, r \in Results :
           AppendRecord(p, ph, r) =>
             recordedBar' \in {recordedBar, recordedBar \cup {<<p, KindOf(ph)>>}}
      /\ pc[o] # "done" /\ pc'[o] # "done" => toldBar' = toldBar
  BY <1>t, BarMoves
<1>d. pc[o] = "replay" /\ pc'[o] # "done"
  BY <1>t DEF ReplayAppend, AppendIntent, AppendOutcome, AppendNote, Replayed, Goto,
              ReplayFailed, MayExist
<1>u. UNCHANGED <<applied, spool, quarantine>>
  BY DEF ReplayAppend, AppendIntent, AppendOutcome, AppendNote, store
<1>b. owedBar' = owedBar /\ toldBar' = toldBar /\ toldBar[o] = "pending"
  BY <1>t, <1>m, <1>d, <1>u, BarMeaning DEF owedBar, Queued
<1> DEFINE Same == UNCHANGED <<recordedBar, owedBar, applied, toldBar>>
<1>1. CASE ReplayAppend(o)
  <2>1. PICK e \in HeadOf(o), r \in Results : AppendRecord(e.op, e.phase, r)
    BY <1>1 DEF ReplayAppend
  <2>2. e \in Queued /\ e.op \in Ops /\ e.phase \in Phases
    BY <1>t, <1>d, <2>1 DEF ReplayInv, HeadOf, Queued, Entry
  <2>3. KindOf(e.phase) = "outcome" /\ e.op \in owedBar
    BY <1>t, <2>2 DEF EntryInv, KindOf, owedBar
  <2>4. recordedBar' \in {recordedBar, recordedBar \cup {<<e.op, "outcome">>}}
    BY <1>m, <2>1, <2>2, <2>3
  <2>5. Same \/ Contract!RecordOutcome(e.op)
    BY <1>b, <1>u, <2>3, <2>4 DEF Contract!RecordOutcome
  <2> QED BY <2>2, <2>5 DEF Contract!Next, Contract!vars
<1>2. CASE ~ReplayAppend(o)
  <2>1. Replayed(o)
    BY <1>2 DEF AppendIntent, AppendOutcome, AppendNote
  <2>2. owedBar = {}
    BY <1>t, <2>1, BarMeaning DEF Replayed, ReplayInv, Queued
  <2>3. CASE AppendIntent(o)
    <3>1. PICK r \in Results : AppendRecord(o, "intent", r)
      BY <2>3 DEF AppendIntent
    <3>2. recordedBar' \in {recordedBar, recordedBar \cup {<<o, "intent">>}}
      BY <1>t, <1>m, <3>1 DEF KindOf
    <3>3. o \notin applied
      BY <1>t, <2>3 DEF AppendIntent, HandleOf
    <3>4. Same \/ Contract!RecordIntent(o)
      BY <1>b, <1>u, <2>2, <3>2, <3>3 DEF Contract!RecordIntent, Contract!Open
    <3> QED BY <3>4 DEF Contract!Next, Contract!vars
  <2>4. CASE AppendOutcome(o)
    <3>1. PICK r \in Results : AppendRecord(o, "outcome", r)
      BY <2>4 DEF AppendOutcome
    <3>2. recordedBar' \in {recordedBar, recordedBar \cup {<<o, "outcome">>}}
      BY <1>t, <1>m, <3>1 DEF KindOf
    <3>3. Logged(o, "intent")
      BY <1>t, <2>4 DEF AppendOutcome, HandleOf
    <3>4. <<o, KindOf("intent")>> \in recordedBar /\ KindOf("intent") = "intent"
      BY <1>t, <3>3, BarMeaning DEF KindOf
    <3>5. Same \/ Contract!RecordOutcome(o)
      BY <1>b, <1>u, <2>2, <3>2, <3>4 DEF Contract!RecordOutcome, Contract!Open
    <3> QED BY <3>5 DEF Contract!Next, Contract!vars
  <2>5. CASE AppendNote(o)
    <3>1. PICK r \in Results : AppendRecord(o, "note", r)
      BY <2>5 DEF AppendNote
    <3>2. recordedBar' \in {recordedBar, recordedBar \cup {<<o, "note">>}}
      BY <1>t, <1>m, <3>1 DEF KindOf
    <3>3. Same \/ Contract!RecordNote(o)
      BY <1>b, <1>u, <2>2, <3>2 DEF Contract!RecordNote, Contract!Open
    <3> QED BY <3>3 DEF Contract!Next, Contract!vars
  <2> QED BY <1>2, <2>3, <2>4, <2>5
<1> QED BY <1>1, <1>2

\* A record leaves the spool when it is logged, enters it before the operation
\* has its answer, and stays owed in quarantine.
LEMMA ContractSpool ==
  ASSUME RefinementInv, NEW o \in Ops, Move(o), UNCHANGED <<log, applied>>,
         pc[o] # "done", pc'[o] # "done"
  PROVE  [Contract!Next]_(Contract!vars)
<1>t. JournalInv /\ TypeOK /\ ReplayInv /\ EntryInv
  BY DEF RefinementInv, JournalInv
<1>b. recordedBar' = recordedBar /\ toldBar' = toldBar /\ toldBar[o] = "pending"
  BY <1>t, BarMoves, BarMeaning
<1>1. CASE Queued' = Queued
  <2>1. owedBar' = owedBar
    BY <1>1 DEF owedBar
  <2> QED BY <1>b, <2>1 DEF Contract!vars
<1>2. ASSUME NEW e \in HeadOf(o), pc[o] \in {"remove", "removeFail"}, Queued' = Queued \ {e}
      PROVE  [Contract!Next]_(Contract!vars)
  <2>1. e \in Queued /\ e.op \in Ops /\ Logged(e.op, e.phase) /\ e.phase \in Phases
    BY <1>t, <1>2 DEF ReplayInv, HeadOf, Queued, TypeOK, Entry
  <2>2. owedBar' = owedBar \ {e.op}
    BY <1>t, <1>2, <2>1 DEF owedBar, EntryInv
  <2>3. KindOf(e.phase) = "outcome" /\ e.op \in owedBar
    BY <1>t, <2>1 DEF EntryInv, KindOf, owedBar
  <2>4. <<e.op, "outcome">> \in recordedBar
    BY <1>t, <2>1, <2>3, BarMeaning
  <2>5. Contract!Settle(e.op)
    BY <1>b, <2>2, <2>3, <2>4 DEF Contract!Settle
  <2> QED BY <2>1, <2>5 DEF Contract!Next
<1>3. CASE Queued' = Queued \cup {SpoolEntry(o)}
  <2>0. SpoolEntry(o).op = o /\ owedBar' = {e.op : e \in Queued'}
    BY DEF SpoolEntry, owedBar
  <2>1. owedBar' = owedBar \cup {o}
    BY <1>3, <2>0 DEF owedBar
  <2>2. Contract!Owe(o)
    BY <1>b, <2>1 DEF Contract!Owe, Contract!Open
  <2> QED BY <2>2 DEF Contract!Next
<1>4. \/ Queued' = Queued
      \/ pc[o] \in {"remove", "removeFail"} /\ \E e \in HeadOf(o) : Queued' = Queued \ {e}
      \/ Queued' = Queued \cup {SpoolEntry(o)}
  BY <1>t, SpoolChange DEF Queued, ReplayInv, HeadOf
<1> QED BY <1>1, <1>2, <1>3, <1>4

\* Whoever is told "ok" or "kept" finds its records; the rest is an error.
LEMMA ContractAnswer ==
  ASSUME RefinementInv, NEW o \in Ops, Move(o), pc[o] # "done", pc'[o] = "done"
  PROVE  Contract!Answer(o)
<1>t. /\ JournalInv /\ TypeOK /\ HandleOf(o) /\ AnswerOf(o) /\ OverOf(o)
      /\ pc \in [Ops -> Labels] /\ answer \in [Ops -> Answers] /\ task[o] \in Tasks
      /\ {"intent", "outcome", "note"} \subseteq Phases
  BY DEF RefinementInv, JournalInv, HandleInv, AnswerInv, TypeOK, Phases
<1> DEFINE what == IF answer'[o] \in {"ok", "kept"} THEN answer'[o] ELSE "error"
<1>c. LeaveQueue(o) \/ ReleaseFails(o) \/ QueueUnavailable(o)
  BY <1>t DEF Move, Step, Start, EnterQueue, ListSpool, ListRejected, ReplayAppend,
     ReplayReadFails, RemoveReplayed, RemoveFails, MarkIndeterminate, MarkFails,
     AppendIntent, AppendOutcome, AppendNote, Replayed, NextSequence,
     NextSequenceFails, CommitSpoolFile, SpoolFileFails, Operate, Crash, Reclaim,
     Goto, Unspooled, ReplayFailed, MayExist
<1>u. UNCHANGED <<log, spool, quarantine, applied>>
  BY <1>c DEF LeaveQueue, ReleaseFails, QueueUnavailable, store
<1>a. /\ answer'[o] \in {"ok", "kept"} => answer'[o] = answer[o]
      /\ answer'[o] = "ok" => task[o] # "begin"
  BY <1>t, <1>c DEF LeaveQueue, ReleaseFails, QueueUnavailable, Tell, Goto, HandleOf
<1>b. /\ UNCHANGED <<recordedBar, owedBar, applied>> /\ toldBar[o] = "pending"
      /\ toldBar' = [toldBar EXCEPT ![o] = what]
  BY <1>t, <1>u, BarMoves, BarMeaning DEF owedBar, Queued
<1>k. KindOf("intent") = "intent" /\ KindOf("outcome") = "outcome" /\ KindOf("note") = "note"
  BY DEF KindOf
<1>2. ASSUME what = "ok"
      PROVE  \/ {<<o, "intent">>, <<o, "outcome">>} \subseteq recordedBar
             \/ <<o, "note">> \in recordedBar
  <2>1. answer[o] = "ok" /\ task[o] # "begin"
    BY <1>2, <1>a
  <2>2. CASE task[o] = "note"
    BY <1>t, <1>k, <2>1, <2>2, BarMeaning DEF OverOf
  <2>3. CASE task[o] \in {"finish", "emergency"}
    <3>1. Logged(o, "intent") /\ Logged(o, "outcome")
      BY <1>t, <2>1, <2>3 DEF AnswerOf, Paired, Logged
    <3> QED BY <1>t, <1>k, <3>1, BarMeaning
  <2> QED BY <1>t, <2>1, <2>2, <2>3 DEF Tasks
<1>3. what = "kept" => o \in owedBar \/ <<o, "outcome">> \in recordedBar
  BY <1>t, <1>a, <1>k, BarMeaning DEF AnswerOf
<1>4. what \in {"ok", "kept", "error"}
  OBVIOUS
<1> HIDE DEF what
<1> QED BY <1>b, <1>2, <1>3, <1>4 DEF Contract!Answer, Contract!Open

\* The operation itself touches its target under its intent and before its
\* outcome.
LEMMA ContractApply ==
  ASSUME RefinementInv, NEW o \in Ops, Operate(o)
  PROVE  [Contract!Next]_(Contract!vars)
<1>t. /\ JournalInv /\ TypeOK /\ EntryInv /\ HandleOf(o) /\ OverOf(o)
      /\ pc \in [Ops -> Labels] /\ "intent" \in Phases
  BY DEF RefinementInv, JournalInv, HandleInv, TypeOK, Phases
<1>1. /\ pc[o] = "run" /\ pc'[o] = "acquire" /\ UNCHANGED <<log, spool, quarantine>>
      /\ applied' \in {applied, applied \cup {o}} /\ Move(o)
  BY <1>t DEF Operate, Goto, store, Move, Step
<1>2. /\ UNCHANGED <<recordedBar, owedBar, toldBar>> /\ toldBar[o] = "pending"
  BY <1>t, <1>1, BarMoves, BarMeaning DEF owedBar, Queued
<1>3. Logged(o, "intent") /\ ~Logged(o, "outcome") /\ ~Logged(o, "skipped")
  BY <1>t, <1>1 DEF HandleOf, OverOf
<1>4. \A e \in Queued : e.op # o
  BY <1>t, <1>1 DEF EntryInv
<1>5. <<o, "intent">> \in recordedBar /\ <<o, "outcome">> \notin recordedBar /\ o \notin owedBar
  BY <1>t, <1>3, <1>4, BarMeaning DEF KindOf
<1>6. UNCHANGED Contract!vars \/ Contract!Apply(o)
  BY <1>1, <1>2, <1>5 DEF Contract!Apply, Contract!Open, Contract!vars
<1> QED BY <1>6 DEF Contract!Next

\* Every step of the journal is a step of its contract or changes nothing of what
\* the contract speaks about.
LEMMA ContractStep ==
  ASSUME RefinementInv, [Next]_vars
  PROVE  [Contract!Next]_(Contract!vars)
<1>1. CASE UNCHANGED vars
  BY <1>1 DEF vars, store, Contract!vars, recordedBar, owedBar, toldBar, Queued
<1>2. ASSUME NEW o \in Ops, Move(o) PROVE [Contract!Next]_(Contract!vars)
  <2>1. CASE ReplayAppend(o) \/ AppendIntent(o) \/ AppendOutcome(o) \/ AppendNote(o)
    BY <1>2, <2>1, ContractAppends
  <2>2. CASE Operate(o)
    BY <2>2, ContractApply
  <2>3. CASE pc[o] # "done" /\ pc'[o] = "done"
    BY <1>2, <2>3, ContractAnswer DEF Contract!Next
  <2>4. CASE Reclaim(o)
    BY <2>4 DEF Reclaim, store, Contract!vars, recordedBar, owedBar, toldBar, Queued
  <2>5. CASE /\ ~ReplayAppend(o) /\ ~AppendIntent(o) /\ ~AppendOutcome(o) /\ ~AppendNote(o)
             /\ ~Operate(o) /\ ~Reclaim(o)
             /\ ~(pc[o] # "done" /\ pc'[o] = "done")
    <3>1. UNCHANGED <<log, applied>> /\ pc[o] # "done"
      BY <1>2, <2>5
         DEF Move, Step, Start, EnterQueue, QueueUnavailable, ListSpool, ListRejected,
             ReplayReadFails, RemoveReplayed, RemoveFails, MarkIndeterminate, MarkFails,
             NextSequence, NextSequenceFails, CommitSpoolFile, SpoolFileFails, LeaveQueue,
             ReleaseFails, Crash
    <3> QED BY <1>2, <2>5, <3>1, ContractSpool
  <2> QED BY <2>1, <2>2, <2>3, <2>4, <2>5
<1> QED BY <1>1, <1>2 DEF Next, Halt

\* The audit journal keeps its contract (README.md:328-331): whatever fails and
\* whoever dies, a target is touched only under a recorded intent, an outcome
\* that is owed is owed until it is recorded, and whoever is told that all went
\* well finds both records.
THEOREM JournalKeepsContract == Spec => ImplementsContract
<1>1. Init => Contract!Init
  <2> SUFFICES ASSUME Init PROVE Contract!Init
    OBVIOUS
  <2>1. recordedBar = {} /\ owedBar = {}
    BY DEF Init, recordedBar, owedBar, Queued
  <2>2. toldBar = [o \in Ops |-> "pending"]
    BY DEF Init, toldBar
  <2> QED BY <2>1, <2>2 DEF Init, Contract!Init
<1>2. RefinementInv /\ [Next]_vars => [Contract!Next]_(Contract!vars)
  BY ContractStep
<1> QED BY <1>1, <1>2, RefinementInvariant, PTL DEF Spec, ImplementsContract, Contract!Spec
=============================================================================
