----------------------- MODULE OutcomeAccountingProofs -----------------------
(***************************************************************************)
(* Proofs about OutcomeAccounting, for every number of items.               *)
(***************************************************************************)
EXTENDS OutcomeAccounting, TLAPS

Reported == Acceptable(Items, outcome)
            /\ (kind # "single" => made + open <= outcome.succeeded + outcome.uncertain)
            /\ outcome.succeeded <= made
            /\ outcome \in Outcome

-----------------------------------------------------------------------------
(***************************************************************************)
(* What each command knows when its items are done: how its counters, its   *)
(* compensation and what has really happened belong together.               *)
(***************************************************************************)
BrokerEnded ==
  kind \in Stopping =>
    /\ made = tally.succeeded /\ open = tally.uncertain
    /\ error = "none" => tally.failed = 0 /\ tally.uncertain = 0

FleetEnded ==
  kind = "fleet" =>
    /\ made = tally.succeeded /\ open = 0 /\ tally.uncertain = 0
    /\ error # "none" <=> tally.failed > 0

PurgeEnded ==
  kind = "purge" =>
    /\ made = tally.succeeded
    /\ open <= RedriveTally(tally, error).uncertain
    /\ error = "none" => tally.failed = 0 /\ tally.uncertain = 0

SingleEnded == kind = "single" => (error = "none" => made = 1)
RefusedEnded == kind = "refused" => made = 0 /\ open = 0

ImportEnded ==
  kind = "import" =>
    /\ made + open <= total
    /\ undoing = "none" => /\ status = ""
                           /\ error # "none" => made = 0 /\ open = 0
                           /\ error = "none" => made = total /\ open = 0
    /\ undoing = "open" => /\ error # "none" /\ status = ""
                           /\ tally.failed = 0 => made = total /\ open = 0
    /\ undoing = "restored" => error # "none" /\ made = 0 /\ open = 0 /\ status \in {"", "succeeded"}
    /\ undoing = "kept" => error # "none" /\ made = total /\ open = 0 /\ status = "not-safe"
    /\ undoing = "doubtful" => error # "none" /\ made = 0 /\ status \in {"not-safe", "incomplete"}

MigrateEnded ==
  kind = "migrate" =>
    /\ undoing = "none" => /\ status = "" /\ open = 0
                           /\ tally.uncertain = 0 /\ made = tally.succeeded
                           /\ error # "none" => tally.succeeded = 0
                           /\ error = "none" => tally.failed = 0 /\ tally.succeeded = total
    /\ undoing = "open" => /\ error # "none" /\ status = ""
                           /\ tally.uncertain = 0 /\ Count(tally) > 0
                           /\ made = tally.succeeded /\ open <= tally.failed
    /\ undoing = "restored" => /\ error # "none" /\ status = "succeeded"
                               /\ tally.succeeded = 0 /\ tally.uncertain = 0
                               /\ made = 0 /\ open = 0
    /\ undoing = "kept" => /\ error # "none" /\ status = "not-safe"
                           /\ tally.failed = 0 /\ tally.uncertain = 0
                           /\ tally.succeeded > 0
                           /\ made = tally.succeeded /\ open = 0
    /\ undoing = "doubtful" => /\ error # "none" /\ status \in {"not-safe", "incomplete"}
                               /\ tally.succeeded = 0 /\ tally.failed = 0
                               /\ tally.uncertain > 0
                               /\ made = 0 /\ open <= tally.uncertain

PruneEnded ==
  kind = "prune" =>
    /\ undoing # "doubtful" => made = tally.succeeded /\ open = 0
    /\ undoing = "doubtful" => error # "none" /\ made = 0 /\ open = tally.succeeded
    /\ error = "none" => tally.succeeded = total

Ended ==
  /\ undoing = "open" => kind \in Credentialed
  /\ BrokerEnded /\ FleetEnded /\ PurgeEnded /\ SingleEnded /\ RefusedEnded
  /\ ImportEnded /\ MigrateEnded /\ PruneEnded

Running ==
  /\ status = "" /\ undoing = "none"
  /\ tally.uncertain = 0 /\ made = tally.succeeded /\ open = 0
  /\ kind # "fleet" => tally.failed = 0 /\ error = "none"
  /\ kind = "fleet" => (error # "none" <=> tally.failed > 0)
  /\ kind \in {"purge", "single", "refused"} => tally = Zero

Planned ==
  /\ kind \in {"redrive", "import", "migrate", "prune"} => total > 0
  /\ kind = "single" => total <= 1

\* The inductive invariant.
OutcomeInv ==
  /\ TypeOK
  /\ Planned
  /\ phase = "running" => Running
  /\ phase = "ended" => Ended
  /\ phase = "counted" => Reported

-----------------------------------------------------------------------------
(***************************************************************************)
(* Each way to count is acceptable: lemmas about the operators.             *)
(***************************************************************************)

\* What an outcome record needs to be acceptable, said of its fields.
Fits(items, s, t, k, e, c) ==
  /\ items > 0 => t.succeeded + t.failed + k + t.uncertain = items
  /\ s = "success" => t.failed = 0 /\ t.uncertain = 0 /\ e = "none" /\ c = ""
  /\ s = "failed" => t.succeeded = 0
  /\ s = "partial" => /\ t.succeeded > 0
                      /\ t.failed > 0 \/ t.uncertain > 0 \/ e # "none"
  /\ c = "succeeded" => t.uncertain = 0
  /\ c = "incomplete" => t.uncertain > 0
  /\ c = "not-safe" => t.succeeded > 0 \/ t.uncertain > 0

LEMMA RecordAccepted ==
  ASSUME NEW items \in Nat, NEW s \in {"success", "failed", "partial"},
         NEW t \in Tallies, NEW k \in Nat, NEW e \in Errors, NEW c \in Compensations,
         Fits(items, s, t, k, e, c)
  PROVE  Acceptable(items, Record(s, t, k, e, c)) /\ Record(s, t, k, e, c) \in Outcome
<1> DEFINE r == Record(s, t, k, e, c)
<1>1. r \in Outcome
  BY DEF Record, Outcome, Tallies
<1>2. /\ r.status = s /\ r.error = e /\ r.compensation = c
      /\ r.succeeded = t.succeeded /\ r.failed = t.failed
      /\ r.uncertain = t.uncertain /\ r.skipped = k
  BY DEF Record
<1> HIDE DEF r
<1>3. CountsMatch(items, r)
  BY <1>2, Zenon DEF CountsMatch, Fits
<1>4. StatusMatches(r)
  BY <1>2, Zenon DEF StatusMatches, Fits
<1>5. CompensationMatches(r)
  BY <1>2, Zenon DEF CompensationMatches, Fits
<1>6. Acceptable(items, r) /\ r \in Outcome
  BY <1>1, <1>3, <1>4, <1>5, Zenon DEF Acceptable
<1> QED
  BY <1>6 DEF r

\* The counters of an operation are numbers.
LEMMA TallyFields ==
  ASSUME NEW t \in Tallies
  PROVE  t.succeeded \in Nat /\ t.failed \in Nat /\ t.uncertain \in Nat
BY DEF Tallies

\* A batch that reports no more items than it was planned with, or that was
\* not planned by items.
LEMMA BatchFits ==
  ASSUME NEW n \in Nat, NEW t \in Tallies, NEW e \in Errors, Count(t) <= n,
         NEW items \in {0, n}
  PROVE  /\ items \in Nat
         /\ BatchStatus(t, e) \in {"success", "failed", "partial"}
         /\ NotNegative(n - Count(t)) \in Nat
         /\ Fits(items, BatchStatus(t, e), t, NotNegative(n - Count(t)), e, "")
<1>1. /\ t.succeeded \in Nat /\ t.failed \in Nat /\ t.uncertain \in Nat
      /\ t.succeeded + t.failed + t.uncertain <= n
  BY TallyFields DEF Count
<1> DEFINE k == NotNegative(n - Count(t))
           s == BatchStatus(t, e)
<1>2. k \in Nat /\ k = n - (t.succeeded + t.failed + t.uncertain)
  BY <1>1 DEF NotNegative, Count
<1>3. s \in {"success", "failed", "partial"}
  BY DEF BatchStatus
<1>4. s = "success" => t.failed = 0 /\ t.uncertain = 0 /\ e = "none"
  BY <1>1 DEF BatchStatus
<1>5. s = "failed" => t.succeeded = 0
  BY <1>1 DEF BatchStatus
<1>6. s = "partial" => /\ t.succeeded > 0
                       /\ t.failed > 0 \/ t.uncertain > 0 \/ e # "none"
  BY <1>1 DEF BatchStatus
<1>7. /\ items \in Nat
      /\ items > 0 => t.succeeded + t.failed + k + t.uncertain = items
  BY <1>1, <1>2
<1>8. "" # "succeeded" /\ "" # "incomplete" /\ "" # "not-safe"
  OBVIOUS
<1> HIDE DEF k, s
<1>9. Fits(items, s, t, k, e, "")
  BY <1>4, <1>5, <1>6, <1>7, <1>8, Zenon DEF Fits
<1> QED
  BY <1>2, <1>3, <1>7, <1>9 DEF k, s

LEMMA BatchAccepted ==
  ASSUME NEW n \in Nat, NEW t \in Tallies, NEW e \in Errors, Count(t) <= n,
         NEW items \in {0, n}
  PROVE  /\ Acceptable(items, BatchOutcome(n, t, e))
         /\ BatchOutcome(n, t, e) \in Outcome
<1>1. "" \in Compensations
  BY DEF Compensations
<1> QED
  BY <1>1, BatchFits, RecordAccepted DEF BatchOutcome

\* One resource, planned as one item or not by items.
LEMMA SingleAccepted ==
  ASSUME NEW e \in Errors, NEW items \in {0, 1}
  PROVE  Acceptable(items, SingleOutcome(e)) /\ SingleOutcome(e) \in Outcome
<1>1. /\ [Zero EXCEPT !.succeeded = 1] \in Tallies
      /\ [Zero EXCEPT !.failed = 1] \in Tallies
      /\ "" \in Compensations /\ items \in Nat /\ 0 \in Nat
  BY DEF Zero, Tallies, Compensations
<1>2. CASE e = "none"
  <2>1. Fits(items, "success", [Zero EXCEPT !.succeeded = 1], 0, e, "")
    BY <1>2 DEF Fits, Zero
  <2> QED
    BY <1>1, <1>2, <2>1, RecordAccepted DEF SingleOutcome
<1>3. CASE e # "none"
  <2>1. Fits(items, "failed", [Zero EXCEPT !.failed = 1], 0, e, "")
    BY DEF Fits, Zero
  <2> QED
    BY <1>1, <1>3, <2>1, RecordAccepted DEF SingleOutcome
<1> QED
  BY <1>2, <1>3

\* An operation that was not started.
LEMMA SkippedAccepted ==
  ASSUME NEW items \in Nat
  PROVE  Acceptable(items, SkippedOutcome(items)) /\ SkippedOutcome(items) \in Outcome
<1> DEFINE k == IF items > 0 THEN items ELSE 1
<1>1. Zero \in Tallies /\ "" \in Compensations /\ "error" \in Errors /\ k \in Nat
  BY DEF Zero, Tallies, Compensations, Errors
<1>2. Fits(items, "failed", Zero, k, "error", "")
  BY DEF Fits, Zero
<1> QED
  BY <1>1, <1>2, RecordAccepted DEF SkippedOutcome

\* What a compensation may have come to when ctx set or ctx import is counted.
ImportUndone(e, c, doubtful) ==
  /\ e = "none" => c = ""
  /\ doubtful => c \in {"not-safe", "incomplete"}
  /\ c = "incomplete" => doubtful

\* Of n items all, or all but the first, are counted alike.
LEMMA AllAlike ==
  ASSUME NEW n \in Nat \ {0}
  PROVE  /\ [Zero EXCEPT !.succeeded = n] \in Tallies
         /\ [Zero EXCEPT !.uncertain = n] \in Tallies
         /\ [Zero EXCEPT !.failed = 1] \in Tallies
         /\ n \in Nat /\ 0 \in Nat /\ NotNegative(n - 1) \in Nat
BY DEF Zero, Tallies, NotNegative

\* ctx set and ctx import, for every result of a compensation there can be.
LEMMA ImportAccepted ==
  ASSUME NEW n \in Nat \ {0}, NEW c \in Compensations, NEW e \in Errors,
         NEW doubtful \in BOOLEAN, ImportUndone(e, c, doubtful)
  PROVE  /\ Acceptable(n, ImportOutcome(n, c, doubtful, e))
         /\ ImportOutcome(n, c, doubtful, e) \in Outcome
<1> DEFINE all == [Zero EXCEPT !.succeeded = n]
           unknown == [Zero EXCEPT !.uncertain = n]
           first == [Zero EXCEPT !.failed = 1]
           rest == NotNegative(n - 1)
<1>1. /\ all \in Tallies /\ unknown \in Tallies /\ first \in Tallies
      /\ n \in Nat /\ 0 \in Nat /\ rest \in Nat
  BY AllAlike
<1>2. /\ n + 0 + 0 + 0 = n /\ 0 + 0 + 0 + n = n /\ 0 + 1 + rest + 0 = n
      /\ n > 0 /\ ~(0 > 0)
  BY DEF NotNegative
<1>3. /\ all.succeeded = n /\ all.failed = 0 /\ all.uncertain = 0
      /\ unknown.succeeded = 0 /\ unknown.failed = 0 /\ unknown.uncertain = n
      /\ first.succeeded = 0 /\ first.failed = 1 /\ first.uncertain = 0
  BY DEF Zero
<1>4. /\ "success" # "failed" /\ "success" # "partial" /\ "failed" # "partial"
      /\ "not-safe" # "incomplete" /\ "not-safe" # "succeeded" /\ "" # "not-safe"
      /\ "incomplete" # "succeeded" /\ "" # "incomplete" /\ "" # "succeeded"
  OBVIOUS
<1>5. /\ "success" \in {"success", "failed", "partial"}
      /\ "failed" \in {"success", "failed", "partial"}
      /\ "partial" \in {"success", "failed", "partial"}
  OBVIOUS
<1> HIDE DEF all, unknown, first, rest
<1>6. CASE e = "none"
  <2>1. c = ""
    BY <1>6 DEF ImportUndone
  <2>2. Fits(n, "success", all, 0, e, c)
    BY <1>2, <1>3, <1>4, <1>6, <2>1, Zenon DEF Fits
  <2>3. ImportOutcome(n, c, doubtful, e) = Record("success", all, 0, e, c)
    BY <1>6 DEF ImportOutcome, all
  <2> QED
    BY <1>1, <1>5, <2>2, <2>3, RecordAccepted
<1>7. CASE e # "none" /\ (doubtful \/ c = "incomplete")
  <2>1. c # "succeeded"
    BY <1>4, <1>7 DEF ImportUndone
  <2>2. Fits(n, "failed", unknown, 0, e, c)
    BY <1>2, <1>3, <1>4, <1>7, <2>1, Zenon DEF Fits
  <2>3. ImportOutcome(n, c, doubtful, e) = Record("failed", unknown, 0, e, c)
    BY <1>7, Zenon DEF ImportOutcome, unknown
  <2> QED
    BY <1>1, <1>5, <2>2, <2>3, RecordAccepted
<1>8. CASE e # "none" /\ ~doubtful /\ c = "not-safe"
  <2>1. Fits(n, "partial", all, 0, e, c)
    BY <1>2, <1>3, <1>4, <1>8, Zenon DEF Fits
  <2>2. ImportOutcome(n, c, doubtful, e) = Record("partial", all, 0, e, c)
    BY <1>8 DEF ImportOutcome, all
  <2> QED
    BY <1>1, <1>5, <2>1, <2>2, RecordAccepted
<1>9. CASE e # "none" /\ ~doubtful /\ c \in {"", "succeeded"}
  <2>1. c # "incomplete" /\ c # "not-safe"
    BY <1>4, <1>9
  <2>2. Fits(n, "failed", first, rest, e, c)
    BY <1>2, <1>3, <1>4, <1>9, <2>1, Zenon DEF Fits
  <2>3. ImportOutcome(n, c, doubtful, e) = Record("failed", first, rest, e, c)
    BY <1>9, <2>1 DEF ImportOutcome, first, rest
  <2> QED
    BY <1>1, <1>5, <2>2, <2>3, RecordAccepted
<1> QED
  BY <1>6, <1>7, <1>8, <1>9 DEF Compensations, ImportUndone

\* What a compensation may have come to when a migration is counted.
MigrateUndone(t, e, c) ==
  /\ e = "none" => t.failed = 0 /\ t.uncertain = 0 /\ c = ""
  /\ c = "succeeded" => t.uncertain = 0
  /\ c = "incomplete" => t.uncertain > 0
  /\ c = "not-safe" => t.succeeded > 0 \/ t.uncertain > 0

\* A migration, for every result of a compensation there can be.
LEMMA MigrateAccepted ==
  ASSUME NEW n \in Nat, NEW t \in Tallies, NEW e \in Errors, NEW c \in Compensations,
         Count(t) <= n, MigrateUndone(t, e, c)
  PROVE  Acceptable(n, MigrateOutcome(n, t, e, c)) /\ MigrateOutcome(n, t, e, c) \in Outcome
<1>1. /\ t.succeeded \in Nat /\ t.failed \in Nat /\ t.uncertain \in Nat
      /\ t.succeeded + t.failed + t.uncertain <= n
  BY TallyFields DEF Count
<1> DEFINE k == NotNegative(n - Count(t))
           s == IF e = "none" THEN "success"
                ELSE IF t.succeeded > 0 THEN "partial" ELSE "failed"
<1>2. k \in Nat /\ k = n - (t.succeeded + t.failed + t.uncertain)
  BY <1>1 DEF NotNegative, Count
<1>3. n > 0 => t.succeeded + t.failed + k + t.uncertain = n
  BY <1>1, <1>2
<1>4. s \in {"success", "failed", "partial"}
  OBVIOUS
<1>5. s = "success" => t.failed = 0 /\ t.uncertain = 0 /\ e = "none" /\ c = ""
  BY DEF MigrateUndone
<1>6. ~(t.succeeded > 0) => t.succeeded = 0
  BY <1>1
<1>7. s = "failed" => ~(t.succeeded > 0)
  OBVIOUS
<1>8. s = "partial" => t.succeeded > 0 /\ e # "none"
  OBVIOUS
<1> HIDE DEF k, s
<1>9. Fits(n, s, t, k, e, c)
  BY <1>3, <1>5, <1>6, <1>7, <1>8, Zenon DEF Fits, MigrateUndone
<1>10. MigrateOutcome(n, t, e, c) = Record(s, t, k, e, c)
  BY Zenon DEF MigrateOutcome, k, s
<1> QED
  BY <1>2, <1>4, <1>9, <1>10, RecordAccepted

\* audit prune, however many of the files were deleted.
LEMMA PruneAccepted ==
  ASSUME NEW n \in Nat \ {0}, NEW d \in 0 .. n, NEW e \in Errors, NEW durable \in BOOLEAN,
         e = "none" => d = n
  PROVE  /\ Acceptable(n, PruneOutcome(n, d, durable, e))
         /\ PruneOutcome(n, d, durable, e) \in Outcome
<1> DEFINE t == PruneTally(n, d, durable, e)
           k == PruneSkipped(n, d, e)
<1>1. t \in Tallies /\ k \in Nat /\ "" \in Compensations
  BY DEF PruneTally, PruneSkipped, Tallies, Compensations
<1>2. n > 0 => t.succeeded + t.failed + k + t.uncertain = n
  BY DEF PruneTally, PruneSkipped
<1>3. CASE e = "none"
  <2>1. Fits(n, "success", t, k, e, "")
    BY <1>2, <1>3 DEF Fits, PruneTally
  <2> QED
    BY <1>1, <1>3, <2>1, RecordAccepted DEF PruneOutcome
<1>4. CASE e # "none" /\ durable /\ d > 0
  <2>1. Fits(n, "partial", t, k, e, "")
    BY <1>2, <1>4 DEF Fits, PruneTally
  <2> QED
    BY <1>1, <1>4, <2>1, RecordAccepted DEF PruneOutcome
<1>5. CASE e # "none" /\ ~(durable /\ d > 0)
  <2>1. Fits(n, "failed", t, k, e, "")
    BY <1>2, <1>5 DEF Fits, PruneTally
  <2> QED
    BY <1>1, <1>5, <2>1, RecordAccepted DEF PruneOutcome
<1> QED
  BY <1>3, <1>4, <1>5

-----------------------------------------------------------------------------
(***************************************************************************)
(* Finish reports what has happened.                                        *)
(***************************************************************************)

\* The counters of an outcome are those it was made from.
LEMMA BatchCounts ==
  ASSUME NEW n \in Nat, NEW t \in Tallies, NEW e \in Errors
  PROVE  /\ BatchOutcome(n, t, e).succeeded = t.succeeded
         /\ BatchOutcome(n, t, e).uncertain = t.uncertain
BY DEF BatchOutcome, Record

LEMMA MigrateCounts ==
  ASSUME NEW n \in Nat, NEW t \in Tallies, NEW e \in Errors, NEW c \in Compensations
  PROVE  /\ MigrateOutcome(n, t, e, c).succeeded = t.succeeded
         /\ MigrateOutcome(n, t, e, c).uncertain = t.uncertain
BY DEF MigrateOutcome, Record

LEMMA PruneCounts ==
  ASSUME NEW n \in Nat, NEW d \in Nat, NEW durable \in BOOLEAN, NEW e \in Errors
  PROVE  /\ PruneOutcome(n, d, durable, e).succeeded = PruneTally(n, d, durable, e).succeeded
         /\ PruneOutcome(n, d, durable, e).uncertain = PruneTally(n, d, durable, e).uncertain
BY DEF PruneOutcome, Record

\* A redrive that reports nothing and fails counts one item as uncertain.
LEMMA RedriveCounts ==
  ASSUME NEW t \in Tallies, NEW e \in Errors
  PROVE  /\ RedriveTally(t, e) \in Tallies
         /\ RedriveTally(t, e).succeeded = t.succeeded
         /\ RedriveTally(t, e).uncertain >= t.uncertain
         /\ Count(RedriveTally(t, e)) <= Count(t) \/ Count(RedriveTally(t, e)) = 1
         /\ Count(RedriveTally(t, e)) \in Nat
<1>1. /\ t.succeeded \in Nat /\ t.failed \in Nat /\ t.uncertain \in Nat
  BY TallyFields
<1>2. CASE Count(t) = 0 /\ e # "none"
  <2>1. RedriveTally(t, e) = [t EXCEPT !.uncertain = 1]
    BY <1>2 DEF RedriveTally
  <2>2. /\ [t EXCEPT !.uncertain = 1] \in Tallies
        /\ [t EXCEPT !.uncertain = 1].succeeded = t.succeeded
        /\ [t EXCEPT !.uncertain = 1].failed = t.failed
        /\ [t EXCEPT !.uncertain = 1].uncertain = 1
    BY DEF Tallies
  <2>3. Count(t) = 0
    BY <1>2
  <2>4. t.succeeded = 0 /\ t.failed = 0 /\ t.uncertain = 0
    BY <1>1, <2>3 DEF Count
  <2> QED
    BY <2>1, <2>2, <2>4 DEF Count
<1>3. CASE ~(Count(t) = 0 /\ e # "none")
  <2>1. RedriveTally(t, e) = t
    BY <1>3 DEF RedriveTally
  <2> QED
    BY <1>1, <2>1 DEF Count
<1> QED
  BY <1>2, <1>3

\* From the counters of an operation that has ended to its report.
LEMMA FinishReports ==
  ASSUME TypeOK, Planned, Ended, undoing # "open", Finish
  PROVE  Reported'
<1>1. /\ outcome' = Counted
      /\ kind' = kind /\ total' = total /\ made' = made /\ open' = open
  BY DEF Finish
<1>2. /\ tally \in Tallies /\ Count(tally) <= total /\ error \in Errors
      /\ total \in Nat /\ made \in Nat /\ open \in Nat /\ status \in Compensations
      /\ kind \in Kinds
  BY MaxItemsAssumption DEF TypeOK
<1>3. /\ tally.succeeded \in Nat /\ tally.failed \in Nat /\ tally.uncertain \in Nat
      /\ tally.succeeded + tally.failed + tally.uncertain <= total
  BY <1>2, TallyFields DEF Count
<1>4. Items' = Items
  BY <1>1 DEF Items
<1>5. SUFFICES /\ Acceptable(Items, Counted)
               /\ kind # "single" => made + open <= Counted.succeeded + Counted.uncertain
               /\ Counted.succeeded <= made
               /\ Counted \in Outcome
  <2>1. Acceptable(Items, outcome)' <=> Acceptable(Items', outcome')
    BY DEF Acceptable, CountsMatch, StatusMatches, CompensationMatches
  <2> QED
    BY <1>1, <1>4, <1>5, <2>1 DEF Reported
<1>6. CASE kind = "mirror"
  <2>1. Counted = BatchOutcome(total, tally, error) /\ Items = total
    BY <1>6 DEF Counted, Items
  <2>2. Acceptable(Items, Counted) /\ Counted \in Outcome
    BY <1>2, <2>1, BatchAccepted
  <2>3. Counted.succeeded = tally.succeeded /\ Counted.uncertain = tally.uncertain
    BY <1>2, <2>1, BatchCounts
  <2>4. made = tally.succeeded /\ open = tally.uncertain
    BY <1>6 DEF Ended, BrokerEnded, Stopping
  <2> QED
    BY <1>3, <2>2, <2>3, <2>4
<1>7. CASE kind = "redrive"
  <2> DEFINE t == RedriveTally(tally, error)
  <2>1. Counted = BatchOutcome(total, t, error) /\ Items = total
    BY <1>7 DEF Counted, Items
  <2>2. total > 0
    BY <1>7 DEF Planned
  <2>3. /\ t \in Tallies /\ t.succeeded = tally.succeeded
        /\ t.uncertain >= tally.uncertain /\ Count(t) \in Nat
        /\ Count(t) <= Count(tally) \/ Count(t) = 1
    BY <1>2, RedriveCounts
  <2>4. Count(tally) \in Nat
    BY <1>3 DEF Count
  <2> HIDE DEF t
  <2>5. Count(t) <= total
    BY <1>2, <2>2, <2>3, <2>4
  <2>6. Acceptable(Items, Counted) /\ Counted \in Outcome
    BY <1>2, <2>1, <2>3, <2>5, BatchAccepted
  <2>7. Counted.succeeded = t.succeeded /\ Counted.uncertain = t.uncertain
    BY <1>2, <2>1, <2>3, BatchCounts
  <2>8. made = tally.succeeded /\ open = tally.uncertain
    BY <1>7 DEF Ended, BrokerEnded, Stopping
  <2>9. t.uncertain \in Nat
    BY <2>3, TallyFields
  <2>10. made + open <= t.succeeded + t.uncertain /\ t.succeeded <= made
    BY <1>3, <2>3, <2>8, <2>9
  <2> QED
    BY <2>6, <2>7, <2>10
<1>8. CASE kind = "fleet"
  <2>1. Counted = BatchOutcome(Items, tally, error)
    BY <1>8 DEF Counted
  <2>2. Items \in Nat /\ Items >= total
    BY <1>2, <1>8 DEF Items
  <2>3. Count(tally) \in Nat
    BY <1>3 DEF Count
  <2>4. Count(tally) <= Items
    BY <1>2, <2>2, <2>3
  <2>5. Acceptable(Items, Counted) /\ Counted \in Outcome
    BY <1>2, <2>1, <2>2, <2>4, BatchAccepted
  <2>6. Counted.succeeded = tally.succeeded /\ Counted.uncertain = tally.uncertain
    BY <1>2, <2>1, <2>2, BatchCounts
  <2>7. made = tally.succeeded /\ open = 0
    BY <1>8 DEF Ended, FleetEnded
  <2> QED
    BY <1>3, <2>5, <2>6, <2>7
<1>9. CASE kind = "purge"
  <2> DEFINE t == RedriveTally(tally, error)
  <2>1. Counted = BatchOutcome(Count(t), t, error) /\ Items = 0
    BY <1>9 DEF Counted, Items
  <2>2. /\ t \in Tallies /\ t.succeeded = tally.succeeded
        /\ Count(t) \in Nat
    BY <1>2, RedriveCounts
  <2>3. made = tally.succeeded /\ open <= t.uncertain
    BY <1>9 DEF Ended, PurgeEnded
  <2> HIDE DEF t
  <2>4. Count(t) <= Count(t) /\ 0 \in {0, Count(t)}
    BY <2>2
  <2>5. Acceptable(Items, Counted) /\ Counted \in Outcome
    BY <1>2, <2>1, <2>2, <2>4, BatchAccepted
  <2>6. Counted.succeeded = t.succeeded /\ Counted.uncertain = t.uncertain
    BY <1>2, <2>1, <2>2, BatchCounts
  <2>7. t.uncertain \in Nat
    BY <2>2, TallyFields
  <2>8. made + open <= t.succeeded + t.uncertain /\ t.succeeded <= made
    BY <1>2, <1>3, <2>2, <2>3, <2>7
  <2> QED
    BY <2>5, <2>6, <2>8
<1>10. CASE kind = "single"
  <2>1. Counted = SingleOutcome(error)
    BY <1>10 DEF Counted
  <2>2. Items \in {0, 1}
    BY <1>2, <1>10 DEF Items, Planned
  <2>3. Acceptable(Items, Counted) /\ Counted \in Outcome
    BY <1>2, <2>1, <2>2, SingleAccepted
  <2>4. Counted.succeeded = IF error = "none" THEN 1 ELSE 0
    BY <2>1 DEF SingleOutcome, Record, Zero
  <2>5. error = "none" => made = 1
    BY <1>10 DEF Ended, SingleEnded
  <2> QED
    BY <1>2, <1>10, <2>3, <2>4, <2>5
<1>11. CASE kind = "refused"
  <2>1. Counted = SkippedOutcome(Items)
    BY <1>11 DEF Counted
  <2>2. Items \in Nat
    BY <1>2, <1>11 DEF Items
  <2>3. Acceptable(Items, Counted) /\ Counted \in Outcome
    BY <2>1, <2>2, SkippedAccepted
  <2>4. Counted.succeeded = 0 /\ Counted.uncertain = 0
    BY <2>1 DEF SkippedOutcome, Record, Zero
  <2>5. made = 0 /\ open = 0
    BY <1>11 DEF Ended, RefusedEnded
  <2> QED
    BY <2>3, <2>4, <2>5
<1>12. CASE kind = "import"
  <2> DEFINE doubtful == undoing = "doubtful"
  <2>1. Counted = ImportOutcome(total, status, doubtful, error) /\ Items = total
    BY <1>12 DEF Counted, Items
  <2>2. total \in Nat \ {0}
    BY <1>2, <1>12 DEF Planned
  <2>3. ImportEnded /\ undoing \in {"none", "open", "restored", "kept", "doubtful"}
    BY DEF Ended, TypeOK
  <2>4. ImportUndone(error, status, doubtful)
    BY <1>12, <2>3 DEF ImportUndone, ImportEnded
  <2>5. Acceptable(Items, Counted) /\ Counted \in Outcome
    BY <1>2, <2>1, <2>2, <2>4, ImportAccepted
  <2>6. CASE error = "none"
    <3>1. Counted = Record("success", [Zero EXCEPT !.succeeded = total], 0, error, status)
      BY <2>1, <2>6 DEF ImportOutcome
    <3>2. Counted.succeeded = total /\ Counted.uncertain = 0
      BY <3>1 DEF Record, Zero
    <3>3. made = total /\ open = 0
      BY <1>12, <2>3, <2>6 DEF ImportEnded
    <3> QED
      BY <1>2, <2>5, <3>2, <3>3
  <2>7. CASE error # "none" /\ doubtful
    <3>1. Counted = Record("failed", [Zero EXCEPT !.uncertain = total], 0, error, status)
      BY <2>1, <2>7 DEF ImportOutcome
    <3>2. Counted.succeeded = 0 /\ Counted.uncertain = total
      BY <3>1 DEF Record, Zero
    <3>3. made = 0 /\ made + open <= total
      BY <1>12, <2>3, <2>7 DEF ImportEnded
    <3> QED
      BY <1>2, <2>5, <3>2, <3>3
  <2>8. CASE error # "none" /\ ~doubtful /\ status = "not-safe"
    <3>1. Counted = Record("partial", [Zero EXCEPT !.succeeded = total], 0, error, status)
      BY <2>1, <2>8 DEF ImportOutcome
    <3>2. Counted.succeeded = total /\ Counted.uncertain = 0
      BY <3>1 DEF Record, Zero
    <3>3. made = total /\ open = 0
      BY <1>12, <2>3, <2>8 DEF ImportEnded
    <3> QED
      BY <1>2, <2>5, <3>2, <3>3
  <2>9. CASE error # "none" /\ ~doubtful /\ status # "not-safe"
    <3>1. status # "incomplete"
      BY <2>4, <2>9 DEF ImportUndone
    <3>2. Counted = Record("failed", [Zero EXCEPT !.failed = 1],
                           NotNegative(total - 1), error, status)
      BY <2>1, <2>9, <3>1 DEF ImportOutcome
    <3>3. Counted.succeeded = 0 /\ Counted.uncertain = 0
      BY <3>2 DEF Record, Zero
    <3>4. made = 0 /\ open = 0
      BY <1>12, <2>3, <2>9 DEF ImportEnded
    <3> QED
      BY <2>5, <3>3, <3>4
  <2> QED
    BY <2>6, <2>7, <2>8, <2>9
<1>13. CASE kind = "migrate"
  <2>1. Counted = MigrateOutcome(total, tally, error, status) /\ Items = total
    BY <1>13 DEF Counted, Items
  <2>2. MigrateEnded /\ undoing \in {"none", "open", "restored", "kept", "doubtful"}
    BY DEF Ended, TypeOK
  <2>3. MigrateUndone(tally, error, status)
    BY <1>13, <2>2 DEF MigrateUndone, MigrateEnded
  <2>4. Acceptable(Items, Counted) /\ Counted \in Outcome
    BY <1>2, <2>1, <2>3, MigrateAccepted
  <2>5. Counted.succeeded = tally.succeeded /\ Counted.uncertain = tally.uncertain
    BY <1>2, <2>1, MigrateCounts
  <2>6. \/ made = tally.succeeded /\ open = 0
        \/ tally.succeeded = 0 /\ made = 0 /\ open = 0
        \/ tally.succeeded = 0 /\ made = 0 /\ open <= tally.uncertain
    BY <1>13, <2>2, Zenon DEF MigrateEnded
  <2>7. made + open <= tally.succeeded + tally.uncertain /\ tally.succeeded <= made
    BY <1>2, <1>3, <2>6
  <2> QED
    BY <2>4, <2>5, <2>7
<1>14. CASE kind = "prune"
  <2> DEFINE durable == undoing # "doubtful"
  <2>1. /\ Counted = PruneOutcome(total, tally.succeeded, durable, error)
        /\ Items = total
    BY <1>14 DEF Counted, Items
  <2>2. total \in Nat \ {0} /\ tally.succeeded \in 0 .. total
    BY <1>2, <1>3, <1>14 DEF Planned
  <2>3. error = "none" => tally.succeeded = total
    BY <1>14 DEF Ended, PruneEnded
  <2>4. Acceptable(Items, Counted) /\ Counted \in Outcome
    BY <1>2, <2>1, <2>2, <2>3, PruneAccepted
  <2>5. /\ Counted.succeeded = PruneTally(total, tally.succeeded, durable, error).succeeded
        /\ Counted.uncertain = PruneTally(total, tally.succeeded, durable, error).uncertain
    BY <1>2, <1>3, <2>1, PruneCounts
  <2>6. CASE durable
    <3>1. Counted.succeeded = tally.succeeded /\ Counted.uncertain = 0
      BY <2>5, <2>6 DEF PruneTally
    <3>2. made = tally.succeeded /\ open = 0
      BY <1>14, <2>6 DEF Ended, PruneEnded
    <3> QED
      BY <1>3, <2>4, <3>1, <3>2
  <2>7. CASE ~durable
    <3>1. error # "none" /\ made = 0 /\ open = tally.succeeded
      BY <1>14, <2>7 DEF Ended, PruneEnded
    <3>2. Counted.succeeded = 0 /\ Counted.uncertain = tally.succeeded
      BY <2>5, <2>7, <3>1 DEF PruneTally
    <3> QED
      BY <1>3, <2>4, <3>1, <3>2
  <2> QED
    BY <2>6, <2>7
<1> QED
  BY <1>2, <1>6, <1>7, <1>8, <1>9, <1>10, <1>11, <1>12, <1>13, <1>14
     DEF Kinds, Stopping, Credentialed

-----------------------------------------------------------------------------
(***************************************************************************)
(* Every step keeps the invariant.                                          *)
(***************************************************************************)

\* One more item of an operation that has items left.
LEMMA OneMore ==
  ASSUME tally \in Tallies, total \in Nat, Count(tally) < total, total' = total
  PROVE  /\ Tallied("succeeded") =>
              /\ tally' \in Tallies /\ Count(tally') <= total'
              /\ tally'.succeeded = tally.succeeded + 1
              /\ tally'.failed = tally.failed /\ tally'.uncertain = tally.uncertain
         /\ Tallied("failed") =>
              /\ tally' \in Tallies /\ Count(tally') <= total'
              /\ tally'.failed = tally.failed + 1
              /\ tally'.succeeded = tally.succeeded /\ tally'.uncertain = tally.uncertain
         /\ Tallied("uncertain") =>
              /\ tally' \in Tallies /\ Count(tally') <= total'
              /\ tally'.uncertain = tally.uncertain + 1
              /\ tally'.succeeded = tally.succeeded /\ tally'.failed = tally.failed
<1>1. /\ tally.succeeded \in Nat /\ tally.failed \in Nat /\ tally.uncertain \in Nat
      /\ tally.succeeded + tally.failed + tally.uncertain < total
  BY TallyFields DEF Count
<1>2. CASE Tallied("succeeded")
  <2>1. /\ tally' \in Tallies /\ tally'.succeeded = tally.succeeded + 1
        /\ tally'.failed = tally.failed /\ tally'.uncertain = tally.uncertain
    BY <1>1, <1>2 DEF Tallied, Tallies
  <2> QED
    BY <1>1, <1>2, <2>1 DEF Count, Tallied
<1>3. CASE Tallied("failed")
  <2>1. /\ tally' \in Tallies /\ tally'.failed = tally.failed + 1
        /\ tally'.succeeded = tally.succeeded /\ tally'.uncertain = tally.uncertain
    BY <1>1, <1>3 DEF Tallied, Tallies
  <2> QED
    BY <1>1, <1>3, <2>1 DEF Count, Tallied
<1>4. CASE Tallied("uncertain")
  <2>1. /\ tally' \in Tallies /\ tally'.uncertain = tally.uncertain + 1
        /\ tally'.succeeded = tally.succeeded /\ tally'.failed = tally.failed
    BY <1>1, <1>4 DEF Tallied, Tallies
  <2> QED
    BY <1>1, <1>4, <2>1 DEF Count, Tallied
<1> QED
  BY <1>2, <1>3, <1>4

\* An operation of one kind knows nothing of the others.
LEMMA EndedIf ==
  ASSUME undoing' # "open" \/ kind' \in Credentialed
  PROVE  /\ kind' \in Stopping /\ BrokerEnded' => Ended'
         /\ kind' = "fleet" /\ FleetEnded' => Ended'
         /\ kind' = "purge" /\ PurgeEnded' => Ended'
         /\ kind' = "single" /\ SingleEnded' => Ended'
         /\ kind' = "refused" /\ RefusedEnded' => Ended'
         /\ kind' = "import" /\ ImportEnded' => Ended'
         /\ kind' = "migrate" /\ MigrateEnded' => Ended'
         /\ kind' = "prune" /\ PruneEnded' => Ended'
<1>1. kind' # "import" => ImportEnded'
  BY DEF ImportEnded
<1>2. kind' # "migrate" => MigrateEnded'
  BY DEF MigrateEnded
<1>3. kind' # "prune" => PruneEnded'
  BY DEF PruneEnded
<1>4. kind' # "purge" => PurgeEnded'
  BY DEF PurgeEnded
<1>5. kind' # "fleet" => FleetEnded'
  BY DEF FleetEnded
<1>6. kind' \notin Stopping => BrokerEnded'
  BY DEF BrokerEnded
<1>7. (kind' # "single" => SingleEnded') /\ (kind' # "refused" => RefusedEnded')
  BY DEF SingleEnded, RefusedEnded
<1> QED
  BY <1>1, <1>2, <1>3, <1>4, <1>5, <1>6, <1>7 DEF Ended, Stopping, Credentialed

\* While its items are done, an operation counts what has happened.
LEMMA ItemSteps ==
  ASSUME OutcomeInv, ItemSucceeds \/ ContextFails
  PROVE  OutcomeInv'
<1>1. TypeOK /\ Planned /\ total \in Nat /\ tally \in Tallies
  BY MaxItemsAssumption DEF OutcomeInv, TypeOK
<1>2. tally.succeeded \in Nat /\ tally.failed \in Nat
  BY <1>1, TallyFields
<1>3. CASE ItemSucceeds
  <2>1. /\ tally' \in Tallies /\ Count(tally') <= total'
        /\ tally'.succeeded = tally.succeeded + 1
        /\ tally'.failed = tally.failed /\ tally'.uncertain = tally.uncertain
    BY <1>1, <1>3, OneMore DEF ItemSucceeds, Left
  <2>2. TypeOK'
    BY <1>1, <1>3, <2>1 DEF ItemSucceeds, TypeOK
  <2>3. Running
    BY <1>3 DEF ItemSucceeds, Left, OutcomeInv
  <2>4. Running'
    BY <1>2, <1>3, <2>1, <2>3
       DEF ItemSucceeds, Running, Stopping, Credentialed
  <2> QED
    BY <1>1, <1>3, <2>2, <2>4 DEF ItemSucceeds, Left, OutcomeInv, Planned
<1>4. CASE ContextFails
  <2>1. /\ tally' \in Tallies /\ Count(tally') <= total'
        /\ tally'.failed = tally.failed + 1
        /\ tally'.succeeded = tally.succeeded /\ tally'.uncertain = tally.uncertain
    BY <1>1, <1>4, OneMore DEF ContextFails, Left
  <2>2. TypeOK'
    BY <1>1, <1>4, <2>1 DEF ContextFails, TypeOK, Errors
  <2>3. Running
    BY <1>4 DEF ContextFails, Left, OutcomeInv
  <2>4. tally'.failed > 0
    BY <1>2, <2>1
  <2>5. Running'
    BY <1>4, <2>1, <2>3, <2>4 DEF ContextFails, Running
  <2> QED
    BY <1>1, <1>4, <2>2, <2>5 DEF ContextFails, Left, OutcomeInv, Planned
<1> QED
  BY <1>3, <1>4

\* A broker command ends at its first error, or with its last item.
LEMMA BrokerSteps ==
  ASSUME OutcomeInv, ItemFails \/ ItemUnclear \/ End
  PROVE  OutcomeInv'
<1>1. TypeOK /\ Planned /\ total \in Nat /\ tally \in Tallies /\ Running
  BY MaxItemsAssumption
     DEF OutcomeInv, TypeOK, ItemFails, ItemUnclear, End, Left
<1>2. tally.succeeded \in Nat /\ tally.failed \in Nat /\ tally.uncertain = 0 /\ open = 0
  BY <1>1, TallyFields DEF Running
<1>3. CASE ItemFails
  <2>1. /\ tally' \in Tallies /\ Count(tally') <= total'
        /\ tally'.failed = tally.failed + 1
        /\ tally'.succeeded = tally.succeeded /\ tally'.uncertain = tally.uncertain
    BY <1>1, <1>3, OneMore DEF ItemFails, Left
  <2>2. TypeOK'
    BY <1>1, <1>3, <2>1 DEF ItemFails, Stop, TypeOK, Errors
  <2>3. /\ made' = tally'.succeeded /\ open' = tally'.uncertain
        /\ error' # "none" /\ undoing' # "open" /\ kind' \in Stopping
    BY <1>1, <1>2, <1>3, <2>1 DEF ItemFails, Stop, Running
  <2>4. Ended'
    BY <2>3, EndedIf DEF BrokerEnded
  <2> QED
    BY <1>1, <1>3, <2>2, <2>4 DEF ItemFails, Stop, OutcomeInv, Planned
<1>4. CASE ItemUnclear
  <2>1. /\ tally' \in Tallies /\ Count(tally') <= total'
        /\ tally'.uncertain = tally.uncertain + 1
        /\ tally'.succeeded = tally.succeeded /\ tally'.failed = tally.failed
    BY <1>1, <1>4, OneMore DEF ItemUnclear, Left
  <2>2. TypeOK'
    BY <1>1, <1>4, <2>1 DEF ItemUnclear, Stop, TypeOK, Errors
  <2>3. /\ made' = tally'.succeeded /\ open' = tally'.uncertain
        /\ error' # "none" /\ undoing' # "open" /\ kind' \in Stopping
    BY <1>1, <1>2, <1>4, <2>1 DEF ItemUnclear, Stop, Running
  <2>4. Ended'
    BY <2>3, EndedIf DEF BrokerEnded
  <2> QED
    BY <1>1, <1>4, <2>2, <2>4 DEF ItemUnclear, Stop, OutcomeInv, Planned
<1>5. CASE End
  <2>1. /\ kind' = kind /\ total' = total /\ tally' = tally /\ undoing' = undoing
        /\ status' = status /\ made' = made /\ open' = open /\ outcome' = outcome
        /\ phase' = "ended" /\ kind \in Stopping \cup {"fleet", "prune"}
    BY <1>5 DEF End, Stop
  <2>2. error' \in Errors
    BY <1>1, <1>5 DEF End, Stop, Errors, TypeOK
  <2>3. TypeOK'
    BY <1>1, <2>1, <2>2 DEF TypeOK
  <2>4. /\ made = tally.succeeded /\ undoing' # "open"
        /\ kind # "fleet" => tally.failed = 0
    BY <1>1, <2>1 DEF Running
  <2>5. CASE kind \in Stopping
    <3>1. BrokerEnded'
      BY <1>2, <2>1, <2>4, <2>5 DEF BrokerEnded, Stopping
    <3> QED
      BY <1>1, <2>1, <2>3, <2>4, <2>5, <3>1, EndedIf DEF OutcomeInv, Planned
  <2>6. CASE kind = "fleet"
    <3>1. error' = error
      BY <1>5, <2>6 DEF End, Stop
    <3>2. error # "none" <=> tally.failed > 0
      BY <1>1, <2>6 DEF Running
    <3>3. FleetEnded'
      BY <1>2, <2>1, <2>4, <3>1, <3>2 DEF FleetEnded
    <3> QED
      BY <1>1, <2>1, <2>3, <2>4, <2>6, <3>3, EndedIf DEF OutcomeInv, Planned
  <2>7. CASE kind = "prune"
    <3>1. Count(tally) = total
      BY <1>5, <2>7 DEF End
    <3>2. tally.succeeded = total
      BY <1>2, <2>4, <2>7, <3>1 DEF Count
    <3>3. undoing' # "doubtful"
      BY <1>1, <2>1 DEF Running
    <3>4. PruneEnded'
      BY <1>2, <2>1, <2>4, <3>2, <3>3 DEF PruneEnded
    <3> QED
      BY <1>1, <2>1, <2>3, <2>4, <2>7, <3>4, EndedIf DEF OutcomeInv, Planned
  <2> QED
    BY <2>1, <2>5, <2>6, <2>7
<1> QED
  BY <1>3, <1>4, <1>5

\* A change of credentials and contexts ends, or is left to its compensation.
LEMMA CredentialSteps ==
  ASSUME OutcomeInv, StoreFails \/ CommitFails \/ CommitSucceeds
  PROVE  OutcomeInv'
<1>1. /\ TypeOK /\ Planned /\ total \in Nat /\ tally \in Tallies /\ Running
      /\ kind \in Credentialed
  BY MaxItemsAssumption
     DEF OutcomeInv, TypeOK, StoreFails, CommitFails, CommitSucceeds, Left
<1>2. status = "" /\ error = "none" /\ undoing = "none" /\ kind # "fleet"
  BY <1>1 DEF Running, Credentialed
<1>12. tally.failed = 0 /\ tally.uncertain = 0 /\ open = 0 /\ made = tally.succeeded
  BY <1>1, <1>2, Zenon DEF Running
<1>13. tally.succeeded \in Nat
  BY <1>1, TallyFields
<1>3. total > 0
  BY <1>1 DEF Planned, Credentialed
<1>4. Count(tally) = tally.succeeded
  BY <1>12, <1>13 DEF Count
<1>5. CASE StoreFails
  <2>1. /\ tally' \in Tallies /\ Count(tally') <= total'
        /\ tally'.failed = tally.failed + 1
        /\ tally'.succeeded = tally.succeeded /\ tally'.uncertain = tally.uncertain
    BY <1>1, <1>5, OneMore DEF StoreFails, Left
  <2>2. /\ kind' = kind /\ total' = total /\ status' = status /\ made' = made
        /\ phase' = "ended" /\ error' = "error" /\ outcome' = outcome
    BY <1>5 DEF StoreFails, Stop
  <2>3. tally.succeeded < total
    BY <1>4, <1>5 DEF StoreFails, Left
  <2>4. \/ open' = 1 /\ undoing' = "open"
        \/ open' = 0 /\ undoing' = "none" /\ made = 0
    <3>1. PICK writes \in BOOLEAN :
            /\ Count(tally) > 0 => writes
            /\ open' = open + (IF writes THEN 1 ELSE 0)
            /\ undoing' = IF writes THEN "open" ELSE "none"
      BY <1>5 DEF StoreFails
    <3>2. CASE writes
      <4>1. open' = 1
        BY <1>12, <3>1, <3>2
      <4> QED
        BY <3>1, <3>2, <4>1
    <3>3. CASE ~writes
      <4>1. open' = 0
        BY <1>12, <3>1, <3>3
      <4>2. made = 0
        BY <1>4, <1>12, <1>13, <3>1, <3>3
      <4> QED
        BY <3>1, <3>3, <4>1, <4>2
    <3> QED
      BY <3>2, <3>3
  <2>5. TypeOK'
    BY <1>1, <2>1, <2>2, <2>4 DEF TypeOK, Errors
  <2>6. CASE kind = "import"
    <3>1. made' + open' <= total'
      <4>1. open' = 0 \/ open' = 1
        BY <2>4
      <4>2. made' = tally.succeeded /\ total' = total
        BY <1>12, <2>2
      <4> QED
        BY <1>1, <1>13, <2>3, <4>1, <4>2
    <3>2. tally'.failed # 0
      BY <1>12, <2>1
    <3>3. ImportEnded'
      BY <1>2, <2>2, <2>4, <3>1, <3>2 DEF ImportEnded
    <3> QED
      BY <1>1, <2>2, <2>5, <2>6, <3>3, EndedIf DEF OutcomeInv, Planned, Credentialed
  <2>7. CASE kind = "migrate"
    <3>1. Count(tally') > 0 /\ open' <= tally'.failed
      <4>1. open' = 0 \/ open' = 1
        BY <2>4
      <4> QED
        BY <1>12, <1>13, <2>1, <4>1 DEF Count
    <3>2. MigrateEnded'
      BY <1>2, <1>12, <2>1, <2>2, <2>4, <3>1 DEF MigrateEnded
    <3> QED
      BY <1>1, <2>2, <2>5, <2>7, <3>2, EndedIf DEF OutcomeInv, Planned, Credentialed
  <2> QED
    BY <1>1, <2>6, <2>7 DEF Credentialed
<1>6. CASE CommitFails \/ CommitSucceeds
  <2>1. /\ kind' = kind /\ total' = total /\ status' = status /\ made' = made
        /\ phase' = "ended" /\ tally' = tally /\ open' = open /\ outcome' = outcome
        /\ Count(tally) = total
    BY <1>6 DEF CommitFails, CommitSucceeds, Stop
  <2>2. \/ undoing' = "open" /\ error' = "error"
        \/ undoing' = "none" /\ error' = "none"
    BY <1>2, <1>6, Zenon DEF CommitFails, CommitSucceeds, Stop
  <2>3. TypeOK'
    BY <1>1, <2>1, <2>2 DEF TypeOK, Errors
  <2>4. made = total /\ tally.succeeded = total /\ Count(tally) > 0
    BY <1>3, <1>4, <1>12, <2>1
  <2>5. made' + open' <= total'
    BY <1>1, <1>12, <2>1, <2>4
  <2>6. open' <= tally'.failed
    BY <1>12, <2>1
  <2>7. CASE kind = "import"
    <3>1. ImportEnded'
      BY <1>2, <1>12, <2>1, <2>2, <2>4, <2>5 DEF ImportEnded
    <3> QED
      BY <1>1, <2>1, <2>3, <2>7, <3>1, EndedIf DEF OutcomeInv, Planned, Credentialed
  <2>8. CASE kind = "migrate"
    <3>1. MigrateEnded'
      BY <1>2, <1>12, <2>1, <2>2, <2>4, <2>6 DEF MigrateEnded
    <3> QED
      BY <1>1, <2>1, <2>3, <2>8, <3>1, EndedIf DEF OutcomeInv, Planned, Credentialed
  <2> QED
    BY <1>1, <2>7, <2>8 DEF Credentialed
<1> QED
  BY <1>5, <1>6

\* What a compensation makes of the counters of a migration.
LEMMA Moved ==
  ASSUME NEW t \in Tallies
  PROVE  /\ AfterSuccessful(t) \in Tallies /\ AfterIncomplete(t) \in Tallies
         /\ AfterSuccessful(t).succeeded = 0
         /\ AfterSuccessful(t).uncertain = t.uncertain
         /\ Count(AfterSuccessful(t)) = Count(t)
         /\ AfterIncomplete(t).succeeded = 0 /\ AfterIncomplete(t).failed = 0
         /\ AfterIncomplete(t).uncertain = Count(t)
         /\ Count(AfterIncomplete(t)) = Count(t)
<1>1. /\ t.succeeded \in Nat /\ t.failed \in Nat /\ t.uncertain \in Nat
  BY TallyFields
<1>2. t.failed + t.succeeded \in Nat /\ t.uncertain + t.succeeded + t.failed \in Nat
  BY <1>1
<1>3. AfterSuccessful(t) \in Tallies
  BY <1>2 DEF AfterSuccessful, Tallies
<1>4. AfterSuccessful(t).succeeded = 0
  BY DEF AfterSuccessful, Tallies
<1>5. AfterSuccessful(t).failed = t.failed + t.succeeded
  BY DEF AfterSuccessful, Tallies
<1>6. AfterSuccessful(t).uncertain = t.uncertain
  BY DEF AfterSuccessful, Tallies
<1>7. AfterIncomplete(t) \in Tallies
  BY <1>2 DEF AfterIncomplete, Tallies
<1>8. AfterIncomplete(t).succeeded = 0
  BY DEF AfterIncomplete, Tallies
<1>9. AfterIncomplete(t).failed = 0
  BY DEF AfterIncomplete, Tallies
<1>10. AfterIncomplete(t).uncertain = t.uncertain + t.succeeded + t.failed
  BY DEF AfterIncomplete, Tallies
<1>11. Count(AfterSuccessful(t)) = Count(t)
  BY <1>1, <1>4, <1>5, <1>6 DEF Count
<1>12. AfterIncomplete(t).uncertain = Count(t)
  BY <1>1, <1>10 DEF Count
<1>13. Count(AfterIncomplete(t)) = Count(t)
  BY <1>1, <1>8, <1>9, <1>10 DEF Count
<1> QED
  BY <1>3, <1>4, <1>6, <1>7, <1>8, <1>9, <1>11, <1>12, <1>13

\* A compensation restores everything, keeps everything, or leaves doubt.
LEMMA CompensationSteps ==
  ASSUME OutcomeInv, Restored \/ Kept \/ Doubtful
  PROVE  OutcomeInv'
<1>1. /\ TypeOK /\ Planned /\ Ended /\ undoing = "open" /\ phase = "ended"
  BY Zenon DEF OutcomeInv, Restored, Kept, Doubtful, Undoing
<1>10. /\ total \in Nat /\ tally \in Tallies /\ made \in Nat /\ open \in Nat
       /\ Count(tally) <= total
  BY <1>1, MaxItemsAssumption DEF TypeOK
<1>2. kind \in Credentialed
  BY <1>1 DEF Ended
<1>3. /\ kind' = kind /\ total' = total /\ phase' = phase /\ error' = error
      /\ outcome' = outcome
  BY DEF Restored, Kept, Doubtful
<1>4. /\ tally.succeeded \in Nat /\ tally.failed \in Nat /\ tally.uncertain \in Nat
  BY <1>10, TallyFields
<1>5. kind = "import" => /\ error # "none" /\ made + open <= total
                         /\ tally.failed = 0 => made = total /\ open = 0
  BY <1>1 DEF Ended, ImportEnded
<1>6. kind = "migrate" => /\ error # "none" /\ tally.uncertain = 0 /\ Count(tally) > 0
                          /\ made = tally.succeeded /\ open <= tally.failed
  BY <1>1 DEF Ended, MigrateEnded
<1>7. CASE Restored
  <2>1. /\ undoing' = "restored" /\ made' = 0 /\ open' = 0
        /\ status' = "succeeded" \/ (kind = "import" /\ status' = "")
        /\ tally' = IF kind = "migrate" THEN AfterSuccessful(tally) ELSE tally
    <3>1. undoing' = "restored" /\ made' = 0 /\ open' = 0
      BY <1>7 DEF Restored
    <3>2. status' = "succeeded" \/ (kind = "import" /\ status' = "")
      BY <1>7, Zenon DEF Restored
    <3>3. tally' = IF kind = "migrate" THEN AfterSuccessful(tally) ELSE tally
      BY <1>7 DEF Restored, Progress
    <3> QED
      BY <3>1, <3>2, <3>3
  <2>2. tally' \in Tallies /\ Count(tally') = Count(tally)
    BY <1>10, <2>1, Moved
  <2>3. TypeOK'
    BY <1>1, <1>3, <2>1, <2>2 DEF TypeOK, Compensations
  <2>4. CASE kind = "import"
    <3>1. made' + open' <= total'
      <4>1. made' = 0 /\ open' = 0 /\ total' \in Nat
        BY <1>10, <1>3, <2>1
      <4> QED
        BY <4>1
    <3>2. ImportEnded'
      BY <1>3, <1>5, <2>1, <2>4, <3>1 DEF ImportEnded
    <3> QED
      BY <1>1, <1>3, <2>3, <2>4, <3>2, EndedIf DEF OutcomeInv, Planned, Credentialed
  <2>5. CASE kind = "migrate"
    <3>1. tally'.succeeded = 0 /\ tally'.uncertain = 0
      BY <1>10, <1>6, <2>1, <2>5, Moved
    <3>2. MigrateEnded'
      BY <1>3, <1>6, <2>1, <2>5, <3>1 DEF MigrateEnded
    <3> QED
      BY <1>1, <1>3, <2>3, <2>5, <3>2, EndedIf DEF OutcomeInv, Planned, Credentialed
  <2> QED
    BY <1>2, <2>4, <2>5 DEF Credentialed
<1>8. CASE Kept
  <2>1. /\ undoing' = "kept" /\ status' = "not-safe" /\ tally' = tally
        /\ made' = made /\ open' = open /\ tally.failed = 0
    BY <1>8 DEF Kept
  <2>2. TypeOK'
    BY <1>1, <1>3, <2>1 DEF TypeOK, Compensations
  <2>3. CASE kind = "import"
    <3>1. ImportEnded'
      BY <1>3, <1>5, <2>1, <2>3 DEF ImportEnded
    <3> QED
      BY <1>1, <1>3, <2>1, <2>2, <2>3, <3>1, EndedIf DEF OutcomeInv, Planned, Credentialed
  <2>4. CASE kind = "migrate"
    <3>1. open <= 0
      BY <1>6, <2>1, <2>4
    <3>2. open = 0
      BY <1>10, <3>1
    <3>3. Count(tally) > 0 /\ tally.uncertain = 0
      BY <1>6, <2>4
    <3>4. tally.succeeded > 0
      BY <1>4, <2>1, <3>3 DEF Count
    <3>5. MigrateEnded'
      BY <1>3, <1>6, <2>1, <2>4, <3>2, <3>4 DEF MigrateEnded
    <3> QED
      BY <1>1, <1>3, <2>1, <2>2, <2>4, <3>5, EndedIf DEF OutcomeInv, Planned, Credentialed
  <2> QED
    BY <1>2, <2>3, <2>4 DEF Credentialed
<1>9. CASE Doubtful
  <2>1. /\ undoing' = "doubtful" /\ made' = 0 /\ open' = open + made
        /\ status' \in {"not-safe", "incomplete"}
        /\ tally' = IF kind = "migrate" THEN AfterIncomplete(tally) ELSE tally
    BY <1>9 DEF Doubtful, Progress
  <2>2. tally' \in Tallies /\ Count(tally') = Count(tally)
    BY <1>10, <2>1, Moved
  <2>3. made' \in Nat /\ open' \in Nat
    BY <1>10, <2>1
  <2>4. TypeOK'
    BY <1>1, <1>3, <2>1, <2>2, <2>3 DEF TypeOK, Compensations
  <2>5. CASE kind = "import"
    <3>1. made + open <= total
      BY <1>5, <2>5
    <3>2. made' + open' <= total'
      BY <1>10, <1>3, <2>1, <3>1
    <3>3. ImportEnded'
      BY <1>3, <1>5, <2>1, <2>5, <3>2 DEF ImportEnded
    <3> QED
      BY <1>1, <1>3, <2>1, <2>4, <2>5, <3>3, EndedIf DEF OutcomeInv, Planned, Credentialed
  <2>6. CASE kind = "migrate"
    <3>1. /\ tally'.succeeded = 0 /\ tally'.failed = 0
          /\ tally'.uncertain = Count(tally)
      BY <1>10, <2>1, <2>6, Moved
    <3>2. /\ tally.uncertain = 0 /\ made = tally.succeeded /\ open <= tally.failed
          /\ Count(tally) > 0
      BY <1>6, <2>6
    <3>3. open' <= tally'.uncertain
      BY <1>10, <1>4, <2>1, <3>1, <3>2 DEF Count
    <3>4. MigrateEnded'
      BY <1>3, <1>6, <2>1, <2>6, <3>1, <3>2, <3>3 DEF MigrateEnded
    <3> QED
      BY <1>1, <1>3, <2>1, <2>4, <2>6, <3>4, EndedIf DEF OutcomeInv, Planned, Credentialed
  <2> QED
    BY <1>2, <2>5, <2>6 DEF Credentialed
<1> QED
  BY <1>7, <1>8, <1>9

\* audit prune stops.
LEMMA PruneSteps ==
  ASSUME OutcomeInv, PruneFails
  PROVE  OutcomeInv'
<1>1. TypeOK /\ Planned /\ Running /\ kind = "prune"
  BY DEF OutcomeInv, PruneFails
<1>2. made \in Nat /\ open = 0 /\ made = tally.succeeded
  BY <1>1 DEF Running, TypeOK
<1>3. /\ kind' = kind /\ total' = total /\ status' = status /\ tally' = tally
      /\ phase' = "ended" /\ error' = "error" /\ outcome' = outcome
  BY DEF PruneFails, Stop
<1>4. undoing # "doubtful" /\ undoing # "open"
  BY <1>1 DEF Running
<1>5. \/ made' = made /\ open' = open /\ undoing' = undoing
      \/ made' = 0 /\ open' = made /\ undoing' = "doubtful"
  BY DEF PruneFails
<1>6. TypeOK'
  BY <1>1, <1>2, <1>3, <1>5 DEF TypeOK, Errors
<1>7. PruneEnded' /\ undoing' # "open"
  BY <1>1, <1>2, <1>3, <1>4, <1>5 DEF PruneEnded
<1>8. Ended'
  BY <1>1, <1>3, <1>7, EndedIf
<1> QED
  BY <1>1, <1>3, <1>6, <1>8 DEF OutcomeInv, Planned

\* The operations that are one step for their command.
LEMMA WholeSteps ==
  ASSUME OutcomeInv, Purge \/ PurgeFails \/ Operate \/ Refuse
  PROVE  OutcomeInv'
<1>1. TypeOK /\ Planned /\ Running /\ total \in Nat
  BY MaxItemsAssumption
     DEF OutcomeInv, TypeOK, Purge, PurgeFails, Operate, Refuse
<1>2. made \in Nat /\ open = 0 /\ made = tally.succeeded /\ undoing = "none"
  BY <1>1 DEF Running, TypeOK
<1>3. /\ kind' = kind /\ total' = total /\ status' = status /\ undoing' = undoing
      /\ phase' = "ended" /\ outcome' = outcome
  BY DEF Purge, PurgeFails, Operate, Refuse, Stop
<1>4. undoing' # "open"
  BY <1>2, <1>3
<1>5. kind \in {"purge", "single", "refused"} => tally = Zero
  BY <1>1 DEF Running
<1>6. CASE Purge
  <2>1. PICK t \in [succeeded : 0 .. total, failed : 0 .. total, uncertain : 0 .. total] :
          /\ Count(t) = total
          /\ tally' = t
          /\ made' = t.succeeded /\ open' = t.uncertain
          /\ error' = IF t.failed > 0 \/ t.uncertain > 0 THEN "error" ELSE "none"
    BY <1>6 DEF Purge, Stop
  <2>2. t.succeeded \in Nat /\ t.failed \in Nat /\ t.uncertain \in Nat
    BY <1>1
  <2>3. t \in Tallies
    BY <1>1 DEF Tallies
  <2>4. Count(tally') <= total'
    BY <1>1, <1>3, <2>1
  <2>5. error' \in Errors
    BY <2>1 DEF Errors
  <2>6. TypeOK'
    BY <1>1, <1>3, <2>1, <2>2, <2>3, <2>4, <2>5 DEF TypeOK
  <2>7. error' = "none" => tally'.failed = 0 /\ tally'.uncertain = 0
    <3>1. SUFFICES ASSUME error' = "none"
                   PROVE  t.failed = 0 /\ t.uncertain = 0
      BY <2>1
    <3>2. ~(t.failed > 0 \/ t.uncertain > 0)
      BY <2>1, <3>1
    <3> QED
      BY <2>2, <3>2
  <2>8. open' <= RedriveTally(tally', error').uncertain
    BY <2>1, <2>3, <2>5, RedriveCounts
  <2>9. PurgeEnded'
    BY <2>1, <2>7, <2>8 DEF PurgeEnded
  <2>10. Ended' /\ kind = "purge"
    BY <1>3, <1>4, <1>6, <2>9, EndedIf DEF Purge
  <2> QED
    BY <1>1, <1>3, <2>6, <2>10 DEF OutcomeInv, Planned
<1>7. CASE PurgeFails
  <2>1. /\ kind = "purge" /\ tally' = tally /\ made' = made /\ error' = "error"
        /\ open' \in {0, 1}
    BY <1>7 DEF PurgeFails, Stop
  <2>2. TypeOK'
    BY <1>1, <1>3, <2>1 DEF TypeOK, Errors
  <2>3. tally' = Zero /\ Count(tally') = 0
    BY <1>5, <2>1 DEF Count, Zero
  <2>4. RedriveTally(tally', error').uncertain = 1
    BY <2>1, <2>3 DEF RedriveTally, Zero
  <2>5. open' <= RedriveTally(tally', error').uncertain
    BY <2>1, <2>4
  <2>6. PurgeEnded'
    BY <1>2, <2>1, <2>5 DEF PurgeEnded
  <2>7. Ended'
    BY <1>3, <1>4, <2>1, <2>6, EndedIf
  <2> QED
    BY <1>1, <1>3, <2>1, <2>2, <2>7 DEF OutcomeInv, Planned
<1>8. CASE Operate
  <2>1. /\ kind = "single" /\ tally' = tally
        /\ \/ error' = "none" /\ made' = 1 /\ open' = open
           \/ error' = "error" /\ made' = made /\ open' \in {0, 1}
    BY <1>8 DEF Operate, Stop
  <2>2. TypeOK'
    BY <1>1, <1>3, <2>1 DEF TypeOK, Errors
  <2>3. SingleEnded'
    BY <2>1 DEF SingleEnded
  <2>4. Ended'
    BY <1>3, <1>4, <2>1, <2>3, EndedIf
  <2> QED
    BY <1>1, <1>3, <2>1, <2>2, <2>4 DEF OutcomeInv, Planned
<1>9. CASE Refuse
  <2>1. /\ kind = "refused" /\ tally' = tally /\ made' = made /\ open' = open
        /\ error' = "error"
    BY <1>9 DEF Refuse, Stop
  <2>2. TypeOK'
    BY <1>1, <1>3, <2>1 DEF TypeOK, Errors
  <2>3. made = 0
    BY <1>2, <1>5, <2>1 DEF Zero
  <2>4. RefusedEnded'
    BY <1>2, <2>1, <2>3 DEF RefusedEnded
  <2>5. Ended'
    BY <1>3, <1>4, <2>1, <2>4, EndedIf
  <2> QED
    BY <1>1, <1>3, <2>1, <2>2, <2>5 DEF OutcomeInv, Planned
<1> QED
  BY <1>6, <1>7, <1>8, <1>9

LEMMA FinishStep ==
  ASSUME OutcomeInv, Finish
  PROVE  OutcomeInv'
<1>1. TypeOK /\ Planned /\ Ended /\ undoing # "open"
  BY DEF OutcomeInv, Finish
<1>2. Reported'
  BY <1>1, FinishReports
<1>3. outcome' \in Outcome
  BY <1>2 DEF Reported
<1>4. TypeOK'
  BY <1>1, <1>3 DEF Finish, TypeOK
<1> QED
  BY <1>1, <1>2, <1>4 DEF Finish, OutcomeInv, Planned

\* Nothing happens.
LEMMA Stutter ==
  ASSUME OutcomeInv, UNCHANGED vars
  PROVE  OutcomeInv'
<1>1. /\ kind' = kind /\ total' = total /\ phase' = phase /\ tally' = tally
      /\ error' = error /\ undoing' = undoing /\ status' = status
      /\ made' = made /\ open' = open /\ outcome' = outcome
  BY DEF vars
<1>2. TypeOK' /\ Planned'
  BY <1>1 DEF OutcomeInv, TypeOK, Planned
<1>3. Running => Running'
  BY <1>1 DEF Running
<1>4. Ended => Ended'
  BY <1>1, ZenonT(30)
     DEF Ended, BrokerEnded, FleetEnded, PurgeEnded, SingleEnded, RefusedEnded,
         ImportEnded, MigrateEnded, PruneEnded
<1>5. Reported => Reported'
  BY <1>1 DEF Reported, Items, Acceptable, CountsMatch, StatusMatches, CompensationMatches
<1> QED
  BY <1>1, <1>2, <1>3, <1>4, <1>5 DEF OutcomeInv

-----------------------------------------------------------------------------
(***************************************************************************)
(* The theorems.                                                            *)
(***************************************************************************)

\* No item is counted yet.
LEMMA NothingCounted ==
  /\ Zero \in Tallies /\ Count(Zero) = 0
  /\ Zero.succeeded = 0 /\ Zero.failed = 0 /\ Zero.uncertain = 0
<1>1. Zero \in Tallies
  BY DEF Zero, Tallies
<1>2. Zero.succeeded = 0 /\ Zero.failed = 0 /\ Zero.uncertain = 0
  BY DEF Zero
<1>3. Count(Zero) = 0 + 0 + 0
  BY <1>2, Zenon DEF Count
<1>4. Count(Zero) = 0
  BY <1>3
<1> QED
  BY <1>1, <1>2, <1>4

LEMMA Initially ==
  ASSUME Init
  PROVE  OutcomeInv
<1>1. /\ phase = "running" /\ error = "none" /\ undoing = "none" /\ status = ""
      /\ outcome = NotCounted /\ kind \in Kinds /\ total \in 0 .. MaxItems
      /\ made = 0 /\ open = 0 /\ tally = Zero
  BY DEF Init
<1>2. /\ phase \in {"running", "ended", "counted"}
      /\ error \in Errors
      /\ undoing \in {"none", "open", "restored", "kept", "doubtful"}
      /\ status \in Compensations
  BY <1>1 DEF Errors, Compensations
<1>3. outcome \in Outcome \cup {NotCounted}
  BY <1>1
<1>4. made \in Nat /\ open \in Nat
  BY <1>1
<1>5. tally \in Tallies
  BY <1>1, NothingCounted
<1>6. Count(tally) <= total
  <2>1. total \in Nat
    <3>1. total \in 0 .. MaxItems
      BY <1>1
    <3>2. MaxItems \in Nat
      BY MaxItemsAssumption
    <3> QED
      BY <3>1, <3>2
  <2>2. Count(tally) = 0
    BY <1>1, NothingCounted, Zenon
  <2> QED
    BY <2>1, <2>2
<1>7. TypeOK
  BY <1>1, <1>2, <1>3, <1>4, <1>5, <1>6, Zenon DEF TypeOK
<1>8. tally.uncertain = 0 /\ made = tally.succeeded /\ tally.failed = 0 /\ ~(0 > 0)
  <2>1. tally = Zero /\ made = 0
    BY <1>1
  <2> QED
    BY <2>1, NothingCounted
<1>9. Running
  BY <1>1, <1>8, Zenon DEF Running
<1> QED
  BY <1>7, <1>9 DEF Init, OutcomeInv, Planned

\* Counters, errors, compensation and outcome belong together in every state an
\* operation of any size reaches (the accounting code of cmd/ as a whole).
THEOREM OutcomeInvariant == Spec => []OutcomeInv
<1>1. Init => OutcomeInv
  BY Initially
<1>2. OutcomeInv /\ [Next]_vars => OutcomeInv'
  BY ItemSteps, BrokerSteps, CredentialSteps, CompensationSteps, PruneSteps,
     WholeSteps, FinishStep, Stutter
     DEF Next, Halt
<1> QED
  BY <1>1, <1>2, PTL DEF Spec

\* The variables keep their types, for every bound on the items.
THEOREM OutcomeTypeCorrect == Spec => []TypeOK
<1>1. OutcomeInv => TypeOK
  BY DEF OutcomeInv
<1> QED
  BY <1>1, OutcomeInvariant, PTL

\* No command ends with an outcome that queue replay rejects
\* (validateMutationSpoolRecord), however many items it has.
THEOREM AlwaysAccepted == Spec => []OutcomeAccepted
<1>1. OutcomeInv => OutcomeAccepted
  BY DEF OutcomeInv, Reported, OutcomeAccepted
<1> QED
  BY <1>1, OutcomeInvariant, PTL

\* No effect, certain or possible, is missing from the outcome.
THEOREM NeverHidden == Spec => []NothingHidden
<1>1. OutcomeInv => NothingHidden
  BY DEF OutcomeInv, Reported, NothingHidden
<1> QED
  BY <1>1, OutcomeInvariant, PTL

\* No outcome reports a success that did not happen or did not last.
THEOREM NeverInvented == Spec => []NothingInvented
<1>1. OutcomeInv => NothingInvented
  BY DEF OutcomeInv, Reported, NothingInvented
<1> QED
  BY <1>1, OutcomeInvariant, PTL

=============================================================================
