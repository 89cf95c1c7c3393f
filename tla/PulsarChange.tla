----------------------------- MODULE PulsarChange -----------------------------
(***************************************************************************)
(* "topic purge" and "group reset-offset --to latest" on Pulsar             *)
(* (pulsar.go PurgeTopic and ResetOffset), up to the audit outcome.         *)
(*                                                                          *)
(* Both learn of the subscriptions of the topic from its statistics and     *)
(* then have the broker skip the backlog of a subscription: a reset of one  *)
(* that has no consumers, a purge of each in turn.  The statistics are read *)
(* up to 4096 bytes; a body that is cut off, or empty, is asked for again,  *)
(* and in the end taken for a topic without subscriptions.                  *)
(***************************************************************************)
EXTENDS OutcomeRecord, FiniteSets

CONSTANTS
  Subscriptions,  \* names a subscription may have
  MaxBacklog,     \* bound on the backlog of one
  BodyLimit,      \* subscriptions and consumers whose statistics fit 4096 bytes
  Attempts,       \* requests for statistics before the code gives up: 6
  EmptyBodies     \* does the broker answer with empty bodies at times?

Requests == [op : {"purge"}, sub : {"none"}] \cup [op : {"reset"}, sub : Subscriptions]
Steps == {"asked", "planned", "skipping", "answered", "ended"}
NoListing == [known |-> FALSE, subs |-> {}, consumers |-> {}]

VARIABLES
  subs,        \* the subscriptions of the topic
  backlog,     \* messages each has not acknowledged
  consumers,   \* subscriptions with a consumer
  request,     \* what is asked
  step,        \* where the command is
  attempt,     \* requests made for the statistics it waits for
  listing,     \* topicStats: the subscriptions and those with consumers
  todo,        \* subscriptions a purge has still to skip
  units,       \* parts of the result, 0 when there is none
  tally, error,\* the BatchOutcome and error of the backend
  skipped,     \* ghost: subscriptions whose backlog was skipped
  stayed,      \* ghost: subscriptions there from begin to end
  late,        \* ghost: subscriptions a consumer came to after the last listing
  outcome      \* the outcome record

topic == <<subs, backlog, consumers, stayed>>
pulsarVars == <<topic, request, step, attempt, listing, todo, units, tally, error,
                skipped, late, outcome>>

NoOutcome == Record("failed", Zero, 0, "none", "")
Purging == request.op = "purge"
Resetting == request.op = "reset"

Init ==
  /\ subs \in SUBSET Subscriptions
  /\ backlog \in [Subscriptions -> 0 .. MaxBacklog]
  /\ \A s \in Subscriptions \ subs : backlog[s] = 0
  /\ consumers \in SUBSET subs
  /\ request \in Requests
  /\ step = "asked" /\ attempt = 0 /\ listing = NoListing /\ todo = {}
  /\ units = 0 /\ tally = Zero /\ error = "none"
  /\ skipped = {} /\ stayed = subs /\ late = {}
  /\ outcome = NoOutcome

-----------------------------------------------------------------------------
(***************************************************************************)
(* The topic, while the command is at it.                                   *)
(***************************************************************************)
Command == <<request, step, attempt, listing, todo, units, tally, error, skipped, outcome>>
Alive == step \notin {"answered", "ended"}

Publish ==
  /\ Alive /\ \E s \in subs : backlog[s] < MaxBacklog
  /\ backlog' = [s \in Subscriptions |->
                   IF s \in subs /\ backlog[s] < MaxBacklog THEN backlog[s] + 1 ELSE backlog[s]]
  /\ UNCHANGED <<subs, consumers, stayed, late, Command>>

Acknowledge(s) ==
  /\ Alive /\ s \in consumers /\ backlog[s] > 0
  /\ backlog' = [backlog EXCEPT ![s] = @ - 1]
  /\ UNCHANGED <<subs, consumers, stayed, late, Command>>

Connect(s) ==
  /\ Alive /\ s \in subs \ consumers
  /\ consumers' = consumers \cup {s} /\ late' = late \cup {s}
  /\ UNCHANGED <<subs, backlog, stayed, Command>>

Disconnect(s) ==
  /\ Alive /\ s \in consumers
  /\ consumers' = consumers \ {s}
  /\ UNCHANGED <<subs, backlog, stayed, late, Command>>

Subscribe(s) ==
  /\ Alive /\ s \in Subscriptions \ subs
  /\ subs' = subs \cup {s}
  /\ UNCHANGED <<backlog, consumers, stayed, late, Command>>

Unsubscribe(s) ==
  /\ Alive /\ s \in subs \ consumers
  /\ subs' = subs \ {s} /\ stayed' = stayed \ {s}
  /\ backlog' = [backlog EXCEPT ![s] = 0]
  /\ UNCHANGED <<consumers, late, Command>>

-----------------------------------------------------------------------------
(***************************************************************************)
(* stats: the statistics as they are, or, after the last attempt, nothing.  *)
(* A purge wants them once; a reset for its plan and for its consumers.     *)
(***************************************************************************)
Waiting == step \in {"asked", "planned"}
BodyFits == Cardinality(subs) + Cardinality(consumers) <= BodyLimit
Listing == [known |-> TRUE, subs |-> subs, consumers |-> consumers]

Fail ==
  /\ step' = "answered" /\ error' = "error"
  /\ UNCHANGED <<listing, todo>>

\* offsetPlan, pulsarLatestResetImpact: one unit stands for the partitions.
PlanReset(l) ==
  IF l.known /\ request.sub \in l.subs THEN step' = "planned" /\ UNCHANGED error
  ELSE step' = "answered" /\ error' = "error"

\* Mutant: the statistics read for the plan stand in for the second reading.
ConsumersOfPlan(l) ==
  IF request.sub \in listing.consumers THEN step' = "answered" /\ error' = "error"
  ELSE step' = "skipping" /\ UNCHANGED error

\* ensureSubscriptionInactive
CheckConsumers(l) ==
  IF request.sub \in l.consumers THEN step' = "answered" /\ error' = "error"
  ELSE step' = "skipping" /\ UNCHANGED error

Continue(l) ==
  /\ listing' = l /\ attempt' = 0 /\ late' = {}
  /\ IF Purging THEN step' = "skipping" /\ todo' = l.subs /\ units' = 1 /\ UNCHANGED error
     ELSE /\ IF step = "asked" THEN PlanReset(l) ELSE CheckConsumers(l)
          /\ UNCHANGED <<todo, units>>
  /\ UNCHANGED <<topic, request, tally, skipped, outcome>>

StatsFail ==
  /\ Waiting /\ Fail /\ attempt' = 0
  /\ UNCHANGED <<topic, request, units, tally, skipped, late, outcome>>

StatsArrive ==
  /\ Waiting /\ BodyFits
  /\ Continue(Listing)

Unusable == Waiting /\ (~BodyFits \/ EmptyBodies)

AskAgain ==
  /\ Unusable /\ attempt + 1 < Attempts
  /\ attempt' = attempt + 1
  /\ UNCHANGED <<topic, request, step, listing, todo, units, tally, error, skipped, late,
                 outcome>>

GiveUp ==
  /\ Unusable /\ attempt + 1 = Attempts
  /\ Continue(NoListing)

-----------------------------------------------------------------------------
(***************************************************************************)
(* skip_all: the broker does it, refuses, or nobody knows.                  *)
(***************************************************************************)
Skip(s) ==
  /\ s \in subs
  /\ backlog' = [backlog EXCEPT ![s] = 0]
  /\ skipped' = skipped \cup {s}
  /\ UNCHANGED <<subs, consumers, stayed, late>>

Left(s) == UNCHANGED <<topic, skipped, late>>

Stop(field) ==
  /\ tally' = [tally EXCEPT ![field] = @ + 1]
  /\ error' = "error" /\ step' = "answered"

\* Mutant: a skip that fails is passed over, and its error forgotten.
PassOver(s) ==
  /\ Left(s)
  /\ todo' = todo \ {s}
  /\ UNCHANGED <<tally, error, step>>

Skipped(s) ==
  /\ Skip(s)
  /\ tally' = [tally EXCEPT !.succeeded = @ + 1]
  /\ todo' = todo \ {s}
  /\ UNCHANGED <<error, step>>

Refused(s) == Left(s) /\ Stop("failed") /\ UNCHANGED todo

\* pulsarPurgeFailureIsUncertain
Unclear(s) == (Skip(s) \/ Left(s)) /\ Stop("uncertain") /\ UNCHANGED todo

PurgeNext ==
  /\ Purging /\ step = "skipping"
  /\ \E s \in todo : Skipped(s) \/ Refused(s) \/ Unclear(s)
  /\ UNCHANGED <<request, attempt, listing, units, outcome>>

PurgeDone ==
  /\ Purging /\ step = "skipping" /\ todo = {}
  /\ step' = "answered"
  /\ UNCHANGED <<topic, request, attempt, listing, todo, units, tally, error, skipped, late,
                 outcome>>

\* ResetOffset: any failure leaves no plan, and no counts.
ResetSkips ==
  /\ Resetting /\ step = "skipping"
  /\ \/ Skip(request.sub) /\ units' = 1 /\ UNCHANGED error
     \/ (Skip(request.sub) \/ Left(request.sub)) /\ error' = "error" /\ UNCHANGED units
  /\ step' = "answered"
  /\ UNCHANGED <<request, attempt, listing, todo, tally, outcome>>

-----------------------------------------------------------------------------
(***************************************************************************)
(* The outcome of the command (cmd/group.go, purgeMutationOutcome).         *)
(***************************************************************************)
FinalTally ==
  IF Count(tally) > 0 THEN tally
  ELSE IF Purging
    THEN [Zero EXCEPT !.succeeded = units, !.uncertain = IF error = "none" THEN 0 ELSE 1]
    ELSE IF error = "none" THEN [Zero EXCEPT !.succeeded = units] ELSE [Zero EXCEPT !.failed = 1]

Finish ==
  /\ step = "answered"
  /\ step' = "ended"
  /\ outcome' = BatchOutcome(Count(FinalTally), FinalTally, error)
  /\ UNCHANGED <<topic, request, attempt, listing, todo, units, tally, error, skipped, late>>

Next ==
  \/ Publish
  \/ \E s \in Subscriptions : \/ Acknowledge(s) \/ Connect(s) \/ Disconnect(s)
                              \/ Subscribe(s) \/ Unsubscribe(s)
  \/ StatsFail \/ StatsArrive \/ AskAgain \/ GiveUp
  \/ PurgeNext \/ PurgeDone \/ ResetSkips
  \/ Finish

Spec == Init /\ [][Next]_pulsarVars

-----------------------------------------------------------------------------
(***************************************************************************)
(* Properties                                                               *)
(***************************************************************************)

\* Type invariant: a purge has nothing to do that it has not listed.
TypeOK ==
  /\ subs \subseteq Subscriptions /\ consumers \subseteq subs
  /\ backlog \in [Subscriptions -> Nat]
  /\ request \in Requests /\ step \in Steps /\ attempt \in Nat
  /\ listing \in [known : BOOLEAN, subs : SUBSET Subscriptions, consumers : SUBSET Subscriptions]
  /\ todo \subseteq listing.subs
  /\ units \in {0, 1} /\ tally \in Tallies /\ error \in Errors
  /\ skipped \subseteq Subscriptions /\ stayed \subseteq subs /\ late \subseteq Subscriptions
  /\ outcome \in Outcome

\* A purge counts each subscription it skipped as succeeded or uncertain, and
\* counts none as succeeded that it did not skip (pulsar.go:551-566); a purge
\* that knows of no subscription counts its topic as one.  A reset counts as
\* succeeded only what it skipped; it is one request, and when its skip fails it
\* is on record as failed whether it took effect or not (pulsar.go:870-873,
\* cmd/group.go:265-279).
ChangesCounted ==
  step = "ended" =>
    /\ Purging =>
         /\ Cardinality(skipped) <= outcome.succeeded + outcome.uncertain
         /\ outcome.succeeded <= Cardinality(skipped) + (IF Count(tally) = 0 THEN 1 ELSE 0)
    /\ Resetting =>
         /\ outcome.succeeded <= Cardinality(skipped)
         /\ outcome.failed = 0 =>
              Cardinality(skipped) <= outcome.succeeded + outcome.uncertain

\* A purge that says success and had its statistics has skipped every
\* subscription that was there from begin to end, also one that came between
\* two attempts.
ListedMeansPurged ==
  step = "ended" /\ Purging /\ outcome.status = "success" /\ listing.known =>
    stayed \subseteq skipped

\* A reset skips the backlog of a subscription with consumers only when one
\* came after the second reading of the statistics, or when that reading was
\* given up (pulsar.go:1115-1124).
BusyStep ==
  \A s \in Subscriptions :
    Resetting /\ skipped' # skipped /\ s \in skipped' \cap consumers =>
      s \in late \/ ~listing.known
BusyOnlyByRace == [][BusyStep]_pulsarVars

\* A purge that says success has purged: CHANGELOG.md:70-71, "Batch operations
\* now report bounded succeeded, failed, and uncertain counts instead of
\* treating partial backend results as complete success".
SuccessMeansPurged ==
  step = "ended" /\ Purging /\ outcome.status = "success" => stayed \subseteq skipped

-----------------------------------------------------------------------------
(***************************************************************************)
(* The inductive invariant                                                  *)
(***************************************************************************)
PulsarAssumption == IsFiniteSet(Subscriptions) /\ MaxBacklog \in Nat

\* Before the first skip nothing is skipped or counted.
NothingYet ==
  /\ Waiting => /\ tally = Zero /\ units = 0 /\ todo = {}
  /\ Waiting \/ (Resetting /\ Alive) => skipped = {}
  /\ Alive => error = "none"
  /\ Resetting => tally = Zero

\* A purge has skipped, and counted, what it listed and has no more to do.
PurgeCounts ==
  Purging /\ step = "skipping" =>
    /\ tally.succeeded = Cardinality(skipped) /\ tally.failed = 0 /\ tally.uncertain = 0
    /\ skipped = listing.subs \ todo /\ units = 1

\* Whoever stays was there when the subscriptions were listed.
StayedListed ==
  Purging /\ step = "skipping" /\ listing.known => stayed \subseteq listing.subs

\* When a purge has ended, what it skipped is counted, and without an error
\* nothing that was listed is left.
PurgeAnswered ==
  Purging /\ step \in {"answered", "ended"} =>
    /\ Cardinality(skipped) <= tally.succeeded + tally.uncertain
    /\ tally.succeeded <= Cardinality(skipped)
    /\ error = "none" /\ listing.known => stayed \subseteq skipped

\* A reset that was answered without an error has skipped its one subscription.
ResetAnswered ==
  Resetting /\ step = "answered" /\ error = "none" =>
    skipped = {request.sub} /\ units = 1

\* A reset goes on when the second listing shows no consumer; one that is there
\* all the same came later.
IdleWhenListed ==
  /\ Resetting /\ step = "skipping" => request.sub \notin listing.consumers
  /\ step = "skipping" /\ listing.known => consumers \subseteq listing.consumers \cup late

\* A success is recorded only without an error.
RecordedTrue ==
  step = "ended" => ChangesCounted /\ (outcome.status = "success" => error = "none")

PulsarInv ==
  /\ TypeOK /\ NothingYet /\ PurgeCounts /\ StayedListed /\ PurgeAnswered
  /\ ResetAnswered /\ IdleWhenListed /\ RecordedTrue
=============================================================================
