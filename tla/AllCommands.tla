----------------------------- MODULE AllCommands -----------------------------
(***************************************************************************)
(* One instance of each of the smaller components: the counters of all      *)
(* commands (OutcomeAccounting), the changes of the backends and of audit   *)
(* prune with their outcomes, the bounded reads, and the journal where      *)
(* every process must come to an end.  A behaviour is one of the component  *)
(* that "command" names; the variables of the others are Unused.  The       *)
(* components share the variables they have the same name for.              *)
(***************************************************************************)
EXTENDS OutcomeAccounting, FiniteSets

CONSTANTS
  Partitions, MaxOffset, ResetsAndPurges, Reads,        \* Kafka
  Subscriptions, MaxBacklog, BodyLimit, Attempts,       \* Pulsar
  Commands, Scopes, Patterns, NoPattern,                \* permissions
  Creators, NameServers, Queues,                        \* RocketMQ
  Pruners, Selectors, Policies, Permits, MaxFile, NoOne,\* audit prune
  Ops, Failures, MaxSeq, NoOp,                          \* the journal
  Unused                                                \* by the command that runs

VARIABLES
  command,
  first, last, committed, members, request, step, from, to, units, affected, done,
  removed, goal, unlisted,
  records, read, ends, position, count, impact, emitted, cut, window,
  subs, backlog, consumers, attempt, listing, todo, skipped, stayed, late,
  permission, asked, pc, copy, answer, since,
  broker, route, want, applied, visible, disturbed,
  rotated, newest, policy, lock, selector, approved, started, deleted, touched,
  log, spool, quarantine, sequence, litter, task

Kafka == INSTANCE KafkaChange WITH Requests <- ResetsAndPurges
Read == INSTANCE BoundedRead
Pulsar == INSTANCE PulsarChange WITH EmptyBodies <- TRUE
Acl == INSTANCE AclUpdate
Topic == INSTANCE TopicCreation
Prune == INSTANCE AuditPrune
Journal == INSTANCE AuditJournal WITH Notes <- {}, Faults <- Failures

\* The journal without the failures the documentation names as the sources of
\* duplicates (README.md:330).
Quiet == INSTANCE AuditJournal
           WITH Notes <- {}, Faults <- Failures \ {"crash", "remove", "quarantine"}

ASSUME CommandsAssumption ==
  /\ Kafka!KafkaAssumption /\ Read!ReadAssumption /\ Pulsar!PulsarAssumption
  /\ Topic!QueuesAssumption /\ Prune!PruneAssumption
  /\ Failures \subseteq Journal!AllFaults /\ MaxSeq \in Nat /\ NoOp \notin Ops

-----------------------------------------------------------------------------
(***************************************************************************)
(* The variables, by the components that have them.                         *)
(***************************************************************************)
ofKafka == <<committed, members, from, to, affected, removed, goal, unlisted>>
ofRead == <<records, read, ends, position, count, impact, emitted, cut, window>>
ofLogs == <<first, last, done>>
ofPulsar == <<subs, backlog, consumers, attempt, skipped, stayed, late>>
ofChange == <<request, units>>
ofAcl == <<permission, asked, copy, since>>
ofTopic == <<broker, route, want, visible, disturbed>>
ofPrune == <<rotated, newest, policy, selector, approved, started, deleted, touched>>
ofJournal == <<log, spool, quarantine, sequence, litter, task>>
ofCounts == <<kind, total, phase, undoing, status, made, open>>
mcVars == <<command, ofKafka, ofRead, ofLogs, ofPulsar, ofChange, ofAcl,
            ofTopic, ofPrune, ofJournal, ofCounts, step, listing, todo, tally,
            error, outcome, pc, lock, answer, applied>>

NoKafka ==
  /\ committed = Unused /\ members = Unused /\ from = Unused /\ to = Unused
  /\ affected = Unused /\ removed = Unused /\ goal = Unused /\ unlisted = Unused
NoRead ==
  /\ records = Unused /\ read = Unused /\ ends = Unused /\ position = Unused
  /\ count = Unused /\ impact = Unused /\ emitted = Unused /\ cut = Unused
  /\ window = Unused
NoLogs ==
  /\ first = Unused /\ last = Unused /\ done = Unused
NoPulsar ==
  /\ subs = Unused /\ backlog = Unused /\ consumers = Unused
  /\ attempt = Unused /\ skipped = Unused /\ stayed = Unused
  /\ late = Unused
NoChange ==
  /\ request = Unused /\ units = Unused
NoAcl ==
  /\ permission = Unused /\ asked = Unused /\ copy = Unused
  /\ since = Unused
NoTopic ==
  /\ broker = Unused /\ route = Unused /\ want = Unused /\ visible = Unused
  /\ disturbed = Unused
NoPrune ==
  /\ rotated = Unused /\ newest = Unused /\ policy = Unused
  /\ selector = Unused /\ approved = Unused /\ started = Unused
  /\ deleted = Unused /\ touched = Unused
NoJournal ==
  /\ log = Unused /\ spool = Unused /\ quarantine = Unused
  /\ sequence = Unused /\ litter = Unused /\ task = Unused
NoCounts ==
  /\ kind = "single" /\ total = 0 /\ phase = "running" /\ undoing = "none"
  /\ status = "" /\ made = 0 /\ open = 0
NoStep == step = Unused
NoListing == listing = Unused
NoTodo == todo = Unused
NoTally == tally = Unused
NoError == error = Unused
NoOutcome == outcome = Unused
NoPc == pc = Unused
NoLock == lock = Unused
NoAnswer == answer = Unused
NoApplied == applied = Unused

MCInit ==
  \/ /\ command = "counts" /\ Init
     /\ NoKafka /\ NoRead /\ NoLogs /\ NoPulsar /\ NoChange /\ NoAcl
     /\ NoTopic /\ NoPrune /\ NoJournal /\ NoStep /\ NoListing /\ NoTodo
     /\ NoPc /\ NoLock /\ NoAnswer /\ NoApplied
  \/ /\ command = "kafka" /\ Kafka!Init
     /\ NoRead /\ NoPulsar /\ NoAcl /\ NoTopic /\ NoPrune /\ NoJournal
     /\ NoCounts /\ NoListing /\ NoTodo /\ NoPc /\ NoLock /\ NoAnswer
     /\ NoApplied
  \/ /\ command = "read" /\ Read!Init
     /\ NoKafka /\ NoPulsar /\ NoChange /\ NoAcl /\ NoTopic /\ NoPrune
     /\ NoJournal /\ NoCounts /\ NoListing /\ NoTodo /\ NoTally /\ NoOutcome
     /\ NoPc /\ NoLock /\ NoAnswer /\ NoApplied
  \/ /\ command = "pulsar" /\ Pulsar!Init
     /\ NoKafka /\ NoRead /\ NoLogs /\ NoAcl /\ NoTopic /\ NoPrune
     /\ NoJournal /\ NoCounts /\ NoPc /\ NoLock /\ NoAnswer /\ NoApplied
  \/ /\ command = "acl" /\ Acl!Init
     /\ NoKafka /\ NoRead /\ NoLogs /\ NoPulsar /\ NoChange /\ NoTopic
     /\ NoPrune /\ NoJournal /\ NoCounts /\ NoStep /\ NoListing /\ NoTodo
     /\ NoTally /\ NoError /\ NoOutcome /\ NoLock /\ NoApplied
  \/ /\ command = "topic" /\ Topic!Init
     /\ NoKafka /\ NoRead /\ NoLogs /\ NoPulsar /\ NoChange /\ NoAcl
     /\ NoPrune /\ NoJournal /\ NoCounts /\ NoStep /\ NoListing /\ NoTally
     /\ NoError /\ NoLock /\ NoAnswer
  \/ /\ command = "prune" /\ Prune!Init
     /\ NoKafka /\ NoRead /\ NoLogs /\ NoPulsar /\ NoChange /\ NoAcl
     /\ NoTopic /\ NoJournal /\ NoCounts /\ NoStep /\ NoTodo /\ NoTally
     /\ NoAnswer /\ NoApplied
  \/ /\ command = "journal" /\ Journal!Init
     /\ NoKafka /\ NoRead /\ NoLogs /\ NoPulsar /\ NoChange /\ NoAcl
     /\ NoTopic /\ NoPrune /\ NoCounts /\ NoStep /\ NoListing /\ NoTally
     /\ NoError /\ NoOutcome
  \/ /\ command = "quiet" /\ Quiet!Init
     /\ NoKafka /\ NoRead /\ NoLogs /\ NoPulsar /\ NoChange /\ NoAcl
     /\ NoTopic /\ NoPrune /\ NoCounts /\ NoStep /\ NoListing /\ NoTally
     /\ NoError /\ NoOutcome

-----------------------------------------------------------------------------
(***************************************************************************)
(* A step is a step of the component that runs.                             *)
(***************************************************************************)
Runs(c) == command = c /\ UNCHANGED command

CountsRest ==
  UNCHANGED <<ofKafka, ofRead, ofLogs, ofPulsar, ofChange, ofAcl, ofTopic,
              ofPrune, ofJournal, step, listing, todo, pc, lock, answer,
              applied>>
KafkaRest ==
  UNCHANGED <<ofRead, ofPulsar, ofAcl, ofTopic, ofPrune, ofJournal, ofCounts,
              listing, todo, pc, lock, answer, applied>>
ReadRest ==
  UNCHANGED <<ofKafka, ofPulsar, ofChange, ofAcl, ofTopic, ofPrune, ofJournal,
              ofCounts, listing, todo, tally, outcome, pc, lock, answer,
              applied>>
PulsarRest ==
  UNCHANGED <<ofKafka, ofRead, ofLogs, ofAcl, ofTopic, ofPrune, ofJournal,
              ofCounts, pc, lock, answer, applied>>
AclRest ==
  UNCHANGED <<ofKafka, ofRead, ofLogs, ofPulsar, ofChange, ofTopic, ofPrune,
              ofJournal, ofCounts, step, listing, todo, tally, error, outcome,
              lock, applied>>
TopicRest ==
  UNCHANGED <<ofKafka, ofRead, ofLogs, ofPulsar, ofChange, ofAcl, ofPrune,
              ofJournal, ofCounts, step, listing, tally, error, lock, answer>>
PruneRest ==
  UNCHANGED <<ofKafka, ofRead, ofLogs, ofPulsar, ofChange, ofAcl, ofTopic,
              ofJournal, ofCounts, step, todo, tally, answer, applied>>
JournalRest ==
  UNCHANGED <<ofKafka, ofRead, ofLogs, ofPulsar, ofChange, ofAcl, ofTopic,
              ofPrune, ofCounts, step, listing, tally, error, outcome>>
QuietRest ==
  UNCHANGED <<ofKafka, ofRead, ofLogs, ofPulsar, ofChange, ofAcl, ofTopic,
              ofPrune, ofCounts, step, listing, tally, error, outcome>>

TopicStep(c) == Runs("topic") /\ Topic!Step(c) /\ TopicRest
TopicTimeout(c) == Runs("topic") /\ Topic!Timeout(c) /\ TopicRest
ReadWork == Runs("read") /\ Read!Work /\ ReadRest
ReadExpire == Runs("read") /\ Read!Expire /\ ReadRest
JournalStep(o) == Runs("journal") /\ Journal!Step(o) /\ JournalRest

MCNext ==
  \/ Runs("counts") /\ Next /\ CountsRest
  \/ Runs("kafka") /\ Kafka!Next /\ KafkaRest
  \/ Runs("read") /\ Read!Next /\ ReadRest
  \/ Runs("pulsar") /\ Pulsar!Next /\ PulsarRest
  \/ Runs("acl") /\ Acl!Next /\ AclRest
  \/ Runs("topic") /\ Topic!Next /\ TopicRest
  \/ Runs("prune") /\ Prune!Next /\ PruneRest
  \/ Runs("journal") /\ Journal!Next /\ JournalRest
  \/ Runs("quiet") /\ Quiet!Next /\ QuietRest

\* The fairness of TopicCreation, BoundedRead and AuditJournal.
MCSpec ==
  /\ MCInit /\ [][MCNext]_mcVars
  /\ \A c \in Creators : WF_mcVars(TopicStep(c)) /\ WF_mcVars(TopicTimeout(c))
  /\ WF_mcVars(ReadWork) /\ WF_mcVars(ReadExpire)
  /\ \A o \in Ops : WF_mcVars(JournalStep(o))

-----------------------------------------------------------------------------
(***************************************************************************)
(* The properties of the components.                                        *)
(***************************************************************************)

\* The types of the variables; a reset on Kafka asks for no offset below zero
\* (kafka.go:1000-1004).
Typed ==
  CASE command = "kafka" -> Kafka!TypeOK
    [] command = "read" -> Read!TypeOK
    [] command = "pulsar" -> Pulsar!TypeOK
    [] command = "acl" -> Acl!TypeOK
    [] command = "topic" -> Topic!TypeOK
    [] command = "prune" -> Prune!TypeOK
    [] OTHER -> TRUE

\* What a change did is in its outcome.  A Kafka change, a Pulsar purge and a
\* prune: what was done is among the succeeded and uncertain ones, and what
\* succeeded was done, whatever answers are missing (a Pulsar purge that knows of
\* no subscription counts its topic).  A Pulsar reset is one request: a success
\* was done, but one on record as failed may have been.  A RocketMQ creation: one
\* on record as failed was not carried out, but a success may be the work of
\* another (what it means for the topic is in SuccessHolds).
ChangesCounted ==
  CASE command = "kafka" -> Kafka!ChangesCounted
    [] command = "pulsar" -> Pulsar!ChangesCounted
    [] command = "topic" -> Topic!ChangesCounted
    [] command = "prune" -> Prune!ChangesCounted
    [] OTHER -> TRUE

\* A command that says success says it of every partition (for a Kafka reset, of
\* those that were listed: ResetMeansMoved), of every subscription the
\* statistics listed, of every name server.
SuccessHolds ==
  CASE command = "kafka" -> Kafka!SuccessIsComplete
    [] command = "pulsar" -> Pulsar!ListedMeansPurged
    [] command = "topic" -> Topic!CreatedEverywhere
    [] OTHER -> TRUE

\* A Kafka purge never reports fewer messages than it removed.
PurgeNeverUnderReports == command = "kafka" => Kafka!PurgeNeverUnderReports

\* A tail or mirror on Kafka that came to its end has shown every record that
\* was in its window all along, none beyond it, and reports just these.
WindowShown == command = "read" => Read!ReadsItsWindow /\ Read!ImpactMatches

\* No RocketMQ create is carried out over a topic that was visible.
VisibleNeverOverwritten == command = "topic" => Topic!VisibleNeverOverwritten

\* No audit prune conflicts with its own intent.
NotSelfDisturbed == command = "prune" => Prune!NotSelfDisturbed

\* Without crashes, failing removals and failing quarantine renames no record
\* is logged twice, whatever else fails.
LoggedOnce == command = "quiet" => Quiet!LoggedOnce

\* A Pulsar reset touches a subscription with consumers only in a race.
BusyOnlyByRace == [][command = "pulsar" => Pulsar!BusyStep]_mcVars

\* An ACL command costs a principal another scope only when commands overlap.
LostOnlyByOverlap == [][command = "acl" => Acl!KeepsOthers]_mcVars

\* No audit file is deleted against the policy in force.
UnderCurrentPolicy == [][command = "prune" => Prune!DeletesPermitted]_mcVars

\* Every RocketMQ create, every Kafka read with a deadline and every audited
\* operation that began comes to an end, although name servers stay silent, logs
\* stop growing, and processes die with the lock of the queue.
CommandsEnd ==
  /\ \A c \in Creators :
       command = "topic" ~> command = "topic" /\ pc[c] = "ended"
  /\ command = "read" /\ read.kind # "mirror" ~>
       command = "read" /\ step = "ended"
  /\ \A o \in Ops :
       command = "journal" /\ pc[o] # "idle" ~>
         command = "journal" /\ pc[o] \in {"done", "crashed"}

-----------------------------------------------------------------------------
(***************************************************************************)
(* The inductive invariant: that of the component that runs.                *)
(***************************************************************************)
CommandsInv ==
  /\ command \in {"counts", "kafka", "read", "pulsar", "acl", "topic", "prune",
                  "journal", "quiet"}
  /\ command = "kafka" => Kafka!KafkaInv
  /\ command = "read" => Read!ReadInv
  /\ command = "pulsar" => Pulsar!PulsarInv
  /\ command = "acl" => Acl!AclInv
  /\ command = "topic" => Topic!CreationInv
  /\ command = "prune" => Prune!PruneInv
  /\ command = "quiet" => Quiet!QuietInv
=============================================================================
