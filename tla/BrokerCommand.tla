---------------------------- MODULE BrokerCommand ----------------------------
(***************************************************************************)
(* One command that reads or changes a broker: topics, groups, messages,   *)
(* dead letters, ACLs and schemas (cmd/read_audit.go and the command       *)
(* files).  A command has a read phase, which is all there is to a read    *)
(* and the preflight of a change, and a write phase; each has an intent    *)
(* and an outcome in the journal, whose promise is AuditContract's.  What  *)
(* a broker says of a target is chosen where the command asks.             *)
(***************************************************************************)
EXTENDS RiskClassifier

CONSTANT Levels  \* the approval levels the operators of the model reach

ASSUME LevelsAssumption == Levels \subseteq -1..3

VARIABLES
  call,     \* operation, plan or not, what is known beforehand, approvals
  pc,
  alive,
  seen,     \* the facts the classification rests on
  journal,  \* what became of the records of either phase
  built,    \* a broker client has been constructed
  noted,    \* a refusal is in the log; that it cannot be is only warned of
  failed,   \* the phase under way ends in an error
  notes,    \* what the client had to say on stderr
  shown,    \* what was printed
  effect    \* whether the target was changed

vars == <<call, pc, alive, seen, journal, noted, built, failed, notes, shown, effect>>

DescribingReads == {"describe", "lag", "peek", "tail", "peek-dlq"}
PlainReads == {"list", "list-dlq", "list-acl", "list-schema", "describe-schema",
               "check-schema", "cluster-info"}
\* Changes whose plan shows what a preflight measured, and those whose plan
\* repeats the arguments and touches nothing.
PreviewedChanges == {"reset-offset", "purge-topic", "purge-dlq", "redrive-dlq"}
ResolvedChanges == {"produce", "alter-topic", "delete-topic"} \cup PreviewedChanges
SubjectChanges == {"register-schema", "delete-schema"}
BlindChanges == {"create-topic", "create-group", "delete-group", "grant-acl", "revoke-acl"}
Changes == ResolvedChanges \cup SubjectChanges \cup BlindChanges
Commands == DescribingReads \cup PlainReads \cup Changes

\* What the arguments and the context alone tell of a target.
Declarable(op) ==
  CASE op \in DescribingReads \cup ResolvedChanges ->
         {"protected", "internal", "topicPattern"}
           \cup (IF op \in {"lag", "peek-dlq", "reset-offset", "purge-dlq", "redrive-dlq"}
                 THEN {"groupPattern"} ELSE {})
    [] op = "create-topic" -> {"protected", "internal", "topicPattern", "mayAlter"}
    [] op \in {"create-group", "delete-group"} -> {"groupPattern"}
    [] op \in {"grant-acl", "revoke-acl"} -> {"broadGrant"}
    [] op \in SubjectChanges \cup {"describe-schema", "check-schema"} -> {"topicPattern"}
    [] op = "list-dlq" -> {"topicPattern", "groupPattern"}
    [] OTHER -> {}

Calls ==
  UNION {[op : {op}, plan : BOOLEAN, declared : SUBSET Declarable(op),
          guarded : BOOLEAN, level : Levels, flag : BOOLEAN] : op \in Commands}

Phases == {"read", "write"}
\* An outcome is recorded, in doubt (in the log, though its writer was not
\* told), owed in the spool, or lost.
Records == {"none", "intent", "outcome", "doubt", "owed", "lost"}

Labels == {"start", "clear", "build", "resolve", "reclear", "read", "finishRead",
           "release", "clearWrite", "beginWrite", "apply", "finishWrite", "report", "done"}

TypeOK ==
  /\ call \in Calls
  /\ pc \in Labels /\ alive \in BOOLEAN
  /\ seen \subseteq Facts
  /\ journal \in [Phases -> Records]
  /\ noted \in BOOLEAN /\ built \in BOOLEAN /\ failed \in BOOLEAN
  /\ notes \in {"none", "held", "shown", "dropped"}
  /\ shown \in {"nothing", "plan", "read", "preview", "result"}
  /\ effect \in BOOLEAN

op == call.op
IsRead == op \in DescribingReads \cup PlainReads
\* A read has no plan: the flag changes nothing for it.
Planned == call.plan /\ ~IsRead
Approval == [level |-> call.level, flag |-> call.flag]

May(operation, target, asksFlag) ==
  Authorized(EffectiveRisk(Classify(operation, target), call.guarded), asksFlag, Approval)

\* Before a client is built: a read is classified by what is declared of its
\* target; the preflight of a change is a plain R0.
MayBuild == IF IsRead THEN May(op, call.declared, FALSE) ELSE Authorized(0, FALSE, Approval)

\* Before the broker is asked for more than metadata.  The impact of a reset
\* is read, like a lag, even when it is not the plan that is asked for.
MayRead ==
  CASE op \in DescribingReads \/ Planned -> May(op, seen, FALSE)
    [] op = "reset-offset" -> May("lag", seen, FALSE)
    [] OTHER -> TRUE

\* The flag an authorization asks for: cmd/message.go, dlq.go, group.go,
\* topic.go, acl.go and schema.go name it command by command.
AsksFlag ==
  \/ op \in {"delete-topic", "purge-topic", "purge-dlq", "reset-offset", "redrive-dlq",
             "revoke-acl", "delete-schema"}
  \/ op = "produce" /\ "internal" \in seen
  \/ op = "create-topic" /\ "mayAlter" \in seen
  \/ op = "grant-acl" /\ Classify(op, seen) = 3

MayWrite == May(op, seen, AsksFlag)

Init ==
  /\ call \in Calls
  /\ pc = "start" /\ alive = TRUE
  /\ seen = call.declared
  /\ journal = [p \in Phases |-> "none"]
  /\ noted = FALSE /\ built = FALSE /\ failed = FALSE
  /\ notes = "none" /\ shown = "nothing" /\ effect = FALSE

Goto(label) == pc' = label
At(label) == alive /\ pc = label

\* An error of the read phase is recorded as the outcome of that phase.
FailRead == Goto("finishRead") /\ failed' = TRUE

Noted == noted' \in {noted, TRUE}

-----------------------------------------------------------------------------
PrintPlan ==
  /\ At("start") /\ Planned /\ op \notin PreviewedChanges
  /\ shown' = "plan" /\ Goto("done")
  /\ UNCHANGED <<call, noted, alive, seen, journal, built, failed, notes, effect>>

\* Mutant: the command goes on without its intent.
BeginReadAnyway ==
  /\ At("start") /\ (Planned => op \in PreviewedChanges)
  /\ \E r \in {"none", "intent"} : journal' = [journal EXCEPT !["read"] = r]
  /\ Goto("clear")
  /\ seen' = IF Planned THEN seen \cup {"plan"} ELSE seen
  /\ UNCHANGED <<call, noted, alive, built, failed, notes, shown, effect>>

\* An intent that cannot be appended may be in the log all the same.
BeginRead ==
  /\ At("start") /\ (Planned => op \in PreviewedChanges)
  /\ \/ /\ journal' = [journal EXCEPT !["read"] = "intent"]
        /\ Goto("clear") /\ UNCHANGED failed
     \/ /\ \E r \in {"none", "intent"} : journal' = [journal EXCEPT !["read"] = r]
        /\ Goto("release") /\ failed' = TRUE
  /\ seen' = IF Planned THEN seen \cup {"plan"} ELSE seen
  /\ UNCHANGED <<call, noted, alive, built, notes, shown, effect>>

\* Mutant: the declared target is not authorized before the client is built.
ClearBuildLater ==
  /\ At("clear") /\ Goto("build")
  /\ UNCHANGED <<call, noted, alive, seen, journal, built, failed, notes, shown, effect>>

ClearBuild ==
  /\ At("clear")
  /\ IF MayBuild THEN Goto("build") /\ UNCHANGED <<noted, failed>> ELSE FailRead /\ Noted
  /\ UNCHANGED <<call, alive, seen, journal, built, notes, shown, effect>>

\* A client speaks of its TLS pins while it connects and while it works.
Speaks ==
  \/ notes' = IF notes = "none" THEN "held" ELSE notes
  \/ UNCHANGED notes

Build ==
  /\ At("build")
  /\ \/ built' = TRUE /\ Goto("resolve") /\ UNCHANGED failed
     \/ FailRead /\ UNCHANGED built
  /\ Speaks
  /\ UNCHANGED <<call, noted, alive, seen, journal, shown, effect>>

\* The broker adds to what is declared of a topic, and says whether a schema
\* subject exists; registering goes on only if it does not or is compatible.
Described ==
  CASE op \in DescribingReads \cup ResolvedChanges -> SUBSET {"protected", "internal"}
    [] op = "register-schema" -> {{}, {"subjectExists"}}
    [] OTHER -> {{}}

Resolve ==
  /\ At("resolve")
  /\ \/ /\ \E more \in Described : seen' = seen \cup more
        /\ Goto("reclear") /\ UNCHANGED failed
     \/ FailRead /\ UNCHANGED seen
  /\ Speaks
  /\ UNCHANGED <<call, noted, alive, journal, built, shown, effect>>

\* Mutant: the description of the broker is not authorized again.
ClearReadDeclared ==
  /\ At("reclear") /\ Goto("read")
  /\ UNCHANGED <<call, noted, alive, seen, journal, built, failed, notes, shown, effect>>

ClearRead ==
  /\ At("reclear")
  /\ IF MayRead THEN Goto("read") /\ UNCHANGED <<noted, failed>> ELSE FailRead /\ Noted
  /\ UNCHANGED <<call, alive, seen, journal, built, notes, shown, effect>>

\* The data of a read, the preview of a plan or of a reset.
Read ==
  /\ At("read")
  /\ \/ Goto("finishRead") /\ UNCHANGED failed
     \/ /\ IsRead \/ Planned \/ op = "reset-offset"
        /\ FailRead
  /\ Speaks
  /\ UNCHANGED <<call, noted, alive, seen, journal, built, shown, effect>>

FinishRead ==
  /\ At("finishRead")
  /\ \E r \in {"outcome", "doubt", "owed", "lost"} :
       journal' = [journal EXCEPT !["read"] = r]
  /\ Goto("release")
  /\ UNCHANGED <<call, noted, alive, seen, built, failed, notes, shown, effect>>

\* Mutant: an outcome in the spool is as good as one in the log.
ReleaseOwed ==
  LET durable == journal["read"] \in {"outcome", "owed"} IN
  /\ At("release")
  /\ notes' = IF notes # "held" THEN notes ELSE IF durable THEN "shown" ELSE "dropped"
  /\ IF durable /\ ~failed
     THEN IF IsRead \/ Planned
          THEN shown' = (IF IsRead THEN "read" ELSE "preview") /\ Goto("done")
          ELSE Goto("clearWrite") /\ UNCHANGED shown
     ELSE Goto("done") /\ UNCHANGED shown
  /\ UNCHANGED <<call, noted, alive, seen, journal, built, failed, effect>>

\* What was held back is released, or dropped, by how the outcome was kept.
Release ==
  LET durable == journal["read"] = "outcome" IN
  /\ At("release")
  /\ notes' = IF notes # "held" THEN notes ELSE IF durable THEN "shown" ELSE "dropped"
  /\ IF durable /\ ~failed
     THEN IF IsRead \/ Planned
          THEN shown' = (IF IsRead THEN "read" ELSE "preview") /\ Goto("done")
          ELSE Goto("clearWrite") /\ UNCHANGED shown
     ELSE Goto("done") /\ UNCHANGED shown
  /\ UNCHANGED <<call, noted, alive, seen, journal, built, failed, effect>>

-----------------------------------------------------------------------------
ClearWrite ==
  /\ At("clearWrite")
  /\ IF MayWrite THEN Goto("beginWrite") /\ UNCHANGED noted ELSE Goto("done") /\ Noted
  /\ UNCHANGED <<call, alive, seen, journal, built, failed, notes, shown, effect>>

BeginWrite ==
  /\ At("beginWrite")
  /\ \/ /\ journal' = [journal EXCEPT !["write"] = "intent"]
        /\ Goto("apply") /\ UNCHANGED failed
     \/ /\ \E r \in {"none", "intent"} : journal' = [journal EXCEPT !["write"] = r]
        /\ Goto("report") /\ failed' = TRUE
  /\ UNCHANGED <<call, noted, alive, seen, built, notes, shown, effect>>

\* A change that reports an error may have been made.  The notes of the
\* client are closed by now: what it says is discarded.
Apply ==
  /\ At("apply")
  /\ effect' \in BOOLEAN /\ failed' \in BOOLEAN
  /\ effect' \/ failed'
  /\ Goto("finishWrite")
  /\ UNCHANGED <<call, noted, alive, seen, journal, built, notes, shown>>

FinishWrite ==
  /\ At("finishWrite")
  /\ \E r \in {"outcome", "doubt", "owed", "lost"} :
       journal' = [journal EXCEPT !["write"] = r]
  /\ Goto("report")
  /\ UNCHANGED <<call, noted, alive, seen, built, failed, notes, shown, effect>>

Report ==
  /\ At("report")
  /\ shown' = IF journal["write"] = "outcome" /\ ~failed THEN "result" ELSE shown
  /\ Goto("done")
  /\ UNCHANGED <<call, noted, alive, seen, journal, built, failed, notes, effect>>

Die ==
  /\ alive /\ pc # "done"
  /\ alive' = FALSE
  /\ UNCHANGED <<call, noted, pc, seen, journal, built, failed, notes, shown, effect>>

Next ==
  \/ PrintPlan \/ BeginRead \/ ClearBuild \/ Build \/ Resolve \/ ClearRead \/ Read
  \/ FinishRead \/ Release \/ ClearWrite \/ BeginWrite \/ Apply \/ FinishWrite \/ Report
  \/ Die

Spec == Init /\ [][Next]_vars

-----------------------------------------------------------------------------
\* A broker client exists only under a durable read intent, for an operator
\* whom the policy admits to what the command declares (README.md:140).
ClientUnderIntent == built => journal["read"] # "none" /\ MayBuild

\* Whatever reaches the terminal, the client's own notes included, is backed
\* by the recorded outcome of the read; a result by both outcomes
\* (README.md:140, CHANGELOG.md:37-43).
ShownWhenRecorded ==
  /\ shown \in {"read", "preview", "result"} \/ notes = "shown" => journal["read"] = "outcome"
  /\ shown = "result" => journal["write"] = "outcome" /\ effect

\* A target is changed only after the read phase is on record, under an intent
\* of its own, never by a plan, and with the approvals that the target asks
\* for as the broker described it.
ChangedOnlyCleared ==
  effect => /\ journal["read"] = "outcome" /\ journal["write"] # "none"
            /\ ~Planned /\ ~IsRead
            /\ MayWrite

\* Data of a topic is shown only to an operator approved for that topic as
\* the broker described it, not as it was declared.
ReadOnlyCleared == shown \in {"read", "preview"} => MayRead

\* Neither is a topic changed nor its data shown but to who was approved for it
\* as the broker described it.
OnlyCleared == ChangedOnlyCleared /\ ReadOnlyCleared

\* Nothing more that could be found out about the target would have lowered
\* the risk it was cleared at: a check on too little errs only upwards.
NoFactLowers ==
  \A fact \in Facts \ {"plan"} :
    Classify(op, seen) <= Classify(op, seen \cup {fact})

\* No risk of a change goes down because it is only planned by a command that
\* would really make it.
RealNeverBelowPlan == Classify(op, seen \cup {"plan"}) <= Classify(op, seen \ {"plan"})

-----------------------------------------------------------------------------
\* What each place in a command knows; together with the types inductive.
Asking == {"clear", "build", "resolve", "reclear", "read", "finishRead"}
Reading == Asking \cup {"start", "release"}
Writing == {"clearWrite", "beginWrite", "apply", "finishWrite", "report"}

ReadPhaseInv ==
  /\ pc = "start" => ~built /\ ~failed /\ journal["read"] = "none"
  /\ pc \in Asking => journal["read"] = "intent"
  /\ pc = "build" => MayBuild
  /\ built => journal["read"] # "none" /\ MayBuild
  /\ pc \in Reading => /\ journal["write"] = "none" /\ ~effect
                       /\ shown = "nothing" /\ notes \in {"none", "held"}

ClearedInv ==
  /\ pc = "read" => MayRead
  /\ pc \in {"finishRead", "release"} /\ ~failed => MayRead
  /\ shown \in {"read", "preview"} => MayRead
  /\ pc \in Writing \ {"clearWrite"} => MayWrite

WritePhaseInv ==
  /\ pc \in Writing => journal["read"] = "outcome" /\ ~IsRead /\ ~Planned
  /\ pc \in {"clearWrite", "beginWrite"} => journal["write"] = "none" /\ ~effect
  /\ pc \in {"apply", "finishWrite"} => journal["write"] = "intent"
  /\ pc = "apply" => ~effect
  /\ pc \in {"finishWrite", "report"} => effect \/ failed

\* The inductive invariant: who has been admitted to what, and which records
\* there are, at each place of a command.
CommandInv ==
  TypeOK /\ ReadPhaseInv /\ ClearedInv /\ WritePhaseInv
    /\ ShownWhenRecorded /\ ChangedOnlyCleared

-----------------------------------------------------------------------------
\* The two phases as operations of the journal.  A read touches its target by
\* building a client.
ToldRead ==
  IF pc \in {"start", "clear", "build", "resolve", "reclear", "read", "finishRead", "release"}
       \/ journal["read"] = "none"
  THEN "pending"
  ELSE CASE journal["read"] = "outcome" -> "ok"
         [] journal["read"] \in {"doubt", "owed"} -> "kept"
         [] OTHER -> "error"

ToldWrite ==
  IF pc # "done" \/ journal["write"] = "none"
  THEN "pending"
  ELSE CASE journal["write"] = "outcome" -> "ok"
         [] journal["write"] \in {"doubt", "owed"} -> "kept"
         [] OTHER -> "error"

recordedBar ==
  {<<p, "intent">> : p \in {p \in Phases : journal[p] # "none"}}
    \cup {<<p, "outcome">> : p \in {p \in Phases : journal[p] \in {"outcome", "doubt"}}}
    \cup (IF noted THEN {<<"note", "note">>} ELSE {})

owedBar == {p \in Phases : journal[p] = "owed"}

appliedBar == (IF built THEN {"read"} ELSE {}) \cup (IF effect THEN {"write"} ELSE {})

toldBar ==
  [p \in Phases \cup {"note"} |->
     IF p = "read" THEN ToldRead ELSE IF p = "write" THEN ToldWrite ELSE "pending"]

Journal == INSTANCE AuditContract WITH
  Ops <- Phases \cup {"note"},
  recorded <- recordedBar, owed <- owedBar, applied <- appliedBar, told <- toldBar

\* The command keeps to the contract of the journal with both its phases.
UsesJournal == Journal!Spec
=============================================================================
