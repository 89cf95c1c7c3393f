-------------------------------- MODULE Mirror --------------------------------
(***************************************************************************)
(* message mirror: a bounded batch of messages is read under one context,  *)
(* staged in memory and produced under another (cmd/message.go).  All of   *)
(* the source side is the read phase of the command, the target side its   *)
(* write phase; each side is authorized for what is declared of its topic  *)
(* before any client is built, and again if its broker describes it        *)
(* otherwise.  A message is its position in the batch.                     *)
(***************************************************************************)
EXTENDS RiskClassifier, FiniteSets

CONSTANTS
  Levels,  \* the approval levels the operators of the model reach
  Limit    \* --limit: the messages of a batch

ASSUME MirrorAssumption == Levels \subseteq -1..3 /\ Limit \in Nat \ {0}

VARIABLES
  call,     \* dry run or not, the flag given, and per side what is declared and approved
  pc,
  alive,
  seen,     \* per side: the facts its classification rests on
  journal,  \* what became of the records of either phase
  noted,    \* a refusal or a preview is in the log, a failure only warned of
  built,    \* the sides whose client has been constructed
  failed,   \* the phases that ended in an error
  staged,   \* messages held in memory
  copied,   \* messages the target has confirmed
  arrived,  \* messages that are in the target
  shown

vars == <<call, pc, alive, seen, journal, noted, built, failed, staged, copied, arrived, shown>>

Sides == {"source", "target"}
Phases == {"read", "write"}
Records == {"none", "intent", "outcome", "doubt", "owed", "lost"}

\* The target topic holds no wildcard: validateMirrorWindow refuses it.
Topic == [declared : SUBSET {"protected", "internal", "topicPattern"},
          guarded : BOOLEAN, level : Levels]
Calls == {c \in [dryRun : BOOLEAN, flag : BOOLEAN, side : [Sides -> Topic]] :
            "topicPattern" \notin c.side["target"].declared}

Labels == {"start", "clearSource", "clearTarget", "buildSource", "buildTarget",
           "resolveSource", "resolveTarget", "reclear", "read", "finishRead", "release",
           "preview", "beginWrite", "produce", "finishWrite", "report", "done"}

TypeOK ==
  /\ call \in Calls
  /\ pc \in Labels /\ alive \in BOOLEAN
  /\ seen \in [Sides -> SUBSET Facts]
  /\ journal \in [Phases -> Records]
  /\ noted \in BOOLEAN /\ built \subseteq Sides /\ failed \subseteq Phases
  /\ staged \in 0..Limit /\ copied \in 0..Limit
  /\ arrived \subseteq 1..Limit
  /\ shown \in {"nothing", "preview", "result"}

\* What is known of a side before its broker is asked; only the target is
\* spared by a dry run, the source is read in any case.
Declared(side) ==
  call.side[side].declared \cup (IF side = "target" /\ call.dryRun THEN {"plan"} ELSE {})

Approval(side) == [level |-> call.side[side].level, flag |-> call.flag]

\* A guarded source context raises even a read by one.
MaySource(facts) ==
  Authorized(EscalateIf(call.side["source"].guarded, Classify("peek", facts)),
             FALSE, Approval("source"))

MayTarget(facts) ==
  Authorized(EffectiveRisk(Classify("mirror", facts), call.side["target"].guarded),
             "internal" \in facts /\ ~call.dryRun, Approval("target"))

Init ==
  /\ call \in Calls
  /\ pc = "start" /\ alive = TRUE
  /\ seen = [side \in Sides |-> Declared(side)]
  /\ journal = [p \in Phases |-> "none"]
  /\ noted = FALSE /\ built = {} /\ failed = {}
  /\ staged = 0 /\ copied = 0 /\ arrived = {} /\ shown = "nothing"

Goto(label) == pc' = label
At(label) == alive /\ pc = label
Noted == noted' \in {noted, TRUE}
Fail(phase, label) == Goto(label) /\ failed' = failed \cup {phase}
\* On the way out of the command the staged copies are wiped.
Leave == Goto("done") /\ staged' = 0

-----------------------------------------------------------------------------
BeginRead ==
  /\ At("start")
  /\ \/ /\ journal' = [journal EXCEPT !["read"] = "intent"]
        /\ Goto("clearSource") /\ UNCHANGED failed
     \/ /\ \E r \in {"none", "intent"} : journal' = [journal EXCEPT !["read"] = r]
        /\ Fail("read", "release")
  /\ UNCHANGED <<call, noted, alive, seen, built, staged, copied, arrived, shown>>

ClearSource ==
  /\ At("clearSource")
  /\ IF MaySource(Declared("source"))
     THEN Goto("clearTarget") /\ UNCHANGED <<noted, failed>>
     ELSE Fail("read", "finishRead") /\ Noted
  /\ UNCHANGED <<call, alive, seen, journal, built, staged, copied, arrived, shown>>

\* Mutant: the target is authorized only once its broker was asked.
ClearTargetLater ==
  /\ At("clearTarget")
  /\ \/ Goto("buildSource") /\ UNCHANGED failed
     \/ Fail("read", "finishRead")
  /\ UNCHANGED <<call, noted, alive, seen, journal, built, staged, copied, arrived, shown>>

\* The target context is looked up in the store, then authorized.
ClearTarget ==
  /\ At("clearTarget")
  /\ \/ MayTarget(Declared("target")) /\ Goto("buildSource") /\ UNCHANGED <<noted, failed>>
     \/ ~MayTarget(Declared("target")) /\ Fail("read", "finishRead") /\ Noted
     \/ Fail("read", "finishRead") /\ UNCHANGED noted
  /\ UNCHANGED <<call, alive, seen, journal, built, staged, copied, arrived, shown>>

Build(side, from, to) ==
  /\ At(from)
  /\ \/ built' = built \cup {side} /\ Goto(to) /\ UNCHANGED failed
     \/ Fail("read", "finishRead") /\ UNCHANGED built
  /\ UNCHANGED <<call, noted, alive, seen, journal, staged, copied, arrived, shown>>

BuildSource == Build("source", "buildSource", "buildTarget")
BuildTarget == Build("target", "buildTarget", "resolveSource")

Resolve(side, from, to) ==
  /\ At(from)
  /\ \/ /\ \E more \in SUBSET {"protected", "internal"} :
             seen' = [seen EXCEPT ![side] = @ \cup more]
        /\ Goto(to) /\ UNCHANGED failed
     \/ Fail("read", "finishRead") /\ UNCHANGED seen
  /\ UNCHANGED <<call, noted, alive, journal, built, staged, copied, arrived, shown>>

\* Before the brokers are asked the declared targets are authorized once more,
\* with the same answer.
ResolveSource == Resolve("source", "resolveSource", "resolveTarget")
ResolveTarget == Resolve("target", "resolveTarget", "reclear")

sameTopicClassification(side) == seen[side] = Declared(side)

ClearAgain ==
  /\ At("reclear")
  /\ IF /\ sameTopicClassification("source") \/ MaySource(seen["source"])
        /\ sameTopicClassification("target") \/ MayTarget(seen["target"])
     THEN Goto("read") /\ UNCHANGED <<noted, failed>>
     ELSE Fail("read", "finishRead") /\ Noted
  /\ UNCHANGED <<call, alive, seen, journal, built, staged, copied, arrived, shown>>

\* The buffer takes no more than the limit; a message that does not fit, in
\* number or in bytes, is refused, and a source may overlook that.
Stage ==
  /\ At("read") /\ staged < Limit
  /\ staged' = staged + 1
  /\ UNCHANGED <<call, noted, pc, alive, seen, journal, built, failed, copied, arrived, shown>>

\* The source ends the batch, or fails, or reports another count than was staged.
ReadEnds ==
  /\ At("read")
  /\ \/ Goto("finishRead") /\ UNCHANGED failed
     \/ Fail("read", "finishRead")
  /\ UNCHANGED <<call, noted, alive, seen, journal, built, staged, copied, arrived, shown>>

FinishRead ==
  /\ At("finishRead")
  /\ \E r \in {"outcome", "doubt", "owed", "lost"} :
       journal' = [journal EXCEPT !["read"] = r]
  /\ Goto("release")
  /\ UNCHANGED <<call, noted, alive, seen, built, failed, staged, copied, arrived, shown>>

\* Mutant: a partial batch is good enough.
ReleasePartial ==
  /\ At("release")
  /\ IF journal["read"] = "outcome"
     THEN Goto(IF call.dryRun THEN "preview" ELSE "beginWrite") /\ UNCHANGED staged
     ELSE Leave
  /\ UNCHANGED <<call, noted, alive, seen, journal, built, failed, copied, arrived, shown>>

Release ==
  /\ At("release")
  /\ IF journal["read"] = "outcome" /\ "read" \notin failed
     THEN Goto(IF call.dryRun THEN "preview" ELSE "beginWrite") /\ UNCHANGED staged
     ELSE Leave
  /\ UNCHANGED <<call, noted, alive, seen, journal, built, failed, copied, arrived, shown>>

\* The preview of a dry run is noted, then printed.
Preview ==
  /\ At("preview")
  /\ Noted /\ shown' = "preview" /\ Leave
  /\ UNCHANGED <<call, alive, seen, journal, built, failed, copied, arrived>>

-----------------------------------------------------------------------------
\* Mutant: the target is written to without an intent of its own.
BeginWriteAnyway ==
  /\ At("beginWrite")
  /\ \E r \in {"none", "intent"} : journal' = [journal EXCEPT !["write"] = r]
  /\ Goto("produce")
  /\ UNCHANGED <<call, noted, alive, seen, built, failed, staged, copied, arrived, shown>>

BeginWrite ==
  /\ At("beginWrite")
  /\ \/ /\ journal' = [journal EXCEPT !["write"] = "intent"]
        /\ Goto("produce") /\ UNCHANGED failed
     \/ /\ \E r \in {"none", "intent"} : journal' = [journal EXCEPT !["write"] = r]
        /\ Fail("write", "report")
  /\ UNCHANGED <<call, noted, alive, seen, built, staged, copied, arrived, shown>>

Next1 == copied + 1

Produce ==
  /\ At("produce") /\ copied < staged
  /\ copied' = Next1 /\ arrived' = arrived \cup {Next1}
  /\ UNCHANGED <<call, noted, pc, alive, seen, journal, built, failed, staged, shown>>

\* Mutant: the batch goes on after an error.
ProduceGoesOn ==
  /\ At("produce") /\ copied < staged
  /\ copied' = Next1 /\ arrived' \in {arrived, arrived \cup {Next1}}
  /\ failed' = failed \cup {"write"}
  /\ UNCHANGED <<call, noted, pc, alive, seen, journal, built, staged, shown>>

\* The first error ends the batch; the message it is about may have arrived.
ProduceFails ==
  /\ At("produce") /\ copied < staged
  /\ arrived' \in {arrived, arrived \cup {Next1}}
  /\ Fail("write", "finishWrite")
  /\ UNCHANGED <<call, noted, alive, seen, journal, built, staged, copied, shown>>

ProduceEnds ==
  /\ At("produce") /\ copied = staged
  /\ Goto("finishWrite")
  /\ UNCHANGED <<call, noted, alive, seen, journal, built, failed, staged, copied, arrived, shown>>

FinishWrite ==
  /\ At("finishWrite")
  /\ \E r \in {"outcome", "doubt", "owed", "lost"} :
       journal' = [journal EXCEPT !["write"] = r]
  /\ Goto("report")
  /\ UNCHANGED <<call, noted, alive, seen, built, failed, staged, copied, arrived, shown>>

Report ==
  /\ At("report")
  /\ shown' = IF journal["write"] = "outcome" /\ "write" \notin failed THEN "result" ELSE shown
  /\ Leave
  /\ UNCHANGED <<call, noted, alive, seen, journal, built, failed, copied, arrived>>

Die ==
  /\ alive /\ pc # "done"
  /\ alive' = FALSE
  /\ UNCHANGED <<call, noted, pc, seen, journal, built, failed, staged, copied, arrived, shown>>

Next ==
  \/ BeginRead \/ ClearSource \/ ClearTarget \/ BuildSource \/ BuildTarget
  \/ ResolveSource \/ ResolveTarget \/ ClearAgain \/ Stage \/ ReadEnds
  \/ FinishRead \/ Release \/ Preview \/ BeginWrite
  \/ Produce \/ ProduceFails \/ ProduceEnds \/ FinishWrite \/ Report \/ Die

Spec == Init /\ [][Next]_vars

-----------------------------------------------------------------------------
\* No client of either side is built without a durable source intent and
\* before both sides are approved for what is declared of them.
ClientsAfterBothCleared ==
  built # {} => /\ journal["read"] # "none"
                /\ MaySource(Declared("source")) /\ MayTarget(Declared("target"))

\* Not a single message is read before both sides are approved for their
\* topics as the brokers describe them (skills/mqgov-cli/SKILL.md:108).
StagedWhenBothCleared ==
  staged > 0 => MaySource(seen["source"]) /\ MayTarget(seen["target"])

\* Both sides are approved, as declared before a client is built and as the
\* brokers describe them before a message is read.
BothCleared == ClientsAfterBothCleared /\ StagedWhenBothCleared

\* Whatever goes wrong on the source side, nothing is written to the target;
\* nor is it by a dry run (README.md:219).
ZeroTargetWrites ==
  arrived # {} => /\ "read" \notin failed /\ journal["read"] = "outcome"
                  /\ journal["write"] # "none" /\ ~call.dryRun

\* The target gets the batch from its start, no message twice in place of
\* another; only the message of the error that ended it is in question.
CopiesInOrder ==
  /\ arrived \in {1..copied, 1..Next1}
  /\ arrived = 1..Next1 => "write" \in failed
  /\ shown = "result" => "write" \notin failed

\* A command that comes to its end leaves no copy in memory.
NothingStaysStaged == pc = "done" => staged = 0

-----------------------------------------------------------------------------
\* What each place in a mirror knows; together with the types inductive.
Asking == {"clearSource", "clearTarget", "buildSource", "buildTarget",
           "resolveSource", "resolveTarget", "reclear", "read"}
Reading == Asking \cup {"start", "finishRead", "release"}
Writing == {"beginWrite", "produce", "finishWrite", "report"}

SidesInv ==
  /\ pc \in {"start"} \cup Asking => failed = {}
  /\ pc = "start" => built = {} /\ journal["read"] = "none"
  /\ pc \in Asking \cup {"finishRead"} => journal["read"] = "intent"
  /\ built # {} => journal["read"] # "none"
  /\ pc = "clearTarget" => MaySource(Declared("source"))
  /\ built # {} \/ pc \in Asking \ {"clearSource", "clearTarget", "read"}
     => MaySource(Declared("source")) /\ MayTarget(Declared("target"))

BatchInv ==
  /\ pc \in Reading => arrived = {} /\ copied = 0 /\ shown = "nothing"
  /\ pc \in (Asking \ {"read"}) \cup {"start"} => staged = 0
  /\ pc = "read" => MaySource(seen["source"]) /\ MayTarget(seen["target"])
  /\ pc \in Writing \cup {"preview"} => "read" \notin failed /\ journal["read"] = "outcome"
  /\ pc \in Writing => ~call.dryRun /\ shown = "nothing"
  /\ pc \in {"preview", "beginWrite"} => arrived = {} /\ copied = 0
  /\ pc \in Reading \cup {"preview", "beginWrite"} => journal["write"] = "none" /\ "write" \notin failed
  /\ pc = "produce" => "write" \notin failed
  /\ pc \in {"produce", "finishWrite"} => journal["write"] = "intent"
  /\ pc = "produce" => arrived = 1..copied

\* The inductive invariant: which side is approved, what is in memory and what
\* in the target, at each place of a mirror.
MirrorInv ==
  TypeOK /\ SidesInv /\ BatchInv
    /\ StagedWhenBothCleared /\ ZeroTargetWrites /\ CopiesInOrder /\ NothingStaysStaged

-----------------------------------------------------------------------------
\* The two phases as operations of the journal.
ToldRead ==
  IF \/ pc \notin {"preview", "beginWrite", "produce", "finishWrite", "report", "done"}
     \/ journal["read"] = "none"
  THEN "pending"
  ELSE CASE journal["read"] = "outcome" -> "ok"
         [] journal["read"] \in {"doubt", "owed"} -> "kept"
         [] OTHER -> "error"

ToldWrite ==
  IF pc # "done" \/ journal["write"] = "none"
  THEN "pending"
  ELSE CASE journal["write"] = "outcome" -> "ok"
         [] journal["write"] \in {"doubt", "owed"} -> "kept"
         [] OTHER -> "error"

recordedBar ==
  {<<p, "intent">> : p \in {p \in Phases : journal[p] # "none"}}
    \cup {<<p, "outcome">> : p \in {p \in Phases : journal[p] \in {"outcome", "doubt"}}}
    \cup (IF noted THEN {<<"note", "note">>} ELSE {})

owedBar == {p \in Phases : journal[p] = "owed"}

appliedBar == (IF built # {} THEN {"read"} ELSE {}) \cup (IF arrived # {} THEN {"write"} ELSE {})

toldBar ==
  [p \in Phases \cup {"note"} |->
     IF p = "read" THEN ToldRead ELSE IF p = "write" THEN ToldWrite ELSE "pending"]

Journal == INSTANCE AuditContract WITH
  Ops <- Phases \cup {"note"},
  recorded <- recordedBar, owed <- owedBar, applied <- appliedBar, told <- toldBar

\* The command keeps to the contract of the journal with both its phases.
UsesJournal == Journal!Spec
=============================================================================
