------------------------- MODULE BrokerCommandProofs -------------------------
(***************************************************************************)
(* The safety of a command, for any levels of approval: CommandInv is      *)
(* inductive, and the properties of the command follow from it and from    *)
(* the order of risks, which comes first.                                  *)
(***************************************************************************)
EXTENDS BrokerCommand, TLAPS

-----------------------------------------------------------------------------
(***************************************************************************)
(* The classifier for every operation and target: it stays within the      *)
(* risks, more facts never lower a risk, and a plan never costs more than  *)
(* the change it plans.                                                    *)
(***************************************************************************)

\* Escalation keeps order, whether or not either side is escalated.
LEMMA EscalateKeepsOrder ==
  ASSUME NEW r \in Risks, NEW s \in Risks, r <= s,
         NEW c \in BOOLEAN, NEW d \in BOOLEAN, c => d
  PROVE  /\ EscalateIf(c, r) \in Risks
         /\ EscalateIf(d, s) \in Risks
         /\ EscalateIf(c, r) <= EscalateIf(d, s)
BY DEF EscalateIf, escalate, Risks

LEMMA BaseRisk == ASSUME NEW o PROVE classifyBase(o) \in Risks
BY DEF classifyBase, Risks

\* What is known of a target, where a plan counts as knowing less.
LessKnown(few, many) ==
  few \ {"plan"} \subseteq many /\ ("plan" \in many => "plan" \in few)

LEMMA TargetKeepsOrder ==
  ASSUME NEW o, NEW few, NEW many, LessKnown(few, many),
         NEW r \in Risks, NEW s \in Risks, r <= s
  PROVE  /\ applyTargetEscalation(r, o, few) \in Risks
         /\ applyTargetEscalation(s, o, many) \in Risks
         /\ applyTargetEscalation(r, o, few) <= applyTargetEscalation(s, o, many)
<1> DEFINE wild(t) == t \cap {"topicPattern", "groupPattern"} # {}
           guarded(t) == "protected" \in t /\ "plan" \notin t
           system(t) == "internal" \in t /\ o # "produce" /\ "plan" \notin t
           one(x, t) == EscalateIf(wild(t), x)
           two(x, t) == EscalateIf(guarded(t), one(x, t))
<1>1. /\ one(r, few) \in Risks /\ one(s, many) \in Risks
      /\ one(r, few) <= one(s, many)
  <2>1. wild(few) => wild(many)
    BY DEF LessKnown
  <2> QED BY <2>1, EscalateKeepsOrder
<1>2. /\ two(r, few) \in Risks /\ two(s, many) \in Risks
      /\ two(r, few) <= two(s, many)
  <2>1. guarded(few) => guarded(many)
    BY DEF LessKnown
  <2> HIDE DEF one, guarded
  <2> QED BY <1>1, <2>1, EscalateKeepsOrder DEF guarded
<1>3. system(few) => system(many)
  BY DEF LessKnown
<1>4. \A t, x : applyTargetEscalation(x, o, t) = EscalateIf(system(t), two(x, t))
  BY DEF applyTargetEscalation
<1>5. system(few) \in BOOLEAN /\ system(many) \in BOOLEAN
  OBVIOUS
<1> HIDE DEF two, system
<1> QED BY <1>2, <1>3, <1>4, <1>5, EscalateKeepsOrder

LEMMA PinsKeepOrder ==
  ASSUME NEW o, NEW few, NEW many, LessKnown(few, many),
         NEW r \in Risks, NEW s \in Risks, r <= s
  PROVE  /\ applyDestructivePins(r, o, few) \in Risks
         /\ applyDestructivePins(s, o, many) \in Risks
         /\ applyDestructivePins(r, o, few) <= applyDestructivePins(s, o, many)
<1> DEFINE pin(x, t) == IF Pinned(o, t) THEN 3 ELSE x
           known(t) == o = "register-schema" /\ t \cap {"subjectExists", "subjectUnknown"} # {}
<1>1. Pinned(o, few) => Pinned(o, many)
  BY DEF Pinned, LessKnown
<1>2. /\ pin(r, few) \in Risks /\ pin(s, many) \in Risks
      /\ pin(r, few) <= pin(s, many)
  BY <1>1 DEF Risks
<1>3. known(few) => known(many)
  BY DEF LessKnown
<1>4. \A t, x : applyDestructivePins(x, o, t) = EscalateIf(known(t), pin(x, t))
  BY DEF applyDestructivePins
<1>5. known(few) \in BOOLEAN /\ known(many) \in BOOLEAN
  OBVIOUS
<1> HIDE DEF pin, known
<1> QED BY <1>2, <1>3, <1>4, <1>5, EscalateKeepsOrder

\* What a classification starts from.
Start(o, target) ==
  IF "plan" \in target /\ isReadOnlyPlan(o) THEN 0
  ELSE EscalateIf(o = "create-topic" /\ "mayAlter" \in target /\ "plan" \notin target,
                  classifyBase(o))

LEMMA ClassifyInSteps ==
  ASSUME NEW o, NEW target
  PROVE  Classify(o, target) =
           applyDestructivePins(applyTargetEscalation(Start(o, target), o, target), o, target)
BY DEF Classify, Start

LEMMA StartKeepsOrder ==
  ASSUME NEW o, NEW few, NEW many, LessKnown(few, many)
  PROVE  Start(o, few) \in Risks /\ Start(o, many) \in Risks /\ Start(o, few) <= Start(o, many)
<1> DEFINE upsert(t) == o = "create-topic" /\ "mayAlter" \in t /\ "plan" \notin t
<1>1. upsert(few) => upsert(many)
  BY DEF LessKnown
<1>2. upsert(few) \in BOOLEAN /\ upsert(many) \in BOOLEAN
  OBVIOUS
<1>3. classifyBase(o) \in Risks /\ classifyBase(o) <= classifyBase(o)
  BY BaseRisk DEF Risks
<1>4. /\ EscalateIf(upsert(few), classifyBase(o)) \in Risks
      /\ EscalateIf(upsert(many), classifyBase(o)) \in Risks
      /\ EscalateIf(upsert(few), classifyBase(o)) <= EscalateIf(upsert(many), classifyBase(o))
  <2> HIDE DEF upsert
  <2> QED BY <1>1, <1>2, <1>3, EscalateKeepsOrder
<1> QED BY <1>4 DEF Start, Risks, LessKnown

LEMMA KeepsOrder ==
  ASSUME NEW o, NEW few, NEW many, LessKnown(few, many)
  PROVE  /\ Classify(o, few) \in Risks
         /\ Classify(o, many) \in Risks
         /\ Classify(o, few) <= Classify(o, many)
<1> DEFINE f == applyTargetEscalation(Start(o, few), o, few)
           g == applyTargetEscalation(Start(o, many), o, many)
<1>1. f \in Risks /\ g \in Risks /\ f <= g
  BY StartKeepsOrder, TargetKeepsOrder
<1> HIDE DEF f, g
<1>2. /\ applyDestructivePins(f, o, few) \in Risks
      /\ applyDestructivePins(g, o, many) \in Risks
      /\ applyDestructivePins(f, o, few) <= applyDestructivePins(g, o, many)
  BY <1>1, PinsKeepOrder
<1> QED BY <1>2, ClassifyInSteps DEF f, g

\* The more is known of a target, the higher its risk (classifier.go:70-133):
\* nothing found out about it lowers the risk an operation was cleared at.
THEOREM MoreFactsMoreRisk ==
  ASSUME NEW o, NEW few, NEW many, few \subseteq many, "plan" \in few <=> "plan" \in many
  PROVE  Classify(o, few) \in Risks /\ Classify(o, few) <= Classify(o, many)
BY KeepsOrder DEF LessKnown

\* What is only planned never costs more than what is done (classifier.go:75-95).
THEOREM PlanNeverAboveReal ==
  ASSUME NEW o, NEW target
  PROVE  Classify(o, target \cup {"plan"}) <= Classify(o, target \ {"plan"})
BY KeepsOrder DEF LessKnown

\* What destroys is of the highest risk, whatever is known of its target
\* (classifier.go:97-133).
THEOREM DestructionIsPinned ==
  ASSUME NEW o \in DestructiveOps \cup {"redrive-dlq"}, NEW target, "plan" \notin target
  PROVE  Classify(o, target) = 3
<1>1. Pinned(o, target)
  BY DEF Pinned, DestructiveOps, isOffsetChange, isPurgeOrDelete
<1> DEFINE r == applyTargetEscalation(Start(o, target), o, target)
<1>2. Classify(o, target) = applyDestructivePins(r, o, target)
  BY ClassifyInSteps
<1> HIDE DEF r
<1> QED BY <1>1, <1>2 DEF applyDestructivePins, EscalateIf, escalate

-----------------------------------------------------------------------------
(***************************************************************************)
(* The command.                                                            *)
(***************************************************************************)

\* What admits an operator depends on the call and on what was seen alone.
LEMMA AdmissionRests ==
  ASSUME UNCHANGED call
  PROVE  /\ MayBuild' = MayBuild /\ IsRead' = IsRead /\ Planned' = Planned
         /\ seen' = seen => MayRead' = MayRead /\ MayWrite' = MayWrite
<1>1. op' = op /\ Approval' = Approval
  BY DEF op, Approval
<1>2. IsRead' = IsRead
  BY <1>1 DEF IsRead
<1>3. Planned' = Planned
  BY <1>2 DEF Planned
<1>4. MayBuild' = MayBuild
  BY <1>1, <1>2 DEF MayBuild, May
<1>5. seen' = seen => MayRead' = MayRead
  BY <1>1, <1>3 DEF MayRead, May
<1>6. seen' = seen => MayWrite' = MayWrite
  BY <1>1 DEF MayWrite, May, AsksFlag
<1> QED BY <1>2, <1>3, <1>4, <1>5, <1>6

LEMMA DeclaredIsFacts ==
  ASSUME NEW c \in Calls
  PROVE  c.declared \subseteq Facts
<1>1. PICK o \in Commands : c \in [op : {o}, plan : BOOLEAN, declared : SUBSET Declarable(o),
                                   guarded : BOOLEAN, level : Levels, flag : BOOLEAN]
  BY DEF Calls
<1>2. Declarable(o) \subseteq Facts
  BY DEF Declarable, Facts
<1> QED BY <1>1, <1>2

LEMMA InitInv == Init => CommandInv
<1> SUFFICES ASSUME Init PROVE CommandInv
  OBVIOUS
<1>1. TypeOK
  BY DeclaredIsFacts DEF Init, TypeOK, Labels, Phases, Records
<1>2. ReadPhaseInv
  BY DEF Init, ReadPhaseInv, Asking, Reading, Phases
<1>3. ClearedInv
  BY DEF Init, ClearedInv, Writing
<1>4. WritePhaseInv
  BY DEF Init, WritePhaseInv, Writing
<1>5. ShownWhenRecorded /\ ChangedOnlyCleared
  BY DEF Init, ShownWhenRecorded, ChangedOnlyCleared
<1> QED BY <1>1, <1>2, <1>3, <1>4, <1>5 DEF CommandInv

-----------------------------------------------------------------------------
\* The types, one action at a time.
LEMMA TypeStep == TypeOK /\ Next => TypeOK'
<1> SUFFICES ASSUME TypeOK, Next PROVE TypeOK'
  OBVIOUS
<1> USE DEF TypeOK, At, Goto, Labels
<1>1. CASE PrintPlan
  BY <1>1 DEF PrintPlan
<1>2. CASE BeginRead
  <2>1. (seen \cup {"plan"}) \subseteq Facts
    BY DEF Facts
  <2>2. \A r \in {"none", "intent"} : [journal EXCEPT !["read"] = r] \in [Phases -> Records]
    BY DEF Phases, Records
  <2> QED BY <1>2, <2>1, <2>2 DEF BeginRead
<1>3. CASE ClearBuild
  BY <1>3 DEF ClearBuild, FailRead, Noted
<1>4. CASE Build
  BY <1>4 DEF Build, FailRead, Speaks
<1>5. CASE Resolve
  <2>1. \A more \in Described : more \subseteq Facts
    BY DEF Described, Facts
  <2> QED BY <1>5, <2>1 DEF Resolve, FailRead, Speaks
<1>6. CASE ClearRead
  BY <1>6 DEF ClearRead, FailRead, Noted
<1>7. CASE Read
  BY <1>7 DEF Read, FailRead, Speaks
<1>8. CASE FinishRead
  BY <1>8 DEF FinishRead, Phases, Records
<1>9. CASE Release
  BY <1>9 DEF Release
<1>10. CASE ClearWrite
  BY <1>10 DEF ClearWrite, Noted
<1>11. CASE BeginWrite
  BY <1>11 DEF BeginWrite, Phases, Records
<1>12. CASE Apply
  BY <1>12 DEF Apply
<1>13. CASE FinishWrite
  BY <1>13 DEF FinishWrite, Phases, Records
<1>14. CASE Report
  BY <1>14 DEF Report
<1>15. CASE Die
  BY <1>15, ZenonT(30) DEF Die
<1> QED BY <1>1, <1>2, <1>3, <1>4, <1>5, <1>6, <1>7, <1>8, <1>9, <1>10,
           <1>11, <1>12, <1>13, <1>14, <1>15 DEF Next

-----------------------------------------------------------------------------
\* No step changes the call, nor therefore who is admitted to it.
LEMMA CallStands ==
  ASSUME Next
  PROVE  /\ MayBuild' = MayBuild /\ IsRead' = IsRead /\ Planned' = Planned
         /\ seen' = seen => MayRead' = MayRead /\ MayWrite' = MayWrite
<1>1. UNCHANGED call
  BY DEF Next, PrintPlan, BeginRead, ClearBuild, Build, Resolve, ClearRead, Read, FinishRead, Release,
         ClearWrite, BeginWrite, Apply, FinishWrite, Report, Die
<1> QED BY <1>1, AdmissionRests

\* A client is built, and anything is said, only where the read phase has got to.
LEMMA ReadPhaseStep == CommandInv /\ Next => ReadPhaseInv'
<1> SUFFICES ASSUME CommandInv, Next PROVE ReadPhaseInv'
  OBVIOUS
<1> USE CallStands DEF CommandInv, At, Goto, Asking, Reading, Writing, Phases,
      TypeOK, ReadPhaseInv, WritePhaseInv
<1>1. CASE PrintPlan
  BY <1>1 DEF PrintPlan
<1>2. CASE BeginRead
  BY <1>2 DEF BeginRead
<1>3. CASE ClearBuild
  BY <1>3 DEF ClearBuild, FailRead, Noted
<1>4. CASE Build
  BY <1>4 DEF Build, FailRead, Speaks
<1>5. CASE Resolve
  BY <1>5 DEF Resolve, FailRead, Speaks
<1>6. CASE ClearRead
  BY <1>6 DEF ClearRead, FailRead, Noted
<1>7. CASE Read
  BY <1>7 DEF Read, FailRead, Speaks
<1>8. CASE FinishRead
  BY <1>8 DEF FinishRead
<1>9. CASE Release
  BY <1>9 DEF Release
<1>10. CASE ClearWrite
  BY <1>10 DEF ClearWrite, Noted
<1>11. CASE BeginWrite
  BY <1>11 DEF BeginWrite
<1>12. CASE Apply
  BY <1>12 DEF Apply
<1>13. CASE FinishWrite
  BY <1>13 DEF FinishWrite
<1>14. CASE Report
  BY <1>14 DEF Report
<1>15. CASE Die
  BY <1>15 DEF Die
<1> QED BY <1>1, <1>2, <1>3, <1>4, <1>5, <1>6, <1>7, <1>8, <1>9, <1>10,
           <1>11, <1>12, <1>13, <1>14, <1>15 DEF Next

\* What was seen is judged again before it counts, and nothing is seen after.
LEMMA ClearedStep == CommandInv /\ Next => ClearedInv'
<1> SUFFICES ASSUME CommandInv, Next PROVE ClearedInv'
  OBVIOUS
<1> USE CallStands DEF CommandInv, At, Goto, Asking, Reading, Writing, Phases,
      TypeOK, ReadPhaseInv, ClearedInv, WritePhaseInv
<1>1. CASE PrintPlan
  BY <1>1 DEF PrintPlan
<1>2. CASE BeginRead
  BY <1>2 DEF BeginRead
<1>3. CASE ClearBuild
  BY <1>3 DEF ClearBuild, FailRead, Noted
<1>4. CASE Build
  BY <1>4 DEF Build, FailRead, Speaks
<1>5. CASE Resolve
  BY <1>5 DEF Resolve, FailRead, Speaks
<1>6. CASE ClearRead
  BY <1>6 DEF ClearRead, FailRead, Noted
<1>7. CASE Read
  BY <1>7 DEF Read, FailRead, Speaks
<1>8. CASE FinishRead
  BY <1>8 DEF FinishRead
<1>9. CASE Release
  BY <1>9 DEF Release
<1>10. CASE ClearWrite
  BY <1>10 DEF ClearWrite, Noted
<1>11. CASE BeginWrite
  BY <1>11 DEF BeginWrite
<1>12. CASE Apply
  BY <1>12 DEF Apply
<1>13. CASE FinishWrite
  BY <1>13 DEF FinishWrite
<1>14. CASE Report
  BY <1>14 DEF Report
<1>15. CASE Die
  BY <1>15 DEF Die
<1> QED BY <1>1, <1>2, <1>3, <1>4, <1>5, <1>6, <1>7, <1>8, <1>9, <1>10,
           <1>11, <1>12, <1>13, <1>14, <1>15 DEF Next

\* The write phase begins only on a recorded read phase that did not fail.
LEMMA WritePhaseStep == CommandInv /\ Next => WritePhaseInv'
<1> SUFFICES ASSUME CommandInv, Next PROVE WritePhaseInv'
  OBVIOUS
<1> USE CallStands DEF CommandInv, At, Goto, Asking, Reading, Writing, Phases,
      TypeOK, ReadPhaseInv, WritePhaseInv
<1>1. CASE PrintPlan
  BY <1>1 DEF PrintPlan
<1>2. CASE BeginRead
  BY <1>2 DEF BeginRead
<1>3. CASE ClearBuild
  BY <1>3 DEF ClearBuild, FailRead, Noted
<1>4. CASE Build
  BY <1>4 DEF Build, FailRead, Speaks
<1>5. CASE Resolve
  BY <1>5 DEF Resolve, FailRead, Speaks
<1>6. CASE ClearRead
  BY <1>6 DEF ClearRead, FailRead, Noted
<1>7. CASE Read
  BY <1>7 DEF Read, FailRead, Speaks
<1>8. CASE FinishRead
  BY <1>8 DEF FinishRead
<1>9. CASE Release
  BY <1>9 DEF Release
<1>10. CASE ClearWrite
  <2>1. pc = "clearWrite" /\ pc' \in {"beginWrite", "done"}
    BY <1>10 DEF ClearWrite
  <2>2. UNCHANGED <<journal, failed, effect>> /\ IsRead' = IsRead /\ Planned' = Planned
    BY <1>10 DEF ClearWrite
  <2> QED BY <2>1, <2>2
<1>11. CASE BeginWrite
  BY <1>11 DEF BeginWrite
<1>12. CASE Apply
  BY <1>12 DEF Apply
<1>13. CASE FinishWrite
  BY <1>13 DEF FinishWrite
<1>14. CASE Report
  BY <1>14 DEF Report
<1>15. CASE Die
  BY <1>15 DEF Die
<1> QED BY <1>1, <1>2, <1>3, <1>4, <1>5, <1>6, <1>7, <1>8, <1>9, <1>10,
           <1>11, <1>12, <1>13, <1>14, <1>15 DEF Next

\* The records behind what was shown stay.
LEMMA ShownStep == CommandInv /\ Next => ShownWhenRecorded'
<1> SUFFICES ASSUME CommandInv, Next PROVE ShownWhenRecorded'
  OBVIOUS
<1> USE CallStands DEF CommandInv, At, Goto, Asking, Reading, Writing, Phases,
      TypeOK, ReadPhaseInv, WritePhaseInv, ShownWhenRecorded
<1>1. CASE PrintPlan
  BY <1>1 DEF PrintPlan
<1>2. CASE BeginRead
  BY <1>2 DEF BeginRead
<1>3. CASE ClearBuild
  BY <1>3 DEF ClearBuild, FailRead, Noted
<1>4. CASE Build
  BY <1>4 DEF Build, FailRead, Speaks
<1>5. CASE Resolve
  BY <1>5 DEF Resolve, FailRead, Speaks
<1>6. CASE ClearRead
  BY <1>6 DEF ClearRead, FailRead, Noted
<1>7. CASE Read
  BY <1>7 DEF Read, FailRead, Speaks
<1>8. CASE FinishRead
  BY <1>8 DEF FinishRead
<1>9. CASE Release
  BY <1>9 DEF Release
<1>10. CASE ClearWrite
  BY <1>10 DEF ClearWrite, Noted
<1>11. CASE BeginWrite
  BY <1>11 DEF BeginWrite
<1>12. CASE Apply
  BY <1>12 DEF Apply
<1>13. CASE FinishWrite
  BY <1>13 DEF FinishWrite
<1>14. CASE Report
  BY <1>14 DEF Report
<1>15. CASE Die
  BY <1>15 DEF Die
<1> QED BY <1>1, <1>2, <1>3, <1>4, <1>5, <1>6, <1>7, <1>8, <1>9, <1>10,
           <1>11, <1>12, <1>13, <1>14, <1>15 DEF Next

\* A change is made at one place only, where all is cleared.
LEMMA ChangedStep == CommandInv /\ Next => ChangedOnlyCleared'
<1> SUFFICES ASSUME CommandInv, Next PROVE ChangedOnlyCleared'
  OBVIOUS
<1> USE CallStands DEF CommandInv, At, Goto, Asking, Reading, Writing, Phases,
      TypeOK, ReadPhaseInv, ClearedInv, WritePhaseInv, ChangedOnlyCleared
<1>1. CASE PrintPlan
  BY <1>1 DEF PrintPlan
<1>2. CASE BeginRead
  BY <1>2 DEF BeginRead
<1>3. CASE ClearBuild
  BY <1>3 DEF ClearBuild, FailRead, Noted
<1>4. CASE Build
  BY <1>4 DEF Build, FailRead, Speaks
<1>5. CASE Resolve
  BY <1>5 DEF Resolve, FailRead, Speaks
<1>6. CASE ClearRead
  BY <1>6 DEF ClearRead, FailRead, Noted
<1>7. CASE Read
  BY <1>7 DEF Read, FailRead, Speaks
<1>8. CASE FinishRead
  BY <1>8 DEF FinishRead
<1>9. CASE Release
  BY <1>9 DEF Release
<1>10. CASE ClearWrite
  BY <1>10 DEF ClearWrite, Noted
<1>11. CASE BeginWrite
  BY <1>11 DEF BeginWrite
<1>12. CASE Apply
  BY <1>12 DEF Apply
<1>13. CASE FinishWrite
  BY <1>13 DEF FinishWrite
<1>14. CASE Report
  BY <1>14 DEF Report
<1>15. CASE Die
  BY <1>15 DEF Die
<1> QED BY <1>1, <1>2, <1>3, <1>4, <1>5, <1>6, <1>7, <1>8, <1>9, <1>10,
           <1>11, <1>12, <1>13, <1>14, <1>15 DEF Next

LEMMA StutterStep == CommandInv /\ UNCHANGED vars => CommandInv'
<1> SUFFICES ASSUME CommandInv, UNCHANGED vars PROVE CommandInv'
  OBVIOUS
<1>1. /\ MayBuild' = MayBuild /\ IsRead' = IsRead /\ Planned' = Planned
      /\ MayRead' = MayRead /\ MayWrite' = MayWrite
  BY AdmissionRests DEF vars
<1> QED BY <1>1 DEF CommandInv, TypeOK, ReadPhaseInv, ClearedInv, WritePhaseInv,
                    ShownWhenRecorded, ChangedOnlyCleared, vars

\* CommandInv holds of every command, whatever the broker, the journal and the
\* operator do (read_audit.go:42-314 and the command files).
THEOREM CommandInvariant == Spec => []CommandInv
<1>1. Init => CommandInv
  BY InitInv
<1>2. CommandInv /\ [Next]_vars => CommandInv'
  <2>1. CommandInv /\ Next => CommandInv'
    BY TypeStep, ReadPhaseStep, ClearedStep, WritePhaseStep, ShownStep, ChangedStep
    DEF CommandInv
  <2> QED BY <2>1, StutterStep
<1> QED BY <1>1, <1>2, PTL DEF Spec

\* The variables of a command keep their types.
THEOREM CommandTypeCorrect == Spec => []TypeOK
<1>1. CommandInv => TypeOK
  BY DEF CommandInv
<1> QED BY <1>1, CommandInvariant, PTL

\* No broker client without a durable intent and an admitted operator
\* (read_audit.go:196-220, 269-292).
THEOREM NoClientBefore == Spec => []ClientUnderIntent
<1>1. CommandInv => ClientUnderIntent
  BY DEF CommandInv, ReadPhaseInv, ClientUnderIntent
<1> QED BY <1>1, CommandInvariant, PTL

\* Nothing reaches the terminal that is not on record (read_audit.go:135-164).
THEOREM NothingUnrecordedShown == Spec => []ShownWhenRecorded
<1>1. CommandInv => ShownWhenRecorded
  BY DEF CommandInv
<1> QED BY <1>1, CommandInvariant, PTL

\* Nothing is changed but what was approved as the broker described it, and
\* never by a plan (message.go:253-282, topic.go:181-210 and their like).
THEOREM NothingUnclearedChanged == Spec => []ChangedOnlyCleared
<1>1. CommandInv => ChangedOnlyCleared
  BY DEF CommandInv
<1> QED BY <1>1, CommandInvariant, PTL

\* No data of a topic is shown but to who was approved for it as the broker
\* described it (message.go:41-190, dlq.go:73-143).
THEOREM NothingUnclearedShown == Spec => []ReadOnlyCleared
<1>1. CommandInv => ReadOnlyCleared
  BY DEF CommandInv, ClearedInv, ReadOnlyCleared
<1> QED BY <1>1, CommandInvariant, PTL

\* Whatever a command changes or shows, it was approved for that, as the broker
\* described the target (target.go, topic_target.go:19-55).
THEOREM NothingUncleared == Spec => []OnlyCleared
<1>1. ChangedOnlyCleared /\ ReadOnlyCleared => OnlyCleared
  BY DEF OnlyCleared
<1> QED BY <1>1, NothingUnclearedChanged, NothingUnclearedShown, PTL

\* Finding out more about the target never lowers the risk it was cleared at
\* (classifier.go:70-133).
THEOREM ErrsUpwards == Spec => []NoFactLowers
<1>1. NoFactLowers
  <2> SUFFICES ASSUME NEW fact \in Facts \ {"plan"}
               PROVE  Classify(op, seen) <= Classify(op, seen \cup {fact})
    BY DEF NoFactLowers
  <2>1. seen \subseteq seen \cup {fact} /\ ("plan" \in seen <=> "plan" \in seen \cup {fact})
    OBVIOUS
  <2> QED BY <2>1, MoreFactsMoreRisk
<1> QED BY <1>1, PTL

\* A plan is never harder to get than the change it plans (classifier.go:75-95).
THEOREM PlansAreEasier == Spec => []RealNeverBelowPlan
<1>1. RealNeverBelowPlan
  BY PlanNeverAboveReal DEF RealNeverBelowPlan
<1> QED BY <1>1, PTL

-----------------------------------------------------------------------------
\* Both phases keep to the contract of the journal.  Each step of a command
\* is one step of the contract, or none.

Bars == <<recordedBar, owedBar, appliedBar, toldBar>>
Actors == Phases \cup {"note"}

LEMMA WhatIsRecorded ==
  /\ \A p \in Phases : <<p, "intent">> \in recordedBar <=> journal[p] # "none"
  /\ \A p \in Phases : <<p, "outcome">> \in recordedBar <=> journal[p] \in {"outcome", "doubt"}
BY DEF recordedBar, Phases

\* How the log follows from one phase and from the notes.
LEMMA RecordedAlike ==
  ASSUME UNCHANGED noted,
         \A p \in Phases : (journal'[p] # "none") = (journal[p] # "none"),
         \A p \in Phases : (journal'[p] \in {"outcome", "doubt"}) = (journal[p] \in {"outcome", "doubt"})
  PROVE  recordedBar' = recordedBar
BY DEF recordedBar

LEMMA IntentRecorded ==
  ASSUME UNCHANGED noted, NEW p \in Phases, TypeOK,
         journal[p] = "none", journal' = [journal EXCEPT ![p] = "intent"]
  PROVE  recordedBar' = recordedBar \cup {<<p, "intent">>}
BY DEF recordedBar, TypeOK, Phases, Records

LEMMA OutcomeRecorded ==
  ASSUME UNCHANGED noted, NEW p \in Phases, TypeOK, NEW r \in {"outcome", "doubt"},
         journal[p] = "intent", journal' = [journal EXCEPT ![p] = r]
  PROVE  recordedBar' = recordedBar \cup {<<p, "outcome">>}
BY DEF recordedBar, TypeOK, Phases, Records

LEMMA NoteRecorded ==
  ASSUME UNCHANGED journal, noted' = TRUE
  PROVE  recordedBar' = recordedBar \cup {<<"note", "note">>}
BY DEF recordedBar

LEMMA ToldAlike ==
  ASSUME ToldRead' = ToldRead, ToldWrite' = ToldWrite
  PROVE  toldBar' = toldBar
BY DEF toldBar

LEMMA ToldOne ==
  ASSUME NEW p \in Phases,
         p = "read" => ToldWrite' = ToldWrite,
         p = "write" => ToldRead' = ToldRead
  PROVE  toldBar' = [toldBar EXCEPT ![p] = IF p = "read" THEN ToldRead' ELSE ToldWrite']
BY DEF toldBar, Phases

LEMMA ToldOf ==
  /\ toldBar["read"] = ToldRead /\ toldBar["write"] = ToldWrite
  /\ toldBar["note"] = "pending"
BY DEF toldBar, Phases

\* Nothing is owed by a phase that is under way, nor by one that let it begin.
LEMMA NothingOwed ==
  ASSUME \A p \in Phases : journal[p] # "owed"
  PROVE  owedBar = {}
BY DEF owedBar

LEMMA ContractSteps ==
  /\ \A p \in Actors : Journal!RecordNote(p) => Journal!Next
  /\ \A p \in Phases : \/ Journal!RecordIntent(p) \/ Journal!Apply(p)
                       \/ Journal!RecordOutcome(p) \/ Journal!Owe(p) \/ Journal!Answer(p)
                       => Journal!Next
BY DEF Journal!Next, Actors

\* Where the records do not move and neither phase comes to its answer.
LEMMA NothingMoves ==
  ASSUME UNCHANGED <<noted, journal, built, effect>>,
         ToldRead' = ToldRead, ToldWrite' = ToldWrite
  PROVE  UNCHANGED Bars
BY RecordedAlike, ToldAlike DEF Bars, owedBar, appliedBar

\* A refusal, noted or not.
LEMMA NoteMoves ==
  ASSUME UNCHANGED <<journal, built, effect>>, noted' \in {noted, TRUE},
         ToldRead' = ToldRead, ToldWrite' = ToldWrite,
         \A p \in Phases : journal[p] # "owed"
  PROVE  Journal!Next \/ UNCHANGED Bars
<1>1. CASE noted' = noted
  BY <1>1, NothingMoves
<1>2. CASE noted' = TRUE
  <2>1. owedBar = {} /\ UNCHANGED <<owedBar, appliedBar>>
    BY NothingOwed DEF owedBar, appliedBar
  <2>2. toldBar' = toldBar /\ toldBar["note"] = "pending"
    BY ToldAlike, ToldOf
  <2>3. recordedBar' = recordedBar \cup {<<"note", "note">>}
    BY <1>2, NoteRecorded
  <2>4. Journal!RecordNote("note")
    BY <2>1, <2>2, <2>3 DEF Journal!RecordNote, Journal!Open
  <2> QED BY <2>4, ContractSteps DEF Actors
<1> QED BY <1>1, <1>2

\* An intent, recorded or not.
LEMMA IntentMoves ==
  ASSUME TypeOK, NEW p \in Phases, UNCHANGED <<noted, built, effect>>,
         journal[p] = "none", p \notin appliedBar,
         journal' \in {journal, [journal EXCEPT ![p] = "intent"]},
         ToldRead' = ToldRead, ToldWrite' = ToldWrite, toldBar[p] = "pending",
         \A o \in Phases : journal[o] # "owed"
  PROVE  Journal!Next \/ UNCHANGED Bars
<1>1. CASE journal' = journal
  BY <1>1, NothingMoves
<1>2. CASE journal' = [journal EXCEPT ![p] = "intent"]
  <2>1. owedBar = {} /\ appliedBar' = appliedBar
    BY NothingOwed DEF appliedBar
  <2>2. owedBar' = owedBar
    BY <1>2, <2>1 DEF owedBar, TypeOK
  <2>3. toldBar' = toldBar
    BY ToldAlike
  <2>4. recordedBar' = recordedBar \cup {<<p, "intent">>}
    BY <1>2, IntentRecorded
  <2>5. Journal!RecordIntent(p)
    BY <2>1, <2>2, <2>3, <2>4 DEF Journal!RecordIntent, Journal!Open
  <2> QED BY <2>5, ContractSteps
<1> QED BY <1>1, <1>2

\* An outcome, in the log, in the spool, in doubt or lost.
LEMMA OutcomeMoves ==
  ASSUME TypeOK, NEW p \in Phases, UNCHANGED <<noted, built, effect>>,
         journal[p] = "intent", NEW r \in {"outcome", "doubt", "owed", "lost"},
         journal' = [journal EXCEPT ![p] = r],
         ToldRead' = ToldRead, ToldWrite' = ToldWrite, toldBar[p] = "pending",
         \A o \in Phases : journal[o] # "owed"
  PROVE  Journal!Next \/ UNCHANGED Bars
<1>1. owedBar = {} /\ appliedBar' = appliedBar /\ toldBar' = toldBar
  BY NothingOwed, ToldAlike DEF appliedBar
<1>2. CASE r \in {"outcome", "doubt"}
  <2>1. recordedBar' = recordedBar \cup {<<p, "outcome">>}
    BY <1>2, OutcomeRecorded
  <2>2. <<p, "intent">> \in recordedBar
    BY WhatIsRecorded
  <2>3. owedBar' = owedBar
    BY <1>1, <1>2 DEF owedBar, TypeOK
  <2>4. Journal!RecordOutcome(p)
    BY <1>1, <2>1, <2>2, <2>3 DEF Journal!RecordOutcome, Journal!Open
  <2> QED BY <2>4, ContractSteps
<1>3. CASE r = "owed"
  <2>1. recordedBar' = recordedBar
    BY <1>3, RecordedAlike DEF TypeOK
  <2>2. owedBar' = owedBar \cup {p}
    BY <1>1, <1>3 DEF owedBar, TypeOK
  <2>3. Journal!Owe(p)
    BY <1>1, <2>1, <2>2 DEF Journal!Owe, Journal!Open
  <2> QED BY <2>3, ContractSteps
<1>4. CASE r = "lost"
  <2>1. recordedBar' = recordedBar
    BY <1>4, RecordedAlike DEF TypeOK
  <2>2. owedBar' = owedBar
    BY <1>1, <1>4 DEF owedBar, TypeOK
  <2> QED BY <1>1, <2>1, <2>2 DEF Bars
<1> QED BY <1>2, <1>3, <1>4

\* A target is touched.
LEMMA TargetMoves ==
  ASSUME NEW p \in Phases, UNCHANGED <<noted, journal>>, journal[p] = "intent",
         appliedBar' \in {appliedBar, appliedBar \cup {p}},
         ToldRead' = ToldRead, ToldWrite' = ToldWrite, toldBar[p] = "pending"
  PROVE  Journal!Next \/ UNCHANGED Bars
<1>1. UNCHANGED <<recordedBar, owedBar, toldBar>>
  BY RecordedAlike, ToldAlike DEF owedBar
<1>2. <<p, "intent">> \in recordedBar /\ <<p, "outcome">> \notin recordedBar /\ p \notin owedBar
  BY WhatIsRecorded DEF owedBar
<1>3. CASE appliedBar' = appliedBar
  BY <1>1, <1>3 DEF Bars
<1>4. CASE appliedBar' = appliedBar \cup {p}
  <2>1. Journal!Apply(p)
    BY <1>1, <1>2, <1>4 DEF Journal!Apply, Journal!Open
  <2> QED BY <2>1, ContractSteps
<1> QED BY <1>3, <1>4

\* The answer a phase ends with.
LEMMA AnswerMoves ==
  ASSUME UNCHANGED <<noted, journal, built, effect>>, NEW p \in Phases,
         toldBar[p] = "pending",
         NEW w \in {"pending", "ok", "kept", "error"},
         toldBar' = [toldBar EXCEPT ![p] = w],
         w = "ok" => journal[p] = "outcome",
         w = "kept" => journal[p] \in {"doubt", "owed"}
  PROVE  Journal!Next \/ UNCHANGED Bars
<1>1. UNCHANGED <<recordedBar, owedBar, appliedBar>>
  BY RecordedAlike DEF owedBar, appliedBar
<1>2. CASE w = "pending"
  <2>1. toldBar' = toldBar
    BY <1>2 DEF toldBar
  <2> QED BY <1>1, <2>1 DEF Bars
<1>3. CASE w # "pending"
  <2>1. w = "ok" => {<<p, "intent">>, <<p, "outcome">>} \subseteq recordedBar
    BY WhatIsRecorded
  <2>2. w = "kept" => p \in owedBar \/ <<p, "outcome">> \in recordedBar
    BY WhatIsRecorded DEF owedBar
  <2>3. Journal!Answer(p)
    BY <1>1, <1>3, <2>1, <2>2 DEF Journal!Answer, Journal!Open
  <2> QED BY <2>3, ContractSteps
<1> QED BY <1>2, <1>3

\* Every step of a command, from where CommandInv holds.
LEMMA ContractStep == CommandInv /\ Next => [Journal!Next]_(Journal!vars)
<1> SUFFICES ASSUME CommandInv, Next PROVE Journal!Next \/ UNCHANGED Bars
  BY DEF Journal!vars, Bars
<1>0. TypeOK /\ ReadPhaseInv /\ WritePhaseInv
  BY DEF CommandInv
<1> USE DEF At, Goto
<1>1. CASE PrintPlan
  <2>1. UNCHANGED <<noted, journal, built, effect>> /\ pc = "start" /\ pc' = "done"
    BY <1>1 DEF PrintPlan
  <2>2. journal["read"] = "none" /\ journal["write"] = "none"
    BY <2>1, <1>0 DEF ReadPhaseInv, Reading
  <2>3. ToldRead' = ToldRead /\ ToldWrite' = ToldWrite
    BY <2>1, <2>2 DEF ToldRead, ToldWrite
  <2> QED BY <2>1, <2>3, NothingMoves
<1>2. CASE BeginRead
  <2>1. UNCHANGED <<noted, built, effect>> /\ pc = "start" /\ pc' \in {"clear", "release"}
    BY <1>2 DEF BeginRead
  <2>2. /\ journal["read"] = "none" /\ journal["write"] = "none"
        /\ ~built /\ ~effect
    BY <2>1, <1>0 DEF ReadPhaseInv, Reading
  <2>3. journal' \in {journal, [journal EXCEPT !["read"] = "intent"]}
    BY <1>2, <1>0, <2>2 DEF BeginRead, TypeOK
  <2>4. ToldRead' = ToldRead /\ ToldWrite' = ToldWrite /\ ToldRead = "pending"
    BY <2>1, <2>2 DEF ToldRead, ToldWrite
  <2>5. "read" \notin appliedBar
    BY <2>2 DEF appliedBar
  <2> QED BY <2>1, <2>2, <2>3, <2>4, <2>5, <1>0, ToldOf, IntentMoves DEF Phases
<1>3. CASE ClearBuild
  <2>1. /\ UNCHANGED <<journal, built, effect>> /\ noted' \in {noted, TRUE}
        /\ pc = "clear" /\ pc' \in {"build", "finishRead"}
    BY <1>3 DEF ClearBuild, FailRead, Noted
  <2>2. ToldRead' = ToldRead /\ ToldWrite' = ToldWrite
    BY <2>1 DEF ToldRead, ToldWrite
  <2>3. \A p \in Phases : journal[p] # "owed"
    BY <2>1, <1>0 DEF ReadPhaseInv, Asking, Reading, Phases
  <2> QED BY <2>1, <2>2, <2>3, NoteMoves
<1>4. CASE Build
  <2>1. /\ UNCHANGED <<noted, journal, effect>> /\ built' \in {built, TRUE}
        /\ pc = "build" /\ pc' \in {"resolve", "finishRead"}
    BY <1>4 DEF Build, FailRead
  <2>2. ToldRead' = ToldRead /\ ToldWrite' = ToldWrite /\ ToldRead = "pending"
    BY <2>1 DEF ToldRead, ToldWrite
  <2>3. journal["read"] = "intent"
    BY <2>1, <1>0 DEF ReadPhaseInv, Asking
  <2>4. appliedBar' \in {appliedBar, appliedBar \cup {"read"}}
    <3>1. CASE built' = built
      BY <2>1, <3>1 DEF appliedBar
    <3>2. CASE built' = TRUE
      BY <2>1, <3>2 DEF appliedBar
    <3> QED BY <2>1, <3>1, <3>2
  <2> QED BY <2>1, <2>2, <2>3, <2>4, ToldOf, TargetMoves DEF Phases
<1>5. CASE Resolve
  <2>1. /\ UNCHANGED <<noted, journal, built, effect>>
        /\ pc = "resolve" /\ pc' \in {"reclear", "finishRead"}
    BY <1>5 DEF Resolve, FailRead
  <2>2. ToldRead' = ToldRead /\ ToldWrite' = ToldWrite
    BY <2>1 DEF ToldRead, ToldWrite
  <2> QED BY <2>1, <2>2, NothingMoves
<1>6. CASE ClearRead
  <2>1. /\ UNCHANGED <<journal, built, effect>> /\ noted' \in {noted, TRUE}
        /\ pc = "reclear" /\ pc' \in {"read", "finishRead"}
    BY <1>6 DEF ClearRead, FailRead, Noted
  <2>2. ToldRead' = ToldRead /\ ToldWrite' = ToldWrite
    BY <2>1 DEF ToldRead, ToldWrite
  <2>3. \A p \in Phases : journal[p] # "owed"
    BY <2>1, <1>0 DEF ReadPhaseInv, Asking, Reading, Phases
  <2> QED BY <2>1, <2>2, <2>3, NoteMoves
<1>7. CASE Read
  <2>1. /\ UNCHANGED <<noted, journal, built, effect>>
        /\ pc = "read" /\ pc' = "finishRead"
    BY <1>7 DEF Read, FailRead
  <2>2. ToldRead' = ToldRead /\ ToldWrite' = ToldWrite
    BY <2>1 DEF ToldRead, ToldWrite
  <2> QED BY <2>1, <2>2, NothingMoves
<1>8. CASE FinishRead
  <2>1. /\ UNCHANGED <<noted, built, effect>> /\ pc = "finishRead" /\ pc' = "release"
    BY <1>8 DEF FinishRead
  <2>2. PICK r \in {"outcome", "doubt", "owed", "lost"} : journal' = [journal EXCEPT !["read"] = r]
    BY <1>8 DEF FinishRead
  <2>3. journal["read"] = "intent" /\ journal["write"] = "none"
    BY <2>1, <1>0 DEF ReadPhaseInv, Asking, Reading
  <2>4. ToldRead' = ToldRead /\ ToldWrite' = ToldWrite /\ ToldRead = "pending"
    BY <2>1 DEF ToldRead, ToldWrite
  <2> QED BY <2>1, <2>2, <2>3, <2>4, <1>0, ToldOf, OutcomeMoves DEF Phases
<1>9. CASE Release
  <2>1. /\ UNCHANGED <<noted, journal, built, effect>>
        /\ pc = "release" /\ pc' \in {"clearWrite", "done"}
    BY <1>9 DEF Release
  <2>2. ToldRead = "pending" /\ ToldWrite' = ToldWrite
    BY <2>1, <1>0 DEF ToldRead, ToldWrite, ReadPhaseInv, Reading
  <2>3. /\ ToldRead' \in {"pending", "ok", "kept", "error"}
        /\ ToldRead' = "ok" => journal["read"] = "outcome"
        /\ ToldRead' = "kept" => journal["read"] \in {"doubt", "owed"}
    BY <2>1 DEF ToldRead
  <2>4. toldBar' = [toldBar EXCEPT !["read"] = ToldRead']
    BY <2>2, ToldOne DEF Phases
  <2> QED BY <2>1, <2>2, <2>3, <2>4, ToldOf, AnswerMoves DEF Phases
<1>10. CASE ClearWrite
  <2>1. /\ UNCHANGED <<journal, built, effect>> /\ noted' \in {noted, TRUE}
        /\ pc = "clearWrite" /\ pc' \in {"beginWrite", "done"}
    BY <1>10 DEF ClearWrite, Noted
  <2>2. journal["read"] = "outcome" /\ journal["write"] = "none"
    BY <2>1, <1>0 DEF WritePhaseInv, Writing
  <2>3. ToldRead' = ToldRead /\ ToldWrite' = ToldWrite
    BY <2>1, <2>2 DEF ToldRead, ToldWrite
  <2>4. \A p \in Phases : journal[p] # "owed"
    BY <2>2 DEF Phases
  <2> QED BY <2>1, <2>3, <2>4, NoteMoves
<1>11. CASE BeginWrite
  <2>1. UNCHANGED <<noted, built, effect>> /\ pc = "beginWrite" /\ pc' \in {"apply", "report"}
    BY <1>11 DEF BeginWrite
  <2>2. journal["read"] = "outcome" /\ journal["write"] = "none" /\ ~effect
    BY <2>1, <1>0 DEF WritePhaseInv, Writing
  <2>3. /\ journal' \in {journal, [journal EXCEPT !["write"] = "intent"]}
        /\ journal'["read"] = "outcome"
    BY <1>11, <1>0, <2>2 DEF BeginWrite, TypeOK, Phases
  <2>4. ToldRead' = ToldRead
    BY <2>1, <2>2, <2>3 DEF ToldRead
  <2>5. ToldWrite' = ToldWrite /\ ToldWrite = "pending"
    BY <2>1 DEF ToldWrite
  <2>6. "write" \notin appliedBar /\ \A p \in Phases : journal[p] # "owed"
    BY <2>2 DEF appliedBar, Phases
  <2> QED BY <2>1, <2>2, <2>3, <2>4, <2>5, <2>6, <1>0, ToldOf, IntentMoves DEF Phases
<1>12. CASE Apply
  <2>1. /\ UNCHANGED <<noted, journal, built>> /\ effect' \in BOOLEAN
        /\ pc = "apply" /\ pc' = "finishWrite"
    BY <1>12 DEF Apply
  <2>2. journal["write"] = "intent" /\ ~effect
    BY <2>1, <1>0 DEF WritePhaseInv
  <2>3. ToldRead' = ToldRead /\ ToldWrite' = ToldWrite /\ ToldWrite = "pending"
    BY <2>1 DEF ToldRead, ToldWrite
  <2>4. appliedBar' \in {appliedBar, appliedBar \cup {"write"}}
    BY <2>1, <2>2 DEF appliedBar
  <2> QED BY <2>1, <2>2, <2>3, <2>4, ToldOf, TargetMoves DEF Phases
<1>13. CASE FinishWrite
  <2>1. /\ UNCHANGED <<noted, built, effect>> /\ pc = "finishWrite" /\ pc' = "report"
    BY <1>13 DEF FinishWrite
  <2>2. PICK r \in {"outcome", "doubt", "owed", "lost"} : journal' = [journal EXCEPT !["write"] = r]
    BY <1>13 DEF FinishWrite
  <2>3. journal["read"] = "outcome" /\ journal["write"] = "intent" /\ journal'["read"] = "outcome"
    BY <2>1, <2>2, <1>0 DEF WritePhaseInv, Writing, TypeOK, Phases
  <2>4. ToldRead' = ToldRead
    BY <2>1, <2>3 DEF ToldRead
  <2>5. ToldWrite' = ToldWrite /\ ToldWrite = "pending"
    BY <2>1 DEF ToldWrite
  <2> QED BY <2>1, <2>2, <2>3, <2>4, <2>5, <1>0, ToldOf, OutcomeMoves DEF Phases
<1>14. CASE Report
  <2>1. UNCHANGED <<noted, journal, built, effect>> /\ pc = "report" /\ pc' = "done"
    BY <1>14 DEF Report
  <2>2. ToldWrite = "pending" /\ ToldRead' = ToldRead
    BY <2>1 DEF ToldRead, ToldWrite
  <2>3. /\ ToldWrite' \in {"pending", "ok", "kept", "error"}
        /\ ToldWrite' = "ok" => journal["write"] = "outcome"
        /\ ToldWrite' = "kept" => journal["write"] \in {"doubt", "owed"}
    BY <2>1 DEF ToldWrite
  <2>4. toldBar' = [toldBar EXCEPT !["write"] = ToldWrite']
    BY <2>2, ToldOne DEF Phases
  <2> QED BY <2>1, <2>2, <2>3, <2>4, ToldOf, AnswerMoves DEF Phases
<1>15. CASE Die
  <2>1. UNCHANGED <<noted, journal, built, effect, pc>>
    BY <1>15 DEF Die
  <2>2. ToldRead' = ToldRead /\ ToldWrite' = ToldWrite
    BY <2>1 DEF ToldRead, ToldWrite
  <2> QED BY <2>1, <2>2, NothingMoves
<1> QED BY <1>1, <1>2, <1>3, <1>4, <1>5, <1>6, <1>7, <1>8, <1>9, <1>10,
           <1>11, <1>12, <1>13, <1>14, <1>15 DEF Next

\* A command is an implementation of the contract of the journal, with a read
\* and a write operation and the notes of its refusals (read_audit.go:42-194,
\* mutation_audit.go:151-235).
THEOREM KeepsContract == Spec => UsesJournal
<1>1. Init => Journal!Init
  BY DEF Init, Journal!Init, recordedBar, owedBar, appliedBar, toldBar, ToldRead, ToldWrite, Phases
<1>2. CommandInv /\ [Next]_vars => [Journal!Next]_(Journal!vars)
  <2>1. UNCHANGED vars => UNCHANGED Journal!vars
    BY DEF vars, Journal!vars, recordedBar, owedBar, appliedBar, toldBar, ToldRead, ToldWrite
  <2> QED BY <2>1, ContractStep
<1> QED BY <1>1, <1>2, CommandInvariant, PTL DEF Spec, UsesJournal, Journal!Spec
=============================================================================
