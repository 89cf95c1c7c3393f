----------------------------- MODULE MirrorProofs -----------------------------
(***************************************************************************)
(* The safety of a mirror, for any levels of approval and any limit of the *)
(* batch: MirrorInv is inductive, and the properties follow from it.       *)
(***************************************************************************)
EXTENDS Mirror, TLAPS

\* What admits an operator depends on the call and on what was seen alone.
LEMMA AdmissionRests ==
  ASSUME UNCHANGED call
  PROVE  /\ MaySource(Declared("source"))' = MaySource(Declared("source"))
         /\ MayTarget(Declared("target"))' = MayTarget(Declared("target"))
         /\ seen' = seen => /\ MaySource(seen["source"])' = MaySource(seen["source"])
                           /\ MayTarget(seen["target"])' = MayTarget(seen["target"])
BY DEF MaySource, MayTarget, Declared, Approval

\* No step changes the call, nor therefore who is admitted to it.
LEMMA CallStands ==
  ASSUME Next
  PROVE  /\ MaySource(Declared("source"))' = MaySource(Declared("source"))
         /\ MayTarget(Declared("target"))' = MayTarget(Declared("target"))
         /\ seen' = seen => /\ MaySource(seen["source"])' = MaySource(seen["source"])
                           /\ MayTarget(seen["target"])' = MayTarget(seen["target"])
<1>1. UNCHANGED call
  BY DEF Next, BeginRead, ClearSource, ClearTarget, BuildSource, BuildTarget, Build,
         ResolveSource, ResolveTarget, Resolve, ClearAgain, Stage, ReadEnds, FinishRead,
         Release, Preview, BeginWrite, Produce, ProduceFails, ProduceEnds, FinishWrite, Report, Die
<1> QED BY <1>1, AdmissionRests

\* Who was approved for what was declared is for the same as described.
LEMMA SeenAsDeclared ==
  ASSUME MaySource(Declared("source")), MayTarget(Declared("target"))
  PROVE  /\ sameTopicClassification("source") => MaySource(seen["source"])
         /\ sameTopicClassification("target") => MayTarget(seen["target"])
BY DEF sameTopicClassification

LEMMA InitInv == Init => MirrorInv
<1> SUFFICES ASSUME Init PROVE MirrorInv
  OBVIOUS
<1>1. TypeOK
  <2>1. \A side \in Sides : call.side[side].declared \subseteq {"protected", "internal", "topicPattern"}
    BY DEF Init, Calls, Topic
  <2>2. \A side \in Sides : Declared(side) \subseteq Facts
    BY <2>1 DEF Declared, Facts
  <2>3. seen \in [Sides -> SUBSET Facts] /\ journal \in [Phases -> Records]
    BY <2>2 DEF Init, Records
  <2>4. staged \in 0..Limit /\ copied \in 0..Limit
    BY MirrorAssumption DEF Init
  <2> QED BY <2>3, <2>4 DEF Init, TypeOK, Labels
<1>2. SidesInv /\ BatchInv
  BY DEF Init, SidesInv, BatchInv, Asking, Reading, Writing, Phases
<1>3. StagedWhenBothCleared /\ ZeroTargetWrites /\ NothingStaysStaged
  BY DEF Init, StagedWhenBothCleared, ZeroTargetWrites, NothingStaysStaged
<1>4. CopiesInOrder
  BY DEF Init, CopiesInOrder, Next1
<1> QED BY <1>1, <1>2, <1>3, <1>4 DEF MirrorInv

-----------------------------------------------------------------------------
LEMMA MoreSeen ==
  ASSUME TypeOK, NEW side \in Sides, NEW from, NEW to, Resolve(side, from, to)
  PROVE  seen' \in [Sides -> SUBSET Facts]
<1>1. CASE UNCHANGED seen
  BY <1>1 DEF TypeOK
<1>2. CASE \E more \in SUBSET {"protected", "internal"} : seen' = [seen EXCEPT ![side] = @ \cup more]
  <2>1. PICK more \in SUBSET {"protected", "internal"} : seen' = [seen EXCEPT ![side] = @ \cup more]
    BY <1>2
  <2>2. more \subseteq Facts
    BY DEF Facts
  <2>3. seen[side] \cup more \in SUBSET Facts
    BY <2>2 DEF TypeOK
  <2> QED BY <2>1, <2>3 DEF TypeOK
<1> QED BY <1>1, <1>2 DEF Resolve

\* The types, one action at a time.
LEMMA TypeStep == MirrorInv /\ Next => TypeOK'
<1> SUFFICES ASSUME MirrorInv, Next PROVE TypeOK'
  OBVIOUS
<1>0. TypeOK /\ BatchInv
  BY DEF MirrorInv
<1> USE <1>0, MirrorAssumption DEF TypeOK, At, Goto, Fail, Leave, Labels, Phases, Sides, Records
<1>1. CASE BeginRead
  BY <1>1 DEF BeginRead
<1>2. CASE ClearSource
  BY <1>2 DEF ClearSource, Noted
<1>3. CASE ClearTarget
  BY <1>3 DEF ClearTarget, Noted
<1>4. CASE BuildSource
  BY <1>4 DEF BuildSource, Build
<1>5. CASE BuildTarget
  BY <1>5 DEF BuildTarget, Build
<1>6. CASE ResolveSource
  <2>1. seen' \in [Sides -> SUBSET Facts]
    BY <1>6, <1>0, MoreSeen DEF ResolveSource
  <2> QED BY <1>6, <2>1 DEF ResolveSource, Resolve
<1>7. CASE ResolveTarget
  <2>1. seen' \in [Sides -> SUBSET Facts]
    BY <1>7, <1>0, MoreSeen DEF ResolveTarget
  <2> QED BY <1>7, <2>1 DEF ResolveTarget, Resolve
<1>8. CASE ClearAgain
  BY <1>8 DEF ClearAgain, Noted
<1>9. CASE Stage
  BY <1>9 DEF Stage
<1>10. CASE ReadEnds
  BY <1>10 DEF ReadEnds
<1>11. CASE FinishRead
  BY <1>11 DEF FinishRead
<1>12. CASE Release
  BY <1>12 DEF Release
<1>13. CASE Preview
  <2>1. noted' \in BOOLEAN /\ staged' \in 0..Limit /\ shown' = "preview"
    <3>1. 0 \in 0..Limit
      BY MirrorAssumption
    <3>2. staged' = 0 /\ shown' = "preview" /\ noted' \in {noted, TRUE}
      BY <1>13 DEF Preview, Noted
    <3> QED BY <3>1, <3>2
  <2>2. pc' = "done" /\ UNCHANGED <<call, alive, seen, journal, built, failed, copied, arrived>>
    BY <1>13 DEF Preview
  <2> QED BY <2>1, <2>2
<1>14. CASE BeginWrite
  BY <1>14 DEF BeginWrite
<1>15. CASE Produce
  <2>1. copied < staged /\ copied' = copied + 1 /\ arrived' = arrived \cup {copied + 1}
    BY <1>15 DEF Produce, Next1
  <2>2. copied + 1 \in 1..Limit
    BY <2>1
  <2> QED BY <1>15, <2>1, <2>2 DEF Produce
<1>16. CASE ProduceFails
  <2>1. copied < staged /\ arrived' \in {arrived, arrived \cup {copied + 1}}
    BY <1>16 DEF ProduceFails, Next1
  <2>2. copied + 1 \in 1..Limit
    BY <2>1
  <2> QED BY <1>16, <2>1, <2>2 DEF ProduceFails
<1>17. CASE ProduceEnds
  BY <1>17 DEF ProduceEnds
<1>18. CASE FinishWrite
  BY <1>18 DEF FinishWrite
<1>19. CASE Report
  BY <1>19 DEF Report
<1>20. CASE Die
  BY <1>20 DEF Die
<1> QED BY <1>1, <1>2, <1>3, <1>4, <1>5, <1>6, <1>7, <1>8, <1>9, <1>10,
           <1>11, <1>12, <1>13, <1>14, <1>15, <1>16, <1>17, <1>18, <1>19, <1>20 DEF Next

\* Both sides are approved before a client of either is built.
LEMMA SidesStep == MirrorInv /\ Next => SidesInv'
<1> SUFFICES ASSUME MirrorInv, Next PROVE SidesInv'
  OBVIOUS
<1> USE CallStands, MirrorAssumption DEF MirrorInv, At, Goto, Fail, Leave, Asking, Reading, Writing,
      Sides, Phases, TypeOK, SidesInv, BatchInv
<1>1. CASE BeginRead
  BY <1>1 DEF BeginRead
<1>2. CASE ClearSource
  BY <1>2 DEF ClearSource, Noted
<1>3. CASE ClearTarget
  BY <1>3 DEF ClearTarget, Noted
<1>4. CASE BuildSource
  BY <1>4 DEF BuildSource, Build
<1>5. CASE BuildTarget
  BY <1>5 DEF BuildTarget, Build
<1>6. CASE ResolveSource
  BY <1>6 DEF ResolveSource, Resolve
<1>7. CASE ResolveTarget
  BY <1>7 DEF ResolveTarget, Resolve
<1>8. CASE ClearAgain
  BY <1>8 DEF ClearAgain, Noted
<1>9. CASE Stage
  BY <1>9 DEF Stage
<1>10. CASE ReadEnds
  BY <1>10 DEF ReadEnds
<1>11. CASE FinishRead
  BY <1>11 DEF FinishRead
<1>12. CASE Release
  BY <1>12 DEF Release
<1>13. CASE Preview
  BY <1>13 DEF Preview, Noted
<1>14. CASE BeginWrite
  BY <1>14 DEF BeginWrite
<1>15. CASE Produce
  BY <1>15 DEF Produce
<1>16. CASE ProduceFails
  BY <1>16 DEF ProduceFails
<1>17. CASE ProduceEnds
  BY <1>17 DEF ProduceEnds
<1>18. CASE FinishWrite
  BY <1>18 DEF FinishWrite
<1>19. CASE Report
  BY <1>19 DEF Report
<1>20. CASE Die
  BY <1>20 DEF Die
<1> QED BY <1>1, <1>2, <1>3, <1>4, <1>5, <1>6, <1>7, <1>8, <1>9, <1>10,
           <1>11, <1>12, <1>13, <1>14, <1>15, <1>16, <1>17, <1>18, <1>19, <1>20 DEF Next

\* Nothing is read before both are approved again, nothing written by a dry
\* run or after a failure.
LEMMA BatchStep == MirrorInv /\ Next => BatchInv'
<1> SUFFICES ASSUME MirrorInv, Next PROVE BatchInv'
  OBVIOUS
<1> USE CallStands, MirrorAssumption DEF MirrorInv, At, Goto, Fail, Leave, Asking, Reading, Writing,
      Sides, Phases, TypeOK, SidesInv, BatchInv
<1>1. CASE BeginRead
  BY <1>1 DEF BeginRead
<1>2. CASE ClearSource
  BY <1>2 DEF ClearSource, Noted
<1>3. CASE ClearTarget
  BY <1>3 DEF ClearTarget, Noted
<1>4. CASE BuildSource
  BY <1>4 DEF BuildSource, Build
<1>5. CASE BuildTarget
  BY <1>5 DEF BuildTarget, Build
<1>6. CASE ResolveSource
  BY <1>6 DEF ResolveSource, Resolve
<1>7. CASE ResolveTarget
  BY <1>7 DEF ResolveTarget, Resolve
<1>8. CASE ClearAgain
  <2>1. pc = "reclear" /\ pc' \in {"read", "finishRead"}
    BY <1>8 DEF ClearAgain
  <2>2. /\ UNCHANGED <<call, seen, journal, staged, copied, arrived, shown>>
        /\ failed' \in {failed, failed \cup {"read"}}
    BY <1>8 DEF ClearAgain
  <2>3. pc' = "read" => MaySource(seen["source"]) /\ MayTarget(seen["target"])
    <3>1. MaySource(Declared("source")) /\ MayTarget(Declared("target"))
      BY <2>1
    <3>2. pc' = "read" => /\ sameTopicClassification("source") \/ MaySource(seen["source"])
                          /\ sameTopicClassification("target") \/ MayTarget(seen["target"])
      BY <1>8 DEF ClearAgain
    <3> QED BY <3>1, <3>2, SeenAsDeclared
  <2> QED BY <2>1, <2>2, <2>3
<1>9. CASE Stage
  BY <1>9 DEF Stage
<1>10. CASE ReadEnds
  BY <1>10 DEF ReadEnds
<1>11. CASE FinishRead
  BY <1>11 DEF FinishRead
<1>12. CASE Release
  <2>1. pc = "release" /\ pc' \in {"preview", "beginWrite", "done"}
    BY <1>12 DEF Release
  <2>2. UNCHANGED <<call, seen, journal, failed, copied, arrived, shown>>
    BY <1>12 DEF Release
  <2>3. pc' # "done" => /\ journal["read"] = "outcome" /\ "read" \notin failed
                        /\ pc' = "beginWrite" => ~call.dryRun
    BY <1>12 DEF Release
  <2> QED BY <2>1, <2>2, <2>3
<1>13. CASE Preview
  BY <1>13 DEF Preview, Noted
<1>14. CASE BeginWrite
  BY <1>14 DEF BeginWrite
<1>15. CASE Produce
  <2>1. pc = "produce" /\ UNCHANGED <<call, pc, seen, journal, failed, staged, shown>>
    BY <1>15 DEF Produce
  <2>2. copied' = copied + 1 /\ arrived' = 1..copied \cup {copied + 1} /\ copied \in 0..Limit
    BY <1>15, <2>1 DEF Produce, Next1
  <2>3. arrived' = 1..copied'
    BY <2>2
  <2> QED BY <2>1, <2>3
<1>16. CASE ProduceFails
  BY <1>16 DEF ProduceFails
<1>17. CASE ProduceEnds
  BY <1>17 DEF ProduceEnds
<1>18. CASE FinishWrite
  BY <1>18 DEF FinishWrite
<1>19. CASE Report
  BY <1>19 DEF Report
<1>20. CASE Die
  BY <1>20 DEF Die
<1> QED BY <1>1, <1>2, <1>3, <1>4, <1>5, <1>6, <1>7, <1>8, <1>9, <1>10,
           <1>11, <1>12, <1>13, <1>14, <1>15, <1>16, <1>17, <1>18, <1>19, <1>20 DEF Next

\* The batch is wiped or both sides stay approved.
LEMMA StagedStep == MirrorInv /\ Next => StagedWhenBothCleared'
<1> SUFFICES ASSUME MirrorInv, Next PROVE StagedWhenBothCleared'
  OBVIOUS
<1> USE CallStands, MirrorAssumption DEF MirrorInv, At, Goto, Fail, Leave, Asking, Reading, Writing,
      Sides, Phases, TypeOK, SidesInv, BatchInv, StagedWhenBothCleared
<1>1. CASE BeginRead
  BY <1>1 DEF BeginRead
<1>2. CASE ClearSource
  BY <1>2 DEF ClearSource, Noted
<1>3. CASE ClearTarget
  BY <1>3 DEF ClearTarget, Noted
<1>4. CASE BuildSource
  BY <1>4 DEF BuildSource, Build
<1>5. CASE BuildTarget
  BY <1>5 DEF BuildTarget, Build
<1>6. CASE ResolveSource
  BY <1>6 DEF ResolveSource, Resolve
<1>7. CASE ResolveTarget
  BY <1>7 DEF ResolveTarget, Resolve
<1>8. CASE ClearAgain
  BY <1>8 DEF ClearAgain, Noted
<1>9. CASE Stage
  BY <1>9 DEF Stage
<1>10. CASE ReadEnds
  BY <1>10 DEF ReadEnds
<1>11. CASE FinishRead
  BY <1>11 DEF FinishRead
<1>12. CASE Release
  BY <1>12 DEF Release
<1>13. CASE Preview
  BY <1>13 DEF Preview, Noted
<1>14. CASE BeginWrite
  BY <1>14 DEF BeginWrite
<1>15. CASE Produce
  BY <1>15 DEF Produce
<1>16. CASE ProduceFails
  BY <1>16 DEF ProduceFails
<1>17. CASE ProduceEnds
  BY <1>17 DEF ProduceEnds
<1>18. CASE FinishWrite
  BY <1>18 DEF FinishWrite
<1>19. CASE Report
  BY <1>19 DEF Report
<1>20. CASE Die
  BY <1>20 DEF Die
<1> QED BY <1>1, <1>2, <1>3, <1>4, <1>5, <1>6, <1>7, <1>8, <1>9, <1>10,
           <1>11, <1>12, <1>13, <1>14, <1>15, <1>16, <1>17, <1>18, <1>19, <1>20 DEF Next

\* The target is reached from one place only.
LEMMA ZeroStep == MirrorInv /\ Next => ZeroTargetWrites'
<1> SUFFICES ASSUME MirrorInv, Next PROVE ZeroTargetWrites'
  OBVIOUS
<1> USE CallStands, MirrorAssumption DEF MirrorInv, At, Goto, Fail, Leave, Asking, Reading, Writing,
      Sides, Phases, TypeOK, SidesInv, BatchInv, ZeroTargetWrites
<1>1. CASE BeginRead
  BY <1>1 DEF BeginRead
<1>2. CASE ClearSource
  BY <1>2 DEF ClearSource, Noted
<1>3. CASE ClearTarget
  BY <1>3 DEF ClearTarget, Noted
<1>4. CASE BuildSource
  BY <1>4 DEF BuildSource, Build
<1>5. CASE BuildTarget
  BY <1>5 DEF BuildTarget, Build
<1>6. CASE ResolveSource
  BY <1>6 DEF ResolveSource, Resolve
<1>7. CASE ResolveTarget
  BY <1>7 DEF ResolveTarget, Resolve
<1>8. CASE ClearAgain
  BY <1>8 DEF ClearAgain, Noted
<1>9. CASE Stage
  BY <1>9 DEF Stage
<1>10. CASE ReadEnds
  BY <1>10 DEF ReadEnds
<1>11. CASE FinishRead
  BY <1>11 DEF FinishRead
<1>12. CASE Release
  BY <1>12 DEF Release
<1>13. CASE Preview
  BY <1>13 DEF Preview, Noted
<1>14. CASE BeginWrite
  BY <1>14 DEF BeginWrite
<1>15. CASE Produce
  BY <1>15 DEF Produce
<1>16. CASE ProduceFails
  BY <1>16 DEF ProduceFails
<1>17. CASE ProduceEnds
  BY <1>17 DEF ProduceEnds
<1>18. CASE FinishWrite
  BY <1>18 DEF FinishWrite
<1>19. CASE Report
  BY <1>19 DEF Report
<1>20. CASE Die
  BY <1>20 DEF Die
<1> QED BY <1>1, <1>2, <1>3, <1>4, <1>5, <1>6, <1>7, <1>8, <1>9, <1>10,
           <1>11, <1>12, <1>13, <1>14, <1>15, <1>16, <1>17, <1>18, <1>19, <1>20 DEF Next

\* What arrived is the batch up to the last one confirmed, or one more.
LEMMA CopiesStep == MirrorInv /\ Next => CopiesInOrder'
<1> SUFFICES ASSUME MirrorInv, Next PROVE CopiesInOrder'
  OBVIOUS
<1> USE CallStands, MirrorAssumption DEF MirrorInv, At, Goto, Fail, Leave, Asking, Reading, Writing,
      Sides, Phases, TypeOK, SidesInv, BatchInv, CopiesInOrder, Next1
<1>1. CASE BeginRead
  BY <1>1 DEF BeginRead
<1>2. CASE ClearSource
  BY <1>2 DEF ClearSource, Noted
<1>3. CASE ClearTarget
  BY <1>3 DEF ClearTarget, Noted
<1>4. CASE BuildSource
  BY <1>4 DEF BuildSource, Build
<1>5. CASE BuildTarget
  BY <1>5 DEF BuildTarget, Build
<1>6. CASE ResolveSource
  BY <1>6 DEF ResolveSource, Resolve
<1>7. CASE ResolveTarget
  BY <1>7 DEF ResolveTarget, Resolve
<1>8. CASE ClearAgain
  BY <1>8 DEF ClearAgain, Noted
<1>9. CASE Stage
  BY <1>9 DEF Stage
<1>10. CASE ReadEnds
  BY <1>10 DEF ReadEnds
<1>11. CASE FinishRead
  BY <1>11 DEF FinishRead
<1>12. CASE Release
  BY <1>12 DEF Release
<1>13. CASE Preview
  BY <1>13 DEF Preview, Noted
<1>14. CASE BeginWrite
  BY <1>14 DEF BeginWrite
<1>15. CASE Produce
  BY <1>15 DEF Produce
<1>16. CASE ProduceFails
  <2>1. /\ pc = "produce" /\ copied' = copied /\ copied \in 0..Limit
        /\ failed' = failed \cup {"write"} /\ shown' = shown /\ shown = "nothing"
    BY <1>16 DEF ProduceFails
  <2>2. arrived' \in {1..copied, 1..copied \cup {copied + 1}}
    BY <1>16, <2>1 DEF ProduceFails
  <2>3. 1..copied \cup {copied + 1} = 1..(copied + 1)
    BY <2>1
  <2> QED BY <2>1, <2>2, <2>3
<1>17. CASE ProduceEnds
  BY <1>17 DEF ProduceEnds
<1>18. CASE FinishWrite
  BY <1>18 DEF FinishWrite
<1>19. CASE Report
  BY <1>19 DEF Report
<1>20. CASE Die
  BY <1>20 DEF Die
<1> QED BY <1>1, <1>2, <1>3, <1>4, <1>5, <1>6, <1>7, <1>8, <1>9, <1>10,
           <1>11, <1>12, <1>13, <1>14, <1>15, <1>16, <1>17, <1>18, <1>19, <1>20 DEF Next

\* Every way to the end wipes the batch.
LEMMA WipedStep == MirrorInv /\ Next => NothingStaysStaged'
<1> SUFFICES ASSUME MirrorInv, Next PROVE NothingStaysStaged'
  OBVIOUS
<1> USE CallStands, MirrorAssumption DEF MirrorInv, At, Goto, Fail, Leave, Asking, Reading, Writing,
      Sides, Phases, TypeOK, SidesInv, BatchInv, NothingStaysStaged
<1>1. CASE BeginRead
  BY <1>1 DEF BeginRead
<1>2. CASE ClearSource
  BY <1>2 DEF ClearSource, Noted
<1>3. CASE ClearTarget
  BY <1>3 DEF ClearTarget, Noted
<1>4. CASE BuildSource
  BY <1>4 DEF BuildSource, Build
<1>5. CASE BuildTarget
  BY <1>5 DEF BuildTarget, Build
<1>6. CASE ResolveSource
  BY <1>6 DEF ResolveSource, Resolve
<1>7. CASE ResolveTarget
  BY <1>7 DEF ResolveTarget, Resolve
<1>8. CASE ClearAgain
  BY <1>8 DEF ClearAgain, Noted
<1>9. CASE Stage
  BY <1>9 DEF Stage
<1>10. CASE ReadEnds
  BY <1>10 DEF ReadEnds
<1>11. CASE FinishRead
  BY <1>11 DEF FinishRead
<1>12. CASE Release
  BY <1>12 DEF Release
<1>13. CASE Preview
  BY <1>13 DEF Preview, Noted
<1>14. CASE BeginWrite
  BY <1>14 DEF BeginWrite
<1>15. CASE Produce
  BY <1>15 DEF Produce
<1>16. CASE ProduceFails
  BY <1>16 DEF ProduceFails
<1>17. CASE ProduceEnds
  BY <1>17 DEF ProduceEnds
<1>18. CASE FinishWrite
  BY <1>18 DEF FinishWrite
<1>19. CASE Report
  BY <1>19 DEF Report
<1>20. CASE Die
  BY <1>20 DEF Die
<1> QED BY <1>1, <1>2, <1>3, <1>4, <1>5, <1>6, <1>7, <1>8, <1>9, <1>10,
           <1>11, <1>12, <1>13, <1>14, <1>15, <1>16, <1>17, <1>18, <1>19, <1>20 DEF Next

LEMMA StutterStep == MirrorInv /\ UNCHANGED vars => MirrorInv'
<1> SUFFICES ASSUME MirrorInv, UNCHANGED vars PROVE MirrorInv'
  OBVIOUS
<1>1. /\ MaySource(Declared("source"))' = MaySource(Declared("source"))
      /\ MayTarget(Declared("target"))' = MayTarget(Declared("target"))
      /\ MaySource(seen["source"])' = MaySource(seen["source"])
      /\ MayTarget(seen["target"])' = MayTarget(seen["target"])
  BY AdmissionRests DEF vars
<1> QED BY <1>1 DEF MirrorInv, TypeOK, SidesInv, BatchInv, StagedWhenBothCleared,
                    ZeroTargetWrites, CopiesInOrder, Next1, NothingStaysStaged, vars

\* MirrorInv holds of every mirror, whatever the two brokers, the journal and
\* the operator do (message.go:284-482).
THEOREM MirrorInvariant == Spec => []MirrorInv
<1>1. Init => MirrorInv
  BY InitInv
<1>2. MirrorInv /\ [Next]_vars => MirrorInv'
  <2>1. MirrorInv /\ Next => MirrorInv'
    BY TypeStep, SidesStep, BatchStep, StagedStep, ZeroStep, CopiesStep, WipedStep DEF MirrorInv
  <2> QED BY <2>1, StutterStep
<1> QED BY <1>1, <1>2, PTL DEF Spec

\* The variables of a mirror keep their types.
THEOREM MirrorTypeCorrect == Spec => []TypeOK
<1>1. MirrorInv => TypeOK
  BY DEF MirrorInv
<1> QED BY <1>1, MirrorInvariant, PTL

\* No client of either side is built before both are approved.
THEOREM NoClientBeforeBoth == Spec => []ClientsAfterBothCleared
<1>1. MirrorInv => ClientsAfterBothCleared
  BY DEF MirrorInv, SidesInv, ClientsAfterBothCleared
<1> QED BY <1>1, MirrorInvariant, PTL

\* Not a single message is read before both sides are approved as their
\* brokers describe them.
THEOREM NothingStagedUncleared == Spec => []StagedWhenBothCleared
<1>1. MirrorInv => StagedWhenBothCleared
  BY DEF MirrorInv
<1> QED BY <1>1, MirrorInvariant, PTL

\* A mirror has both sides approved before it builds a client and before it
\* reads (message.go:338-376, 589-630).
THEOREM NothingMirroredUncleared == Spec => []BothCleared
<1>1. ClientsAfterBothCleared /\ StagedWhenBothCleared => BothCleared
  BY DEF BothCleared
<1> QED BY <1>1, NoClientBeforeBoth, NothingStagedUncleared, PTL

\* Nothing is written to the target when the source side failed, or by a dry
\* run.
THEOREM NoWriteAfterReadFailure == Spec => []ZeroTargetWrites
<1>1. MirrorInv => ZeroTargetWrites
  BY DEF MirrorInv
<1> QED BY <1>1, MirrorInvariant, PTL

\* The target gets the batch in order and from its start.
THEOREM BatchInOrder == Spec => []CopiesInOrder
<1>1. MirrorInv => CopiesInOrder
  BY DEF MirrorInv
<1> QED BY <1>1, MirrorInvariant, PTL

\* No copy of a message outlives the command.
THEOREM NoCopyStays == Spec => []NothingStaysStaged
<1>1. MirrorInv => NothingStaysStaged
  BY DEF MirrorInv
<1> QED BY <1>1, MirrorInvariant, PTL

-----------------------------------------------------------------------------
\* Both phases keep to the contract of the journal.  Each step of a mirror
\* is one step of the contract, or none.

Bars == <<recordedBar, owedBar, appliedBar, toldBar>>
Actors == Phases \cup {"note"}

LEMMA WhatIsRecorded ==
  /\ \A p \in Phases : <<p, "intent">> \in recordedBar <=> journal[p] # "none"
  /\ \A p \in Phases : <<p, "outcome">> \in recordedBar <=> journal[p] \in {"outcome", "doubt"}
BY DEF recordedBar, Phases

\* How the log follows from one phase and from the notes.
LEMMA RecordedAlike ==
  ASSUME UNCHANGED noted,
         \A p \in Phases : (journal'[p] # "none") = (journal[p] # "none"),
         \A p \in Phases : (journal'[p] \in {"outcome", "doubt"}) = (journal[p] \in {"outcome", "doubt"})
  PROVE  recordedBar' = recordedBar
BY DEF recordedBar

LEMMA IntentRecorded ==
  ASSUME UNCHANGED noted, NEW p \in Phases, TypeOK,
         journal[p] = "none", journal' = [journal EXCEPT ![p] = "intent"]
  PROVE  recordedBar' = recordedBar \cup {<<p, "intent">>}
BY DEF recordedBar, TypeOK, Phases, Records

LEMMA OutcomeRecorded ==
  ASSUME UNCHANGED noted, NEW p \in Phases, TypeOK, NEW r \in {"outcome", "doubt"},
         journal[p] = "intent", journal' = [journal EXCEPT ![p] = r]
  PROVE  recordedBar' = recordedBar \cup {<<p, "outcome">>}
BY DEF recordedBar, TypeOK, Phases, Records

LEMMA NoteRecorded ==
  ASSUME UNCHANGED journal, noted' = TRUE
  PROVE  recordedBar' = recordedBar \cup {<<"note", "note">>}
BY DEF recordedBar

LEMMA ToldAlike ==
  ASSUME ToldRead' = ToldRead, ToldWrite' = ToldWrite
  PROVE  toldBar' = toldBar
BY DEF toldBar

LEMMA ToldOne ==
  ASSUME NEW p \in Phases,
         p = "read" => ToldWrite' = ToldWrite,
         p = "write" => ToldRead' = ToldRead
  PROVE  toldBar' = [toldBar EXCEPT ![p] = IF p = "read" THEN ToldRead' ELSE ToldWrite']
BY DEF toldBar, Phases

LEMMA ToldOf ==
  /\ toldBar["read"] = ToldRead /\ toldBar["write"] = ToldWrite
  /\ toldBar["note"] = "pending"
BY DEF toldBar, Phases

\* Nothing is owed by a phase that is under way, nor by one that let it begin.
LEMMA NothingOwed ==
  ASSUME \A p \in Phases : journal[p] # "owed"
  PROVE  owedBar = {}
BY DEF owedBar

LEMMA ContractSteps ==
  /\ \A p \in Actors : Journal!RecordNote(p) => Journal!Next
  /\ \A p \in Phases : \/ Journal!RecordIntent(p) \/ Journal!Apply(p)
                       \/ Journal!RecordOutcome(p) \/ Journal!Owe(p) \/ Journal!Answer(p)
                       => Journal!Next
BY DEF Journal!Next, Actors

\* Where the records do not move and neither phase comes to its answer.
LEMMA NothingMoves ==
  ASSUME UNCHANGED <<noted, journal, built, arrived>>,
         ToldRead' = ToldRead, ToldWrite' = ToldWrite
  PROVE  UNCHANGED Bars
BY RecordedAlike, ToldAlike DEF Bars, owedBar, appliedBar

\* A refusal, noted or not.
LEMMA NoteMoves ==
  ASSUME UNCHANGED <<journal, built, arrived>>, noted' \in {noted, TRUE},
         ToldRead' = ToldRead, ToldWrite' = ToldWrite,
         \A p \in Phases : journal[p] # "owed"
  PROVE  Journal!Next \/ UNCHANGED Bars
<1>1. CASE noted' = noted
  BY <1>1, NothingMoves
<1>2. CASE noted' = TRUE
  <2>1. owedBar = {} /\ UNCHANGED <<owedBar, appliedBar>>
    BY NothingOwed DEF owedBar, appliedBar
  <2>2. toldBar' = toldBar /\ toldBar["note"] = "pending"
    BY ToldAlike, ToldOf
  <2>3. recordedBar' = recordedBar \cup {<<"note", "note">>}
    BY <1>2, NoteRecorded
  <2>4. Journal!RecordNote("note")
    BY <2>1, <2>2, <2>3 DEF Journal!RecordNote, Journal!Open
  <2> QED BY <2>4, ContractSteps DEF Actors
<1> QED BY <1>1, <1>2

\* An intent, recorded or not.
LEMMA IntentMoves ==
  ASSUME TypeOK, NEW p \in Phases, UNCHANGED <<noted, built, arrived>>,
         journal[p] = "none", p \notin appliedBar,
         journal' \in {journal, [journal EXCEPT ![p] = "intent"]},
         ToldRead' = ToldRead, ToldWrite' = ToldWrite, toldBar[p] = "pending",
         \A o \in Phases : journal[o] # "owed"
  PROVE  Journal!Next \/ UNCHANGED Bars
<1>1. CASE journal' = journal
  BY <1>1, NothingMoves
<1>2. CASE journal' = [journal EXCEPT ![p] = "intent"]
  <2>1. owedBar = {} /\ appliedBar' = appliedBar
    BY NothingOwed DEF appliedBar
  <2>2. owedBar' = owedBar
    BY <1>2, <2>1 DEF owedBar, TypeOK
  <2>3. toldBar' = toldBar
    BY ToldAlike
  <2>4. recordedBar' = recordedBar \cup {<<p, "intent">>}
    BY <1>2, IntentRecorded
  <2>5. Journal!RecordIntent(p)
    BY <2>1, <2>2, <2>3, <2>4 DEF Journal!RecordIntent, Journal!Open
  <2> QED BY <2>5, ContractSteps
<1> QED BY <1>1, <1>2

\* An outcome, in the log, in the spool, in doubt or lost.
LEMMA OutcomeMoves ==
  ASSUME TypeOK, NEW p \in Phases, UNCHANGED <<noted, built, arrived>>,
         journal[p] = "intent", NEW r \in {"outcome", "doubt", "owed", "lost"},
         journal' = [journal EXCEPT ![p] = r],
         ToldRead' = ToldRead, ToldWrite' = ToldWrite, toldBar[p] = "pending",
         \A o \in Phases : journal[o] # "owed"
  PROVE  Journal!Next \/ UNCHANGED Bars
<1>1. owedBar = {} /\ appliedBar' = appliedBar /\ toldBar' = toldBar
  BY NothingOwed, ToldAlike DEF appliedBar
<1>2. CASE r \in {"outcome", "doubt"}
  <2>1. recordedBar' = recordedBar \cup {<<p, "outcome">>}
    BY <1>2, OutcomeRecorded
  <2>2. <<p, "intent">> \in recordedBar
    BY WhatIsRecorded
  <2>3. owedBar' = owedBar
    BY <1>1, <1>2 DEF owedBar, TypeOK
  <2>4. Journal!RecordOutcome(p)
    BY <1>1, <2>1, <2>2, <2>3 DEF Journal!RecordOutcome, Journal!Open
  <2> QED BY <2>4, ContractSteps
<1>3. CASE r = "owed"
  <2>1. recordedBar' = recordedBar
    BY <1>3, RecordedAlike DEF TypeOK
  <2>2. owedBar' = owedBar \cup {p}
    BY <1>1, <1>3 DEF owedBar, TypeOK
  <2>3. Journal!Owe(p)
    BY <1>1, <2>1, <2>2 DEF Journal!Owe, Journal!Open
  <2> QED BY <2>3, ContractSteps
<1>4. CASE r = "lost"
  <2>1. recordedBar' = recordedBar
    BY <1>4, RecordedAlike DEF TypeOK
  <2>2. owedBar' = owedBar
    BY <1>1, <1>4 DEF owedBar, TypeOK
  <2> QED BY <1>1, <2>1, <2>2 DEF Bars
<1> QED BY <1>2, <1>3, <1>4

\* A target is touched.
LEMMA TargetMoves ==
  ASSUME NEW p \in Phases, UNCHANGED <<noted, journal>>, journal[p] = "intent",
         appliedBar' \in {appliedBar, appliedBar \cup {p}},
         ToldRead' = ToldRead, ToldWrite' = ToldWrite, toldBar[p] = "pending"
  PROVE  Journal!Next \/ UNCHANGED Bars
<1>1. UNCHANGED <<recordedBar, owedBar, toldBar>>
  BY RecordedAlike, ToldAlike DEF owedBar
<1>2. <<p, "intent">> \in recordedBar /\ <<p, "outcome">> \notin recordedBar /\ p \notin owedBar
  BY WhatIsRecorded DEF owedBar
<1>3. CASE appliedBar' = appliedBar
  BY <1>1, <1>3 DEF Bars
<1>4. CASE appliedBar' = appliedBar \cup {p}
  <2>1. Journal!Apply(p)
    BY <1>1, <1>2, <1>4 DEF Journal!Apply, Journal!Open
  <2> QED BY <2>1, ContractSteps
<1> QED BY <1>3, <1>4

\* The answer a phase ends with.
LEMMA AnswerMoves ==
  ASSUME UNCHANGED <<noted, journal, built, arrived>>, NEW p \in Phases,
         toldBar[p] = "pending",
         NEW w \in {"pending", "ok", "kept", "error"},
         toldBar' = [toldBar EXCEPT ![p] = w],
         w = "ok" => journal[p] = "outcome",
         w = "kept" => journal[p] \in {"doubt", "owed"}
  PROVE  Journal!Next \/ UNCHANGED Bars
<1>1. UNCHANGED <<recordedBar, owedBar, appliedBar>>
  BY RecordedAlike DEF owedBar, appliedBar
<1>2. CASE w = "pending"
  <2>1. toldBar' = toldBar
    BY <1>2 DEF toldBar
  <2> QED BY <1>1, <2>1 DEF Bars
<1>3. CASE w # "pending"
  <2>1. w = "ok" => {<<p, "intent">>, <<p, "outcome">>} \subseteq recordedBar
    BY WhatIsRecorded
  <2>2. w = "kept" => p \in owedBar \/ <<p, "outcome">> \in recordedBar
    BY WhatIsRecorded DEF owedBar
  <2>3. Journal!Answer(p)
    BY <1>1, <1>3, <2>1, <2>2 DEF Journal!Answer, Journal!Open
  <2> QED BY <2>3, ContractSteps
<1> QED BY <1>2, <1>3
\* Where the places of a mirror leave its records.
LEMMA Places ==
  ASSUME MirrorInv
  PROVE  /\ TypeOK
         /\ pc = "start" => journal["read"] = "none"
         /\ pc \in Asking \cup {"finishRead"} => journal["read"] = "intent"
         /\ pc \in Reading \cup {"preview", "beginWrite"} => journal["write"] = "none"
         /\ pc \in Writing \cup {"preview"} => journal["read"] = "outcome"
         /\ pc \in {"produce", "finishWrite"} => journal["write"] = "intent"
         /\ pc \in Reading \cup {"preview", "beginWrite"} => arrived = {}
         /\ pc = "start" => built = {}
BY DEF MirrorInv, SidesInv, BatchInv

\* Every step of a mirror, from where MirrorInv holds.
LEMMA ContractStep == MirrorInv /\ Next => [Journal!Next]_(Journal!vars)
<1> SUFFICES ASSUME MirrorInv, Next PROVE Journal!Next \/ UNCHANGED Bars
  BY DEF Journal!vars, Bars
<1> USE Places DEF At, Goto, Fail, Asking, Reading, Writing
<1>1. CASE BeginRead
  <2>1. UNCHANGED <<noted, built, arrived>> /\ pc = "start" /\ pc' \in {"clearSource", "release"}
    BY <1>1 DEF BeginRead
  <2>2. journal["read"] = "none" /\ journal["write"] = "none" /\ built = {} /\ arrived = {}
    BY <2>1
  <2>3. journal' \in {journal, [journal EXCEPT !["read"] = "intent"]}
    BY <1>1, <2>2 DEF BeginRead, TypeOK, Phases
  <2>4. ToldRead' = ToldRead /\ ToldWrite' = ToldWrite /\ ToldRead = "pending"
    BY <2>1, <2>2 DEF ToldRead, ToldWrite
  <2>5. "read" \notin appliedBar /\ \A p \in Phases : journal[p] # "owed"
    BY <2>2 DEF appliedBar, Phases
  <2> QED BY <2>1, <2>2, <2>3, <2>4, <2>5, ToldOf, IntentMoves DEF Phases
<1>2. CASE ClearSource \/ ClearTarget \/ ClearAgain
  <2>1. /\ UNCHANGED <<journal, built, arrived>> /\ noted' \in {noted, TRUE}
        /\ pc \in Asking /\ pc' \in {"clearTarget", "buildSource", "read", "finishRead"}
    BY <1>2 DEF ClearSource, ClearTarget, ClearAgain, Noted
  <2>2. ToldRead' = ToldRead /\ ToldWrite' = ToldWrite
    BY <2>1 DEF ToldRead, ToldWrite
  <2>3. \A p \in Phases : journal[p] # "owed"
    BY <2>1 DEF Phases
  <2> QED BY <2>1, <2>2, <2>3, NoteMoves
<1>3. CASE BuildSource \/ BuildTarget
  <2>1. /\ UNCHANGED <<noted, journal, arrived>>
        /\ pc \in {"buildSource", "buildTarget"}
        /\ pc' \in {"buildTarget", "resolveSource", "finishRead"}
        /\ built' = built \/ \E side \in Sides : built' = built \cup {side}
    BY <1>3 DEF BuildSource, BuildTarget, Build, Sides
  <2>2. journal["read"] = "intent"
    BY <2>1
  <2>3. ToldRead' = ToldRead /\ ToldWrite' = ToldWrite /\ ToldRead = "pending"
    BY <2>1 DEF ToldRead, ToldWrite
  <2>4. appliedBar' \in {appliedBar, appliedBar \cup {"read"}}
    <3>1. CASE built' = built
      BY <2>1, <3>1 DEF appliedBar
    <3>2. CASE built' # {}
      BY <2>1, <3>2 DEF appliedBar
    <3> QED BY <2>1, <3>1, <3>2
  <2> QED BY <2>1, <2>2, <2>3, <2>4, ToldOf, TargetMoves DEF Phases
<1>4. CASE ResolveSource \/ ResolveTarget \/ Stage \/ ReadEnds
  <2>1. /\ UNCHANGED <<noted, journal, built, arrived>>
        /\ pc \in Asking /\ pc' \in {"resolveTarget", "reclear", "read", "finishRead"}
    BY <1>4 DEF ResolveSource, ResolveTarget, Resolve, Stage, ReadEnds
  <2>2. ToldRead' = ToldRead /\ ToldWrite' = ToldWrite
    BY <2>1 DEF ToldRead, ToldWrite
  <2> QED BY <2>1, <2>2, NothingMoves
<1>5. CASE FinishRead
  <2>1. /\ UNCHANGED <<noted, built, arrived>> /\ pc = "finishRead" /\ pc' = "release"
    BY <1>5 DEF FinishRead
  <2>2. PICK r \in {"outcome", "doubt", "owed", "lost"} : journal' = [journal EXCEPT !["read"] = r]
    BY <1>5 DEF FinishRead
  <2>3. journal["read"] = "intent" /\ journal["write"] = "none"
    BY <2>1
  <2>4. ToldRead' = ToldRead /\ ToldWrite' = ToldWrite /\ ToldRead = "pending"
    BY <2>1 DEF ToldRead, ToldWrite
  <2>5. TypeOK /\ \A o \in Phases : journal[o] # "owed"
    BY <2>3 DEF Phases
  <2> QED BY <2>1, <2>2, <2>3, <2>4, <2>5, ToldOf, OutcomeMoves DEF Phases
<1>6. CASE Release
  <2>1. /\ UNCHANGED <<noted, journal, built, arrived>>
        /\ pc = "release" /\ pc' \in {"preview", "beginWrite", "done"}
    BY <1>6 DEF Release, Leave
  <2>2. ToldRead = "pending" /\ ToldWrite' = ToldWrite
    BY <2>1 DEF ToldRead, ToldWrite
  <2>3. /\ ToldRead' \in {"pending", "ok", "kept", "error"}
        /\ ToldRead' = "ok" => journal["read"] = "outcome"
        /\ ToldRead' = "kept" => journal["read"] \in {"doubt", "owed"}
    BY <2>1 DEF ToldRead
  <2>4. toldBar' = [toldBar EXCEPT !["read"] = ToldRead']
    BY <2>2, ToldOne DEF Phases
  <2> QED BY <2>1, <2>2, <2>3, <2>4, ToldOf, AnswerMoves DEF Phases
<1>7. CASE Preview
  <2>1. /\ UNCHANGED <<journal, built, arrived>> /\ noted' \in {noted, TRUE}
        /\ pc = "preview" /\ pc' = "done"
    BY <1>7 DEF Preview, Noted, Leave
  <2>2. journal["read"] = "outcome" /\ journal["write"] = "none"
    BY <2>1
  <2>3. ToldRead' = ToldRead /\ ToldWrite' = ToldWrite
    BY <2>1, <2>2 DEF ToldRead, ToldWrite
  <2>4. \A p \in Phases : journal[p] # "owed"
    BY <2>2 DEF Phases
  <2> QED BY <2>1, <2>3, <2>4, NoteMoves
<1>8. CASE BeginWrite
  <2>1. UNCHANGED <<noted, built, arrived>> /\ pc = "beginWrite" /\ pc' \in {"produce", "report"}
    BY <1>8 DEF BeginWrite
  <2>2. journal["read"] = "outcome" /\ journal["write"] = "none" /\ arrived = {}
    BY <2>1
  <2>3. /\ journal' \in {journal, [journal EXCEPT !["write"] = "intent"]}
        /\ journal'["read"] = "outcome"
    BY <1>8, <2>2 DEF BeginWrite, TypeOK, Phases
  <2>4. ToldRead' = ToldRead
    BY <2>1, <2>2, <2>3 DEF ToldRead
  <2>5. ToldWrite' = ToldWrite /\ ToldWrite = "pending"
    BY <2>1 DEF ToldWrite
  <2>6. "write" \notin appliedBar /\ \A p \in Phases : journal[p] # "owed"
    BY <2>2 DEF appliedBar, Phases
  <2> QED BY <2>1, <2>2, <2>3, <2>4, <2>5, <2>6, ToldOf, IntentMoves DEF Phases
<1>9. CASE Produce \/ ProduceFails
  <2>1. /\ UNCHANGED <<noted, journal, built>> /\ pc = "produce" /\ pc' \in {"produce", "finishWrite"}
        /\ arrived' = arrived \/ arrived' = arrived \cup {Next1}
    BY <1>9 DEF Produce, ProduceFails
  <2>2. journal["write"] = "intent"
    BY <2>1
  <2>3. ToldRead' = ToldRead /\ ToldWrite' = ToldWrite /\ ToldWrite = "pending"
    BY <2>1 DEF ToldRead, ToldWrite
  <2>4. appliedBar' \in {appliedBar, appliedBar \cup {"write"}}
    <3>1. CASE arrived' = arrived
      BY <2>1, <3>1 DEF appliedBar
    <3>2. CASE arrived' # {}
      BY <2>1, <3>2 DEF appliedBar
    <3> QED BY <2>1, <3>1, <3>2
  <2> QED BY <2>1, <2>2, <2>3, <2>4, ToldOf, TargetMoves DEF Phases
<1>10. CASE ProduceEnds
  <2>1. UNCHANGED <<noted, journal, built, arrived>> /\ pc = "produce" /\ pc' = "finishWrite"
    BY <1>10 DEF ProduceEnds
  <2>2. ToldRead' = ToldRead /\ ToldWrite' = ToldWrite
    BY <2>1 DEF ToldRead, ToldWrite
  <2> QED BY <2>1, <2>2, NothingMoves
<1>11. CASE FinishWrite
  <2>1. /\ UNCHANGED <<noted, built, arrived>> /\ pc = "finishWrite" /\ pc' = "report"
    BY <1>11 DEF FinishWrite
  <2>2. PICK r \in {"outcome", "doubt", "owed", "lost"} : journal' = [journal EXCEPT !["write"] = r]
    BY <1>11 DEF FinishWrite
  <2>3. journal["read"] = "outcome" /\ journal["write"] = "intent" /\ journal'["read"] = "outcome"
    BY <2>1, <2>2 DEF TypeOK, Phases
  <2>4. ToldRead' = ToldRead
    BY <2>1, <2>3 DEF ToldRead
  <2>5. ToldWrite' = ToldWrite /\ ToldWrite = "pending"
    BY <2>1 DEF ToldWrite
  <2>6. TypeOK /\ \A o \in Phases : journal[o] # "owed"
    BY <2>3 DEF Phases
  <2> QED BY <2>1, <2>2, <2>3, <2>4, <2>5, <2>6, ToldOf, OutcomeMoves DEF Phases
<1>12. CASE Report
  <2>1. UNCHANGED <<noted, journal, built, arrived>> /\ pc = "report" /\ pc' = "done"
    BY <1>12 DEF Report, Leave
  <2>2. ToldWrite = "pending" /\ ToldRead' = ToldRead
    BY <2>1 DEF ToldRead, ToldWrite
  <2>3. /\ ToldWrite' \in {"pending", "ok", "kept", "error"}
        /\ ToldWrite' = "ok" => journal["write"] = "outcome"
        /\ ToldWrite' = "kept" => journal["write"] \in {"doubt", "owed"}
    BY <2>1 DEF ToldWrite
  <2>4. toldBar' = [toldBar EXCEPT !["write"] = ToldWrite']
    BY <2>2, ToldOne DEF Phases
  <2> QED BY <2>1, <2>2, <2>3, <2>4, ToldOf, AnswerMoves DEF Phases
<1>13. CASE Die
  <2>1. UNCHANGED <<noted, journal, built, arrived, pc>>
    BY <1>13 DEF Die
  <2>2. ToldRead' = ToldRead /\ ToldWrite' = ToldWrite
    BY <2>1 DEF ToldRead, ToldWrite
  <2> QED BY <2>1, <2>2, NothingMoves
<1> QED BY <1>1, <1>2, <1>3, <1>4, <1>5, <1>6, <1>7, <1>8, <1>9, <1>10,
           <1>11, <1>12, <1>13 DEF Next

\* A mirror is an implementation of the contract of the journal, with all of its
\* source side as the read and the batch on the target as the write
\* (cmd/message.go:337-450).
THEOREM MirrorKeepsContract == Spec => UsesJournal
<1>1. Init => Journal!Init
  BY DEF Init, Journal!Init, recordedBar, owedBar, appliedBar, toldBar, ToldRead, ToldWrite, Phases
<1>2. MirrorInv /\ [Next]_vars => [Journal!Next]_(Journal!vars)
  <2>1. UNCHANGED vars => UNCHANGED Journal!vars
    BY DEF vars, Journal!vars, recordedBar, owedBar, appliedBar, toldBar, ToldRead, ToldWrite
  <2> QED BY <2>1, ContractStep
<1> QED BY <1>1, <1>2, MirrorInvariant, PTL DEF Spec, UsesJournal, Journal!Spec
=============================================================================
