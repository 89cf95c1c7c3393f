---------------------------- MODULE BackendProofs ----------------------------
(***************************************************************************)
(* The changes and reads of the backends, for any number of partitions,     *)
(* subscriptions, commands and name servers: each component's invariant     *)
(* holds at the start and is kept by its steps.  CommandsProofs puts these  *)
(* together into theorems about the commands.                               *)
(***************************************************************************)
EXTENDS AllCommands, FiniteSetTheorems, TLAPS

-----------------------------------------------------------------------------
(***************************************************************************)
(* Sums and least elements.                                                 *)
(***************************************************************************)

\* A set of natural numbers that is not empty has a least one.
LEMMA LeastNumber ==
  ASSUME NEW N \in SUBSET Nat, N # {}
  PROVE  \E n \in N : \A m \in N : n <= m
<1> DEFINE R == OpToRel(<, Nat)
<1>1. IsWellFoundedOn(R, Nat)
  BY NatLessThanWellFounded
<1>2. PICK n \in N : \A m \in N : <<m, n>> \notin R
  BY <1>1, WFMin, Zenon
<1>3. \A m \in N : ~ (m < n)
  BY <1>2 DEF OpToRel
<1> QED
  BY <1>3

\* Induction over the natural numbers, for a set.
LEMMA NumbersReached ==
  ASSUME NEW G, 0 \in G, \A n \in Nat : n \in G => n + 1 \in G
  PROVE  Nat \subseteq G
<1> SUFFICES ASSUME Nat \ G # {} PROVE FALSE
  OBVIOUS
<1>1. PICK n \in Nat \ G : \A m \in Nat \ G : n <= m
  BY LeastNumber, Zenon
<1>2. n - 1 \in Nat /\ n - 1 \in G
  BY <1>1
<1> QED
  BY <1>1, <1>2

\* Induction over the subsets of a finite set, for a set of them.
LEMMA SubsetsReached ==
  ASSUME NEW S, IsFiniteSet(S), NEW G, {} \in G,
         \A s \in SUBSET S : s # {} /\ s \ {CHOOSE x \in s : TRUE} \in G => s \in G
  PROVE  SUBSET S \subseteq G
<1> DEFINE H == {n \in Nat : \A s \in SUBSET S : Cardinality(s) = n => s \in G}
<1>0. \A s \in SUBSET S : IsFiniteSet(s) /\ Cardinality(s) \in Nat
  BY FS_Subset, FS_CardinalityType
<1>1. 0 \in H
  BY <1>0, FS_EmptySet
<1>2. ASSUME NEW n \in Nat, n \in H PROVE n + 1 \in H
  <2> SUFFICES ASSUME NEW s \in SUBSET S, Cardinality(s) = n + 1 PROVE s \in G
    OBVIOUS
  <2> DEFINE x == CHOOSE y \in s : TRUE
  <2>1. s # {}
    BY FS_EmptySet
  <2>2. x \in s
    BY <2>1
  <2> HIDE DEF x
  <2>3. Cardinality(s \ {x}) = n
    <3>1. IsFiniteSet(s) /\ Cardinality(s) \in Nat
      BY <1>0
    <3>2. Cardinality(s \ {x}) = Cardinality(s) - 1
      BY <2>2, <3>1, FS_RemoveElement
    <3> QED
      BY <3>1, <3>2
  <2>4. s \ {x} \in G
    BY <1>2, <2>3
  <2> QED
    BY <2>1, <2>4 DEF x
<1> HIDE DEF H
<1>3. Nat \subseteq H
  BY <1>1, <1>2, NumbersReached, Zenon
<1> QED
  BY <1>0, <1>3 DEF H

\* The sum is that of a function over the subsets, one element at a time.
LEMMA SumRecursion ==
  ASSUME NEW S, IsFiniteSet(S), NEW f
  PROVE  \E g : /\ g = [s \in SUBSET S |->
                          IF s = {} THEN 0
                          ELSE f[CHOOSE x \in s : TRUE] + g[s \ {CHOOSE x \in s : TRUE}]]
                /\ SumFunctionOnSet(f, S) = g[S]
<1> DEFINE c(s) == CHOOSE x \in s : TRUE
           Upto(n) == {s \in SUBSET S : Cardinality(s) <= n}
           Sums(g, D) == g = [s \in D |-> IF s = {} THEN 0 ELSE f[c(s)] + g[s \ {c(s)}]]
           G == {n \in Nat : \E g : Sums(g, Upto(n))}
<1>0. \A s \in SUBSET S : IsFiniteSet(s) /\ Cardinality(s) \in Nat
  BY FS_Subset, FS_CardinalityType
<1>1. \A s \in SUBSET S : s # {} =>
         s \ {c(s)} \in SUBSET S /\ Cardinality(s \ {c(s)}) = Cardinality(s) - 1
  <2> SUFFICES ASSUME NEW s \in SUBSET S, s # {}
               PROVE  Cardinality(s \ {c(s)}) = Cardinality(s) - 1
    OBVIOUS
  <2>1. c(s) \in s
    OBVIOUS
  <2> HIDE DEF c
  <2> QED
    BY <1>0, <2>1, FS_RemoveElement
<1> HIDE DEF c
<1>2. 0 \in G
  <2> DEFINE g == [s \in Upto(0) |-> 0]
  <2>1. \A s \in Upto(0) : s = {}
    BY <1>0, FS_EmptySet
  <2>2. Sums(g, Upto(0))
    BY <2>1
  <2> QED
    BY <2>2
<1>3. ASSUME NEW n \in Nat, n \in G PROVE n + 1 \in G
  <2>1. PICK g : Sums(g, Upto(n))
    BY <1>3
  <2> DEFINE h == [s \in Upto(n + 1) |-> IF s = {} THEN 0 ELSE f[c(s)] + g[s \ {c(s)}]]
  <2>2. \A s \in Upto(n) : s \in Upto(n + 1) /\ h[s] = g[s]
    <3> SUFFICES ASSUME NEW s \in Upto(n) PROVE s \in Upto(n + 1) /\ h[s] = g[s]
      OBVIOUS
    <3>1. s \in Upto(n + 1)
      BY <1>0
    <3>2. h[s] = IF s = {} THEN 0 ELSE f[c(s)] + g[s \ {c(s)}]
      BY <3>1
    <3>3. g[s] = IF s = {} THEN 0 ELSE f[c(s)] + g[s \ {c(s)}]
      <4> HIDE DEF Upto
      <4> QED BY <2>1
    <3> QED
      BY <3>1, <3>2, <3>3
  <2>3. \A s \in Upto(n + 1) : s # {} => s \ {c(s)} \in Upto(n)
    BY <1>0, <1>1
  <2>4. Sums(h, Upto(n + 1))
    <3> HIDE DEF Upto
    <3>1. \A s \in Upto(n + 1) : s # {} => h[s \ {c(s)}] = g[s \ {c(s)}]
      BY <2>2, <2>3
    <3> QED
      BY <3>1
  <2> HIDE DEF h, Sums, Upto
  <2> QED
    BY <2>4
<1>4. Cardinality(S) \in G
  <2> HIDE DEF G
  <2>1. Nat \subseteq G
    BY <1>2, <1>3, NumbersReached, Zenon
  <2> QED
    BY <2>1, FS_CardinalityType
<1>5. Upto(Cardinality(S)) = SUBSET S
  BY FS_Subset
<1>6. \E g : Sums(g, SUBSET S)
  <2> HIDE DEF Sums, Upto
  <2> QED
    BY <1>4, <1>5
<1>7. SumFunctionOnSet(f, S) = (CHOOSE g : Sums(g, SUBSET S))[S]
  BY DEF SumFunctionOnSet, FoldFunctionOnSet, MapThenFoldSet, c
<1>8. Sums(CHOOSE g : Sums(g, SUBSET S), SUBSET S)
  <2> HIDE DEF Sums
  <2> QED
    BY <1>6, Zenon
<1> DEFINE w == CHOOSE g : Sums(g, SUBSET S)
<1>9. Sums(w, SUBSET S) /\ SumFunctionOnSet(f, S) = w[S]
  BY <1>7, <1>8
<1> HIDE DEF w
<1> QED
  BY <1>9 DEF c

\* A sum of natural numbers is one, and grows with its terms.
LEMMA SumGrows ==
  ASSUME NEW S, IsFiniteSet(S), NEW f \in [S -> Nat], NEW h \in [S -> Nat],
         \A x \in S : f[x] <= h[x]
  PROVE  /\ SumFunctionOnSet(f, S) \in Nat /\ SumFunctionOnSet(h, S) \in Nat
         /\ SumFunctionOnSet(f, S) <= SumFunctionOnSet(h, S)
<1> DEFINE c(s) == CHOOSE x \in s : TRUE
<1>1. PICK a : /\ a = [s \in SUBSET S |-> IF s = {} THEN 0 ELSE f[c(s)] + a[s \ {c(s)}]]
               /\ SumFunctionOnSet(f, S) = a[S]
  BY SumRecursion
<1>2. PICK b : /\ b = [s \in SUBSET S |-> IF s = {} THEN 0 ELSE h[c(s)] + b[s \ {c(s)}]]
               /\ SumFunctionOnSet(h, S) = b[S]
  BY SumRecursion
<1> DEFINE G == {s \in SUBSET S : a[s] \in Nat /\ b[s] \in Nat /\ a[s] <= b[s]}
<1>3. {} \in G
  BY <1>1, <1>2
<1>4. ASSUME NEW s \in SUBSET S, s # {}, s \ {c(s)} \in G PROVE s \in G
  <2>1. c(s) \in s /\ c(s) \in S
    BY <1>4
  <2>2. a[s] = f[c(s)] + a[s \ {c(s)}] /\ b[s] = h[c(s)] + b[s \ {c(s)}]
    BY <1>1, <1>2, <1>4
  <2> HIDE DEF c
  <2>3. f[c(s)] \in Nat /\ h[c(s)] \in Nat /\ f[c(s)] <= h[c(s)]
    BY <2>1
  <2> QED
    BY <1>4, <2>2, <2>3
<1> HIDE DEF G
<1>5. SUBSET S \subseteq G
  BY <1>3, <1>4, SubsetsReached, Zenon
<1> QED
  BY <1>1, <1>2, <1>5 DEF G

\* A sum of which one term is one greater.
LEMMA SumPlusOne ==
  ASSUME NEW S, IsFiniteSet(S), NEW f \in [S -> Nat], NEW h \in [S -> Nat],
         NEW p \in S, h[p] = f[p] + 1, \A x \in S \ {p} : h[x] = f[x]
  PROVE  /\ SumFunctionOnSet(f, S) \in Nat
         /\ SumFunctionOnSet(h, S) = SumFunctionOnSet(f, S) + 1
<1> DEFINE c(s) == CHOOSE x \in s : TRUE
<1>1. PICK a : /\ a = [s \in SUBSET S |-> IF s = {} THEN 0 ELSE f[c(s)] + a[s \ {c(s)}]]
               /\ SumFunctionOnSet(f, S) = a[S]
  BY SumRecursion
<1>2. PICK b : /\ b = [s \in SUBSET S |-> IF s = {} THEN 0 ELSE h[c(s)] + b[s \ {c(s)}]]
               /\ SumFunctionOnSet(h, S) = b[S]
  BY SumRecursion
<1> DEFINE G == {s \in SUBSET S : a[s] \in Nat /\ b[s] = a[s] + (IF p \in s THEN 1 ELSE 0)}
<1>3. {} \in G
  BY <1>1, <1>2
<1>4. ASSUME NEW s \in SUBSET S, s # {}, s \ {c(s)} \in G PROVE s \in G
  <2>1. c(s) \in s /\ c(s) \in S
    BY <1>4
  <2>2. a[s] = f[c(s)] + a[s \ {c(s)}] /\ b[s] = h[c(s)] + b[s \ {c(s)}]
    BY <1>1, <1>2, <1>4
  <2> HIDE DEF c
  <2>3. f[c(s)] \in Nat /\ h[c(s)] = f[c(s)] + (IF p = c(s) THEN 1 ELSE 0)
    BY <2>1
  <2>4. a[s \ {c(s)}] \in Nat
        /\ b[s \ {c(s)}] = a[s \ {c(s)}] + (IF p \in s \ {c(s)} THEN 1 ELSE 0)
    BY <1>4
  <2>5. CASE p = c(s)
    BY <2>1, <2>2, <2>3, <2>4, <2>5
  <2>6. CASE p # c(s)
    BY <2>1, <2>2, <2>3, <2>4, <2>6
  <2> QED
    BY <2>5, <2>6
<1> HIDE DEF G
<1>5. SUBSET S \subseteq G
  BY <1>3, <1>4, SubsetsReached, Zenon
<1> QED
  BY <1>1, <1>2, <1>5 DEF G

\* A sum of zeros.
LEMMA SumOfZeros ==
  ASSUME NEW S, IsFiniteSet(S), NEW f \in [S -> {0}]
  PROVE  SumFunctionOnSet(f, S) = 0
<1> DEFINE c(s) == CHOOSE x \in s : TRUE
<1>1. PICK a : /\ a = [s \in SUBSET S |-> IF s = {} THEN 0 ELSE f[c(s)] + a[s \ {c(s)}]]
               /\ SumFunctionOnSet(f, S) = a[S]
  BY SumRecursion
<1> DEFINE G == {s \in SUBSET S : a[s] = 0}
<1>2. {} \in G
  BY <1>1
<1>3. ASSUME NEW s \in SUBSET S, s # {}, s \ {c(s)} \in G PROVE s \in G
  <2>1. c(s) \in S
    BY <1>3
  <2>2. a[s] = f[c(s)] + a[s \ {c(s)}]
    BY <1>1, <1>3
  <2> HIDE DEF c
  <2> QED
    BY <1>3, <2>1, <2>2
<1> HIDE DEF G
<1>4. SUBSET S \subseteq G
  BY <1>2, <1>3, SubsetsReached, Zenon
<1> QED
  BY <1>1, <1>4 DEF G

\* The elements of two sets that have none in common add up.
LEMMA DisjointUnion ==
  ASSUME NEW S, IsFiniteSet(S), NEW T, IsFiniteSet(T), S \cap T = {}
  PROVE  Cardinality(S \cup T) = Cardinality(S) + Cardinality(T)
<1>1. Cardinality(S \cup T) = Cardinality(S) + Cardinality(T) - Cardinality(S \cap T)
  BY FS_Union
<1>2. Cardinality(S \cap T) = 0
  BY FS_EmptySet
<1>3. Cardinality(S) \in Nat /\ Cardinality(T) \in Nat
  BY FS_CardinalityType
<1> QED
  BY <1>1, <1>2, <1>3

-----------------------------------------------------------------------------
(***************************************************************************)
(* RocketMQ: what a topic creation has learnt from the name servers it has  *)
(* asked, and when its request can have been carried out.                   *)
(***************************************************************************)


\* The outcomes a command can end with, told apart.
LEMMA TopicOutcomes ==
  /\ Topic!NoOutcome.failed = 0 /\ Topic!Created.failed = 0 /\ Topic!Uncertain.failed = 0
  /\ Topic!Refused.failed = 1
  /\ Topic!Created.status = "success" /\ Topic!NoOutcome.status = "failed"
  /\ Topic!Refused.status = "failed" /\ Topic!Uncertain.status = "failed"
BY DEF Topic!NoOutcome, Topic!Created, Topic!Refused, Topic!Uncertain,
       Topic!SingleOutcome, Topic!Record, Topic!Zero

\* So no two of them are the same where it matters.
LEMMA TopicOutcomesDiffer ==
  /\ Topic!Refused \notin {Topic!NoOutcome, Topic!Created, Topic!Uncertain}
  /\ Topic!Created \notin {Topic!NoOutcome, Topic!Refused, Topic!Uncertain}
<1>1. "success" # "failed" /\ 0 # 1
  OBVIOUS
<1> HIDE DEF Topic!NoOutcome, Topic!Created, Topic!Refused, Topic!Uncertain
<1> QED
  BY <1>1, TopicOutcomes

\* Init establishes the invariant.
LEMMA TopicInit == ASSUME Topic!QueuesAssumption PROVE Topic!Init => Topic!CreationInv
<1> SUFFICES ASSUME Topic!Init PROVE Topic!CreationInv
  OBVIOUS
<1>1. Topic!TypeOK
  BY DEF Topic!Init, Topic!TypeOK, Topic!Steps
<1>2. Topic!AppliedLate /\ Topic!VisibleAhead
  BY DEF Topic!Init, Topic!AppliedLate, Topic!VisibleAhead
<1>3. Topic!UpToDate
  BY DEF Topic!Init, Topic!UpToDate
<1>4. \A c \in Creators : outcome[c] = Topic!NoOutcome /\ pc[c] = "idle" /\ ~disturbed[c]
  BY DEF Topic!Init
<1>5. Topic!Confirmed /\ Topic!AnswersLast
  BY <1>4, TopicOutcomesDiffer DEF Topic!Confirmed, Topic!AnswersLast
<1> QED
  BY <1>1, <1>2, <1>3, <1>5 DEF Topic!CreationInv

-----------------------------------------------------------------------------
\* Every step keeps the types.
LEMMA TopicTypeStep == Topic!TypeOK /\ [Topic!Next]_(Topic!topicVars) => Topic!TypeOK'
<1> SUFFICES ASSUME Topic!TypeOK, [Topic!Next]_(Topic!topicVars) PROVE Topic!TypeOK'
  OBVIOUS
<1> USE DEF Topic!TypeOK, Topic!Steps
<1>1. ASSUME NEW n \in NameServers, Topic!Register(n) PROVE Topic!TypeOK'
  BY <1>1 DEF Topic!Register
<1>2. ASSUME NEW c \in Creators, Topic!Begin(c) PROVE Topic!TypeOK'
  <2>1. visible' \in [Creators -> BOOLEAN]
    BY <1>2, Zenon DEF Topic!Begin
  <2> QED
    BY <1>2, <2>1 DEF Topic!Begin, Topic!Goto, Topic!World
<1>3. ASSUME NEW c \in Creators, Topic!CheckAbsent(c) PROVE Topic!TypeOK'
  BY <1>3 DEF Topic!CheckAbsent, Topic!Goto, Topic!World, Topic!Ghosts, Topic!End
<1>4. ASSUME NEW c \in Creators, Topic!CheckFails(c) PROVE Topic!TypeOK'
  BY <1>4 DEF Topic!CheckFails, Topic!Goto, Topic!World, Topic!Ghosts, Topic!End
<1>5. ASSUME NEW c \in Creators, Topic!Request(c) PROVE Topic!TypeOK'
  <2>1. broker' \in Queues \cup {Topic!Absent} /\ applied' \in [Creators -> BOOLEAN]
    <3>1. CASE Topic!Upsert(c)
      BY <3>1 DEF Topic!Upsert
    <3>2. CASE Topic!NotCarriedOut
      BY <3>2 DEF Topic!NotCarriedOut
    <3> QED
      BY <1>5, <3>1, <3>2 DEF Topic!Request
  <2>2. disturbed' \in [Creators -> BOOLEAN]
    <3>1. CASE disturbed' = disturbed
      BY <3>1
    <3>2. CASE disturbed' = [d \in Creators |-> disturbed[d] \/ (d # c /\ pc[d] # "idle")]
      BY <3>2, Zenon
    <3> QED
      BY <1>5, <3>1, <3>2 DEF Topic!Request, Topic!Upsert, Topic!NotCarriedOut
  <2>3. /\ pc' \in [Creators -> Topic!Steps] /\ todo' \in [Creators -> SUBSET NameServers]
        /\ outcome' \in [Creators -> {Topic!NoOutcome, Topic!Created, Topic!Refused,
                                      Topic!Uncertain}]
    BY <1>5 DEF Topic!Request, Topic!Goto, Topic!End
  <2> QED
    BY <1>5, <2>1, <2>2, <2>3 DEF Topic!Request
<1>6. ASSUME NEW c \in Creators, Topic!Confirm(c) PROVE Topic!TypeOK'
  BY <1>6 DEF Topic!Confirm, Topic!Goto, Topic!World, Topic!Ghosts, Topic!End
<1>7. ASSUME NEW c \in Creators, Topic!Timeout(c) PROVE Topic!TypeOK'
  BY <1>7 DEF Topic!Timeout, Topic!Goto, Topic!World, Topic!Ghosts, Topic!End
<1>8. CASE UNCHANGED Topic!topicVars
  BY <1>8 DEF Topic!topicVars
<1> QED
  BY <1>1, <1>2, <1>3, <1>4, <1>5, <1>6, <1>7, <1>8 DEF Topic!Next, Topic!Step

-----------------------------------------------------------------------------
\* Every step keeps when a request can have been carried out.
LEMMA AppliedLateStep == Topic!CreationInv /\ [Topic!Next]_(Topic!topicVars) => Topic!AppliedLate'
<1> SUFFICES ASSUME Topic!CreationInv, [Topic!Next]_(Topic!topicVars) PROVE Topic!AppliedLate'
  OBVIOUS
<1> USE TopicOutcomesDiffer DEF Topic!CreationInv, Topic!TypeOK, Topic!AppliedLate, Topic!AnswersLast
<1>1. ASSUME NEW n \in NameServers, Topic!Register(n) PROVE Topic!AppliedLate'
  BY <1>1 DEF Topic!Register
<1>2. ASSUME NEW c \in Creators, Topic!Begin(c) PROVE Topic!AppliedLate'
  BY <1>2 DEF Topic!Begin, Topic!Goto, Topic!World
<1>3. ASSUME NEW c \in Creators, Topic!CheckAbsent(c) PROVE Topic!AppliedLate'
  BY <1>3 DEF Topic!CheckAbsent, Topic!Goto, Topic!World, Topic!Ghosts, Topic!End
<1>4. ASSUME NEW c \in Creators, Topic!CheckFails(c) PROVE Topic!AppliedLate'
  BY <1>4 DEF Topic!CheckFails, Topic!Goto, Topic!World, Topic!Ghosts, Topic!End
<1>5. ASSUME NEW c \in Creators, Topic!Request(c) PROVE Topic!AppliedLate'
  BY <1>5 DEF Topic!Request, Topic!Upsert, Topic!NotCarriedOut, Topic!Goto, Topic!End
<1>6. ASSUME NEW c \in Creators, Topic!Confirm(c) PROVE Topic!AppliedLate'
  BY <1>6 DEF Topic!Confirm, Topic!Goto, Topic!World, Topic!Ghosts, Topic!End
<1>7. ASSUME NEW c \in Creators, Topic!Timeout(c) PROVE Topic!AppliedLate'
  BY <1>7 DEF Topic!Timeout, Topic!Goto, Topic!World, Topic!Ghosts, Topic!End
<1>8. CASE UNCHANGED Topic!topicVars
  BY <1>8 DEF Topic!topicVars
<1> QED
  BY <1>1, <1>2, <1>3, <1>4, <1>5, <1>6, <1>7, <1>8 DEF Topic!Next, Topic!Step

\* Every step keeps the topic that could be seen ahead of the checks.
LEMMA VisibleAheadStep ==
  ASSUME Topic!QueuesAssumption
  PROVE  Topic!CreationInv /\ [Topic!Next]_(Topic!topicVars) => Topic!VisibleAhead'
<1> SUFFICES ASSUME Topic!CreationInv, [Topic!Next]_(Topic!topicVars) PROVE Topic!VisibleAhead'
  OBVIOUS
<1> USE DEF Topic!CreationInv, Topic!TypeOK, Topic!VisibleAhead, Topic!AppliedLate
<1>1. ASSUME NEW n \in NameServers, Topic!Register(n) PROVE Topic!VisibleAhead'
  BY <1>1 DEF Topic!Register
<1>2. ASSUME NEW c \in Creators, Topic!Begin(c) PROVE Topic!VisibleAhead'
  BY <1>2 DEF Topic!Begin, Topic!Goto, Topic!World
<1>3. ASSUME NEW c \in Creators, Topic!CheckAbsent(c) PROVE Topic!VisibleAhead'
  BY <1>3 DEF Topic!CheckAbsent, Topic!Goto, Topic!World, Topic!Ghosts, Topic!End
<1>4. ASSUME NEW c \in Creators, Topic!CheckFails(c) PROVE Topic!VisibleAhead'
  BY <1>4 DEF Topic!CheckFails, Topic!Goto, Topic!World, Topic!Ghosts, Topic!End
<1>5. ASSUME NEW c \in Creators, Topic!Request(c) PROVE Topic!VisibleAhead'
  BY <1>5 DEF Topic!Request, Topic!Upsert, Topic!NotCarriedOut, Topic!Goto, Topic!End
<1>6. ASSUME NEW c \in Creators, Topic!Confirm(c) PROVE Topic!VisibleAhead'
  BY <1>6 DEF Topic!Confirm, Topic!Goto, Topic!World, Topic!Ghosts, Topic!End
<1>7. ASSUME NEW c \in Creators, Topic!Timeout(c) PROVE Topic!VisibleAhead'
  BY <1>7 DEF Topic!Timeout, Topic!Goto, Topic!World, Topic!Ghosts, Topic!End
<1>8. CASE UNCHANGED Topic!topicVars
  BY <1>8 DEF Topic!topicVars
<1> QED
  BY <1>1, <1>2, <1>3, <1>4, <1>5, <1>6, <1>7, <1>8 DEF Topic!Next, Topic!Step

\* Every step keeps the name servers that were asked up to date.
LEMMA UpToDateStep == Topic!CreationInv /\ [Topic!Next]_(Topic!topicVars) => Topic!UpToDate'
<1> SUFFICES ASSUME Topic!CreationInv, [Topic!Next]_(Topic!topicVars) PROVE Topic!UpToDate'
  OBVIOUS
<1> USE DEF Topic!CreationInv, Topic!TypeOK, Topic!UpToDate, Topic!AppliedLate
<1>1. ASSUME NEW n \in NameServers, Topic!Register(n) PROVE Topic!UpToDate'
  BY <1>1 DEF Topic!Register
<1>2. ASSUME NEW c \in Creators, Topic!Begin(c) PROVE Topic!UpToDate'
  BY <1>2 DEF Topic!Begin, Topic!Goto, Topic!World
<1>3. ASSUME NEW c \in Creators, Topic!CheckAbsent(c) PROVE Topic!UpToDate'
  BY <1>3 DEF Topic!CheckAbsent, Topic!Goto, Topic!World, Topic!Ghosts, Topic!End
<1>4. ASSUME NEW c \in Creators, Topic!CheckFails(c) PROVE Topic!UpToDate'
  BY <1>4 DEF Topic!CheckFails, Topic!Goto, Topic!World, Topic!Ghosts, Topic!End
<1>5. ASSUME NEW c \in Creators, Topic!Request(c) PROVE Topic!UpToDate'
  BY <1>5, ZenonT(30) DEF Topic!Request, Topic!Upsert, Topic!NotCarriedOut, Topic!Goto, Topic!End
<1>6. ASSUME NEW c \in Creators, Topic!Confirm(c) PROVE Topic!UpToDate'
  BY <1>6 DEF Topic!Confirm, Topic!Goto, Topic!World, Topic!Ghosts, Topic!End
<1>7. ASSUME NEW c \in Creators, Topic!Timeout(c) PROVE Topic!UpToDate'
  BY <1>7 DEF Topic!Timeout, Topic!Goto, Topic!World, Topic!Ghosts, Topic!End
<1>8. CASE UNCHANGED Topic!topicVars
  BY <1>8 DEF Topic!topicVars
<1> QED
  BY <1>1, <1>2, <1>3, <1>4, <1>5, <1>6, <1>7, <1>8 DEF Topic!Next, Topic!Step

\* Every step keeps what the name servers confirmed.
LEMMA ConfirmedStep ==
  ASSUME Topic!QueuesAssumption
  PROVE  Topic!CreationInv /\ [Topic!Next]_(Topic!topicVars) => Topic!Confirmed'
<1> SUFFICES ASSUME Topic!CreationInv, [Topic!Next]_(Topic!topicVars) PROVE Topic!Confirmed'
  OBVIOUS
<1> USE TopicOutcomesDiffer DEF Topic!CreationInv, Topic!TypeOK, Topic!Confirmed, Topic!UpToDate,
       Topic!AppliedLate, Topic!AnswersLast
<1>1. ASSUME NEW n \in NameServers, Topic!Register(n) PROVE Topic!Confirmed'
  BY <1>1 DEF Topic!Register
<1>2. ASSUME NEW c \in Creators, Topic!Begin(c) PROVE Topic!Confirmed'
  BY <1>2 DEF Topic!Begin, Topic!Goto, Topic!World
<1>3. ASSUME NEW c \in Creators, Topic!CheckAbsent(c) PROVE Topic!Confirmed'
  BY <1>3 DEF Topic!CheckAbsent, Topic!Goto, Topic!World, Topic!Ghosts, Topic!End
<1>4. ASSUME NEW c \in Creators, Topic!CheckFails(c) PROVE Topic!Confirmed'
  BY <1>4 DEF Topic!CheckFails, Topic!Goto, Topic!World, Topic!Ghosts, Topic!End
<1>5. ASSUME NEW c \in Creators, Topic!Request(c) PROVE Topic!Confirmed'
  <2>0. /\ route' = route /\ want' = want /\ pc[c] = "clear" /\ ~applied[c]
        /\ \/ pc' = [pc EXCEPT ![c] = "confirming"] /\ outcome' = outcome
              /\ todo' = [todo EXCEPT ![c] = NameServers]
           \/ pc' = [pc EXCEPT ![c] = "ended"] /\ todo' = todo
              /\ outcome' = [outcome EXCEPT ![c] = Topic!Uncertain]
    BY <1>5 DEF Topic!Request, Topic!Goto, Topic!End
  <2> SUFFICES ASSUME NEW d \in Creators, ~disturbed'[d],
                      pc'[d] = "confirming" \/ outcome'[d] = Topic!Created
               PROVE  /\ applied'[d] => broker' = want'[d]
                      /\ \A n \in NameServers \ todo'[d] :
                           route'[n] = want'[d] /\ broker' = want'[d]
    OBVIOUS
  <2>1. CASE d = c
    <3>1. todo'[c] = NameServers
      BY <2>0, <2>1
    <3>2. applied'[c] => broker' = want[c]
      BY <1>5, <2>0 DEF Topic!Request, Topic!Upsert, Topic!NotCarriedOut
    <3> QED
      BY <2>0, <2>1, <3>1, <3>2
  <2>2. CASE d # c
    <3>1. /\ pc'[d] = pc[d] /\ outcome'[d] = outcome[d] /\ todo'[d] = todo[d]
      BY <2>0, <2>2
    <3>2. pc[d] # "idle"
      BY <3>1
    <3>3. ~Topic!Upsert(c)
      BY <2>2, <3>2 DEF Topic!Upsert
    <3>4. UNCHANGED <<broker, applied, disturbed>>
      BY <1>5, <3>3 DEF Topic!Request, Topic!NotCarriedOut
    <3> QED
      BY <2>0, <3>1, <3>4
  <2> QED
    BY <2>1, <2>2
<1>6. ASSUME NEW c \in Creators, Topic!Confirm(c) PROVE Topic!Confirmed'
  BY <1>6 DEF Topic!Confirm, Topic!Goto, Topic!World, Topic!Ghosts, Topic!End, Topic!QueuesAssumption
<1>7. ASSUME NEW c \in Creators, Topic!Timeout(c) PROVE Topic!Confirmed'
  BY <1>7 DEF Topic!Timeout, Topic!Goto, Topic!World, Topic!Ghosts, Topic!End
<1>8. CASE UNCHANGED Topic!topicVars
  BY <1>8 DEF Topic!topicVars
<1> QED
  BY <1>1, <1>2, <1>3, <1>4, <1>5, <1>6, <1>7, <1>8 DEF Topic!Next, Topic!Step

\* Every step keeps the outcomes at the end.
LEMMA AnswersLastStep == Topic!CreationInv /\ [Topic!Next]_(Topic!topicVars) => Topic!AnswersLast'
<1> SUFFICES ASSUME Topic!CreationInv, [Topic!Next]_(Topic!topicVars) PROVE Topic!AnswersLast'
  OBVIOUS
<1> USE TopicOutcomesDiffer DEF Topic!CreationInv, Topic!TypeOK, Topic!AnswersLast
<1>1. ASSUME NEW n \in NameServers, Topic!Register(n) PROVE Topic!AnswersLast'
  BY <1>1 DEF Topic!Register
<1>2. ASSUME NEW c \in Creators, Topic!Begin(c) PROVE Topic!AnswersLast'
  BY <1>2 DEF Topic!Begin, Topic!Goto, Topic!World
<1>3. ASSUME NEW c \in Creators, Topic!CheckAbsent(c) PROVE Topic!AnswersLast'
  BY <1>3 DEF Topic!CheckAbsent, Topic!Goto, Topic!World, Topic!Ghosts, Topic!End
<1>4. ASSUME NEW c \in Creators, Topic!CheckFails(c) PROVE Topic!AnswersLast'
  BY <1>4 DEF Topic!CheckFails, Topic!Goto, Topic!World, Topic!Ghosts, Topic!End
<1>5. ASSUME NEW c \in Creators, Topic!Request(c) PROVE Topic!AnswersLast'
  BY <1>5 DEF Topic!Request, Topic!Upsert, Topic!NotCarriedOut, Topic!Goto, Topic!End
<1>6. ASSUME NEW c \in Creators, Topic!Confirm(c) PROVE Topic!AnswersLast'
  BY <1>6 DEF Topic!Confirm, Topic!Goto, Topic!World, Topic!Ghosts, Topic!End
<1>7. ASSUME NEW c \in Creators, Topic!Timeout(c) PROVE Topic!AnswersLast'
  BY <1>7 DEF Topic!Timeout, Topic!Goto, Topic!World, Topic!Ghosts, Topic!End
<1>8. CASE UNCHANGED Topic!topicVars
  BY <1>8 DEF Topic!topicVars
<1> QED
  BY <1>1, <1>2, <1>3, <1>4, <1>5, <1>6, <1>7, <1>8 DEF Topic!Next, Topic!Step

LEMMA TopicSteps ==
  ASSUME Topic!QueuesAssumption
  PROVE  Topic!CreationInv /\ [Topic!Next]_(Topic!topicVars) => Topic!CreationInv'
BY TopicTypeStep, AppliedLateStep, VisibleAheadStep, UpToDateStep, ConfirmedStep,
   AnswersLastStep DEF Topic!CreationInv

\* A create that ends in a plain failure has not been carried out, one that says
\* success is known to every name server, and none is carried out over a topic
\* that one of them knew.
LEMMA TopicSafe ==
  ASSUME Topic!CreationInv
  PROVE  Topic!TypeOK /\ Topic!ChangesCounted /\ Topic!CreatedEverywhere
         /\ Topic!VisibleNeverOverwritten
<1>1. \A c \in Creators :
        outcome[c] \in {Topic!NoOutcome, Topic!Created, Topic!Refused, Topic!Uncertain}
  BY DEF Topic!CreationInv, Topic!TypeOK
<1> HIDE DEF Topic!NoOutcome, Topic!Created, Topic!Refused, Topic!Uncertain
<1>2. Topic!ChangesCounted
  <2> SUFFICES ASSUME NEW c \in Creators, outcome[c].failed > 0 PROVE ~applied[c]
    BY DEF Topic!ChangesCounted
  <2>1. outcome[c] = Topic!Refused
    BY <1>1, TopicOutcomes
  <2> QED
    BY <2>1 DEF Topic!CreationInv, Topic!AppliedLate
<1>3. Topic!CreatedEverywhere
  <2> SUFFICES ASSUME NEW c \in Creators, ~disturbed[c],
                      outcome[c].status = "success", NEW n \in NameServers
               PROVE  route[n] = want[c]
    BY DEF Topic!CreatedEverywhere
  <2>1. outcome[c] = Topic!Created
    BY <1>1, TopicOutcomes
  <2> QED
    BY <2>1 DEF Topic!CreationInv, Topic!AnswersLast, Topic!Confirmed
<1>4. Topic!VisibleNeverOverwritten
  BY DEF Topic!CreationInv, Topic!VisibleAhead, Topic!VisibleNeverOverwritten
<1> QED
  BY <1>2, <1>3, <1>4 DEF Topic!CreationInv

-----------------------------------------------------------------------------
(***************************************************************************)
(* RabbitMQ and Pulsar: the permission of one principal.                    *)
(***************************************************************************)
LEMMA AclInit == Acl!Init => Acl!AclInv
BY DEF Acl!Init, Acl!AclInv, Acl!TypeOK, Acl!CopyCurrent, Acl!Permission, Acl!Empty,
       Acl!Request

\* Whoever writes keeps account of what the others have read.
LEMMA AclSteps == Acl!AclInv /\ [Acl!Next]_(Acl!aclVars) => Acl!AclInv'
<1> SUFFICES ASSUME Acl!AclInv, [Acl!Next]_(Acl!aclVars) PROVE Acl!AclInv'
  OBVIOUS
<1> USE DEF Acl!AclInv, Acl!TypeOK, Acl!CopyCurrent
<1>1. ASSUME NEW c \in Commands, Acl!Read(c) PROVE Acl!AclInv'
  BY <1>1 DEF Acl!Read
<1>2. ASSUME NEW c \in Commands, Acl!ReadFails(c) PROVE Acl!AclInv'
  BY <1>2 DEF Acl!ReadFails, Acl!End
<1>3. ASSUME NEW c \in Commands, Acl!Write(c) PROVE Acl!AclInv'
  <2>1. /\ asked' = asked /\ copy' = copy /\ pc[c] = "read"
        /\ pc' = [pc EXCEPT ![c] = "ended"]
        /\ answer' \in [Commands -> {"none", "ok", "error"}]
    BY <1>3 DEF Acl!Write, Acl!End
  <2>2. CASE Acl!Store(c)
    <3>1. Acl!Changed(c) \in Acl!Permission
      BY DEF Acl!Changed, Acl!Permission, Acl!Request
    <3>2. /\ permission' \in Acl!Permission
          /\ since' = [d \in Commands |->
                         IF d = c THEN since[d]
                         ELSE since[d] \cup {s \in Scopes : permission[s] # permission'[s]}]
      BY <2>2, <3>1 DEF Acl!Store
    <3>3. Acl!TypeOK'
      BY <2>1, <3>2
    <3>4. Acl!CopyCurrent'
      BY <2>1, <3>2
    <3> QED
      BY <3>3, <3>4
  <2>3. CASE UNCHANGED <<permission, since>>
    BY <2>1, <2>3
  <2> QED
    BY <1>3, <2>2, <2>3 DEF Acl!Write
<1>4. CASE UNCHANGED Acl!aclVars
  BY <1>4 DEF Acl!aclVars
<1> QED
  BY <1>1, <1>2, <1>3, <1>4 DEF Acl!Next

\* A write that changes the scope of another has not read its last change.
LEMMA AclSafe ==
  ASSUME Acl!AclInv, [Acl!Next]_(Acl!aclVars)
  PROVE  Acl!KeepsOthers
<1> SUFFICES ASSUME NEW c \in Commands, pc[c] = "read", pc'[c] = "ended",
                    NEW s \in Scopes \ {asked[c].scope}, permission'[s] # permission[s]
             PROVE  s \in since[c]
  BY DEF Acl!KeepsOthers
<1> USE DEF Acl!AclInv, Acl!TypeOK
<1>1. Acl!Write(c)
  BY DEF Acl!Next, Acl!Read, Acl!ReadFails, Acl!Write, Acl!End, Acl!aclVars
<1>2. permission' = Acl!Changed(c)
  BY <1>1 DEF Acl!Write, Acl!Store
<1>3. permission'[s] = copy[c][s]
  BY <1>2 DEF Acl!Changed, Acl!Permission
<1> QED
  BY <1>3 DEF Acl!CopyCurrent

-----------------------------------------------------------------------------
(***************************************************************************)
(* Pulsar: what a purge has skipped is counted, and a reset goes on when it *)
(* saw no consumer.                                                         *)
(***************************************************************************)
LEMMA PulsarCardinality ==
  \A S : /\ Pulsar!Cardinality(S) = Cardinality(S)
         /\ Pulsar!IsFiniteSet(S) <=> IsFiniteSet(S)
BY DEF Pulsar!Cardinality, Cardinality, Pulsar!IsFiniteSet, IsFiniteSet

\* The outcome of a command has the counts of its tally.
LEMMA PulsarOutcomes ==
  ASSUME NEW t \in Pulsar!Tallies, NEW e \in Pulsar!Errors
  PROVE  LET o == Pulsar!BatchOutcome(Pulsar!Count(t), t, e) IN
         /\ o \in Pulsar!Outcome
         /\ o.succeeded = t.succeeded /\ o.uncertain = t.uncertain /\ o.failed = t.failed
         /\ o.status = "success" => e = "none"
<1>1. /\ t.succeeded \in Nat /\ t.failed \in Nat /\ t.uncertain \in Nat
  BY DEF Pulsar!Tallies
<1>2. Pulsar!NotNegative(Pulsar!Count(t) - Pulsar!Count(t)) \in Nat
  BY <1>1 DEF Pulsar!NotNegative, Pulsar!Count
<1>3. Pulsar!BatchStatus(t, e) \in {"success", "failed", "partial"}
      /\ (Pulsar!BatchStatus(t, e) = "success" => e = "none")
  BY DEF Pulsar!BatchStatus
<1> QED
  BY <1>1, <1>2, <1>3
     DEF Pulsar!BatchOutcome, Pulsar!Record, Pulsar!Outcome, Pulsar!Compensations,
         Pulsar!Errors

LEMMA PulsarZero ==
  /\ Pulsar!Zero \in Pulsar!Tallies /\ Pulsar!Zero.succeeded = 0
  /\ Pulsar!Zero.failed = 0 /\ Pulsar!Zero.uncertain = 0
  /\ Pulsar!NoOutcome \in Pulsar!Outcome
BY DEF Pulsar!Zero, Pulsar!Tallies, Pulsar!NoOutcome, Pulsar!Outcome, Pulsar!Record,
       Pulsar!Errors, Pulsar!Compensations

LEMMA PulsarInit == Pulsar!Init => Pulsar!PulsarInv
<1> SUFFICES ASSUME Pulsar!Init PROVE Pulsar!PulsarInv
  OBVIOUS
<1> USE DEF Pulsar!Init
<1>1. Pulsar!TypeOK
  BY PulsarZero DEF Pulsar!TypeOK, Pulsar!Steps, Pulsar!NoListing, Pulsar!Errors
<1>2. Pulsar!NothingYet
  BY DEF Pulsar!NothingYet, Pulsar!Waiting
<1>3. /\ Pulsar!PurgeCounts /\ Pulsar!StayedListed /\ Pulsar!PurgeAnswered
      /\ Pulsar!IdleWhenListed /\ Pulsar!RecordedTrue /\ Pulsar!ResetAnswered
  BY DEF Pulsar!PurgeCounts, Pulsar!StayedListed, Pulsar!PurgeAnswered,
         Pulsar!IdleWhenListed, Pulsar!RecordedTrue, Pulsar!ResetAnswered
<1> QED
  BY <1>1, <1>2, <1>3 DEF Pulsar!PulsarInv

\* The topic lives on: whoever connects is late, whoever leaves does not stay.
LEMMA PulsarTopicSteps ==
  ASSUME Pulsar!PulsarInv, Pulsar!Alive, UNCHANGED Pulsar!Command,
         subs' \subseteq Subscriptions, consumers' \subseteq subs',
         backlog' \in [Subscriptions -> Nat],
         stayed' \subseteq stayed \cap subs', late \subseteq late',
         late' \subseteq Subscriptions, consumers' \subseteq consumers \cup late'
  PROVE  Pulsar!PulsarInv'
<1> USE DEF Pulsar!PulsarInv, Pulsar!Command, Pulsar!Alive
<1>1. Pulsar!TypeOK'
  BY DEF Pulsar!TypeOK
<1>2. Pulsar!NothingYet'
  BY DEF Pulsar!NothingYet, Pulsar!Waiting, Pulsar!Resetting
<1>3. Pulsar!PurgeCounts'
  BY DEF Pulsar!PurgeCounts, Pulsar!Purging
<1>4. Pulsar!StayedListed'
  BY DEF Pulsar!StayedListed, Pulsar!Purging
<1>5. Pulsar!PurgeAnswered' /\ Pulsar!RecordedTrue' /\ Pulsar!ResetAnswered'
  BY DEF Pulsar!PurgeAnswered, Pulsar!RecordedTrue, Pulsar!ResetAnswered
<1>6. Pulsar!IdleWhenListed'
  BY DEF Pulsar!IdleWhenListed, Pulsar!Resetting
<1> QED
  BY <1>1, <1>2, <1>3, <1>4, <1>5, <1>6

\* The statistics are there, or given up: what is listed has not been skipped.
LEMMA PulsarStats ==
  ASSUME Pulsar!PulsarInv, Pulsar!Waiting,
         NEW l, l = Pulsar!NoListing \/ l = Pulsar!Listing, Pulsar!Continue(l)
  PROVE  Pulsar!PulsarInv'
<1> USE DEF Pulsar!PulsarInv, Pulsar!Waiting
<1>1. /\ Pulsar!TypeOK /\ skipped = {} /\ tally = Pulsar!Zero /\ units = 0 /\ todo = {}
      /\ error = "none" /\ outcome \in Pulsar!Outcome
  BY DEF Pulsar!TypeOK, Pulsar!NothingYet, Pulsar!Alive
<1>2. /\ l \in [known : BOOLEAN, subs : SUBSET Subscriptions, consumers : SUBSET Subscriptions]
      /\ l.known => l.subs = subs /\ l.consumers = consumers
  <2>1. subs \in SUBSET Subscriptions /\ consumers \in SUBSET Subscriptions
    BY <1>1 DEF Pulsar!TypeOK
  <2>2. CASE l = Pulsar!NoListing
    BY <2>2 DEF Pulsar!NoListing
  <2>3. CASE l = Pulsar!Listing
    BY <2>1, <2>3 DEF Pulsar!Listing
  <2> QED
    BY <2>2, <2>3
<1>3. /\ listing' = l /\ attempt' = 0 /\ late' = {}
      /\ UNCHANGED <<subs, backlog, consumers, stayed, request, tally, skipped, outcome>>
  BY DEF Pulsar!Continue, Pulsar!topic
<1>4. Cardinality({}) = 0
  BY FS_EmptySet
<1>5. CASE Pulsar!Purging
  <2>1. step' = "skipping" /\ todo' = l.subs /\ units' = 1 /\ error' = error
    BY <1>5 DEF Pulsar!Continue
  <2>2. Pulsar!TypeOK'
    BY <1>1, <1>2, <1>3, <2>1 DEF Pulsar!TypeOK, Pulsar!Steps
  <2>3. request'.op = "purge"
    BY <1>3, <1>5 DEF Pulsar!Purging
  <2>4. Pulsar!NothingYet' /\ Pulsar!PurgeAnswered' /\ Pulsar!RecordedTrue'
        /\ Pulsar!ResetAnswered'
    BY <1>1, <1>3, <2>1, <2>3
       DEF Pulsar!NothingYet, Pulsar!Alive, Pulsar!Resetting, Pulsar!PurgeAnswered,
           Pulsar!RecordedTrue, Pulsar!ResetAnswered
  <2>5. Pulsar!PurgeCounts'
    BY <1>1, <1>3, <1>4, <2>1, PulsarZero, PulsarCardinality DEF Pulsar!PurgeCounts
  <2>6. Pulsar!StayedListed' /\ Pulsar!IdleWhenListed'
    BY <1>1, <1>2, <1>3, <2>1, <2>3
       DEF Pulsar!StayedListed, Pulsar!IdleWhenListed, Pulsar!Resetting, Pulsar!TypeOK
  <2> QED
    BY <2>2, <2>4, <2>5, <2>6
<1>6. CASE ~Pulsar!Purging
  <2>1. /\ todo' = {} /\ units' = 0
        /\ \/ /\ step' \in {"planned", "skipping"} /\ error' = "none"
              /\ step' = "skipping" => request.sub \notin l.consumers
           \/ step' = "answered" /\ error' = "error"
    BY <1>1, <1>6 DEF Pulsar!Continue, Pulsar!PlanReset, Pulsar!CheckConsumers
  <2>2. request'.op # "purge"
    BY <1>3, <1>6 DEF Pulsar!Purging
  <2>3. Pulsar!TypeOK'
    BY <1>1, <1>2, <1>3, <2>1 DEF Pulsar!TypeOK, Pulsar!Steps, Pulsar!Errors
  <2>4. Pulsar!NothingYet' /\ Pulsar!PurgeAnswered' /\ Pulsar!RecordedTrue'
        /\ Pulsar!ResetAnswered'
    BY <1>1, <1>3, <2>1, <2>2
       DEF Pulsar!NothingYet, Pulsar!Alive, Pulsar!Resetting, Pulsar!PurgeAnswered,
           Pulsar!RecordedTrue, Pulsar!Purging, Pulsar!ResetAnswered
  <2>5. Pulsar!PurgeCounts' /\ Pulsar!StayedListed'
    BY <2>2 DEF Pulsar!PurgeCounts, Pulsar!StayedListed, Pulsar!Purging
  <2>6. Pulsar!IdleWhenListed'
    BY <1>1, <1>2, <1>3, <2>1
       DEF Pulsar!IdleWhenListed, Pulsar!Resetting, Pulsar!TypeOK
  <2> QED
    BY <2>3, <2>4, <2>5, <2>6
<1> QED
  BY <1>5, <1>6

\* The statistics cannot be had: nothing was skipped.
LEMMA PulsarStatsFail ==
  ASSUME Pulsar!PulsarInv, Pulsar!StatsFail
  PROVE  Pulsar!PulsarInv'
<1> USE DEF Pulsar!PulsarInv
<1>1. /\ skipped = {} /\ tally = Pulsar!Zero /\ units = 0 /\ todo = {}
  BY DEF Pulsar!NothingYet, Pulsar!StatsFail
<1>2. /\ step' = "answered" /\ error' = "error" /\ attempt' = 0
      /\ UNCHANGED <<subs, backlog, consumers, stayed, listing, todo, request, units,
                     tally, skipped, late, outcome>>
  BY DEF Pulsar!StatsFail, Pulsar!Fail, Pulsar!topic
<1>3. Cardinality({}) = 0
  BY FS_EmptySet
<1>4. Pulsar!TypeOK'
  BY <1>2 DEF Pulsar!TypeOK, Pulsar!Steps, Pulsar!Errors
<1>5. Pulsar!NothingYet' /\ Pulsar!RecordedTrue' /\ Pulsar!PurgeCounts'
      /\ Pulsar!StayedListed' /\ Pulsar!IdleWhenListed' /\ Pulsar!ResetAnswered'
  BY <1>1, <1>2
     DEF Pulsar!NothingYet, Pulsar!RecordedTrue, Pulsar!PurgeCounts, Pulsar!Waiting,
         Pulsar!ResetAnswered, Pulsar!StayedListed, Pulsar!IdleWhenListed,
         Pulsar!Alive, Pulsar!Resetting
<1>6. Pulsar!PurgeAnswered'
  BY <1>1, <1>2, <1>3, PulsarZero, PulsarCardinality DEF Pulsar!PurgeAnswered
<1> QED
  BY <1>4, <1>5, <1>6

\* One more request for the statistics changes nothing else.
LEMMA PulsarAskAgain ==
  ASSUME Pulsar!PulsarInv, Pulsar!AskAgain
  PROVE  Pulsar!PulsarInv'
<1>1. /\ attempt' \in Nat
      /\ UNCHANGED <<subs, backlog, consumers, stayed, request, step, listing, todo, units,
                     tally, error, skipped, late, outcome>>
  BY DEF Pulsar!AskAgain, Pulsar!PulsarInv, Pulsar!TypeOK, Pulsar!topic
<1> QED
  BY <1>1
     DEF Pulsar!PulsarInv, Pulsar!TypeOK, Pulsar!NothingYet, Pulsar!PurgeCounts,
         Pulsar!StayedListed, Pulsar!PurgeAnswered, Pulsar!IdleWhenListed,
         Pulsar!RecordedTrue, Pulsar!ResetAnswered, Pulsar!ChangesCounted,
         Pulsar!Waiting, Pulsar!Alive, Pulsar!Purging, Pulsar!Resetting

\* A purge takes the next subscription, or stops at it.
LEMMA PulsarPurgeNext ==
  ASSUME Pulsar!PulsarAssumption, Pulsar!PulsarInv, Pulsar!PurgeNext
  PROVE  Pulsar!PulsarInv'
<1> USE DEF Pulsar!PulsarInv
<1>1. PICK s \in todo : Pulsar!Skipped(s) \/ Pulsar!Refused(s) \/ Pulsar!Unclear(s)
  BY DEF Pulsar!PurgeNext
<1>2. /\ Pulsar!TypeOK /\ Pulsar!PurgeCounts /\ request.op = "purge" /\ step = "skipping"
      /\ request' = request /\ listing' = listing /\ units' = units /\ outcome' = outcome
      /\ attempt' = attempt
      /\ error = "none"
  BY DEF Pulsar!PurgeNext, Pulsar!Purging, Pulsar!NothingYet, Pulsar!Alive
<1>3. /\ tally.succeeded = Cardinality(skipped) /\ tally.failed = 0 /\ tally.uncertain = 0
      /\ skipped = listing.subs \ todo /\ units = 1
  BY <1>2, PulsarCardinality DEF Pulsar!PurgeCounts, Pulsar!Purging
<1>4. s \notin skipped /\ s \in Subscriptions /\ IsFiniteSet(skipped)
  <2>1. IsFiniteSet(Subscriptions)
    BY PulsarCardinality DEF Pulsar!PulsarAssumption
  <2>2. skipped \subseteq Subscriptions
    BY <1>2 DEF Pulsar!TypeOK
  <2> QED
    BY <1>2, <1>3, <2>1, <2>2, FS_Subset DEF Pulsar!TypeOK
<1>5. /\ Cardinality(skipped) \in Nat
      /\ Cardinality(skipped \cup {s}) = Cardinality(skipped) + 1
  BY <1>4, FS_AddElement, FS_CardinalityType
<1>6. tally \in [succeeded : Nat, failed : Nat, uncertain : Nat]
  BY <1>2 DEF Pulsar!TypeOK, Pulsar!Tallies
<1>7. /\ \/ /\ s \in subs /\ backlog' = [backlog EXCEPT ![s] = 0]
            /\ skipped' = skipped \cup {s}
         \/ backlog' = backlog /\ skipped' = skipped
      /\ UNCHANGED <<subs, consumers, stayed, late>>
  BY <1>1 DEF Pulsar!Skipped, Pulsar!Refused, Pulsar!Unclear, Pulsar!Skip, Pulsar!Left,
              Pulsar!topic
<1>8. /\ backlog' \in [Subscriptions -> Nat] /\ skipped' \subseteq Subscriptions
  BY <1>2, <1>4, <1>7 DEF Pulsar!TypeOK
<1>9. CASE Pulsar!Skipped(s)
  <2>1. /\ skipped' = skipped \cup {s} /\ todo' = todo \ {s} /\ error' = error
        /\ step' = step /\ tally' = [tally EXCEPT !.succeeded = @ + 1]
    BY <1>9 DEF Pulsar!Skipped, Pulsar!Skip
  <2>2. /\ tally'.succeeded = Cardinality(skipped') /\ tally'.failed = 0
        /\ tally'.uncertain = 0
        /\ tally' \in [succeeded : Nat, failed : Nat, uncertain : Nat]
    <3>1. tally' = [succeeded |-> tally.succeeded + 1, failed |-> tally.failed,
                    uncertain |-> tally.uncertain]
      BY <1>6, <2>1
    <3>2. Cardinality(skipped') = tally.succeeded + 1
      BY <1>3, <1>5, <2>1
    <3>3. /\ tally'.succeeded = tally.succeeded + 1 /\ tally'.failed = tally.failed
          /\ tally'.uncertain = tally.uncertain
      BY <3>1
    <3>4. tally' \in [succeeded : Nat, failed : Nat, uncertain : Nat]
      BY <1>6, <3>1
    <3> QED
      BY <1>3, <3>2, <3>3, <3>4
  <2>3. Pulsar!TypeOK'
    BY <1>2, <1>7, <1>8, <2>1, <2>2 DEF Pulsar!TypeOK, Pulsar!Tallies
  <2>4. skipped' = listing'.subs \ todo'
    BY <1>2, <1>3, <2>1 DEF Pulsar!TypeOK
  <2>5. Pulsar!PurgeCounts'
    BY <1>2, <1>3, <2>2, <2>4, PulsarCardinality DEF Pulsar!PurgeCounts
  <2>6. Pulsar!NothingYet' /\ Pulsar!StayedListed' /\ Pulsar!PurgeAnswered'
        /\ Pulsar!IdleWhenListed' /\ Pulsar!RecordedTrue' /\ Pulsar!ResetAnswered'
    BY <1>2, <1>7, <2>1
       DEF Pulsar!ResetAnswered, Pulsar!NothingYet, Pulsar!StayedListed, Pulsar!PurgeAnswered,
           Pulsar!Alive,
           Pulsar!IdleWhenListed, Pulsar!RecordedTrue, Pulsar!Waiting, Pulsar!Purging,
           Pulsar!Resetting
  <2> QED
    BY <2>3, <2>5, <2>6
<1>10. CASE Pulsar!Refused(s) \/ Pulsar!Unclear(s)
  <2>1. /\ todo' = todo /\ error' = "error" /\ step' = "answered"
        /\ tally' \in [succeeded : Nat, failed : Nat, uncertain : Nat]
        /\ tally'.succeeded = Cardinality(skipped)
        /\ skipped' = skipped \/ tally'.uncertain = 1
    BY <1>3, <1>6, <1>10
       DEF Pulsar!Refused, Pulsar!Unclear, Pulsar!Stop, Pulsar!Left, Pulsar!Skip
  <2>2. /\ Cardinality(skipped') <= tally'.succeeded + tally'.uncertain
        /\ tally'.succeeded <= Cardinality(skipped')
    BY <1>5, <1>7, <2>1
  <2>3. Pulsar!TypeOK'
    BY <1>2, <1>7, <1>8, <2>1 DEF Pulsar!TypeOK, Pulsar!Tallies, Pulsar!Steps, Pulsar!Errors
  <2>4. Pulsar!PurgeAnswered'
    BY <2>1, <2>2, PulsarCardinality DEF Pulsar!PurgeAnswered
  <2>5. Pulsar!NothingYet' /\ Pulsar!StayedListed' /\ Pulsar!PurgeCounts'
        /\ Pulsar!IdleWhenListed' /\ Pulsar!RecordedTrue' /\ Pulsar!ResetAnswered'
    BY <1>2, <2>1
       DEF Pulsar!ResetAnswered, Pulsar!NothingYet, Pulsar!StayedListed, Pulsar!PurgeCounts,
           Pulsar!Alive,
           Pulsar!IdleWhenListed, Pulsar!RecordedTrue, Pulsar!Waiting, Pulsar!Resetting
  <2> QED
    BY <2>3, <2>4, <2>5
<1> QED
  BY <1>1, <1>9, <1>10

\* A purge that has nothing more to do has skipped all it listed.
LEMMA PulsarPurgeDone ==
  ASSUME Pulsar!PulsarAssumption, Pulsar!PulsarInv, Pulsar!PurgeDone
  PROVE  Pulsar!PulsarInv'
<1> USE DEF Pulsar!PulsarInv
<1>1. /\ request.op = "purge" /\ step = "skipping" /\ todo = {} /\ step' = "answered"
      /\ UNCHANGED <<subs, backlog, consumers, stayed, request, attempt, listing, todo,
                     units, tally, error, skipped, late, outcome>>
  BY DEF Pulsar!PurgeDone, Pulsar!Purging, Pulsar!topic
<1>2. /\ tally.succeeded = Cardinality(skipped) /\ tally.uncertain = 0
      /\ skipped = listing.subs
      /\ listing.known => stayed \subseteq listing.subs
  BY <1>1, PulsarCardinality DEF Pulsar!PurgeCounts, Pulsar!StayedListed, Pulsar!Purging
<1>3. Cardinality(skipped) \in Nat
  <2>1. skipped \subseteq Subscriptions /\ IsFiniteSet(Subscriptions)
    BY PulsarCardinality DEF Pulsar!PulsarAssumption, Pulsar!TypeOK
  <2> QED
    BY <2>1, FS_Subset, FS_CardinalityType
<1>4. Pulsar!TypeOK'
  BY <1>1 DEF Pulsar!TypeOK, Pulsar!Steps
<1>5. Pulsar!PurgeAnswered'
  <2>1. /\ Cardinality(skipped) <= tally.succeeded + tally.uncertain
        /\ tally.succeeded <= Cardinality(skipped)
    BY <1>2, <1>3
  <2>2. /\ Cardinality(skipped') <= tally'.succeeded + tally'.uncertain
        /\ tally'.succeeded <= Cardinality(skipped')
        /\ listing'.known => stayed' \subseteq skipped'
    BY <1>1, <1>2, <2>1
  <2> QED
    BY <2>2, PulsarCardinality DEF Pulsar!PurgeAnswered
<1>6. Pulsar!NothingYet' /\ Pulsar!StayedListed' /\ Pulsar!PurgeCounts'
      /\ Pulsar!IdleWhenListed' /\ Pulsar!RecordedTrue' /\ Pulsar!ResetAnswered'
  BY <1>1
     DEF Pulsar!ResetAnswered, Pulsar!NothingYet, Pulsar!StayedListed, Pulsar!PurgeCounts,
         Pulsar!Alive,
         Pulsar!IdleWhenListed, Pulsar!RecordedTrue, Pulsar!Waiting, Pulsar!Resetting
<1> QED
  BY <1>4, <1>5, <1>6

\* A reset skips its subscription, or nobody knows.
LEMMA PulsarResetSkips ==
  ASSUME Pulsar!PulsarInv, Pulsar!ResetSkips
  PROVE  Pulsar!PulsarInv'
<1> USE DEF Pulsar!PulsarInv
<1>1. /\ request.op = "reset" /\ step = "skipping" /\ step' = "answered"
      /\ units' \in {0, 1} /\ error' \in {"none", "error"}
      /\ UNCHANGED <<subs, consumers, stayed, late, request, attempt, listing, todo,
                     tally, outcome>>
      /\ \/ backlog' = [backlog EXCEPT ![request.sub] = 0]
            /\ skipped' = skipped \cup {request.sub} /\ request.sub \in subs
         \/ backlog' = backlog /\ skipped' = skipped
  BY DEF Pulsar!ResetSkips, Pulsar!Resetting, Pulsar!Skip, Pulsar!Left, Pulsar!topic,
         Pulsar!TypeOK, Pulsar!Errors
<1>2. Pulsar!TypeOK'
  BY <1>1 DEF Pulsar!TypeOK, Pulsar!Steps, Pulsar!Errors
<1>3. Pulsar!NothingYet' /\ Pulsar!StayedListed' /\ Pulsar!PurgeCounts'
      /\ Pulsar!IdleWhenListed' /\ Pulsar!RecordedTrue' /\ Pulsar!PurgeAnswered'
  BY <1>1
     DEF Pulsar!NothingYet, Pulsar!StayedListed, Pulsar!PurgeCounts, Pulsar!Alive,
         Pulsar!IdleWhenListed, Pulsar!RecordedTrue, Pulsar!Waiting, Pulsar!Resetting,
         Pulsar!Purging, Pulsar!PurgeAnswered
<1>4. Pulsar!ResetAnswered'
  <2>1. error' = "none" => skipped' = skipped \cup {request.sub} /\ units' = 1
    BY DEF Pulsar!ResetSkips, Pulsar!Skip
  <2>2. skipped = {} /\ request' = request
    BY <1>1 DEF Pulsar!NothingYet, Pulsar!Resetting, Pulsar!Alive
  <2> QED
    BY <2>1, <2>2 DEF Pulsar!ResetAnswered
<1> QED
  BY <1>2, <1>3, <1>4

\* The tally an outcome is made of, and what it says of the skips of a purge.
LEMMA PulsarFinalTally ==
  ASSUME Pulsar!PulsarAssumption, Pulsar!PulsarInv, step = "answered"
  PROVE  /\ Pulsar!FinalTally \in Pulsar!Tallies
         /\ Pulsar!Purging =>
              /\ Cardinality(skipped) <= Pulsar!FinalTally.succeeded
                                          + Pulsar!FinalTally.uncertain
              /\ Pulsar!FinalTally.succeeded
                   <= Cardinality(skipped) + (IF Pulsar!Count(tally) = 0 THEN 1 ELSE 0)
         /\ Pulsar!Resetting =>
              /\ Pulsar!FinalTally.succeeded <= Cardinality(skipped)
              /\ Pulsar!FinalTally.failed = 0 =>
                   Cardinality(skipped) <= Pulsar!FinalTally.succeeded
                                            + Pulsar!FinalTally.uncertain
<1> USE DEF Pulsar!PulsarInv
<1>1. /\ tally \in [succeeded : Nat, failed : Nat, uncertain : Nat] /\ units \in {0, 1}
  BY DEF Pulsar!TypeOK, Pulsar!Tallies
<1>2. Pulsar!Purging => /\ Cardinality(skipped) <= tally.succeeded + tally.uncertain
                        /\ tally.succeeded <= Cardinality(skipped)
  BY PulsarCardinality DEF Pulsar!PurgeAnswered
<1>3. Cardinality(skipped) \in Nat
  <2>1. skipped \subseteq Subscriptions /\ IsFiniteSet(Subscriptions)
    BY PulsarCardinality DEF Pulsar!PulsarAssumption, Pulsar!TypeOK
  <2> QED
    BY <2>1, FS_Subset, FS_CardinalityType
<1>4. Pulsar!Count(tally) = tally.succeeded + tally.failed + tally.uncertain
  BY DEF Pulsar!Count
<1>5. CASE Pulsar!Count(tally) > 0
  <2>1. Pulsar!FinalTally = tally
    BY <1>5 DEF Pulsar!FinalTally
  <2>2. ~Pulsar!Resetting
    BY <1>4, <1>5, PulsarZero DEF Pulsar!NothingYet
  <2> QED
    BY <1>1, <1>2, <1>3, <1>5, <2>1, <2>2 DEF Pulsar!Tallies
<1>6. CASE ~(Pulsar!Count(tally) > 0)
  <2>1. tally.succeeded = 0 /\ tally.failed = 0 /\ tally.uncertain = 0
    BY <1>1, <1>4, <1>6
  <2>2. /\ Pulsar!FinalTally \in [succeeded : {0, 1}, failed : {0, 1}, uncertain : {0, 1}]
    BY <1>1, <1>6 DEF Pulsar!FinalTally, Pulsar!Zero
  <2>3. Pulsar!FinalTally \in Pulsar!Tallies
    BY <2>2 DEF Pulsar!Tallies
  <2>4. /\ Pulsar!FinalTally.succeeded \in {0, 1} /\ Pulsar!FinalTally.uncertain \in {0, 1}
    BY <2>2
  <2>5. Pulsar!Count(tally) = 0
    BY <1>4, <2>1
  <2>6. Pulsar!Purging => Cardinality(skipped) = 0
    BY <1>2, <1>3, <2>1
  <2>7. ASSUME Pulsar!Resetting
        PROVE  /\ Pulsar!FinalTally.succeeded <= Cardinality(skipped)
               /\ Pulsar!FinalTally.failed = 0 =>
                    Cardinality(skipped) <= Pulsar!FinalTally.succeeded
                                             + Pulsar!FinalTally.uncertain
    <3>1. Pulsar!FinalTally = IF error = "none" THEN [Pulsar!Zero EXCEPT !.succeeded = units]
                                                ELSE [Pulsar!Zero EXCEPT !.failed = 1]
      BY <1>6, <2>7 DEF Pulsar!FinalTally, Pulsar!Resetting, Pulsar!Purging
    <3>2. CASE error = "none"
      <4>1. Cardinality(skipped) = 1 /\ units = 1
        BY <2>7, <3>2, FS_Singleton DEF Pulsar!ResetAnswered
      <4>2. Pulsar!FinalTally = [succeeded |-> 1, failed |-> 0, uncertain |-> 0]
        BY <3>1, <3>2, <4>1 DEF Pulsar!Zero
      <4> QED
        BY <4>1, <4>2
    <3>3. CASE error # "none"
      <4>1. Pulsar!FinalTally = [succeeded |-> 0, failed |-> 1, uncertain |-> 0]
        BY <3>1, <3>3 DEF Pulsar!Zero
      <4> QED
        BY <1>3, <4>1
    <3> QED
      BY <3>2, <3>3
  <2> QED
    BY <2>3, <2>4, <2>5, <2>6, <2>7
<1> QED
  BY <1>5, <1>6

\* The outcome is recorded.
LEMMA PulsarFinish ==
  ASSUME Pulsar!PulsarAssumption, Pulsar!PulsarInv, Pulsar!Finish
  PROVE  Pulsar!PulsarInv'
<1> USE DEF Pulsar!PulsarInv
<1> DEFINE t == Pulsar!FinalTally
<1>1. /\ step = "answered" /\ step' = "ended"
      /\ outcome' = Pulsar!BatchOutcome(Pulsar!Count(t), t, error)
      /\ UNCHANGED <<subs, backlog, consumers, stayed, request, attempt, listing, todo,
                     units, tally, error, skipped, late>>
  BY DEF Pulsar!Finish, Pulsar!topic
<1>2. t \in Pulsar!Tallies /\ error \in Pulsar!Errors
  BY <1>1, PulsarFinalTally DEF Pulsar!TypeOK
<1>3. Pulsar!Purging =>
         /\ Cardinality(skipped) <= t.succeeded + t.uncertain
         /\ t.succeeded <= Cardinality(skipped) + (IF Pulsar!Count(tally) = 0 THEN 1 ELSE 0)
  BY <1>1, PulsarFinalTally
<1>4. Pulsar!Resetting =>
         /\ t.succeeded <= Cardinality(skipped)
         /\ t.failed = 0 => Cardinality(skipped) <= t.succeeded + t.uncertain
  BY <1>1, PulsarFinalTally
<1> HIDE DEF t
<1>5. /\ outcome' \in Pulsar!Outcome
      /\ outcome'.succeeded = t.succeeded /\ outcome'.uncertain = t.uncertain
      /\ outcome'.failed = t.failed
      /\ outcome'.status = "success" => error = "none"
  BY <1>1, <1>2, PulsarOutcomes
<1>6. Pulsar!TypeOK'
  BY <1>1, <1>5 DEF Pulsar!TypeOK, Pulsar!Steps
<1>7. Pulsar!RecordedTrue'
  <2>1. Pulsar!ChangesCounted'
    BY <1>1, <1>3, <1>4, <1>5, PulsarCardinality
       DEF Pulsar!ChangesCounted, Pulsar!Purging, Pulsar!Resetting, Pulsar!Count
  <2> QED
    BY <1>1, <1>5, <2>1 DEF Pulsar!RecordedTrue
<1>8. Pulsar!NothingYet' /\ Pulsar!StayedListed' /\ Pulsar!PurgeCounts'
      /\ Pulsar!IdleWhenListed' /\ Pulsar!PurgeAnswered' /\ Pulsar!ResetAnswered'
  BY <1>1
     DEF Pulsar!ResetAnswered, Pulsar!NothingYet, Pulsar!StayedListed,
         Pulsar!PurgeCounts, Pulsar!Alive, Pulsar!IdleWhenListed, Pulsar!Waiting,
         Pulsar!Resetting, Pulsar!Purging,
         Pulsar!PurgeAnswered
<1> QED
  BY <1>6, <1>7, <1>8

LEMMA PulsarSteps ==
  ASSUME Pulsar!PulsarAssumption
  PROVE  Pulsar!PulsarInv /\ [Pulsar!Next]_(Pulsar!pulsarVars) => Pulsar!PulsarInv'
<1> SUFFICES ASSUME Pulsar!PulsarInv, [Pulsar!Next]_(Pulsar!pulsarVars)
             PROVE  Pulsar!PulsarInv'
  OBVIOUS
<1>0. Pulsar!TypeOK
  BY DEF Pulsar!PulsarInv
<1>1. CASE Pulsar!Publish
  <2>1. backlog' \in [Subscriptions -> Nat]
    BY <1>0, <1>1 DEF Pulsar!Publish, Pulsar!TypeOK
  <2> QED
    BY <1>0, <1>1, <2>1, PulsarTopicSteps DEF Pulsar!Publish, Pulsar!TypeOK
<1>2. ASSUME NEW s \in Subscriptions, Pulsar!Acknowledge(s) PROVE Pulsar!PulsarInv'
  <2>1. backlog' \in [Subscriptions -> Nat]
    BY <1>0, <1>2 DEF Pulsar!Acknowledge, Pulsar!TypeOK
  <2> QED
    BY <1>0, <1>2, <2>1, PulsarTopicSteps DEF Pulsar!Acknowledge, Pulsar!TypeOK
<1>3. ASSUME NEW s \in Subscriptions, Pulsar!Connect(s) PROVE Pulsar!PulsarInv'
  BY <1>0, <1>3, PulsarTopicSteps DEF Pulsar!Connect, Pulsar!TypeOK
<1>4. ASSUME NEW s \in Subscriptions, Pulsar!Disconnect(s) PROVE Pulsar!PulsarInv'
  BY <1>0, <1>4, PulsarTopicSteps DEF Pulsar!Disconnect, Pulsar!TypeOK
<1>5. ASSUME NEW s \in Subscriptions, Pulsar!Subscribe(s) PROVE Pulsar!PulsarInv'
  BY <1>0, <1>5, PulsarTopicSteps DEF Pulsar!Subscribe, Pulsar!TypeOK
<1>6. ASSUME NEW s \in Subscriptions, Pulsar!Unsubscribe(s) PROVE Pulsar!PulsarInv'
  BY <1>0, <1>6, PulsarTopicSteps DEF Pulsar!Unsubscribe, Pulsar!TypeOK
<1>7. CASE Pulsar!StatsFail
  BY <1>7, PulsarStatsFail
<1>8. CASE Pulsar!StatsArrive
  BY <1>8, PulsarStats DEF Pulsar!StatsArrive
<1>9. CASE Pulsar!AskAgain
  BY <1>9, PulsarAskAgain
<1>10. CASE Pulsar!GiveUp
  BY <1>10, PulsarStats DEF Pulsar!GiveUp, Pulsar!Unusable
<1>11. CASE Pulsar!PurgeNext \/ Pulsar!PurgeDone
  BY <1>11, PulsarPurgeNext, PulsarPurgeDone
<1>12. CASE Pulsar!ResetSkips
  BY <1>12, PulsarResetSkips
<1>13. CASE Pulsar!Finish
  BY <1>13, PulsarFinish
<1>14. CASE UNCHANGED Pulsar!pulsarVars
  BY <1>14
     DEF Pulsar!PulsarInv, Pulsar!TypeOK, Pulsar!NothingYet, Pulsar!PurgeCounts,
         Pulsar!StayedListed, Pulsar!PurgeAnswered, Pulsar!IdleWhenListed,
         Pulsar!RecordedTrue, Pulsar!ResetAnswered, Pulsar!ChangesCounted,
         Pulsar!Waiting, Pulsar!Alive, Pulsar!Purging, Pulsar!Resetting,
         Pulsar!pulsarVars, Pulsar!topic
<1> QED
  BY <1>1, <1>2, <1>3, <1>4, <1>5, <1>6, <1>7, <1>8, <1>9, <1>10, <1>11, <1>12, <1>13,
     <1>14 DEF Pulsar!Next

\* A purge that says success has skipped what it listed.
LEMMA PulsarSafe ==
  ASSUME Pulsar!PulsarInv
  PROVE  Pulsar!TypeOK /\ Pulsar!ChangesCounted /\ Pulsar!ListedMeansPurged
BY DEF Pulsar!PulsarInv, Pulsar!RecordedTrue, Pulsar!PurgeAnswered,
       Pulsar!ListedMeansPurged, Pulsar!ChangesCounted

\* A reset that skips the backlog of a subscription with consumers raced them.
LEMMA PulsarBusy ==
  ASSUME Pulsar!PulsarInv, [Pulsar!Next]_(Pulsar!pulsarVars)
  PROVE  Pulsar!BusyStep
<1> SUFFICES ASSUME NEW s \in Subscriptions, Pulsar!Resetting, skipped' # skipped,
                    s \in skipped' \cap consumers
             PROVE  s \in late \/ ~listing.known
  BY DEF Pulsar!BusyStep
<1>1. Pulsar!ResetSkips
  BY DEF Pulsar!Next, Pulsar!pulsarVars, Pulsar!Publish, Pulsar!Acknowledge, Pulsar!Connect,
         Pulsar!Disconnect, Pulsar!Subscribe, Pulsar!Unsubscribe, Pulsar!StatsFail,
         Pulsar!StatsArrive, Pulsar!AskAgain, Pulsar!GiveUp, Pulsar!PurgeNext,
         Pulsar!PurgeDone, Pulsar!Finish, Pulsar!Continue, Pulsar!Command,
         Pulsar!Purging, Pulsar!Resetting
<1>2. skipped = {} /\ step = "skipping"
  BY <1>1 DEF Pulsar!PulsarInv, Pulsar!NothingYet, Pulsar!ResetSkips, Pulsar!Alive
<1>3. s = request.sub
  BY <1>1, <1>2 DEF Pulsar!ResetSkips, Pulsar!Skip, Pulsar!Left
<1> QED
  BY <1>2, <1>3 DEF Pulsar!PulsarInv, Pulsar!IdleWhenListed

-----------------------------------------------------------------------------
(***************************************************************************)
(* Kafka: what the answers say of the partitions the cluster changed.       *)
(***************************************************************************)
LEMMA KafkaCardinality ==
  /\ \A S : /\ Kafka!Cardinality(S) = Cardinality(S)
            /\ Kafka!IsFiniteSet(S) <=> IsFiniteSet(S)
  /\ \A S, f : Kafka!SumFunctionOnSet(f, S) = SumFunctionOnSet(f, S)
BY DEF Kafka!Cardinality, Cardinality, Kafka!IsFiniteSet, IsFiniteSet,
       SumFunctionOnSet, Kafka!SumFunctionOnSet, FoldFunctionOnSet,
       Kafka!FoldFunctionOnSet, MapThenFoldSet, Kafka!MapThenFoldSet

\* The outcome of a command has the counts of its tally.
LEMMA KafkaOutcomes ==
  ASSUME NEW n \in Int, NEW t \in Kafka!Tallies, NEW e \in Kafka!Errors
  PROVE  LET o == Kafka!BatchOutcome(n, t, e) IN
         /\ o \in Kafka!Outcome
         /\ o.succeeded = t.succeeded /\ o.uncertain = t.uncertain
         /\ o.status = "success" => e = "none"
<1>1. /\ t.succeeded \in Nat /\ t.failed \in Nat /\ t.uncertain \in Nat
  BY DEF Kafka!Tallies
<1>2. Kafka!NotNegative(n - Kafka!Count(t)) \in Nat
  BY <1>1 DEF Kafka!NotNegative, Kafka!Count
<1>3. Kafka!BatchStatus(t, e) \in {"success", "failed", "partial"}
      /\ (Kafka!BatchStatus(t, e) = "success" => e = "none")
  BY DEF Kafka!BatchStatus
<1> QED
  BY <1>1, <1>2, <1>3
     DEF Kafka!BatchOutcome, Kafka!Record, Kafka!Outcome, Kafka!Compensations, Kafka!Errors

LEMMA KafkaZero ==
  /\ Kafka!Zero \in Kafka!Tallies /\ Kafka!Zero.succeeded = 0
  /\ Kafka!Zero.failed = 0 /\ Kafka!Zero.uncertain = 0
  /\ Kafka!NoOutcome \in Kafka!Outcome
BY DEF Kafka!Zero, Kafka!Tallies, Kafka!NoOutcome, Kafka!Outcome, Kafka!Record,
       Kafka!Errors, Kafka!Compensations

\* Each partition is answered once, and what the cluster changed is among those
\* it says so of and those it says nothing of.
LEMMA KafkaAnswers ==
  ASSUME IsFiniteSet(Partitions), NEW said \in [Partitions -> Kafka!Answers],
         NEW landed \in Kafka!Effects(said)
  PROVE  LET t == Kafka!Outcomes(said) IN
         /\ t \in Kafka!Tallies /\ Kafka!Count(t) = Cardinality(Partitions)
         /\ t.succeeded <= Cardinality(landed)
         /\ Cardinality(landed) <= t.succeeded + t.uncertain
         /\ Kafka!ErrorOf(t) \in Kafka!Errors
         /\ Kafka!ErrorOf(t) = "none" =>
              landed = Partitions /\ Kafka!Answered(said, "ok") = Partitions
<1> DEFINE A == Kafka!Answered(said, "ok")
           B == Kafka!Answered(said, "refused")
           C == Kafka!Answered(said, "missing")
           t == Kafka!Outcomes(said)
<1>1. /\ A \subseteq Partitions /\ B \subseteq Partitions /\ C \subseteq Partitions
      /\ Partitions = (A \cup C) \cup B
      /\ A \cap C = {} /\ (A \cup C) \cap B = {}
  BY DEF Kafka!Answered, Kafka!Answers
<1>2. /\ landed \subseteq Partitions /\ A \subseteq landed /\ landed \cap B = {}
  BY DEF Kafka!Effects
<1>3. t = [succeeded |-> Cardinality(A), failed |-> Cardinality(B),
           uncertain |-> Cardinality(C)]
  BY KafkaCardinality DEF Kafka!Outcomes
<1> HIDE DEF A, B, C, t
<1>4. /\ IsFiniteSet(A) /\ IsFiniteSet(B) /\ IsFiniteSet(C) /\ IsFiniteSet(landed)
      /\ IsFiniteSet(A \cup C)
  BY <1>1, <1>2, FS_Subset
<1>5. /\ Cardinality(A) \in Nat /\ Cardinality(B) \in Nat /\ Cardinality(C) \in Nat
      /\ Cardinality(landed) \in Nat
  BY <1>4, FS_CardinalityType
<1>6. Cardinality(A \cup C) = Cardinality(A) + Cardinality(C)
  BY <1>1, <1>4, DisjointUnion
<1>7. Cardinality(Partitions) = Cardinality(A \cup C) + Cardinality(B)
  <2>1. Cardinality((A \cup C) \cup B) = Cardinality(A \cup C) + Cardinality(B)
    BY <1>1, <1>4, DisjointUnion
  <2> QED
    BY <1>1, <2>1, Zenon
<1>8. Cardinality(A) <= Cardinality(landed)
  BY <1>2, <1>4, FS_Subset
<1>9. Cardinality(landed) <= Cardinality(A \cup C)
  <2>1. landed \subseteq A \cup C
    BY <1>1, <1>2
  <2> QED
    BY <1>4, <2>1, FS_Subset
<1>10. /\ t \in Kafka!Tallies /\ Kafka!Count(t) = Cardinality(Partitions)
       /\ t.succeeded = Cardinality(A) /\ t.failed = Cardinality(B)
       /\ t.uncertain = Cardinality(C)
  BY <1>3, <1>5, <1>6, <1>7 DEF Kafka!Tallies, Kafka!Count
<1>11. ASSUME Kafka!ErrorOf(t) = "none" PROVE landed = Partitions /\ A = Partitions
  <2>1. Cardinality(B) = 0 /\ Cardinality(C) = 0
    BY <1>5, <1>10, <1>11 DEF Kafka!ErrorOf
  <2>2. B = {} /\ C = {}
    BY <1>4, <2>1, FS_EmptySet
  <2> QED
    BY <1>1, <1>2, <2>2
<1>12. Kafka!ErrorOf(t) \in Kafka!Errors
  BY DEF Kafka!ErrorOf, Kafka!Errors
<1> QED
  BY <1>5, <1>6, <1>8, <1>9, <1>10, <1>11, <1>12 DEF t, A

LEMMA KafkaInit ==
  ASSUME Kafka!KafkaAssumption
  PROVE  Kafka!Init => Kafka!KafkaInv
<1> SUFFICES ASSUME Kafka!Init PROVE Kafka!KafkaInv
  OBVIOUS
<1> USE DEF Kafka!Init
<1>1. 0 .. MaxOffset \subseteq Nat
  BY DEF Kafka!KafkaAssumption
<1>2. Kafka!TypeOK
  BY <1>1, KafkaZero
     DEF Kafka!TypeOK, Kafka!Steps, Kafka!Reading, Kafka!Errors, Kafka!None
<1>3. Kafka!NothingYet /\ Kafka!StartListed /\ Kafka!AnswerTrue /\ Kafka!AllChanged
      /\ Kafka!PlanTrue /\ Kafka!RecordedTrue
  BY DEF Kafka!PlanTrue,
         Kafka!NothingYet, Kafka!StartListed, Kafka!AnswerTrue, Kafka!AllChanged,
         Kafka!RecordedTrue, Kafka!Alive, Kafka!Steps, Kafka!Reading
<1> QED
  BY <1>2, <1>3 DEF Kafka!KafkaInv

\* The cluster lives on: the start of a log never moves back.
LEMMA KafkaClusterSteps ==
  ASSUME Kafka!KafkaInv, Kafka!Alive, UNCHANGED Kafka!Command,
         first' \in [Partitions -> Nat], last' \in [Partitions -> Nat],
         committed' \in [Partitions -> {Kafka!None} \cup Nat], members' \in BOOLEAN,
         \A p \in Partitions : first[p] <= first'[p]
  PROVE  Kafka!KafkaInv'
<1> USE DEF Kafka!KafkaInv, Kafka!Command, Kafka!ghosts, Kafka!wanted
<1>1. Kafka!TypeOK'
  BY DEF Kafka!TypeOK
<1>2. Kafka!NothingYet'
  BY DEF Kafka!NothingYet, Kafka!Alive
<1>3. Kafka!StartListed'
  BY DEF Kafka!StartListed, Kafka!TypeOK, Kafka!Purging
<1>4. Kafka!AnswerTrue' /\ Kafka!AllChanged' /\ Kafka!RecordedTrue'
  BY DEF Kafka!AnswerTrue, Kafka!AllChanged, Kafka!RecordedTrue, Kafka!Alive
<1>5. Kafka!PlanTrue'
  BY DEF Kafka!PlanTrue, Kafka!PlannedAt, Kafka!Alive, Kafka!Resetting
<1> QED
  BY <1>1, <1>2, <1>3, <1>4, <1>5

\* A request before the last one fails: nothing was changed.
LEMMA KafkaReadFails ==
  ASSUME Kafka!KafkaInv, Kafka!ReadFails
  PROVE  Kafka!KafkaInv'
<1> USE DEF Kafka!KafkaInv
<1>1. /\ step \in Kafka!Reading /\ step' = "answered" /\ error' = "error"
      /\ UNCHANGED <<first, last, committed, members, request, from, to, units, tally,
                     affected, goal, unlisted, done, removed, outcome>>
  BY DEF Kafka!ReadFails, Kafka!cluster, Kafka!ghosts, Kafka!wanted
<1>2. Kafka!Alive /\ step # "ended"
  BY <1>1 DEF Kafka!Alive, Kafka!Steps, Kafka!Reading
<1>3. Kafka!TypeOK'
  BY <1>1 DEF Kafka!TypeOK, Kafka!Steps, Kafka!Errors
<1>4. Kafka!NothingYet' /\ Kafka!StartListed' /\ Kafka!AnswerTrue' /\ Kafka!AllChanged'
      /\ Kafka!PlanTrue' /\ Kafka!RecordedTrue'
  BY <1>1, <1>2
     DEF Kafka!PlanTrue,
         Kafka!NothingYet, Kafka!StartListed, Kafka!AnswerTrue, Kafka!AllChanged,
         Kafka!RecordedTrue, Kafka!Alive
<1> QED
  BY <1>3, <1>4

\* The requests that only read: what is asked for next is of the right type.
LEMMA KafkaReadSteps ==
  ASSUME Kafka!KafkaInv, Kafka!Alive, UNCHANGED Kafka!Unwritten,
         step' \in Kafka!Reading \cup {"planned"},
         from' \in [Partitions -> Nat], to' \in [Partitions -> Int],
         step' = "planned" => to' \in [Partitions -> Nat],
         goal' \in [Partitions -> Nat], unlisted' \subseteq Partitions,
         Kafka!Resetting /\ step' = "planned" =>
           to' = [p \in Partitions |-> IF p \in unlisted' THEN from'[p] ELSE goal'[p]],
         Kafka!Purging /\ step' \in {"started", "planned"} =>
           \A p \in Partitions : from'[p] <= first[p]
  PROVE  Kafka!KafkaInv'
<1> USE DEF Kafka!KafkaInv, Kafka!Unwritten, Kafka!cluster, Kafka!ghosts
<1>1. step' # "answered" /\ step' # "ended" /\ step' \in Kafka!Steps
  BY DEF Kafka!Reading, Kafka!Steps
<1>2. Kafka!TypeOK'
  BY <1>1 DEF Kafka!TypeOK
<1>3. Kafka!NothingYet'
  <2>1. step # "ended"
    BY DEF Kafka!Alive
  <2> QED
    BY <2>1 DEF Kafka!NothingYet
<1>4. Kafka!StartListed'
  BY DEF Kafka!StartListed, Kafka!Purging
<1>5. Kafka!AnswerTrue' /\ Kafka!AllChanged' /\ Kafka!RecordedTrue'
  BY <1>1 DEF Kafka!AnswerTrue, Kafka!AllChanged, Kafka!RecordedTrue, Kafka!Alive
<1>6. Kafka!PlanTrue'
  BY <1>1 DEF Kafka!PlanTrue, Kafka!PlannedAt, Kafka!Alive, Kafka!Resetting
<1> QED
  BY <1>2, <1>3, <1>4, <1>5, <1>6

LEMMA KafkaReading == 
  ASSUME Kafka!KafkaAssumption, Kafka!KafkaInv,
         \/ Kafka!DescribeGroup \/ Kafka!FetchCommitted \/ Kafka!FetchAgain
         \/ Kafka!ListTargets \/ Kafka!ListStart \/ Kafka!ListEnd
  PROVE  Kafka!KafkaInv'
<1> USE DEF Kafka!Reading, Kafka!Alive, Kafka!Steps, Kafka!Resetting, Kafka!Purging,
        Kafka!wanted
<1>0. /\ Kafka!TypeOK /\ Kafka!StartListed
      /\ from \in [Partitions -> Nat] /\ to \in [Partitions -> Int]
      /\ first \in [Partitions -> Nat] /\ last \in [Partitions -> Nat]
      /\ committed \in [Partitions -> {Kafka!None} \cup Nat]
      /\ goal \in [Partitions -> Nat] /\ unlisted \subseteq Partitions
  BY DEF Kafka!KafkaInv, Kafka!TypeOK
<1>1. CASE Kafka!DescribeGroup
  BY <1>0, <1>1, KafkaReadSteps DEF Kafka!DescribeGroup
<1>2. CASE Kafka!FetchCommitted
  <2>1. from' \in [Partitions -> Nat]
    BY <1>0, <1>2 DEF Kafka!FetchCommitted, Kafka!None
  <2> QED
    BY <1>0, <1>2, <2>1, KafkaReadSteps DEF Kafka!FetchCommitted
<1>3. CASE Kafka!FetchAgain
  <2>1. to' \in [Partitions -> Int]
    BY <1>0, <1>3 DEF Kafka!FetchAgain, Kafka!None
  <2> QED
    BY <1>0, <1>3, <2>1, KafkaReadSteps DEF Kafka!FetchAgain
<1>4. CASE Kafka!ListTargets
  <2>1. /\ request \in [op : {"reset"}, to : Kafka!Positions, n : Int]
        /\ request.to = "offset" => request.n >= 0
    BY <1>0, <1>4 DEF Kafka!ListTargets, Kafka!TypeOK, Kafka!KafkaAssumption
  <2>2. /\ goal' \in Kafka!Targets /\ unlisted' \subseteq Partitions
        /\ to' = [p \in Partitions |-> IF p \in unlisted' THEN from[p] ELSE goal'[p]]
    BY <1>4 DEF Kafka!ListTargets, Kafka!PlannedAt
  <2>3. goal' \in [Partitions -> Nat]
    <3>1. CASE request.to = "earliest"
      BY <1>0, <2>2, <3>1 DEF Kafka!Targets
    <3>2. CASE request.to = "latest"
      BY <1>0, <2>2, <3>2 DEF Kafka!Targets
    <3>3. CASE request.to = "time"
      <4>1. goal' \in [Partitions -> 0 .. MaxOffset]
        BY <2>2, <3>3 DEF Kafka!Targets
      <4> QED
        BY <4>1
    <3>4. CASE request.to = "offset"
      BY <2>1, <2>2, <3>4 DEF Kafka!Targets
    <3>5. CASE request.to = "shift"
      BY <1>0, <2>1, <2>2, <3>5 DEF Kafka!Targets, Kafka!NotNegative
    <3> QED
      BY <2>1, <3>1, <3>2, <3>3, <3>4, <3>5 DEF Kafka!Positions
  <2>4. step # "answered" /\ step # "ended" /\ step \in Kafka!Steps
        /\ step' = "planned" /\ from' = from /\ request.op # "purge"
        /\ UNCHANGED Kafka!Unwritten
    BY <1>0, <1>4 DEF Kafka!ListTargets, Kafka!TypeOK
  <2>5. to' \in [Partitions -> Nat]
    BY <1>0, <2>2, <2>3
  <2> QED
    BY <1>0, <2>2, <2>3, <2>4, <2>5, KafkaReadSteps
<1>5. CASE Kafka!ListStart
  BY <1>0, <1>5, KafkaReadSteps DEF Kafka!ListStart
<1>6. CASE Kafka!ListEnd
  BY <1>0, <1>6, KafkaReadSteps DEF Kafka!ListEnd, Kafka!StartListed
<1> QED
  BY <1>1, <1>2, <1>3, <1>4, <1>5, <1>6

\* The last request was answered, and what changed fits the answer.
LEMMA KafkaAnswered ==
  ASSUME Kafka!KafkaAssumption, Kafka!KafkaInv, step = "planned",
         NEW t \in Kafka!Tallies, NEW e \in Kafka!Errors,
         Kafka!Answer(t, e), done' \subseteq Partitions,
         Kafka!Count(t) = Cardinality(Partitions),
         t.succeeded <= Cardinality(done'),
         Cardinality(done') <= t.succeeded + t.uncertain,
         UNCHANGED <<last, members, request, from, to, goal, unlisted, outcome>>,
         first' \in [Partitions -> Nat],
         committed' \in [Partitions -> {Kafka!None} \cup Nat],
         e = "none" =>
           /\ \A p \in Partitions : IF Kafka!Resetting THEN committed'[p] = to[p]
                                    ELSE first'[p] >= to[p]
           /\ Kafka!Purging => SumFunctionOnSet(removed', Partitions) <= affected'
  PROVE  Kafka!KafkaInv'
<1> USE DEF Kafka!KafkaInv
<1>1. /\ units' = Cardinality(Partitions) /\ tally' = t /\ error' = e
      /\ step' = "answered"
  BY KafkaCardinality DEF Kafka!Answer
<1>2. Kafka!TypeOK'
  BY <1>1, KafkaCardinality DEF Kafka!TypeOK, Kafka!Steps
<1>3. Kafka!NothingYet' /\ Kafka!StartListed' /\ Kafka!RecordedTrue'
  BY <1>1 DEF Kafka!NothingYet, Kafka!StartListed, Kafka!RecordedTrue, Kafka!Alive
<1>4. Kafka!AnswerTrue'
  BY <1>1, KafkaCardinality DEF Kafka!AnswerTrue, Kafka!Count
<1>5. Kafka!AllChanged'
  <2>1. Kafka!Resetting' = Kafka!Resetting /\ Kafka!Purging' = Kafka!Purging
    BY DEF Kafka!Resetting, Kafka!Purging
  <2> QED
    BY <1>1, <2>1, KafkaCardinality DEF Kafka!AllChanged
<1>6. Kafka!PlanTrue'
  BY <1>1 DEF Kafka!PlanTrue, Kafka!PlannedAt, Kafka!Resetting
<1> QED
  BY <1>2, <1>3, <1>4, <1>5, <1>6

\* An offset commit: partition by partition, or nobody knows.
LEMMA KafkaCommits ==
  ASSUME Kafka!KafkaAssumption, Kafka!KafkaInv, Kafka!CommitOffsets \/ Kafka!CommitLost
  PROVE  Kafka!KafkaInv'
<1>0. /\ Kafka!TypeOK /\ step = "planned" /\ Kafka!Resetting /\ ~Kafka!Purging
      /\ first \in [Partitions -> Nat] /\ to \in [Partitions -> Nat]
      /\ committed \in [Partitions -> {Kafka!None} \cup Nat]
      /\ IsFiniteSet(Partitions)
  BY KafkaCardinality
     DEF Kafka!CommitOffsets, Kafka!CommitLost, Kafka!KafkaInv, Kafka!TypeOK,
         Kafka!Resetting, Kafka!Purging, Kafka!KafkaAssumption
<1>1. UNCHANGED <<first, last, members, request, from, to, goal, unlisted, affected,
                  removed, outcome>>
  BY DEF Kafka!CommitOffsets, Kafka!CommitLost, Kafka!wanted
<1>2. ASSUME NEW landed \in SUBSET Partitions, Kafka!CommitTo(landed)
      PROVE  /\ done' = landed
             /\ committed' \in [Partitions -> {Kafka!None} \cup Nat]
             /\ landed = Partitions => \A p \in Partitions : committed'[p] = to[p]
  BY <1>0, <1>2 DEF Kafka!CommitTo
<1>3. CASE Kafka!CommitOffsets
  <2>1. PICK said \in [Partitions -> Kafka!Answers] : \E landed \in Kafka!Effects(said) :
           /\ Kafka!CommitTo(landed)
           /\ Kafka!Answer(Kafka!Outcomes(said), Kafka!ErrorOf(Kafka!Outcomes(said)))
    BY <1>3 DEF Kafka!CommitOffsets
  <2>2. PICK landed \in Kafka!Effects(said) :
           /\ Kafka!CommitTo(landed)
           /\ Kafka!Answer(Kafka!Outcomes(said), Kafka!ErrorOf(Kafka!Outcomes(said)))
    BY <2>1
  <2> DEFINE t == Kafka!Outcomes(said)
             e == Kafka!ErrorOf(t)
  <2>3. landed \in SUBSET Partitions
    BY DEF Kafka!Effects
  <2>4. /\ t \in Kafka!Tallies /\ Kafka!Count(t) = Cardinality(Partitions)
        /\ t.succeeded <= Cardinality(landed)
        /\ Cardinality(landed) <= t.succeeded + t.uncertain
        /\ e \in Kafka!Errors /\ (e = "none" => landed = Partitions)
    BY <1>0, KafkaAnswers
  <2>5. /\ done' = landed
        /\ committed' \in [Partitions -> {Kafka!None} \cup Nat]
        /\ landed = Partitions => \A p \in Partitions : committed'[p] = to[p]
    BY <1>2, <2>2, <2>3
  <2>6. Kafka!Answer(t, e)
    BY <2>2
  <2> HIDE DEF t, e
  <2> QED
    BY <1>0, <1>1, <2>3, <2>4, <2>5, <2>6, KafkaAnswered
<1>4. CASE Kafka!CommitLost
  <2>1. PICK landed \in SUBSET Partitions : Kafka!CommitTo(landed)
    BY <1>4 DEF Kafka!CommitLost
  <2> DEFINE t == [Kafka!Zero EXCEPT !.uncertain = Cardinality(Partitions)]
  <2>2. /\ Cardinality(Partitions) \in Nat /\ Cardinality(landed) \in Nat
        /\ Cardinality(landed) <= Cardinality(Partitions)
    BY <1>0, FS_Subset, FS_CardinalityType
  <2>3. t = [succeeded |-> 0, failed |-> 0, uncertain |-> Cardinality(Partitions)]
    BY DEF Kafka!Zero
  <2>4. Kafka!Answer(t, "error")
    BY <1>4, KafkaCardinality DEF Kafka!CommitLost
  <2> HIDE DEF t
  <2>5. /\ t \in Kafka!Tallies /\ Kafka!Count(t) = Cardinality(Partitions)
        /\ t.succeeded = 0 /\ t.uncertain = Cardinality(Partitions)
    BY <2>2, <2>3 DEF Kafka!Tallies, Kafka!Count
  <2>6. "error" \in Kafka!Errors /\ "error" # "none"
    BY DEF Kafka!Errors
  <2>7. done' = landed /\ committed' \in [Partitions -> {Kafka!None} \cup Nat]
    BY <1>2, <2>1
  <2>8. t.succeeded <= Cardinality(done') /\ Cardinality(done') <= t.succeeded + t.uncertain
    BY <2>2, <2>5, <2>7
  <2> QED
    BY <1>0, <1>1, <2>4, <2>5, <2>6, <2>7, <2>8, KafkaAnswered
<1> QED
  BY <1>3, <1>4

\* A deletion of records: what it removed lies between the start that was listed
\* and the low watermark.
LEMMA KafkaDeletes ==
  ASSUME Kafka!KafkaAssumption, Kafka!KafkaInv, Kafka!DeleteRecords
  PROVE  Kafka!KafkaInv'
<1>0. /\ step = "planned" /\ Kafka!Purging /\ ~Kafka!Resetting
      /\ first \in [Partitions -> Nat] /\ from \in [Partitions -> Nat]
      /\ to \in [Partitions -> Nat] /\ committed \in [Partitions -> {Kafka!None} \cup Nat]
      /\ \A p \in Partitions : from[p] <= first[p]
      /\ IsFiniteSet(Partitions)
  BY KafkaCardinality
     DEF Kafka!DeleteRecords, Kafka!KafkaInv, Kafka!TypeOK, Kafka!StartListed,
         Kafka!Resetting, Kafka!Purging, Kafka!KafkaAssumption
<1>1. UNCHANGED <<last, committed, members, request, from, to, goal, unlisted, outcome>>
  BY DEF Kafka!DeleteRecords, Kafka!wanted
<1>2. PICK said \in [Partitions -> Kafka!Answers], lost \in BOOLEAN :
        \E landed \in Kafka!Effects(said) :
          /\ done' = landed
          /\ first' = [p \in Partitions |->
                         IF p \in landed THEN Kafka!Larger(first[p], to[p]) ELSE first[p]]
          /\ removed' = [p \in Partitions |-> first'[p] - first[p]]
          /\ affected' = Kafka!Affected(said)
          /\ Kafka!Answer(Kafka!Outcomes(said),
                          IF lost THEN "error" ELSE Kafka!ErrorOf(Kafka!Outcomes(said)))
  BY DEF Kafka!DeleteRecords
<1>3. PICK landed \in Kafka!Effects(said) :
          /\ done' = landed
          /\ first' = [p \in Partitions |->
                         IF p \in landed THEN Kafka!Larger(first[p], to[p]) ELSE first[p]]
          /\ removed' = [p \in Partitions |-> first'[p] - first[p]]
          /\ affected' = Kafka!Affected(said)
          /\ Kafka!Answer(Kafka!Outcomes(said),
                          IF lost THEN "error" ELSE Kafka!ErrorOf(Kafka!Outcomes(said)))
  BY <1>2
<1> DEFINE t == Kafka!Outcomes(said)
           e == IF lost THEN "error" ELSE Kafka!ErrorOf(t)
<1>4. /\ t \in Kafka!Tallies /\ Kafka!Count(t) = Cardinality(Partitions)
      /\ t.succeeded <= Cardinality(landed)
      /\ Cardinality(landed) <= t.succeeded + t.uncertain
      /\ e \in Kafka!Errors
      /\ e = "none" => /\ landed = Partitions
                       /\ Kafka!Answered(said, "ok") = Partitions
  BY <1>0, KafkaAnswers DEF Kafka!Errors
<1>5. /\ first' \in [Partitions -> Nat]
      /\ \A p \in Partitions : first[p] <= first'[p]
      /\ landed = Partitions => \A p \in Partitions : first'[p] >= to[p]
  BY <1>0, <1>3 DEF Kafka!Larger
<1>6. /\ Kafka!Answer(t, e) /\ done' = landed /\ landed \in SUBSET Partitions
  BY <1>3 DEF Kafka!Effects
<1> HIDE DEF t, e
<1>7. ASSUME e = "none" PROVE SumFunctionOnSet(removed', Partitions) <= affected'
  <2> DEFINE f == [p \in Partitions |-> first'[p] - first[p]]
             h == [p \in Partitions |->
                     IF first'[p] < from[p] THEN 0 ELSE first'[p] - from[p]]
  <2>1. affected' = SumFunctionOnSet(h, Partitions)
    BY <1>3, <1>4, <1>7, KafkaCardinality DEF Kafka!Affected
  <2>2. f \in [Partitions -> Nat] /\ h \in [Partitions -> Nat]
    BY <1>0, <1>5
  <2>3. \A p \in Partitions : f[p] <= h[p]
    BY <1>0, <1>5
  <2>4. removed' = f
    BY <1>3
  <2> HIDE DEF f, h
  <2> QED
    BY <1>0, <2>1, <2>2, <2>3, <2>4, SumGrows
<1> QED
  BY <1>0, <1>1, <1>4, <1>5, <1>6, <1>7, KafkaAnswered

\* The tally an outcome is made of fits what the cluster changed.
LEMMA KafkaFinish ==
  ASSUME Kafka!KafkaAssumption, Kafka!KafkaInv, Kafka!Finish
  PROVE  Kafka!KafkaInv'
<1> USE DEF Kafka!KafkaInv
<1>1. /\ step = "answered" /\ step' = "ended"
      /\ UNCHANGED <<first, last, committed, members, request, from, to, units, tally, error,
                     affected, goal, unlisted, done, removed>>
  BY DEF Kafka!Finish, Kafka!cluster, Kafka!ghosts, Kafka!wanted
<1>2. /\ tally \in [succeeded : Nat, failed : Nat, uncertain : Nat]
      /\ error \in {"none", "error"} /\ units \in Nat /\ Cardinality(done) \in Nat
  <2>1. IsFiniteSet(Partitions)
    BY KafkaCardinality DEF Kafka!KafkaAssumption
  <2>2. Cardinality(done) \in Nat /\ Cardinality(Partitions) \in Nat
    BY <2>1, FS_Subset, FS_CardinalityType DEF Kafka!TypeOK
  <2> QED
    BY <2>2, KafkaCardinality DEF Kafka!TypeOK, Kafka!Tallies, Kafka!Errors
<1>3. \/ tally = Kafka!Zero /\ units = 0 /\ error = "error" /\ Cardinality(done) = 0
      \/ /\ units = Kafka!Count(tally) /\ tally.succeeded <= Cardinality(done)
         /\ Cardinality(done) <= tally.succeeded + tally.uncertain
  BY <1>1, KafkaCardinality, FS_EmptySet DEF Kafka!AnswerTrue
<1>4. Kafka!Count(tally) = tally.succeeded + tally.failed + tally.uncertain
  BY DEF Kafka!Count
<1>5. \E n \in Int, t \in Kafka!Tallies :
         /\ outcome' = Kafka!BatchOutcome(n, t, error)
         /\ t.succeeded <= Cardinality(done)
         /\ Cardinality(done) <= t.succeeded + t.uncertain
  <2>1. outcome' = IF Kafka!Resetting THEN Kafka!ResetOutcome
                   ELSE Kafka!BatchOutcome(Kafka!Count(Kafka!PurgeTally),
                                           Kafka!PurgeTally, error)
    BY DEF Kafka!Finish
  <2>2. CASE Kafka!Count(tally) > 0
    <3>1. /\ tally.succeeded <= Cardinality(done)
          /\ Cardinality(done) <= tally.succeeded + tally.uncertain
      BY <1>3, <2>2, KafkaZero DEF Kafka!Count
    <3>2. outcome' = Kafka!BatchOutcome(Kafka!Count(tally), tally, error)
      BY <2>1, <2>2 DEF Kafka!ResetOutcome, Kafka!PurgeTally
    <3>3. tally \in Kafka!Tallies /\ Kafka!Count(tally) \in Int
      BY <1>2, <1>4 DEF Kafka!Tallies
    <3> QED
      BY <3>1, <3>2, <3>3
  <2>3. CASE ~(Kafka!Count(tally) > 0)
    <3>1. /\ tally.succeeded = 0 /\ tally.failed = 0 /\ tally.uncertain = 0
      BY <1>2, <1>4, <2>3
    <3>2. units = 0 /\ Cardinality(done) = 0
      BY <1>2, <1>3, <1>4, <3>1
    <3> DEFINE good == [Kafka!Zero EXCEPT !.succeeded = units]
               bad == [Kafka!Zero EXCEPT !.failed = 1]
               purged == [Kafka!Zero EXCEPT !.succeeded = units,
                                            !.uncertain = IF error = "none" THEN 0 ELSE 1]
    <3>3. /\ good = [succeeded |-> 0, failed |-> 0, uncertain |-> 0]
          /\ bad = [succeeded |-> 0, failed |-> 1, uncertain |-> 0]
          /\ purged \in [succeeded : {0}, failed : {0}, uncertain : {0, 1}]
      <4>1. good = [succeeded |-> 0, failed |-> 0, uncertain |-> 0]
        BY <3>2 DEF Kafka!Zero
      <4>2. bad = [succeeded |-> 0, failed |-> 1, uncertain |-> 0]
        BY DEF Kafka!Zero
      <4>3. purged \in [succeeded : {0}, failed : {0}, uncertain : {0, 1}]
        BY <3>2 DEF Kafka!Zero
      <4> QED
        BY <4>1, <4>2, <4>3
    <3>4. CASE Kafka!Resetting
      <4>1. outcome' = Kafka!BatchOutcome(
                         IF error = "none" THEN units ELSE Kafka!Larger(units, 1),
                         IF error = "none" THEN good ELSE bad, error)
        BY <2>1, <2>3, <3>4 DEF Kafka!ResetOutcome
      <4> DEFINE n == IF error = "none" THEN units ELSE Kafka!Larger(units, 1)
                 t == IF error = "none" THEN good ELSE bad
      <4>2. n \in Int /\ t \in Kafka!Tallies
        BY <1>2, <3>3 DEF Kafka!Larger, Kafka!Tallies
      <4>3. t.succeeded = 0 /\ t.uncertain = 0
        BY <3>3
      <4>4. outcome' = Kafka!BatchOutcome(n, t, error)
        BY <4>1
      <4> HIDE DEF n, t
      <4> QED
        BY <3>2, <4>2, <4>3, <4>4
    <3>5. CASE ~Kafka!Resetting
      <4>1. Kafka!PurgeTally = purged
        BY <2>3 DEF Kafka!PurgeTally
      <4>2. /\ purged \in Kafka!Tallies /\ Kafka!Count(purged) \in Int
            /\ purged.succeeded = 0 /\ purged.uncertain \in Nat
        BY <3>3 DEF Kafka!Tallies, Kafka!Count
      <4> HIDE DEF purged
      <4>3. outcome' = Kafka!BatchOutcome(Kafka!Count(purged), purged, error)
        BY <2>1, <3>5, <4>1
      <4> QED
        BY <3>2, <4>2, <4>3
    <3> QED
      BY <3>4, <3>5
  <2> QED
    BY <2>2, <2>3
<1>6. PICK n \in Int, t \in Kafka!Tallies :
         /\ outcome' = Kafka!BatchOutcome(n, t, error)
         /\ t.succeeded <= Cardinality(done)
         /\ Cardinality(done) <= t.succeeded + t.uncertain
  BY <1>5
<1>7. /\ outcome' \in Kafka!Outcome
      /\ outcome'.succeeded = t.succeeded /\ outcome'.uncertain = t.uncertain
      /\ outcome'.status = "success" => error = "none"
  BY <1>2, <1>6, KafkaOutcomes DEF Kafka!Errors
<1>8. Kafka!TypeOK'
  BY <1>1, <1>7 DEF Kafka!TypeOK, Kafka!Steps
<1>9. Kafka!RecordedTrue'
  <2>1. Kafka!ChangesCounted'
    BY <1>1, <1>6, <1>7, KafkaCardinality DEF Kafka!ChangesCounted
  <2> QED
    BY <1>1, <1>7, <2>1 DEF Kafka!RecordedTrue
<1>10. Kafka!NothingYet' /\ Kafka!StartListed' /\ Kafka!AnswerTrue'
  BY <1>1 DEF Kafka!NothingYet, Kafka!StartListed, Kafka!AnswerTrue, Kafka!Alive
<1>11. Kafka!AllChanged' /\ Kafka!PlanTrue'
  BY <1>1
     DEF Kafka!AllChanged, Kafka!PlanTrue, Kafka!PlannedAt, Kafka!Alive,
         Kafka!Resetting, Kafka!Purging
<1> QED
  BY <1>8, <1>9, <1>10, <1>11

LEMMA KafkaSteps ==
  ASSUME Kafka!KafkaAssumption
  PROVE  Kafka!KafkaInv /\ [Kafka!Next]_(Kafka!kafkaVars) => Kafka!KafkaInv'
<1> SUFFICES ASSUME Kafka!KafkaInv, [Kafka!Next]_(Kafka!kafkaVars) PROVE Kafka!KafkaInv'
  OBVIOUS
<1>0. /\ first \in [Partitions -> Nat] /\ last \in [Partitions -> Nat]
      /\ committed \in [Partitions -> {Kafka!None} \cup Nat] /\ members \in BOOLEAN
  BY DEF Kafka!KafkaInv, Kafka!TypeOK
<1>1. ASSUME NEW p \in Partitions, Kafka!Append(p) PROVE Kafka!KafkaInv'
  BY <1>0, <1>1, KafkaClusterSteps DEF Kafka!Append
<1>2. ASSUME NEW p \in Partitions, Kafka!Retain(p) PROVE Kafka!KafkaInv'
  BY <1>0, <1>2, KafkaClusterSteps DEF Kafka!Retain
<1>3. ASSUME NEW p \in Partitions, Kafka!MemberCommits(p) PROVE Kafka!KafkaInv'
  <2>1. Kafka!Larger(committed[p], first[p]) \in Nat
    BY <1>0 DEF Kafka!Larger, Kafka!None
  <2>2. committed' \in [Partitions -> {Kafka!None} \cup Nat]
    BY <1>0, <1>3, <2>1 DEF Kafka!MemberCommits
  <2> QED
    BY <1>0, <1>3, <2>2, KafkaClusterSteps DEF Kafka!MemberCommits
<1>4. CASE Kafka!JoinOrLeave
  BY <1>0, <1>4, KafkaClusterSteps DEF Kafka!JoinOrLeave
<1>5. CASE Kafka!ReadFails
  BY <1>5, KafkaReadFails
<1>6. CASE \/ Kafka!DescribeGroup \/ Kafka!FetchCommitted \/ Kafka!FetchAgain
           \/ Kafka!ListTargets \/ Kafka!ListStart \/ Kafka!ListEnd
  BY <1>6, KafkaReading
<1>7. CASE Kafka!CommitOffsets \/ Kafka!CommitLost
  BY <1>7, KafkaCommits
<1>8. CASE Kafka!DeleteRecords
  BY <1>8, KafkaDeletes
<1>9. CASE Kafka!Finish
  BY <1>9, KafkaFinish
<1>10. CASE UNCHANGED Kafka!kafkaVars
  BY <1>10
     DEF Kafka!KafkaInv, Kafka!TypeOK, Kafka!NothingYet, Kafka!StartListed,
         Kafka!AnswerTrue, Kafka!AllChanged, Kafka!PlanTrue, Kafka!RecordedTrue,
         Kafka!ChangesCounted, Kafka!PlannedAt, Kafka!Alive, Kafka!Resetting,
         Kafka!Purging, Kafka!kafkaVars, Kafka!cluster, Kafka!ghosts, Kafka!wanted
<1> QED
  BY <1>1, <1>2, <1>3, <1>4, <1>5, <1>6, <1>7, <1>8, <1>9, <1>10 DEF Kafka!Next

\* What is on record fits what the cluster changed, and a success is complete.
LEMMA KafkaSafe ==
  ASSUME Kafka!KafkaInv
  PROVE  /\ Kafka!TypeOK /\ Kafka!ChangesCounted /\ Kafka!SuccessIsComplete
         /\ Kafka!PurgeNeverUnderReports
BY DEF Kafka!KafkaInv, Kafka!RecordedTrue, Kafka!AllChanged, Kafka!PlanTrue,
       Kafka!Alive, Kafka!Steps,
       Kafka!Reading, Kafka!ChangesCounted, Kafka!SuccessIsComplete,
       Kafka!PurgeNeverUnderReports

-----------------------------------------------------------------------------
(***************************************************************************)
(* Kafka: what a read has shown, and what it has yet ahead.                 *)
(***************************************************************************)
LEMMA ReadCardinality ==
  /\ \A S : /\ Read!Cardinality(S) = Cardinality(S)
            /\ Read!IsFiniteSet(S) <=> IsFiniteSet(S)
  /\ \A S, f : Read!SumFunctionOnSet(f, S) = SumFunctionOnSet(f, S)
BY DEF Read!Cardinality, Cardinality, Read!IsFiniteSet, IsFiniteSet,
       SumFunctionOnSet, Read!SumFunctionOnSet, FoldFunctionOnSet,
       Read!FoldFunctionOnSet, MapThenFoldSet, Read!MapThenFoldSet

\* The first of the records ahead.
LEMMA ReadMin ==
  ASSUME NEW S \in SUBSET Nat, S # {}
  PROVE  Read!Min(S) \in S /\ \A x \in S : Read!Min(S) <= x
<1>1. \E x \in S : \A y \in S : x <= y
  BY LeastNumber
<1> QED
  BY <1>1 DEF Read!Min

LEMMA ReadInit ==
  ASSUME Read!ReadAssumption
  PROVE  Read!Init => Read!ReadInv
<1> SUFFICES ASSUME Read!Init PROVE Read!ReadInv
  OBVIOUS
<1> USE DEF Read!Init
<1>0. /\ 0 .. MaxOffset \subseteq Nat /\ 0 .. MaxOffset - 1 \subseteq Nat
      /\ read.limit \in Nat /\ IsFiniteSet(Partitions)
  BY ReadCardinality DEF Read!ReadAssumption
<1>1. Read!TypeOK
  <2>1. first \in [Partitions -> Nat] /\ last \in [Partitions -> Nat]
    BY <1>0
  <2>2. impact \in [Partitions -> [from : Nat, to : Nat, count : Nat]]
    BY DEF Read!Nothing
  <2>3. window \in [Partitions -> SUBSET Nat] /\ ends \in [Partitions -> Nat]
        /\ position \in [Partitions -> Nat] /\ count \in 0 .. read.limit
    BY <1>0
  <2> QED
    BY <2>1, <2>2, <2>3 DEF Read!TypeOK, Read!Steps
<1>2. emitted \in [Partitions -> SUBSET Nat] /\ records \in [Partitions -> SUBSET Nat]
  BY <1>0
<1>3. Read!LogsWell /\ Read!NothingShown /\ Read!ShownOrAhead /\ Read!ShownBehind
      /\ Read!EndedWell
  BY <1>2 DEF Read!LogsWell, Read!NothingShown, Read!ShownOrAhead, Read!ShownBehind,
              Read!EndedWell
<1>4. Read!CountedWell
  <2> DEFINE f == [p \in Partitions |-> Cardinality(emitted[p])]
  <2>1. f \in [Partitions -> {0}]
    BY FS_EmptySet
  <2>2. SumFunctionOnSet(f, Partitions) = 0
    BY <1>0, <2>1, SumOfZeros
  <2>3. f = [p \in Partitions |-> Read!Cardinality(emitted[p])]
    BY ReadCardinality
  <2>4. count = Read!SumFunctionOnSet([p \in Partitions |-> Read!Cardinality(emitted[p])],
                                      Partitions)
    BY <2>2, <2>3, ReadCardinality
  <2>5. \A p \in Partitions : /\ Read!IsFiniteSet(emitted[p]) /\ emitted[p] = {}
                              /\ impact[p].count = Read!Cardinality(emitted[p])
    BY ReadCardinality, FS_EmptySet DEF Read!Nothing
  <2> QED
    BY <2>4, <2>5 DEF Read!CountedWell
<1> QED
  BY <1>1, <1>2, <1>3, <1>4 DEF Read!ReadInv

\* The topic lives on: what it loses leaves the window as well.
LEMMA ReadLogSteps ==
  ASSUME Read!ReadInv, UNCHANGED Read!Reader,
         first' \in [Partitions -> Nat], last' \in [Partitions -> Nat],
         records' \in [Partitions -> SUBSET Nat], window' \in [Partitions -> SUBSET Nat],
         \A p \in Partitions : /\ first'[p] <= last'[p]
                               /\ records'[p] \subseteq first'[p] .. last'[p] - 1
                               /\ window'[p] \subseteq window[p]
                               /\ window'[p] \subseteq records'[p]
  PROVE  Read!ReadInv'
<1> USE DEF Read!ReadInv, Read!Reader
<1>1. Read!TypeOK'
  BY DEF Read!TypeOK, Read!Offsets
<1>2. Read!LogsWell'
  BY DEF Read!LogsWell
<1>3. Read!NothingShown'
  BY DEF Read!NothingShown
<1>4. Read!ShownOrAhead'
  BY DEF Read!ShownOrAhead, Read!Bounded
<1>5. Read!ShownBehind' /\ Read!EndedWell' /\ Read!CountedWell'
  BY DEF Read!ShownBehind, Read!EndedWell, Read!CountedWell, Read!Bounded
<1>6. emitted' \in [Partitions -> SUBSET Nat]
  OBVIOUS
<1> QED
  BY <1>1, <1>2, <1>3, <1>4, <1>5, <1>6

LEMMA ReadTopicSteps ==
  ASSUME Read!ReadInv, NEW p \in Partitions,
         Read!Append(p) \/ Read!Retain(p) \/ Read!Compact(p)
  PROVE  Read!ReadInv'
<1>0. /\ first \in [Partitions -> Nat] /\ last \in [Partitions -> Nat]
      /\ records \in [Partitions -> SUBSET Nat] /\ window \in [Partitions -> SUBSET Nat]
      /\ \A q \in Partitions : /\ first[q] <= last[q]
                               /\ records[q] \subseteq first[q] .. last[q] - 1
                               /\ window[q] \subseteq records[q]
  BY DEF Read!ReadInv, Read!TypeOK, Read!LogsWell, Read!Offsets
<1>1. CASE Read!Append(p)
  <2>1. /\ last' = [last EXCEPT ![p] = @ + 1] /\ first' = first /\ window' = window
        /\ UNCHANGED Read!Reader
        /\ records' = records \/ records' = [records EXCEPT ![p] = @ \cup {last[p]}]
    BY <1>1 DEF Read!Append
  <2>2. last' \in [Partitions -> Nat] /\ records' \in [Partitions -> SUBSET Nat]
    BY <1>0, <2>1
  <2>3. \A q \in Partitions : records[q] \subseteq records'[q]
    BY <1>0, <2>1
  <2>4. \A q \in Partitions : /\ first'[q] <= last'[q]
                              /\ records'[q] \subseteq first'[q] .. last'[q] - 1
    <3> SUFFICES ASSUME NEW q \in Partitions
                 PROVE  /\ first'[q] <= last'[q]
                        /\ records'[q] \subseteq first'[q] .. last'[q] - 1
      OBVIOUS
    <3>1. CASE q # p
      BY <1>0, <2>1, <3>1
    <3>2. CASE q = p
      <4>1. last'[q] = last[q] + 1 /\ records'[q] \subseteq records[q] \cup {last[q]}
        BY <1>0, <2>1, <3>2
      <4> QED
        BY <1>0, <2>1, <4>1
    <3> QED
      BY <3>1, <3>2
  <2> QED
    BY <1>0, <2>1, <2>2, <2>3, <2>4, ReadLogSteps
<1>2. ASSUME NEW os, Read!Lose(p, os)
      PROVE  /\ records' \in [Partitions -> SUBSET Nat]
             /\ window' \in [Partitions -> SUBSET Nat]
             /\ records'[p] = records[p] \ os
             /\ \A q \in Partitions : /\ records'[q] \subseteq records[q]
                                      /\ window'[q] \subseteq window[q]
                                      /\ window'[q] \subseteq records'[q]
  <2>1. /\ records' = [records EXCEPT ![p] = @ \ os]
        /\ window' = [window EXCEPT ![p] = @ \ os]
    BY <1>2 DEF Read!Lose
  <2> QED
    BY <1>0, <2>1
<1>3. CASE Read!Retain(p)
  <2>1. /\ first[p] < last[p] /\ first' = [first EXCEPT ![p] = @ + 1] /\ last' = last
        /\ Read!Lose(p, {first[p]}) /\ UNCHANGED Read!Reader
    BY <1>3 DEF Read!Retain
  <2>2. first' \in [Partitions -> Nat]
    BY <1>0, <2>1
  <2>3. \A q \in Partitions : /\ first'[q] <= last'[q]
                              /\ records'[q] \subseteq first'[q] .. last'[q] - 1
    <3> SUFFICES ASSUME NEW q \in Partitions
                 PROVE  /\ first'[q] <= last'[q]
                        /\ records'[q] \subseteq first'[q] .. last'[q] - 1
      OBVIOUS
    <3>1. CASE q # p
      BY <1>0, <1>2, <2>1, <3>1
    <3>2. CASE q = p
      <4>1. first'[q] = first[q] + 1 /\ records'[q] = records[q] \ {first[q]}
        BY <1>0, <1>2, <2>1, <3>2
      <4> QED
        BY <1>0, <2>1, <3>2, <4>1
    <3> QED
      BY <3>1, <3>2
  <2> QED
    BY <1>0, <1>2, <2>1, <2>2, <2>3, ReadLogSteps
<1>4. CASE Read!Compact(p)
  <2>1. PICK o \in records[p] : Read!Lose(p, {o})
    BY <1>4 DEF Read!Compact
  <2>2. first' = first /\ last' = last /\ UNCHANGED Read!Reader
    BY <1>4 DEF Read!Compact
  <2>3. \A q \in Partitions : /\ first'[q] <= last'[q]
                              /\ records'[q] \subseteq first'[q] .. last'[q] - 1
    BY <1>0, <1>2, <2>1, <2>2
  <2> QED
    BY <1>0, <1>2, <2>1, <2>2, <2>3, ReadLogSteps
<1> QED
  BY <1>1, <1>3, <1>4

\* The listing fails, or the polls do: what was shown stays.
LEMMA ReadFailures ==
  ASSUME Read!ReadInv, Read!ListFails \/ Read!PollFails
  PROVE  Read!ReadInv'
<1> USE DEF Read!ReadInv
<1>1. /\ step' = "ended" /\ error' = "error"
      /\ UNCHANGED <<first, last, records, window, read, done, count, impact, emitted, cut,
                     ends, position>>
  BY DEF Read!ListFails, Read!PollFails, Read!End, Read!Unread, Read!log
<1>2. Read!TypeOK'
  BY <1>1 DEF Read!TypeOK, Read!Steps, Read!Offsets
<1>3. Read!LogsWell' /\ Read!NothingShown' /\ Read!ShownBehind' /\ Read!EndedWell'
      /\ Read!CountedWell'
  BY <1>1
     DEF Read!LogsWell, Read!NothingShown, Read!ShownBehind, Read!EndedWell,
         Read!CountedWell, Read!Bounded
<1>4. Read!ShownOrAhead'
  BY <1>1 DEF Read!ShownOrAhead
<1> QED
  BY <1>1, <1>2, <1>3, <1>4

\* The offsets are listed: nothing is shown, and nothing in the window.
LEMMA ReadListings ==
  ASSUME Read!ReadAssumption, Read!ReadInv, Read!ListStarts \/ Read!ListEnds
  PROVE  Read!ReadInv'
<1> USE DEF Read!ReadInv
<1>0. /\ first \in [Partitions -> Nat] /\ last \in [Partitions -> Nat]
      /\ position \in [Partitions -> Nat] /\ ends \in [Partitions -> Nat]
      /\ MaxOffset \in Nat /\ read.from \in Read!Froms /\ read.n \in Nat
  BY DEF Read!TypeOK, Read!ReadAssumption
<1>1. /\ step \in {"asked", "one"} /\ step' \in {"one", "listed"}
      /\ UNCHANGED <<first, last, records, window, read, done, count, impact, emitted, cut,
                     error>>
  BY DEF Read!ListStarts, Read!ListEnds, Read!Unread, Read!log
<1>2. position' \in [Partitions -> Nat] /\ ends' \in [Partitions -> Nat]
  <2>1. CASE Read!ListStarts
    <3>1. position' \in Read!Starts(last) /\ ends' = ends
      BY <2>1 DEF Read!ListStarts
    <3>2. CASE read.from = "earliest"
      BY <1>0, <3>1, <3>2 DEF Read!Starts
    <3>3. CASE read.from = "latest"
      BY <1>0, <3>1, <3>3 DEF Read!Starts
    <3>4. CASE read.from = "time"
      <4>1. position' \in [Partitions -> 0 .. MaxOffset]
        BY <3>1, <3>4 DEF Read!Starts
      <4> QED
        BY <1>0, <3>1, <4>1
    <3>5. CASE read.from = "offset"
      BY <1>0, <3>1, <3>5 DEF Read!Starts
    <3> QED
      BY <1>0, <3>2, <3>3, <3>4, <3>5 DEF Read!Froms
  <2>2. CASE Read!ListEnds
    BY <1>0, <2>2 DEF Read!ListEnds
  <2> QED
    BY <2>1, <2>2
<1>3. emitted = [p \in Partitions |-> {}] /\ window = [p \in Partitions |-> {}]
      /\ done = {}
  BY <1>1 DEF Read!NothingShown
<1>4. Read!TypeOK'
  BY <1>1, <1>2 DEF Read!TypeOK, Read!Steps, Read!Offsets
<1>5. Read!LogsWell' /\ Read!EndedWell' /\ Read!CountedWell'
  BY <1>1 DEF Read!LogsWell, Read!EndedWell, Read!CountedWell
<1>6. Read!NothingShown'
  BY <1>1 DEF Read!NothingShown
<1>7. Read!ShownOrAhead' /\ Read!ShownBehind'
  BY <1>1, <1>3 DEF Read!ShownOrAhead, Read!ShownBehind
<1> QED
  BY <1>1, <1>4, <1>5, <1>6, <1>7

\* The polls begin: the window is ahead.
LEMMA ReadBegin ==
  ASSUME Read!ReadAssumption, Read!ReadInv, Read!Begin
  PROVE  Read!ReadInv'
<1> USE DEF Read!ReadInv
<1>0. /\ records \in [Partitions -> SUBSET Nat]
      /\ position \in [Partitions -> Nat] /\ ends \in [Partitions -> Nat]
  BY DEF Read!TypeOK
<1>1. /\ step = "listed" /\ step' = "polling"
      /\ done' = IF Read!Bounded THEN {p \in read.parts : position[p] >= ends[p]} ELSE {}
      /\ window' = [p \in Partitions |->
                  IF p \in read.parts
                    THEN {o \in records[p] : position[p] <= o /\ o < ends[p]} ELSE {}]
      /\ UNCHANGED <<first, last, records, read, ends, position, count, impact, error,
                     emitted, cut>>
  BY DEF Read!Begin
<1>2. emitted = [p \in Partitions |-> {}] /\ error = "none"
  BY <1>1 DEF Read!NothingShown
<1>3. /\ window' \in [Partitions -> SUBSET Nat]
      /\ \A p \in Partitions : window'[p] \subseteq records[p]
  BY <1>0, <1>1
<1>4. done' \subseteq Partitions /\ done' \subseteq read.parts
  <2>1. read.parts \subseteq Partitions
    BY DEF Read!TypeOK, Read!ReadAssumption
  <2> QED
    BY <1>1, <2>1
<1>5. Read!TypeOK'
  BY <1>1, <1>3, <1>4 DEF Read!TypeOK, Read!Steps, Read!Offsets
<1>6. Read!LogsWell' /\ Read!NothingShown' /\ Read!EndedWell' /\ Read!CountedWell'
  BY <1>1, <1>2, <1>3
     DEF Read!LogsWell, Read!NothingShown, Read!EndedWell, Read!CountedWell
<1>7. Read!ShownOrAhead'
  <2> SUFFICES ASSUME NEW p \in Partitions, NEW o \in window'[p]
               PROVE  /\ p \in read.parts /\ o < ends[p]
                      /\ Read!Bounded => position[p] <= o /\ p \notin done'
    BY <1>1 DEF Read!ShownOrAhead, Read!Bounded
  <2>1. p \in read.parts /\ o \in records[p] /\ position[p] <= o /\ o < ends[p]
    BY <1>1
  <2>2. ~ (position[p] >= ends[p])
    BY <1>0, <2>1
  <2> QED
    BY <1>1, <2>1, <2>2
<1>8. Read!ShownBehind'
  BY <1>1, <1>2, <1>4 DEF Read!ShownBehind
<1> QED
  BY <1>1, <1>5, <1>6, <1>7, <1>8

\* A record past the end shows that its partition is done.
LEMMA ReadPastEnd ==
  ASSUME Read!ReadInv, step = "polling", NEW p \in read.parts, p \in Partitions,
         NEW o \in Nat, \A x \in records[p] : x >= position[p] => o <= x,
         position[p] <= o, Read!Bounded, o >= ends[p],
         position' = [position EXCEPT ![p] = o + 1], done' = done \cup {p},
         UNCHANGED <<step, error, count, impact, emitted, first, last, records, window,
                     read, ends, cut>>
  PROVE  Read!ReadInv'
<1> USE DEF Read!ReadInv
<1>0. /\ position \in [Partitions -> Nat] /\ ends \in [Partitions -> Nat]
      /\ window \in [Partitions -> SUBSET Nat] /\ records \in [Partitions -> SUBSET Nat]
      /\ emitted \in [Partitions -> SUBSET Nat] /\ Read!TypeOK
      /\ \A q \in Partitions : window[q] \subseteq records[q]
  BY DEF Read!TypeOK, Read!LogsWell
<1>1. Read!TypeOK'
  <2>1. position' \in [Partitions -> Nat] /\ done' \subseteq Partitions
    BY <1>0 DEF Read!TypeOK
  <2> QED
    BY <1>0, <2>1 DEF Read!TypeOK, Read!Steps, Read!Offsets
<1>2. Read!LogsWell' /\ Read!NothingShown' /\ Read!EndedWell' /\ Read!CountedWell'
  BY DEF Read!LogsWell, Read!NothingShown, Read!EndedWell, Read!CountedWell
<1>3. Read!ShownOrAhead'
  <2> SUFFICES ASSUME NEW q \in Partitions, NEW x \in window[q],
                      Read!Bounded, error = "none", x \notin emitted[q]
               PROVE  position'[q] <= x /\ q \notin done'
    BY DEF Read!ShownOrAhead, Read!Bounded
  <2>1. x < ends[q] /\ position[q] <= x /\ q \notin done
    BY DEF Read!ShownOrAhead
  <2>2. x \in records[q] /\ x \in Nat
    BY <1>0
  <2>3. q # p
    BY <1>0, <2>1, <2>2
  <2> QED
    BY <1>0, <2>1, <2>3
<1>4. Read!ShownBehind'
  <2>1. \A q \in Partitions : position[q] <= position'[q]
    BY <1>0
  <2> QED
    BY <1>0, <2>1 DEF Read!ShownBehind, Read!Bounded
<1> QED
  BY <1>0, <1>1, <1>2, <1>3, <1>4

\* The counters after one more record.
LEMMA ReadCounts ==
  ASSUME Read!ReadAssumption, Read!ReadInv, NEW p \in Partitions, NEW o \in Nat,
         position[p] <= o, Read!Emit(p, o)
  PROVE  /\ Read!CountedWell' /\ emitted' \in [Partitions -> SUBSET Nat]
         /\ impact' \in [Partitions -> [from : Nat, to : Nat, count : Nat]]
         /\ count' = count + 1
<1> USE DEF Read!ReadInv
<1>0. /\ emitted \in [Partitions -> SUBSET Nat] /\ position \in [Partitions -> Nat]
      /\ impact \in [Partitions -> [from : Nat, to : Nat, count : Nat]]
      /\ \A q \in Partitions : IsFiniteSet(emitted[q])
      /\ impact[p].count = Cardinality(emitted[p])
      /\ IsFiniteSet(Partitions)
  BY ReadCardinality DEF Read!TypeOK, Read!CountedWell, Read!ReadAssumption
<1>1. /\ emitted' = [emitted EXCEPT ![p] = @ \cup {o}] /\ count' = count + 1
      /\ impact' = [impact EXCEPT ![p] = Read!UpdatedImpact(p, o)]
  BY DEF Read!Emit
<1>2. \A x \in emitted[p] : x \in Nat /\ x < o
  BY <1>0 DEF Read!ShownBehind
<1>3. /\ IsFiniteSet(emitted[p] \cup {o})
      /\ Cardinality(emitted[p] \cup {o}) = Cardinality(emitted[p]) + 1
      /\ \A q \in Partitions : Cardinality(emitted[q]) \in Nat
  BY <1>0, <1>2, FS_AddElement, FS_CardinalityType
<1>4. emitted' \in [Partitions -> SUBSET Nat]
  BY <1>0, <1>1
<1>5. /\ Read!UpdatedImpact(p, o) \in [from : Nat, to : Nat, count : Nat]
      /\ Read!UpdatedImpact(p, o).count = Cardinality(emitted[p]) + 1
      /\ Read!UpdatedImpact(p, o).from \in emitted[p] \cup {o}
      /\ Read!UpdatedImpact(p, o).to - 1 \in emitted[p] \cup {o}
      /\ \A x \in emitted[p] \cup {o} : /\ Read!UpdatedImpact(p, o).from <= x
                                        /\ x < Read!UpdatedImpact(p, o).to
  <2> DEFINE i == impact[p]
  <2>0. i \in [from : Nat, to : Nat, count : Nat] /\ i.count = Cardinality(emitted[p])
    BY <1>0
  <2>1. CASE i.count = 0
    <3>1. emitted[p] = {}
      BY <1>0, <2>0, <2>1, FS_EmptySet
    <3>2. Read!UpdatedImpact(p, o) = [from |-> o, to |-> o + 1, count |-> 1]
      BY <2>1 DEF Read!UpdatedImpact
    <3> QED
      BY <2>0, <2>1, <3>1, <3>2
  <2>2. CASE i.count # 0
    <3>1. emitted[p] # {}
      BY <1>0, <2>0, <2>2, FS_EmptySet
    <3>2. /\ i.from \in emitted[p] /\ i.to - 1 \in emitted[p]
          /\ \A x \in emitted[p] : i.from <= x /\ x < i.to
      BY <3>1 DEF Read!CountedWell
    <3>3. i.from < o /\ i.to - 1 < o
      BY <1>2, <3>2
    <3> HIDE DEF i
    <3>4. Read!UpdatedImpact(p, o) = [from |-> i.from, to |-> o + 1, count |-> i.count + 1]
      <4>1. ~ (o < i.from) /\ (o + 1 > i.to)
        BY <2>0, <3>3
      <4>2. Read!UpdatedImpact(p, o)
              = [from |-> IF o < i.from THEN o ELSE i.from,
                 to |-> IF o + 1 > i.to THEN o + 1 ELSE i.to, count |-> i.count + 1]
        BY <2>2 DEF Read!UpdatedImpact, i
      <4> QED
        BY <4>1, <4>2
    <3>5. /\ Read!UpdatedImpact(p, o).from = i.from
          /\ Read!UpdatedImpact(p, o).to = o + 1
          /\ Read!UpdatedImpact(p, o).count = i.count + 1
      BY <3>4
    <3>6. Read!UpdatedImpact(p, o) \in [from : Nat, to : Nat, count : Nat]
      BY <2>0, <3>4
    <3> QED
      BY <1>2, <2>0, <3>2, <3>3, <3>5, <3>6
  <2> QED
    BY <2>1, <2>2
<1>6. impact' \in [Partitions -> [from : Nat, to : Nat, count : Nat]]
  BY <1>0, <1>1, <1>5
<1>7. \A q \in Partitions :
        /\ Read!IsFiniteSet(emitted'[q])
        /\ impact'[q].count = Read!Cardinality(emitted'[q])
        /\ emitted'[q] # {} =>
             /\ impact'[q].from \in emitted'[q] /\ impact'[q].to - 1 \in emitted'[q]
             /\ \A x \in emitted'[q] : impact'[q].from <= x /\ x < impact'[q].to
  <2> SUFFICES ASSUME NEW q \in Partitions
               PROVE  /\ Read!IsFiniteSet(emitted'[q])
                      /\ impact'[q].count = Read!Cardinality(emitted'[q])
                      /\ emitted'[q] # {} =>
                           /\ impact'[q].from \in emitted'[q]
                           /\ impact'[q].to - 1 \in emitted'[q]
                           /\ \A x \in emitted'[q] :
                                impact'[q].from <= x /\ x < impact'[q].to
    OBVIOUS
  <2>1. CASE q = p
    <3>1. emitted'[q] = emitted[p] \cup {o} /\ impact'[q] = Read!UpdatedImpact(p, o)
      BY <1>0, <1>1, <2>1
    <3>2. Read!IsFiniteSet(emitted'[q]) /\ impact'[q].count = Read!Cardinality(emitted'[q])
      BY <1>3, <1>5, <3>1, ReadCardinality
    <3> QED
      BY <1>5, <3>1, <3>2
  <2>2. CASE q # p
    <3>1. emitted'[q] = emitted[q] /\ impact'[q] = impact[q]
      BY <1>0, <1>1, <2>2
    <3> QED
      BY <3>1 DEF Read!CountedWell
  <2> QED
    BY <2>1, <2>2
<1>8. count' = Read!SumFunctionOnSet([q \in Partitions |-> Read!Cardinality(emitted'[q])],
                                     Partitions)
  <2> DEFINE f == [q \in Partitions |-> Cardinality(emitted[q])]
             h == [q \in Partitions |-> Cardinality(emitted'[q])]
  <2>1. f = [q \in Partitions |-> Read!Cardinality(emitted[q])]
        /\ h = [q \in Partitions |-> Read!Cardinality(emitted'[q])]
    BY ReadCardinality
  <2>2. \A q \in Partitions \ {p} : emitted'[q] = emitted[q]
    BY <1>0, <1>1
  <2>3. emitted'[p] = emitted[p] \cup {o}
    BY <1>0, <1>1
  <2>4. /\ f \in [Partitions -> Nat] /\ h[p] = f[p] + 1
        /\ \A q \in Partitions \ {p} : h[q] = f[q]
    BY <1>3, <2>2, <2>3
  <2>5. h \in [Partitions -> Nat]
    <3>1. Cardinality(emitted'[p]) \in Nat
      BY <1>3, <2>3
    <3>2. \A q \in Partitions \ {p} : Cardinality(emitted'[q]) \in Nat
      BY <1>3, <2>2
    <3> QED
      BY <3>1, <3>2
  <2>6. count = SumFunctionOnSet(f, Partitions)
    BY <2>1, ReadCardinality DEF Read!CountedWell
  <2>7. Read!SumFunctionOnSet([q \in Partitions |-> Read!Cardinality(emitted'[q])],
                              Partitions)
          = SumFunctionOnSet(h, Partitions)
    BY <2>1, ReadCardinality
  <2> HIDE DEF f, h
  <2>8. SumFunctionOnSet(h, Partitions) = SumFunctionOnSet(f, Partitions) + 1
    BY <1>0, <2>4, <2>5, SumPlusOne
  <2> QED
    BY <1>1, <2>6, <2>7, <2>8
<1> QED
  BY <1>1, <1>4, <1>6, <1>7, <1>8 DEF Read!CountedWell

\* A record of the window is shown.
LEMMA ReadShown ==
  ASSUME Read!ReadAssumption, Read!ReadInv, Read!Goes, NEW p \in read.parts,
         NEW o \in records[p], \A x \in records[p] : x >= position[p] => o <= x,
         position[p] <= o, ~Read!Bounded \/ o < ends[p],
         position' = [position EXCEPT ![p] = o + 1], Read!Emit(p, o),
         UNCHANGED <<first, last, records, window, read, ends, cut>>
  PROVE  Read!ReadInv'
<1> USE DEF Read!ReadInv
<1>0. /\ position \in [Partitions -> Nat] /\ ends \in [Partitions -> Nat]
      /\ window \in [Partitions -> SUBSET Nat] /\ records \in [Partitions -> SUBSET Nat]
      /\ emitted \in [Partitions -> SUBSET Nat]
      /\ read.parts \subseteq Partitions /\ read.limit \in Nat
      /\ done \subseteq Partitions /\ done \subseteq read.parts /\ count \in 0 .. read.limit
      /\ \A q \in Partitions : window[q] \subseteq records[q]
  BY DEF Read!TypeOK, Read!LogsWell, Read!ReadAssumption, Read!ShownBehind
<1>1. p \in Partitions /\ o \in Nat
  BY <1>0
<1>2. /\ Read!CountedWell' /\ emitted' \in [Partitions -> SUBSET Nat]
      /\ impact' \in [Partitions -> [from : Nat, to : Nat, count : Nat]]
      /\ count' = count + 1
  BY <1>1, ReadCounts
<1>3. /\ emitted' = [emitted EXCEPT ![p] = @ \cup {o}] /\ UNCHANGED <<step, error>>
      /\ done' = IF Read!Bounded /\ Read!ReachedEnd(p, o) THEN done \cup {p} ELSE done
      /\ step = "polling" /\ count < read.limit
  BY DEF Read!Emit, Read!Goes
<1>4. position' \in [Partitions -> Nat] /\ done' \subseteq read.parts
  BY <1>0, <1>1, <1>3
<1>5. Read!TypeOK'
  <2>1. count' \in 0 .. read'.limit
    BY <1>0, <1>2, <1>3
  <2>2. done' \subseteq Partitions
    BY <1>0, <1>4
  <2> QED
    BY <1>2, <1>3, <1>4, <2>1, <2>2 DEF Read!TypeOK, Read!Steps, Read!Offsets
<1>6. Read!LogsWell' /\ Read!NothingShown' /\ Read!EndedWell'
  BY <1>3 DEF Read!LogsWell, Read!NothingShown, Read!EndedWell
<1>7. \A q \in Partitions : emitted[q] \subseteq emitted'[q]
  BY <1>0, <1>3
<1>8. Read!ShownOrAhead'
  <2> SUFFICES ASSUME NEW q \in Partitions, NEW x \in window[q]
               PROVE  /\ q \in read.parts /\ x < ends[q]
                      /\ Read!Bounded /\ error = "none" =>
                           x \in emitted'[q] \/ (position'[q] <= x /\ q \notin done')
    BY <1>3 DEF Read!ShownOrAhead, Read!Bounded
  <2>1. q \in read.parts /\ x < ends[q] /\ x \in records[q] /\ x \in Nat
    BY <1>0 DEF Read!ShownOrAhead
  <2>2. SUFFICES ASSUME Read!Bounded, error = "none", x \notin emitted'[q]
                 PROVE  position'[q] <= x /\ q \notin done'
    BY <2>1
  <2>3. position[q] <= x /\ q \notin done
    BY <1>7, <2>2 DEF Read!ShownOrAhead
  <2>4. CASE q # p
    BY <1>0, <1>3, <2>3, <2>4
  <2>5. CASE q = p
    <3>1. x # o /\ o <= x
      BY <1>0, <1>1, <1>3, <2>1, <2>2, <2>3, <2>5
    <3>2. o + 1 <= x /\ o + 1 < ends[p]
      BY <1>0, <1>1, <2>1, <2>5, <3>1
    <3>3. position'[p] = o + 1 /\ ~Read!ReachedEnd(p, o)
      BY <1>0, <1>1, <3>2 DEF Read!ReachedEnd
    <3> QED
      BY <1>3, <2>3, <2>5, <3>2, <3>3
  <2> QED
    BY <2>4, <2>5
<1>9. Read!ShownBehind'
  <2> SUFFICES ASSUME NEW q \in Partitions, NEW x \in emitted'[q]
               PROVE  x \in Nat /\ x < position'[q] /\ q \in read.parts
                      /\ (Read!Bounded => x < ends[q])
    BY <1>4 DEF Read!ShownBehind, Read!Bounded
  <2>1. position[q] <= position'[q] /\ x \in Nat
    BY <1>0, <1>1, <1>2
  <2>2. CASE x \in emitted[q]
    <3>1. x < position[q] /\ q \in read.parts /\ (Read!Bounded => x < ends[q])
      BY <2>2 DEF Read!ShownBehind
    <3> QED
      BY <1>0, <1>4, <2>1, <3>1
  <2>3. CASE x \notin emitted[q]
    <3>1. q = p /\ x = o
      BY <1>0, <1>3, <2>3
    <3> QED
      BY <1>0, <1>1, <3>1
  <2> QED
    BY <2>2, <2>3
<1> QED
  BY <1>2, <1>0, <1>5, <1>6, <1>8, <1>9

\* The caller refuses a record.
LEMMA ReadRefused ==
  ASSUME Read!ReadInv, NEW p \in Partitions, NEW o \in Nat, position[p] <= o,
         position' = [position EXCEPT ![p] = o + 1], step' = "ended", error' = "error",
         UNCHANGED <<done, count, impact, emitted, first, last, records, window, read,
                     ends, cut>>
  PROVE  Read!ReadInv'
<1> USE DEF Read!ReadInv
<1>0. /\ position \in [Partitions -> Nat] /\ emitted \in [Partitions -> SUBSET Nat]
  BY DEF Read!TypeOK
<1>1. position' \in [Partitions -> Nat] /\ \A q \in Partitions : position[q] <= position'[q]
  BY <1>0
<1>2. Read!TypeOK'
  BY <1>1 DEF Read!TypeOK, Read!Steps, Read!Offsets
<1>3. Read!LogsWell' /\ Read!NothingShown' /\ Read!EndedWell' /\ Read!CountedWell'
  BY DEF Read!LogsWell, Read!NothingShown, Read!EndedWell, Read!CountedWell
<1>4. Read!ShownOrAhead'
  BY DEF Read!ShownOrAhead
<1>5. Read!ShownBehind'
  BY <1>0, <1>1 DEF Read!ShownBehind, Read!Bounded
<1> QED
  BY <1>2, <1>3, <1>4, <1>5

LEMMA ReadPolls ==
  ASSUME Read!ReadAssumption, Read!ReadInv, NEW p \in Partitions, Read!Poll(p)
  PROVE  Read!ReadInv'
<1>0. /\ position \in [Partitions -> Nat] /\ records \in [Partitions -> SUBSET Nat]
  BY DEF Read!ReadInv, Read!TypeOK
<1> DEFINE o == Read!Min(Read!Ahead(p))
<1>1. /\ Read!Goes /\ p \in read.parts /\ Read!Ahead(p) # {}
      /\ position' = [position EXCEPT ![p] = o + 1]
      /\ \/ /\ Read!Bounded /\ o >= ends[p] /\ done' = done \cup {p}
            /\ UNCHANGED <<step, error, count, impact, emitted>>
         \/ (~Read!Bounded \/ o < ends[p]) /\ Read!Emit(p, o)
         \/ /\ step' = "ended" /\ error' = "error"
            /\ UNCHANGED <<done, count, impact, emitted>>
      /\ UNCHANGED <<first, last, records, window, read, ends, cut>>
  BY DEF Read!Poll, Read!log, Read!End
<1>2. Read!Ahead(p) \in SUBSET Nat
  BY <1>0 DEF Read!Ahead
<1>3. o \in Read!Ahead(p) /\ \A x \in Read!Ahead(p) : o <= x
  BY <1>1, <1>2, ReadMin
<1> HIDE DEF o
<1>4. /\ o \in records[p] /\ o \in Nat /\ position[p] <= o
      /\ \A x \in records[p] : x >= position[p] => o <= x
  BY <1>0, <1>2, <1>3 DEF Read!Ahead
<1>5. step = "polling"
  BY <1>1 DEF Read!Goes
<1>6. CASE /\ Read!Bounded /\ o >= ends[p] /\ done' = done \cup {p}
           /\ UNCHANGED <<step, error, count, impact, emitted>>
  BY <1>1, <1>4, <1>5, <1>6, ReadPastEnd
<1>7. CASE (~Read!Bounded \/ o < ends[p]) /\ Read!Emit(p, o)
  BY <1>1, <1>4, <1>7, ReadShown
<1>8. CASE /\ step' = "ended" /\ error' = "error"
           /\ UNCHANGED <<done, count, impact, emitted>>
  BY <1>1, <1>4, <1>8, ReadRefused
<1> QED
  BY <1>1, <1>6, <1>7, <1>8

\* The read ends, by itself or by its deadline.
LEMMA ReadEndings ==
  ASSUME Read!ReadInv, Read!Break \/ Read!Finish
  PROVE  Read!ReadInv'
<1> USE DEF Read!ReadInv
<1>1. /\ step = "polling" /\ step' = "ended" /\ error' = "none" /\ cut' \in BOOLEAN
      /\ cut' \/ ~Read!Goes
      /\ UNCHANGED <<first, last, records, window, read, ends, position, done, count, impact,
                     emitted>>
  BY DEF Read!Break, Read!Finish, Read!Goes, Read!End, Read!Unread, Read!log, Read!TypeOK
<1>2. error = "none"
  BY <1>1 DEF Read!NothingShown
<1>3. Read!TypeOK'
  BY <1>1 DEF Read!TypeOK, Read!Steps, Read!Offsets
<1>4. Read!LogsWell' /\ Read!NothingShown' /\ Read!CountedWell'
  BY <1>1 DEF Read!LogsWell, Read!NothingShown, Read!CountedWell
<1>5. Read!ShownOrAhead' /\ Read!ShownBehind'
  BY <1>1, <1>2 DEF Read!ShownOrAhead, Read!ShownBehind, Read!Bounded
<1>6. Read!EndedWell'
  BY <1>1 DEF Read!EndedWell, Read!Goes, Read!Bounded
<1> QED
  BY <1>1, <1>3, <1>4, <1>5, <1>6

LEMMA ReadSteps ==
  ASSUME Read!ReadAssumption
  PROVE  Read!ReadInv /\ [Read!Next]_(Read!readVars) => Read!ReadInv'
<1> SUFFICES ASSUME Read!ReadInv, [Read!Next]_(Read!readVars) PROVE Read!ReadInv'
  OBVIOUS
<1>1. ASSUME NEW p \in Partitions, Read!Append(p) \/ Read!Retain(p) \/ Read!Compact(p)
      PROVE  Read!ReadInv'
  BY <1>1, ReadTopicSteps
<1>2. CASE Read!ListFails \/ Read!PollFails
  BY <1>2, ReadFailures
<1>3. CASE Read!ListStarts \/ Read!ListEnds
  BY <1>3, ReadListings
<1>4. CASE Read!Begin
  BY <1>4, ReadBegin
<1>5. ASSUME NEW p \in Partitions, Read!Poll(p) PROVE Read!ReadInv'
  BY <1>5, ReadPolls
<1>6. CASE Read!Interrupt \/ Read!EmptyFetch \/ Read!Expire \/ Read!Finish
  BY <1>6, ReadEndings DEF Read!Interrupt, Read!EmptyFetch, Read!Expire
<1>7. CASE UNCHANGED Read!readVars
  <2>1. /\ UNCHANGED Read!Reader
        /\ first' = first /\ last' = last /\ records' = records /\ window' = window
    BY <1>7 DEF Read!readVars, Read!log, Read!Reader
  <2>2. /\ first \in [Partitions -> Nat] /\ last \in [Partitions -> Nat]
        /\ records \in [Partitions -> SUBSET Nat] /\ window \in [Partitions -> SUBSET Nat]
        /\ \A p \in Partitions : /\ first[p] <= last[p]
                                 /\ records[p] \subseteq first[p] .. last[p] - 1
                                 /\ window[p] \subseteq records[p]
    BY DEF Read!ReadInv, Read!TypeOK, Read!LogsWell, Read!Offsets
  <2> QED
    BY <2>1, <2>2, ReadLogSteps
<1> QED
  BY <1>1, <1>2, <1>3, <1>4, <1>5, <1>6, <1>7 DEF Read!Next

LEMMA ReadSafe ==
  ASSUME Read!ReadInv
  PROVE  Read!TypeOK /\ Read!ReadsItsWindow /\ Read!ImpactMatches
<1> USE DEF Read!ReadInv
<1>1. Read!ReadsItsWindow
  BY DEF Read!ReadsItsWindow, Read!ShownBehind, Read!ShownOrAhead, Read!EndedWell,
         Read!TypeOK
<1>2. Read!ImpactMatches
  <2> SUFFICES ASSUME NEW p \in Partitions, emitted[p] # {}
               PROVE  /\ impact[p].from = Read!Min(emitted[p])
                      /\ impact[p].to = Read!Max(emitted[p]) + 1
    BY DEF Read!ImpactMatches, Read!CountedWell
  <2>1. /\ impact[p].from \in emitted[p] /\ impact[p].to - 1 \in emitted[p]
        /\ \A o \in emitted[p] : impact[p].from <= o /\ o < impact[p].to
    BY DEF Read!CountedWell
  <2>2. emitted[p] \in SUBSET Nat /\ impact[p].to \in Nat
    BY DEF Read!TypeOK
  <2>3. Read!Min(emitted[p]) \in emitted[p] /\ \A x \in emitted[p] : Read!Min(emitted[p]) <= x
    BY <2>2, ReadMin
  <2>4. \A x \in emitted[p] : impact[p].to - 1 >= x
    BY <2>1, <2>2
  <2>5. Read!Max(emitted[p]) \in emitted[p] /\ \A x \in emitted[p] : Read!Max(emitted[p]) >= x
    BY <2>1, <2>4 DEF Read!Max
  <2>6. /\ impact[p].from <= Read!Min(emitted[p]) /\ Read!Min(emitted[p]) <= impact[p].from
        /\ impact[p].to - 1 <= Read!Max(emitted[p])
        /\ Read!Max(emitted[p]) <= impact[p].to - 1
    BY <2>1, <2>3, <2>4, <2>5
  <2>7. /\ impact[p].from \in Nat /\ Read!Min(emitted[p]) \in Nat
        /\ Read!Max(emitted[p]) \in Nat
    BY <2>1, <2>2, <2>3, <2>5
  <2> QED
    BY <2>2, <2>6, <2>7
<1> QED
  BY <1>1, <1>2
=============================================================================
