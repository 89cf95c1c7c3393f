---------------------------- MODULE TopicCreation ----------------------------
(***************************************************************************)
(* "topic create" on RocketMQ (rocketmq.go CreateTopic).  The create        *)
(* request to the broker is an upsert, and the broker makes the topic known *)
(* to the name servers one by one, later.  A command asks every name server *)
(* whether the topic is absent, sends the request, and asks them all again, *)
(* round by round, until each shows the topic with the queues asked for or  *)
(* the time is over.                                                        *)
(***************************************************************************)
EXTENDS OutcomeRecord

CONSTANTS
  Creators,     \* commands that create the one topic
  NameServers,  \* configured name servers
  Queues        \* queue counts a command may ask for, none of them 0

Absent == 0     \* queue count of a topic that is not there
Steps == {"idle", "checking", "clear", "confirming", "ended"}

VARIABLES
  broker,   \* queues of the topic on the broker
  route,    \* queues of the topic as each name server has it
  want,     \* queues each command asks for
  pc,       \* where a command is
  todo,     \* name servers a command has still to ask in this round
  outcome,  \* the outcome record of a command
  applied,  \* ghost: has the broker carried out the request of the command?
  visible,  \* ghost: was the topic on a name server when the command began?
  disturbed \* ghost: was a request of another carried out since the command began?

topicVars == <<broker, route, want, pc, todo, outcome, applied, visible, disturbed>>

NoOutcome == Record("failed", Zero, 0, "none", "")

Init ==
  /\ broker \in Queues \cup {Absent}
  /\ route \in [NameServers -> {broker, Absent}]
  /\ want \in [Creators -> Queues]
  /\ pc = [c \in Creators |-> "idle"]
  /\ todo = [c \in Creators |-> {}]
  /\ outcome = [c \in Creators |-> NoOutcome]
  /\ applied = [c \in Creators |-> FALSE]
  /\ visible = [c \in Creators |-> FALSE]
  /\ disturbed = [c \in Creators |-> FALSE]

\* The broker registers the topic with one more name server.
Register(n) ==
  /\ broker # Absent /\ route[n] # broker
  /\ route' = [route EXCEPT ![n] = broker]
  /\ UNCHANGED <<broker, want, pc, todo, outcome, applied, visible, disturbed>>

-----------------------------------------------------------------------------
Goto(c, s) == pc' = [pc EXCEPT ![c] = s]
World == <<broker, route, want>>
Ghosts == <<applied, visible, disturbed>>

\* topicCreateAuditOutcome: only PARTIAL_FAILURE is uncertain.
Created == SingleOutcome("none")
Refused == SingleOutcome("error")
Uncertain == Record("failed", [Zero EXCEPT !.uncertain = 1], 0, "error", "")

End(c, o) ==
  /\ Goto(c, "ended")
  /\ outcome' = [outcome EXCEPT ![c] = o]

Begin(c) ==
  /\ pc[c] = "idle"
  /\ Goto(c, "checking")
  /\ todo' = [todo EXCEPT ![c] = NameServers]
  /\ visible' = [visible EXCEPT ![c] = \E n \in NameServers : route[n] # Absent]
  /\ UNCHANGED <<World, outcome, applied, disturbed>>

\* Mutant: the first name server that answers speaks for all.
FirstAnswers(c) ==
  /\ pc[c] = "checking"
  /\ \E n \in todo[c] :
       IF route[n] # Absent THEN End(c, Refused) /\ UNCHANGED todo
       ELSE Goto(c, "clear") /\ todo' = [todo EXCEPT ![c] = {}] /\ UNCHANGED outcome
  /\ UNCHANGED <<World, Ghosts>>

\* ensureTopicAbsentBeforeCreate: every name server on its own, here in any order.
CheckAbsent(c) ==
  /\ pc[c] = "checking"
  /\ \E n \in todo[c] :
       IF route[n] # Absent THEN End(c, Refused) /\ UNCHANGED todo
       ELSE /\ todo' = [todo EXCEPT ![c] = @ \ {n}]
            /\ IF todo[c] = {n} THEN Goto(c, "clear") ELSE UNCHANGED pc
            /\ UNCHANGED outcome
  /\ UNCHANGED <<World, Ghosts>>

\* A name server does not answer, or the command is interrupted.
CheckFails(c) ==
  /\ pc[c] \in {"checking", "clear"}
  /\ End(c, Refused)
  /\ UNCHANGED <<World, todo, Ghosts>>

\* The broker carries the request out, or it does not.
Upsert(c) ==
  /\ broker' = want[c]
  /\ applied' = [applied EXCEPT ![c] = TRUE]
  /\ disturbed' = [d \in Creators |-> disturbed[d] \/ (d # c /\ pc[d] # "idle")]

NotCarriedOut == UNCHANGED <<broker, applied, disturbed>>

\* Mutant: a request that failed is a failure.
RequestFails(c) ==
  /\ pc[c] = "clear"
  /\ Upsert(c) \/ NotCarriedOut
  /\ \/ Goto(c, "confirming") /\ todo' = [todo EXCEPT ![c] = NameServers] /\ UNCHANGED outcome
     \/ End(c, Refused) /\ UNCHANGED todo
  /\ UNCHANGED <<route, want, visible>>

\* admin.CreateTopic: without an error the client does not know more than with
\* one, for it does not look at the code of the answer.
Request(c) ==
  /\ pc[c] = "clear"
  /\ Upsert(c) \/ NotCarriedOut
  /\ \/ Goto(c, "confirming") /\ todo' = [todo EXCEPT ![c] = NameServers] /\ UNCHANGED outcome
     \/ End(c, Uncertain) /\ UNCHANGED todo
  /\ UNCHANGED <<route, want, visible>>

\* confirmTopicOnEveryNameServer: a name server that does not know the topic
\* yet starts a new round, other queues end the command.
Confirm(c) ==
  /\ pc[c] = "confirming"
  /\ \E n \in todo[c] :
       \/ /\ route[n] = Absent
          /\ todo' = [todo EXCEPT ![c] = NameServers]
          /\ UNCHANGED <<pc, outcome>>
       \/ /\ route[n] \notin {Absent, want[c]}
          /\ End(c, Uncertain) /\ UNCHANGED todo
       \/ /\ route[n] = want[c]
          /\ todo' = [todo EXCEPT ![c] = @ \ {n}]
          /\ IF todo[c] = {n} THEN End(c, Created) ELSE UNCHANGED <<pc, outcome>>
  /\ UNCHANGED <<World, Ghosts>>

\* waitForTopicPropagation: the time is over, the command is interrupted, or a
\* name server does not answer.
Timeout(c) ==
  /\ pc[c] = "confirming"
  /\ End(c, Uncertain)
  /\ UNCHANGED <<World, todo, Ghosts>>

Step(c) == Begin(c) \/ CheckAbsent(c) \/ CheckFails(c) \/ Request(c) \/ Confirm(c)

Next ==
  \/ \E n \in NameServers : Register(n)
  \/ \E c \in Creators : Step(c) \/ Timeout(c)

Spec == Init /\ [][Next]_topicVars

\* A command that runs goes on, and its timer fires.
Fairness == \A c \in Creators : WF_topicVars(Step(c)) /\ WF_topicVars(Timeout(c))
FairSpec == Spec /\ Fairness

-----------------------------------------------------------------------------
(***************************************************************************)
(* Properties                                                               *)
(***************************************************************************)

\* Type invariant.
TypeOK ==
  /\ broker \in Queues \cup {Absent}
  /\ route \in [NameServers -> Queues \cup {Absent}]
  /\ want \in [Creators -> Queues]
  /\ pc \in [Creators -> Steps]
  /\ todo \in [Creators -> SUBSET NameServers]
  /\ outcome \in [Creators -> {NoOutcome, Created, Refused, Uncertain}]
  /\ applied \in [Creators -> BOOLEAN]
  /\ visible \in [Creators -> BOOLEAN]
  /\ disturbed \in [Creators -> BOOLEAN]

\* A create that ends in a plain failure has not been carried out: whatever
\* fails after the request was sent is uncertain
\* (docs/rocketmq-integration.md:19).  The reverse does not hold: a request that
\* was not carried out succeeds when another makes the topic appear as wanted.
ChangesCounted ==
  \A c \in Creators : pc[c] = "ended" /\ outcome[c].failed > 0 => ~applied[c]

\* A create that says success left every name server with the queues it asked
\* for, unless another create was carried out meanwhile (rocketmq.go:320-372).
CreatedEverywhere ==
  \A c \in Creators :
    pc[c] = "ended" /\ outcome[c].status = "success" /\ ~disturbed[c] =>
      \A n \in NameServers : route[n] = want[c]

\* No create is carried out over a topic that one name server knew when the
\* command began: the upsert can hit another topic only in a race
\* (rocketmq.go:221-256).
VisibleNeverOverwritten == \A c \in Creators : visible[c] => ~applied[c]

\* Every create ends, also when the topic never shows up (rocketmq.go:267-318).
CreationEnds == \A c \in Creators : <>(pc[c] = "ended")

-----------------------------------------------------------------------------
(***************************************************************************)
(* The inductive invariant                                                  *)
(***************************************************************************)

\* No command asks for a topic without queues ("--queues must be positive").
QueuesAssumption == Absent \notin Queues

\* Nothing is carried out before the checks are over, and a plain failure ends
\* a command during them.
AppliedLate ==
  \A c \in Creators : applied[c] =>
    /\ pc[c] \in {"confirming", "ended"}
    /\ outcome[c] # Refused

\* A topic that could be seen at the start is ahead of the checks.
VisibleAhead ==
  \A c \in Creators : visible[c] =>
    /\ pc[c] \in {"checking", "ended"} /\ ~applied[c]
    /\ pc[c] = "checking" => \E n \in todo[c] : route[n] # Absent

\* A name server that was asked knows the topic as the broker has it, or not at
\* all, until the command's own request or that of another is carried out.
UpToDate ==
  \A c \in Creators : ~disturbed[c] /\ ~applied[c] =>
    /\ pc[c] = "checking" => \A n \in NameServers \ todo[c] : route[n] \in {Absent, broker}
    /\ pc[c] \in {"clear", "confirming"} => \A n \in NameServers : route[n] \in {Absent, broker}

\* A name server that confirmed stays with what the command wants.
Confirmed ==
  \A c \in Creators : ~disturbed[c] /\ (pc[c] = "confirming" \/ outcome[c] = Created) =>
    /\ applied[c] => broker = want[c]
    /\ \A n \in NameServers \ todo[c] : route[n] = want[c] /\ broker = want[c]

\* An outcome is there at the end only, and a success when all were asked.
AnswersLast ==
  \A c \in Creators :
    /\ pc[c] # "ended" => outcome[c] = NoOutcome
    /\ outcome[c] = Created => todo[c] = {}
    /\ pc[c] = "idle" => ~disturbed[c]

CreationInv ==
  TypeOK /\ AppliedLate /\ VisibleAhead /\ UpToDate /\ Confirmed /\ AnswersLast
=============================================================================
