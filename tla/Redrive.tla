------------------------------- MODULE Redrive -------------------------------
(***************************************************************************)
(* Redriving a dead-letter queue of RabbitMQ (rabbitMQRedriveBatch of       *)
(* internal/backend/rabbitmq/rabbitmq.go): get a message, publish it to the *)
(* target with a confirm, acknowledge the source, one after the other up to *)
(* the requested number.                                                    *)
(*                                                                          *)
(* Several processes may redrive one queue.  Each has a channel of its own: *)
(* what it sends is processed by the broker in order, later or, when the    *)
(* connection breaks, not at all; what it holds unacknowledged goes back to *)
(* the queue when the channel ends.  Both ends notice a broken connection   *)
(* on their own.  Get and publish wait for an answer; acknowledgements have *)
(* none, so a message counts as moved when its acknowledgement was sent.    *)
(***************************************************************************)
EXTENDS Naturals, Sequences, FiniteSets

CONSTANTS
  Redrives,   \* processes that redrive the queue
  Messages,   \* what was dead-lettered
  MaxCount,   \* --count
  Faults,     \* the kinds of failure that may happen
  NoMessage

AllFaults == {"dial", "link", "crash", "timeout", "reject", "target"}

ASSUME RedriveAssumption ==
  /\ NoMessage \notin Messages
  /\ MaxCount \in Nat \ {0}
  /\ Faults \subseteq AllFaults

VARIABLES
  source,    \* the messages that are ready in the dead-letter queue
  arrived,   \* which process brought which message to the target queue
  routable,  \* is there a target queue?
  held,      \* the message the broker has given to a channel, unacknowledged
  open,      \* has the broker the channel open?
  wire,      \* what the broker has still to process, per channel
  reply,     \* its last answer, if the process has not read it yet
  up,        \* has the process the channel open?
  msg,       \* the delivery a process works on
  pc,
  outcome    \* mqgov.BatchOutcome; sets of messages for the numbers

broker == <<source, arrived, routable, held>>
vars == <<broker, open, wire, reply, up, msg, pc, outcome>>

Commands == {"get", "publish", "ack", "nack"}
Replies == {"none", "empty", "message", "confirmed", "rejected", "returned"}
Labels == {"idle", "ready", "getting", "drain", "publish", "waiting", "ack", "nack",
           "nackUnclear", "done", "crashed"}
Live(p) == pc[p] \notin {"idle", "done", "crashed"}
Over(p) == pc[p] \in {"done", "crashed"}
Spins(p) == pc[p] = "drain" /\ ~up[p]

Goto(p, label) == pc' = [pc EXCEPT ![p] = label]
Report(p, field, m) == outcome' = [outcome EXCEPT ![p][field] = @ \cup {m}]

\* A command to a channel the broker has closed is never processed.
Send(p, command) ==
  wire' = IF open[p] THEN [wire EXCEPT ![p] = Append(@, command)] ELSE wire

-----------------------------------------------------------------------------
Init ==
  /\ source = Messages /\ arrived = {} /\ routable = TRUE
  /\ held = [p \in Redrives |-> NoMessage]
  /\ open = [p \in Redrives |-> FALSE]
  /\ wire = [p \in Redrives |-> << >>]
  /\ reply = [p \in Redrives |-> "none"]
  /\ up = [p \in Redrives |-> FALSE]
  /\ msg = [p \in Redrives |-> NoMessage]
  /\ pc = [p \in Redrives |-> "idle"]
  /\ outcome = [p \in Redrives |-> [succeeded |-> {}, failed |-> {}, uncertain |-> {}]]

(***************************************************************************)
(* withChannel.                                                             *)
(***************************************************************************)
OpenChannel(p) ==
  /\ pc[p] = "idle"
  /\ \/ /\ open' = [open EXCEPT ![p] = TRUE] /\ up' = [up EXCEPT ![p] = TRUE]
        /\ Goto(p, "ready")
     \/ "dial" \in Faults /\ Goto(p, "done") /\ UNCHANGED <<open, up>>
  /\ UNCHANGED <<broker, wire, reply, msg, outcome>>

(***************************************************************************)
(* The loop of rabbitMQRedriveBatch.                                        *)
(***************************************************************************)
Get(p) ==
  /\ pc[p] = "ready" /\ up[p] /\ Cardinality(outcome[p].succeeded) < MaxCount
  /\ Send(p, "get")
  /\ Goto(p, "getting")
  /\ UNCHANGED <<broker, open, reply, up, msg, outcome>>

EnoughMoved(p) ==
  /\ pc[p] = "ready" /\ Cardinality(outcome[p].succeeded) >= MaxCount
  /\ Goto(p, "done")
  /\ UNCHANGED <<broker, open, wire, reply, up, msg, outcome>>

GetFails(p) ==
  /\ pc[p] \in {"ready", "getting"} /\ ~up[p]
  /\ Cardinality(outcome[p].succeeded) < MaxCount
  /\ Report(p, "failed", NoMessage)
  /\ Goto(p, "done")
  /\ UNCHANGED <<broker, open, wire, reply, up, msg>>

GetAnswered(p) ==
  /\ pc[p] = "getting" /\ up[p]
  /\ \/ reply[p] = "empty" /\ Goto(p, "done")
     \/ reply[p] = "message" /\ Goto(p, "drain")
  /\ reply' = [reply EXCEPT ![p] = "none"]
  /\ UNCHANGED <<broker, open, wire, up, msg, outcome>>

\* publishConfirmed starts by emptying the channel of returned messages.  The
\* client library has closed that Go channel when the AMQP channel is closed, and
\* then it is never empty: drainReturns goes round for ever, no step is left.
Drain(p) ==
  /\ pc[p] = "drain" /\ up[p]
  /\ Goto(p, "publish")
  /\ UNCHANGED <<broker, open, wire, reply, up, msg, outcome>>

\* Mutant: the message is acknowledged without waiting for the confirm.
PublishOnly(p) ==
  /\ pc[p] = "publish"
  /\ \/ up[p] /\ Send(p, "publish") /\ Goto(p, "ack")
     \/ ~up[p] /\ Goto(p, "nackUnclear") /\ UNCHANGED wire
  /\ UNCHANGED <<broker, open, reply, up, msg, outcome>>

\* It sends, or fails with an error of the connection.
Publish(p) ==
  /\ pc[p] = "publish"
  /\ \/ up[p] /\ Send(p, "publish") /\ Goto(p, "waiting")
     \/ ~up[p] /\ Goto(p, "nackUnclear") /\ UNCHANGED wire
  /\ UNCHANGED <<broker, open, reply, up, msg, outcome>>

\* Mutant: nobody tells the process that its channel has closed.
WaitForConfirm(p) ==
  /\ pc[p] = "waiting"
  /\ \/ up[p] /\ reply[p] = "confirmed" /\ Goto(p, "ack")
     \/ up[p] /\ reply[p] \in {"rejected", "returned"} /\ Goto(p, "nack")
  /\ reply' = [reply EXCEPT ![p] = "none"]
  /\ UNCHANGED <<broker, open, wire, up, msg, outcome>>

\* The confirm arrives, or the message comes back, or the context expires.  When
\* the channel closes the confirm resolves as if the broker had rejected it, or
\* the closed channel of returns reads as a return.
WaitEnds(p) ==
  /\ pc[p] = "waiting"
  /\ \/ up[p] /\ reply[p] = "confirmed" /\ Goto(p, "ack")
     \/ up[p] /\ reply[p] \in {"rejected", "returned"} /\ Goto(p, "nack")
     \/ ~up[p] /\ Goto(p, "nack")
     \/ "timeout" \in Faults /\ Goto(p, "nackUnclear")
  /\ reply' = [reply EXCEPT ![p] = "none"]
  /\ UNCHANGED <<broker, open, wire, up, msg, outcome>>

\* Mutant: the message is rejected for good instead of given back.
GiveBackDropped(p) ==
  /\ pc[p] \in {"nack", "nackUnclear"}
  /\ IF up[p] THEN Send(p, "ack") ELSE UNCHANGED wire
  /\ Report(p, IF ~up[p] \/ pc[p] = "nackUnclear" THEN "uncertain" ELSE "failed",
            msg[p])
  /\ Goto(p, "done")
  /\ UNCHANGED <<broker, open, reply, up, msg>>

\* The publish failed.  A message that cannot be given back is in doubt.
GiveBack(p) ==
  /\ pc[p] \in {"nack", "nackUnclear"}
  /\ IF up[p] THEN Send(p, "nack") ELSE UNCHANGED wire
  /\ Report(p, IF ~up[p] \/ pc[p] = "nackUnclear" THEN "uncertain" ELSE "failed",
            msg[p])
  /\ Goto(p, "done")
  /\ UNCHANGED <<broker, open, reply, up, msg>>

\* Mutant: the source is not acknowledged.
AcknowledgeNothing(p) ==
  /\ pc[p] = "ack"
  /\ Report(p, "succeeded", msg[p]) /\ Goto(p, "ready")
  /\ UNCHANGED <<broker, open, wire, reply, up, msg>>

Acknowledge(p) ==
  /\ pc[p] = "ack"
  /\ \/ up[p] /\ Send(p, "ack") /\ Report(p, "succeeded", msg[p]) /\ Goto(p, "ready")
     \/ ~up[p] /\ Report(p, "uncertain", msg[p]) /\ Goto(p, "done") /\ UNCHANGED wire
  /\ UNCHANGED <<broker, open, reply, up, msg>>

Crash(p) ==
  /\ "crash" \in Faults /\ Live(p)
  /\ Goto(p, "crashed")
  /\ UNCHANGED <<broker, open, wire, reply, up, msg, outcome>>

\* The process loses its connection, or learns that the broker has closed it.
LoseLink(p) ==
  /\ Live(p) /\ up[p] /\ "link" \in Faults
  /\ up' = [up EXCEPT ![p] = FALSE]
  /\ UNCHANGED <<broker, open, wire, reply, msg, pc, outcome>>

NoticeClosed(p) ==
  /\ Live(p) /\ up[p] /\ ~open[p]
  /\ up' = [up EXCEPT ![p] = FALSE]
  /\ UNCHANGED <<broker, open, wire, reply, msg, pc, outcome>>

-----------------------------------------------------------------------------
(***************************************************************************)
(* The broker.                                                              *)
(***************************************************************************)
Received(p, command) ==
  /\ open[p] /\ wire[p] # << >> /\ Head(wire[p]) = command
  /\ wire' = [wire EXCEPT ![p] = Tail(@)]

Answer(p, r) == reply' = [reply EXCEPT ![p] = r]

Deliver(p) ==
  /\ Received(p, "get")
  /\ \/ /\ source = {}
        /\ Answer(p, "empty") /\ UNCHANGED <<source, held, msg>>
     \/ \E m \in source :
          /\ source' = source \ {m}
          /\ held' = [held EXCEPT ![p] = m]
          /\ msg' = [msg EXCEPT ![p] = m]
          /\ Answer(p, "message")
  /\ UNCHANGED <<arrived, routable, open, up, pc, outcome>>

\* A published message that no queue takes is returned; one the broker cannot
\* be responsible for is rejected.  A process that waits no longer reads nothing.
Route(p) ==
  /\ Received(p, "publish")
  /\ \/ /\ routable
        /\ arrived' = arrived \cup {<<p, msg[p]>>}
        /\ Answer(p, "confirmed")
     \/ ~routable /\ Answer(p, "returned") /\ UNCHANGED arrived
     \/ "reject" \in Faults /\ Answer(p, "rejected") /\ UNCHANGED arrived
  /\ UNCHANGED <<source, routable, held, open, up, msg, pc, outcome>>

Forget(p) ==
  /\ Received(p, "ack")
  /\ held' = [held EXCEPT ![p] = NoMessage]
  /\ UNCHANGED <<source, arrived, routable, open, reply, up, msg, pc, outcome>>

Returned(p) == source' = source \cup ({held[p]} \ {NoMessage})

Requeue(p) ==
  /\ Received(p, "nack")
  /\ Returned(p)
  /\ held' = [held EXCEPT ![p] = NoMessage]
  /\ UNCHANGED <<arrived, routable, open, reply, up, msg, pc, outcome>>

\* A channel ends when all its process has sent is done, or when the connection
\* breaks before.
CloseChannel(p) ==
  /\ open[p]
  /\ \/ wire[p] = << >> /\ (Over(p) \/ ~up[p])
     \/ "link" \in Faults
  /\ open' = [open EXCEPT ![p] = FALSE]
  /\ wire' = [wire EXCEPT ![p] = << >>]
  /\ Returned(p)
  /\ held' = [held EXCEPT ![p] = NoMessage]
  /\ UNCHANGED <<arrived, routable, reply, up, msg, pc, outcome>>

\* Somebody deletes the target queue; nobody makes it again.
DeleteTarget ==
  /\ routable /\ "target" \in Faults
  /\ routable' = FALSE
  /\ UNCHANGED <<source, arrived, held, open, wire, reply, up, msg, pc, outcome>>

-----------------------------------------------------------------------------
Step(p) ==
  \/ Get(p) \/ EnoughMoved(p) \/ GetFails(p) \/ GetAnswered(p)
  \/ Drain(p) \/ Publish(p) \/ WaitEnds(p) \/ GiveBack(p) \/ Acknowledge(p)
  \/ NoticeClosed(p)

Serve(p) == Deliver(p) \/ Route(p) \/ Forget(p) \/ Requeue(p)

\* Mutant: only the death of the process ends its channel.
CloseDead(p) == pc[p] = "crashed" /\ CloseChannel(p)

\* The channel of a redrive that returns, dies or lost its connection is closed.
CloseDone(p) == (Over(p) \/ ~up[p]) /\ CloseChannel(p)

Halt == (\A p \in Redrives : (Over(p) \/ Spins(p)) /\ ~open[p]) /\ UNCHANGED vars

Next ==
  \/ \E p \in Redrives : \/ OpenChannel(p) \/ Step(p) \/ Crash(p) \/ LoseLink(p)
                         \/ Serve(p) \/ CloseChannel(p)
  \/ DeleteTarget
  \/ Halt

Spec == Init /\ [][Next]_vars

(***************************************************************************)
(* A live process keeps executing, and a broken connection shows (both ends *)
(* send heartbeats); the broker processes what it has received and ends the *)
(* channels of clients that are gone.                                       *)
(***************************************************************************)
FairSpec ==
  Spec /\ \A p \in Redrives : WF_vars(Step(p)) /\ WF_vars(Serve(p)) /\ WF_vars(CloseDone(p))

-----------------------------------------------------------------------------
(***************************************************************************)
(* Properties                                                               *)
(***************************************************************************)
Outcome == [succeeded : SUBSET Messages, failed : SUBSET (Messages \cup {NoMessage}),
            uncertain : SUBSET Messages]

\* Type invariant: the variables hold values of their types, and no more is
\* ever reported than was asked for.
TypeOK ==
  /\ source \subseteq Messages /\ arrived \subseteq Redrives \X Messages
  /\ routable \in BOOLEAN
  /\ held \in [Redrives -> Messages \cup {NoMessage}]
  /\ open \in [Redrives -> BOOLEAN] /\ up \in [Redrives -> BOOLEAN]
  /\ wire \in [Redrives -> Seq(Commands)]
  /\ reply \in [Redrives -> Replies]
  /\ msg \in [Redrives -> Messages \cup {NoMessage}]
  /\ pc \in [Redrives -> Labels]
  /\ outcome \in [Redrives -> Outcome]

\* No message is lost: until it has arrived in the target queue it is in the
\* source queue, or held for a channel that will give it back (README.md:234,
\* CHANGELOG.md:251), whatever breaks between publish and acknowledgement.
NothingLost ==
  \A m \in Messages :
    m \in source \/ (\E p \in Redrives : held[p] = m \/ <<p, m>> \in arrived)

\* What a redrive reports as succeeded has arrived in the target.
SucceededArrived ==
  \A p \in Redrives : \A m \in outcome[p].succeeded : <<p, m>> \in arrived

\* What a redrive that is over has brought to the target, and what the broker
\* still brings there on its behalf, is reported as succeeded or uncertain:
\* nothing that was counted as failed appears in the target later.
ArrivedReported ==
  \A p \in Redrives : pc[p] = "done" =>
    \A m \in Messages : <<p, m>> \in arrived =>
      m \in outcome[p].succeeded \cup outcome[p].uncertain

\* The counts of a redrive neither invent an arrival nor hide one.
CountsTrue == SucceededArrived /\ ArrivedReported

(***************************************************************************)
(* The inductive invariant behind the safety properties: what is on the     *)
(* wire, what the broker holds and where the process is belong together.    *)
(***************************************************************************)
Has(p, m) == <<p, m>> \in arrived
Told(p, m) == m \in outcome[p].succeeded \cup outcome[p].uncertain
Holds(p) == held[p] = msg[p] /\ msg[p] # NoMessage

\* An acknowledgement is sent for a message that has arrived, and a message is
\* asked for by a channel that holds none.
WireOf(p) ==
  \/ wire[p] = << >>
  \/ wire[p] = <<"get">> /\ held[p] = NoMessage
  \/ wire[p] \in {<<"ack">>, <<"ack", "get">>} /\ Holds(p) /\ Has(p, msg[p])
  \/ wire[p] \in {<<"publish">>, <<"publish", "nack">>} /\ Holds(p)
  \/ wire[p] = <<"nack">> /\ Holds(p)

\* What a channel the broker has open still has to do.
ChannelOf(p) ==
  /\ pc[p] = "idle" => ~open[p] /\ ~up[p]
  /\ ~open[p] => wire[p] = << >> /\ held[p] = NoMessage
  /\ open[p] /\ pc[p] = "ready" =>
       \/ wire[p] = << >> /\ held[p] = NoMessage
       \/ wire[p] = <<"ack">>
  /\ open[p] /\ pc[p] = "getting" =>
       \/ wire[p] \in {<<"get">>, <<"ack", "get">>}
       \/ wire[p] = << >> /\ reply[p] = "empty"
       \/ wire[p] = << >> /\ reply[p] = "message" /\ Holds(p)
  /\ open[p] /\ pc[p] \in {"drain", "publish", "ack"} => wire[p] = << >> /\ Holds(p)
  /\ open[p] /\ pc[p] = "waiting" => wire[p] \in {<< >>, <<"publish">>} /\ Holds(p)
  /\ open[p] /\ pc[p] \in {"nack", "nackUnclear"} =>
       wire[p] \in {<< >>, <<"publish">>} /\ Holds(p)
  /\ open[p] /\ pc[p] = "nack" /\ up[p] => wire[p] = << >>

\* What a process knows of the message it works on.
AnswerOf(p) ==
  /\ pc[p] \in {"drain", "publish", "waiting", "ack", "nack", "nackUnclear"} =>
       msg[p] # NoMessage
  /\ pc[p] \in {"idle", "ready", "drain", "publish", "ack"} => reply[p] = "none"
  /\ pc[p] = "getting" => reply[p] \in {"none", "empty", "message"}
  /\ pc[p] = "getting" /\ reply[p] # "none" => wire[p] = << >>
  /\ pc[p] = "getting" /\ reply[p] = "message" => msg[p] # NoMessage
  /\ pc[p] = "waiting" => reply[p] \in {"none", "confirmed", "rejected", "returned"}
  /\ pc[p] = "waiting" /\ reply[p] # "none" => wire[p] = << >>
  /\ pc[p] = "ack" \/ (pc[p] = "waiting" /\ reply[p] = "confirmed") => Has(p, msg[p])

\* What has arrived is reported, or the process may yet report it.
ReportOf(p) ==
  /\ \A m \in outcome[p].succeeded : Has(p, m)
  /\ \A m \in Messages : Has(p, m) /\ pc[p] # "crashed" =>
       \/ Told(p, m)
       \/ m = msg[p] /\ \/ pc[p] \in {"ack", "nackUnclear"}
                        \/ pc[p] = "nack" /\ ~up[p]
                        \/ pc[p] = "waiting" /\ reply[p] \in {"none", "confirmed"}
  /\ pc[p] = "waiting" /\ wire[p] # << >> /\ Has(p, msg[p]) => Told(p, msg[p])
  /\ pc[p] = "done" /\ wire[p] # << >> /\ Head(wire[p]) = "publish" => Told(p, msg[p])

RedriveInv ==
  /\ TypeOK /\ NothingLost
  /\ \A p \in Redrives : WireOf(p) /\ ChannelOf(p) /\ AnswerOf(p) /\ ReportOf(p)

\* A message is in one place at a time, and one that an open channel has counted
\* as moved is nowhere but with that channel, its acknowledgement under way.
OnePlace ==
  \A m \in Messages, p \in Redrives : held[p] = m =>
    m \notin source /\ \A q \in Redrives : held[q] = m => q = p

MovedOf(p) ==
  /\ pc[p] = "idle" => outcome[p].succeeded = {}
  /\ open[p] => \A m \in outcome[p].succeeded :
       /\ m \notin source
       /\ \A q \in Redrives : held[q] = m =>
            q = p /\ wire[p] \in {<<"ack">>, <<"ack", "get">>}

PlacesInv == RedriveInv /\ OnePlace /\ \A p \in Redrives : MovedOf(p)

\* A message that has arrived goes back to the source only when its redrive has
\* counted it as uncertain, has died, or lost its channel in the middle of its
\* work.  Otherwise a message arrives once, also when redrives share a queue.
ReturnedForCause ==
  [][\A p \in Redrives, m \in Messages :
       held[p] = m /\ <<p, m>> \in arrived /\ m \in source' =>
         \/ m \in outcome[p].uncertain
         \/ pc[p] = "crashed"
         \/ open[p] /\ ~open'[p] /\ (wire[p] # << >> \/ ~Over(p))]_vars

\* A redrive that was started ends, or its process dies, or it is caught in
\* drainReturns: nothing else keeps it from returning.
Terminates == \A p \in Redrives : Live(p) ~> Over(p) \/ Spins(p)

\* A redrive that is over, or that never will be, leaves no message in limbo:
\* what it held is given back to the queue or has been acknowledged.
NothingStuck == \A p \in Redrives : Over(p) \/ Spins(p) ~> held[p] = NoMessage

\* A redrive whose process lives returns, and with it the numbers of what it
\* moved, failed to move and cannot tell ("Batch operations now report bounded
\* succeeded, failed, and uncertain counts", CHANGELOG.md:70).
Reports == \A p \in Redrives : Live(p) ~> Over(p)
=============================================================================
