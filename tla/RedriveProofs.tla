---------------------------- MODULE RedriveProofs ----------------------------
(***************************************************************************)
(* Proofs about Redrive, for any processes, any messages and any failures.  *)
(***************************************************************************)
EXTENDS Redrive, SequenceTheorems, TLAPS

Sound(p) == WireOf(p) /\ ChannelOf(p) /\ AnswerOf(p) /\ ReportOf(p)

\* A step of one process, or of the broker for it, is nobody else's business.
Only(p) ==
  \A q \in Redrives \ {p} :
    /\ held'[q] = held[q] /\ open'[q] = open[q] /\ wire'[q] = wire[q]
    /\ reply'[q] = reply[q] /\ up'[q] = up[q] /\ msg'[q] = msg[q]
    /\ pc'[q] = pc[q] /\ outcome'[q] = outcome[q]
    /\ \A m : <<q, m>> \in arrived' <=> <<q, m>> \in arrived

-----------------------------------------------------------------------------
(***************************************************************************)
(* The types.                                                               *)
(***************************************************************************)
LEMMA SendType ==
  ASSUME TypeOK, NEW p \in Redrives, NEW c \in Commands, Send(p, c)
  PROVE  /\ wire' \in [Redrives -> Seq(Commands)]
         /\ \A q \in Redrives \ {p} : wire'[q] = wire[q]
         /\ wire'[p] = IF open[p] THEN Append(wire[p], c) ELSE wire[p]
BY DEF TypeOK, Send

LEMMA ReceivedType ==
  ASSUME TypeOK, NEW p \in Redrives, NEW c \in Commands, Received(p, c)
  PROVE  /\ wire' \in [Redrives -> Seq(Commands)]
         /\ \A q \in Redrives \ {p} : wire'[q] = wire[q]
         /\ wire'[p] = Tail(wire[p])
BY DEF TypeOK, Received

LEMMA ReportType ==
  ASSUME TypeOK, NEW p \in Redrives, NEW m \in Messages,
         NEW f \in {"succeeded", "failed", "uncertain"}, Report(p, f, m)
  PROVE  /\ outcome' \in [Redrives -> Outcome]
         /\ \A q \in Redrives \ {p} : outcome'[q] = outcome[q]
         /\ outcome'[p].succeeded = IF f = "succeeded" THEN outcome[p].succeeded \cup {m}
                                     ELSE outcome[p].succeeded
         /\ outcome'[p].uncertain = IF f = "uncertain" THEN outcome[p].uncertain \cup {m}
                                     ELSE outcome[p].uncertain
<1> DEFINE r == [outcome[p] EXCEPT ![f] = @ \cup {m}]
<1>1. outcome[p] \in Outcome
  BY DEF TypeOK
<1>2. outcome' = [outcome EXCEPT ![p] = r]
  BY DEF Report
<1>3. r \in Outcome
  BY <1>1 DEF Outcome
<1>4. /\ r.succeeded = IF f = "succeeded" THEN outcome[p].succeeded \cup {m} ELSE outcome[p].succeeded
      /\ r.uncertain = IF f = "uncertain" THEN outcome[p].uncertain \cup {m} ELSE outcome[p].uncertain
  BY <1>1 DEF Outcome
<1> QED
  BY <1>2, <1>3, <1>4 DEF TypeOK

LEMMA Framed ==
  ASSUME NEW p \in Redrives, NEW q \in Redrives \ {p}, Sound(q), Only(p)
  PROVE  Sound(q)'
<1>1. /\ held'[q] = held[q] /\ open'[q] = open[q] /\ wire'[q] = wire[q]
      /\ reply'[q] = reply[q] /\ up'[q] = up[q] /\ msg'[q] = msg[q]
      /\ pc'[q] = pc[q] /\ outcome'[q] = outcome[q]
      /\ \A m : <<q, m>> \in arrived' <=> <<q, m>> \in arrived
  BY DEF Only
<1>2. WireOf(q)'
  BY <1>1 DEF Sound, WireOf, Holds, Has
<1>3. ChannelOf(q)'
  BY <1>1 DEF Sound, ChannelOf, Holds
<1>4. AnswerOf(q)'
  BY <1>1 DEF Sound, AnswerOf, Has
<1>5. ReportOf(q)'
  BY <1>1 DEF Sound, ReportOf, Told, Has
<1> QED
  BY <1>2, <1>3, <1>4, <1>5 DEF Sound

LEMMA AppendSecond ==
  ASSUME NEW c \in Commands, NEW d \in Commands
  PROVE  Append(<<c>>, d) = <<c, d>>
<1> DEFINE t == Append(<<c>>, d)
<1>1. <<c>> \in Seq(Commands) /\ Len(<<c>>) = 1 /\ <<c>>[1] = c
  OBVIOUS
<1>2. t \in Seq(Commands) /\ Len(t) = 2 /\ t[1] = c /\ t[2] = d
  BY <1>1
<1>3. /\ <<c, d>> \in Seq(Commands) /\ Len(<<c, d>>) = 2
      /\ <<c, d>>[1] = c /\ <<c, d>>[2] = d
  OBVIOUS
<1> HIDE DEF t
<1>4. \A i \in 1 .. Len(t) : t[i] = <<c, d>>[i]
  BY <1>2, <1>3
<1>5. t = <<c, d>>
  BY <1>2, <1>3, <1>4, SeqEqual
<1> QED
  BY <1>5 DEF t

LEMMA Appends ==
  /\ \A c \in Commands : Append(<< >>, c) = <<c>>
  /\ Append(<<"ack">>, "get") = <<"ack", "get">>
  /\ Append(<<"publish">>, "nack") = <<"publish", "nack">>
<1>1. \A c \in Commands : Append(<< >>, c) = <<c>>
  OBVIOUS
<1>2. {"ack", "get", "publish", "nack"} \subseteq Commands
  BY DEF Commands
<1> QED
  BY <1>1, <1>2, AppendSecond

LEMMA Tails ==
  /\ \A c \in Commands : Tail(<<c>>) = << >> /\ Head(<<c>>) = c /\ <<c>> # << >>
  /\ \A c, d \in Commands :
       Tail(<<c, d>>) = <<d>> /\ Head(<<c, d>>) = c /\ <<c, d>> # << >>
BY DEF Commands

LEMMA OpenChannelStep ==
  ASSUME RedriveInv, NEW p \in Redrives, OpenChannel(p)
  PROVE  TypeOK' /\ Only(p) /\ Sound(p)' /\ NothingLost'
<1>1. TypeOK /\ NothingLost /\ Sound(p)
  BY DEF RedriveInv, Sound
<1>2. TypeOK'
  BY <1>1 DEF TypeOK, OpenChannel, broker, Goto, Labels, Replies
<1>3. Only(p)
  BY <1>1 DEF TypeOK, OpenChannel, broker, Goto, Only
<1>4. WireOf(p)'
  BY <1>1 DEF TypeOK, OpenChannel, broker, Goto, Sound, WireOf, ChannelOf, AnswerOf, Holds, Has
<1>5. ChannelOf(p)'
  BY <1>1 DEF TypeOK, OpenChannel, broker, Goto, Sound, WireOf, ChannelOf, AnswerOf, Holds, Live
<1>6. AnswerOf(p)'
  BY <1>1 DEF TypeOK, OpenChannel, broker, Goto, Sound, AnswerOf, ChannelOf, Has
<1>7. ReportOf(p)'
  BY <1>1 DEF TypeOK, OpenChannel, broker, Goto, Sound, ReportOf, AnswerOf, ChannelOf, Has, Told
<1>8. NothingLost'
  BY <1>1 DEF NothingLost, OpenChannel, broker
<1> QED
  BY <1>2, <1>3, <1>4, <1>5, <1>6, <1>7, <1>8 DEF Sound

LEMMA GetStep ==
  ASSUME RedriveInv, NEW p \in Redrives, Get(p)
  PROVE  TypeOK' /\ Only(p) /\ Sound(p)' /\ NothingLost'
<1>1. TypeOK /\ NothingLost /\ Sound(p)
  BY DEF RedriveInv, Sound
<1>2. TypeOK'
  BY <1>1 DEF TypeOK, Get, broker, Goto, Send, Commands, Labels, Replies
<1>3. Only(p)
  BY <1>1 DEF TypeOK, Get, broker, Goto, Send, Commands, Only
<1>4. WireOf(p)'
  <2>1. /\ wire'[p] = IF open[p] THEN Append(wire[p], "get") ELSE wire[p]
        /\ held'[p] = held[p] /\ msg'[p] = msg[p] /\ arrived' = arrived
    BY <1>1, SendType DEF Get, Commands, broker
  <2>2. CASE ~open[p]
    BY <1>1, <2>1, <2>2 DEF Sound, ChannelOf, WireOf
  <2>3. CASE open[p] /\ wire[p] = << >> /\ held[p] = NoMessage
    BY <2>1, <2>3, Appends DEF WireOf, Commands
  <2>4. CASE open[p] /\ wire[p] = <<"ack">>
    <3>1. Holds(p) /\ Has(p, msg[p])
      BY <1>1, <2>4 DEF Sound, WireOf
    <3> QED
      BY <2>1, <2>4, <3>1, Appends DEF WireOf, Holds, Has
  <2> QED
    BY <1>1, <2>2, <2>3, <2>4 DEF Sound, ChannelOf, Get
<1>5. ChannelOf(p)'
  BY <1>1, Appends DEF TypeOK, Get, broker, Goto, Send, Commands, Sound, WireOf, ChannelOf, AnswerOf, Holds, Live
<1>6. AnswerOf(p)'
  BY <1>1 DEF TypeOK, Get, broker, Goto, Send, Commands, Sound, AnswerOf, ChannelOf, Has
<1>7. ReportOf(p)'
  BY <1>1 DEF TypeOK, Get, broker, Goto, Send, Commands, Sound, ReportOf, AnswerOf, ChannelOf, Has, Told
<1>8. NothingLost'
  BY <1>1 DEF NothingLost, Get, broker
<1> QED
  BY <1>2, <1>3, <1>4, <1>5, <1>6, <1>7, <1>8 DEF Sound

LEMMA EnoughMovedStep ==
  ASSUME RedriveInv, NEW p \in Redrives, EnoughMoved(p)
  PROVE  TypeOK' /\ Only(p) /\ Sound(p)' /\ NothingLost'
<1>1. TypeOK /\ NothingLost /\ Sound(p)
  BY DEF RedriveInv, Sound
<1>2. TypeOK'
  BY <1>1 DEF TypeOK, EnoughMoved, broker, Goto, Labels, Replies
<1>3. Only(p)
  BY <1>1 DEF TypeOK, EnoughMoved, broker, Goto, Only
<1>4. WireOf(p)'
  BY <1>1 DEF TypeOK, EnoughMoved, broker, Goto, Sound, WireOf, ChannelOf, AnswerOf, Holds, Has
<1>5. ChannelOf(p)'
  BY <1>1 DEF TypeOK, EnoughMoved, broker, Goto, Sound, WireOf, ChannelOf, AnswerOf, Holds, Live
<1>6. AnswerOf(p)'
  BY <1>1 DEF TypeOK, EnoughMoved, broker, Goto, Sound, AnswerOf, ChannelOf, Has
<1>7. ReportOf(p)'
  BY <1>1 DEF TypeOK, EnoughMoved, broker, Goto, Sound, ReportOf, AnswerOf, ChannelOf, Has, Told
<1>8. NothingLost'
  BY <1>1 DEF NothingLost, EnoughMoved, broker
<1> QED
  BY <1>2, <1>3, <1>4, <1>5, <1>6, <1>7, <1>8 DEF Sound

LEMMA GetFailsStep ==
  ASSUME RedriveInv, NEW p \in Redrives, GetFails(p)
  PROVE  TypeOK' /\ Only(p) /\ Sound(p)' /\ NothingLost'
<1>1. TypeOK /\ NothingLost /\ Sound(p)
  BY DEF RedriveInv, Sound
<1>2. TypeOK'
  BY <1>1, ZenonT(30) DEF TypeOK, GetFails, broker, Goto, Report, Outcome, Labels, Replies
<1>3. Only(p)
  BY <1>1 DEF TypeOK, GetFails, broker, Goto, Report, Outcome, Only
<1>4. WireOf(p)'
  BY <1>1 DEF TypeOK, GetFails, broker, Goto, Report, Outcome, Sound, WireOf, ChannelOf, AnswerOf, Holds, Has
<1>5. ChannelOf(p)'
  BY <1>1 DEF TypeOK, GetFails, broker, Goto, Report, Outcome, Sound, WireOf, ChannelOf, AnswerOf, Holds, Live
<1>6. AnswerOf(p)'
  BY <1>1 DEF TypeOK, GetFails, broker, Goto, Report, Outcome, Sound, AnswerOf, ChannelOf, Has
<1>7. ReportOf(p)'
  BY <1>1 DEF TypeOK, GetFails, broker, Goto, Report, Outcome, Sound, ReportOf, AnswerOf, ChannelOf, Has, Told
<1>8. NothingLost'
  BY <1>1 DEF NothingLost, GetFails, broker
<1> QED
  BY <1>2, <1>3, <1>4, <1>5, <1>6, <1>7, <1>8 DEF Sound

LEMMA GetAnsweredStep ==
  ASSUME RedriveInv, NEW p \in Redrives, GetAnswered(p)
  PROVE  TypeOK' /\ Only(p) /\ Sound(p)' /\ NothingLost'
<1>1. TypeOK /\ NothingLost /\ Sound(p)
  BY DEF RedriveInv, Sound
<1>2. TypeOK'
  BY <1>1 DEF TypeOK, GetAnswered, broker, Goto, Labels, Replies
<1>3. Only(p)
  BY <1>1 DEF TypeOK, GetAnswered, broker, Goto, Only
<1>4. WireOf(p)'
  BY <1>1 DEF TypeOK, GetAnswered, broker, Goto, Sound, WireOf, ChannelOf, AnswerOf, Holds, Has
<1>5. ChannelOf(p)'
  <2>1. /\ wire'[p] = wire[p] /\ held'[p] = held[p] /\ msg'[p] = msg[p]
        /\ open'[p] = open[p] /\ up'[p] = up[p]
        /\ pc'[p] = IF reply[p] = "empty" THEN "done" ELSE "drain"
        /\ reply[p] \in {"empty", "message"} /\ pc[p] = "getting"
    BY <1>1 DEF TypeOK, GetAnswered, Goto, broker
  <2>2. wire[p] = << >>
    BY <1>1, <2>1 DEF Sound, AnswerOf
  <2>3. wire[p] # <<"get">> /\ wire[p] # <<"ack", "get">>
    BY <2>2
  <2>4. open[p] /\ reply[p] = "message" => Holds(p)
    BY <1>1, <2>1, <2>3 DEF Sound, ChannelOf
  <2> QED
    BY <1>1, <2>1, <2>2, <2>4 DEF Sound, ChannelOf, Holds
<1>6. AnswerOf(p)'
  BY <1>1 DEF TypeOK, GetAnswered, broker, Goto, Sound, AnswerOf, ChannelOf, Has
<1>7. ReportOf(p)'
  BY <1>1 DEF TypeOK, GetAnswered, broker, Goto, Sound, ReportOf, AnswerOf, ChannelOf, Has, Told
<1>8. NothingLost'
  BY <1>1 DEF NothingLost, GetAnswered, broker
<1> QED
  BY <1>2, <1>3, <1>4, <1>5, <1>6, <1>7, <1>8 DEF Sound

LEMMA DrainStep ==
  ASSUME RedriveInv, NEW p \in Redrives, Drain(p)
  PROVE  TypeOK' /\ Only(p) /\ Sound(p)' /\ NothingLost'
<1>1. TypeOK /\ NothingLost /\ Sound(p)
  BY DEF RedriveInv, Sound
<1>2. TypeOK'
  BY <1>1 DEF TypeOK, Drain, broker, Goto, Labels, Replies
<1>3. Only(p)
  BY <1>1 DEF TypeOK, Drain, broker, Goto, Only
<1>4. WireOf(p)'
  BY <1>1 DEF TypeOK, Drain, broker, Goto, Sound, WireOf, ChannelOf, AnswerOf, Holds, Has
<1>5. ChannelOf(p)'
  BY <1>1 DEF TypeOK, Drain, broker, Goto, Sound, WireOf, ChannelOf, AnswerOf, Holds, Live
<1>6. AnswerOf(p)'
  BY <1>1 DEF TypeOK, Drain, broker, Goto, Sound, AnswerOf, ChannelOf, Has
<1>7. ReportOf(p)'
  BY <1>1 DEF TypeOK, Drain, broker, Goto, Sound, ReportOf, AnswerOf, ChannelOf, Has, Told
<1>8. NothingLost'
  BY <1>1 DEF NothingLost, Drain, broker
<1> QED
  BY <1>2, <1>3, <1>4, <1>5, <1>6, <1>7, <1>8 DEF Sound

LEMMA PublishStep ==
  ASSUME RedriveInv, NEW p \in Redrives, Publish(p)
  PROVE  TypeOK' /\ Only(p) /\ Sound(p)' /\ NothingLost'
<1>1. TypeOK /\ NothingLost /\ Sound(p)
  BY DEF RedriveInv, Sound
<1>2. TypeOK'
  <2>1. wire' \in [Redrives -> Seq(Commands)]
    BY <1>1, SendType DEF TypeOK, Publish, Commands
  <2> QED
    BY <1>1, <2>1 DEF TypeOK, Publish, broker, Goto, Labels
<1>3. Only(p)
  BY <1>1 DEF TypeOK, Publish, broker, Goto, Send, Commands, Only
<1>4. WireOf(p)'
  <2>1. /\ wire'[p] \in {wire[p], IF open[p] THEN Append(wire[p], "publish") ELSE wire[p]}
        /\ held'[p] = held[p] /\ msg'[p] = msg[p] /\ arrived' = arrived
    BY <1>1, SendType DEF Publish, Commands, broker
  <2>2. CASE ~open[p]
    BY <1>1, <2>1, <2>2 DEF Sound, ChannelOf, WireOf
  <2>3. CASE open[p]
    <3>1. wire[p] = << >> /\ Holds(p)
      BY <1>1, <2>3 DEF Sound, ChannelOf, AnswerOf, Publish
    <3>2. wire'[p] \in {<< >>, <<"publish">>}
      BY <2>1, <2>3, <3>1, Appends DEF Commands
    <3> QED
      BY <2>1, <3>1, <3>2 DEF WireOf, Holds, Has
  <2> QED
    BY <2>2, <2>3
<1>5. ChannelOf(p)'
  <2>1. /\ wire'[p] \in {wire[p], IF open[p] THEN Append(wire[p], "publish") ELSE wire[p]}
        /\ held'[p] = held[p] /\ msg'[p] = msg[p] /\ open'[p] = open[p]
    BY <1>1, SendType DEF Publish, Commands, broker
  <2>2. pc'[p] \in {"waiting", "nackUnclear"}
    BY <1>1 DEF TypeOK, Publish, Goto
  <2>3. CASE ~open[p]
    BY <1>1, <2>1, <2>2, <2>3 DEF Sound, ChannelOf
  <2>4. CASE open[p]
    <3>1. wire[p] = << >> /\ Holds(p)
      BY <1>1, <2>4 DEF Sound, ChannelOf, AnswerOf, Publish
    <3>2. wire'[p] \in {<< >>, <<"publish">>}
      BY <2>1, <2>4, <3>1, Appends DEF Commands
    <3>3. Holds(p)'
      BY <2>1, <3>1 DEF Holds
    <3> QED
      BY <2>1, <2>2, <2>4, <3>2, <3>3 DEF ChannelOf
  <2> QED
    BY <2>3, <2>4
<1>6. AnswerOf(p)'
  BY <1>1 DEF TypeOK, Publish, broker, Goto, Send, Commands, Sound, AnswerOf, ChannelOf, Has
<1>7. ReportOf(p)'
  BY <1>1 DEF TypeOK, Publish, broker, Goto, Send, Commands, Sound, ReportOf, AnswerOf, ChannelOf, Has, Told
<1>8. NothingLost'
  BY <1>1 DEF NothingLost, Publish, broker
<1> QED
  BY <1>2, <1>3, <1>4, <1>5, <1>6, <1>7, <1>8 DEF Sound

LEMMA WaitEndsStep ==
  ASSUME RedriveInv, NEW p \in Redrives, WaitEnds(p)
  PROVE  TypeOK' /\ Only(p) /\ Sound(p)' /\ NothingLost'
<1>1. TypeOK /\ NothingLost /\ Sound(p)
  BY DEF RedriveInv, Sound
<1>2. TypeOK'
  BY <1>1 DEF TypeOK, WaitEnds, broker, Goto, Labels, Replies
<1>3. Only(p)
  BY <1>1 DEF TypeOK, WaitEnds, broker, Goto, Only
<1>4. WireOf(p)'
  BY <1>1 DEF TypeOK, WaitEnds, broker, Goto, Sound, WireOf, ChannelOf, AnswerOf, Holds, Has
<1>5. ChannelOf(p)'
  BY <1>1 DEF TypeOK, WaitEnds, broker, Goto, Sound, WireOf, ChannelOf, AnswerOf, Holds, Live
<1>6. AnswerOf(p)'
  BY <1>1 DEF TypeOK, WaitEnds, broker, Goto, Sound, AnswerOf, ChannelOf, Has
<1>7. ReportOf(p)'
  BY <1>1 DEF TypeOK, WaitEnds, broker, Goto, Sound, ReportOf, AnswerOf, ChannelOf, Has, Told
<1>8. NothingLost'
  BY <1>1 DEF NothingLost, WaitEnds, broker
<1> QED
  BY <1>2, <1>3, <1>4, <1>5, <1>6, <1>7, <1>8 DEF Sound

LEMMA GiveBackStep ==
  ASSUME RedriveInv, NEW p \in Redrives, GiveBack(p)
  PROVE  TypeOK' /\ Only(p) /\ Sound(p)' /\ NothingLost'
<1>1. TypeOK /\ NothingLost /\ Sound(p)
  BY DEF RedriveInv, Sound
<1>2. TypeOK'
  <2>1. wire' \in [Redrives -> Seq(Commands)]
    BY <1>1, SendType DEF TypeOK, GiveBack, Commands
  <2>2. msg[p] \in Messages
    BY <1>1 DEF TypeOK, Sound, AnswerOf, GiveBack
  <2>3. outcome' \in [Redrives -> Outcome]
    BY <1>1, <2>2, ReportType DEF GiveBack
  <2> QED
    BY <1>1, <2>1, <2>3 DEF TypeOK, GiveBack, broker, Goto, Labels
<1>3. Only(p)
  BY <1>1 DEF TypeOK, GiveBack, broker, Goto, Send, Commands, Report, Outcome, Only
<1>4. WireOf(p)'
  BY <1>1, Appends, ZenonT(30) DEF TypeOK, GiveBack, broker, Goto, Send, Commands, Report, Outcome, Sound, WireOf, ChannelOf, AnswerOf, Holds, Has
<1>5. ChannelOf(p)'
  BY <1>1, Appends DEF TypeOK, GiveBack, broker, Goto, Send, Commands, Report, Outcome, Sound, WireOf, ChannelOf, AnswerOf, Holds, Live
<1>6. AnswerOf(p)'
  BY <1>1 DEF TypeOK, GiveBack, broker, Goto, Send, Commands, Report, Outcome, Sound, AnswerOf, ChannelOf, Has
<1>7. ReportOf(p)'
  BY <1>1 DEF TypeOK, GiveBack, broker, Goto, Send, Commands, Report, Outcome, Sound, ReportOf, AnswerOf, ChannelOf, Has, Told
<1>8. NothingLost'
  BY <1>1 DEF NothingLost, GiveBack, broker
<1> QED
  BY <1>2, <1>3, <1>4, <1>5, <1>6, <1>7, <1>8 DEF Sound

LEMMA AcknowledgeStep ==
  ASSUME RedriveInv, NEW p \in Redrives, Acknowledge(p)
  PROVE  TypeOK' /\ Only(p) /\ Sound(p)' /\ NothingLost'
<1>1. TypeOK /\ NothingLost /\ Sound(p)
  BY DEF RedriveInv, Sound
<1>2. TypeOK'
  <2>1. wire' \in [Redrives -> Seq(Commands)]
    BY <1>1, SendType DEF TypeOK, Acknowledge, Commands
  <2>2. msg[p] \in Messages
    BY <1>1 DEF TypeOK, Sound, AnswerOf, Acknowledge
  <2>3. outcome' \in [Redrives -> Outcome]
    BY <1>1, <2>2, ReportType DEF Acknowledge
  <2> QED
    BY <1>1, <2>1, <2>3 DEF TypeOK, Acknowledge, broker, Goto, Labels
<1>3. Only(p)
  BY <1>1 DEF TypeOK, Acknowledge, broker, Goto, Send, Commands, Report, Outcome, Only
<1>4. WireOf(p)'
  <2>1. /\ wire'[p] \in {wire[p], IF open[p] THEN Append(wire[p], "ack") ELSE wire[p]}
        /\ held'[p] = held[p] /\ msg'[p] = msg[p] /\ arrived' = arrived
    BY <1>1, SendType DEF Acknowledge, Commands, broker
  <2>2. CASE ~open[p]
    BY <1>1, <2>1, <2>2 DEF Sound, ChannelOf, WireOf
  <2>3. CASE open[p]
    <3>1. wire[p] = << >> /\ Holds(p) /\ Has(p, msg[p])
      BY <1>1, <2>3 DEF Sound, ChannelOf, AnswerOf, Acknowledge
    <3>2. wire'[p] \in {<< >>, <<"ack">>}
      BY <2>1, <2>3, <3>1, Appends DEF Commands
    <3> QED
      BY <2>1, <3>1, <3>2 DEF WireOf, Holds, Has
  <2> QED
    BY <2>2, <2>3
<1>5. ChannelOf(p)'
  BY <1>1, Appends DEF TypeOK, Acknowledge, broker, Goto, Send, Commands, Report, Outcome, Sound, WireOf, ChannelOf, AnswerOf, Holds, Live
<1>6. AnswerOf(p)'
  BY <1>1 DEF TypeOK, Acknowledge, broker, Goto, Send, Commands, Report, Outcome, Sound, AnswerOf, ChannelOf, Has
<1>7. ReportOf(p)'
  <2>1. /\ arrived' = arrived /\ msg'[p] = msg[p] /\ reply'[p] = reply[p]
        /\ pc[p] = "ack" /\ pc'[p] \in {"ready", "done"}
    BY <1>1 DEF TypeOK, Acknowledge, Goto, broker
  <2>2. Has(p, msg[p]) /\ msg[p] \in Messages
    BY <1>1, <2>1 DEF TypeOK, Sound, AnswerOf
  <2>3. \/ /\ outcome'[p].succeeded = outcome[p].succeeded \cup {msg[p]}
           /\ outcome'[p].uncertain = outcome[p].uncertain
        \/ /\ outcome'[p].succeeded = outcome[p].succeeded
           /\ outcome'[p].uncertain = outcome[p].uncertain \cup {msg[p]}
    BY <1>1, <2>2, ReportType DEF Acknowledge
  <2>4. Told(p, msg[p])' /\ \A m : Told(p, m) => Told(p, m)'
    BY <2>1, <2>3 DEF Told
  <2>5. \A m \in outcome'[p].succeeded : Has(p, m)'
    BY <1>1, <2>1, <2>2, <2>3 DEF Sound, ReportOf, Has
  <2>6. \A m \in Messages : Has(p, m)' => Told(p, m)'
    BY <1>1, <2>1, <2>4 DEF Sound, ReportOf, Has
  <2> QED
    BY <2>1, <2>4, <2>5, <2>6 DEF ReportOf
<1>8. NothingLost'
  BY <1>1 DEF NothingLost, Acknowledge, broker
<1> QED
  BY <1>2, <1>3, <1>4, <1>5, <1>6, <1>7, <1>8 DEF Sound

LEMMA CrashStep ==
  ASSUME RedriveInv, NEW p \in Redrives, Crash(p)
  PROVE  TypeOK' /\ Only(p) /\ Sound(p)' /\ NothingLost'
<1>1. TypeOK /\ NothingLost /\ Sound(p)
  BY DEF RedriveInv, Sound
<1>2. TypeOK'
  BY <1>1 DEF TypeOK, Crash, broker, Goto, Labels, Replies
<1>3. Only(p)
  BY <1>1 DEF TypeOK, Crash, broker, Goto, Only
<1>4. WireOf(p)'
  BY <1>1 DEF TypeOK, Crash, broker, Goto, Sound, WireOf, ChannelOf, AnswerOf, Holds, Has
<1>5. ChannelOf(p)'
  BY <1>1 DEF TypeOK, Crash, broker, Goto, Sound, WireOf, ChannelOf, AnswerOf, Holds, Live
<1>6. AnswerOf(p)'
  BY <1>1 DEF TypeOK, Crash, broker, Goto, Sound, AnswerOf, ChannelOf, Has
<1>7. ReportOf(p)'
  BY <1>1 DEF TypeOK, Crash, broker, Goto, Sound, ReportOf, AnswerOf, ChannelOf, Has, Told
<1>8. NothingLost'
  BY <1>1 DEF NothingLost, Crash, broker
<1> QED
  BY <1>2, <1>3, <1>4, <1>5, <1>6, <1>7, <1>8 DEF Sound

LEMMA LoseLinkStep ==
  ASSUME RedriveInv, NEW p \in Redrives, LoseLink(p)
  PROVE  TypeOK' /\ Only(p) /\ Sound(p)' /\ NothingLost'
<1>1. TypeOK /\ NothingLost /\ Sound(p)
  BY DEF RedriveInv, Sound
<1>2. TypeOK'
  BY <1>1 DEF TypeOK, LoseLink, broker, Labels, Replies
<1>3. Only(p)
  BY <1>1 DEF TypeOK, LoseLink, broker, Only
<1>4. WireOf(p)'
  BY <1>1 DEF TypeOK, LoseLink, broker, Sound, WireOf, ChannelOf, AnswerOf, Holds, Has
<1>5. ChannelOf(p)'
  BY <1>1 DEF TypeOK, LoseLink, broker, Sound, WireOf, ChannelOf, AnswerOf, Holds, Live
<1>6. AnswerOf(p)'
  BY <1>1 DEF TypeOK, LoseLink, broker, Sound, AnswerOf, ChannelOf, Has
<1>7. ReportOf(p)'
  BY <1>1 DEF TypeOK, LoseLink, broker, Sound, ReportOf, AnswerOf, ChannelOf, Has, Told
<1>8. NothingLost'
  BY <1>1 DEF NothingLost, LoseLink, broker
<1> QED
  BY <1>2, <1>3, <1>4, <1>5, <1>6, <1>7, <1>8 DEF Sound

LEMMA NoticeClosedStep ==
  ASSUME RedriveInv, NEW p \in Redrives, NoticeClosed(p)
  PROVE  TypeOK' /\ Only(p) /\ Sound(p)' /\ NothingLost'
<1>1. TypeOK /\ NothingLost /\ Sound(p)
  BY DEF RedriveInv, Sound
<1>2. TypeOK'
  BY <1>1 DEF TypeOK, NoticeClosed, broker, Labels, Replies
<1>3. Only(p)
  BY <1>1 DEF TypeOK, NoticeClosed, broker, Only
<1>4. WireOf(p)'
  BY <1>1 DEF TypeOK, NoticeClosed, broker, Sound, WireOf, ChannelOf, AnswerOf, Holds, Has
<1>5. ChannelOf(p)'
  BY <1>1 DEF TypeOK, NoticeClosed, broker, Sound, WireOf, ChannelOf, AnswerOf, Holds, Live
<1>6. AnswerOf(p)'
  BY <1>1 DEF TypeOK, NoticeClosed, broker, Sound, AnswerOf, ChannelOf, Has
<1>7. ReportOf(p)'
  BY <1>1 DEF TypeOK, NoticeClosed, broker, Sound, ReportOf, AnswerOf, ChannelOf, Has, Told
<1>8. NothingLost'
  BY <1>1 DEF NothingLost, NoticeClosed, broker
<1> QED
  BY <1>2, <1>3, <1>4, <1>5, <1>6, <1>7, <1>8 DEF Sound

-----------------------------------------------------------------------------
(***************************************************************************)
(* The steps of the broker.  What it receives tells what it holds for the   *)
(* channel and where the process can be.                                    *)
(***************************************************************************)
LEMMA Processes ==
  ASSUME RedriveInv, NEW p \in Redrives, NEW c \in Commands, Received(p, c)
  PROVE  /\ open[p] /\ pc[p] \in Labels
         /\ c = "get" => /\ wire[p] = <<"get">> /\ wire'[p] = << >> /\ held[p] = NoMessage
                         /\ pc[p] \in {"getting", "done", "crashed"}
         /\ c = "publish" =>
              /\ Holds(p)
              /\ \/ /\ wire[p] = <<"publish">> /\ wire'[p] = << >>
                    /\ \/ pc[p] \in {"waiting", "nackUnclear", "done", "crashed"}
                       \/ pc[p] = "nack" /\ ~up[p]
                 \/ /\ wire[p] = <<"publish", "nack">> /\ wire'[p] = <<"nack">>
                    /\ pc[p] \in {"done", "crashed"}
         /\ c = "ack" =>
              /\ Holds(p) /\ Has(p, msg[p])
              /\ \/ /\ wire[p] = <<"ack">> /\ wire'[p] = << >>
                    /\ pc[p] \in {"ready", "done", "crashed"}
                 \/ /\ wire[p] = <<"ack", "get">> /\ wire'[p] = <<"get">>
                    /\ pc[p] \in {"getting", "done", "crashed"}
         /\ c = "nack" => /\ wire[p] = <<"nack">> /\ wire'[p] = << >> /\ Holds(p)
                          /\ pc[p] \in {"done", "crashed"}
<1>1. TypeOK /\ Sound(p) /\ open[p] /\ wire[p] # << >> /\ Head(wire[p]) = c
  BY DEF RedriveInv, Sound, Received
<1>2. wire'[p] = Tail(wire[p]) /\ pc[p] \in Labels
  BY <1>1, ReceivedType DEF TypeOK
<1>3. pc[p] # "idle"
  BY <1>1 DEF Sound, ChannelOf
<1>4. /\ c = "get" => wire[p] = <<"get">> /\ wire'[p] = << >> /\ held[p] = NoMessage
      /\ c = "publish" =>
           /\ Holds(p)
           /\ \/ wire[p] = <<"publish">> /\ wire'[p] = << >>
              \/ wire[p] = <<"publish", "nack">> /\ wire'[p] = <<"nack">>
      /\ c = "ack" =>
           /\ Holds(p) /\ Has(p, msg[p])
           /\ \/ wire[p] = <<"ack">> /\ wire'[p] = << >>
              \/ wire[p] = <<"ack", "get">> /\ wire'[p] = <<"get">>
      /\ c = "nack" => wire[p] = <<"nack">> /\ wire'[p] = << >> /\ Holds(p)
  <2>1. CASE wire[p] = <<"get">>
    <3>1. c = "get" /\ wire'[p] = << >>
      BY <1>1, <1>2, <2>1, Tails DEF Commands
    <3> QED
      BY <1>1, <2>1, <3>1, Tails DEF Sound, WireOf, Commands
  <2>2. CASE wire[p] = <<"publish">>
    <3>1. c = "publish" /\ wire'[p] = << >>
      BY <1>1, <1>2, <2>2, Tails DEF Commands
    <3> QED
      BY <1>1, <2>2, <3>1, Tails DEF Sound, WireOf, Commands
  <2>3. CASE wire[p] = <<"publish", "nack">>
    <3>1. c = "publish" /\ wire'[p] = <<"nack">>
      BY <1>1, <1>2, <2>3, Tails DEF Commands
    <3>2. Holds(p)
      BY <1>1, <2>3, <3>1, Tails DEF Sound, WireOf, Commands
    <3> QED
      BY <2>3, <3>1, <3>2
  <2>4. CASE wire[p] = <<"ack">>
    <3>1. c = "ack" /\ wire'[p] = << >>
      BY <1>1, <1>2, <2>4, Tails DEF Commands
    <3> QED
      BY <1>1, <2>4, <3>1, Tails DEF Sound, WireOf, Commands
  <2>5. CASE wire[p] = <<"ack", "get">>
    <3>1. c = "ack" /\ wire'[p] = <<"get">>
      BY <1>1, <1>2, <2>5, Tails DEF Commands
    <3>2. Holds(p) /\ Has(p, msg[p])
      BY <1>1, <2>5, <3>1, Tails DEF Sound, WireOf, Commands
    <3> QED
      BY <2>5, <3>1, <3>2
  <2>6. CASE wire[p] = <<"nack">>
    <3>1. c = "nack" /\ wire'[p] = << >>
      BY <1>1, <1>2, <2>6, Tails DEF Commands
    <3> QED
      BY <1>1, <2>6, <3>1, Tails DEF Sound, WireOf, Commands
  <2> QED
    BY <1>1, <2>1, <2>2, <2>3, <2>4, <2>5, <2>6 DEF Sound, WireOf
<1>5. /\ <<"get">> # <<"ack">> /\ <<"nack">> # <<"ack">> /\ <<"publish">> # <<"ack">>
      /\ <<"nack">> # <<"get">> /\ <<"publish">> # <<"get">> /\ <<"nack">> # <<"publish">>
      /\ <<"get">> # << >> /\ <<"ack">> # << >> /\ <<"nack">> # << >> /\ <<"publish">> # << >>
  OBVIOUS
<1>6. \A b, d \in Commands : <<b, d>> # << >> /\ (\A e \in Commands : <<b, d>> # <<e>>)
  OBVIOUS
<1>7. \A a, b, d, e \in Commands : a # b => <<a, d>> # <<b, e>>
  OBVIOUS
<1>8. {"get", "publish", "ack", "nack"} \subseteq Commands
  BY DEF Commands
<1>9. c = "get" => pc[p] \in {"getting", "done", "crashed"}
  BY <1>1, <1>2, <1>3, <1>4, <1>5 DEF Sound, ChannelOf, Labels
<1>10. c = "publish" /\ wire[p] = <<"publish">> =>
         \/ pc[p] \in {"waiting", "nackUnclear", "done", "crashed"}
         \/ pc[p] = "nack" /\ ~up[p]
  BY <1>1, <1>2, <1>3, <1>5, <1>6, <1>8 DEF Sound, ChannelOf, Labels
<1>11. c = "publish" /\ wire[p] = <<"publish", "nack">> => pc[p] \in {"done", "crashed"}
  BY <1>1, <1>2, <1>3, <1>6, <1>7, <1>8 DEF Sound, ChannelOf, Labels
<1>12. c = "ack" /\ wire[p] = <<"ack">> => pc[p] \in {"ready", "done", "crashed"}
  BY <1>1, <1>2, <1>3, <1>5, <1>6, <1>8 DEF Sound, ChannelOf, Labels
<1>13. c = "ack" /\ wire[p] = <<"ack", "get">> => pc[p] \in {"getting", "done", "crashed"}
  BY <1>1, <1>2, <1>3, <1>6, <1>8 DEF Sound, ChannelOf, Labels
<1>14. c = "nack" => pc[p] \in {"done", "crashed"}
  BY <1>1, <1>2, <1>3, <1>4, <1>5, <1>6, <1>8 DEF Sound, ChannelOf, Labels
<1> QED
  BY <1>1, <1>2, <1>4, <1>9, <1>10, <1>11, <1>12, <1>13, <1>14

LEMMA DeliverStep ==
  ASSUME RedriveInv, NEW p \in Redrives, Deliver(p)
  PROVE  TypeOK' /\ Only(p) /\ Sound(p)' /\ NothingLost'
<1>1. TypeOK /\ NothingLost /\ Sound(p)
  BY DEF RedriveInv, Sound
<1>2. /\ open[p] /\ wire'[p] = << >> /\ held[p] = NoMessage
      /\ pc[p] \in {"getting", "done", "crashed"}
  BY Processes DEF Deliver, Commands
<1>3. /\ wire' \in [Redrives -> Seq(Commands)]
      /\ \A q \in Redrives \ {p} : wire'[q] = wire[q]
  BY <1>1, ReceivedType DEF Deliver, Commands
<1>4. TypeOK'
  BY <1>1, <1>3 DEF TypeOK, Deliver, Answer, Replies
<1>5. Only(p)
  BY <1>1, <1>3 DEF TypeOK, Deliver, Answer, Only
<1>6. /\ arrived' = arrived /\ pc' = pc /\ outcome' = outcome /\ up' = up /\ open' = open
      /\ \/ reply'[p] = "empty" /\ held'[p] = NoMessage
         \/ /\ reply'[p] = "message" /\ held'[p] = msg'[p]
            /\ msg'[p] \in Messages /\ msg'[p] # NoMessage
  BY <1>1, <1>2, RedriveAssumption DEF TypeOK, Deliver, Answer
<1>7. WireOf(p)'
  BY <1>2 DEF WireOf
<1>8. ChannelOf(p)'
  BY <1>2, <1>6 DEF ChannelOf, Holds
<1>9. AnswerOf(p)'
  BY <1>2, <1>6 DEF AnswerOf
<1>10. ReportOf(p)'
  BY <1>1, <1>2, <1>6 DEF Sound, ReportOf, Has, Told
<1>11. NothingLost'
  <2>1. CASE source' = source /\ held' = held
    BY <1>1, <1>6, <2>1 DEF NothingLost
  <2>2. CASE \E m \in source : source' = source \ {m} /\ held' = [held EXCEPT ![p] = m]
    BY <1>1, <1>2, <1>6, <2>2, RedriveAssumption DEF NothingLost, TypeOK
  <2> QED
    BY <2>1, <2>2 DEF Deliver
<1> QED
  BY <1>4, <1>5, <1>7, <1>8, <1>9, <1>10, <1>11 DEF Sound

LEMMA RouteStep ==
  ASSUME RedriveInv, NEW p \in Redrives, Route(p)
  PROVE  TypeOK' /\ Only(p) /\ Sound(p)' /\ NothingLost'
<1>1. TypeOK /\ NothingLost /\ Sound(p)
  BY DEF RedriveInv, Sound
<1>2. /\ open[p] /\ Holds(p) /\ wire[p] # << >> /\ Head(wire[p]) = "publish"
      /\ \/ /\ wire'[p] = << >>
            /\ \/ pc[p] \in {"waiting", "nackUnclear", "done", "crashed"}
               \/ pc[p] = "nack" /\ ~up[p]
         \/ wire'[p] = <<"nack">> /\ pc[p] \in {"done", "crashed"}
  BY Processes DEF Route, Received, Commands
<1>3. /\ wire' \in [Redrives -> Seq(Commands)]
      /\ \A q \in Redrives \ {p} : wire'[q] = wire[q]
  BY <1>1, ReceivedType DEF Route, Commands
<1>4. msg[p] \in Messages
  BY <1>1, <1>2 DEF TypeOK, Holds
<1>5. TypeOK'
  <2>1. arrived' \subseteq Redrives \X Messages
    <3>1. <<p, msg[p]>> \in Redrives \X Messages
      BY <1>4
    <3> QED
      BY <1>1, <3>1 DEF TypeOK, Route
  <2>2. reply' \in [Redrives -> Replies]
    BY <1>1 DEF TypeOK, Route, Answer, Replies
  <2> QED
    BY <1>1, <1>3, <2>1, <2>2 DEF TypeOK, Route
<1>6. Only(p)
  BY <1>1, <1>3 DEF TypeOK, Route, Answer, Only
<1>7. /\ held' = held /\ msg' = msg /\ pc' = pc /\ outcome' = outcome
      /\ up' = up /\ open' = open /\ source' = source
      /\ \/ reply'[p] = "confirmed" /\ arrived' = arrived \cup {<<p, msg[p]>>}
         \/ reply'[p] \in {"returned", "rejected"} /\ arrived' = arrived
  BY <1>1 DEF TypeOK, Route, Answer
<1>8. WireOf(p)'
  BY <1>2, <1>7 DEF WireOf, Holds
<1>9. ChannelOf(p)'
  BY <1>2, <1>7 DEF ChannelOf, Holds
<1>10. AnswerOf(p)'
  BY <1>2, <1>7 DEF AnswerOf, Has, Holds
<1>11. ReportOf(p)'
  <2>1. \A m : Has(p, m)' => Has(p, m) \/ (m = msg[p] /\ reply'[p] = "confirmed")
    BY <1>7 DEF Has
  <2>2. \A m : (Has(p, m) => Has(p, m)') /\ (Told(p, m)' <=> Told(p, m))
    BY <1>7 DEF Has, Told
  <2>3. pc[p] \in {"waiting", "done"} /\ Has(p, msg[p]) => Told(p, msg[p])
    BY <1>1, <1>2, <1>4 DEF Sound, ReportOf
  <2>4. pc[p] = "done" => Told(p, msg[p])
    BY <1>1, <1>2 DEF Sound, ReportOf
  <2>5. \A m \in outcome'[p].succeeded : Has(p, m)'
    BY <1>1, <1>7, <2>2 DEF Sound, ReportOf
  <2>6. ASSUME NEW m \in Messages, Has(p, m)', pc'[p] # "crashed"
        PROVE  \/ Told(p, m)'
               \/ m = msg'[p] /\ \/ pc'[p] \in {"ack", "nackUnclear"}
                                 \/ pc'[p] = "nack" /\ ~up'[p]
                                 \/ pc'[p] = "waiting" /\ reply'[p] \in {"none", "confirmed"}
    <3>1. CASE m = msg[p]
      BY <1>2, <1>7, <2>1, <2>2, <2>3, <2>4, <2>6, <3>1
    <3>2. CASE m # msg[p]
      BY <1>1, <1>7, <2>1, <2>2, <2>6, <3>2 DEF Sound, ReportOf
    <3> QED
      BY <3>1, <3>2
  <2>7. wire'[p] # << >> => Head(wire'[p]) # "publish" /\ pc'[p] # "waiting"
    BY <1>2, <1>7, Tails DEF Commands
  <2> QED
    BY <2>5, <2>6, <2>7 DEF ReportOf
<1>12. NothingLost'
  BY <1>1, <1>7 DEF NothingLost
<1> QED
  BY <1>5, <1>6, <1>8, <1>9, <1>10, <1>11, <1>12 DEF Sound

LEMMA ForgetStep ==
  ASSUME RedriveInv, NEW p \in Redrives, Forget(p)
  PROVE  TypeOK' /\ Only(p) /\ Sound(p)' /\ NothingLost'
<1>1. TypeOK /\ NothingLost /\ Sound(p)
  BY DEF RedriveInv, Sound
<1>2. /\ open[p] /\ Holds(p) /\ Has(p, msg[p]) /\ wire[p] # << >>
      /\ \/ wire'[p] = << >> /\ pc[p] \in {"ready", "done", "crashed"}
         \/ wire'[p] = <<"get">> /\ pc[p] \in {"getting", "done", "crashed"}
  BY Processes DEF Forget, Received, Commands
<1>3. /\ wire' \in [Redrives -> Seq(Commands)]
      /\ \A q \in Redrives \ {p} : wire'[q] = wire[q]
  BY <1>1, ReceivedType DEF Forget, Commands
<1>4. TypeOK'
  BY <1>1, <1>3 DEF TypeOK, Forget
<1>5. Only(p)
  BY <1>1, <1>3 DEF TypeOK, Forget, Only
<1>6. /\ held'[p] = NoMessage /\ msg' = msg /\ pc' = pc /\ outcome' = outcome /\ reply' = reply
      /\ up' = up /\ open' = open /\ source' = source /\ arrived' = arrived
  BY <1>1 DEF TypeOK, Forget
<1>7. WireOf(p)'
  BY <1>2, <1>6 DEF WireOf
<1>8. ChannelOf(p)'
  BY <1>2, <1>6 DEF ChannelOf
<1>9. AnswerOf(p)'
  BY <1>1, <1>2, <1>6 DEF Sound, AnswerOf, Has
<1>10. ReportOf(p)'
  <2>1. wire'[p] # << >> => Head(wire'[p]) # "publish" /\ pc'[p] # "waiting"
    BY <1>2, <1>6, Tails DEF Commands
  <2> QED
    BY <1>1, <1>6, <2>1 DEF Sound, ReportOf, Has, Told
<1>11. NothingLost'
  BY <1>1, <1>2, <1>6 DEF NothingLost, Forget, Holds, Has, TypeOK
<1> QED
  BY <1>4, <1>5, <1>7, <1>8, <1>9, <1>10, <1>11 DEF Sound

LEMMA RequeueStep ==
  ASSUME RedriveInv, NEW p \in Redrives, Requeue(p)
  PROVE  TypeOK' /\ Only(p) /\ Sound(p)' /\ NothingLost'
<1>1. TypeOK /\ NothingLost /\ Sound(p)
  BY DEF RedriveInv, Sound
<1>2. open[p] /\ wire'[p] = << >> /\ pc[p] \in {"done", "crashed"}
  BY Processes DEF Requeue, Commands
<1>3. /\ wire' \in [Redrives -> Seq(Commands)]
      /\ \A q \in Redrives \ {p} : wire'[q] = wire[q]
  BY <1>1, ReceivedType DEF Requeue, Commands
<1>4. TypeOK'
  BY <1>1, <1>3 DEF TypeOK, Requeue, Returned
<1>5. Only(p)
  BY <1>1, <1>3 DEF TypeOK, Requeue, Only
<1>6. /\ msg' = msg /\ pc' = pc /\ outcome' = outcome /\ reply' = reply
      /\ up' = up /\ open' = open /\ arrived' = arrived
  BY DEF Requeue
<1>7. WireOf(p)'
  BY <1>2 DEF WireOf
<1>8. ChannelOf(p)'
  BY <1>2, <1>6 DEF ChannelOf
<1>9. AnswerOf(p)'
  BY <1>2, <1>6 DEF AnswerOf
<1>10. ReportOf(p)'
  BY <1>1, <1>2, <1>6 DEF Sound, ReportOf, Has, Told
<1>11. NothingLost'
  BY <1>1, <1>6, RedriveAssumption DEF NothingLost, Requeue, Returned, TypeOK
<1> QED
  BY <1>4, <1>5, <1>7, <1>8, <1>9, <1>10, <1>11 DEF Sound

LEMMA CloseChannelStep ==
  ASSUME RedriveInv, NEW p \in Redrives, CloseChannel(p)
  PROVE  TypeOK' /\ Only(p) /\ Sound(p)' /\ NothingLost'
<1>1. TypeOK /\ NothingLost /\ Sound(p)
  BY DEF RedriveInv, Sound
<1>2. TypeOK'
  BY <1>1 DEF TypeOK, CloseChannel, Returned
<1>3. Only(p)
  BY <1>1 DEF TypeOK, CloseChannel, Only
<1>4. /\ wire'[p] = << >> /\ held'[p] = NoMessage /\ open'[p] = FALSE
      /\ pc[p] # "idle" /\ arrived' = arrived
      /\ msg' = msg /\ pc' = pc /\ outcome' = outcome /\ reply' = reply /\ up' = up
  BY <1>1 DEF TypeOK, CloseChannel, Sound, ChannelOf
<1>5. WireOf(p)'
  BY <1>4 DEF WireOf
<1>6. ChannelOf(p)'
  BY <1>4 DEF ChannelOf
<1>7. AnswerOf(p)'
  BY <1>1, <1>4 DEF Sound, AnswerOf, Has
<1>8. ReportOf(p)'
  BY <1>1, <1>4 DEF Sound, ReportOf, Has, Told
<1>9. NothingLost'
  BY <1>1, <1>4, RedriveAssumption DEF NothingLost, CloseChannel, Returned, TypeOK
<1> QED
  BY <1>2, <1>3, <1>5, <1>6, <1>7, <1>8, <1>9 DEF Sound

-----------------------------------------------------------------------------
(***************************************************************************)
(* The invariant and what follows from it.                                  *)
(***************************************************************************)
LEMMA InitRedriveInv ==
  ASSUME Init
  PROVE  RedriveInv
<1>1. TypeOK
  BY DEF Init, TypeOK, Replies, Labels, Outcome
<1>2. NothingLost
  BY DEF Init, NothingLost
<1>3. ASSUME NEW p \in Redrives
      PROVE  WireOf(p) /\ ChannelOf(p) /\ AnswerOf(p) /\ ReportOf(p)
  BY DEF Init, WireOf, ChannelOf, AnswerOf, ReportOf, Has
<1> QED
  BY <1>1, <1>2, <1>3 DEF RedriveInv

LEMMA ProcessStep ==
  ASSUME RedriveInv, NEW p \in Redrives,
         \/ OpenChannel(p) \/ Step(p) \/ Crash(p) \/ LoseLink(p)
         \/ Serve(p) \/ CloseChannel(p)
  PROVE  TypeOK' /\ Only(p) /\ Sound(p)' /\ NothingLost'
<1>1. CASE Step(p)
  BY <1>1, GetStep, EnoughMovedStep, GetFailsStep, GetAnsweredStep, DrainStep, PublishStep,
     WaitEndsStep, GiveBackStep, AcknowledgeStep, NoticeClosedStep, Zenon DEF Step
<1>2. CASE Serve(p)
  BY <1>2, DeliverStep, RouteStep, ForgetStep, RequeueStep, Zenon DEF Serve
<1>3. CASE OpenChannel(p) \/ Crash(p) \/ LoseLink(p) \/ CloseChannel(p)
  BY <1>3, OpenChannelStep, CrashStep, LoseLinkStep, CloseChannelStep, Zenon
<1> QED
  BY <1>1, <1>2, <1>3

LEMMA NextRedriveInv ==
  ASSUME RedriveInv, [Next]_vars
  PROVE  RedriveInv'
<1>1. CASE \E p \in Redrives : \/ OpenChannel(p) \/ Step(p) \/ Crash(p) \/ LoseLink(p)
                               \/ Serve(p) \/ CloseChannel(p)
  <2>1. PICK p \in Redrives : \/ OpenChannel(p) \/ Step(p) \/ Crash(p) \/ LoseLink(p)
                              \/ Serve(p) \/ CloseChannel(p)
    BY <1>1
  <2>2. TypeOK' /\ Only(p) /\ Sound(p)' /\ NothingLost'
    BY <2>1, ProcessStep, Zenon
  <2>3. ASSUME NEW q \in Redrives \ {p}
        PROVE  Sound(q)'
    <3>1. Sound(q)
      BY DEF RedriveInv, Sound
    <3> QED
      BY <2>2, <3>1, Framed, Zenon
  <2>4. \A q \in Redrives : Sound(q)'
    BY <2>2, <2>3, Zenon
  <2> QED
    BY <2>2, <2>4, Zenon DEF RedriveInv, Sound
<1>2. CASE DeleteTarget
  <2>1. /\ source' = source /\ arrived' = arrived /\ held' = held /\ open' = open
        /\ wire' = wire /\ reply' = reply /\ up' = up /\ msg' = msg /\ pc' = pc
        /\ outcome' = outcome /\ routable' \in BOOLEAN
    BY <1>2 DEF DeleteTarget
  <2>2. TypeOK' /\ NothingLost'
    BY <2>1 DEF RedriveInv, TypeOK, NothingLost
  <2>3. ASSUME NEW q \in Redrives
        PROVE  (WireOf(q) /\ ChannelOf(q) /\ AnswerOf(q) /\ ReportOf(q))'
    BY <2>1 DEF RedriveInv, WireOf, ChannelOf, AnswerOf, ReportOf, Holds, Has, Told
  <2> QED
    BY <2>2, <2>3 DEF RedriveInv
<1>3. CASE UNCHANGED vars
  <2>1. /\ source' = source /\ arrived' = arrived /\ held' = held /\ open' = open
        /\ wire' = wire /\ reply' = reply /\ up' = up /\ msg' = msg /\ pc' = pc
        /\ outcome' = outcome /\ routable' = routable
    BY <1>3 DEF vars, broker
  <2>2. TypeOK' /\ NothingLost'
    BY <2>1 DEF RedriveInv, TypeOK, NothingLost
  <2>3. ASSUME NEW q \in Redrives
        PROVE  (WireOf(q) /\ ChannelOf(q) /\ AnswerOf(q) /\ ReportOf(q))'
    BY <2>1 DEF RedriveInv, WireOf, ChannelOf, AnswerOf, ReportOf, Holds, Has, Told
  <2> QED
    BY <2>2, <2>3 DEF RedriveInv
<1> QED
  BY <1>1, <1>2, <1>3 DEF Next, Halt

\* What is on the wire, what the broker holds for a channel, what a process
\* knows and what it reports stay in step, however the processes and the broker
\* interleave and whatever fails.
THEOREM RedriveInvariant == Spec => []RedriveInv
<1>1. Init => RedriveInv
  BY InitRedriveInv
<1>2. RedriveInv /\ [Next]_vars => RedriveInv'
  BY NextRedriveInv
<1> QED
  BY <1>1, <1>2, PTL DEF Spec

\* The variables hold values of their types.
THEOREM RedriveTypeCorrect == Spec => []TypeOK
<1>1. RedriveInv => TypeOK
  BY DEF RedriveInv
<1> QED
  BY <1>1, RedriveInvariant, PTL

\* No dead-lettered message is lost: it is in the source, held for a channel
\* that gives it back, or in the target.
THEOREM NoneLost == Spec => []NothingLost
<1>1. RedriveInv => NothingLost
  BY DEF RedriveInv
<1> QED
  BY <1>1, RedriveInvariant, PTL

\* What a redrive counts as succeeded was confirmed by the broker.
THEOREM SucceededHasArrived == Spec => []SucceededArrived
<1>1. RedriveInv => SucceededArrived
  BY DEF RedriveInv, ReportOf, SucceededArrived, Has
<1> QED
  BY <1>1, RedriveInvariant, PTL

\* What a finished redrive brought to the target, early or late, it has counted
\* as succeeded or as uncertain.
THEOREM ArrivalsReported == Spec => []ArrivedReported
<1>1. RedriveInv => ArrivedReported
  BY DEF RedriveInv, ReportOf, ArrivedReported, Has, Told
<1> QED
  BY <1>1, RedriveInvariant, PTL

\* The counts of a redrive are true in both directions (rabbitmq.go:407-447).
THEOREM TrueCounts == Spec => []CountsTrue
<1>1. SucceededArrived /\ ArrivedReported => CountsTrue
  BY DEF CountsTrue
<1> QED
  BY <1>1, SucceededHasArrived, ArrivalsReported, PTL

-----------------------------------------------------------------------------
(***************************************************************************)
(* Where a message is.                                                      *)
(***************************************************************************)
Acks == {<<"ack">>, <<"ack", "get">>}

LEMMA AcksApart ==
  /\ << >> \notin Acks /\ <<"get">> \notin Acks /\ <<"publish">> \notin Acks
  /\ <<"nack">> \notin Acks /\ <<"publish", "nack">> \notin Acks
  /\ <<"ack">> # <<"ack", "get">>
<1>1. \A b, d \in Commands : <<b, d>> # << >> /\ (\A e \in Commands : <<b, d>> # <<e>>)
  OBVIOUS
<1>2. \A a, b, d, e \in Commands : a # b => <<a, d>> # <<b, e>>
  OBVIOUS
<1>3. /\ <<"get">> # <<"ack">> /\ <<"nack">> # <<"ack">> /\ <<"publish">> # <<"ack">>
      /\ <<"ack">> # << >>
  OBVIOUS
<1>4. {"get", "publish", "ack", "nack"} \subseteq Commands
  BY DEF Commands
<1> QED BY <1>1, <1>2, <1>3, <1>4 DEF Acks

\* An acknowledgement is on its way only where the process asks for the next
\* message or is over, and nothing but the broker takes it off the wire.
LEMMA AckKept ==
  ASSUME RedriveInv, NEW p \in Redrives, open[p], wire[p] \in Acks,
         \/ OpenChannel(p) \/ Step(p) \/ Crash(p) \/ LoseLink(p)
         \/ Deliver(p) \/ Route(p) \/ Requeue(p)
  PROVE  /\ wire'[p] \in Acks
         /\ ~Acknowledge(p) /\ ~Deliver(p) /\ ~Route(p) /\ ~Requeue(p)
<1>1. TypeOK /\ Sound(p) /\ pc[p] \in Labels
  BY DEF RedriveInv, Sound, TypeOK
<1>2. /\ pc[p] \in {"ready", "getting", "done", "crashed"}
      /\ pc[p] = "ready" => wire[p] = <<"ack">>
  BY <1>1, AcksApart DEF Sound, ChannelOf, Labels
<1>3. ~Deliver(p) /\ ~Route(p) /\ ~Requeue(p)
  <2>1. ~Deliver(p)
    BY Processes, AcksApart DEF Deliver, Commands
  <2>2. ~Route(p)
    BY Processes, AcksApart DEF Route, Commands
  <2>3. ~Requeue(p)
    BY Processes, AcksApart DEF Requeue, Commands
  <2> QED BY <2>1, <2>2, <2>3
<1>4. ~OpenChannel(p) /\ ~Drain(p) /\ ~Publish(p) /\ ~WaitEnds(p) /\ ~GiveBack(p) /\ ~Acknowledge(p)
  BY <1>2 DEF OpenChannel, Drain, Publish, WaitEnds, GiveBack, Acknowledge
<1>5. CASE EnoughMoved(p) \/ GetFails(p) \/ GetAnswered(p) \/ NoticeClosed(p) \/ Crash(p) \/ LoseLink(p)
  BY <1>3, <1>4, <1>5 DEF EnoughMoved, GetFails, GetAnswered, NoticeClosed, Crash, LoseLink
<1>6. CASE Get(p)
  <2>1. wire'[p] = Append(wire[p], "get") /\ pc[p] = "ready"
    BY <1>1, <1>6, SendType DEF Get, Commands
  <2>2. wire'[p] = <<"ack", "get">>
    BY <1>2, <2>1, Appends
  <2> QED BY <1>3, <1>4, <2>2 DEF Acks
<1> QED BY <1>3, <1>4, <1>5, <1>6 DEF Step

\* Steps that move no message: only the process and its channel change.
LEMMA StaysStep ==
  ASSUME PlacesInv, NEW p \in Redrives,
         \/ OpenChannel(p) \/ Step(p) \/ Crash(p) \/ LoseLink(p) \/ Route(p)
  PROVE  source' = source /\ held' = held /\ \A q \in Redrives : MovedOf(q)'
<1>1. RedriveInv /\ OnePlace /\ TypeOK /\ Sound(p) /\ (\A q \in Redrives : MovedOf(q))
  BY DEF PlacesInv, RedriveInv, Sound
<1>2. source' = source /\ held' = held
  BY DEF OpenChannel, Step, Crash, LoseLink, Route, Get, EnoughMoved, GetFails, GetAnswered,
         Drain, Publish, WaitEnds, GiveBack, Acknowledge, NoticeClosed, broker
<1>3. Only(p)
  BY <1>1, ProcessStep DEF Serve
<1>4. ASSUME NEW q \in Redrives \ {p} PROVE MovedOf(q)'
  BY <1>1, <1>2, <1>3 DEF MovedOf, Only
<1>5. /\ pc'[p] = "idle" => pc[p] = "idle"
      /\ open'[p] => open[p] \/ pc[p] = "idle"
      /\ outcome'[p].succeeded # outcome[p].succeeded => Acknowledge(p)
  <2>1. pc'[p] = "idle" => pc[p] = "idle"
    BY <1>1 DEF TypeOK, OpenChannel, Step, Crash, LoseLink, Route, Get, EnoughMoved, GetFails, GetAnswered,
         Drain, Publish, WaitEnds, GiveBack, Acknowledge, NoticeClosed, Goto
  <2>2. open'[p] => open[p] \/ pc[p] = "idle"
    BY <1>1 DEF TypeOK, OpenChannel, Step, Crash, LoseLink, Route, Get, EnoughMoved, GetFails, GetAnswered,
         Drain, Publish, WaitEnds, GiveBack, Acknowledge, NoticeClosed, Goto
  <2>3. outcome'[p].succeeded = outcome[p].succeeded \/ Acknowledge(p)
    <3>1. CASE GetFails(p) \/ GiveBack(p)
      <4>0. PICK f \in {"failed", "uncertain"} : \E m : Report(p, f, m)
        BY <3>1 DEF GetFails, GiveBack
      <4>1. PICK m : Report(p, f, m)
        BY <4>0
      <4>2. outcome[p] \in Outcome /\ outcome' = [outcome EXCEPT ![p][f] = @ \cup {m}]
        BY <1>1, <4>1 DEF TypeOK, Report
      <4>3. outcome'[p] = [outcome[p] EXCEPT ![f] = @ \cup {m}]
        BY <1>1, <4>2 DEF TypeOK
      <4> QED BY <4>2, <4>3 DEF Outcome
    <3>2. CASE UNCHANGED outcome
      BY <3>2
    <3> QED BY <3>1, <3>2
         DEF OpenChannel, Step, Crash, LoseLink, Route, Get, EnoughMoved, GetAnswered,
             Drain, Publish, WaitEnds, NoticeClosed
  <2> QED BY <2>1, <2>2, <2>3
<1>6. MovedOf(p)'
  <2>1. CASE Acknowledge(p)
    <3>1. pc[p] = "ack" /\ pc'[p] # "idle" /\ open' = open
      BY <1>1, <2>1 DEF Acknowledge, Goto, TypeOK
    <3>2. CASE ~open[p]
      BY <3>1, <3>2 DEF MovedOf
    <3>3. CASE open[p]
      <4>1. wire[p] = << >> /\ held[p] = msg[p] /\ msg[p] \in Messages
        BY <1>1, <3>1, <3>3 DEF Sound, ChannelOf, Holds, TypeOK
      <4>2. /\ outcome'[p].succeeded \subseteq outcome[p].succeeded \cup {msg[p]}
            /\ outcome'[p].succeeded # outcome[p].succeeded => wire'[p] = <<"ack">>
        <5>1. CASE up[p]
          <6>1. Report(p, "succeeded", msg[p]) /\ Send(p, "ack")
            BY <2>1, <5>1 DEF Acknowledge
          <6>2. wire'[p] = Append(<< >>, "ack")
            BY <1>1, <3>3, <4>1, <6>1, SendType DEF Commands
          <6> QED BY <1>1, <4>1, <6>1, <6>2, ReportType, Appends DEF Commands
        <5>2. CASE ~up[p]
          BY <1>1, <2>1, <4>1, <5>2, ReportType DEF Acknowledge
        <5> QED BY <5>1, <5>2
      <4>3. \A m \in outcome[p].succeeded : m \notin source /\ \A q \in Redrives : held[q] # m
        BY <1>1, <3>3, <4>1, AcksApart DEF MovedOf, Acks
      <4>4. msg[p] \notin source /\ \A q \in Redrives : held[q] = msg[p] => q = p
        BY <1>1, <4>1 DEF OnePlace
      <4> QED BY <1>2, <3>1, <4>2, <4>3, <4>4 DEF MovedOf
    <3> QED BY <3>2, <3>3
  <2>2. CASE ~Acknowledge(p)
    <3>1. outcome'[p].succeeded = outcome[p].succeeded
      BY <1>5, <2>2
    <3>2. CASE ~open[p]
      BY <1>1, <1>5, <3>1, <3>2 DEF MovedOf
    <3>3. CASE open[p]
      <4>1. wire[p] \in Acks => wire'[p] \in Acks
        BY <1>1, <3>3, AckKept
      <4> QED BY <1>1, <1>2, <1>5, <3>1, <3>3, <4>1 DEF MovedOf, Acks
    <3> QED BY <3>2, <3>3
  <2> QED BY <2>1, <2>2
<1> QED BY <1>2, <1>4, <1>6

\* The broker hands out a ready message.
LEMMA HandedOut ==
  ASSUME PlacesInv, NEW p \in Redrives, Deliver(p)
  PROVE  OnePlace' /\ \A q \in Redrives : MovedOf(q)'
<1>1. RedriveInv /\ OnePlace /\ TypeOK /\ (\A q \in Redrives : MovedOf(q))
  BY DEF PlacesInv, RedriveInv
<1>2. open[p] /\ wire'[p] = << >> /\ held[p] = NoMessage /\ wire[p] \notin Acks
  BY <1>1, Processes, AcksApart DEF Deliver, Commands
<1>3. Only(p) /\ UNCHANGED <<open, pc, outcome>>
  BY <1>1, ProcessStep DEF Serve, Deliver
<1>4. \/ source' = source /\ held' = held
      \/ \E m \in source : source' = source \ {m} /\ held' = [held EXCEPT ![p] = m]
  BY DEF Deliver
<1>5. \A m \in Messages, q \in Redrives : held'[q] = m =>
        held[q] = m \/ (q = p /\ m \in source)
  BY <1>1, <1>4 DEF TypeOK
<1>6. /\ source' \subseteq source
      /\ \A m \in source : held'[p] = m => m \notin source'
  BY <1>1, <1>2, <1>4, RedriveAssumption DEF TypeOK
<1>7. OnePlace'
  <2> SUFFICES ASSUME NEW m \in Messages, NEW q \in Redrives, held'[q] = m
               PROVE  m \notin source' /\ \A r \in Redrives : held'[r] = m => r = q
    BY DEF OnePlace
  <2>1. CASE held[q] = m
    BY <1>1, <1>5, <1>6, <2>1 DEF OnePlace
  <2>2. CASE q = p /\ m \in source
    BY <1>1, <1>5, <1>6, <2>2 DEF OnePlace
  <2> QED BY <1>5, <2>1, <2>2
<1>8. ASSUME NEW q \in Redrives PROVE MovedOf(q)'
  <2>1. pc'[q] = "idle" => outcome'[q].succeeded = {}
    BY <1>1, <1>3 DEF MovedOf
  <2>2. ASSUME open'[q], NEW m \in outcome'[q].succeeded
        PROVE  /\ m \notin source'
               /\ \A r \in Redrives : held'[r] = m => r = q /\ wire'[q] \in Acks
    <3>1. /\ m \in Messages /\ m \notin source
          /\ \A r \in Redrives : held[r] = m => r = q /\ wire[q] \in Acks
      BY <1>1, <1>3, <2>2 DEF MovedOf, Acks, TypeOK, Outcome
    <3>2. ASSUME NEW r \in Redrives, held'[r] = m PROVE r = q /\ wire'[q] \in Acks
      <4>1. r = q /\ wire[q] \in Acks
        BY <1>5, <3>1, <3>2
      <4>2. q # p
        BY <1>2, <4>1
      <4> QED BY <1>3, <4>1, <4>2 DEF Only
    <3> QED BY <1>6, <3>1, <3>2
  <2> QED BY <2>1, <2>2 DEF MovedOf, Acks
<1> QED BY <1>7, <1>8

\* The broker forgets an acknowledged message.
LEMMA Forgotten ==
  ASSUME PlacesInv, NEW p \in Redrives, Forget(p)
  PROVE  OnePlace' /\ \A q \in Redrives : MovedOf(q)'
<1>1. RedriveInv /\ OnePlace /\ TypeOK /\ (\A q \in Redrives : MovedOf(q))
  BY DEF PlacesInv, RedriveInv
<1>2. Only(p) /\ UNCHANGED <<open, pc, outcome, source>> /\ held' = [held EXCEPT ![p] = NoMessage]
  BY <1>1, ProcessStep DEF Serve, Forget
<1>3. \A m \in Messages, q \in Redrives : held'[q] = m => q # p /\ held[q] = m
  BY <1>1, <1>2, RedriveAssumption DEF TypeOK
<1>4. OnePlace'
  BY <1>1, <1>2, <1>3 DEF OnePlace
<1>5. ASSUME NEW q \in Redrives PROVE MovedOf(q)'
  <2>1. outcome'[q].succeeded \subseteq Messages
    BY <1>1, <1>2 DEF TypeOK, Outcome
  <2>2. q # p => wire'[q] = wire[q]
    BY <1>2 DEF Only
  <2> QED BY <1>1, <1>2, <1>3, <2>1, <2>2 DEF MovedOf
<1> QED BY <1>4, <1>5

\* A message that is given back was held by nobody else, and its channel is
\* closed or has not counted it as moved.
LEMMA GivenBack ==
  ASSUME PlacesInv, NEW p \in Redrives, Requeue(p) \/ CloseChannel(p)
  PROVE  OnePlace' /\ \A q \in Redrives : MovedOf(q)'
<1>1. RedriveInv /\ OnePlace /\ TypeOK /\ (\A q \in Redrives : MovedOf(q))
  BY DEF PlacesInv, RedriveInv
<1>2. /\ Only(p) /\ UNCHANGED <<pc, outcome>> /\ held' = [held EXCEPT ![p] = NoMessage]
      /\ source' = source \cup ({held[p]} \ {NoMessage})
  BY <1>1, ProcessStep DEF Serve, Requeue, CloseChannel, Returned
<1>3. \A m \in Messages, q \in Redrives : held'[q] = m => q # p /\ held[q] = m
  BY <1>1, <1>2, RedriveAssumption DEF TypeOK
<1>4. \A m \in source' : m \in source \/ (held[p] = m /\ m \in Messages)
  BY <1>1, <1>2 DEF TypeOK
<1>5. OnePlace'
  BY <1>1, <1>3, <1>4 DEF OnePlace
<1>6. open'[p] => wire[p] \notin Acks
  <2>1. CASE Requeue(p)
    BY <1>1, <2>1, Processes, AcksApart DEF Requeue, Commands
  <2>2. CASE CloseChannel(p)
    BY <1>1, <2>2 DEF CloseChannel, TypeOK
  <2> QED BY <2>1, <2>2
<1>7. open'[p] => open[p]
  BY <1>1 DEF Requeue, CloseChannel, TypeOK
<1>8. ASSUME NEW q \in Redrives PROVE MovedOf(q)'
  <2>1. outcome'[q] = outcome[q] /\ pc'[q] = pc[q] /\ outcome[q].succeeded \subseteq Messages
    BY <1>1, <1>2 DEF TypeOK, Outcome
  <2>2. open'[q] => open[q] /\ (q = p \/ wire'[q] = wire[q])
    BY <1>2, <1>7 DEF Only
  <2>3. ASSUME open'[q], NEW m \in outcome[q].succeeded
        PROVE  /\ m \notin source'
               /\ \A r \in Redrives : held'[r] = m => r = q /\ wire'[q] \in Acks
    <3>1. /\ m \in Messages /\ m \notin source
          /\ \A r \in Redrives : held[r] = m => r = q /\ wire[q] \in Acks
      BY <1>1, <2>1, <2>2, <2>3 DEF MovedOf, Acks
    <3>2. held[p] # m
      BY <1>6, <2>3, <3>1
    <3> QED BY <1>3, <1>4, <2>2, <2>3, <3>1, <3>2
  <2> QED BY <1>1, <2>1, <2>3 DEF MovedOf, Acks
<1> QED BY <1>5, <1>8

\* A message is in one place at a time, however redrives and broker interleave.
LEMMA PlacesInvariant == Spec => []PlacesInv
<1>1. Init => PlacesInv
  <2> SUFFICES ASSUME Init PROVE PlacesInv
    OBVIOUS
  <2>1. OnePlace /\ \A p \in Redrives : MovedOf(p)
    BY RedriveAssumption DEF Init, OnePlace, MovedOf
  <2> QED BY <2>1, InitRedriveInv DEF PlacesInv
<1>2. PlacesInv /\ [Next]_vars => PlacesInv'
  <2> SUFFICES ASSUME PlacesInv, [Next]_vars PROVE OnePlace' /\ \A q \in Redrives : MovedOf(q)'
    BY NextRedriveInv DEF PlacesInv
  <2>1. ASSUME NEW p \in Redrives, OpenChannel(p) \/ Step(p) \/ Crash(p) \/ LoseLink(p) \/ Route(p)
        PROVE  OnePlace' /\ \A q \in Redrives : MovedOf(q)'
    BY <2>1, StaysStep DEF PlacesInv, OnePlace
  <2>2. ASSUME NEW p \in Redrives, Deliver(p) \/ Forget(p) \/ Requeue(p) \/ CloseChannel(p)
        PROVE  OnePlace' /\ \A q \in Redrives : MovedOf(q)'
    BY <2>2, HandedOut, Forgotten, GivenBack
  <2>3. CASE UNCHANGED <<source, held, pc, outcome, open, wire>>
    BY <2>3 DEF PlacesInv, OnePlace, MovedOf
  <2> QED BY <2>1, <2>2, <2>3 DEF Next, Serve, DeleteTarget, Halt, vars, broker
<1> QED BY <1>1, <1>2, PTL DEF Spec

\* A message that has arrived is delivered a second time only for a cause: its
\* redrive has counted it as uncertain, has died, or lost its channel in the
\* middle of its work (rabbitmq.go:407-447).
THEOREM SecondDeliveryHasCause == Spec => ReturnedForCause
<1>1. ASSUME PlacesInv, NEW q \in Redrives,
             \/ OpenChannel(q) \/ Step(q) \/ Crash(q) \/ LoseLink(q) \/ Serve(q) \/ CloseChannel(q),
             NEW p \in Redrives, NEW m \in Messages,
             held[p] = m, <<p, m>> \in arrived, m \in source'
      PROVE  \/ m \in outcome[p].uncertain
             \/ pc[p] = "crashed"
             \/ open[p] /\ ~open'[p] /\ (wire[p] # << >> \/ ~Over(p))
  <2>1. RedriveInv /\ TypeOK /\ Sound(p) /\ MovedOf(p) /\ m \notin source /\ held[p] # NoMessage
    BY <1>1, RedriveAssumption DEF PlacesInv, RedriveInv, Sound, OnePlace
  <2>2. open[p]
    BY <2>1 DEF Sound, ChannelOf, TypeOK
  <2>3. (Requeue(q) \/ CloseChannel(q)) /\ q = p
    <3>1. CASE Requeue(q) \/ CloseChannel(q)
      <4>1. m = held[q]
        BY <1>1, <2>1, <3>1 DEF Requeue, CloseChannel, Returned
      <4> QED BY <1>1, <3>1, <4>1 DEF PlacesInv, OnePlace
    <3>2. CASE Deliver(q)
      BY <1>1, <2>1, <3>2 DEF Deliver
    <3>3. CASE Forget(q)
      BY <1>1, <2>1, <3>3 DEF Forget
    <3>4. CASE OpenChannel(q) \/ Step(q) \/ Crash(q) \/ LoseLink(q) \/ Route(q)
      BY <1>1, <2>1, <3>4, StaysStep
    <3> QED BY <1>1, <3>1, <3>2, <3>3, <3>4 DEF Serve
  <2>4. CASE pc[p] = "done" /\ wire[p] \notin Acks
    <3>1. m \in outcome[p].succeeded \cup outcome[p].uncertain
      BY <1>1, <2>1, <2>4 DEF Sound, ReportOf, Has, Told
    <3>2. m \notin outcome[p].succeeded
      BY <1>1, <2>1, <2>2, <2>4 DEF MovedOf, Acks
    <3> QED BY <3>1, <3>2
  <2>5. CASE Requeue(q)
    <3>1. pc[p] \in {"done", "crashed"} /\ wire[p] \notin Acks
      BY <2>1, <2>3, <2>5, Processes, AcksApart DEF Requeue, Commands
    <3> QED BY <2>4, <3>1
  <2>6. CASE CloseChannel(q)
    <3>1. ~open'[p]
      BY <2>1, <2>3, <2>6 DEF CloseChannel, TypeOK
    <3>2. wire[p] = << >> => wire[p] \notin Acks
      BY AcksApart
    <3> QED BY <2>2, <2>4, <3>1, <3>2 DEF Over
  <2> QED BY <2>3, <2>5, <2>6
<1>2. ASSUME PlacesInv, [Next]_vars
      PROVE  [\A p \in Redrives, m \in Messages :
                held[p] = m /\ <<p, m>> \in arrived /\ m \in source' =>
                  \/ m \in outcome[p].uncertain
                  \/ pc[p] = "crashed"
                  \/ open[p] /\ ~open'[p] /\ (wire[p] # << >> \/ ~Over(p))]_vars
  <2>1. CASE UNCHANGED vars
    BY <2>1
  <2>2. CASE DeleteTarget
    BY <1>2, <2>2 DEF DeleteTarget, PlacesInv, OnePlace
  <2>3. CASE Halt
    BY <2>3 DEF Halt
  <2> QED BY <1>1, <1>2, <2>1, <2>2, <2>3 DEF Next
<1> QED BY <1>2, PlacesInvariant, PTL DEF Spec, ReturnedForCause
=============================================================================
