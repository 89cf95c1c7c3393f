----------------------------- MODULE BoundedRead -----------------------------
(***************************************************************************)
(* The reads of the Kafka backend: "message peek", "message tail", with and *)
(* without --follow, and the source side of "message mirror" (kafka.go      *)
(* Peek, Tail, MirrorMessages).                                             *)
(*                                                                          *)
(* A tail and a mirror list where the partitions begin and end, and read    *)
(* until they have enough messages or every partition has shown its last    *)
(* one.  Meanwhile the partitions grow, and lose records to retention and   *)
(* compaction; an offset may belong to a marker of a transaction, which no  *)
(* consumer ever sees.  Peek and tail have a deadline; a mirror has none.   *)
(***************************************************************************)
EXTENDS Integers, FiniteSets, FiniteSetsExt

CONSTANTS
  Partitions,   \* of the topic
  MaxOffset,    \* bound on the end of a log
  Reads         \* what is asked: [kind, from, n, parts, limit]

Kinds == {"peek", "tail", "follow", "mirror"}
Froms == {"earliest", "latest", "time", "offset"}
Steps == {"asked", "one", "listed", "polling", "ended"}

VARIABLES
  first, last,  \* the log of a partition: its oldest offset, and its end
  records,      \* the offsets a consumer gets to see
  read,         \* what is asked
  step,         \* where the read is
  ends,         \* the ends as they were listed
  position,     \* the next offset to fetch; before polling: the start
  done,         \* the partitions that have nothing left to show
  count,        \* result.Count
  impact,       \* PartitionImpact of a partition: [from, to, count]
  error,        \* how the read ended
  emitted,      \* the offsets emitted
  cut,          \* ghost: did the context, or an empty fetch, end the read?
  window        \* ghost: the records in the window, and there ever since

log == <<first, last, records, window>>
readVars == <<log, read, step, ends, position, done, count, impact, error, emitted, cut>>

Nothing == [from |-> 0, to |-> 0, count |-> 0]
Bounded == read.kind \in {"tail", "mirror"}
Timed == read.kind # "mirror"
Offsets(p) == first[p] .. last[p] - 1

Init ==
  /\ first \in [Partitions -> 0 .. MaxOffset]
  /\ last \in [Partitions -> 0 .. MaxOffset]
  /\ \A p \in Partitions : first[p] <= last[p]
  /\ records \in [Partitions -> SUBSET (0 .. MaxOffset - 1)]
  /\ \A p \in Partitions : records[p] \subseteq Offsets(p)
  /\ read \in Reads
  /\ read.from = "offset" => \A p \in Partitions : read.n <= last[p]
  /\ step = "asked"
  /\ ends = [p \in Partitions |-> 0] /\ position = [p \in Partitions |-> 0]
  /\ done = {} /\ count = 0
  /\ impact = [p \in Partitions |-> Nothing]
  /\ error = "none"
  /\ emitted = [p \in Partitions |-> {}]
  /\ cut = FALSE
  /\ window = [p \in Partitions |-> {}]

-----------------------------------------------------------------------------
(***************************************************************************)
(* The topic, while it is read.                                             *)
(***************************************************************************)
Reader == <<read, step, ends, position, done, count, impact, error, emitted, cut>>
Alive == step # "ended"

\* A record, or a marker, is appended.
Append(p) ==
  /\ Alive /\ last[p] < MaxOffset
  /\ last' = [last EXCEPT ![p] = @ + 1]
  /\ records' \in {records, [records EXCEPT ![p] = @ \cup {last[p]}]}
  /\ UNCHANGED <<first, window, Reader>>

Lose(p, os) ==
  /\ records' = [records EXCEPT ![p] = @ \ os]
  /\ window' = [window EXCEPT ![p] = @ \ os]

Retain(p) ==
  /\ Alive /\ first[p] < last[p]
  /\ first' = [first EXCEPT ![p] = @ + 1]
  /\ Lose(p, {first[p]})
  /\ UNCHANGED <<last, Reader>>

Compact(p) ==
  /\ Alive
  /\ \E o \in records[p] : Lose(p, {o})
  /\ UNCHANGED <<first, last, Reader>>

-----------------------------------------------------------------------------
(***************************************************************************)
(* The offsets: a tail lists starts and then ends, a mirror ends and then   *)
(* the starts it is asked for (tailOffsets, mirrorOffsets).                 *)
(***************************************************************************)
Unread == <<log, read, done, count, impact, emitted, cut>>

End(e) == step' = "ended" /\ error' = e

ListFails ==
  /\ step \in {"asked", "one"}
  /\ End("error")
  /\ UNCHANGED <<Unread, ends, position>>

\* kafkaTailStartOffset, mirrorStartOffsets, peekClient
Starts(atEnd) ==
  CASE read.from = "earliest" -> {first}
    [] read.from = "latest" -> {atEnd}
    [] read.from = "time" -> {t \in [Partitions -> 0 .. MaxOffset] :
                                \A p \in Partitions : t[p] \in first[p] .. last[p]}
    [] read.from = "offset" -> {[p \in Partitions |-> read.n]}

ListStarts ==
  /\ \/ read.kind # "mirror" /\ step = "asked" /\ step' = "one"
     \/ read.kind = "mirror" /\ step = "one" /\ step' = "listed"
  /\ position' \in Starts(last)
  /\ UNCHANGED <<Unread, ends, error>>

\* The latest start of a tail is the end that was listed, the same for both.
ListEnds ==
  /\ \/ read.kind # "mirror" /\ step = "one" /\ step' = "listed"
     \/ read.kind = "mirror" /\ step = "asked" /\ step' = "one"
  /\ ends' = last
  /\ position' = IF read.from = "latest" THEN last ELSE position
  /\ UNCHANGED <<Unread, error>>

\* tailDonePartitions; the client is told where to begin.
Begin ==
  /\ step = "listed"
  /\ step' = "polling"
  /\ done' = IF Bounded THEN {p \in read.parts : position[p] >= ends[p]} ELSE {}
  /\ window' = [p \in Partitions |->
                  IF p \in read.parts
                    THEN {o \in records[p] : position[p] <= o /\ o < ends[p]} ELSE {}]
  /\ UNCHANGED <<first, last, records, read, ends, position, count, impact, error, emitted,
                 cut>>

-----------------------------------------------------------------------------
(***************************************************************************)
(* The loop.  One poll stands for one record of a fetch: what the code does *)
(* between two fetches it also does between two records.                    *)
(***************************************************************************)
Goes ==
  /\ step = "polling" /\ count < read.limit
  /\ Bounded => done # read.parts

\* Past what retention took, on to the next record.
Ahead(p) == {o \in records[p] : o >= position[p]}

\* kafkaTailReachedEnd
ReachedEnd(p, o) == o + 1 >= ends[p]

\* Mutant: the impact does not move with the records that follow.
FirstImpact(p, o) ==
  IF impact[p].count = 0 THEN [from |-> o, to |-> o + 1, count |-> 1]
  ELSE [impact[p] EXCEPT !.count = @ + 1]

\* updateTailImpact
UpdatedImpact(p, o) ==
  IF impact[p].count = 0 THEN [from |-> o, to |-> o + 1, count |-> 1]
  ELSE [from |-> IF o < impact[p].from THEN o ELSE impact[p].from,
        to |-> IF o + 1 > impact[p].to THEN o + 1 ELSE impact[p].to,
        count |-> impact[p].count + 1]

Emit(p, o) ==
  /\ emitted' = [emitted EXCEPT ![p] = @ \cup {o}]
  /\ count' = count + 1
  /\ impact' = [impact EXCEPT ![p] = UpdatedImpact(p, o)]
  /\ done' = IF Bounded /\ ReachedEnd(p, o) THEN done \cup {p} ELSE done
  /\ UNCHANGED <<step, error>>

\* processKafkaTailFetches, processKafkaMirrorFetches: a record past the end
\* only shows that the partition is done; the caller may refuse a record.
Poll(p) ==
  /\ Goes /\ p \in read.parts /\ Ahead(p) # {}
  /\ LET o == Min(Ahead(p)) IN
     /\ position' = [position EXCEPT ![p] = o + 1]
     /\ \/ /\ Bounded /\ o >= ends[p]
           /\ done' = done \cup {p}
           /\ UNCHANGED <<step, error, count, impact, emitted>>
        \/ /\ ~Bounded \/ o < ends[p]
           /\ Emit(p, o)
        \/ /\ ~Bounded \/ o < ends[p]
           /\ End("error")
           /\ UNCHANGED <<done, count, impact, emitted>>
  /\ UNCHANGED <<log, read, ends, cut>>

PollFails ==
  /\ Goes
  /\ End("error")
  /\ UNCHANGED <<Unread, ends, position>>

\* The context is cancelled or, where there is a deadline, over: what was read
\* is the result.
Break ==
  /\ Goes
  /\ End("none") /\ cut' = TRUE
  /\ UNCHANGED <<log, read, ends, position, done, count, impact, emitted>>

Interrupt == Break

\* A fetch comes back with no record at all; only a tail with --follow goes on.
EmptyFetch == read.kind # "follow" /\ Break

\* Mutant: the deadline is only looked at when a record came.
ExpireOnRecord == Timed /\ (\E p \in read.parts : Ahead(p) # {}) /\ Break

Expire == Timed /\ Break

Finish ==
  /\ step = "polling" /\ ~Goes
  /\ End("none")
  /\ UNCHANGED <<Unread, ends, position>>

Work == ListStarts \/ ListEnds \/ Begin \/ (\E p \in Partitions : Poll(p)) \/ Finish

Next ==
  \/ \E p \in Partitions : Append(p) \/ Retain(p) \/ Compact(p)
  \/ ListFails \/ ListStarts \/ ListEnds \/ Begin
  \/ \E p \in Partitions : Poll(p)
  \/ PollFails \/ Interrupt \/ EmptyFetch \/ Expire \/ Finish

Spec == Init /\ [][Next]_readVars

\* A read goes on where it can, and its deadline comes.
Fairness == WF_readVars(Work) /\ WF_readVars(Expire)
FairSpec == Spec /\ Fairness

-----------------------------------------------------------------------------
(***************************************************************************)
(* Properties                                                               *)
(***************************************************************************)

\* Type invariant.
TypeOK ==
  /\ first \in [Partitions -> Nat] /\ last \in [Partitions -> Nat]
  /\ \A p \in Partitions : records[p] \subseteq Offsets(p)
  /\ read \in Reads /\ step \in Steps
  /\ ends \in [Partitions -> Nat] /\ position \in [Partitions -> Nat]
  /\ done \subseteq Partitions /\ count \in 0 .. read.limit
  /\ impact \in [Partitions -> [from : Nat, to : Nat, count : Nat]]
  /\ error \in {"none", "error"} /\ cut \in BOOLEAN
  /\ window \in [Partitions -> SUBSET Nat]

\* What a tail or mirror emits lies below the ends that were listed, and when
\* nothing cut it short and it came to its end below its limit, it has emitted
\* every record that was in its window all along (README.md:217, kafka.go
\* 376-484).
ReadsItsWindow ==
  Bounded =>
    /\ \A p \in Partitions : \A o \in emitted[p] : o < ends[p] /\ p \in read.parts
    /\ step = "ended" /\ error = "none" /\ ~cut /\ count < read.limit =>
         \A p \in Partitions : window[p] \subseteq emitted[p]

\* The impact of a partition spans the offsets emitted from it and counts each
\* once (kafka.go:1232-1254).
ImpactMatches ==
  /\ count = SumFunctionOnSet([p \in Partitions |-> Cardinality(emitted[p])], Partitions)
  /\ \A p \in Partitions :
       /\ impact[p].count = Cardinality(emitted[p])
       /\ emitted[p] # {} => impact[p].from = Min(emitted[p]) /\ impact[p].to = Max(emitted[p]) + 1

\* A peek or tail ends, by its deadline at the latest.
TimedEnds == Timed ~> step = "ended"

\* A read that is asked for ends, a mirror as well: README.md:219 calls it "a
\* bounded one-shot copy, never a daemon".
ReadEnds == <>(step = "ended")

-----------------------------------------------------------------------------
(***************************************************************************)
(* The inductive invariant                                                  *)
(***************************************************************************)

\* No read begins below offset 0 (cmd/message.go:91-96, kafka.go:255, 550).
ReadAssumption ==
  /\ IsFiniteSet(Partitions) /\ MaxOffset \in Nat
  /\ Reads \subseteq [kind : Kinds, from : Froms, n : Nat, parts : SUBSET Partitions,
                       limit : Nat]

\* A record lies in its log, and what is in the window is still a record.
LogsWell ==
  \A p \in Partitions :
    first[p] <= last[p] /\ records[p] \subseteq Nat /\ window[p] \subseteq records[p]

\* Nothing is shown before the polls.
NothingShown ==
  /\ step \notin {"polling", "ended"} =>
       /\ emitted = [p \in Partitions |-> {}] /\ window = [p \in Partitions |-> {}]
       /\ impact = [p \in Partitions |-> Nothing] /\ count = 0 /\ done = {}
  /\ step # "ended" => error = "none"

\* What is in the window is shown, or is yet ahead of a partition not done.
ShownOrAhead ==
  \A p \in Partitions : \A o \in window[p] :
    /\ p \in read.parts /\ o < ends[p]
    /\ Bounded /\ error = "none" =>
         o \in emitted[p] \/ (position[p] <= o /\ p \notin done)

\* What is shown is behind the position.
ShownBehind ==
  /\ done \subseteq read.parts
  /\ \A p \in Partitions : \A o \in emitted[p] :
       o \in Nat /\ o < position[p] /\ p \in read.parts /\ (Bounded => o < ends[p])

\* A read that nothing cut short had enough, or was done with every partition.
EndedWell ==
  step = "ended" /\ error = "none" /\ ~cut /\ Bounded /\ count < read.limit =>
    done = read.parts

\* The counters of a partition belong to what was shown of it.
CountedWell ==
  /\ count = SumFunctionOnSet([p \in Partitions |-> Cardinality(emitted[p])], Partitions)
  /\ \A p \in Partitions :
       /\ IsFiniteSet(emitted[p]) /\ impact[p].count = Cardinality(emitted[p])
       /\ emitted[p] # {} =>
            /\ impact[p].from \in emitted[p] /\ impact[p].to - 1 \in emitted[p]
            /\ \A o \in emitted[p] : impact[p].from <= o /\ o < impact[p].to

ReadInv ==
  /\ TypeOK /\ emitted \in [Partitions -> SUBSET Nat]
  /\ records \in [Partitions -> SUBSET Nat]
  /\ LogsWell /\ NothingShown /\ ShownOrAhead /\ ShownBehind /\ EndedWell /\ CountedWell
=============================================================================
