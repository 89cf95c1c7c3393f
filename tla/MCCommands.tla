------------------------------ MODULE MCCommands ------------------------------
(***************************************************************************)
(* AllCommands for TLC: what is asked of Kafka and of audit prune, and the  *)
(* failures of the journal.                                                 *)
(***************************************************************************)
EXTENDS AllCommands

\* Resets to the earliest record and to a time differ from one to the latest only
\* in the offset that is listed.
MCRequests ==
  {[op |-> "purge", to |-> "none", n |-> 0]}
    \cup [op : {"reset"}, to : {"latest"}, n : {0}]
    \cup [op : {"reset"}, to : {"offset"}, n : {1}]
    \cup [op : {"reset"}, to : {"shift"}, n : {-1}]

AskRead(kinds, froms, ns, asks) ==
  [kind : kinds, from : froms, n : ns, parts : asks, limit : {1, 3}]

MCReads ==
  AskRead({"tail"}, {"earliest", "latest"}, {0}, {Partitions})
    \cup AskRead({"follow"}, {"latest"}, {0}, {Partitions})
    \cup AskRead({"mirror"}, {"earliest", "time"}, {0}, {Partitions})
    \cup AskRead({"tail", "mirror"}, {"offset"}, {1}, {{p} : p \in Partitions})
    \cup AskRead({"peek"}, {"offset"}, {0}, {{p} : p \in Partitions})

MCSelectors == [by : {"keep-last"}, n : {1}] \cup [by : {"before"}, n : {3}]

MCFailures ==
  {"acquire", "list", "append", "remove", "quarantine", "sequence", "spool",
   "release", "crash"}
=============================================================================
