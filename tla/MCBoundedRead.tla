----------------------------- MODULE MCBoundedRead -----------------------------
(***************************************************************************)
(* BoundedRead for TLC: the mirrors of one partition or of both, from every *)
(* kind of start.                                                           *)
(***************************************************************************)
EXTENDS BoundedRead

AskMirror(froms, ns, asks) ==
  [kind : {"mirror"}, from : froms, n : ns, parts : asks, limit : {1, 3}]

MCReads ==
  AskMirror({"earliest", "latest", "time"}, {0}, {{p} : p \in Partitions} \cup {Partitions})
    \cup AskMirror({"offset"}, {1}, {Partitions})
=============================================================================
