---------------------------- MODULE AuditContract ----------------------------
(***************************************************************************)
(* What the audit journal promises, without files, queues or replays        *)
(* (README.md:328-331): a target is touched only under a recorded intent;   *)
(* whoever is told that all went well finds both records; an outcome that   *)
(* is owed is owed until it is recorded; and nothing is applied once the    *)
(* operation has its answer.                                                *)
(***************************************************************************)
CONSTANT Ops

VARIABLES
  recorded,  \* pairs of an operation and the kind of record it has in the log
  owed,      \* operations whose outcome is kept durably outside the log
  applied,   \* operations that have touched their target
  told       \* "pending", "ok", "kept" (AUDIT_INCOMPLETE, owed) or "error"

vars == <<recorded, owed, applied, told>>

Kinds == {"intent", "outcome", "note"}
Open(o) == told[o] = "pending"

Init ==
  /\ recorded = {} /\ owed = {} /\ applied = {}
  /\ told = [o \in Ops |-> "pending"]

\* An intent is recorded while no outcome is owed by anybody.
RecordIntent(o) ==
  /\ Open(o) /\ o \notin applied /\ owed = {}
  /\ recorded' = recorded \cup {<<o, "intent">>}
  /\ UNCHANGED <<owed, applied, told>>

RecordNote(o) ==
  /\ Open(o) /\ owed = {}
  /\ recorded' = recorded \cup {<<o, "note">>}
  /\ UNCHANGED <<owed, applied, told>>

Apply(o) ==
  /\ Open(o) /\ <<o, "intent">> \in recorded
  /\ <<o, "outcome">> \notin recorded /\ o \notin owed
  /\ applied' = applied \cup {o}
  /\ UNCHANGED <<recorded, owed, told>>

\* An operation's outcome is recorded by itself, when its intent is and while
\* nothing is owed, or on its behalf when it is owed.
RecordOutcome(o) ==
  /\ o \in owed \/ (Open(o) /\ owed = {} /\ <<o, "intent">> \in recorded)
  /\ recorded' = recorded \cup {<<o, "outcome">>}
  /\ UNCHANGED <<owed, applied, told>>

Owe(o) ==
  /\ Open(o)
  /\ owed' = owed \cup {o}
  /\ UNCHANGED <<recorded, applied, told>>

Settle(o) ==
  /\ o \in owed /\ <<o, "outcome">> \in recorded
  /\ owed' = owed \ {o}
  /\ UNCHANGED <<recorded, applied, told>>

Answer(o) ==
  /\ Open(o)
  /\ \E what \in {"ok", "kept", "error"} :
       /\ what = "ok" => \/ {<<o, "intent">>, <<o, "outcome">>} \subseteq recorded
                         \/ <<o, "note">> \in recorded
       /\ what = "kept" => o \in owed \/ <<o, "outcome">> \in recorded
       /\ told' = [told EXCEPT ![o] = what]
  /\ UNCHANGED <<recorded, owed, applied>>

Next ==
  \E o \in Ops :
    \/ RecordIntent(o) \/ RecordNote(o) \/ Apply(o) \/ RecordOutcome(o)
    \/ Owe(o) \/ Settle(o) \/ Answer(o)

Spec == Init /\ [][Next]_vars
=============================================================================
