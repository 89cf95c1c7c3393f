--------------------------- MODULE RiskClassifier ---------------------------
(***************************************************************************)
(* The risk of an operation on a target (internal/mqclass/classifier.go)   *)
(* and its authorization (cmd/root.go).  A target is the set of the facts  *)
(* the classifier tells apart; names, backends and ACL fields are reduced  *)
(* to the facts they decide.  Risks are 0..3, for R0..R3.                  *)
(***************************************************************************)
EXTENDS Integers

Facts == {"plan",            \* only a plan or a dry run is asked for
          "protected",       \* by the context's list or by the broker
          "internal",        \* an internal or system topic
          "topicPattern",    \* the topic name holds a wildcard
          "groupPattern",    \* the group name does
          "mayAlter",        \* the backend's create may alter a topic
          "broadGrant",      \* the ACL reaches further than one literal resource
          "subjectExists",   \* the schema subject does
          "subjectUnknown"}  \* nobody can say whether it does

ReadOps == {"list", "describe", "lag", "peek", "tail", "list-dlq", "peek-dlq",
            "cluster-info", "list-acl", "list-schema", "describe-schema", "check-schema"}
OrdinaryOps == {"produce", "create-topic", "register-schema", "mirror"}
ElevatedOps == {"alter-topic", "create-group", "delete-group", "redrive-dlq", "grant-acl"}
DestructiveOps == {"reset-offset", "seek-offset", "purge-topic", "purge-dlq",
                   "delete-topic", "revoke-acl", "delete-schema"}

Operations == ReadOps \cup OrdinaryOps \cup ElevatedOps \cup DestructiveOps
Risks == 0..3

\* An operation nobody has heard of is as destructive as can be.
classifyBase(op) ==
  CASE op \in ReadOps -> 0
    [] op \in OrdinaryOps -> 1
    [] op \in ElevatedOps -> 2
    [] OTHER -> 3

escalate(risk) == IF risk < 3 THEN risk + 1 ELSE 3
EscalateIf(condition, risk) == IF condition THEN escalate(risk) ELSE risk

isOffsetChange(op) == op \in {"reset-offset", "seek-offset"}
isPurgeOrDelete(op) == op \in {"purge-topic", "purge-dlq", "delete-topic", "delete-schema"}

\* The operations whose plan only reads what they would affect.
isReadOnlyPlan(op) ==
  isOffsetChange(op) \/ op \in {"purge-topic", "purge-dlq", "redrive-dlq", "mirror"}

applyTargetEscalation(risk, op, target) ==
  LET real == "plan" \notin target IN
  EscalateIf("internal" \in target /\ op # "produce" /\ real,
    EscalateIf("protected" \in target /\ real,
      EscalateIf(target \cap {"topicPattern", "groupPattern"} # {}, risk)))

\* What is destructive whatever else is known of it.
Pinned(op, target) ==
  \/ /\ "plan" \notin target
     /\ \/ isOffsetChange(op) \/ isPurgeOrDelete(op) \/ op = "redrive-dlq"
        \/ op \in {"produce", "mirror"} /\ "internal" \in target
  \/ op = "revoke-acl"
  \/ op = "grant-acl" /\ "broadGrant" \in target

applyDestructivePins(risk, op, target) ==
  EscalateIf(op = "register-schema" /\ target \cap {"subjectExists", "subjectUnknown"} # {},
    IF Pinned(op, target) THEN 3 ELSE risk)

Classify(op, target) ==
  LET plan == "plan" \in target
      base == EscalateIf(op = "create-topic" /\ "mayAlter" \in target /\ ~plan,
                         classifyBase(op))
      previewed == IF plan /\ isReadOnlyPlan(op) THEN 0 ELSE base
  IN applyDestructivePins(applyTargetEscalation(previewed, op, target), op, target)

-----------------------------------------------------------------------------
\* opskit-core: a protected context raises whatever is more than a read.
EffectiveRisk(risk, guarded) == EscalateIf(guarded /\ risk > 0, risk)

\* opskit-core: the approvals of a command reach up to a level (-1: its role
\* does not even admit reads), and at R3 hold the flag that is asked for.
Authorized(risk, asksFlag, approvals) ==
  /\ risk <= approvals.level
  /\ risk = 3 /\ asksFlag => approvals.flag

Approvals == [level : -1..3, flag : BOOLEAN]
=============================================================================
