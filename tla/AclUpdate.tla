------------------------------ MODULE AclUpdate ------------------------------
(***************************************************************************)
(* "acl grant" and "acl revoke" on RabbitMQ and Pulsar (rabbitmq.go,        *)
(* pulsar.go: GrantACL, RevokeACL).  The broker keeps one permission for a  *)
(* principal: on RabbitMQ a pattern for each of configure, write and read,  *)
(* on Pulsar a set of actions.  A command reads the permission, changes its *)
(* own scope in the copy and writes all of it back, or deletes it when no   *)
(* scope is left.  Nothing keeps two commands apart.                        *)
(***************************************************************************)
CONSTANTS
  Commands,   \* that run against one principal
  Scopes,     \* configure, write and read; produce, consume, ...
  Patterns,   \* what a scope may be granted on; one value on Pulsar
  NoPattern   \* the scope is not granted

VARIABLES
  permission,  \* the permission the broker keeps; all scopes empty: none
  asked,       \* [kind, scope, pattern] of each command
  pc,          \* where a command is
  copy,        \* the permission as a command has read it
  answer,      \* ok or error
  since        \* ghost: scopes that others changed since a command has read

aclVars == <<permission, asked, pc, copy, answer, since>>

Permission == [Scopes -> Patterns \cup {NoPattern}]
Empty == [s \in Scopes |-> NoPattern]
Request == [kind : {"grant", "revoke"}, scope : Scopes, pattern : Patterns]

Init ==
  /\ permission \in Permission
  /\ asked \in [Commands -> Request]
  /\ pc = [c \in Commands |-> "asked"]
  /\ copy = [c \in Commands |-> Empty]
  /\ answer = [c \in Commands |-> "none"]
  /\ since = [c \in Commands |-> {}]

\* getRabbitMQPermission, pulsarPermissions: no permission reads as an empty one.
Read(c) ==
  /\ pc[c] = "asked"
  /\ copy' = [copy EXCEPT ![c] = permission]
  /\ since' = [since EXCEPT ![c] = {}]
  /\ pc' = [pc EXCEPT ![c] = "read"]
  /\ UNCHANGED <<permission, asked, answer>>

End(c, a) ==
  /\ pc' = [pc EXCEPT ![c] = "ended"]
  /\ answer' = [answer EXCEPT ![c] = a]
  /\ UNCHANGED <<asked, copy>>

ReadFails(c) ==
  /\ pc[c] = "asked"
  /\ End(c, "error")
  /\ UNCHANGED <<permission, since>>

\* Mutant: only the scope of the command is written.
OwnScopeOnly(c) ==
  [Empty EXCEPT ![asked[c].scope] =
     IF asked[c].kind = "grant" THEN asked[c].pattern ELSE NoPattern]

\* rabbitMQSetPermissionScope, pulsarMergeAction, pulsarRemoveAction; a revoke
\* clears its scope whatever pattern it names, and deletes an empty permission.
Changed(c) ==
  [copy[c] EXCEPT ![asked[c].scope] =
     IF asked[c].kind = "grant" THEN asked[c].pattern ELSE NoPattern]

Store(c) ==
  /\ permission' = Changed(c)
  /\ since' = [d \in Commands |->
                 IF d = c THEN since[d]
                 ELSE since[d] \cup {s \in Scopes : permission[s] # permission'[s]}]

\* The permission is put or deleted; a failed request may have been carried out.
Write(c) ==
  /\ pc[c] = "read"
  /\ \/ Store(c) /\ End(c, "ok")
     \/ (Store(c) \/ UNCHANGED <<permission, since>>) /\ End(c, "error")

Next == \E c \in Commands : Read(c) \/ ReadFails(c) \/ Write(c)

Spec == Init /\ [][Next]_aclVars

-----------------------------------------------------------------------------
(***************************************************************************)
(* Properties                                                               *)
(***************************************************************************)

\* Type invariant.
TypeOK ==
  /\ permission \in Permission
  /\ asked \in [Commands -> Request]
  /\ pc \in [Commands -> {"asked", "read", "ended"}]
  /\ copy \in [Commands -> Permission]
  /\ answer \in [Commands -> {"none", "ok", "error"}]
  /\ since \in [Commands -> SUBSET Scopes]

\* A command changes a scope that is not its own only when another command
\* changed that scope between its read and its write: a grant never costs the
\* principal what it had before, and a revoke nothing it did not name, unless
\* commands overlap (rabbitmq.go:627-652, pulsar.go:697-725).
KeepsOthers ==
  \A c \in Commands : pc[c] = "read" /\ pc'[c] = "ended" =>
    \A s \in Scopes \ {asked[c].scope} : permission'[s] # permission[s] => s \in since[c]
LostOnlyByOverlap == [][KeepsOthers]_aclVars

-----------------------------------------------------------------------------
(***************************************************************************)
(* The inductive invariant                                                  *)
(***************************************************************************)

\* A command's copy is what the broker keeps, but for what others have changed
\* since it was read.
CopyCurrent ==
  \A c \in Commands : pc[c] = "read" =>
    \A s \in Scopes : permission[s] # copy[c][s] => s \in since[c]

AclInv == TypeOK /\ CopyCurrent
=============================================================================
