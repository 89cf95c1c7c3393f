---------------------------- MODULE ContextStore ----------------------------
(***************************************************************************)
(* The context store of cmd/context.go and cmd/context_import_credentials.go*)
(* changed by several mqgov processes: ctx set, use, delete, import, role   *)
(* and migrate-credentials.                                                 *)
(*                                                                          *)
(* A command loads the store without the lock and is authorized under the   *)
(* policy it finds there; it then takes the store lock, checks that this is *)
(* still the policy, writes its credentials to the credential store, one    *)
(* slot after the other, and has the configuration written as the last      *)
(* thing under the lock (mqgovctx.Update).  When a credential or the        *)
(* configuration cannot be written, the credentials are compensated: at     *)
(* once under the same lock in the first case, in a lock scope of its own,  *)
(* after other commands may have run, in the second.                        *)
(***************************************************************************)
EXTENDS Naturals

CONSTANTS
  Commands,   \* processes, each running one command
  Calls,      \* which command may be called with what
  Stores,     \* the configurations there may be at the start
  Names,      \* context names
  Slots,      \* physical slots of the credential stores
  Vault,      \* those of them that are in Vault
  Secrets,    \* credential values
  OldSecret,  \* the one every credential has that is there at the start
  Policies,   \* environment, protection, ticket rules and roles of a context
  NoPolicy,   \* the policy of a store without a current context
  Faults,     \* the kinds of failure that may happen
  NoName, NoOne, Absent

AllFaults == {"lock", "audit", "get", "put", "commit", "late", "reload",
              "restore", "release", "crash"}
Kinds == {"primary", "registry"}

ASSUME StoreAssumption ==
  /\ NoPolicy \in Policies
  /\ NoName \notin Names /\ NoOne \notin Commands
  /\ Vault \subseteq Slots
  /\ Faults \subseteq AllFaults
  /\ {"none", "literal"} \cap Slots = {}
  /\ OldSecret \in Secrets

VARIABLES
  config,    \* the context store: [contexts, current]
  creds,     \* the credential stores: slot -> [secret, by] or Absent
  lock,      \* who holds the store lock
  request,   \* what each command was called with
  pc,        \* where each command is
  seen,      \* the store as a command loaded it before authorization
  original,  \* the targets as they were when the command's intent was logged
  writes,    \* the credential writes a command has tried, by their place in puts
  undo,      \* the writes its compensation has still to restore
  verdict    \* what its audit outcome says

locals == <<pc, seen, original, writes, undo, verdict>>
vars == <<config, creds, lock, request, locals>>

-----------------------------------------------------------------------------
\* A credential field of a context is empty, a literal, or refers to a slot.
Item == [policy : Policies, ref : [Kinds -> Slots \cup {"none", "literal"}],
         body : STRING]
Labels == {"start", "ready", "store", "reconcile", "plan", "undo", "undoBroken",
           "done", "crashed"}
Verdicts == {"none", "refused", "success", "failed", "kept", "uncertain"}

Targets(c) == DOMAIN request[c].items
Target(c) == CHOOSE n \in Targets(c) : TRUE
Transactional(c) == request[c].kind \in {"set", "import", "migrate"}
Known(cfg, n) == n \in DOMAIN cfg.contexts

(***************************************************************************)
(* The policy in force for a change of n: n's own or, for a new context,    *)
(* that of the current one.  For a use it is the policy one moves away from.*)
(***************************************************************************)
PolicyOf(cfg, n, source) ==
  [policy |-> IF source = NoName THEN NoPolicy ELSE cfg.contexts[source].policy,
   source |-> source, exists |-> Known(cfg, n)]

PreChange(c, cfg, n) ==
  PolicyOf(cfg, n,
    IF request[c].kind = "use"
      THEN IF cfg.current # NoName THEN cfg.current ELSE n
      ELSE IF Known(cfg, n) THEN n ELSE cfg.current)

\* That policy has to be there.
PolicyFound(c, cfg) ==
  /\ request[c].kind = "use" => Known(cfg, Target(c))
  /\ request[c].kind = "use" \/ (\E n \in Targets(c) : ~Known(cfg, n)) =>
       cfg.current = NoName \/ Known(cfg, cfg.current)

\* What a command may ask for in this store at all.
Possible(c, cfg) ==
  /\ PolicyFound(c, cfg)
  /\ request[c].kind \in {"delete", "role", "migrate"} =>
       \A n \in Targets(c) : Known(cfg, n)
  /\ request[c].kind = "migrate" =>
       \A n \in Targets(c) : \E k \in Kinds : cfg.contexts[n].ref[k] = "literal"
  /\ request[c].kind = "import" /\ ~request[c].force =>
       \A n \in Targets(c) : ~Known(cfg, n)

Authorized(c, cfg) ==
  \A n \in Targets(c) : PreChange(c, cfg, n).policy \in request[c].grants

-----------------------------------------------------------------------------
(***************************************************************************)
(* What the command makes of the store.  A migration turns the literals of  *)
(* the contexts it loaded into references, and keeps all else of them.      *)
(***************************************************************************)
Wanted(c) ==
  [n \in Targets(c) |->
     IF request[c].kind = "migrate"
       THEN [seen[c].contexts[n] EXCEPT !.ref =
               [k \in Kinds |-> IF @[k] = "literal"
                                  THEN request[c].items[n].ref[k] ELSE @[k]]]
       ELSE request[c].items[n]]

\* The credentials it writes: a migration those that are literals.
Puts(c) ==
  {i \in DOMAIN request[c].puts :
     request[c].kind = "migrate" =>
       LET o == request[c].puts[i].owner
       IN seen[c].contexts[o[1]].ref[o[2]] = "literal"}

Replaced(cfg, items) ==
  [cfg EXCEPT !.contexts =
     [n \in DOMAIN @ \cup DOMAIN items |->
        IF n \in DOMAIN items THEN items[n] ELSE @[n]]]

Deleted(cfg, n) ==
  [contexts |-> [m \in DOMAIN cfg.contexts \ {n} |-> cfg.contexts[m]],
   current |-> IF cfg.current = n THEN NoName ELSE cfg.current]

Changed(c) ==
  CASE Transactional(c) -> Replaced(config, Wanted(c))
    [] request[c].kind = "use" -> [config EXCEPT !.current = Target(c)]
    [] request[c].kind = "delete" -> Deleted(config, Target(c))
    [] request[c].kind = "role" ->
         [config EXCEPT !.contexts[Target(c)].policy =
            request[c].items[Target(c)].policy]

\* contextCredentialSlotOwners: every slot that is referred to has one owner.
Owners(cfg, s) ==
  {o \in (DOMAIN cfg.contexts) \X Kinds : cfg.contexts[o[1]].ref[o[2]] = s}
Unshared(cfg) == \A s \in Slots : \A o, p \in Owners(cfg, s) : o = p

-----------------------------------------------------------------------------
Init ==
  /\ config \in Stores
  /\ creds = [s \in Slots |->
                IF Owners(config, s) = {} THEN Absent
                ELSE [secret |-> OldSecret, by |-> NoOne]]
  /\ lock = NoOne
  /\ request \in Calls
  /\ pc = [c \in Commands |-> "start"]
  /\ seen = [c \in Commands |-> config]
  /\ original = [c \in Commands |-> << >>]
  /\ writes = [c \in Commands |-> << >>]
  /\ undo = [c \in Commands |-> {}]
  /\ verdict = [c \in Commands |-> "none"]

Goto(c, label) == pc' = [pc EXCEPT ![c] = label]
Judge(c, v) == Goto(c, "done") /\ verdict' = [verdict EXCEPT ![c] = v]

\* mqgovctx.Load without the lock, then authorizeContextControl.
LoadAndAuthorize(c) ==
  /\ pc[c] = "start"
  /\ seen' = [seen EXCEPT ![c] = config]
  /\ IF Possible(c, config) /\ Authorized(c, config)
       THEN Goto(c, "ready") /\ UNCHANGED verdict
       ELSE Judge(c, "refused")
  /\ UNCHANGED <<config, creds, lock, request, original, writes, undo>>

\* The lock is not granted: before the change that refuses it, before the
\* reconciliation that leaves its outcome open.
LockUnavailable(c) ==
  /\ pc[c] \in {"ready", "reconcile"}
  /\ lock # NoOne \/ "lock" \in Faults
  /\ Judge(c, IF pc[c] = "ready" THEN "refused" ELSE "uncertain")
  /\ UNCHANGED <<config, creds, lock, request, seen, original, writes, undo>>

\* Mutant: only that the targets are still there or still new is checked.
SameTargets(c) ==
  \A n \in Targets(c) :
    PreChange(c, config, n).exists = PreChange(c, seen[c], n).exists

SamePolicy(c) ==
  \A n \in Targets(c) : PreChange(c, config, n) = PreChange(c, seen[c], n)

\* Mutant: the slots are checked against the store loaded before the lock.
StillValidAsLoaded(c) ==
  /\ PolicyFound(c, config)
  /\ SamePolicy(c)
  /\ request[c].kind \in {"delete", "role"} => Known(config, Target(c))
  /\ request[c].kind = "migrate" =>
       \A n \in Targets(c) : config.contexts[n] = seen[c].contexts[n]
  /\ Transactional(c) => Unshared(Replaced(seen[c], Wanted(c)))

\* Mutant: a migration looks at the policy of its contexts only.
StillValidPolicy(c) ==
  /\ PolicyFound(c, config)
  /\ SamePolicy(c)
  /\ request[c].kind \in {"delete", "role"} => Known(config, Target(c))
  /\ Transactional(c) => Unshared(Replaced(config, Wanted(c)))

\* What mqgovctx.Update's action checks before it begins its audit record.
StillValid(c) ==
  /\ PolicyFound(c, config)
  /\ SamePolicy(c)
  /\ request[c].kind \in {"delete", "role"} => Known(config, Target(c))
  /\ request[c].kind = "migrate" =>
       \A n \in Targets(c) : config.contexts[n] = seen[c].contexts[n]
  /\ Transactional(c) => Unshared(Replaced(config, Wanted(c)))

Enter(c) ==
  /\ pc[c] = "ready" /\ lock = NoOne
  /\ StillValid(c)
  /\ lock' = c
  /\ original' = [original EXCEPT ![c] =
       [n \in Targets(c) \cap DOMAIN config.contexts |-> config.contexts[n]]]
  /\ Goto(c, "store")
  /\ UNCHANGED <<config, creds, request, seen, writes, undo, verdict>>

\* The check fails, or beginMutationAudit refuses: nothing was written yet.
EnterRefused(c) ==
  /\ pc[c] = "ready" /\ lock = NoOne
  /\ ~StillValid(c) \/ "audit" \in Faults
  /\ Judge(c, "refused")
  /\ UNCHANGED <<config, creds, lock, request, seen, original, writes, undo>>

(***************************************************************************)
(* storeContextImportCredentials and storeCredentialMigrationCandidates:    *)
(* each write is on record before it is tried, with the value it replaces.  *)
(***************************************************************************)
Left(c) == Puts(c) \ DOMAIN writes[c]
NextPut(c, i) == \A j \in Left(c) : i <= j

Stored(c, i) ==
  LET w == request[c].puts[i]
  IN [creds EXCEPT ![w.slot] = [secret |-> w.secret, by |-> c]]

Tried(c, i, ok) ==
  LET w == request[c].puts[i]
  IN [slot |-> w.slot, owner |-> w.owner, previous |-> creds[w.slot],
      written |-> w.secret, put |-> ok]

\* Mutant: a write is put on record only after it succeeded.
RecordedIfPut(c, i, ok) ==
  writes' = [writes EXCEPT ![c] =
    [j \in DOMAIN @ \cup (IF ok THEN {i} ELSE {}) |->
       IF j = i THEN Tried(c, i, ok) ELSE @[j]]]

Recorded(c, i, ok) ==
  writes' = [writes EXCEPT ![c] =
    [j \in DOMAIN @ \cup {i} |-> IF j = i THEN Tried(c, i, ok) ELSE @[j]]]

PutCredential(c) ==
  /\ pc[c] = "store"
  /\ \E i \in Left(c) :
       NextPut(c, i) /\ creds' = Stored(c, i) /\ Recorded(c, i, TRUE)
  /\ UNCHANGED <<config, lock, request, pc, seen, original, undo, verdict>>

\* A failed write may have been made; a failed read has changed nothing.
PutFails(c) ==
  /\ pc[c] = "store"
  /\ \E i \in Left(c) :
       /\ NextPut(c, i)
       /\ \/ "put" \in Faults /\ creds' \in {creds, Stored(c, i)} /\ Recorded(c, i, FALSE)
          \/ "get" \in Faults /\ UNCHANGED <<creds, writes>>
  /\ Goto(c, "plan")
  /\ UNCHANGED <<config, lock, request, seen, original, undo, verdict>>

-----------------------------------------------------------------------------
(***************************************************************************)
(* The end of mqgovctx.Update: the store is written and the lock given back.*)
(***************************************************************************)
ReadyToCommit(c) == pc[c] = "store" /\ Left(c) = {}

Commit(c) ==
  /\ ReadyToCommit(c)
  /\ config' = Changed(c)
  /\ lock' = NoOne
  /\ Judge(c, "success")
  /\ UNCHANGED <<creds, request, seen, original, writes, undo>>

\* An error of the write before the store was replaced, or after.  A command
\* without credential transaction takes it as a failure.
CommitFails(c) ==
  /\ ReadyToCommit(c)
  /\ \/ "commit" \in Faults /\ UNCHANGED config
     \/ "late" \in Faults /\ config' = Changed(c)
  /\ lock' \in {NoOne} \cup (IF "release" \in Faults THEN {c} ELSE {})
  /\ IF Transactional(c) THEN Goto(c, "reconcile") /\ UNCHANGED verdict
                         ELSE Judge(c, "failed")
  /\ UNCHANGED <<creds, request, seen, original, writes, undo>>

-----------------------------------------------------------------------------
(***************************************************************************)
(* reconcileContextImportFailure and reconcileCredentialMigrationFailure.   *)
(***************************************************************************)
Committed(c) ==
  \A n \in Targets(c) : Known(config, n) /\ config.contexts[n] = Wanted(c)[n]

Unchanged(c) ==
  \A n \in Targets(c) :
    /\ Known(config, n) <=> n \in DOMAIN original[c]
    /\ Known(config, n) => config.contexts[n] = original[c][n]

Reconcile(c) ==
  /\ pc[c] = "reconcile" /\ lock = NoOne
  /\ \/ /\ Committed(c)
        /\ Judge(c, "kept") /\ UNCHANGED lock
     \/ /\ ~Committed(c) /\ ~Unchanged(c)
        /\ Judge(c, "uncertain") /\ UNCHANGED lock
     \/ /\ ~Committed(c) /\ Unchanged(c) /\ DOMAIN writes[c] = {}
        /\ Judge(c, "failed") /\ UNCHANGED lock
     \/ /\ ~Committed(c) /\ Unchanged(c) /\ DOMAIN writes[c] # {}
        /\ Goto(c, "plan") /\ lock' = c /\ UNCHANGED verdict
  /\ UNCHANGED <<config, creds, request, seen, original, writes, undo>>

\* The store cannot be loaded again, or the lock cannot be given back.
ReconcileFails(c) ==
  /\ pc[c] = "reconcile" /\ lock = NoOne
  /\ \/ "reload" \in Faults /\ UNCHANGED lock
     \/ /\ "release" \in Faults
        /\ Committed(c) \/ ~Unchanged(c) \/ DOMAIN writes[c] = {}
        /\ lock' = c
  /\ Judge(c, "uncertain")
  /\ UNCHANGED <<config, creds, request, seen, original, writes, undo>>

(***************************************************************************)
(* compensateContextImportCredentialsLocked: every write that has to be     *)
(* undone is found before the first one is, and one that cannot be undone   *)
(* safely stops all.                                                        *)
(***************************************************************************)
SameSecret(x, y) ==
  IF x = Absent \/ y = Absent THEN x = y ELSE x.secret = y.secret

\* Mutant: a write that succeeded is undone whatever is in the slot now.
RestorableBlind(w) == w.put \/ creds[w.slot] # Absent

Restorable(w) == creds[w.slot] # Absent /\ creds[w.slot].secret = w.written
Untouched(w) == ~w.put /\ SameSecret(creds[w.slot], w.previous)

Undoable(c) ==
  \A i \in DOMAIN writes[c] :
    LET w == writes[c][i]
    IN /\ Owners(config, w.slot) \subseteq {w.owner}
       /\ Restorable(w) \/ Untouched(w)
       /\ Restorable(w) => w.slot \notin Vault

Released(c) == lock' \in {NoOne} \cup (IF "release" \in Faults THEN {c} ELSE {})

PlanUndo(c) ==
  /\ pc[c] = "plan" /\ Undoable(c)
  /\ undo' = [undo EXCEPT ![c] = {i \in DOMAIN writes[c] : Restorable(writes[c][i])}]
  /\ Goto(c, "undo")
  /\ UNCHANGED <<config, creds, lock, request, seen, original, writes, verdict>>

PlanRefused(c) ==
  /\ pc[c] = "plan"
  /\ ~Undoable(c) \/ ("get" \in Faults /\ DOMAIN writes[c] # {})
  /\ Judge(c, "uncertain")
  /\ Released(c)
  /\ UNCHANGED <<config, creds, request, seen, original, writes, undo>>

\* The writes are undone from the last to the first, the rest of them also
\* after one could not be.
LastWrite(c, i) == \A j \in undo[c] : j <= i
Restored(c, i) == [creds EXCEPT ![writes[c][i].slot] = writes[c][i].previous]
Undone(c, i) == undo' = [undo EXCEPT ![c] = @ \ {i}]

Restore(c) ==
  /\ pc[c] \in {"undo", "undoBroken"}
  /\ \E i \in undo[c] : LastWrite(c, i) /\ creds' = Restored(c, i) /\ Undone(c, i)
  /\ UNCHANGED <<config, lock, request, pc, seen, original, writes, verdict>>

RestoreFails(c) ==
  /\ pc[c] \in {"undo", "undoBroken"} /\ "restore" \in Faults
  /\ \E i \in undo[c] :
       LastWrite(c, i) /\ creds' \in {creds, Restored(c, i)} /\ Undone(c, i)
  /\ Goto(c, "undoBroken")
  /\ UNCHANGED <<config, lock, request, seen, original, writes, verdict>>

FinishUndo(c) ==
  /\ pc[c] \in {"undo", "undoBroken"} /\ undo[c] = {}
  /\ Judge(c, IF pc[c] = "undo" THEN "failed" ELSE "uncertain")
  /\ Released(c)
  /\ UNCHANGED <<config, creds, request, seen, original, writes, undo>>

Crash(c) ==
  /\ "crash" \in Faults /\ pc[c] \notin {"start", "done", "crashed"}
  /\ Goto(c, "crashed")
  /\ UNCHANGED <<config, creds, lock, request, seen, original, writes, undo, verdict>>

\* The lock of a process that is gone is freed or taken over, or never is.
Reclaim(c) ==
  /\ lock = c /\ pc[c] \in {"done", "crashed"}
  /\ lock' = NoOne
  /\ UNCHANGED <<config, creds, request, locals>>

-----------------------------------------------------------------------------
Step(c) ==
  \/ LoadAndAuthorize(c) \/ LockUnavailable(c)
  \/ Enter(c) \/ EnterRefused(c)
  \/ PutCredential(c) \/ PutFails(c)
  \/ Commit(c) \/ CommitFails(c)
  \/ Reconcile(c) \/ ReconcileFails(c)
  \/ PlanUndo(c) \/ PlanRefused(c)
  \/ Restore(c) \/ RestoreFails(c) \/ FinishUndo(c)

Halt == (\A c \in Commands : pc[c] \in {"done", "crashed"}) /\ UNCHANGED vars

Next == (\E c \in Commands : Step(c) \/ Crash(c) \/ Reclaim(c)) \/ Halt

Spec == Init /\ [][Next]_vars

-----------------------------------------------------------------------------
(***************************************************************************)
(* Properties                                                               *)
(***************************************************************************)

Credential == [secret : Secrets, by : Commands \cup {NoOne}]
Write == [slot : Slots, owner : Names \X Kinds, previous : Credential \cup {Absent},
          written : Secrets, put : BOOLEAN]

\* Type invariant: the variables hold values of their types.
TypeOK ==
  /\ DOMAIN config.contexts \subseteq Names
  /\ \A n \in DOMAIN config.contexts : config.contexts[n] \in Item
  /\ config.current \in Names \cup {NoName}
  /\ creds \in [Slots -> Credential \cup {Absent}]
  /\ lock \in Commands \cup {NoOne}
  /\ pc \in [Commands -> Labels]
  /\ DOMAIN writes = Commands /\ DOMAIN undo = Commands
  /\ \A c \in Commands : \A i \in DOMAIN writes[c] : writes[c][i] \in Write
  /\ \A c \in Commands : undo[c] \subseteq DOMAIN writes[c]
  /\ verdict \in [Commands -> Verdicts]

\* The current context exists: no interleaving of a use with a delete leaves
\* the store pointing at a context that is gone, which would lock out every
\* command that needs the current context's policy.
CurrentExists == config.current # NoName => Known(config, config.current)

\* No two contexts share a credential slot, whatever contexts other processes
\* add between the check of the new names and the write.
SlotsUnshared == Unshared(config)

\* The store is one every command can load and none shares a secret in: both of
\* the above, after any interleaving.
StoreSound == CurrentExists /\ SlotsUnshared

Changes(c) == pc[c] = "store" /\ pc'[c] # "store" /\ config' # config

\* A change is made under a policy its approvals satisfy at the instant it is
\* made, not only at the instant they were checked.
ApprovedWhenMade ==
  [][\A c \in Commands : Changes(c) => Authorized(c, config)]_vars

\* An import without --force adds contexts and replaces none, also one that
\* somebody else created after the import had looked.
AddsOnly(c) == Targets(c) \cap DOMAIN config.contexts = {}

\* A migration writes back the contexts it read as they are now.
KeepsItems(c) ==
  \A n \in Targets(c) : config'.contexts[n].body = config.contexts[n].body
                       /\ config'.contexts[n].policy = config.contexts[n].policy

\* Neither an import nor a migration loses what another command wrote to the
\* store between the look and the write (context.go:1407-1453, 1800-1849).
NothingClobbered ==
  [][\A c \in Commands : Changes(c) =>
       /\ request[c].kind = "import" /\ ~request[c].force => AddsOnly(c)
       /\ request[c].kind = "migrate" => KeepsItems(c)]_vars

\* A command whose outcome says that all failed has left no credential of its
\* own behind, then or later, though others wrote to the same slots.
FailedLeavesNothing ==
  \A c \in Commands : Transactional(c) /\ verdict[c] = "failed" =>
    \A s \in Slots : creds[s] # Absent => creds[s].by # c

Undoes(c, s) == pc[c] \in {"undo", "undoBroken"} /\ undo'[c] # undo[c]
                  /\ creds'[s] # creds[s]

\* Compensation restores only values the command itself wrote ("credential
\* value changed before compensation; refusing to overwrite",
\* context_import_credentials.go:555).  Two commands that write one value
\* cannot be told apart, so this is about commands with values of their own.
RestoresOwnWrites ==
  [][\A c \in Commands, s \in Slots : Undoes(c, s) => creds[s].by = c]_vars

\* Compensation never takes back the write of another command that was told
\* it succeeded: "restores the previous credential values when it can prove
\* compensation is safe; otherwise it fails closed" (SKILL.md:42).  The code
\* proves it by comparing values.
AcknowledgedKept ==
  [][\A c \in Commands, s \in Slots :
       Undoes(c, s) =>
         \A d \in Commands \ {c} : creds[s].by = d => verdict[d] # "success"]_vars

-----------------------------------------------------------------------------
(***************************************************************************)
(* The inductive invariant                                                  *)
(***************************************************************************)

CommandKinds == {"set", "use", "delete", "import", "role", "migrate"}

\* A store as it is written: items of known names, and a current name.
IsStore(cfg) ==
  /\ cfg = [contexts |-> cfg.contexts, current |-> cfg.current]
  /\ \A n \in DOMAIN cfg.contexts : cfg.contexts[n] \in Item
  /\ cfg.current = NoName \/ Known(cfg, cfg.current)
  /\ Unshared(cfg)

\* Every store a command loads was written by one: mqgovctx.Update checks what
\* it is about to write.  Every command names a context, and writes a credential
\* to the slot that its item refers to, one for each field.
PutsMatch(call) ==
  \A i \in DOMAIN call.puts :
    LET w == call.puts[i]
    IN /\ call.kind \in {"set", "import", "migrate"}
       /\ w.slot \in Slots /\ w.secret \in Secrets /\ w.owner \in (DOMAIN call.items) \X Kinds
       /\ call.items[w.owner[1]].ref[w.owner[2]] = w.slot
       /\ \A j \in DOMAIN call.puts : call.puts[j].owner = w.owner => j = i

ASSUME CallAssumption ==
  /\ \A cfg \in Stores : IsStore(cfg) /\ DOMAIN cfg.contexts \subseteq Names
  /\ \A call \in Calls : \A c \in Commands :
       /\ call[c].kind \in CommandKinds
       /\ DOMAIN call[c].items # {} /\ DOMAIN call[c].items \subseteq Names
       /\ \A n \in DOMAIN call[c].items : call[c].items[n] \in Item
       /\ PutsMatch(call[c])

\* Whoever is between the checks and the end of its Update, or undoes what it
\* wrote, holds the lock.
LockHeld ==
  \A c \in Commands : pc[c] \in {"store", "plan", "undo", "undoBroken"} => lock = c

\* What was found before the lock stays true of the store that was loaded.
LoadedWell ==
  \A c \in Commands : pc[c] \in {"ready", "store"} =>
    Possible(c, seen[c]) /\ Authorized(c, seen[c])

\* What is checked under the lock stays true until the store is written.
ValidUnderLock == \A c \in Commands : pc[c] = "store" => StillValid(c)

StoreInv ==
  /\ request \in Calls /\ pc \in [Commands -> Labels] /\ DOMAIN seen = Commands
  /\ IsStore(config) /\ LockHeld /\ LoadedWell /\ ValidUnderLock

-----------------------------------------------------------------------------
(***************************************************************************)
(* The credentials, where commands write values that no other command does  *)
(* and that were not there before.                                          *)
(***************************************************************************)
OwnValues ==
  \A call \in Calls : \A c \in Commands : \A i \in DOMAIN call[c].puts :
    /\ call[c].puts[i].secret # OldSecret
    /\ \A d \in Commands \ {c} : \A j \in DOMAIN call[d].puts :
         call[d].puts[j].secret # call[c].puts[i].secret

Wrote(x, c) == x # Absent /\ x.by = c

\* A write on record is what the command was called to put, into a slot of its
\* own, over a value that was not the command's.
WritesRecorded ==
  \A c \in Commands :
    /\ pc[c] \in {"start", "ready"} => DOMAIN writes[c] = {}
    /\ undo[c] \subseteq DOMAIN writes[c]
    /\ \A i \in DOMAIN writes[c] :
         /\ i \in Puts(c)
         /\ writes[c][i].slot \in Slots /\ writes[c][i].put \in BOOLEAN
         /\ writes[c][i].slot = request[c].puts[i].slot
         /\ writes[c][i].written = request[c].puts[i].secret
         /\ ~Wrote(writes[c][i].previous, c)
         /\ ~writes[c][i].put => pc[c] \notin {"store", "reconcile"}
         /\ \A j \in DOMAIN writes[c] : writes[c][j].slot = writes[c][i].slot => j = i

\* Whoever wrote a value has the write on record.
Accounted(x, s) ==
  \/ x = Absent
  \/ /\ x \in Credential
     /\ x.by = NoOne => x.secret = OldSecret
     /\ x.by # NoOne => \E i \in DOMAIN writes[x.by] :
          writes[x.by][i].slot = s /\ writes[x.by][i].written = x.secret

AllAccounted ==
  /\ \A s \in Slots : Accounted(creds[s], s)
  /\ \A c \in Commands : \A i \in DOMAIN writes[c] :
       Accounted(writes[c][i].previous, writes[c][i].slot)

\* A write that its command may still undo.
Pending(c) ==
  CASE pc[c] \in {"store", "reconcile", "plan"} -> DOMAIN writes[c]
    [] pc[c] \in {"undo", "undoBroken"} -> undo[c]
    [] OTHER -> {}

\* A value that a command wrote is in one place: in its slot, or to be restored
\* to it by one write of another command.  In both it is only when that write
\* failed without effect and the command has not looked yet.
OnePlaceEach ==
  \A d \in Commands : \A i \in Pending(d) : \A c \in Commands :
    LET s == writes[d][i].slot
    IN Wrote(writes[d][i].previous, c) =>
         /\ Wrote(creds[s], c) => pc[d] = "plan" /\ ~writes[d][i].put
         /\ \A e \in Commands : \A j \in Pending(e) :
              writes[e][j].slot = s /\ Wrote(writes[e][j].previous, c) => e = d /\ j = i

\* Nobody has yet to restore a value of this command, at one slot or at any.
NotKept(c, s) ==
  \A d \in Commands : \A j \in Pending(d) :
    writes[d][j].slot = s => ~Wrote(writes[d][j].previous, c)

\* A failed write of a command that compensates has not been read by others.
FailedUnseen ==
  \A c \in Commands : pc[c] = "plan" =>
    \A i \in DOMAIN writes[c] : ~writes[c][i].put => NotKept(c, writes[c][i].slot)

\* What has still to be undone is in its slot as it was written; what has not is
\* gone, unless a restore failed.
UndoExact ==
  \A c \in Commands : pc[c] \in {"undo", "undoBroken"} =>
    /\ \A i \in undo[c] : Wrote(creds[writes[c][i].slot], c)
    /\ pc[c] = "undo" =>
         /\ \A i \in DOMAIN writes[c] \ undo[c] : ~Wrote(creds[writes[c][i].slot], c)
         /\ \A s \in Slots : NotKept(c, s)

FailedGone ==
  \A c \in Commands :
    /\ verdict[c] # "none" => pc[c] = "done"
    /\ Transactional(c) /\ verdict[c] = "failed" =>
         \A s \in Slots : ~Wrote(creds[s], c) /\ NotKept(c, s)

CredentialInv ==
  /\ creds \in [Slots -> Credential \cup {Absent}]
  /\ DOMAIN writes = Commands /\ DOMAIN undo = Commands /\ DOMAIN verdict = Commands
  /\ WritesRecorded /\ AllAccounted /\ OnePlaceEach
  /\ FailedUnseen /\ UndoExact /\ FailedGone
=============================================================================
