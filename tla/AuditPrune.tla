------------------------------ MODULE AuditPrune ------------------------------
(***************************************************************************)
(* "audit prune --confirm" (cmd/audit.go runAuditPrune).  A command lists   *)
(* the rotated files of an audit log, selects the oldest, is authorized     *)
(* under the policy it finds, and only then takes the lock of the context   *)
(* store, under which it checks the policy and the listing again, logs its  *)
(* intent, and has the core delete the files.  Meanwhile other commands     *)
(* append to the log, and so rotate it, or prune it, or change the policy.  *)
(*                                                                          *)
(* A rotated file is a number, the older the smaller.  The core compares    *)
(* the listing once more and deletes under the lock of the log: one step.   *)
(***************************************************************************)
EXTENDS OutcomeRecord, FiniteSets

CONSTANTS
  Pruners,    \* prune commands
  Selectors,  \* [by : {"keep-last", "before"}, n : Nat]
  Policies,   \* of the current context
  Permits,    \* those that let the commands prune
  MaxFile,    \* bound on the rotations of each log
  NoOne

Logs == {"target", "control"}
Steps == {"asked", "planned", "authorized", "locked", "checked", "intent",
          "deleted", "unlocked", "ended"}
Faults == {"none", "error", "conflict"}

VARIABLES
  rotated,   \* the rotated files of each log
  newest,    \* the number of the youngest file a log ever had
  policy,    \* in force
  lock,      \* who holds the lock of the context store
  selector,  \* of each command
  pc,        \* where a command is
  listing,   \* the target's files as the command planned with them
  approved,  \* the policy the command was authorized under
  error,     \* how the operation ended
  started,   \* did the core fail after it had begun to delete?
  deleted,   \* the files the command deleted, all of which the core reports
  outcome,   \* the outcome record in the control log
  touched    \* ghost: did another command change the target since the plan?

logs == <<rotated, newest>>
pruneVars == <<logs, policy, lock, selector, pc, listing, approved, error, started,
               deleted, outcome, touched>>

NoOutcome == Record("failed", Zero, 0, "none", "")

Init ==
  /\ newest = [l \in Logs |-> IF l = "target" THEN 2 ELSE 0]
  /\ rotated = [l \in Logs |-> 1 .. newest[l]]
  /\ policy \in Policies
  /\ lock = NoOne
  /\ selector \in [Pruners -> Selectors]
  /\ pc = [p \in Pruners |-> "asked"]
  /\ listing = [p \in Pruners |-> {}]
  /\ approved = [p \in Pruners |-> policy]
  /\ error = [p \in Pruners |-> "none"]
  /\ started = [p \in Pruners |-> FALSE]
  /\ deleted = [p \in Pruners |-> {}]
  /\ outcome = [p \in Pruners |-> NoOutcome]
  /\ touched = [p \in Pruners |-> FALSE]

-----------------------------------------------------------------------------
(***************************************************************************)
(* The other commands.                                                      *)
(***************************************************************************)
Command == <<selector, pc, listing, approved, error, started, deleted, outcome>>

\* The log is full: its content becomes its youngest rotated file.
Rotate(l) ==
  /\ newest[l] < MaxFile
  /\ newest' = [newest EXCEPT ![l] = @ + 1]
  /\ rotated' = [rotated EXCEPT ![l] = @ \cup {newest'[l]}]

RotateByOthers(l) ==
  /\ Rotate(l)
  /\ touched' = [p \in Pruners |-> touched[p] \/ l = "target"]
  /\ UNCHANGED <<policy, lock, Command>>

ChangePolicy ==
  /\ lock = NoOne
  /\ policy' \in Policies \ {policy}
  /\ UNCHANGED <<logs, lock, Command, touched>>

-----------------------------------------------------------------------------
Goto(p, s) == pc' = [pc EXCEPT ![p] = s]
Unplanned == <<selector, listing>>
Result == <<started, deleted, outcome>>

Fail(p, s, e) ==
  /\ Goto(p, s)
  /\ error' = [error EXCEPT ![p] = e]

\* selectAuditPruneCandidates
Candidates(p) ==
  IF selector[p].by = "keep-last"
    THEN {f \in listing[p] : Cardinality({g \in listing[p] : g > f}) >= selector[p].n}
    ELSE {f \in listing[p] : f < selector[p].n}

\* auditPrunePlan, strictAuditRotatedFiles
Plan(p) ==
  /\ pc[p] = "asked"
  /\ listing' = [listing EXCEPT ![p] = rotated["target"]]
  /\ touched' = [touched EXCEPT ![p] = FALSE]
  /\ Goto(p, "planned")
  /\ UNCHANGED <<logs, policy, lock, selector, approved, error, Result>>

\* currentAuditPrunePolicy, authorizeForContextWithConfirmation
Authorize(p) ==
  /\ pc[p] = "planned"
  /\ approved' = [approved EXCEPT ![p] = policy]
  /\ Goto(p, IF policy \in Permits THEN "authorized" ELSE "ended")
  /\ UNCHANGED <<logs, policy, lock, Unplanned, error, Result, touched>>

NothingToDo(p) ==
  /\ pc[p] = "authorized" /\ Candidates(p) = {}
  /\ Goto(p, "ended")
  /\ UNCHANGED <<logs, policy, lock, Unplanned, approved, error, Result, touched>>

\* Mutant: the policy that was authorized is not compared.
AnyPolicy(p) == TRUE

\* ensureAuditPrunePolicyUnchanged
SamePolicy(p) == approved[p] = policy

\* withContextStoreLock; a command that does not get the lock ends.
Enter(p) ==
  /\ pc[p] = "authorized" /\ Candidates(p) # {}
  /\ \/ /\ lock = NoOne /\ SamePolicy(p)
        /\ lock' = p /\ Goto(p, "locked")
        /\ UNCHANGED error
     \/ /\ lock # NoOne \/ ~SamePolicy(p)
        /\ Fail(p, "ended", "error")
        /\ UNCHANGED lock
  /\ UNCHANGED <<logs, policy, Unplanned, approved, Result, touched>>

\* Nothing was begun: the command ends without an outcome.
LeaveEarly(p, e) ==
  /\ Fail(p, "ended", e)
  /\ lock' = NoOne

Unchanged(p) == rotated["target"] = listing[p]

\* validateAuditPruneConfirmation
Validate(p) ==
  /\ pc[p] = "locked"
  /\ \/ Unchanged(p) /\ Goto(p, "checked") /\ UNCHANGED <<lock, error>>
     \/ ~Unchanged(p) /\ LeaveEarly(p, "conflict")
  /\ UNCHANGED <<logs, policy, Unplanned, approved, Result, touched>>

\* Mutant: the intent goes to the log that is pruned.
TargetItself == "target"

\* auditControlPath
ControlLog == "control"

\* An append by p rotates the log it goes to, or does not.
AppendRecord(p) ==
  \/ UNCHANGED <<logs, touched>>
  \/ /\ Rotate(ControlLog)
     /\ touched' = [q \in Pruners |-> touched[q] \/ (q # p /\ ControlLog = "target")]

\* beginMutationAudit
LogIntent(p) ==
  /\ pc[p] = "checked"
  /\ \/ Goto(p, "intent") /\ AppendRecord(p) /\ UNCHANGED <<lock, error>>
     \/ LeaveEarly(p, "error") /\ UNCHANGED <<logs, touched>>
  /\ UNCHANGED <<policy, Unplanned, approved, Result>>

Remove(p, fs) ==
  /\ rotated' = [rotated EXCEPT !["target"] = @ \ fs]
  /\ deleted' = [deleted EXCEPT ![p] = fs]
  /\ touched' = [q \in Pruners |-> touched[q] \/ (q # p /\ fs # {})]

Oldest(fs) == {os \in SUBSET fs : \A o \in os, f \in fs \ os : o < f}

\* deleteAuditPruneCandidates: the core refuses a listing that changed, fails
\* before it begins, deletes all, or stops after some, unsure of those.
Delete(p) ==
  /\ pc[p] = "intent"
  /\ Goto(p, "deleted")
  /\ \/ /\ Unchanged(p) /\ Remove(p, Candidates(p))
        /\ UNCHANGED <<error, started>>
     \/ /\ Unchanged(p)
        /\ \E fs \in Oldest(Candidates(p)) : Remove(p, fs)
        /\ error' = [error EXCEPT ![p] = "error"]
        /\ started' = [started EXCEPT ![p] = TRUE]
     \/ /\ error' = [error EXCEPT ![p] = IF Unchanged(p) THEN "error" ELSE "conflict"]
        /\ UNCHANGED <<rotated, deleted, touched, started>>
  /\ UNCHANGED <<newest, policy, lock, Unplanned, approved, outcome>>

\* The lock is released; that it was not known to be is an error of its own.
Unlock(p) ==
  /\ pc[p] = "deleted"
  /\ lock' = NoOne
  /\ \/ Goto(p, "unlocked") /\ UNCHANGED error
     \/ Fail(p, "unlocked", IF error[p] = "none" THEN "error" ELSE error[p])
  /\ UNCHANGED <<logs, policy, Unplanned, approved, Result, touched>>

\* finishAuditPrune
Finish(p) ==
  /\ pc[p] = "unlocked"
  /\ Goto(p, "ended")
  /\ outcome' = [outcome EXCEPT ![p] =
       PruneOutcome(Cardinality(Candidates(p)), Cardinality(deleted[p]), ~started[p],
                    IF error[p] = "none" THEN "none" ELSE "error")]
  /\ AppendRecord(p)
  /\ UNCHANGED <<policy, lock, Unplanned, approved, error, started, deleted>>

Next ==
  \/ \E l \in Logs : RotateByOthers(l)
  \/ ChangePolicy
  \/ \E p \in Pruners : \/ Plan(p) \/ Authorize(p) \/ NothingToDo(p) \/ Enter(p)
                        \/ Validate(p) \/ LogIntent(p) \/ Delete(p) \/ Unlock(p)
                        \/ Finish(p)

Spec == Init /\ [][Next]_pruneVars

-----------------------------------------------------------------------------
(***************************************************************************)
(* Properties                                                               *)
(***************************************************************************)

\* Type invariant.
TypeOK ==
  /\ rotated \in [Logs -> SUBSET (1 .. MaxFile)] /\ newest \in [Logs -> 0 .. MaxFile]
  /\ policy \in Policies /\ lock \in Pruners \cup {NoOne}
  /\ selector \in [Pruners -> Selectors] /\ pc \in [Pruners -> Steps]
  /\ listing \in [Pruners -> SUBSET (1 .. MaxFile)]
  /\ deleted \in [Pruners -> SUBSET (1 .. MaxFile)] /\ outcome \in [Pruners -> Outcome]
  /\ approved \in [Pruners -> Policies] /\ error \in [Pruners -> Faults]
  /\ started \in [Pruners -> BOOLEAN] /\ touched \in [Pruners -> BOOLEAN]
  /\ \A p \in Pruners : deleted[p] \subseteq Candidates(p)

\* No rotated file is deleted while the policy in force forbids to prune,
\* although the command was authorized before it had the lock (cmd/audit.go
\* 420-441, 597-624).
DeletesPermitted ==
  \A p \in Pruners : deleted'[p] # deleted[p] => policy \in Permits
UnderCurrentPolicy == [][DeletesPermitted]_pruneVars

\* A command is refused for a listing that changed only when another command
\* changed it: its own intent never rotates the log it prunes
\* (skills/mqgov-cli/SKILL.md:149-151, cmd/audit.go:449, 467-469).
NotSelfDisturbed == \A p \in Pruners : error[p] = "conflict" => touched[p]

\* The files a command deleted are among the succeeded or uncertain ones of its
\* outcome, and those that succeeded were deleted (cmd/audit.go:481-520).
ChangesCounted ==
  \A p \in Pruners : pc[p] = "ended" =>
    /\ Cardinality(deleted[p]) <= outcome[p].succeeded + outcome[p].uncertain
    /\ outcome[p].succeeded <= Cardinality(deleted[p])

-----------------------------------------------------------------------------
(***************************************************************************)
(* The inductive invariant                                                  *)
(***************************************************************************)
PruneAssumption == MaxFile \in Nat /\ MaxFile >= 2 /\ NoOne \notin Pruners

Planning == {"asked", "planned", "authorized", "locked", "checked", "intent"}
Holding == {"locked", "checked", "intent", "deleted"}

\* Who is past its checks holds the lock, and the policy is the one it was
\* authorized under.
LockHeld ==
  \A p \in Pruners : pc[p] \in Holding =>
    lock = p /\ approved[p] = policy /\ approved[p] \in Permits

\* To be authorized a policy has to permit it.
Authorized == \A p \in Pruners : pc[p] = "authorized" => approved[p] \in Permits

\* The target is as it was listed, unless another command touched it.
ListedOrTouched ==
  \A p \in Pruners :
    pc[p] \in Planning \ {"asked"} => rotated["target"] = listing[p] \/ touched[p]

\* Up to the deletion nothing is deleted and nothing has failed.
NothingYet ==
  \A p \in Pruners :
    /\ pc[p] \in Planning => deleted[p] = {} /\ ~started[p] /\ error[p] = "none"
    /\ pc[p] # "ended" => outcome[p] = NoOutcome

PruneInv ==
  /\ TypeOK /\ LockHeld /\ Authorized /\ ListedOrTouched /\ NothingYet
  /\ NotSelfDisturbed /\ ChangesCounted
=============================================================================
