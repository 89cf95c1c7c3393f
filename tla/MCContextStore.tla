--------------------------- MODULE MCContextStore ---------------------------
(***************************************************************************)
(* Finite instances of ContextStore for TLC.  The context "a" uses the slots*)
(* "a" and "a/sr"; the context named "a/sr" would use the slot "a/sr" too.  *)
(***************************************************************************)
EXTENDS ContextStore, TLC

CONSTANTS c1, c2

Symmetry == Permutations(Commands)

Ctx(policy, primary, registry, body) ==
  [policy |-> policy,
   ref |-> [k \in Kinds |-> IF k = "primary" THEN primary ELSE registry],
   body |-> body]

Open == Ctx("open", "a", "none", "old")
Shut == Ctx("shut", "none", "none", "plain")
Bare == Ctx("open", "literal", "none", "bare")

OneStore == {[contexts |-> [n \in {"a"} |-> Open], current |-> "a"]}
TwoStores ==
  { [contexts |-> [n \in {"a", "b"} |-> IF n = "a" THEN Open ELSE Shut],
     current |-> "a"],
    [contexts |-> [n \in {"a", "b"} |-> IF n = "a" THEN Bare ELSE Shut],
     current |-> NoName] }

Req(kind, items, puts, force, grants) ==
  [kind |-> kind, items |-> items, puts |-> puts, force |-> force, grants |-> grants]
Put(slot, name, kind, secret) ==
  [slot |-> slot, owner |-> <<name, kind>>, secret |-> secret]
One(n, item) == [m \in {n} |-> item]

All == {"open", "shut", "none"}

SetA(x, body) == Req("set", One("a", Ctx("open", "a", "none", body)),
                     <<Put("a", "a", "primary", x)>>, TRUE, {"open", "none"})
SetBoth(x) == Req("set", One("a", Ctx("shut", "a", "a/sr", "both")),
                  <<Put("a", "a", "primary", x), Put("a/sr", "a", "registry", x)>>,
                  TRUE, {"open"})
SetPlain == Req("set", One("b", Ctx("open", "none", "none", "plainb")), << >>, TRUE, All)
SetClash(x) == Req("set", One("a/sr", Ctx("open", "a/sr", "none", "clash")),
                   <<Put("a/sr", "a/sr", "primary", x)>>, TRUE, All)
SetVault(x) == Req("set", One("a", Ctx("open", "vault", "none", "vaulted")),
                   <<Put("vault", "a", "primary", x)>>, TRUE, {"open"})
ImportTwo(x) ==
  Req("import", [n \in {"a/sr", "c"} |->
        IF n = "c" THEN Ctx("shut", "none", "c/sr", "newc")
                   ELSE Ctx("open", "none", "none", "newa")],
      <<Put("c/sr", "c", "registry", x)>>, FALSE, {"open", "none"})
Migrate(x) == Req("migrate", One("a", Ctx("open", "a", "none", "migrated")),
                  <<Put("a", "a", "primary", x)>>, TRUE, All)
Role == Req("role", One("a", Ctx("shut", "none", "none", "role")), << >>, TRUE, {"open"})
UseB == Req("use", One("b", Shut), << >>, TRUE, All)
DeleteB == Req("delete", One("b", Shut), << >>, TRUE, All)
DeleteA == Req("delete", One("a", Open), << >>, TRUE, {"open"})

\* Every command beside every other; no two write the same credential value.
MixedRequests ==
  {SetA("x", "new"), SetBoth("y"), SetPlain, SetClash("z"), ImportTwo("w"),
   ImportTwo("u"), SetA("t", "other"), Migrate("s"), Role, UseB, DeleteB, DeleteA, SetVault("v")}
MixedCalls ==
  {f \in [Commands -> MixedRequests] :
     \A c, d \in Commands : f[c] = f[d] /\ f[c].puts # << >> => c = d}

\* That is the hypothesis of the theorems about credentials.
ASSUME MixedAreOwn == Calls = MixedCalls => OwnValues

\* Two rotations to the same value.
SameCalls == [Commands -> {SetA("x", "new"), SetA("x", "old")}]
=============================================================================
