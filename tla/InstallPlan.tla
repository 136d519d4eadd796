----------------------------- MODULE InstallPlan -----------------------------
(***************************************************************************)
(* What DependencyResolver (backend/app/core/tenant_modules/resolver.py)   *)
(* promises: the installation plan of a module.  Resolver.tla is the code, *)
(* and meets this promise.                                                 *)
(*                                                                         *)
(* A module is the number of its id in the order list.sort() puts the ids. *)
(* A registry maps every registered module to the list its                 *)
(* get_dependencies() returns; a dependency need not be registered.  The   *)
(* version ranges of the plan are never read back and are left out.        *)
(***************************************************************************)
EXTENDS Integers, Sequences, FiniteSets, SequencesExt

\* What resolve_install_plan raises, or the install_order it returns.
Raised(error) == [error |-> error, order |-> <<>>]
Ordered(mods) == [error |-> "none", order |-> mods]

\* All it names are modules.
IsRegistry(reg, mods) == DOMAIN reg \subseteq mods /\ reg \in [DOMAIN reg -> Seq(mods)]

Requires(reg, m) == IF m \in DOMAIN reg THEN reg[m] ELSE <<>>

Deps(reg, m) == ToSet(Requires(reg, m))

\* Every module a registry names.
Known(reg) == DOMAIN reg \cup UNION {ToSet(reg[m]) : m \in DOMAIN reg}

\* A module is never without what it depends on.
Closed(reg, S) == \A x \in S : Deps(reg, x) \subseteq S

\* The target and all it needs, directly or not.
Closure(reg, m) ==
  LET all == Known(reg) \cup {m}
  IN  {x \in all : \A S \in SUBSET all : m \in S /\ Closed(reg, S) => x \in S}

OnCycle(reg, x) == \E d \in Deps(reg, x) : x \in Closure(reg, d)

Cyclic(reg, m) == \E x \in Closure(reg, m) : OnCycle(reg, x)

\* What may come next once the modules done are in the order.
Ready(reg, C, done) == {x \in C \ done : Deps(reg, x) \cap C \subseteq done}

\* The first n places of the order: always the least module that may be next.
IsStart(reg, C, s, n) ==
  /\ s \in [1 .. n -> C]
  /\ \A i \in 1 .. n :
       LET ready == Ready(reg, C, {s[j] : j \in 1 .. (i - 1)})
       IN  s[i] \in ready /\ \A x \in ready : s[i] <= x

IsInstallOrder(reg, C, s) == IsStart(reg, C, s, Cardinality(C))

InstallOrder(reg, C) ==
  CHOOSE s \in [1 .. Cardinality(C) -> C] : IsInstallOrder(reg, C, s)

\* Only a cycle is refused, always as a circular dependency.
ResolveInstallPlan(reg, m) ==
  IF Cyclic(reg, m) THEN Raised("CircularDependencyError")
  ELSE Ordered(InstallOrder(reg, Closure(reg, m)))
=============================================================================
