------------------------------ MODULE Resolver ------------------------------
(***************************************************************************)
(* DependencyResolver in backend/app/core/tenant_modules/resolver.py, one  *)
(* step for each call, each return and each round of the sort.  The names  *)
(* and the abstractions are those of InstallPlan, which says what comes    *)
(* out.  Of plan.modules only the keys are kept: their order tells only    *)
(* in which order the queue is filled, and it is sorted before every pop.  *)
(***************************************************************************)
EXTENDS InstallPlan

CONSTANTS Modules,     \* the module ids
          Registries   \* what get_module_registry may know

ASSUME ModulesAssumption ==
  Modules \subseteq Nat /\ IsFiniteSet(Modules) /\ Modules # {}

ASSUME RegistriesAssumption == \A reg \in Registries : IsRegistry(reg, Modules)

VARIABLES
  registry,  \* the dependency lists of the registered modules
  answers,   \* what each target that asked was given
  pc,
  target,    \* the module asked for
  modules,   \* the keys of plan.modules
  stack,     \* the calls of _resolve_transitive_deps, the innermost last
  inDegree,  \* in_degree
  queue,
  result

vars == <<registry, answers, pc, target, modules, stack, inDegree, queue, result>>

Unanswered == Raised("unanswered")

Nothing == [x \in {} |-> 0]

Init ==
  /\ registry \in Registries
  /\ answers = [m \in Modules |-> Unanswered]
  /\ pc = "idle" /\ target = CHOOSE m \in Modules : TRUE
  /\ modules = {} /\ stack = <<>>
  /\ inDegree = Nothing /\ queue = {} /\ result = <<>>

-----------------------------------------------------------------------------
(* resolve_install_plan. *)

\* A call has the module and the dependencies its loop has yet to look at.
Call(m) == [module |-> m, rest |-> Requires(registry, m)]

\* A plan depends on nothing but the registry, so the targets ask in turn.
Ask(m) ==
  /\ pc = "idle"
  /\ answers[m] = Unanswered /\ \A n \in Modules : answers[n] = Unanswered => m <= n
  /\ pc' = "descend" /\ target' = m
  /\ modules' = {m} /\ stack' = <<Call(m)>>
  /\ UNCHANGED <<registry, answers, inDegree, queue, result>>

Answer(a) ==
  /\ answers' = [answers EXCEPT ![target] = a]
  /\ pc' = "idle"
  /\ modules' = {} /\ stack' = <<>>
  /\ inDegree' = Nothing /\ queue' = {} /\ result' = <<>>
  /\ UNCHANGED <<registry, target>>

-----------------------------------------------------------------------------
(* _resolve_transitive_deps. *)

Top == stack[Len(stack)]

\* Mutant: the calls share one set, not a copy each, so a dependency of two
\* modules counts as a cycle.
MutVisited == modules

\* Every call got a copy of its caller's set and added itself.
Visited == {stack[i].module : i \in DOMAIN stack}

Descending == pc = "descend" /\ stack # <<>>

\* The next dependency joins the plan and is resolved in turn, unless this
\* call stems from it: the error is not caught.
Enter ==
  /\ Descending /\ Top.rest # <<>>
  /\ LET d == Head(Top.rest) IN
     IF d \in Visited THEN Answer(Raised("CircularDependencyError"))
     ELSE /\ modules' = modules \cup {d}
          /\ stack' = Append([stack EXCEPT ![Len(stack)].rest = Tail(Top.rest)], Call(d))
          /\ UNCHANGED <<registry, answers, pc, target, inDegree, queue, result>>

Return ==
  /\ Descending /\ Top.rest = <<>>
  /\ stack' = Front(stack)
  /\ UNCHANGED <<registry, answers, pc, target, modules, inDegree, queue, result>>

-----------------------------------------------------------------------------
(* _topological_sort. *)

\* The entries of m's list that are in S: each has its entry in the graph.
Entries(m, S) == {k \in DOMAIN Requires(registry, m) : Requires(registry, m)[k] \in S}

\* Mutant: in_degree is never raised.
MutInDegrees == [m \in modules |-> 0]

InDegrees == [m \in modules |-> Cardinality(Entries(m, modules))]

Prepare ==
  /\ pc = "descend" /\ stack = <<>>
  /\ pc' = "sort"
  /\ inDegree' = InDegrees
  /\ queue' = {m \in modules : InDegrees[m] = 0}
  /\ UNCHANGED <<registry, answers, target, modules, stack, result>>

\* Mutant: the queue is not sorted, any entry may be first.
MutFirst(m) == m \in queue

\* queue.sort() and queue.pop(0).
First(m) == m \in queue /\ \A n \in queue : m <= n

Round(m) ==
  /\ pc = "sort" /\ First(m)
  /\ result' = Append(result, m)
  /\ inDegree' = [n \in modules |-> inDegree[n] - Cardinality(Entries(n, {m}))]
  /\ queue' = (queue \ {m}) \cup {n \in modules : Entries(n, {m}) # {} /\ inDegree'[n] = 0}
  /\ UNCHANGED <<registry, answers, pc, target, modules, stack>>

\* The error of the sort is caught and raised as another.
Finish ==
  /\ pc = "sort" /\ queue = {}
  /\ Answer(IF Len(result) = Cardinality(modules) THEN Ordered(result)
            ELSE Raised("UnresolvableConflictError"))

Next ==
  \/ \E m \in Modules : Ask(m) \/ Round(m)
  \/ Enter \/ Return \/ Prepare \/ Finish

Spec == Init /\ [][Next]_vars

-----------------------------------------------------------------------------
Frame == [module : Modules, rest : Seq(Modules)]

TypeOK ==
  /\ IsRegistry(registry, Modules)
  /\ answers \in [Modules -> [error : {"none", "unanswered", "CircularDependencyError"},
                             order : Seq(Modules)]]
  /\ pc \in {"idle", "descend", "sort"} /\ target \in Modules
  /\ modules \subseteq Modules /\ stack \in Seq(Frame)
  /\ inDegree \in [IF pc = "sort" THEN modules ELSE {} -> Nat]
  /\ queue \subseteq modules /\ result \in Seq(modules)

Answered == {m \in Modules : answers[m] # Unanswered}

Planned == {m \in Modules : answers[m].error = "none"}

\* The answers are what InstallPlan promises: refused exactly when the target
\* reaches a cycle, always as a circular dependency, because shared and repeated
\* dependencies are no cycle and the check of the sort never fires; else the
\* one order that always takes the least module that may be next (resolver.py:
\* resolve_install_plan and its two errors).
AnswersAsPromised ==
  \A m \in Answered : answers[m] = ResolveInstallPlan(registry, m)

\* No call stems from another of the same module, so a cycle does not recurse
\* for ever (resolver.py: visited in _resolve_transitive_deps).
DepthBounded == Len(stack) <= Cardinality(Modules)

\* A plan lists the target and everything it needs, directly or not, once, and
\* each module after all it depends on, so install() never activates one before
\* its dependencies (resolver.py: resolve_install_plan, _topological_sort).
PlanSound ==
  \A m \in Planned :
    LET plan == answers[m].order IN
    /\ plan \in Seq(Modules) /\ ToSet(plan) = Closure(registry, m)
    /\ \A i, j \in DOMAIN plan :
         /\ plan[i] = plan[j] => i = j
         /\ plan[j] \in Deps(registry, plan[i]) => j < i

\* All plans of one registry put the modules in one common order.  Two installs
\* therefore take the rows they share in the same order, and never wait for
\* each other (resolver.py: queue.sort() in _topological_sort).
OneInstallOrder ==
  \E rank \in [Modules -> 1 .. Cardinality(Modules)] :
    \A m \in Planned : \A i, j \in DOMAIN answers[m].order :
      i < j => rank[answers[m].order[i]] < rank[answers[m].order[j]]
=============================================================================
