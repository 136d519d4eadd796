------------------------- MODULE TenantModulesProofs -------------------------
(***************************************************************************)
(* Theorems about TenantModules: its types, that nothing is wiped before   *)
(* it was exported, and that requests never wait for each other in a       *)
(* circle.                                                                 *)
(***************************************************************************)
EXTENDS TenantModules, FiniteSetTheorems, TLAPS, WellFoundedInduction

\* Of the proofs about the resolver, the one about the plans of any registry.
Plans ==
  INSTANCE ResolverProofs
    WITH Registries <- {Registry}, registry <- Registry, answers <- Plan, pc <- "idle",
         target <- 0, modules <- {}, stack <- <<>>, inDegree <- <<>>, queue <- {}, result <- <<>>

LEMMA PlansInOneOrder ==
  /\ \A m \in Modules : Plan[m].order \in Seq(Modules)
  /\ \E rank \in [Modules -> 1 .. Cardinality(Modules)] :
       \A m \in Modules : \A i, j \in DOMAIN Plan[m].order :
         i < j => rank[Plan[m].order[i]] < rank[Plan[m].order[j]]
<1>1. Modules # {}
  BY KeysAssumption DEF Keys
<1>2. \A S : Plans!IsFiniteSet(S) = IsFiniteSet(S)
  BY DEF Plans!IsFiniteSet, IsFiniteSet
<1>3. \A S : Plans!Cardinality(S) = Cardinality(S)
  BY DEF Plans!Cardinality, Cardinality
<1>4. \A r, x : Plans!Deps(r, x) = Deps(r, x)
  BY DEF Plans!Deps, Deps, Plans!Requires, Requires, Plans!ToSet, ToSet
<1>5. \A r : Plans!Known(r) = Known(r)
  BY DEF Plans!Known, Known, Plans!ToSet, ToSet
<1>6. \A r, S : Plans!Closed(r, S) = Closed(r, S)
  BY <1>4 DEF Plans!Closed, Closed
<1>7. \A r, x : Plans!Closure(r, x) = Closure(r, x)
  BY <1>5, <1>6 DEF Plans!Closure, Closure
<1>8. \A r, x : Plans!Cyclic(r, x) = Cyclic(r, x)
  BY <1>4, <1>7 DEF Plans!Cyclic, Cyclic, Plans!OnCycle, OnCycle
<1>9. \A r, C : Plans!InstallOrder(r, C) = InstallOrder(r, C)
  BY Zenon DEF Plans!InstallOrder, InstallOrder, Plans!IsInstallOrder, IsInstallOrder,
               Plans!IsStart, IsStart, Plans!Ready, Ready, Plans!Deps, Deps, Plans!Requires, Requires,
               Plans!ToSet, ToSet, Plans!Cardinality, Cardinality
<1>10. \A m \in Modules : Plan[m] = Plans!ResolveInstallPlan(Registry, m)
  BY <1>7, <1>8, <1>9 DEF Plan, Plans!ResolveInstallPlan, ResolveInstallPlan,
                          Plans!Raised, Raised, Plans!Ordered, Ordered
<1>11. Plans!IsRegistry(Registry, Modules) /\ Plans!IsFiniteSet(Modules)
  BY <1>2, RegistryAssumption DEF IsRegistry, Plans!IsRegistry
<1>12. /\ \A m \in Modules : Plans!ResolveInstallPlan(Registry, m).order \in Seq(Modules)
       /\ \E rank \in [Modules -> 1 .. Plans!Cardinality(Modules)] :
            \A m \in Modules : LET order == Plans!ResolveInstallPlan(Registry, m).order
                               IN  \A i, j \in DOMAIN order : i < j => rank[order[i]] < rank[order[j]]
  BY <1>1, <1>11, RegistryAssumption, Plans!PlansInOneOrder
<1>13. QED BY <1>3, <1>10, <1>12

USE DEF Modules

LEMMA TargetType == ASSUME NEW o PROVE Target(o) \in States
  BY DEF Target, States

LEMMA AKey == (CHOOSE k \in Keys : TRUE) \in Keys
  BY KeysAssumption

\* A request that is about to write a row of its plan has one left to write.
Writing == \A w \in Workers : pc[w] = "write" => todo[w] # <<>>

LEMMA CurrentType ==
  ASSUME TypeOK, NEW w \in Workers, todo[w] # <<>>
  PROVE  /\ Current(w) \in Keys
         /\ Tail(todo[w]) \in Seq(Modules)
  BY DEF TypeOK, Current, Keys

LEMMA EndTypes ==
  ASSUME TypeOK, NEW w \in Workers, End(w)
  PROVE  /\ lock' \in [Keys -> Workers \cup {NoWorker}]
         /\ dirty' \in [Keys -> States]
         /\ pc' \in [Workers -> Labels]
         /\ todo' \in [Workers -> Seq(Modules)]
         /\ insert' \in [Workers -> BOOLEAN]
         /\ copy' \in [Workers -> Copies]
         /\ left' \in [Workers -> SUBSET AllTables]
         /\ UNCHANGED <<rows, written, files, wiped, requests, op, key>>
<1>1. NoCopy \in Copies
  BY RowAssumption DEF NoCopy, Blank, Copies
<1>. QED  BY <1>1 DEF End, Release, Goto, TypeOK, States, Labels, data

LEMMA AbortTypes ==
  ASSUME TypeOK, NEW w \in Workers, Abort(w)
  PROVE  TypeOK'
<1>1. state' = state /\ End(w)
  BY DEF Abort
<1>. QED  BY <1>1, EndTypes DEF TypeOK

LEMMA ModelTables == ASSUME NEW k \in Keys PROVE Models[k[2]] \subseteq AllTables
  BY TableAssumption DEF AllTables, Keys

LEMMA RequestTypes ==
  ASSUME TypeOK, NEW w \in Workers, NEW k \in Keys, Request(w, k)
  PROVE  TypeOK'
<1>1. ASSUME NEW o \in Operations, NEW l \in Labels, Accept(w, o, k, l)
      PROVE  /\ requests' \in 0..MaxRequests
             /\ pc' \in [Workers -> Labels]
             /\ op' \in [Workers -> Operations]
             /\ key' \in [Workers -> Keys]
             /\ UNCHANGED <<db, data>>
  BY <1>1, RequestAssumption DEF Accept, Goto, TypeOK
<1>2. CASE Install(w, k)
  <2>1. Accept(w, "install", k, "plan")
    BY <1>2 DEF Install
  <2>2. Plan[k[2]].order \in Seq(Modules)
    BY <1>2, PlansInOneOrder DEF Install, Keys
  <2>3. todo' \in [Workers -> Seq(Modules)]
    BY <1>2, <2>2 DEF Install, TypeOK
  <2>4. UNCHANGED <<insert, copy, left>>
    BY <1>2 DEF Install
  <2>. QED  BY <1>1, <2>1, <2>3, <2>4 DEF TypeOK, db, data, Operations, Labels
<1>3. CASE HardUninstall(w, k)
  <2>1. Accept(w, "hard_uninstall", k, "wipe")
    BY <1>3 DEF HardUninstall, Begin
  <2>2. left' \in [Workers -> SUBSET AllTables]
    BY <1>3, ModelTables DEF HardUninstall, TypeOK
  <2>3. UNCHANGED <<todo, insert, copy>>
    BY <1>3 DEF HardUninstall
  <2>. QED  BY <1>1, <2>1, <2>2, <2>3 DEF TypeOK, db, data, Operations, Labels
<1>4. CASE \/ Disable(w, k) \/ Enable(w, k) \/ UninstallRequest(w, k)
           \/ Reactivate(w, k)
  <2>1. PICK o \in Operations, l \in Labels : Accept(w, o, k, l)
    BY <1>4 DEF Disable, Enable, UninstallRequest, Reactivate, Begin,
                Operations, Labels
  <2>2. UNCHANGED <<todo, insert, copy, left>>
    BY <1>4 DEF Disable, Enable, UninstallRequest, Reactivate
  <2>. QED  BY <1>1, <2>1, <2>2 DEF TypeOK, db, data
<1>5. CASE Export(w, k)
  <2>1. Accept(w, "export", k, "read")
    BY <1>5 DEF Export, Begin
  <2>2. left' \in [Workers -> SUBSET AllTables]
    BY <1>5, ModelTables DEF Export, TypeOK
  <2>3. Blank(written) \in Copies
    BY DEF Blank, Copies, TypeOK
  <2>4. copy' \in [Workers -> Copies]
    BY <1>5, <2>3 DEF Export, TypeOK
  <2>5. UNCHANGED <<todo, insert>>
    BY <1>5 DEF Export
  <2>. QED  BY <1>1, <2>1, <2>2, <2>4, <2>5 DEF TypeOK, db, data, Operations, Labels
<1>. QED  BY <1>2, <1>3, <1>4, <1>5 DEF Request

LEMMA StepTypes ==
  ASSUME TypeOK, Writing, NEW w \in Workers, Step(w)
  PROVE  TypeOK'
<1>1. CASE Commit(w)
  <2>1. End(w) /\ state' \in [Keys -> States]
    BY <1>1 DEF Commit, Publish, TypeOK
  <2>. QED  BY <2>1, EndTypes DEF TypeOK
<1>2. CASE InstallRead(w)
  BY <1>2, CurrentType DEF InstallRead, Goto, TypeOK, Labels, db, data
<1>3. CASE InstallWrite(w)
  <2>1. Current(w) \in Keys /\ Tail(todo[w]) \in Seq(Modules)
    BY <1>3, CurrentType DEF InstallWrite, Writing
  <2>. QED  BY <1>3, <2>1 DEF InstallWrite, Write, Goto, TypeOK, States, Labels, data
<1>4. CASE InstallConflict(w) \/ CheckFails(w)
  BY <1>4, AbortTypes DEF InstallConflict, CheckFails
<1>5. CASE Check(w)
  BY <1>5 DEF Check, Goto, TypeOK, Labels, db, data, local
<1>6. CASE Flush(w)
  BY <1>6, TargetType DEF Flush, Write, Goto, TypeOK, Labels, data, local
<1>7. ASSUME NEW t \in AllTables, ReadTable(w, t)
      PROVE  TypeOK'
  <2>1. [upto |-> [copy[w].upto EXCEPT ![t] = written],
         rows |-> copy[w].rows \cup (rows[key[w]] \cap In({t}))] \in Copies
    BY DEF TypeOK, Copies
  <2>2. copy' \in [Workers -> Copies] /\ left' \in [Workers -> SUBSET AllTables]
    BY <1>7, <2>1 DEF ReadTable, TypeOK
  <2>. QED  BY <1>7, <2>2 DEF ReadTable, TypeOK, db, data
<1>8. CASE Upload(w)
  BY <1>8 DEF Upload, Goto, TypeOK, Labels, db, local
<1>9. CASE MarkDisabled(w)
  BY <1>9 DEF MarkDisabled, Goto, TypeOK, States, Labels, data, local
<1>10. ASSUME NEW t \in AllTables, WipeTable(w, t)
       PROVE  TypeOK'
  <2>1. /\ rows' \in [Keys -> SUBSET (1..MaxRow)]
        /\ wiped' \in [Keys -> SUBSET (1..MaxRow)]
    BY <1>10 DEF WipeTable, Delete, TypeOK
  <2>2. left' \in [Workers -> SUBSET AllTables]
    BY <1>10 DEF WipeTable, TypeOK
  <2>. QED  BY <1>10, <2>1, <2>2 DEF WipeTable, TypeOK, db
<1>. QED
  BY <1>1, <1>2, <1>3, <1>4, <1>5, <1>6, <1>7, <1>8, <1>9, <1>10 DEF Step

LEMMA WritingStep == TypeOK /\ Writing /\ [Next]_vars => Writing'
<1>. SUFFICES ASSUME TypeOK, Writing, [Next]_vars,
                     NEW v \in Workers, pc'[v] = "write"
              PROVE  todo'[v] # <<>>
  BY DEF Writing
<1>1. ASSUME NEW w \in Workers, End(w) PROVE todo'[v] # <<>>
  BY <1>1 DEF End, Goto, Writing, TypeOK
<1>2. ASSUME NEW w \in Workers, NEW k \in Keys, Request(w, k)
      PROVE  todo'[v] # <<>>
  <2>1. v # w /\ pc'[v] = pc[v]
    BY <1>2 DEF Request, Install, Disable, Enable, UninstallRequest, Reactivate,
                Export, HardUninstall, Begin, Accept, Goto, TypeOK
  <2>2. todo'[v] = todo[v]
    BY <1>2, <2>1 DEF Request, Install, Disable, Enable, UninstallRequest,
                      Reactivate, Export, HardUninstall, TypeOK
  <2>. QED  BY <2>1, <2>2 DEF Writing
<1>3. ASSUME NEW w \in Workers, InstallRead(w) \/ InstallWrite(w)
      PROVE  todo'[v] # <<>>
  BY <1>3 DEF InstallRead, InstallWrite, Goto, Writing, TypeOK
<1>4. ASSUME NEW w \in Workers,
             \/ Check(w) \/ Flush(w) \/ Upload(w) \/ MarkDisabled(w)
             \/ \E t \in AllTables : ReadTable(w, t) \/ WipeTable(w, t)
      PROVE  todo'[v] # <<>>
  <2>1. todo' = todo /\ pc'[v] = pc[v]
    BY <1>4 DEF Check, Flush, ReadTable, Upload, MarkDisabled,
                WipeTable, Goto, local, TypeOK
  <2>. QED  BY <2>1 DEF Writing
<1>5. CASE UNCHANGED vars \/ \E k \in Keys : WriteRow(k)
  BY <1>5 DEF WriteRow, Writing, vars, local
<1>. QED
  BY <1>1, <1>2, <1>3, <1>4, <1>5
  DEF Next, Step, Commit, Abort, InstallConflict, CheckFails

LEMMA TypeStep == TypeOK /\ Writing /\ [Next]_vars => TypeOK'
<1>. SUFFICES ASSUME TypeOK, Writing, [Next]_vars PROVE TypeOK'
  OBVIOUS
<1>1. ASSUME NEW k \in Keys, WriteRow(k) PROVE TypeOK'
  <2>1. written' \in 1..MaxRow
    BY <1>1, RowAssumption DEF WriteRow, TypeOK
  <2>. QED  BY <1>1, <2>1 DEF WriteRow, TypeOK, db, local
<1>2. CASE UNCHANGED vars
  BY <1>2 DEF TypeOK, vars, db, data, local
<1>. QED  BY <1>1, <1>2, StepTypes, AbortTypes, RequestTypes DEF Next

LEMMA Typed == Spec => [](TypeOK /\ Writing)
<1>1. Init => TypeOK /\ Writing
  BY AKey, RowAssumption, RequestAssumption, StartAssumption
  DEF Init, TypeOK, Writing, States, Labels, Operations, Copies, NoCopy, Blank
<1>. QED  BY <1>1, TypeStep, WritingStep, PTL DEF Spec

\* Every variable of the model keeps its type: a request's transaction and its
\* local state stay within what service.py can hold, whatever requests overlap.
THEOREM TypeCorrect == Spec => []TypeOK
  BY Typed, PTL
-----------------------------------------------------------------------------
(* A row is "exported", and a hard uninstall under way, only where there   *)
(* is an export file; and every file covers the rows that are still there  *)
(* in the tables it has read.                                              *)

Filed ==
  /\ \A k \in Keys : state[k] = "exported" \/ dirty[k] = "exported" => files[k] # {}
  /\ \A w \in Workers :
       \/ pc[w] = "flush" /\ op[w] = "export"
       \/ pc[w] = "wipe"
       => files[key[w]] # {}
  /\ \A w \in Workers : pc[w] = "check" => op[w] # "export"

Covers(f, R) == \A r \in R : r \in f.rows \/ r > f.upto[TableOf[r]]

\* No file speaks for rows that were not written yet.
Upto(f, n) == \A t \in AllTables : f.upto[t] <= n

Covered ==
  /\ \A k \in Keys : \A f \in files[k] :
       Covers(f, rows[k] \cap In(Models[k[2]])) /\ Upto(f, written)
  /\ \A w \in Workers : pc[w] = "read" =>
       /\ Covers(copy[w], rows[key[w]] \cap In(Models[key[w][2]] \ left[w]))
       /\ Upto(copy[w], written)
  /\ \A w \in Workers : pc[w] = "wipe" => left[w] \subseteq Models[key[w][2]]

LEMMA TargetExported ==
  ASSUME NEW o \in Operations, Target(o) = "exported"
  PROVE  o = "export"
  BY DEF Target, Operations

LEMMA EndKeepsFiled ==
  ASSUME TypeOK, Filed, NEW w \in Workers, End(w),
         state' = state \/ Publish(w)
  PROVE  Filed'
<1>1. \A k \in Keys : (state'[k] = "exported" \/ dirty'[k] = "exported")
                        => files'[k] # {}
  BY DEF End, Release, Publish, Filed, TypeOK, data
<1>. QED  BY <1>1 DEF End, Goto, Filed, TypeOK, data

LEMMA FiledStep == TypeOK /\ Writing /\ Filed /\ [Next]_vars => Filed'
<1>. SUFFICES ASSUME TypeOK, Writing, Filed, [Next]_vars PROVE Filed'
  OBVIOUS
<1>1. ASSUME NEW w \in Workers, Abort(w) \/ Commit(w) PROVE Filed'
  BY <1>1, EndKeepsFiled DEF Abort, Commit
<1>2. ASSUME NEW w \in Workers, NEW k \in Keys, Request(w, k) PROVE Filed'
  <2>1. PICK o \in Operations, l \in Labels :
          /\ Accept(w, o, k, l)
          /\ l \in {"flush", "check"} => o # "export"
          /\ l = "wipe" => state[k] = "exported"
    BY <1>2 DEF Request, Install, Disable, Enable, UninstallRequest, Reactivate,
                Export, HardUninstall, Begin, Operations, Labels, Target,
                VALID_TRANSITIONS
  <2>. QED  BY <2>1 DEF Accept, Goto, Filed, TypeOK, db, data
<1>3. ASSUME NEW w \in Workers,
             InstallRead(w) \/ Check(w) \/ \E t \in AllTables : ReadTable(w, t)
      PROVE  Filed'
  BY <1>3 DEF InstallRead, Check, ReadTable, Goto, Filed, TypeOK, db, data, local
<1>4. ASSUME NEW w \in Workers, InstallWrite(w) PROVE Filed'
  <2>1. Current(w) \in Keys
    BY <1>4, CurrentType DEF InstallWrite, Writing
  <2>. QED  BY <1>4, <2>1 DEF InstallWrite, Write, Goto, Filed, TypeOK, data
<1>5. ASSUME NEW w \in Workers, Flush(w) PROVE Filed'
  <2>1. Target(op[w]) = "exported" => files[key[w]] # {}
    BY <1>5, TargetExported DEF Flush, Filed, TypeOK
  <2>. QED  BY <1>5, <2>1 DEF Flush, Write, Goto, Filed, TypeOK, data, local
<1>6. ASSUME NEW w \in Workers, Upload(w) PROVE Filed'
  <2>1. \A k \in Keys : files[k] \subseteq files'[k]
    BY <1>6 DEF Upload, TypeOK
  <2>2. files'[key[w]] # {}
    BY <1>6 DEF Upload, TypeOK
  <2>. QED  BY <1>6, <2>1, <2>2 DEF Upload, Goto, Filed, TypeOK, db, local
<1>7. ASSUME NEW w \in Workers, MarkDisabled(w) PROVE Filed'
  BY <1>7 DEF MarkDisabled, Goto, Filed, TypeOK, data, local
<1>8. ASSUME NEW w \in Workers, NEW t \in AllTables, WipeTable(w, t) PROVE Filed'
  BY <1>8 DEF WipeTable, Filed, TypeOK, db
<1>9. CASE UNCHANGED vars \/ \E k \in Keys : WriteRow(k)
  BY <1>9 DEF WriteRow, Filed, vars, db, data, local
<1>. QED
  BY <1>1, <1>2, <1>3, <1>4, <1>5, <1>6, <1>7, <1>8, <1>9
  DEF Next, Step, InstallConflict, CheckFails

LEMMA EndKeepsCovered ==
  ASSUME TypeOK, Covered, NEW w \in Workers, End(w)
  PROVE  Covered'
BY DEF End, Goto, Covered, Covers, Upto, TypeOK, data

\* What a step that deletes rows, or leaves them, does to Covered.
LEMMA FewerRowsCovered ==
  ASSUME TypeOK, Covered, UNCHANGED <<written, files, copy, key>>,
         rows' \in [Keys -> SUBSET (1..MaxRow)],
         \A k \in Keys : rows'[k] \subseteq rows[k],
         \A w \in Workers : pc'[w] = "read" => pc[w] = "read" /\ left'[w] = left[w],
         \A w \in Workers : pc'[w] = "wipe" => pc[w] = "wipe" /\ left'[w] \subseteq left[w]
  PROVE  Covered'
<1>1. \A k \in Keys : \A f \in files'[k] :
        Covers(f, rows'[k] \cap In(Models[k[2]])) /\ Upto(f, written')
  BY DEF Covered, Covers
<1>2. \A w \in Workers : pc'[w] = "read" =>
        /\ Covers(copy'[w], rows'[key'[w]] \cap In(Models[key'[w][2]] \ left'[w]))
        /\ Upto(copy'[w], written')
  BY DEF Covered, Covers, TypeOK
<1>3. \A w \in Workers : pc'[w] = "wipe" => left'[w] \subseteq Models[key'[w][2]]
  BY DEF Covered
<1>. QED  BY <1>1, <1>2, <1>3 DEF Covered, Upto

\* The next table: its rows join the copy, the tables read before stay covered.
LEMMA ReadKeepsCovered ==
  ASSUME TypeOK, Covered, NEW w \in Workers, NEW t \in AllTables, ReadTable(w, t)
  PROVE  Covered'
<1>1. /\ UNCHANGED <<rows, written, files, pc, key>>
      /\ \A v \in Workers \ {w} : copy'[v] = copy[v] /\ left'[v] = left[v]
      /\ left'[w] = left[w] \ {t}
      /\ copy'[w] = [upto |-> [copy[w].upto EXCEPT ![t] = written],
                     rows |-> copy[w].rows \cup (rows[key[w]] \cap In({t}))]
      /\ pc[w] = "read"
  BY DEF ReadTable, TypeOK, data
<1>2. copy[w].upto \in [AllTables -> 0..MaxRow] /\ written \in Nat
  BY DEF TypeOK, Copies
<1>3. Upto(copy'[w], written)
  <2> SUFFICES ASSUME NEW u \in AllTables PROVE copy'[w].upto[u] <= written
    BY DEF Upto
  <2>1. copy[w].upto[u] <= written
    BY <1>1 DEF Covered, Upto
  <2>2. copy'[w].upto[u] = IF u = t THEN written ELSE copy[w].upto[u]
    BY <1>1, <1>2
  <2>. QED  BY <1>2, <2>1, <2>2
<1>4. ASSUME NEW r \in rows[key[w]] \cap In(Models[key[w][2]] \ left'[w])
      PROVE  r \in copy'[w].rows \/ r > copy'[w].upto[TableOf[r]]
  <2>1. CASE TableOf[r] = t
    BY <1>1, <2>1 DEF In
  <2>2. CASE TableOf[r] # t
    <3>1. r \in rows[key[w]] \cap In(Models[key[w][2]] \ left[w])
      BY <1>1, <2>2 DEF In
    <3>2. r \in copy[w].rows \/ r > copy[w].upto[TableOf[r]]
      BY <1>1, <3>1 DEF Covered, Covers
    <3>3. copy'[w].upto[TableOf[r]] = copy[w].upto[TableOf[r]]
      BY <1>1, <1>2, <2>2, TableAssumption DEF In
    <3>. QED  BY <1>1, <3>2, <3>3
  <2>. QED  BY <2>1, <2>2
<1>5. Covers(copy'[w], rows[key[w]] \cap In(Models[key[w][2]] \ left'[w]))
  BY <1>4 DEF Covers
<1>. QED  BY <1>1, <1>3, <1>5 DEF Covered, Covers, Upto

LEMMA CoveredStep == TypeOK /\ TypeOK' /\ Covered /\ [Next]_vars => Covered'
<1>. SUFFICES ASSUME TypeOK, TypeOK', Covered, [Next]_vars PROVE Covered'
  OBVIOUS
<1>1. ASSUME NEW w \in Workers, Abort(w) \/ Commit(w) PROVE Covered'
  BY <1>1, EndKeepsCovered DEF Abort, Commit
<1>2. ASSUME NEW w \in Workers, NEW k \in Keys, Request(w, k) PROVE Covered'
  <2>1. PICK o \in Operations, l \in Labels : Accept(w, o, k, l)
    BY <1>2 DEF Request, Install, Disable, Enable, UninstallRequest, Reactivate,
                Export, HardUninstall, Begin, Operations, Labels
  <2>2. /\ UNCHANGED <<rows, written, files>>
        /\ pc'[w] = l /\ key'[w] = k
        /\ \A v \in Workers \ {w} : pc'[v] = pc[v] /\ key'[v] = key[v]
    BY <2>1 DEF Accept, Goto, TypeOK, data
  <2>3. \A v \in Workers \ {w} : copy'[v] = copy[v] /\ left'[v] = left[v]
    BY <1>2 DEF Request, Install, Disable, Enable, UninstallRequest, Reactivate,
                Export, HardUninstall, TypeOK
  <2>4. /\ pc'[w] = "read" => left'[w] = Models[k[2]] /\ copy'[w] = Blank(written)
        /\ pc'[w] = "wipe" => left'[w] \subseteq Models[k[2]]
    BY <1>2 DEF Request, Install, Disable, Enable, UninstallRequest, Reactivate,
                Export, HardUninstall, Begin, Accept, Goto, TypeOK
  <2>5. pc'[w] = "read" =>
          /\ Covers(copy'[w], rows[k] \cap In(Models[k[2]] \ left'[w]))
          /\ Upto(copy'[w], written)
    <3>1. In({}) = {} /\ Models[k[2]] \ Models[k[2]] = {}
      BY DEF In
    <3>2. written <= written
      BY DEF TypeOK
    <3>. QED  BY <2>4, <3>1, <3>2 DEF Covers, Upto, Blank
  <2>. QED  BY <2>2, <2>3, <2>4, <2>5 DEF Covered, Covers, Upto
<1>3. ASSUME NEW w \in Workers,
             \/ InstallRead(w) \/ InstallWrite(w) \/ Check(w) \/ Flush(w)
             \/ MarkDisabled(w) \/ \E t \in AllTables : WipeTable(w, t)
      PROVE  Covered'
  <2>1. UNCHANGED <<written, files, copy, key>>
    BY <1>3 DEF InstallRead, InstallWrite, Check, Flush, MarkDisabled,
                WipeTable, Delete, data, local
  <2>2. \A k \in Keys : rows'[k] \subseteq rows[k]
    <3>1. CASE \E t \in AllTables : WipeTable(w, t)
      BY <3>1 DEF WipeTable, Delete, TypeOK
    <3>. QED
      BY <1>3, <3>1 DEF InstallRead, InstallWrite, Check, Flush, MarkDisabled, data
  <2>3. /\ \A v \in Workers : pc'[v] = "read" => pc[v] = "read" /\ left'[v] = left[v]
        /\ \A v \in Workers : pc'[v] = "wipe" => pc[v] = "wipe" /\ left'[v] \subseteq left[v]
    BY <1>3 DEF InstallRead, InstallWrite, Check, Flush, MarkDisabled,
                WipeTable, Goto, TypeOK, local
  <2>. QED  BY <2>1, <2>2, <2>3, FewerRowsCovered DEF TypeOK
<1>4. ASSUME NEW w \in Workers, Upload(w) PROVE Covered'
  <2>1. UNCHANGED <<rows, written, copy, key, left>>
    BY <1>4 DEF Upload, local
  <2>2. \A k \in Keys : \A f \in files'[k] :
          f \in files[k] \/ (k = key[w] /\ f = copy[w])
    BY <1>4 DEF Upload, TypeOK
  <2>3. \A v \in Workers : pc'[v] \in {"read", "wipe"} => pc[v] = pc'[v]
    BY <1>4 DEF Upload, Goto, TypeOK
  <2>4. pc[w] = "read" /\ Models[key[w][2]] \ left[w] = Models[key[w][2]]
    BY <1>4 DEF Upload
  <2>5. Covers(copy[w], rows[key[w]] \cap In(Models[key[w][2]])) /\ Upto(copy[w], written)
    BY <2>4 DEF Covered
  <2>. QED  BY <2>1, <2>2, <2>3, <2>5 DEF Covered, Covers, Upto
<1>5. ASSUME NEW k \in Keys, WriteRow(k) PROVE Covered'
  <2>1. /\ UNCHANGED <<files, pc, copy, key, left>>
        /\ written' = written + 1 /\ written' \in 1..MaxRow
        /\ \A j \in Keys : rows'[j] \subseteq rows[j] \cup {written + 1}
    BY <1>5, RowAssumption DEF WriteRow, TypeOK, local
  <2>2. ASSUME NEW f \in Copies, NEW j \in Keys, NEW S, Upto(f, written),
               Covers(f, rows[j] \cap In(S))
        PROVE  Covers(f, rows'[j] \cap In(S)) /\ Upto(f, written')
    <3>1. ASSUME NEW t \in AllTables
          PROVE  f.upto[t] <= written + 1 /\ written + 1 > f.upto[t]
      <4>1. f.upto[t] \in 0..MaxRow /\ f.upto[t] <= written /\ written \in Nat
        BY <2>2 DEF Copies, Upto, TypeOK
      <4>. QED  BY <4>1
    <3>2. ASSUME NEW r \in rows'[j] \cap In(S)
          PROVE  r \in f.rows \/ r > f.upto[TableOf[r]]
      <4>1. CASE r \in rows[j]
        BY <2>2, <3>2, <4>1 DEF Covers
      <4>2. CASE r = written + 1
        BY <2>1, <3>1, <4>2, TableAssumption
      <4>. QED  BY <2>1, <3>2, <4>1, <4>2
    <3>3. Upto(f, written')
      BY <2>1, <3>1 DEF Upto
    <3>4. Covers(f, rows'[j] \cap In(S))
      BY <3>2 DEF Covers
    <3>. QED  BY <3>3, <3>4
  <2>3. /\ \A j \in Keys : \A f \in files[j] : f \in Copies
        /\ \A w \in Workers : copy[w] \in Copies /\ key[w] \in Keys
    BY DEF TypeOK
  <2>4. \A j \in Keys : \A f \in files'[j] :
          Covers(f, rows'[j] \cap In(Models[j[2]])) /\ Upto(f, written')
    BY <2>1, <2>2, <2>3 DEF Covered
  <2>5. \A w \in Workers : pc'[w] = "read" =>
          /\ Covers(copy'[w], rows'[key'[w]] \cap In(Models[key'[w][2]] \ left'[w]))
          /\ Upto(copy'[w], written')
    BY <2>1, <2>2, <2>3 DEF Covered
  <2>. QED  BY <2>1, <2>4, <2>5 DEF Covered
<1>6. CASE UNCHANGED vars
  BY <1>6 DEF Covered, Covers, Upto, vars, data, local
<1>. QED
  BY <1>1, <1>2, <1>3, <1>4, <1>5, <1>6, ReadKeepsCovered
  DEF Next, Step, InstallConflict, CheckFails

LEMMA WipedStep ==
  TypeOK /\ Filed /\ Covered /\ WipedWasExported /\ [Next]_vars => WipedWasExported'
<1>. SUFFICES ASSUME TypeOK, Filed, Covered, WipedWasExported, [Next]_vars
              PROVE  WipedWasExported'
  OBVIOUS
<1>1. \A k \in Keys : files[k] # {} =>
        \A r \in rows[k] \cap In(Models[k[2]]) : \E f \in files[k] :
          r \in f.rows \/ r > f.upto[TableOf[r]]
  BY DEF Covered, Covers
<1>2. ASSUME \A k \in Keys : files[k] \subseteq files'[k],
             \A k \in Keys : \A r \in wiped'[k] :
               r \in wiped[k] \/ (r \in rows[k] \cap In(Models[k[2]]) /\ files[k] # {})
      PROVE  WipedWasExported'
  BY <1>1, <1>2 DEF WipedWasExported
<1>3. ASSUME NEW w \in Workers, NEW t \in AllTables, WipeTable(w, t)
      PROVE  WipedWasExported'
  <2>1. files[key[w]] # {} /\ files' = files /\ key[w] \in Keys
    BY <1>3 DEF WipeTable, Filed, TypeOK
  <2>2. \A k \in Keys : \A r \in wiped'[k] :
          r \in wiped[k] \/ (r \in rows[k] /\ k = key[w] /\ r \in In({t} \cup Cascade[t]))
    BY <1>3 DEF WipeTable, Delete, TypeOK
  <2>3. t \in Models[key[w][2]]
    BY <1>3 DEF WipeTable, Covered
  <2>4. {t} \cup Cascade[t] \subseteq Models[key[w][2]]
    BY <2>1, <2>3, TableAssumption DEF Keys
  <2>5. In({t} \cup Cascade[t]) \subseteq In(Models[key[w][2]])
    BY <2>4 DEF In
  <2>. QED  BY <1>2, <2>1, <2>2, <2>5
<1>4. ASSUME NEW w \in Workers, Upload(w) PROVE WipedWasExported'
  <2>1. wiped' = wiped /\ \A k \in Keys : files[k] \subseteq files'[k]
    BY <1>4 DEF Upload, TypeOK
  <2>. QED  BY <1>2, <2>1
<1>5. CASE UNCHANGED <<files, wiped>>
  BY <1>2, <1>5
<1>6. ASSUME NEW w \in Workers, Step(w), ~Upload(w),
             ~\E t \in AllTables : WipeTable(w, t)
      PROVE  UNCHANGED <<files, wiped>>
  BY <1>6 DEF Step, Commit, Abort, End, InstallRead, InstallWrite, InstallConflict,
              Check, CheckFails, Flush, ReadTable, MarkDisabled, data
<1>7. ASSUME NEW w \in Workers, NEW k \in Keys, Request(w, k)
      PROVE  UNCHANGED <<files, wiped>>
  BY <1>7 DEF Request, Install, Disable, Enable, UninstallRequest, Reactivate,
              Export, HardUninstall, Begin, Accept, data
<1>8. CASE \/ \E w \in Workers : Abort(w)
           \/ \E k \in Keys : WriteRow(k)
           \/ UNCHANGED vars
  BY <1>5, <1>8 DEF Abort, End, WriteRow, vars, data
<1>. QED
  BY <1>3, <1>4, <1>5, <1>6, <1>7, <1>8 DEF Next

\* Whatever tables modules and foreign keys there are, no row is deleted that an
\* export file of its tenant's module does not hold, other than rows written
\* after such an export had read their table (service.py hard_uninstall).
THEOREM ExportBeforeWipe == Spec => []WipedWasExported
<1>1. Init => Filed /\ Covered /\ WipedWasExported
  BY StartAssumption DEF Init, Filed, Covered, WipedWasExported
<1>2. TypeOK /\ Writing /\ TypeOK' /\ Filed /\ Covered /\ WipedWasExported /\ [Next]_vars
        => Filed' /\ Covered' /\ WipedWasExported'
  BY FiledStep, CoveredStep, WipedStep
<1>. QED  BY <1>1, <1>2, Typed, PTL DEF Spec
-----------------------------------------------------------------------------
(* Requests never wait for each other in a circle.                         *)

\* The order resolver.py installs in: depth falls along every plan.
Falls(depth, s) == \A i, j \in DOMAIN s : i < j => depth[s[i]] > depth[s[j]]

\* A request w may hold the row k: it is about to commit, or the row is its own
\* tenant's and comes before the rest of its plan.
MayHold(depth, w, k) ==
  \/ pc[w] = "commit"
  \/ /\ pc[w] \in {"plan", "write"}
     /\ k[1] = key[w][1]
     /\ \A i \in DOMAIN todo[w] : depth[k[2]] > depth[todo[w][i]]

Held(depth) ==
  /\ \A w \in Workers : Falls(depth, todo[w])
  /\ \A k \in Keys : lock[k] # NoWorker => MayHold(depth, lock[k], k)

LEMMA FallsTail ==
  ASSUME NEW depth \in [Modules -> Nat], NEW s \in Seq(Modules), s # <<>>,
         Falls(depth, s)
  PROVE  /\ Falls(depth, Tail(s))
         /\ \A i \in DOMAIN Tail(s) : depth[Head(s)] > depth[Tail(s)[i]]
         /\ \A i \in DOMAIN Tail(s) : i + 1 \in DOMAIN s /\ Tail(s)[i] = s[i + 1]
<1>1. \A i \in DOMAIN Tail(s) : i + 1 \in DOMAIN s /\ Tail(s)[i] = s[i + 1]
  OBVIOUS
<1>2. DOMAIN Tail(s) \subseteq Nat \ {0} /\ 1 \in DOMAIN s /\ Head(s) = s[1]
  OBVIOUS
<1>3. \A i, j \in DOMAIN Tail(s) : i < j => i + 1 < j + 1
  BY <1>2
<1>4. \A i \in DOMAIN Tail(s) : 1 < i + 1
  BY <1>2
<1>. QED  BY <1>1, <1>2, <1>3, <1>4 DEF Falls

\* A step of one request keeps Held if it does so for that request.
LEMMA HeldByOne ==
  ASSUME NEW depth, TypeOK, Held(depth), NEW w \in Workers,
         \A v \in Workers \ {w} : /\ pc'[v] = pc[v]
                                  /\ key'[v] = key[v]
                                  /\ todo'[v] = todo[v],
         Falls(depth, todo'[w]),
         \A k \in Keys : lock'[k] \in {lock[k], NoWorker, w},
         \A k \in Keys : lock'[k] = w => MayHold(depth, w, k)'
  PROVE  Held(depth)'
<1>1. \A v \in Workers : Falls(depth, todo'[v])
  BY DEF Held
<1>2. ASSUME NEW k \in Keys, NEW v, v # NoWorker, lock'[k] = v
      PROVE  MayHold(depth, v, k)'
  <2>1. CASE v = w
    BY <1>2, <2>1
  <2>2. CASE v # w
    <3>1. lock[k] = v /\ v \in Workers \ {w}
      BY <1>2, <2>2 DEF TypeOK
    <3>2. MayHold(depth, v, k)
      BY <1>2, <3>1 DEF Held
    <3>. QED  BY <3>1, <3>2 DEF MayHold
  <2>. QED  BY <2>1, <2>2
<1>. QED  BY <1>1, <1>2 DEF Held, Falls

LEMMA FallsEmpty == ASSUME NEW depth PROVE Falls(depth, <<>>)
  BY DEF Falls

LEMMA HeldStep ==
  ASSUME NEW depth \in [Modules -> Nat],
         \A m \in Modules : Plan[m].error = "none" => Falls(depth, Plan[m].order)
  PROVE  TypeOK /\ Writing /\ TypeOK' /\ Held(depth) /\ [Next]_vars => Held(depth)'
<1>. SUFFICES ASSUME TypeOK, Writing, TypeOK', Held(depth), [Next]_vars
              PROVE  Held(depth)'
  OBVIOUS
<1>1. ASSUME NEW w \in Workers, End(w)
      PROVE  Held(depth)'
  <2>1. \A v \in Workers \ {w} : pc'[v] = pc[v] /\ key'[v] = key[v] /\ todo'[v] = todo[v]
    BY <1>1 DEF End, Goto, TypeOK
  <2>2. Falls(depth, todo'[w])
    BY <1>1, FallsEmpty DEF End, TypeOK
  <2>3. \A k \in Keys : lock'[k] \in {lock[k], NoWorker} /\ lock'[k] # w
    BY <1>1, NoWorkerAssumption DEF End, Release
  <2>. QED  BY <2>1, <2>2, <2>3, HeldByOne
<1>2. ASSUME NEW w \in Workers, NEW k \in Keys, Request(w, k)
      PROVE  Held(depth)'
  <2>1. PICK o, l : Accept(w, o, k, l)
    BY <1>2 DEF Request, Install, Disable, Enable, UninstallRequest, Reactivate,
                Export, HardUninstall, Begin
  <2>2. \A v \in Workers \ {w} : pc'[v] = pc[v] /\ key'[v] = key[v]
    BY <2>1 DEF Accept, Goto, TypeOK
  <2>3. lock' = lock /\ \A j \in Keys : lock[j] # w
    BY <2>1, NoWorkerAssumption DEF Accept, db, Held, MayHold
  <2>4. /\ \A v \in Workers \ {w} : todo'[v] = todo[v]
        /\ Falls(depth, todo'[w])
    <3>1. CASE Install(w, k)
      BY <3>1 DEF Install, TypeOK, Keys
    <3>2. CASE ~Install(w, k)
      <4>1. todo' = todo
        BY <1>2, <3>2 DEF Request, Disable, Enable, UninstallRequest, Reactivate,
                          Export, HardUninstall
      <4>. QED  BY <4>1 DEF Held
    <3>. QED  BY <3>1, <3>2
  <2>. QED  BY <2>2, <2>3, <2>4, HeldByOne
<1>3. ASSUME NEW w \in Workers, InstallRead(w) PROVE Held(depth)'
  <2>1. todo[w] \in Seq(Modules) /\ todo[w] # <<>> /\ Falls(depth, todo[w])
    BY <1>3 DEF InstallRead, TypeOK, Held
  <2>2. /\ \A v \in Workers \ {w} : pc'[v] = pc[v] /\ todo'[v] = todo[v]
        /\ key' = key /\ lock' = lock /\ pc[w] = "plan" /\ pc'[w] \in {"plan", "write"}
        /\ todo'[w] \in {todo[w], Tail(todo[w])}
    BY <1>3 DEF InstallRead, Goto, TypeOK, db
  <2>3. /\ Falls(depth, todo'[w])
        /\ \A i \in DOMAIN todo'[w] : \E j \in DOMAIN todo[w] : todo'[w][i] = todo[w][j]
    <3>1. CASE todo'[w] = todo[w]
      BY <2>1, <3>1
    <3>2. CASE todo'[w] = Tail(todo[w])
      BY <2>1, <3>2, FallsTail
    <3>. QED  BY <2>2, <3>1, <3>2
  <2>4. \A k \in Keys : lock'[k] = w => MayHold(depth, w, k)'
    <3>. SUFFICES ASSUME NEW k \in Keys, lock'[k] = w
                  PROVE  MayHold(depth, w, k)'
      OBVIOUS
    <3>1. MayHold(depth, w, k)
      BY <2>2, NoWorkerAssumption DEF Held
    <3>. QED  BY <3>1, <2>2, <2>3 DEF MayHold
  <2>. QED  BY <2>2, <2>3, <2>4, HeldByOne
<1>4. ASSUME NEW w \in Workers, InstallWrite(w) PROVE Held(depth)'
  <2>1. todo[w] \in Seq(Modules) /\ todo[w] # <<>> /\ Falls(depth, todo[w])
    BY <1>4 DEF InstallWrite, Writing, TypeOK, Held
  <2>2. /\ \A v \in Workers \ {w} : pc'[v] = pc[v] /\ todo'[v] = todo[v]
        /\ key' = key /\ pc[w] = "write" /\ pc'[w] = "plan"
        /\ todo'[w] = Tail(todo[w])
        /\ \A k \in Keys : lock'[k] = IF k = Current(w) THEN w ELSE lock[k]
    BY <1>4 DEF InstallWrite, Write, Goto, TypeOK
  <2>3. \A i \in DOMAIN Tail(todo[w]) : i + 1 \in DOMAIN todo[w]
                                        /\ Tail(todo[w])[i] = todo[w][i + 1]
    BY <2>1, FallsTail
  <2>4. /\ Falls(depth, todo'[w])
        /\ \A i \in DOMAIN todo'[w] : depth[Head(todo[w])] > depth[todo'[w][i]]
    BY <2>1, <2>2, FallsTail
  <2>5. \A k \in Keys : lock'[k] = w => MayHold(depth, w, k)'
    <3>. SUFFICES ASSUME NEW k \in Keys, lock'[k] = w
                  PROVE  MayHold(depth, w, k)'
      OBVIOUS
    <3>1. CASE k = Current(w)
      <4>1. k[1] = key[w][1] /\ k[2] = Head(todo[w])
        BY <3>1 DEF Current
      <4>. QED  BY <4>1, <2>2, <2>4 DEF MayHold
    <3>2. CASE k # Current(w)
      <4>1. MayHold(depth, w, k)
        BY <2>2, <3>2, NoWorkerAssumption DEF Held
      <4>. QED  BY <4>1, <2>2, <2>3 DEF MayHold
    <3>. QED  BY <3>1, <3>2
  <2>. QED  BY <2>2, <2>4, <2>5, HeldByOne
<1>5. ASSUME NEW w \in Workers, Flush(w) PROVE Held(depth)'
  <2>1. /\ \A v \in Workers \ {w} : pc'[v] = pc[v]
        /\ key' = key /\ todo' = todo /\ pc'[w] = "commit"
        /\ \A k \in Keys : lock'[k] \in {lock[k], w}
    BY <1>5 DEF Flush, Write, Goto, TypeOK, local
  <2>2. \A k \in Keys : lock'[k] = w => MayHold(depth, w, k)'
    BY <2>1 DEF MayHold
  <2>3. Falls(depth, todo'[w])
    BY <2>1 DEF Held
  <2>. QED  BY <2>1, <2>2, <2>3, HeldByOne
<1>6. ASSUME NEW w \in Workers,
             \/ Check(w) \/ Upload(w) \/ MarkDisabled(w)
             \/ \E t \in AllTables : ReadTable(w, t) \/ WipeTable(w, t)
      PROVE  Held(depth)'
  <2>1. /\ \A v \in Workers \ {w} : pc'[v] = pc[v]
        /\ key' = key /\ todo' = todo /\ lock' = lock
        /\ pc[w] \notin {"commit", "plan", "write"}
    BY <1>6 DEF Check, ReadTable, Upload, MarkDisabled, WipeTable,
                Goto, TypeOK, db, data, local
  <2>2. \A k \in Keys : lock[k] # w
    BY <2>1, NoWorkerAssumption DEF Held, MayHold
  <2>3. Falls(depth, todo'[w])
    BY <2>1 DEF Held
  <2>. QED  BY <2>1, <2>2, <2>3, HeldByOne
<1>7. CASE (\E k \in Keys : WriteRow(k)) \/ UNCHANGED vars
  <2>1. UNCHANGED <<pc, key, todo, lock>>
    BY <1>7 DEF WriteRow, vars, db, local
  <2>. QED  BY <2>1 DEF Held, Falls, MayHold
<1>. QED
  BY <1>1, <1>2, <1>3, <1>4, <1>5, <1>6, <1>7
  DEF Next, Step, Commit, Abort, InstallConflict, CheckFails

LEMMA Least ==
  ASSUME NEW T, T \subseteq Nat, T # {}
  PROVE  \E x \in T : \A y \in T : x <= y
<1>1. PICK x \in T : \A y \in T : <<y, x>> \notin OpToRel(<, Nat)
  BY NatLessThanWellFounded, WFMin
<1>2. \A y \in T : ~(y < x)
  BY <1>1 DEF OpToRel
<1>. QED  BY <1>2

LEMMA HeldNoDeadlock ==
  ASSUME NEW depth \in [Modules -> Nat], TypeOK, Writing, Held(depth)
  PROVE  NoDeadlock
<1>. SUFFICES ASSUME NEW D \in SUBSET Workers, D # {},
                     \A w \in D : \E k \in Waits(w) : lock[k] \in D \ {w}
              PROVE  FALSE
  BY DEF NoDeadlock
<1>. DEFINE Upcoming(w) == Head(todo[w])
            W == {w \in D : pc[w] = "write"}
<1>1. \A w \in D : pc[w] \in {"write", "flush", "wipe"}
  BY DEF Waits
<1>2. \A w \in W : /\ todo[w] \in Seq(Modules) /\ todo[w] # <<>>
                   /\ Current(w) \in Keys /\ depth[Upcoming(w)] \in Nat
  BY CurrentType DEF Writing, TypeOK, Current, Keys
<1>3. ASSUME NEW k \in Keys, lock[k] \in D
      PROVE  lock[k] \in W /\ depth[k[2]] > depth[Upcoming(lock[k])]
  <2>1. MayHold(depth, lock[k], k)
    BY <1>3, NoWorkerAssumption DEF Held
  <2>2. lock[k] \in W
    BY <1>1, <1>3, <2>1 DEF MayHold
  <2>3. 1 \in DOMAIN todo[lock[k]] /\ Upcoming(lock[k]) = todo[lock[k]][1]
    BY <1>2, <2>2
  <2>. QED  BY <2>1, <2>2, <2>3 DEF MayHold
<1>4. \A w \in D : Waits(w) \subseteq Keys
  BY <1>2 DEF Waits, TypeOK
<1>5. W # {}
  BY <1>3, <1>4
<1>6. PICK w \in W : \A v \in W : depth[Upcoming(w)] <= depth[Upcoming(v)]
  <2>1. {depth[Upcoming(v)] : v \in W} # {} /\ {depth[Upcoming(v)] : v \in W} \subseteq Nat
    BY <1>2, <1>5
  <2>2. PICK x \in {depth[Upcoming(v)] : v \in W} :
               \A y \in {depth[Upcoming(v)] : v \in W} : x <= y
    BY <2>1, Least
  <2>. QED  BY <2>2
<1>7. Waits(w) = {Current(w)} /\ Current(w)[2] = Upcoming(w)
  BY <1>6 DEF Waits, Current
<1>8. lock[Current(w)] \in D
  BY <1>6, <1>7
<1>9. lock[Current(w)] \in W /\ depth[Upcoming(w)] > depth[Upcoming(lock[Current(w)])]
  BY <1>2, <1>3, <1>6, <1>7, <1>8
<1>. QED  BY <1>2, <1>6, <1>9

LEMMA PlansInOrderNoDeadlock ==
  ASSUME NEW depth \in [Modules -> Nat],
         \A m \in Modules : Plan[m].error = "none" => Falls(depth, Plan[m].order)
  PROVE  Spec => []NoDeadlock
<1>1. Init => Held(depth)
  BY FallsEmpty DEF Init, Held
<1>2. TypeOK /\ Writing /\ TypeOK' /\ Held(depth) /\ [Next]_vars => Held(depth)'
  BY HeldStep
<1>3. TypeOK /\ Writing /\ Held(depth) => NoDeadlock
  BY HeldNoDeadlock
<1>. QED  BY <1>1, <1>2, <1>3, Typed, PTL DEF Spec

\* The transactions of the requests never wait for each other in a circle,
\* whatever the modules depend on and however many workers and tenants there
\* are: every plan takes the modules in one order, so every request waits for a
\* row further on in it than any it holds (service.py install, resolver.py
\* _topological_sort).
THEOREM RequestsNeverDeadlock == Spec => []NoDeadlock
<1>1. PICK rank \in [Modules -> 1 .. Cardinality(Modules)] :
        \A m \in Modules : \A i, j \in DOMAIN Plan[m].order :
          i < j => rank[Plan[m].order[i]] < rank[Plan[m].order[j]]
  BY PlansInOneOrder
<1>2. Cardinality(Modules) \in Nat
  BY RegistryAssumption, FS_CardinalityType
<1> DEFINE depth == [m \in Modules |-> Cardinality(Modules) - rank[m]]
<1>3. depth \in [Modules -> Nat]
  BY <1>1, <1>2
<1>4. \A m \in Modules : Falls(depth, Plan[m].order)
  <2> SUFFICES ASSUME NEW m \in Modules, NEW i \in DOMAIN Plan[m].order,
                      NEW j \in DOMAIN Plan[m].order, i < j
               PROVE  depth[Plan[m].order[i]] > depth[Plan[m].order[j]]
    BY DEF Falls
  <2>1. Plan[m].order[i] \in Modules /\ Plan[m].order[j] \in Modules
    BY PlansInOneOrder
  <2>2. rank[Plan[m].order[i]] < rank[Plan[m].order[j]]
    BY <1>1
  <2>3. QED BY <1>1, <1>2, <2>1, <2>2
<1> HIDE DEF depth
<1>5. QED BY <1>3, <1>4, PlansInOrderNoDeadlock
=============================================================================
