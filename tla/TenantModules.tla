---------------------------- MODULE TenantModules ----------------------------
(***************************************************************************)
(* The lifecycle of the modules a tenant installs: TenantModuleService     *)
(* (backend/app/core/tenant_modules/service.py) behind the endpoints of    *)
(* backend/app/api/v1/admin_modules.py.                                    *)
(*                                                                         *)
(* Three worker processes serve the endpoints.  A handler never awaits, so *)
(* a worker has one request at a time, and a request is one PostgreSQL     *)
(* READ COMMITTED transaction: it reads a row without locking it, decides, *)
(* and its flush takes the row's lock until the commit or rollback.        *)
(*                                                                         *)
(* The module gate in front of the business endpoints (ModuleState-        *)
(* Middleware) lets every request without an X-Tenant-ID header through,   *)
(* so rows may be written in any state of the module.                      *)
(*                                                                         *)
(* A module's data lies in its tables.  The export and the hard uninstall  *)
(* know only those that get_models() returns, none by default; a deletion  *)
(* takes along the rows that refer to it with ON DELETE CASCADE.           *)
(***************************************************************************)
EXTENDS Integers, Sequences, FiniteSets, InstallPlan

CONSTANTS Tenants,
          Registry,     \* the dependency lists of the registered modules
          Workers,      \* the requests served at one time
          NoWorker,
          MaxRow,       \* bound: rows written
          Tables,       \* the tables a module keeps rows in
          Models,       \* those of them that get_models() returns
          Scoped,       \* the tables with a tenant_id
          Cascade,      \* the tables whose rows go with a table's
          TableOf,      \* the table of the n-th row written
          MaxRequests,  \* bound: admin requests
          StartStates   \* the states a module may be in to begin with

Modules == DOMAIN Registry

\* A row of tenant_modules, by uq_tenant_modules.
Keys == Tenants \X Modules

\* Mutant: the target is installed before what it depends on.
MutPlanTargetFirst ==
  [m \in Modules |-> LET p == ResolveInstallPlan(Registry, m)
                     IN  [p EXCEPT !.order = <<m>> \o Front(@)]]

Plan == [m \in Modules |-> ResolveInstallPlan(Registry, m)]

ASSUME KeysAssumption == Keys # {}

\* Every dependency is registered too.
ASSUME RegistryAssumption ==
  Modules \subseteq Nat /\ IsFiniteSet(Modules) /\ IsRegistry(Registry, Modules)

ASSUME NoWorkerAssumption == NoWorker \notin Workers

ASSUME RowAssumption == MaxRow \in Nat

AllTables == UNION {Tables[m] : m \in Modules}

\* The foreign keys that cascade from rules, ai_conversations and badges stay
\* within what get_models() of their module returns.
ASSUME TableAssumption ==
  /\ TableOf \in [1..MaxRow -> AllTables]
  /\ \A m \in Modules : Models[m] \subseteq Tables[m]
  /\ \A m \in Modules : \A t \in Models[m] : Cascade[t] \subseteq Models[m]

ASSUME RequestAssumption == MaxRequests \in Nat

\* No request was half-way, and an "exported" row would need its file.
ASSUME StartAssumption ==
  StartStates \subseteq {"absent", "active", "disabled", "grace_period"}

VARIABLES
  state,      \* tenant_modules.state as committed; "absent" without a row
  lock,       \* the worker whose transaction has written the row
  dirty,      \* what it has written
  rows,       \* the rows a tenant keeps in a module
  written,    \* how many rows were ever written; they are numbered in turn
  files,      \* the export files kept for it
  wiped,      \* the rows a hard uninstall has deleted
  requests,   \* how many admin requests were made
  pc, op, key, \* per worker: where its request is, what it is, its row
  todo,       \* install: the rest of the plan
  insert,     \* install: the row was missing when it was read
  copy,       \* export: the file being built
  left        \* the tables an export has still to read, a hard uninstall to empty

db    == <<state, lock, dirty>>
data  == <<rows, written, files, wiped>>
local == <<op, key, todo, insert, copy, left>>
vars  == <<db, data, requests, pc, local>>

States == {"absent", "active", "disabled", "grace_period", "exported",
           "uninstalled"}

Operations == {"install", "disable", "enable", "uninstall_request",
               "reactivate", "export", "hard_uninstall"}

\* TenantModuleStateMachine.  "installing" is left out: it
\* is overwritten with "active" in the transaction that writes it.
VALID_TRANSITIONS ==
  { <<"active", "disabled">>,       <<"disabled", "active">>,
    <<"active", "grace_period">>,   <<"disabled", "grace_period">>,
    <<"grace_period", "active">>,   <<"grace_period", "exported">>,
    <<"exported", "uninstalled">> }

Target(o) == CASE o = "disable"           -> "disabled"
               [] o = "uninstall_request" -> "grace_period"
               [] o = "export"            -> "exported"
               [] o = "hard_uninstall"    -> "uninstalled"
               [] OTHER                   -> "active"

\* An export file: the rows it holds, and for each table how many rows had been
\* written when the export read it, or began if it never reads it.
Blank(n) == [upto |-> [t \in AllTables |-> n], rows |-> {}]

NoCopy == Blank(0)

Copies == [upto : [AllTables -> 0..MaxRow], rows : SUBSET (1..MaxRow)]

Labels == {"idle", "plan", "write", "check", "read", "wipe",
           "flush", "commit"}

TypeOK ==
  /\ state \in [Keys -> States]
  /\ lock \in [Keys -> Workers \cup {NoWorker}]
  /\ dirty \in [Keys -> States]
  /\ rows \in [Keys -> SUBSET (1..MaxRow)]
  /\ written \in 0..MaxRow
  /\ files \in [Keys -> SUBSET Copies]
  /\ wiped \in [Keys -> SUBSET (1..MaxRow)]
  /\ requests \in 0..MaxRequests
  /\ pc \in [Workers -> Labels]
  /\ op \in [Workers -> Operations]
  /\ key \in [Workers -> Keys]
  /\ todo \in [Workers -> Seq(Modules)]
  /\ insert \in [Workers -> BOOLEAN]
  /\ copy \in [Workers -> Copies]
  /\ left \in [Workers -> SUBSET AllTables]

\* The tenants may have installed and left modules before; a module is only
\* ever installed with what it depends on.
Init ==
  /\ state \in [Keys -> StartStates]
  /\ \A k \in Keys : state[k] # "absent" =>
       \A d \in ToSet(Registry[k[2]]) : state[<<k[1], d>>] # "absent"
  /\ lock = [k \in Keys |-> NoWorker]
  /\ dirty = [k \in Keys |-> "absent"]
  /\ rows = [k \in Keys |-> {}]
  /\ written = 0
  /\ files = [k \in Keys |-> {}]
  /\ wiped = [k \in Keys |-> {}]
  /\ requests = 0
  /\ pc = [w \in Workers |-> "idle"]
  /\ op = [w \in Workers |-> "install"]
  /\ key = [w \in Workers |-> CHOOSE k \in Keys : TRUE]
  /\ todo = [w \in Workers |-> <<>>]
  /\ insert = [w \in Workers |-> FALSE]
  /\ copy = [w \in Workers |-> NoCopy]
  /\ left = [w \in Workers |-> {}]
-----------------------------------------------------------------------------
(* The transaction of a request.                                           *)

Free(k, w) == lock[k] \in {NoWorker, w}

Write(w, k, s) ==
  /\ Free(k, w)
  /\ lock' = [lock EXCEPT ![k] = w]
  /\ dirty' = [dirty EXCEPT ![k] = s]
  /\ UNCHANGED state

Release(w) ==
  /\ lock' = [k \in Keys |-> IF lock[k] = w THEN NoWorker ELSE lock[k]]
  /\ dirty' = [k \in Keys |-> IF lock[k] = w THEN "absent" ELSE dirty[k]]

Publish(w) == state' = [k \in Keys |-> IF lock[k] = w THEN dirty[k] ELSE state[k]]

Goto(w, l) == pc' = [pc EXCEPT ![w] = l]

\* The request is answered and its session closed.
End(w) ==
  /\ Release(w)
  /\ Goto(w, "idle")
  /\ todo' = [todo EXCEPT ![w] = <<>>]
  /\ insert' = [insert EXCEPT ![w] = FALSE]
  /\ copy' = [copy EXCEPT ![w] = NoCopy]
  /\ left' = [left EXCEPT ![w] = {}]
  /\ UNCHANGED <<data, requests, op, key>>

\* The handler raises, the connection breaks or the worker dies: whatever the
\* transaction wrote is rolled back, whatever was committed before stays.
Abort(w) ==
  /\ pc[w] # "idle"
  /\ End(w)
  /\ UNCHANGED state

Commit(w) ==
  /\ pc[w] = "commit" \/ (pc[w] = "plan" /\ todo[w] = <<>>)
  /\ Publish(w)
  /\ End(w)
-----------------------------------------------------------------------------
Accept(w, o, k, l) ==
  /\ pc[w] = "idle"
  /\ requests < MaxRequests
  /\ requests' = requests + 1
  /\ op' = [op EXCEPT ![w] = o]
  /\ key' = [key EXCEPT ![w] = k]
  /\ Goto(w, l)
  /\ UNCHANGED <<db, data>>

Install(w, k) ==
  /\ Accept(w, "install", k, "plan")
  /\ Plan[k[2]].error = "none"
  /\ todo' = [todo EXCEPT ![w] = Plan[k[2]].order]
  /\ UNCHANGED <<insert, copy, left>>

\* The row is read, and the state machine asked, as the request arrives.
Begin(w, o, k, l) ==
  /\ Accept(w, o, k, l)
  /\ <<state[k], Target(o)>> \in VALID_TRANSITIONS

Disable(w, k) ==
  /\ Begin(w, "disable", k, "check")
  /\ UNCHANGED <<todo, insert, copy, left>>

\* validate_transition lets it run from grace_period as well as from disabled.
Enable(w, k) ==
  /\ Begin(w, "enable", k, "check")
  /\ UNCHANGED <<todo, insert, copy, left>>

UninstallRequest(w, k) ==
  /\ Begin(w, "uninstall_request", k, "flush")
  /\ UNCHANGED <<todo, insert, copy, left>>

Reactivate(w, k) ==
  /\ Begin(w, "reactivate", k, "flush")
  /\ state[k] = "grace_period"
  /\ UNCHANGED <<todo, insert, copy, left>>

Export(w, k) ==
  /\ Begin(w, "export", k, "read")
  /\ copy' = [copy EXCEPT ![w] = Blank(written)]
  /\ left' = [left EXCEPT ![w] = Models[k[2]]]
  /\ UNCHANGED <<todo, insert>>

HardUninstall(w, k) ==
  /\ Begin(w, "hard_uninstall", k, "wipe")
  /\ left' = [left EXCEPT ![w] = Models[k[2]] \cap Scoped]
  /\ UNCHANGED <<todo, insert, copy>>
-----------------------------------------------------------------------------
(* Install: one module of the plan after another, in one transaction.      *)

Current(w) == <<key[w][1], Head(todo[w])>>

InstallRead(w) ==
  /\ pc[w] = "plan"
  /\ todo[w] # <<>>
  /\ IF state[Current(w)] = "active"
       THEN /\ todo' = [todo EXCEPT ![w] = Tail(@)]
            /\ UNCHANGED <<pc, insert>>
       ELSE /\ insert' = [insert EXCEPT ![w] = state[Current(w)] = "absent"]
            /\ Goto(w, "write")
            /\ UNCHANGED todo
  /\ UNCHANGED <<db, data, requests, op, key, copy, left>>

\* Mutant: the second assignment is missing, and the row stays "installing".
MutInstallWriteOnce(w) ==
  /\ pc[w] = "write"
  /\ insert[w] => state[Current(w)] = "absent"
  /\ Write(w, Current(w), "installing")
  /\ todo' = [todo EXCEPT ![w] = Tail(@)]
  /\ Goto(w, "plan")
  /\ UNCHANGED <<data, requests, op, key, insert, copy, left>>

\* The UPDATE, or the INSERT, waits for another transaction's row.
InstallWrite(w) ==
  /\ pc[w] = "write"
  /\ insert[w] => state[Current(w)] = "absent"
  /\ Write(w, Current(w), "active")
  /\ todo' = [todo EXCEPT ![w] = Tail(@)]
  /\ Goto(w, "plan")
  /\ UNCHANGED <<data, requests, op, key, insert, copy, left>>

\* uq_tenant_modules: somebody else's INSERT was committed first.
InstallConflict(w) ==
  /\ pc[w] = "write"
  /\ insert[w]
  /\ state[Current(w)] # "absent"
  /\ Abort(w)
-----------------------------------------------------------------------------
(* Disable and enable look at other rows before they write their own.      *)

DependentsActive(k) ==
  \E m \in Modules : state[<<k[1], m>>] = "active" /\ Contains(Registry[m], k[2])

DependenciesActive(k) ==
  \A d \in ToSet(Registry[k[2]]) :
    d \in Modules /\ state[<<k[1], d>>] = "active"

Check(w) ==
  /\ pc[w] = "check"
  /\ IF op[w] = "disable" THEN ~DependentsActive(key[w])
                          ELSE DependenciesActive(key[w])
  /\ Goto(w, "flush")
  /\ UNCHANGED <<db, data, requests, local>>

\* ModuleHasDependentsError, InvalidModuleStateError.
CheckFails(w) ==
  /\ pc[w] = "check"
  /\ IF op[w] = "disable" THEN DependentsActive(key[w])
                          ELSE ~DependenciesActive(key[w])
  /\ Abort(w)

Flush(w) ==
  /\ pc[w] = "flush"
  /\ Write(w, key[w], Target(op[w]))
  /\ Goto(w, "commit")
  /\ UNCHANGED <<data, requests, local>>
-----------------------------------------------------------------------------
(* Export: the tables are read, each by a query of its own, and the file is *)
(* uploaded, with a commit of its own, before the row is written.          *)

In(S) == {r \in 1..MaxRow : TableOf[r] \in S}

ReadTable(w, t) ==
  /\ pc[w] = "read"
  /\ t \in left[w]
  /\ copy' = [copy EXCEPT ![w] = [upto |-> [@.upto EXCEPT ![t] = written],
                                 rows |-> @.rows \cup (rows[key[w]] \cap In({t}))]]
  /\ left' = [left EXCEPT ![w] = @ \ {t}]
  /\ UNCHANGED <<db, data, requests, pc, op, key, todo, insert>>

\* Mutant: a failed upload is logged, and the row is written all the same.
MutUploadSwallowsErrors(w) ==
  /\ pc[w] = "read"
  /\ left[w] = {}
  /\ \/ files' = [files EXCEPT ![key[w]] = @ \cup {copy[w]}]
     \/ UNCHANGED files
  /\ Goto(w, "flush")
  /\ UNCHANGED <<db, rows, written, wiped, requests, local>>

Upload(w) ==
  /\ pc[w] = "read"
  /\ left[w] = {}
  /\ files' = [files EXCEPT ![key[w]] = @ \cup {copy[w]}]
  /\ Goto(w, "flush")
  /\ UNCHANGED <<db, rows, written, wiped, requests, local>>
-----------------------------------------------------------------------------
(* Hard uninstall: every table's deletion is committed, then the row as    *)
(* disabled, and only then the request's own transition follows.           *)

Delete(k, R) ==
  /\ rows' = [rows EXCEPT ![k] = @ \ R]
  /\ wiped' = [wiped EXCEPT ![k] = @ \cup (rows[k] \cap R)]

WipeTable(w, t) ==
  /\ pc[w] = "wipe"
  /\ t \in left[w]
  /\ left' = [left EXCEPT ![w] = @ \ {t}]
  /\ Delete(key[w], In({t} \cup Cascade[t]))
  /\ UNCHANGED <<db, written, files, requests, pc, op, key, todo, insert, copy>>

\* _disable_tenant_module writes the row and commits at once; for a row that is
\* disabled already there is no UPDATE, and nothing to wait for.  The "alembic
\* downgrade <module>@base" that follows changes nothing: of the registered
\* modules only tasks has a branch, and its downgrade is empty.
MarkDisabled(w) ==
  /\ pc[w] = "wipe"
  /\ left[w] = {}
  /\ Free(key[w], w) \/ state[key[w]] = "disabled"
  /\ state' = [state EXCEPT ![key[w]] = "disabled"]
  /\ Goto(w, "flush")
  /\ UNCHANGED <<lock, dirty, data, requests, local>>
-----------------------------------------------------------------------------
\* A user of the tenant writes to the module.
WriteRow(k) ==
  /\ written < MaxRow
  /\ TableOf[written + 1] \in Tables[k[2]]
  /\ written' = written + 1
  /\ rows' = [rows EXCEPT ![k] = @ \cup {written'}]
  /\ UNCHANGED <<db, files, wiped, requests, pc, local>>

Step(w) ==
  \/ Commit(w)
  \/ InstallRead(w) \/ InstallWrite(w) \/ InstallConflict(w)
  \/ Check(w) \/ CheckFails(w) \/ Flush(w)
  \/ Upload(w) \/ MarkDisabled(w)
  \/ \E t \in AllTables : ReadTable(w, t) \/ WipeTable(w, t)

Request(w, k) ==
  \/ Install(w, k) \/ Disable(w, k) \/ Enable(w, k)
  \/ UninstallRequest(w, k) \/ Reactivate(w, k)
  \/ Export(w, k) \/ HardUninstall(w, k)

Next ==
  \/ \E w \in Workers : Step(w) \/ Abort(w)
  \/ \E w \in Workers, k \in Keys : Request(w, k)
  \/ \E k \in Keys : WriteRow(k)

Spec == Init /\ [][Next]_vars
-----------------------------------------------------------------------------
\* A hard uninstall deletes no row that an export had not dealt with before:
\* each row it deletes, by name or by a foreign key, is in an export file of the
\* tenant's module, or was written after such an export had read its table
\* ("Must be called AFTER export()", service.py hard_uninstall).
WipedWasExported ==
  \A k \in Keys : \A r \in wiped[k] : \E f \in files[k] :
    r \in f.rows \/ r > f.upto[TableOf[r]]

\* "Irreversibly delete all module data" (service.py hard_uninstall): an
\* uninstalled module keeps no row that was there for its export to read.
UninstalledIsEmpty ==
  \A k \in Keys : state[k] = "uninstalled" =>
    \A r \in rows[k] : \A f \in files[k] : r > f.upto[TableOf[r]]

\* The rows whose lock a request may be waiting for.
Waits(w) ==
  CASE pc[w] = "write" -> {Current(w)}
    [] pc[w] = "flush" \/ (pc[w] = "wipe" /\ left[w] = {}) -> {key[w]}
    [] OTHER -> {}

\* Whatever requests overlap, their transactions never wait for each other in
\* a circle: an install is the only one to lock several rows, and all install
\* plans lock them in one order (service.py install, resolver.py).
NoDeadlock ==
  \A D \in (SUBSET Workers) \ {{}} : \E w \in D :
    \A k \in Waits(w) : lock[k] \notin D \ {w}
=============================================================================
