# AiutoX ERP: TLA+ verification project

AiutoX ERP is a multi-tenant ERP platform: a FastAPI backend
(`src/backend/app`), a React frontend (`src/frontend/app`), PostgreSQL and
Redis. This directory models the parts of it whose correctness depends on the
order in which things happen, checks them with TLC on small instances, and
proves the central properties with TLAPS for every value of the constants.

Three facts of the deployment shape all the models:

- `src/backend/docker-entrypoint.sh:11` starts uvicorn with `--workers 3`. Every
  worker process starts every event consumer (with the same group and consumer
  names) and every scheduler (`main.py:155-445`), and serves requests next to
  the two others. Anything kept in a process is kept three times.
- PostgreSQL runs at READ COMMITTED, and none of the services modelled here uses
  `with_for_update` (only the catalogs do), a
  version column or a conditional UPDATE: an operation reads, decides, and
  commits later what it decided.
- Domain events are published after the commit, fire-and-forget, to one Redis
  stream, and are read back through consumer groups.

The packages `app.repositories`, `app.services`, `app.models`, `app.schemas` and
the business modules (`app.modules`) are not part of this repository; what the
models need of them is taken from how the code here uses it.

## 1. Inventory

| Component | State it keeps | Operations | What is hard | What makes it correct |
|---|---|---|---|---|
| **Domain event streams** `core/pubsub` | Redis stream, cursor and pending entries list (PEL) of each group, the failed stream, the batch and the attempt of each loop | publish, subscribe, the consume loop (read, filter, call back with retries, acknowledge, dead-letter), stop, reprocess a failed event | several loops in one group, every Redis call may fail before or after it took effect, a worker may live without its loop, a loop may be cancelled at any await, retries block the batch | each message has one outcome, none is lost unnoticed, dead letters are justified, everything is settled in the end |
| **Approval requests** `core/approvals`, `api/v1/approvals.py` | flows and steps, request rows, the audit trail (`approval_actions`), flow runs | create, get-or-create by entity, approve, reject, cancel (single and bulk), add, update, delete and replace steps, delete a flow | stale reads between sessions, a flow replaced in several commits while requests run through it, a flow run in a commit of its own that `/flow-runs` writes as well | no step is skipped, an approval covers the steps it had to, an approval ends its run only by a decision |
| **Tenant modules** `core/tenant_modules`, `core/modules`, `api/v1/admin_modules.py` | `tenant_modules` rows (a state machine), the modules' tables, export files | install with dependencies, disable, enable, uninstall request, reactivate, export, hard uninstall | checks on rows of other modules without locks, locks on many rows in one transaction, an export read table by table, a hard uninstall that commits in pieces, tables that a module does not name | nothing is deleted that an export did not deal with, nothing is left behind, no deadlock |
| **Install plan resolver** `core/tenant_modules/resolver.py` | none | resolve a plan: descent, cycle check, topological sort | diamonds against cycles, unregistered dependencies, determinism | complete, ordered, refuses exactly cycles, one order for all plans |
| **Browser session** `frontend/app/lib/api/client.ts`, `stores/authStore.ts`, `hooks/useAuthSync.ts` | access token (localStorage), refresh cookie, persisted auth store, refresh lock and queue, proactive timer | request and response interceptors, refresh, timer, login, logout, storage events, reload | 401s while a refresh runs, refreshes that outlive a logout, logins between `/auth/login` and `/auth/me`, other tabs, the timer | one refresh at a time, no endless retry, every request settles, a stored token is looked after, a logout lasts |
| **Module gate** `core/middleware/module_state.py` | none | blocks or passes a request by module state | depends on a header no client of this repository sends | its effect on rows is part of the tenant module model |
| **Flow runs** `core/flow_runs`, `api/v1/flow_runs.py` | run rows | create, start, complete, fail, cancel, delete | driven by approvals in commits of their own and by an API that looks at neither the status nor the approval | a run nobody managed follows its decision |
| **Search index** `core/search` | index rows | upsert or remove on each event | three workers handle events of one entity | the index follows the entity |
| **Gamification** `core/gamification` | recorded events, points, badges, leaderboard rows with ranks | award the user of an event: points, badges, leaderboard, in a commit each | events delivered twice or to two workers, totals computed from a row read earlier, badges counted while others are recorded, row locks taken in different orders, an error between two of the commits, an event type whose handler has no look at the badges | a fact counts once, totals are the sum of the facts, badges and leaderboard follow, every handler ends |
| **Notifications, calendar, reporting consumers** | rows of their own | a callback per event | swallow every exception, share one session | an event has its effect |
| **AI agents** `core/automation/ai` | runs, plan steps, what each session has loaded, conversations | plan, execute, ask, confirm, reject and replan, cancel, time out | a background task, requests and an hourly job on one run, each with a session of its own; capabilities that commit their caller's session or leave its transaction aborted; rows deleted under an executor; a unique index met by every new plan | a capability runs once, a completed run did its plan, a waiting run can be decided, a run ends |
| **Automation engine** `core/automation` | rules, executions | evaluate, execute, schedule | duplicates, a trigger handler without a caller | a rule fires once per event |
| **Schedulers** `core/async_tasks`, `core/*/…scheduler.py` | timers of a process | schedule, replace, cancel, tick | three of each, cancelled while they run | a job runs when due, once |
| **Files** `core/files` | file and version rows, the object store, quotas | upload, add and restore a version, delete, restore, the daily sweep of each worker, warnings | paths shared by name and month, an object deleted because a row failed or could not be read back, a sweep that works from a list and purges rows whose objects it could not delete, numbers and usages read before they are used | current files have their content, nothing goes before its retention period, quotas hold, warnings are sent, versions are numbered, no more objects are orphaned than calls failed |
| **Caches, SSE, licensing, import/export, integrations, tasks** | rows, queues of a process | CRUD, pushes | limits and expiry | listed in `PROJECT.json` with the reason they are not modelled |

How they interact: a request commits rows and publishes an event; the consumers
of every worker read the stream and call notifications, gamification, calendar,
reporting and search; approvals drive flow runs by direct calls in commits of
their own; the admin endpoints call the resolver, the export and the uninstall
services in one session, parts of which commit; the frontend talks to all of it
through one axios client whose interceptors own the token.

`PROJECT.json` lists each component with its sources, and every hazard with the
line where it bites and the properties that would catch it going wrong.

## 2. Plan

Modules in the order they are written; each is parameterised by CONSTANTS with
named assumptions, and uses no RECURSIVE operator so that theorems can be stated
about it.

| # | Module | Abstract specification or reference | Theorems | State |
|---|---|---|---|---|
| 1 | `StreamConsumer` | `EventDelivery`, by refinement | types, safety, the refinement | done |
| 2 | `Approvals` | the audit trail as history | types and all invariants | done |
| 3 | `TokenRefresh` | – | types and all invariants | done |
| 4 | `Resolver` | `InstallPlan`: what a plan is | types, the answers are those of `InstallPlan`, plans are sound and share one order, bounded recursion | done |
| 5 | `TenantModules`, uses 4 | the export files as history | types, export before wipe, no deadlock, from the one order of 4 | done |
| 6 | an abstract module lifecycle that 5 implements | – | dropped: `install` writes over every state and overlapping requests overwrite each other, so the states of a row follow no narrower machine | – |
| 7 | `AgentRun` | the invocations as history | types and all safety properties | done |
| 8 | `FileStore` | the fault counters and crossings as history | types and all invariants | done |
| 9 | `Awards` | the sum of the recorded facts (`earned`) | types and all invariants | done |
| 10 | `SearchIndexSync`: several loops of `StreamConsumer` as callers of the indexer | the index equals the entity once events are drained | types; what remains true under races | open |
| 11 | `ConsumerLifecycle`: start, stop and shutdown of a consumer and its session | – | no callback uses a closed session, or the violation | open |
| 12 | `TimerTasks`: `core/async_tasks` timers under replacement and cancellation | – | at most one timer per task | open |

Composition: 5 uses the plans of `InstallPlan`, which 4 computes; the proofs about 5
cite those about 4. 9 is a callback of 1: what 1
guarantees of a delivery (each loop holds it alone, it may come again after a
failed XACK and a reprocess) is what `Take` of 9 assumes, which lets every fact be
delivered several times and to any worker; 10 would do the same for the indexer.
Runs are kept few, one for each question; a run whose question another one or a
theorem answers is dropped.

## 3. Modules and their correspondence to the code

`PROJECT.json` "map" gives the source lines of every definition.

### StreamConsumer and EventDelivery

One stream, one group and the loops of `EventConsumer._consume_loop`. A message
id is its position in the stream. `XREADGROUP >` hands out consecutive entries,
so a batch is the interval `cur .. last`; `pc` is the await a loop is at:

| `pc` | the loop is at | actions |
|---|---|---|
| `off` | not subscribed | `Subscribe`, `SubscribeError` |
| `unstarted` | never started: its worker lives without it | – |
| `poll`, `pause` | XREADGROUP, the pause after its error | `Read`, `ReadError`, `Resume` |
| `item` | parsing, filtering the next message | `ParseError`, `FilterOut`, `Dispatch` |
| `call`, `backoff` | `retry_with_backoff` | `CallbackReturns`, `CallbackRaises`, `BackoffOver` |
| `ack` | XACK after a callback or a filter | `Ack`, `AckError` |
| `move`, `moveAck` | `_move_to_failed_stream` and its XACK | `Move`, `MoveError`, `MoveAck`, `MoveAckError` |

Every Redis call is a step of its own and can fail with or without having taken
effect (`Fault`). That of `ensure_group_exists` raises `ConsumeError` before the loop
exists; `main.py:205-211` only logs it, nothing retries, and the worker serves
requests without the loop until its process ends (`SubscribeError`, `unstarted`).
`Halt` is a cancellation or the end of the worker at any
await. `ReprocessRead`, `ReprocessAdd`, `ReprocessDel` are the three round trips
of the reprocess endpoint. `claim_pending_messages` is never called in the code
and is not in the model, which is why an entry can be stranded. The sets
`handled`, `skipped`, `moved`, `ackErrors` and the counters `tries` are history.
The callback is a parameter of the consumer: it returns or raises. The consumers
in this repository swallow their exceptions, those of modules outside it need not.

`EventDelivery` says what the group promises without loops: entries are taken in
order and once, have at most one outcome, and are forgotten only afterwards.
`ImplementsDelivery` is the refinement, under `status <- StatusOf`.

### Approvals

An operation of `ApprovalService` in a session is: read the request
(`StartApprove`, `StartReject`, `StartCancel`), for an approval read the steps
(`ReadSteps`), then commit (`ApproveStep`, `ApproveLast`, `Reject`, `Cancel`).
A commit writes the columns that differ from what the session read, which is
what `SetStatus` and `seen` are for. `CreateRequest`, `FindNone`,
`CreateByEntity` and `CreateRun` are the creation paths, `ReplaceSteps`,
`ReplaceNext`, `ReplaceDone` the commits of `update_flow_steps`, `AddStep`,
`UpdateStep`, `DeleteStep`, `StartDeleteFlow` and `DeleteFlow` the other edits.
Any session may end between its steps. `ManageRun` is the API of flow runs: start,
complete, fail, cancel and delete of `/flow-runs/{run_id}` write the run of an
approval in any status and ask for no decision; `managed` remembers which runs they
wrote last, until a decision writes the run again, and `RunFollowsDecision` is about
the others. The PUT of that API calls `update_flow_run`, which `FlowRunService` does
not have, and changes nothing. Delegations and the type of an approver decide nothing
in these operations and are left out.

### TokenRefresh

One tab. A step is the reaction to one answer, timer, click or storage event:
JavaScript drains the promise reactions it caused before the next one. Of the
token only its presence matters; the backend may answer any request that
carries one with 401. `Answer` and `RefreshAnswer` are the branches of the
response interceptor, `Background` the proactive timer and its refresh,
`Session` login, logout, the other tabs and reloads. A login is two answers:
`/auth/login` stores the token (`LoginAnswered`), and only that of `/auth/me` sets
the user and the timer (`LoginDone`) or never does (`LoginFails`); `signing` says that
a login waits for it. `bare` is history: the token came by one of the two ways on
which nothing is scheduled for it, that first half of a login, or a reload of a page
that was signed in. `background` counts refreshes in flight that nobody waits for.
The service worker cache and the encryption secret are left out; the refresh endpoint
is external.

### InstallPlan, Resolver and TenantModules

`InstallPlan` says what `DependencyResolver` promises for a registry, a function
from module ids to dependency lists: refusal if the target reaches a cycle
(`Cyclic`), else the one order of all it needs (`Closure`) that always takes the
least of the modules whose dependencies are in it (`IsInstallOrder`).

`Resolver` is the code. `stack` holds the calls of `_resolve_transitive_deps`, each
with the rest of its list; `Enter` is a round of its loop with the call it makes or
the error it raises, `Return` the end of a call. `Visited` is a call's copy of the
set: the modules of the calls it stems from. `Prepare` builds `in_degree` and the
queue; the adjacency lists have an entry for every entry of a dependency list, and
`Entries` counts those. `Round` is a round of Kahn's loop, with the sort of the queue
(`First`); `Finish` compares the lengths. Left out: version ranges, which nothing
reads, and the order of `plan.modules`, which only decides in which order the queue
is filled before it is sorted. All targets ask in turn.

`TenantModules` puts the plans behind the admin endpoints. A worker serves one request
at a time, as the handlers never await; a request is one transaction. `state`
is what is committed, `lock` and `dirty` what an open transaction has flushed.
`Begin` reads the row and asks the state machine; `Check` reads the rows of
dependents or dependencies; `Flush` writes and waits for the row's lock;
`Commit` publishes, `Abort` is an exception, a lost connection or a dead worker.
`InstallRead` and `InstallWrite` go through the plan row by row, `InstallConflict`
is the unique constraint. An export reads the tables of the module one query each
(`ReadTable`), so a row written meanwhile is in the file or not as its table had been
read or not, and uploads the file with a commit (`Upload`) before it writes the row.
A hard uninstall deletes table by table with a commit each (`WipeTable`), commits the
row as disabled (`MarkDisabled`) and then writes and commits its transition.
Which tables these are is the modules' affair: `Tables` are those a module keeps rows
in, `Models` those its `get_models()` returns (none, unless it overrides it, as
`TasksCoreModule` does not), `Scoped` those with a `tenant_id`, the only ones a hard
uninstall deletes from, and `Cascade` what goes with a table by a foreign key. The
`alembic downgrade <module>@base` behind it has nothing to do: the only branch of a
registered module, that of `tasks`, has an empty downgrade, and the labels
`widgets_001` and `insights_001` of two other migrations are the ids of no registered
module. `WriteRow` is a user writing to a table of the module, in any state: the gate
lets requests without the header pass. `files` and `wiped` are history.
Left out: role permission seeds, JSONB snapshots, timestamps, published events,
modules the registry does not know (`Resolver` has them), and the uninstall
endpoints of `api/v1/modules_management.py`, a router that is not mounted.

### AgentRun

One run of the AI agent and everybody who works on it: the background task that
`start_agent_run` schedules, confirm, reject and cancel requests, and the hourly
timeout job. Each has a SQLAlchemy session of its own, and what a session has
loaded is the heart of the model: `seen`, `status`, `current`, `view` are the
values it goes by, `moved` and `dirty` what its commit will write, `todo` the
steps `execute_plan` has still to visit. `RunFlushed` and `StepsFlushed` write
only what differs from what was loaded, as SQLAlchemy does; `Flushable` is the
rule that an UPDATE of a deleted row fails the commit.

| `pc` | the session is | actions |
|---|---|---|
| `queued`, `plan` | the task before and after its first read | `TaskReads`, `TaskPlans`, `TaskFails` |
| `execute` | in `execute_plan` | `SkipStep`, `AskStep`, `InvokeStep`, `InvokeRefused`, `StepGone`, `PlanDone` |
| `confirm`, `reject`, `replan` | in one of the decisions | `OpenDecision`, `Confirm`, `Reject`, `Replan`, `RequestFails` |
| `cancel` | between the read and the commit of a cancellation | `OpenCancel`, `OpenTimeout`, `Cancel` |
| `commit` | at its last commit | `Commit` |

A capability gets the caller's session and may commit it; then the session has
to read its rows again (`"expired"`), which is where a deleted step is noticed. It
may also meet an error of the database, whether it raises it or swallows it
(`capabilities.py:82`): PostgreSQL refuses everything more in that transaction
(`aborted`), so the commit at the end fails, the commit of "failed" after it too, and
with the session goes the record of what it invoked. `calls` counts invocations,
`lost` those whose record was rolled back, `overlap` remembers that two decisions were
open at once. A rejection is in `Reject`, then `Replan`: the row it marks is still
`awaiting` in the database when `reject_step` deletes the pending and rejected ones,
and the new plan is numbered from its index, so `uq_ai_agent_plan_steps_run_step`
refuses the commit (`Collides`) and the run goes on waiting, until the timeout job ends
it. Only where a second decision overlapped can a new plan be stored. The language
model is external: it returns one of `Plans` or none. The count of replans is left
out, as the code changes it inside a loaded JSON dict and no commit ever writes it.
Conversations and the digest job are left out.

### FileStore

The rows of `files` and `file_versions`, the object store as a function from
paths to the request whose content is there, and the steps between the awaits of
an upload (`UploadRead`, `UploadCheck` or `UploadRefuse`, `UploadStore`,
`UploadCreate`, `UploadFinish`), of a new version or the restoration of one
(`ReviseRead`, `ReviseRestore`, `ReviseStore`, `ReviseRecord`, `ReviseNumber`), of
`Delete` and `Restore`, and of the sweep each worker runs (`SweepList`, `SweepTake`,
`SweepErase`, `SweepPurge`). Every repository call commits, so a failure leaves the
steps before it done. `UploadCreateFails` and `UploadVerifyFails` are the two halves of
one `try` (`service.py:384-405`): the row could not be created, or it was committed
and reading it back failed, and in both cases the object is deleted again, whoever's it
is by then. `UploadCrash`, `ReviseFails` and `SweepFails` are the other failures.
`storage.delete` returns False instead of raising (`storage.py:139-141`), so a sweep may
keep an object and purge its row (`kept` in `SweepTake` and `SweepErase`).

A usage is read scope by scope, first for the warnings (`before`), then again by the
check, with other workers' commits in between. Files have a `Size`, and an upload warns
of the highest threshold it crosses only (`Crossed`, `Warnings`); a warning may be lost
(`sent` in `UploadFinish`). A path is a name and a version prefix: the month and the
entity type in it only tell more names apart. A file named `v2_x` would alias the path
of a version of `x`; such names are left out, and what they would do is what two files
of one name do. `crossed` (a sweep had the file listed while it was restored or
revised), `racing` (two version numbers handed out at once), `peak` (the bytes of
others past their check), `overlapped` and `restored` are history; the properties
use them to say when a promise is not kept. Folders, permissions, tags,
thumbnails and the choice of the storage back end are left out.

### Awards

What the gamification consumer does with an event, in three transactions: points
(`Take`, `ReadPoints`, `AddPoints`), badges (`CheckBadge`, `AwardBadge`,
`CommitBadges`), leaderboard (`ReadScore`, `ReadRow`, `FlushRow`, `ReadRanks`,
`LockRow`, `CommitScore`). `lock` holds the leaderboard rows written and not
committed; the rows `_recalculate_ranks` changes are locked in the order of their
keys, but the user's own row is locked before, so two workers may wait for each
other, and `Victim` is PostgreSQL's answer. `PointsConflict`, `BadgeConflict` and
`RowConflict` are the unique constraints. Each of these and `Fail` ends in
`Rollback`, and the handler swallows the exception: the event does not come
again. A fact has an event type. `Checked` are those whose handler looks at the
badges: that of created tasks (`event_handlers.py:138-147`) goes from the points to
the leaderboard at once, so a badge that asks for `task.created`, which the badge
form offers (`BadgeBuilder.tsx:35`), is never awarded. A badge asks for a type
(`Wants`) or for none, and then counts the records of the type that triggered the look
(`Suited`, `Counted`). Levels and streaks are columns that decide nothing: the
docstring of `_evaluate_criteria` (`badge_service.py:180-181`) allows `min_level` and
`min_streak` as criteria, and the code below it reads neither, so a badge with them is
in the model what it is in the code, a badge without. The administration of badges
and the analytics are CRUD, and `refresh_all_time_leaderboard` has no caller.

## 4. Runs

| Run | Instance | What it shows |
|---|---|---|
| `stream` | 2 fair loops, 1 reprocess request, 3 events (wanted, filtered, unparsable), batches of 2, 2 attempts, 1 fault | no message is held by two loops or processed again after its outcome; none disappears; dead letters are justified; the loops implement `EventDelivery`; every entry is settled and acknowledged as long as nothing fails but the start of a loop, else it is settled or stranded, never stuck in a loop |
| `approvals` | 2 sessions, 1 request on an entity with a run, a flow of up to 2 steps being edited, the run managed by its API | the audit trail explains how far a request got and what approved it; a run that nobody managed ends only by a decision |
| `install_plan` | every registry of 4 modules with up to 6 dependencies (self-dependencies, cycles, repeated entries and an unregistered module included) | search and sort answer what `InstallPlan` promises; plans are complete and ordered; all plans of a registry share an order |
| `tenant_modules` | 2 workers, 3 requests, modules 1, 2 on 1, 3 on 1 and 2, module 1 with a table with a `tenant_id` and one that hangs on it by a foreign key, 2 rows | what is deleted was in an export or written after its table was read; no deadlock |
| `tenant_leftovers` | 1 worker, 1 module with a table that its `get_models()` leaves out | **violated**: the module is uninstalled and its row is still there |
| `token` | 2 requests, 2 background refreshes | one refresh at a time, bounded sending, watched tokens, every request settles |
| `token_logout` | 1 request | **violated**: a refresh that outlives a logout logs in again |
| `agent_run` | the task, the job, 2 requests, 7 plans of up to 3 steps, 4 step rows, 2 faults (a worker that dies, an aborted transaction) | a capability is invoked again only for each time its record was lost, or when decisions overlap; a completed run went through its plan; a waiting run has its step at `current_step`; every run ends or is abandoned |
| `agent_confirm` | 1 request | **violated**: a run completes although the step the user confirmed was never invoked |
| `file_store` | 2 uploads of 2 bytes, 1 revision, 1 sweep, 2 names, one scope with a quota of 3 and thresholds 1 and 2, 1 fault | current files and their versions have their content; purges respect the retention period; quotas are exceeded only by what overlapped; warnings are sent; versions are numbered; a failure leaves at most one object behind that nobody knows of |
| `file_content` | 2 uploads, 1 sweep, no fault | **violated**: a file loses its content to another one of the same name and month |
| `awards` | 2 workers, 2 users, 3 facts (2 completions, one delivered twice, and a created task), 3 badges (for any type, for completions, for creations), 1 fault | facts count once, totals are sums, badges and leaderboard follow, unless the histories name the race or the error; no badge for created tasks; every handler ends |

The violated runs are findings; `PROJECT.json` quotes the line of the repository
each one contradicts. In short:

- `modules/uninstall_service.py:164`: a hard uninstall, documented to delete all
  module data, deletes from the tables of `get_models()` with a `tenant_id` only, and
  the export reads no others; `TasksCoreModule` names none, `AutomationModule` leaves
  out its agent runs.
- `authStore.ts:100`: nothing calls `/auth/logout`, nor cancels the timer or a
  refresh in flight, which then restores the session.
- `agent_executor.py:287`: `execute_plan` passes over confirmed steps, so the
  execution a confirmation resumes skips what was confirmed.
- `files/service.py:225`: a storage path is made of the month and the name, so
  two files share it, and the removal of one takes the content of the other.

Three more are in the models and break no property, because the repository
promises nothing they contradict; `PROJECT.json` lists them as hazards: an XACK
that fails shares a `try` with the callback and dead-letters a handled event
(`consumer.py:146`; `DeadLetterJustified` allows it), a cancellation overwrites a
decision (`approvals/service.py:450`), and a disable and the enable of a
dependent pass each other's check (`tenant_modules/service.py:252`). Others appear in
the properties as the case they except: the file whose upload could not read its row
back has lost its content (`ContentKept`), a run written through `/flow-runs` follows
no decision (`RunFollowsDecision`), a login that has not heard from `/auth/me` has a
token and no timer (`TokenWatched`), a worker that could not create its group has no
loop (`EventuallySettled`).

Each property of a passing run has a mutant: a plausible bug of the mapped
definition which that run finds.

### Bounds

- Loops, sessions, workers: two of each show every race between two actors. The
  third worker of the deployment adds none of a new kind, and the theorems hold
  for any number. Two requests of a tab let one wait for the refresh
  of the other; that three or more keep the safety properties is proved, and a queue of
  two is settled by the same loop over it as a queue of one. Two background refreshes
  let one end after the other.
- `BatchSize` 2 and `MaxStream` 3 give a batch with a rest behind the current
  message and a second batch; `MaxAttempts` 2 gives an attempt that is not the
  last one. `MaxStream` 3 leaves room for a reprocessed copy when one of the
  three events has not been published.
- `MaxFaults` bounds errors and terminations together. One failure
  meets every step of everybody else; the safety theorems hold for any number. With one
  fault `stream` has a loop that never started next to one that did, not two of them:
  that a group without any loop serves nobody needs no check. `agent_run` has two, so
  that an aborted transaction can follow a crash or another one.
- `MaxOrder` 2 is a flow with a first and a last step, with two rows so that it
  can be replaced while a request is at either.
- `MaxRequests` 3: an uninstall is three requests (uninstall request, export,
  hard uninstall) and the start states let it begin half-way, so that one more
  request overlaps; the deadlock mutant needs two installs.
- `MaxRow` 2: one row in each of two tables, before, while or after an export reads
  them.
- `agent_run`: the seven plans have a step of each kind (one that asks, one that does
  not) alone, in front of and behind the other, and three steps where something is
  left to do after a confirmation, another question among it. Four rows leave room for
  a second plan.
- `file_store`: two names and two numbers let files and versions share a path or
  not; a sweep meets every writer at each of its steps. The first upload crosses two
  thresholds at once, and with a quota of 3 only one of two fits unless they overlap.
  One scope suffices, as no step relates two: the tenant and the user are read and
  checked by separate steps, in any order. `MCApart` explores overlapping uploads and
  the revision apart: it stops where both are under way, and keeps the run within its
  time. What it cuts off is covered by the theorems, which know no such bound and no
  bound on uploads, revisions, sweeps or faults.
- `awards`: two users suffice for a circle of row locks, three facts for one user
  to overtake the other; the second delivery of a fact meets the first one at
  every step. One of the facts is a created task, and one badge asks for those.
- Six edges among four modules are all acyclic registries of that size (a
  diamond with its diagonal among them) and many cyclic ones. In lists with a
  repeated entry at most five dependencies differ.

Deadlock checking is off in all runs: each model reaches states in which
nothing is left to do within its bounds (all events published, all requests
settled, no admin request left). Waiting in a circle is a property, `NoDeadlock`.
Symmetry is used on sessions, workers, uploads and file names, which differ in
nothing but their names, and never in the runs that check liveness.

### Fairness

- `StreamConsumer!FairSpec`: weak fairness of each loop's own steps, where the start
  of a loop may also be its failure. The asyncio event loop runs every task that is
  ready; callbacks, sleeps and socket reads end. A worker process that died is started
  again, by uvicorn's supervisor (`--workers 3`) or with the container
  (`restart: unless-stopped` in the compose file), and its lifespan subscribes, or
  fails to and goes on. No fairness makes an `unstarted` loop run: `EventuallySettled`
  and `SettledOrStranded` promise something only while some worker has its loop. No
  fairness for publishing, reprocessing, faults. A callback that never returns would
  block its loop; nothing in the code prevents that.
- `AgentRun!FairSpec`: weak fairness of the task, of what a session goes on to do
  by itself, and of the timeout job, which the scheduler starts every hour and
  which finds a waiting run once 48 hours have passed. None for users.
- `Awards!FairSpec`: weak fairness of each worker's steps and of the end of a
  deadlock, which PostgreSQL detects after a second. None for events and errors.
- `TokenRefresh!FairSpec`: weak fairness of the answer to each request and of the
  end of each refresh: axios ends both after 30 seconds. None for the user, the
  timer, other tabs and reloads.
- `Approvals`, `TenantModules` and `FileStore` promise nothing about liveness: a client may
  go away at any time. `Resolver` is one call of a function; that its recursion
  ends follows from `RecursionIsBounded`.

## 5. Proofs

The proof modules hold for every value of the constants that satisfies the
assumptions named in the component's module, which every run evaluates: for any
number of loops, sessions, requests, tenants, modules and workers, and any bound.

**`StreamConsumerProofs`.** `TypeCorrect`, `NothingLost`, `Exclusive`,
`DeadLetters`, and `Implements`: `Spec => ImplementsDelivery`. None of the
properties is inductive. `IInv` adds what a loop's location tells about its
batch: `Batches` (a batch is an interval of delivered ids), `Apart` (batches of
two loops do not overlap), `RestUntouched` (the messages behind the current one
are pending and have no outcome), `Current` (what each `pc` says of the current
message), `Undelivered` (nothing happened to what lies beyond the cursor),
`Copies` and `Targets` (a dead letter is in the failed stream or was appended
again; a reprocess request deletes only what it appended). `OwnStep` is the
common argument: a step of one loop touches only the message it is at, so that
the rest of `IInv` is kept, and one lemma per action supplies its premises. The
refinement maps every step to `Append`, `Take`, `Settle`, `Acknowledge` or a
stutter of `EventDelivery`.

**`ApprovalsProofs`.** `TypeCorrect`, `AuditTrail`, `Covered`,
`RunsEndByDecision`. What a session commits depends on a row it read steps ago;
`Informed` says why that is harmless: the steps before the current one *as it
was read* are approved, and no action is ever removed. `ManageRun` only takes
runs away from what `RunsEndByDecision` speaks of; a run comes back to it with the
decision that writes it (`EndRun`).

**`TokenRefreshProofs`.** `TypeCorrect`, `OneOwner`, `Watched`, `Bounded`.
`RefreshOwner` and `TokenWatched` are inductive with the types; the two steps after
which nothing looks after the token, `LoginAnswered` and `Reload`, are the ones that set
`bare`, and every refresh, sync or completed login clears it with a timer. `SendsBounded`
needs `Counted`, which counts only the requests whose refresh has *ended*: a
request that refreshes has the retry flag already and is sent once more only later.

**`TenantModulesProofs`.**

- `TypeCorrect`, with `Writing`: a request that is about to write a row of its
  plan has one left.
- `ExportBeforeWipe`: `Spec => []WipedWasExported`, whatever tables the modules
  have, whichever of them `get_models()` returns, and with exports that read one table
  after another. The invariant is `Filed` (an exported row, committed or not, has a
  file, and so has a request that deletes) and `Covered` (a row of a table that
  `get_models()` returns is in each file of its module or younger than the file's look
  at that table; the same holds of a file that is being built, for the tables it has
  read). It says that even overlapping hard uninstalls, exports and reactivations never
  delete something that was there at the export and is not in the file. It needs one
  fact of the modules, `TableAssumption`: a foreign key that cascades stays within what
  `get_models()` returns, as those of the registered modules do. What a module keeps
  beyond `get_models()` is neither exported nor deleted: `tenant_leftovers`.
- `RequestsNeverDeadlock`: `Spec => []NoDeadlock`, for every registry. The
  invariant `Held` says what a request may hold: a row it is about to commit, or
  rows that come before the rest of its plan. In a circle of waiting requests every
  holder would be an install, and the one whose current module comes last in the
  common order of all plans could wait for no other. That there is such an order
  is the lemma `PlansInOneOrder` of `ResolverProofs`; the module instantiates those
  proofs and first shows that the two copies of `InstallPlan` agree.

**`ResolverProofs`.** `TypeCorrect`, `AnswersMeetPromise`, `PlansAreSound`,
`PlansShareOneOrder`, `RecursionIsBounded`, for every set of registries over any
finite set of modules. The first part is about `InstallPlan` alone. `Closure(m)` is
the least set with `m` that is never without what its modules depend on; where
every module of a finite set depends on another of it there is a cycle (`NoSink`: the
module that needs least is needed by what it depends on); so a set without a cycle
has an order (`OrderExists`), and only one (`StartsAgree`). `PartsFollow` is the
reason that plans agree: a subset without loose ends takes its modules in the order
of the whole, since the first that it took too late, and the one that it took
instead, could each have been taken where the other was. The second part is the
invariant of the code. For the search: what a call has looked at is being resolved
or reaches no cycle (`SeenI`), an inner call is needed by a dependency of each outer
one (`ChainI`), so that meeting a visited module means a cycle, and what the plan lacks
is still to be looked at (`FoundI`). For the sort (`SortI`): the result is a start of
the order, and the queue is what may come next. `Finish` then has the whole order, so
the check of the lengths never fires: `UnresolvableConflictError`, which
`resolve_install_plan` documents, cannot occur.

**`FileStoreProofs`.** `TypeCorrect`, `ContentIsKept`, `SweepsSpareTheRest`,
`QuotasHold`, `NumbersHold`, `ThresholdsWarn`, `OrphansAreFew`. The content of a path is known as long as one request alone wrote
there; the invariant says where each request is with its object (`Sound`: unless it
could not read its row back), and that a sweep
which has a file in hand, or listed, either finds it deleted and expired or the
file is in `crossed`. `QuotasHold` rests on a counting argument: the files that
passed the check, and the uploads past it without a row, exceed the quota by no more
bytes than the other uploads that were past their check at once; `Bytes` makes their
sum a cardinality. `NumberedI`: a
revision of a file whose numbers never raced is the only one and has a number above
all recorded ones until it is recorded, and then the latest, which the row of the
file carries otherwise. `WarnedI`: in a scope with
one upload at a time, the upload in flight has read no less than the usage, and each
threshold up to it has its warning or a higher one, or the upload that owes it; one
that crosses two owes the higher. `OwnerI`: each object has a version, a file or a
request that answers for it, but for as many as there were faults, and a file in the
hands of a sweep answers only for the paths the sweep has yet to delete. Each action
is shown to add no orphan or one orphan and one fault.

**`AwardsProofs`.** `TypeCorrect`, `AwardedAtMostOnce`, `PointsAreKept`,
`BadgesAreAwarded`, `ScoresAreShown`. `Base` says what a worker holds at each
place and which rows may be locked; on top of it four invariants say what the
workers under way owe to one property each. `OnceI`: two workers that record a
fact have marked it, and so has one that records a recorded fact. `PointsI`: a
total that was read is not above what was earned, and it is the total still
unless the user is in `raced`. `BadgesI`: a badge whose criteria the records of a
checked type meet is awarded or in the hands of a worker, because the worker whose fact
met them last looks at the badges after its commit; and what a worker has in hand, or
a user has, such records have earned (`LookI`). `ScoresI`: the leaderboard shows the points
or a worker is about to bring them there, and the row is as the one worker at it
has read it, whoever rewrites its rank meanwhile. Each action leaves three of the
four alone, which the `...Quiet` lemmas say once.

**`AgentRunProofs`.** `TypeCorrect`, `CapabilitiesRunOnce`, `ReplansAreRefused`,
`CompletedRunsAreDone`, `WaitingRunsHaveTheirStep`, for any number of requests,
rows and faults and any set of plans. The properties speak of what a session
commits, which it read and changed many steps before. `Calm`, which holds until
two decisions overlap, says why that is harmless: one session at most works on
the run (`Alone`), since requests that decide are let in by a status that its
first commit takes away; the rows it loaded are there and say what it read of them
where it did not change them (`Loaded`); the steps it passed are done
(`Executing`), and the status it is about to commit is borne out by them
(`Committing`). Nobody works on a run that completed or failed (`OverI`), so a
failed step is never met again. An invocation has left its trace in the row, in the
one session that made it, or in `lost` (`CallsI`). A run that waits has the row it
waits for at `current_step` (`AwaitI`), and a rejection keeps it there until its commit
(`BlockI`): that is the row every new plan collides with (`ReplansAreRefused`). A cancellation is no decision: it may come at any time, and touches the
status only.

Every invariant of a passing run is a theorem, and so is the refinement. Only
model-checked:

- liveness (`EventuallySettled`, `SettledOrStranded`, `EveryRequestSettles`,
  `EndsOrAbandoned`, `HandlersEnd`), as fairness is outside this prover's reach;
- the violated properties, of course, which TLC refutes.

## 6. Not modelled

`PROJECT.json` gives each component left out and why. The main reasons: its
logic sits in packages that are not in the repository (repositories,
authentication, business modules); it is I/O or conversion (import and
export, channels, webhooks, reporting); it is CRUD without a protocol; or it has
no caller (`TriggerHandler`, the rule scheduler, `claim_pending_messages`, the
legacy approval router). Most of the lines of the repository are of these kinds:
the frontend's pages and translations, schemas, routers. The indexer under
several workers, the life of a consumer and the timers of `core/async_tasks` are
the open steps of the plan.

Abstractions that matter when reading the results:

- Time: no clock; a timeout or a timer is an action that may happen whenever it is
  set. That a refresh token or a grace period expires in *n* days is not modelled.
- PostgreSQL: READ COMMITTED, row locks at the first write, unique constraints.
  PostgreSQL's own deadlock detection would abort a transaction; `NoDeadlock`
  shows that it never has to for the rows of `tenant_modules`. The rows of
  `role_permissions` and of the modules' tables are not part of that statement.
  Where the code can deadlock, on the leaderboard, the abort is an action.
- Alembic runs in a process of its own; that it changes nothing is read off the
  migrations of this repository, not modelled.
- Redis keeps what it acknowledged: the loss of a Redis server is not modelled.

## 7. Running the checks

`tlc -workers 2 -config <cfg> <module>` for a run, with the module and cfg of
`PROJECT.json`; the longest, `install_plan`, `stream`, `file_store`, `agent_run` and
`awards`, take one to two minutes each. `tlapm <module>Proofs.tla` for the
proofs, the longest of which (`FileStoreProofs`, `AwardsProofs`) take a few
minutes.
