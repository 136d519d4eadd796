------------------------------ MODULE AgentRun ------------------------------
(***************************************************************************)
(* One run of the AI agent (core/automation/ai): a background task plans   *)
(* it and executes the plan up to the first step that asks for a           *)
(* confirmation, confirm requests carry on from there, reject requests ask *)
(* for a new plan, users and the hourly timeout job cancel it.             *)
(*                                                                         *)
(* Every request, the task and the job work in a database session of their *)
(* own.  A session keeps the rows it loaded until it commits, and a commit *)
(* writes only what differs from what was loaded (autoflush is off, nothing*)
(* is locked).  A capability gets the session of its caller and may commit *)
(* it, which makes the caller read its rows again.                         *)
(***************************************************************************)
EXTENDS Integers, Sequences

CONSTANTS
  Requests,   \* confirm, reject and cancel requests that can be open at once
  Task,       \* the background task started with the run
  Job,        \* the timeout job
  MaxRows,    \* plan step rows that can be inserted
  Plans,      \* the plans the model may give: for each step, whether it asks
  MaxFaults   \* workers that die in a session, transactions that a capability breaks

ASSUME SessionsAssumption == Task # Job /\ Task \notin Requests /\ Job \notin Requests
ASSUME BoundsAssumption == MaxRows \in Nat /\ MaxFaults \in Nat
ASSUME PlansAssumption == Plans \subseteq Seq(BOOLEAN) \ {<<>>}

Sessions == Requests \cup {Task, Job}
Rows == 1 .. MaxRows

Terminal == {"completed", "cancelled", "failed"}
RunStatus == Terminal \cup {"planning", "awaiting_confirmation", "executing"}
StepStatus == {"pending", "awaiting", "confirmed", "rejected", "completed", "failed"}

VARIABLES
  run,       \* the run's row: status, current_step
  step,      \* the plan step rows: step_index, whether it asks, status
  inserted,  \* rows 1 .. inserted have been used
  session,   \* what each session holds
  calls,     \* how often the capability of a row was invoked
  lost,      \* how often the record of such an invocation was lost
  overlap,   \* two requests that decide were open at the same time
  faults     \* workers that died, transactions that broke

vars == <<run, step, inserted, session, calls, lost, overlap, faults>>

\* A session: where it is; the run's status as loaded and as it stands
\* ("expired": not loaded since a commit); current_step as it stands and
\* whether it changed; the step statuses as they stand, the ones that
\* changed, the steps execute_plan still has to visit, and whether an error of
\* the database left the transaction unusable.
Closed == [pc |-> "closed", seen |-> "expired", status |-> "expired", current |-> 0,
           moved |-> FALSE, view |-> [r \in Rows |-> "expired"], dirty |-> {}, todo |-> {},
           aborted |-> FALSE]

Present == {r \in Rows : step[r].status \in StepStatus}

\* start_agent_run: the run is committed and the task is scheduled.
Init ==
  /\ run = [status |-> "planning", current |-> 0]
  /\ step = [r \in Rows |-> [index |-> 0, asks |-> FALSE, status |-> "unused"]]
  /\ inserted = 0
  /\ session = [s \in Sessions |-> [Closed EXCEPT !.pc = IF s = Task THEN "queued" ELSE "closed"]]
  /\ calls = [r \in Rows |-> 0]
  /\ lost = [r \in Rows |-> 0]
  /\ overlap = FALSE
  /\ faults = 0

-----------------------------------------------------------------------------
(* What a session does with its rows. *)

OpenSession(s, pc) ==
  session' = [session EXCEPT ![s] =
    [Closed EXCEPT !.pc = pc, !.seen = run.status, !.status = run.status, !.current = run.current]]

CloseSession(s) == session' = [session EXCEPT ![s] = Closed]

\* The steps that s invoked since its last commit.
Unrecorded(s) ==
  {r \in session[s].dirty \ session[s].todo : session[s].view[r] \in {"completed", "failed"}}

Lose(rows) == lost' = [r \in Rows |-> lost[r] + IF r \in rows THEN 1 ELSE 0]

\* A session that ends with a rollback.
GiveUp(s) == CloseSession(s) /\ Lose(Unrecorded(s))

\* The status of row r as session s reads it.
Status(s, r) == IF session[s].view[r] = "expired" THEN step[r].status ELSE session[s].view[r]

\* An UPDATE of a row that is gone fails the flush, and so does any statement
\* in an aborted transaction; the commit fails with it.
Flushable(s) == ~session[s].aborted /\ session[s].dirty \subseteq Present

RunFlushed(s) ==
  [run EXCEPT !.status = IF session[s].status = session[s].seen THEN @ ELSE session[s].status,
              !.current = IF session[s].moved THEN session[s].current ELSE @]

StepsFlushed(s) ==
  [r \in Rows |-> IF r \in session[s].dirty THEN [step[r] EXCEPT !.status = session[s].view[r]]
                                            ELSE step[r]]

\* Mutant: the rows of a plan are numbered one short.
MutWithPlan(rows, plan, from) ==
  [r \in Rows |->
    IF r - inserted \in DOMAIN plan
    THEN [index |-> from + (r - inserted) - 2, asks |-> plan[r - inserted], status |-> "pending"]
    ELSE rows[r]]

\* The rows of `plan`, indexed from `from`, on top of `rows`.
WithPlan(rows, plan, from) ==
  [r \in Rows |->
    IF r - inserted \in DOMAIN plan
    THEN [index |-> from + (r - inserted) - 1, asks |-> plan[r - inserted], status |-> "pending"]
    ELSE rows[r]]

\* The step of a loaded plan that confirm and reject decide on.
Decided(s) == {r \in Present : step[r].index = session[s].current /\ step[r].status = "awaiting"}

\* Loads the plan's rows and marks the one that is decided on.
LoadSteps(s, pc, status, mark) ==
  \E d \in IF Decided(s) = {} THEN {{}} ELSE {{r} : r \in Decided(s)} :
    session' = [session EXCEPT ![s] =
      [@ EXCEPT !.pc = pc, !.status = status,
                !.view = [r \in Rows |-> IF r \in d THEN mark
                                         ELSE IF r \in Present THEN step[r].status ELSE "expired"],
                !.dirty = d, !.todo = Present]]

-----------------------------------------------------------------------------
(* The background task. *)

\* A run that is over is not planned.
TaskReads ==
  /\ session[Task].pc = "queued"
  /\ \/ run.status \in Terminal /\ CloseSession(Task)
     \/ run.status \notin Terminal /\ OpenSession(Task, "plan")
  /\ UNCHANGED <<run, step, inserted, calls, lost, overlap, faults>>

\* The plan is stored and "executing" is written over whatever the run became
\* while the model was asked.
TaskPlans(plan) ==
  /\ session[Task].pc = "plan"
  /\ inserted + Len(plan) <= MaxRows
  /\ run' = [run EXCEPT !.status = "executing"]
  /\ step' = WithPlan(step, plan, 0)
  /\ inserted' = inserted + Len(plan)
  /\ session' = [session EXCEPT ![Task] =
       [@ EXCEPT !.pc = "execute", !.seen = "executing", !.status = "executing",
                 !.view = [r \in Rows |-> IF r \in DOMAIN plan THEN "pending" ELSE "expired"],
                 !.todo = DOMAIN plan]]
  /\ UNCHANGED <<calls, lost, overlap, faults>>

\* No valid plan after MAX_PLAN_RETRIES attempts, or no provider.
TaskFails ==
  /\ session[Task].pc = "plan"
  /\ run' = [run EXCEPT !.status = "failed"]
  /\ CloseSession(Task)
  /\ UNCHANGED <<step, inserted, calls, lost, overlap, faults>>

-----------------------------------------------------------------------------
(* execute_plan, in the task and in confirm requests. *)

\* The rows that may come next: step_index orders them.
Front(s) == {r \in session[s].todo : \A q \in session[s].todo : step[r].index <= step[q].index}

\* What was loaded is at hand; a row that is gone cannot be read again, and an
\* aborted transaction reads nothing.
Readable(s, r) == session[s].view[r] = "expired" => r \in Present /\ ~session[s].aborted

\* The request fails, and so does the commit of "failed" by the task.
StepGone(s, r) ==
  /\ session[s].pc = "execute" /\ r \in Front(s)
  /\ ~Readable(s, r)
  /\ GiveUp(s)
  /\ UNCHANGED <<run, step, inserted, calls, overlap, faults>>

Reads(s, r) == session[s].pc = "execute" /\ r \in Front(s) /\ Readable(s, r)

\* Mutant: completed steps are not passed over.
MutPassed(s, r) == Status(s, r) = "confirmed"

\* A completed step is passed over, and so is a confirmed one.
Passed(s, r) == Status(s, r) \in {"completed", "confirmed"}

SkipStep(s, r) ==
  /\ Reads(s, r) /\ Passed(s, r)
  /\ session' = [session EXCEPT ![s].todo = @ \ {r}]
  /\ UNCHANGED <<run, step, inserted, calls, lost, overlap, faults>>

\* Mutant: current_step is not set.
MutAskStep(s, r) ==
  /\ Reads(s, r) /\ ~Passed(s, r)
  /\ step[r].asks
  /\ session' = [session EXCEPT ![s] =
       [@ EXCEPT !.pc = "commit", !.status = "awaiting_confirmation", !.view[r] = "awaiting",
                 !.dirty = IF Status(s, r) = "awaiting" THEN @ ELSE @ \cup {r}]]
  /\ UNCHANGED <<run, step, inserted, calls, lost, overlap, faults>>

\* A step that asks pauses the run: the user has to confirm or reject it.
AskStep(s, r) ==
  /\ Reads(s, r) /\ ~Passed(s, r)
  /\ step[r].asks
  /\ session' = [session EXCEPT ![s] =
       [@ EXCEPT !.pc = "commit", !.status = "awaiting_confirmation",
                 !.current = step[r].index,
                 !.moved = \/ session[s].moved \/ session[s].seen = "expired"
                           \/ step[r].index # session[s].current,
                 !.view[r] = "awaiting",
                 !.dirty = IF Status(s, r) = "awaiting" THEN session[s].dirty ELSE session[s].dirty \cup {r}]]
  /\ UNCHANGED <<run, step, inserted, calls, lost, overlap, faults>>

\* Mutant: a failed step ends the plan no more.
MutInvokeStepGoesOn(s, r, commits, aborts, fails) ==
  LET flushed == IF commits THEN [session[s] EXCEPT !.seen = "expired", !.status = "expired", !.moved = FALSE,
                                     !.view = [q \in Rows |-> "expired"], !.dirty = {}]
                            ELSE session[s]
      done == [flushed EXCEPT !.view[r] = IF fails THEN "failed" ELSE "completed", !.dirty = @ \cup {r},
                              !.todo = @ \ {r}, !.aborted = @ \/ aborts]
  IN
  /\ Reads(s, r) /\ ~Passed(s, r)
  /\ ~step[r].asks
  /\ calls' = [calls EXCEPT ![r] = @ + 1]
  /\ IF commits THEN Flushable(s) /\ run' = RunFlushed(s) /\ step' = StepsFlushed(s)
                ELSE UNCHANGED <<run, step>>
  /\ session' = [session EXCEPT ![s] =
       IF fails THEN [done EXCEPT !.status = "failed"] ELSE done]
  /\ faults + (IF aborts THEN 1 ELSE 0) <= MaxFaults
  /\ faults' = faults + IF aborts THEN 1 ELSE 0
  /\ UNCHANGED <<inserted, lost, overlap>>

\* The capability of a step that does not ask is invoked.  It may commit the
\* session; it may meet an error of the database, which aborts the transaction,
\* and swallow it or raise it; it may fail.
InvokeStep(s, r, commits, aborts, fails) ==
  LET flushed == IF commits THEN [session[s] EXCEPT !.seen = "expired", !.status = "expired", !.moved = FALSE,
                                     !.view = [q \in Rows |-> "expired"], !.dirty = {}]
                            ELSE session[s]
      done == [flushed EXCEPT !.view[r] = IF fails THEN "failed" ELSE "completed", !.dirty = @ \cup {r},
                              !.todo = @ \ {r}, !.aborted = @ \/ aborts]
  IN
  /\ Reads(s, r) /\ ~Passed(s, r)
  /\ ~step[r].asks
  /\ calls' = [calls EXCEPT ![r] = @ + 1]
  /\ IF commits THEN Flushable(s) /\ run' = RunFlushed(s) /\ step' = StepsFlushed(s)
                ELSE UNCHANGED <<run, step>>
  /\ session' = [session EXCEPT ![s] =
       IF fails THEN [done EXCEPT !.pc = "commit", !.status = "failed"] ELSE done]
  /\ faults + (IF aborts THEN 1 ELSE 0) <= MaxFaults
  /\ faults' = faults + IF aborts THEN 1 ELSE 0
  /\ UNCHANGED <<inserted, lost, overlap>>

\* The capability commits a session that cannot be flushed: neither this commit
\* nor the one at the end of the request goes through.
InvokeRefused(s, r) ==
  /\ Reads(s, r) /\ ~Passed(s, r)
  /\ ~step[r].asks /\ ~Flushable(s)
  /\ calls' = [calls EXCEPT ![r] = @ + 1]
  /\ CloseSession(s) /\ Lose(Unrecorded(s) \cup {r})
  /\ UNCHANGED <<run, step, inserted, overlap, faults>>

PlanDone(s) ==
  /\ session[s].pc = "execute" /\ session[s].todo = {}
  /\ session' = [session EXCEPT ![s].pc = "commit", ![s].status = "completed"]
  /\ UNCHANGED <<run, step, inserted, calls, lost, overlap, faults>>

\* The last commit of the task and of a confirm.  When it fails the task tries
\* to commit "failed", which fails too.
Commit(s) ==
  /\ session[s].pc = "commit"
  /\ \/ Flushable(s) /\ CloseSession(s) /\ run' = RunFlushed(s) /\ step' = StepsFlushed(s)
        /\ UNCHANGED lost
     \/ ~Flushable(s) /\ GiveUp(s) /\ UNCHANGED <<run, step>>
  /\ UNCHANGED <<inserted, calls, overlap, faults>>

-----------------------------------------------------------------------------
(* The requests and the timeout job. *)

Deciding(s) == session[s].pc \in {"confirm", "reject", "replan", "execute", "commit"}

\* confirm_step and reject_step read the run and refuse any other status.
OpenDecision(s, pc) ==
  /\ session[s].pc = "closed"
  /\ run.status = "awaiting_confirmation"
  /\ OpenSession(s, pc)
  /\ overlap' = (overlap \/ \E q \in Requests : Deciding(q))
  /\ UNCHANGED <<run, step, inserted, calls, lost, faults>>

\* The step becomes confirmed, and execute_plan starts over from the first.
Confirm(s) ==
  /\ session[s].pc = "confirm"
  /\ LoadSteps(s, "execute", "executing", "confirmed")
  /\ UNCHANGED <<run, step, inserted, calls, lost, overlap, faults>>

\* The step becomes rejected and the model is asked for a new plan.  The count
\* of replans is changed inside the dict that was loaded, so no commit writes
\* it and its limit is never met.
Reject(s) ==
  /\ session[s].pc = "reject"
  /\ LoadSteps(s, "replan", "executing", "rejected")
  /\ UNCHANGED <<run, step, inserted, calls, lost, overlap, faults>>

\* The rows that are pending or rejected in the database are deleted.  The row
\* this request decided on is not one of them: its mark is not flushed yet.
Kept == {r \in Present : step[r].status \notin {"pending", "rejected"}}

\* The unique constraint on (agent_run_id, step_index): a row that was kept
\* has an index of the new plan, which begins at current_step.
Collides(s, plan) ==
  \E r \in Kept : step[r].index \in session[s].current .. session[s].current + Len(plan) - 1

\* The new plan takes the place of what was deleted; nobody executes it.  When
\* its rows collide the commit fails and nothing of the request remains.
Replan(s, plan) ==
  LET left == [r \in Rows |-> IF r \in Present \ Kept THEN [step[r] EXCEPT !.status = "deleted"]
                              ELSE IF r \in session[s].dirty THEN [step[r] EXCEPT !.status = "rejected"]
                              ELSE step[r]]
  IN
  /\ session[s].pc = "replan"
  /\ IF Collides(s, plan) \/ ~Flushable(s)
     THEN UNCHANGED <<run, step, inserted>>
     ELSE /\ inserted + Len(plan) <= MaxRows
          /\ run' = RunFlushed(s)
          /\ step' = WithPlan(left, plan, session[s].current)
          /\ inserted' = inserted + Len(plan)
  /\ CloseSession(s)
  /\ UNCHANGED <<calls, lost, overlap, faults>>

\* No provider is configured, or the model gave no valid plan.
RequestFails(s) ==
  /\ session[s].pc \in {"confirm", "reject", "replan"}
  /\ CloseSession(s)
  /\ UNCHANGED <<run, step, inserted, calls, lost, overlap, faults>>

\* cancel_agent_run refuses a run that is over; the commit comes later.
OpenCancel(s) ==
  /\ session[s].pc = "closed"
  /\ run.status \notin Terminal
  /\ OpenSession(s, "cancel")
  /\ UNCHANGED <<run, step, inserted, calls, lost, overlap, faults>>

\* Mutant: the job looks for the runs that are executing.
MutOpenTimeout ==
  /\ session[Job].pc = "closed"
  /\ run.status = "executing"
  /\ OpenSession(Job, "cancel")
  /\ UNCHANGED <<run, step, inserted, calls, lost, overlap, faults>>

\* AgentTimeoutJob.run selects the runs that wait and were started over 48
\* hours ago, which may be so at any time.
OpenTimeout ==
  /\ session[Job].pc = "closed"
  /\ run.status = "awaiting_confirmation"
  /\ OpenSession(Job, "cancel")
  /\ UNCHANGED <<run, step, inserted, calls, lost, overlap, faults>>

Cancel(s) ==
  /\ session[s].pc = "cancel"
  /\ run' = [run EXCEPT !.status = "cancelled"]
  /\ CloseSession(s)
  /\ UNCHANGED <<step, inserted, calls, lost, overlap, faults>>

\* A worker dies: its transaction is rolled back, its task is forgotten.
Crash(s) ==
  /\ session[s].pc # "closed" /\ faults < MaxFaults
  /\ faults' = faults + 1
  /\ GiveUp(s)
  /\ UNCHANGED <<run, step, inserted, calls, overlap>>

-----------------------------------------------------------------------------
\* What a session goes on to do by itself.
Work(s) ==
  \/ \E r \in Rows :
       \/ StepGone(s, r) \/ SkipStep(s, r) \/ AskStep(s, r) \/ InvokeRefused(s, r)
       \/ \E commits, aborts, fails \in BOOLEAN : InvokeStep(s, r, commits, aborts, fails)
  \/ PlanDone(s) \/ Commit(s) \/ Confirm(s) \/ Reject(s) \/ Cancel(s) \/ RequestFails(s)
  \/ \E plan \in Plans : Replan(s, plan)

TaskPlanning == TaskReads \/ TaskFails \/ \E plan \in Plans : TaskPlans(plan)

Next ==
  \/ TaskPlanning \/ OpenTimeout
  \/ \E s \in Sessions : Work(s) \/ Crash(s)
  \/ \E s \in Requests : OpenDecision(s, "confirm") \/ OpenDecision(s, "reject") \/ OpenCancel(s)

Spec == Init /\ [][Next]_vars

\* Time passes, the job runs every hour, and what is under way goes on.
FairSpec ==
  /\ Spec
  /\ WF_vars(TaskPlanning) /\ WF_vars(OpenTimeout)
  /\ \A s \in Sessions : WF_vars(Work(s))

-----------------------------------------------------------------------------
TypeOK ==
  /\ run \in [status : RunStatus, current : Nat]
  /\ step \in [Rows -> [index : Nat, asks : BOOLEAN, status : StepStatus \cup {"unused", "deleted"}]]
  /\ inserted \in 0 .. MaxRows
  /\ session \in [Sessions ->
       [pc : {"closed", "queued", "plan", "execute", "commit", "confirm", "reject", "replan", "cancel"},
        seen : RunStatus \cup {"expired"}, status : RunStatus \cup {"expired"}, current : Nat,
        moved : BOOLEAN, view : [Rows -> StepStatus \cup {"expired"}],
        dirty : SUBSET Rows, todo : SUBSET Rows, aborted : BOOLEAN]]
  /\ calls \in [Rows -> Nat]
  /\ lost \in [Rows -> Nat]
  /\ overlap \in BOOLEAN
  /\ faults \in 0 .. MaxFaults

\* execute_plan passes over the steps that were completed, so, unless two
\* decisions overlapped, a capability is invoked again only after the record of
\* its last invocation was lost, with a worker that died or a commit that
\* failed, and once for each time it was lost.
CalledOnce ==
  overlap \/ \A r \in Rows : calls[r] <= 1 + lost[r]

\* Unless decisions overlapped, a completed run went through its whole plan:
\* what did not ask was invoked, what asked was confirmed.
CompletedRunDone ==
  run.status = "completed" /\ ~overlap =>
    \A r \in Present :
      IF step[r].asks THEN step[r].status = "confirmed"
                      ELSE step[r].status = "completed" /\ calls[r] > 0

\* Unless decisions overlapped, a run that awaits a confirmation has the step
\* to confirm at current_step, where confirm and reject look for it.
AwaitingHasStep ==
  run.status = "awaiting_confirmation" /\ ~overlap =>
    \E r \in Present : step[r].index = run.current /\ step[r].status = "awaiting"

\* A run whose status says that it is worked on while no session does, because
\* the one that did died or could not commit.
Abandoned ==
  /\ run.status \in {"planning", "executing"}
  /\ \A s \in Sessions : session[s].pc = "closed"
  /\ faults > 0

\* A run comes to an end, or is abandoned after a fault: a rejection, whose new
\* plan the database refuses, leaves the run waiting, and the job ends the runs
\* that wait.
EndsOrAbandoned == <>[](run.status \in Terminal \/ Abandoned)

\* "Confirmed - resuming agent...": once the run is completed, every step of
\* its plan was invoked, the confirmed ones too.
ConfirmedStepsInvoked ==
  run.status = "completed" => \A r \in Present : calls[r] > 0
=============================================================================
