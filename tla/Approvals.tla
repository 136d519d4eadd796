------------------------------ MODULE Approvals ------------------------------
(***************************************************************************)
(* Approval requests on one approval flow (backend/app/core/approvals and  *)
(* api/v1/approvals.py).  The operations run in the sessions of several    *)
(* uvicorn workers against one PostgreSQL database at READ COMMITTED: an   *)
(* operation first reads rows, then decides on what it read, then commits  *)
(* the columns it changed; nothing locks or re-reads the rows in between.  *)
(* Every such read and every commit is one step, and a session may end     *)
(* after any of them, with an error or with its worker.                    *)
(***************************************************************************)
EXTENDS Naturals

CONSTANTS
  Sessions,   (* database sessions, one for each HTTP request in progress    *)
  Requests,   (* approval requests that may be created                       *)
  Entities,   (* business entities approval is asked for                     *)
  EntityOf,   (* the entity of a request                                     *)
  None,       (* no request                                                 *)
  Rows,       (* rows of approval_steps the flow can have at a time          *)
  MaxOrder    (* bound: step_order of a step                                 *)

ASSUME ApprovalsAssumption ==
  /\ EntityOf \in [Requests -> Entities]
  /\ None \notin Requests
  /\ MaxOrder \in Nat \ {0}

VARIABLES
  stepOrder,  (* step_order of each row of the flow, 0 where there is none   *)
  deleted,    (* the flow's deleted_at is set                                *)
  request,    (* the request rows                                            *)
  actions,    (* the approval_actions rows                                   *)
  run,        (* status of the flow run created for a request, none without  *)
  \* a session
  pc,         (* what the session does next                                  *)
  target,     (* the request it works on                                     *)
  seen,       (* that row as the session read it                             *)
  lastStep,   (* max_step as the session read it                             *)
  todo,       (* step orders update_flow_steps still has to add              *)
  \* history
  managed,    (* requests whose run was last written through /flow-runs      *)
  required    (* max_step the session that approved a request had read       *)

flow == <<stepOrder, deleted>>
session == <<pc, target, seen, lastStep, todo>>
vars == <<flow, request, actions, run, managed, session, required>>

Orders == 1 .. MaxOrder
Decisions == {"approved", "rejected", "cancelled"}
Statuses == {"absent", "pending"} \cup Decisions

Exists(r) == request[r].status # "absent"
Pending(r) == request[r].status = "pending"
Used == {stepOrder[w] : w \in Rows} \ {0}

Goto(s, label) == pc' = [pc EXCEPT ![s] = label]

NoRow == [status |-> "absent", current |-> 1]

\* The session is closed and what it had read is gone.
Done(s) ==
  /\ Goto(s, "idle")
  /\ target' = [target EXCEPT ![s] = None]
  /\ seen' = [seen EXCEPT ![s] = NoRow]
  /\ lastStep' = [lastStep EXCEPT ![s] = 1]
  /\ todo' = [todo EXCEPT ![s] = {}]

Init ==
  /\ stepOrder = [w \in Rows |-> 0]
  /\ deleted = FALSE
  /\ request = [r \in Requests |-> NoRow]
  /\ actions = {}
  /\ run = [r \in Requests |-> "none"]
  /\ pc = [s \in Sessions |-> "idle"]
  /\ target = [s \in Sessions |-> None]
  /\ seen = [s \in Sessions |-> NoRow]
  /\ lastStep = [s \in Sessions |-> 1]
  /\ todo = [s \in Sessions |-> {}]
  /\ managed = {}
  /\ required = [r \in Requests |-> 0]

-----------------------------------------------------------------------------
\* create_approval_request: the row is committed; whether the flow exists or
\* is deleted is not looked at.
Insert(s, r) ==
  /\ ~Exists(r)
  /\ request' = [request EXCEPT ![r] = [status |-> "pending", current |-> 1]]
  /\ target' = [target EXCEPT ![s] = r]
  /\ Goto(s, "createRun")
  /\ UNCHANGED <<flow, actions, run, managed, seen, lastStep, todo, required>>

CreateRequest(s, r) == pc[s] = "idle" /\ Insert(s, r)

\* Then the flow run is created; an error there is logged and ignored.
CreateRun(s) ==
  /\ pc[s] = "createRun"
  /\ run' \in {run, [run EXCEPT ![target[s]] = "pending"]}
  /\ Done(s)
  /\ UNCHANGED <<flow, request, actions, managed, required>>

\* get_or_create_request_by_entity finds no pending request of the entity ...
FindNone(s, r) ==
  /\ pc[s] = "idle"
  /\ ~\E q \in Requests : EntityOf[q] = EntityOf[r] /\ Pending(q)
  /\ target' = [target EXCEPT ![s] = r]
  /\ Goto(s, "create")
  /\ UNCHANGED <<flow, request, actions, run, managed, seen, lastStep, todo, required>>

\* ... and creates one.
CreateByEntity(s) ==
  /\ pc[s] = "create"
  /\ \E r \in Requests : EntityOf[r] = EntityOf[target[s]] /\ Insert(s, r)

-----------------------------------------------------------------------------
\* get_approval_request at the start of approve, reject and cancel.
ReadRequest(s, r, label) ==
  /\ pc[s] = "idle"
  /\ Exists(r)
  /\ target' = [target EXCEPT ![s] = r]
  /\ seen' = [seen EXCEPT ![s] = request[r]]
  /\ Goto(s, label)
  /\ UNCHANGED <<flow, request, actions, run, managed, lastStep, todo, required>>

StartApprove(s, r) == ReadRequest(s, r, "readSteps")
StartReject(s, r) == ReadRequest(s, r, "reject")
StartCancel(s, r) == Pending(r) /\ ReadRequest(s, r, "cancel")

\* max((s.step_order for s in steps), default=1)
ReadSteps(s) ==
  /\ pc[s] = "readSteps"
  /\ \E m \in {1} \cup Used :
       /\ \A o \in Used : o <= m
       /\ lastStep' = [lastStep EXCEPT ![s] = m]
  /\ Goto(s, "approve")
  /\ UNCHANGED <<flow, request, actions, run, managed, target, seen, todo, required>>

\* The action row is committed together with the request.
Record(s, type) ==
  actions' = actions \cup {[request |-> target[s], type |-> type,
                            step |-> seen[s].current]}

\* The UPDATE sets the status only if it differs from the one that was read.
SetStatus(s, status) ==
  request' = IF seen[s].status = status THEN request
             ELSE [request EXCEPT ![target[s]].status = status]

\* The flow run of the request's entity; with several requests on the entity
\* get_flow_run_by_entity may return the run of any of them, or one that was
\* created through /flow-runs.  Errors are logged and ignored.
EndRun(s, status) ==
  \/ UNCHANGED <<run, managed>>
  \/ \E q \in Requests : /\ EntityOf[q] = EntityOf[target[s]]
                         /\ run[q] # "none"
                         /\ run' = [run EXCEPT ![q] = status]
                         /\ managed' = managed \ {q}

\* Mutant of ApproveStep: the step is counted up in the database.
MutApproveStepCountsInDatabase(s) ==
  /\ pc[s] = "approve"
  /\ seen[s].current < lastStep[s]
  /\ Record(s, "approve")
  /\ request' = [request EXCEPT ![target[s]].current = @ + 1]
  /\ Done(s)
  /\ UNCHANGED <<flow, run, managed, required>>

\* Mutant of ApproveStep: the last step is passed as well.
MutApproveStepOvershoots(s) ==
  /\ pc[s] = "approve"
  /\ seen[s].current <= lastStep[s]
  /\ Record(s, "approve")
  /\ request' = [request EXCEPT ![target[s]].current = seen[s].current + 1]
  /\ Done(s)
  /\ UNCHANGED <<flow, run, managed, required>>

\* Mutant of ApproveStep: the run is completed with the first approval.
MutApproveStepEndsRun(s) ==
  /\ pc[s] = "approve"
  /\ seen[s].current < lastStep[s]
  /\ Record(s, "approve")
  /\ request' = [request EXCEPT ![target[s]].current = seen[s].current + 1]
  /\ EndRun(s, "completed")
  /\ Done(s)
  /\ UNCHANGED <<flow, required>>

\* approve_request before the last step: current_step, as read, plus one.
ApproveStep(s) ==
  /\ pc[s] = "approve"
  /\ seen[s].current < lastStep[s]
  /\ Record(s, "approve")
  /\ request' = [request EXCEPT ![target[s]].current = seen[s].current + 1]
  /\ Done(s)
  /\ UNCHANGED <<flow, run, managed, required>>

\* Mutant of ApproveLast: the comparison is off by one.
MutApproveLastEarly(s) ==
  /\ pc[s] = "approve"
  /\ seen[s].current + 1 >= lastStep[s]
  /\ Record(s, "approve")
  /\ SetStatus(s, "approved")
  /\ required' = [required EXCEPT ![target[s]] = lastStep[s]]
  /\ EndRun(s, "completed")
  /\ Done(s)
  /\ UNCHANGED flow

\* approve_request at the last step.
ApproveLast(s) ==
  /\ pc[s] = "approve"
  /\ seen[s].current >= lastStep[s]
  /\ Record(s, "approve")
  /\ SetStatus(s, "approved")
  /\ required' = IF seen[s].status = "approved" THEN required
                 ELSE [required EXCEPT ![target[s]] = lastStep[s]]
  /\ EndRun(s, "completed")
  /\ Done(s)
  /\ UNCHANGED flow

Reject(s) ==
  /\ pc[s] = "reject"
  /\ Record(s, "reject")
  /\ SetStatus(s, "rejected")
  /\ EndRun(s, "failed")
  /\ Done(s)
  /\ UNCHANGED <<flow, required>>

\* cancel_request leaves the flow run alone.
Cancel(s) ==
  /\ pc[s] = "cancel"
  /\ Record(s, "cancel")
  /\ SetStatus(s, "cancelled")
  /\ Done(s)
  /\ UNCHANGED <<flow, run, managed, required>>

-----------------------------------------------------------------------------
\* add_approval_step
AddRow(o) ==
  /\ ~deleted
  /\ \E w \in Rows : stepOrder[w] = 0 /\ stepOrder' = [stepOrder EXCEPT ![w] = o]

AddStep(o) ==
  /\ AddRow(o)
  /\ UNCHANGED <<deleted, request, actions, run, managed, session, required>>

\* update_approval_step; a new step_order is the only change that matters here.
UpdateStep(w, o) ==
  /\ stepOrder[w] # 0
  /\ stepOrder' = [stepOrder EXCEPT ![w] = o]
  /\ UNCHANGED <<deleted, request, actions, run, managed, session, required>>

DeleteStep(w) ==
  /\ stepOrder[w] # 0
  /\ stepOrder' = [stepOrder EXCEPT ![w] = 0]
  /\ UNCHANGED <<deleted, request, actions, run, managed, session, required>>

\* PUT /flows/{flow_id}/steps: delete_all_flow_steps commits, then every step
\* of the new definition is added and committed by itself.
ReplaceSteps(s, orders) ==
  /\ pc[s] = "idle"
  /\ ~deleted
  /\ stepOrder' = [w \in Rows |-> 0]
  /\ todo' = [todo EXCEPT ![s] = orders]
  /\ Goto(s, "replace")
  /\ UNCHANGED <<deleted, request, actions, run, managed, target, seen, lastStep, required>>

ReplaceNext(s) ==
  /\ pc[s] = "replace"
  /\ \E o \in todo[s] : AddRow(o) /\ todo' = [todo EXCEPT ![s] = @ \ {o}]
  /\ UNCHANGED <<deleted, request, actions, run, managed, pc, target, seen, lastStep, required>>

ReplaceDone(s) ==
  /\ pc[s] = "replace"
  /\ todo[s] = {}
  /\ Done(s)
  /\ UNCHANGED <<flow, request, actions, run, managed, required>>

\* delete_approval_flow counts the pending requests of the flow, ...
StartDeleteFlow(s) ==
  /\ pc[s] = "idle"
  /\ ~deleted
  /\ \A r \in Requests : ~Pending(r)
  /\ Goto(s, "deleteFlow")
  /\ UNCHANGED <<flow, request, actions, run, managed, target, seen, lastStep, todo, required>>

\* ... then sets deleted_at.
DeleteFlow(s) ==
  /\ pc[s] = "deleteFlow"
  /\ deleted' = TRUE
  /\ Done(s)
  /\ UNCHANGED <<stepOrder, request, actions, run, managed, required>>

\* start, complete, fail, cancel and delete of /flow-runs/{run_id}: whoever may
\* manage flow runs ends the run of an approval as well, whatever its status and
\* whatever became of the request.  (PUT calls update_flow_run, which
\* FlowRunService does not have, and changes nothing.)
ManageRun(r) ==
  /\ run[r] # "none"
  /\ \E status \in {"running", "completed", "failed", "cancelled", "none"} :
       run' = [run EXCEPT ![r] = status]
  /\ managed' = managed \cup {r}
  /\ UNCHANGED <<flow, request, actions, session, required>>

\* The session ends early: a database error, the flow is gone when a step is
\* added, or the worker dies.
Abort(s) ==
  /\ pc[s] # "idle"
  /\ Done(s)
  /\ UNCHANGED <<flow, request, actions, run, managed, required>>

Decide(s) ==
  \/ \E r \in Requests : StartApprove(s, r) \/ StartReject(s, r) \/ StartCancel(s, r)
  \/ ReadSteps(s)
  \/ ApproveStep(s)
  \/ ApproveLast(s)
  \/ Reject(s)
  \/ Cancel(s)

Create(s) ==
  \/ \E r \in Requests : CreateRequest(s, r) \/ FindNone(s, r)
  \/ CreateByEntity(s)
  \/ CreateRun(s)

Edit(s) ==
  \/ \E orders \in SUBSET Orders : ReplaceSteps(s, orders)
  \/ ReplaceNext(s)
  \/ ReplaceDone(s)
  \/ StartDeleteFlow(s)
  \/ DeleteFlow(s)

EditStep ==
  \/ \E o \in Orders : AddStep(o)
  \/ \E w \in Rows : DeleteStep(w) \/ \E o \in Orders : UpdateStep(w, o)

Next ==
  \/ \E s \in Sessions : Decide(s) \/ Create(s) \/ Edit(s) \/ Abort(s)
  \/ EditStep
  \/ \E r \in Requests : ManageRun(r)

Spec == Init /\ [][Next]_vars
-----------------------------------------------------------------------------
Labels == {"idle", "createRun", "create", "readSteps", "approve", "reject",
           "cancel", "replace", "deleteFlow"}

RunStatuses == {"none", "pending", "running", "completed", "failed", "cancelled"}

\* Types of the variables; current_step stays within the flow's step orders.
TypeOK ==
  /\ stepOrder \in [Rows -> 0 .. MaxOrder]
  /\ deleted \in BOOLEAN
  /\ request \in [Requests -> [status : Statuses, current : Orders]]
  /\ actions \subseteq [request : Requests, type : {"approve", "reject", "cancel"},
                        step : Orders]
  /\ run \in [Requests -> RunStatuses]
  /\ managed \subseteq Requests
  /\ pc \in [Sessions -> Labels]
  /\ target \in [Sessions -> Requests \cup {None}]
  /\ seen \in [Sessions -> [status : Statuses, current : Orders]]
  /\ lastStep \in [Sessions -> Orders]
  /\ todo \in [Sessions -> SUBSET Orders]
  /\ required \in [Requests -> 0 .. MaxOrder]

ApprovedAt(r, k) == [request |-> r, type |-> "approve", step |-> k] \in actions

\* However approvals race, the audit trail explains how far a request got: each
\* step before the current one was approved.
PassedStepsApproved ==
  \A r \in Requests : \A k \in 1 .. request[r].current - 1 : ApprovedAt(r, k)

\* An approved request carries an approval of every step its final approver
\* had to go through.
ApprovalCovers ==
  \A r \in Requests : request[r].status = "approved" =>
    \A k \in 1 .. required[r] : ApprovedAt(r, k)

\* Some request of the entity went through all the steps its final approver saw.
ApprovedOnce(e) ==
  \E q \in Requests : /\ EntityOf[q] = e
                      /\ required[q] > 0
                      /\ \A k \in 1 .. required[q] : ApprovedAt(q, k)

\* Whatever sessions race, the approval operations end a flow run only in line
\* with a decision on its entity: completed once a request of the entity has an
\* approval of each of its steps, failed after a rejection.  A run that was last
\* written through /flow-runs says nothing about decisions.
RunFollowsDecision ==
  \A r \in Requests \ managed :
    /\ run[r] \in {"none", "pending", "completed", "failed"}
    /\ run[r] = "completed" => ApprovedOnce(EntityOf[r])
    /\ run[r] = "failed" =>
         \E a \in actions : a.type = "reject" /\ EntityOf[a.request] = EntityOf[r]
=============================================================================
