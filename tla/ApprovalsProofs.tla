--------------------------- MODULE ApprovalsProofs ---------------------------
(***************************************************************************)
(* What the audit trail of Approvals guarantees for every number of        *)
(* sessions, requests and steps, although no session locks what it read.   *)
(*                                                                         *)
(* The properties are not inductive: what a session commits depends on the *)
(* row it read some steps ago.  The strengthening Informed says why that   *)
(* stale row is harmless here: the steps before the current step of the    *)
(* row as it was read have been approved, and actions are never removed.   *)
(***************************************************************************)
EXTENDS Approvals, TLAPS

Deciding == {"readSteps", "approve", "reject", "cancel"}

Working(s) == pc[s] \in {"createRun"} \cup Deciding

\* What a session knows of the request it is working on.
Informed ==
  \A s \in Sessions :
    /\ Working(s) => target[s] \in Requests
    /\ \A k \in 1 .. seen[s].current - 1 : ApprovedAt(target[s], k)
    /\ pc[s] \notin Deciding => seen[s] = NoRow
    /\ seen[s].status = "approved" => required[target[s]] > 0

\* Whatever its status is now, a request that was once approved carries an
\* approval of every step its final approver saw.
Covering == \A r \in Requests : \A k \in 1 .. required[r] : ApprovedAt(r, k)

Counted == \A r \in Requests : request[r].status = "approved" => required[r] > 0

IInv ==
  /\ TypeOK
  /\ PassedStepsApproved
  /\ Covering
  /\ Counted
  /\ RunFollowsDecision
  /\ Informed

\* The facts of arithmetic the steps need.
LEMMA OrdersNat == Orders \subseteq Nat /\ 1 \in Orders /\ MaxOrder \in Nat
BY ApprovalsAssumption DEF Orders

LEMMA NoRowType == /\ NoRow \in [status : Statuses, current : Orders]
                   /\ NoRow.current = 1 /\ NoRow.status = "absent"
BY OrdersNat DEF NoRow, Statuses

\* Closing the session keeps what is known of all sessions.
LEMMA Closed ==
  ASSUME IInv, NEW s \in Sessions, Done(s), actions \subseteq actions',
         \A r \in Requests : required[r] > 0 => required'[r] > 0
  PROVE /\ Informed'
        /\ pc' \in [Sessions -> Labels]
        /\ target' \in [Sessions -> Requests \cup {None}]
        /\ seen' \in [Sessions -> [status : Statuses, current : Orders]]
        /\ lastStep' \in [Sessions -> Orders]
        /\ todo' \in [Sessions -> SUBSET Orders]
<1>1. /\ pc' \in [Sessions -> Labels]
      /\ target' \in [Sessions -> Requests \cup {None}]
      /\ seen' \in [Sessions -> [status : Statuses, current : Orders]]
      /\ lastStep' \in [Sessions -> Orders]
      /\ todo' \in [Sessions -> SUBSET Orders]
  BY OrdersNat, NoRowType DEF IInv, TypeOK, Done, Goto, Labels
<1>2. ASSUME NEW x \in Sessions
      PROVE /\ Working(x)' => target'[x] \in Requests
            /\ \A k \in 1 .. seen'[x].current - 1 : ApprovedAt(target[x], k)'
            /\ pc'[x] \notin Deciding => seen'[x] = NoRow
            /\ seen'[x].status = "approved" => required'[target'[x]] > 0
  <2>1. CASE x = s
    BY <2>1, NoRowType DEF IInv, TypeOK, Done, Goto, Working, Deciding
  <2>2. CASE x # s
    <3>1. pc'[x] = pc[x] /\ target'[x] = target[x] /\ seen'[x] = seen[x]
      BY <2>2 DEF IInv, TypeOK, Done, Goto
    <3>2. Working(x)' => target'[x] \in Requests
      BY <3>1 DEF IInv, Informed, Working
    <3>3. \A k \in 1 .. seen'[x].current - 1 : ApprovedAt(target[x], k)'
      BY <3>1 DEF IInv, Informed, ApprovedAt
    <3>4. pc'[x] \notin Deciding => seen'[x] = NoRow
      BY <3>1 DEF IInv, Informed
    <3>5. seen'[x].status = "approved" => required'[target'[x]] > 0
      BY <3>1, NoRowType DEF IInv, Informed, Working
    <3>6. QED BY <3>2, <3>3, <3>4, <3>5
  <2>3. QED BY <2>1, <2>2
<1>3. QED BY <1>1, <1>2 DEF Informed

\* A session that moves on with the request and row it has, or with a row that
\* is read from the database now, stays informed.
LEMMA Moved ==
  ASSUME IInv, NEW s \in Sessions, NEW label \in Labels, Goto(s, label),
         UNCHANGED <<actions, required>>,
         \A x \in Sessions : x # s => target'[x] = target[x] /\ seen'[x] = seen[x],
         label \in {"createRun"} \cup Deciding => target'[s] \in Requests,
         label \notin Deciding => seen'[s] = NoRow,
         \A k \in 1 .. seen'[s].current - 1 : ApprovedAt(target'[s], k),
         seen'[s].status = "approved" => required[target'[s]] > 0
  PROVE Informed' /\ pc' \in [Sessions -> Labels]
<1>1. /\ pc' \in [Sessions -> Labels] /\ pc'[s] = label
      /\ \A x \in Sessions : x # s => pc'[x] = pc[x]
  BY DEF IInv, TypeOK, Goto
<1>2. \A x \in Sessions : Working(x)' => target'[x] \in Requests
  BY <1>1 DEF IInv, Informed, Working
<1>3. ASSUME NEW x \in Sessions, NEW k \in 1 .. seen'[x].current - 1
      PROVE ApprovedAt(target[x], k)'
  BY DEF IInv, Informed, ApprovedAt
<1>4. \A x \in Sessions : pc'[x] \notin Deciding => seen'[x] = NoRow
  BY <1>1 DEF IInv, Informed
<1>5. \A x \in Sessions : seen'[x].status = "approved" => required'[target'[x]] > 0
  BY DEF IInv, Informed
<1>6. QED BY <1>1, <1>2, <1>3, <1>4, <1>5 DEF Informed

\* Approvals are never taken back, so what a run was ended for stays true.
LEMMA RunsKept ==
  ASSUME IInv, UNCHANGED <<run, managed>>, actions \subseteq actions', Covering',
         \A r \in Requests : required[r] > 0 => required'[r] > 0
  PROVE RunFollowsDecision'
<1>1. ASSUME NEW e, ApprovedOnce(e) PROVE ApprovedOnce(e)'
  BY <1>1 DEF ApprovedOnce, Covering
<1>2. ASSUME NEW r \in Requests \ managed
      PROVE /\ run[r] \in {"none", "pending", "completed", "failed"}
            /\ run[r] = "completed" => ApprovedOnce(EntityOf[r])'
            /\ run[r] = "failed" =>
                 \E a \in actions' : a.type = "reject" /\ EntityOf[a.request] = EntityOf[r]
  <2>1. run[r] = "completed" => ApprovedOnce(EntityOf[r])'
    BY <1>1 DEF IInv, RunFollowsDecision
  <2>2. QED BY <2>1 DEF IInv, RunFollowsDecision
<1>3. QED BY <1>2 DEF RunFollowsDecision, ApprovedOnce, ApprovedAt
-----------------------------------------------------------------------------
LEMMA InsertStep ==
  ASSUME IInv, NEW s \in Sessions, NEW r \in Requests, Insert(s, r),
         pc[s] \notin Deciding
  PROVE IInv'
<1>1. Informed' /\ pc' \in [Sessions -> Labels]
  <2>1. "createRun" \in Labels /\ target'[s] = r
    BY DEF Insert, Labels, IInv, TypeOK
  <2>2. seen[s] = NoRow
    BY DEF IInv, Informed
  <2>3. \A k \in 1 .. seen'[s].current - 1 : ApprovedAt(target'[s], k)
    BY <2>2, NoRowType DEF Insert
  <2>4. QED
    BY <2>1, <2>2, <2>3, NoRowType, Moved DEF Insert, IInv, TypeOK
<1>2. TypeOK'
  BY <1>1, OrdersNat DEF Insert, IInv, TypeOK, flow, Statuses
<1>3. PassedStepsApproved' /\ Covering' /\ Counted'
  BY OrdersNat DEF Insert, IInv, TypeOK, PassedStepsApproved, Covering, Counted, ApprovedAt
<1>4. RunFollowsDecision'
  BY <1>3, RunsKept DEF Insert
<1>5. QED BY <1>1, <1>2, <1>3, <1>4 DEF IInv

LEMMA CreateRunStep ==
  ASSUME IInv, NEW s \in Sessions, CreateRun(s)
  PROVE IInv'
<1>1. target[s] \in Requests
  BY DEF IInv, Informed, Working, CreateRun
<1>2. run' \in [Requests -> RunStatuses]
  BY <1>1 DEF IInv, TypeOK, CreateRun, RunStatuses
<1>3. Done(s) /\ UNCHANGED <<flow, request, actions, managed, required>>
  BY DEF CreateRun
<1>4. TypeOK' /\ Informed'
  BY <1>2, <1>3, Closed DEF IInv, TypeOK, flow
<1>5. PassedStepsApproved' /\ Covering' /\ Counted'
  BY <1>3 DEF IInv, PassedStepsApproved, Covering, Counted, ApprovedAt
<1>6. RunFollowsDecision'
  <2>1. \A r \in Requests : run'[r] \in {run[r], "pending"}
    BY <1>1 DEF CreateRun, IInv, TypeOK
  <2>2. \A r \in Requests : ApprovedOnce(EntityOf[r]) => ApprovedOnce(EntityOf[r])'
    BY <1>3 DEF ApprovedOnce, ApprovedAt
  <2>3. ASSUME NEW r \in Requests \ managed
        PROVE /\ run'[r] \in {"none", "pending", "completed", "failed"}
              /\ run'[r] = "completed" => ApprovedOnce(EntityOf[r])'
              /\ run'[r] = "failed" =>
                   \E a \in actions : a.type = "reject" /\ EntityOf[a.request] = EntityOf[r]
    BY <2>1, <2>2 DEF IInv, RunFollowsDecision
  <2>4. QED BY <1>3, <2>3 DEF RunFollowsDecision, ApprovedOnce, ApprovedAt
<1>7. QED BY <1>4, <1>5, <1>6 DEF IInv

LEMMA FindNoneStep ==
  ASSUME IInv, NEW s \in Sessions, NEW r \in Requests, FindNone(s, r)
  PROVE IInv'
<1>1. seen[s] = NoRow /\ "create" \in Labels /\ "create" \notin Deciding \cup {"createRun"}
  BY DEF IInv, Informed, FindNone, Deciding, Labels
<1>2. \A k \in 1 .. seen'[s].current - 1 : ApprovedAt(target'[s], k)
  BY <1>1, NoRowType DEF FindNone
<1>3. Informed' /\ pc' \in [Sessions -> Labels]
  BY <1>1, <1>2, NoRowType, Moved DEF FindNone, IInv, TypeOK
<1>4. TypeOK'
  BY <1>3 DEF FindNone, IInv, TypeOK, flow
<1>5. PassedStepsApproved' /\ Covering' /\ Counted' /\ RunFollowsDecision'
  BY DEF FindNone, IInv, PassedStepsApproved, Covering, Counted, RunFollowsDecision,
         ApprovedOnce, ApprovedAt
<1>6. QED BY <1>3, <1>4, <1>5 DEF IInv

LEMMA ReadRequestStep ==
  ASSUME IInv, NEW s \in Sessions, NEW r \in Requests,
         NEW label \in {"readSteps", "reject", "cancel"}, ReadRequest(s, r, label)
  PROVE IInv'
<1>1. target'[s] = r /\ seen'[s] = request[r]
  BY DEF ReadRequest, IInv, TypeOK
<1>2. \A k \in 1 .. seen'[s].current - 1 : ApprovedAt(target'[s], k)
  BY <1>1 DEF IInv, PassedStepsApproved
<1>3. label \in Deciding /\ label \in Labels
  BY DEF Deciding, Labels
<1>4. Informed' /\ pc' \in [Sessions -> Labels]
  BY <1>1, <1>2, <1>3, Moved DEF ReadRequest, IInv, TypeOK, Counted
<1>5. TypeOK'
  BY <1>4 DEF ReadRequest, IInv, TypeOK, flow
<1>6. PassedStepsApproved' /\ Covering' /\ Counted' /\ RunFollowsDecision'
  BY DEF ReadRequest, IInv, PassedStepsApproved, Covering, Counted, RunFollowsDecision,
         ApprovedOnce, ApprovedAt
<1>7. QED BY <1>4, <1>5, <1>6 DEF IInv

LEMMA ReadStepsStep ==
  ASSUME IInv, NEW s \in Sessions, ReadSteps(s)
  PROVE IInv'
<1>1. {1} \cup Used \subseteq Orders
  BY OrdersNat DEF IInv, TypeOK, Used, Orders
<1>2. lastStep' \in [Sessions -> Orders]
  BY <1>1 DEF ReadSteps, IInv, TypeOK
<1>3. target[s] \in Requests /\ "approve" \in Labels /\ "approve" \in Deciding
  BY DEF ReadSteps, IInv, Informed, Working, Deciding, Labels
<1>4. \A k \in 1 .. seen'[s].current - 1 : ApprovedAt(target'[s], k)
  BY DEF ReadSteps, IInv, Informed
<1>5. Informed' /\ pc' \in [Sessions -> Labels]
  BY <1>3, <1>4, Moved DEF ReadSteps, IInv, Informed
<1>6. TypeOK'
  BY <1>2, <1>5 DEF ReadSteps, IInv, TypeOK, flow
<1>7. PassedStepsApproved' /\ Covering' /\ Counted' /\ RunFollowsDecision'
  BY DEF ReadSteps, IInv, PassedStepsApproved, Covering, Counted, RunFollowsDecision,
         ApprovedOnce, ApprovedAt
<1>8. QED BY <1>5, <1>6, <1>7 DEF IInv

\* What every decision has in common: the action row is added, the session
\* ends, and the request's status may be set.
LEMMA Recorded ==
  ASSUME IInv, NEW s \in Sessions, NEW type \in {"approve", "reject", "cancel"},
         pc[s] \in Deciding, Record(s, type), Done(s)
  PROVE /\ target[s] \in Requests /\ seen[s].current \in Orders
        /\ actions \subseteq actions'
        /\ [request |-> target[s], type |-> type, step |-> seen[s].current] \in actions'
        /\ actions' \subseteq [request : Requests, type : {"approve", "reject", "cancel"},
                               step : Orders]
        /\ \A r \in Requests, k \in Nat : ApprovedAt(r, k) => ApprovedAt(r, k)'
<1>1. target[s] \in Requests /\ seen[s] \in [status : Statuses, current : Orders]
  BY DEF IInv, TypeOK, Informed, Working
<1>2. /\ actions \subseteq actions'
      /\ [request |-> target[s], type |-> type, step |-> seen[s].current] \in actions'
  BY DEF Record
<1>3. actions' \subseteq [request : Requests, type : {"approve", "reject", "cancel"},
                          step : Orders]
  BY <1>1 DEF Record, IInv, TypeOK
<1>4. \A r \in Requests, k \in Nat : ApprovedAt(r, k) => ApprovedAt(r, k)'
  BY <1>2 DEF ApprovedAt
<1>5. QED BY <1>1, <1>2, <1>3, <1>4

\* SetStatus changes one status at most, and to the one given.
LEMMA StatusSet ==
  ASSUME IInv, NEW s \in Sessions, NEW status \in Statuses, target[s] \in Requests,
         SetStatus(s, status)
  PROVE /\ request' \in [Requests -> [status : Statuses, current : Orders]]
        /\ \A r \in Requests : request'[r].current = request[r].current
        /\ \A r \in Requests : request'[r].status \in {request[r].status, status}
        /\ \A r \in Requests : r # target[s] \/ seen[s].status = status =>
             request'[r] = request[r]
<1>1. request \in [Requests -> [status : Statuses, current : Orders]]
  BY DEF IInv, TypeOK
<1>2. CASE seen[s].status = status
  BY <1>1, <1>2 DEF SetStatus
<1>3. CASE seen[s].status # status
  <2>1. request' = [request EXCEPT ![target[s]].status = status]
    BY <1>3 DEF SetStatus
  <2>2. QED BY <1>1, <1>3, <2>1
<1>4. QED BY <1>2, <1>3

\* A run that ends takes the status of the decision just recorded.
LEMMA RunEnded ==
  ASSUME IInv, NEW s \in Sessions, target[s] \in Requests,
         NEW type \in {"approve", "reject"}, NEW status, actions \subseteq actions',
         \E a \in actions' : a.type = type /\ a.request = target[s],
         \/ type = "approve" /\ status = "completed" /\ required'[target[s]] > 0
         \/ type = "reject" /\ status = "failed",
         Covering', \A r \in Requests : required[r] > 0 => required'[r] > 0,
         EndRun(s, status)
  PROVE /\ run' \in [Requests -> RunStatuses] /\ managed' \subseteq Requests
        /\ RunFollowsDecision'
<1>1. run \in [Requests -> RunStatuses] /\ managed \subseteq Requests
  BY DEF IInv, TypeOK
<1>2. CASE UNCHANGED <<run, managed>>
  BY <1>1, <1>2, RunsKept
<1>3. ASSUME NEW q \in Requests, EntityOf[q] = EntityOf[target[s]],
             run' = [run EXCEPT ![q] = status], managed' = managed \ {q}
      PROVE run' \in [Requests -> RunStatuses] /\ managed' \subseteq Requests
            /\ RunFollowsDecision'
  <2>1. run' \in [Requests -> RunStatuses] /\ managed' \subseteq Requests
    BY <1>1, <1>3 DEF RunStatuses
  <2>2. ASSUME NEW e, ApprovedOnce(e) PROVE ApprovedOnce(e)'
    BY <2>2 DEF ApprovedOnce, Covering
  <2>3. ASSUME NEW r \in Requests \ managed'
        PROVE /\ run'[r] \in {"none", "pending", "completed", "failed"}
              /\ run'[r] = "completed" => ApprovedOnce(EntityOf[r])'
              /\ run'[r] = "failed" =>
                   \E a \in actions' : a.type = "reject" /\ EntityOf[a.request] = EntityOf[r]
    <3>1. CASE r = q
      <4>1. run'[r] = status
        BY <1>1, <1>3, <3>1
      <4>2. PICK t \in Requests : t = target[s]
        OBVIOUS
      <4>3. run'[r] = "completed" => ApprovedOnce(EntityOf[r])'
        <5>1. run'[r] = "completed" => required'[t] > 0
          BY <4>1, <4>2
        <5>2. EntityOf[t] = EntityOf[r]
          BY <1>3, <3>1, <4>2
        <5>3. QED BY <5>1, <5>2 DEF ApprovedOnce, Covering
      <4>4. QED BY <1>3, <3>1, <4>1, <4>3
    <3>2. CASE r # q
      <4>1. run'[r] = run[r] /\ r \in Requests \ managed
        BY <1>1, <1>3, <3>2
      <4>2. run'[r] = "completed" => ApprovedOnce(EntityOf[r])'
        BY <2>2, <4>1 DEF IInv, RunFollowsDecision
      <4>3. QED BY <4>1, <4>2 DEF IInv, RunFollowsDecision
    <3>3. QED BY <3>1, <3>2
  <2>4. QED BY <2>1, <2>3 DEF RunFollowsDecision, ApprovedOnce, ApprovedAt
<1>4. QED BY <1>2, <1>3 DEF EndRun
-----------------------------------------------------------------------------
LEMMA ApproveStepStep ==
  ASSUME IInv, NEW s \in Sessions, ApproveStep(s)
  PROVE IInv'
<1>1. /\ pc[s] \in Deciding /\ Record(s, "approve") /\ Done(s)
      /\ UNCHANGED <<flow, run, managed, required>>
  BY DEF ApproveStep, Deciding
<1>2. /\ target[s] \in Requests /\ seen[s].current \in Orders
      /\ actions \subseteq actions'
      /\ [request |-> target[s], type |-> "approve", step |-> seen[s].current] \in actions'
      /\ actions' \subseteq [request : Requests, type : {"approve", "reject", "cancel"},
                             step : Orders]
      /\ \A r \in Requests, k \in Nat : ApprovedAt(r, k) => ApprovedAt(r, k)'
  BY <1>1, Recorded
<1>3. seen[s].current + 1 \in Orders
  BY <1>2, OrdersNat DEF ApproveStep, IInv, TypeOK, Orders
<1>4. /\ request' \in [Requests -> [status : Statuses, current : Orders]]
      /\ request'[target[s]].current = seen[s].current + 1
      /\ \A r \in Requests : request'[r].status = request[r].status
      /\ \A r \in Requests : r # target[s] => request'[r] = request[r]
  BY <1>2, <1>3 DEF ApproveStep, IInv, TypeOK
<1>5. TypeOK' /\ Informed'
  BY <1>1, <1>2, <1>4, Closed DEF IInv, TypeOK, flow
<1>6. PassedStepsApproved'
  <2>1. ASSUME NEW r \in Requests, NEW k \in 1 .. request'[r].current - 1
        PROVE ApprovedAt(r, k)'
    <3>0. k \in Nat
      BY <1>4, OrdersNat DEF Orders
    <3>1. CASE r = target[s] /\ k = seen[s].current
      BY <1>2, <3>1 DEF ApprovedAt
    <3>2. CASE r = target[s] /\ k # seen[s].current
      <4>1. k \in 1 .. seen[s].current - 1
        <5>1. k \in 1 .. (seen[s].current + 1) - 1
          BY <1>4, <2>1, <3>2
        <5>2. seen[s].current \in Nat
          BY <1>2, OrdersNat
        <5>3. QED BY <3>0, <3>2, <5>1, <5>2
      <4>2. ApprovedAt(r, k)
        BY <3>2, <4>1 DEF IInv, Informed
      <4>3. QED BY <1>2, <3>0, <4>2
    <3>3. CASE r # target[s]
      <4>1. k \in 1 .. request[r].current - 1
        BY <1>4, <3>3
      <4>2. ApprovedAt(r, k)
        BY <4>1 DEF IInv, PassedStepsApproved
      <4>3. QED BY <1>2, <3>0, <4>2
    <3>4. QED BY <3>1, <3>2, <3>3
  <2>2. QED BY <2>1 DEF PassedStepsApproved
<1>7. Covering' /\ Counted'
  BY <1>1, <1>2, <1>4, OrdersNat DEF IInv, TypeOK, Covering, Counted
<1>8. RunFollowsDecision'
  BY <1>1, <1>2, <1>7, RunsKept
<1>9. QED BY <1>5, <1>6, <1>7, <1>8 DEF IInv

LEMMA ApproveLastStep ==
  ASSUME IInv, NEW s \in Sessions, ApproveLast(s)
  PROVE IInv'
<1>1. /\ pc[s] \in Deciding /\ Record(s, "approve") /\ Done(s)
      /\ SetStatus(s, "approved") /\ EndRun(s, "completed") /\ UNCHANGED flow
      /\ "approved" \in Statuses
  BY DEF ApproveLast, Deciding, Statuses, Decisions
<1>2. /\ target[s] \in Requests /\ seen[s].current \in Orders
      /\ actions \subseteq actions'
      /\ [request |-> target[s], type |-> "approve", step |-> seen[s].current] \in actions'
      /\ actions' \subseteq [request : Requests, type : {"approve", "reject", "cancel"},
                             step : Orders]
      /\ \A r \in Requests, k \in Nat : ApprovedAt(r, k) => ApprovedAt(r, k)'
  BY <1>1, Recorded
<1>3. /\ request' \in [Requests -> [status : Statuses, current : Orders]]
      /\ \A r \in Requests : request'[r].current = request[r].current
      /\ \A r \in Requests : request'[r].status \in {request[r].status, "approved"}
      /\ \A r \in Requests : r # target[s] \/ seen[s].status = "approved" =>
           request'[r] = request[r]
  BY <1>1, <1>2, StatusSet
<1>4. /\ required' \in [Requests -> 0 .. MaxOrder]
      /\ required'[target[s]] > 0
      /\ \A r \in Requests : required[r] > 0 => required'[r] > 0
  <2>1. /\ required \in [Requests -> 0 .. MaxOrder]
        /\ lastStep[s] \in 1 .. MaxOrder
    BY DEF IInv, TypeOK, Orders
  <2>2. CASE seen[s].status = "approved"
    <3>1. required' = required /\ required[target[s]] > 0
      BY <2>2 DEF ApproveLast, IInv, Informed
    <3>2. QED BY <2>1, <3>1
  <2>3. CASE seen[s].status # "approved"
    <3>1. required' = [required EXCEPT ![target[s]] = lastStep[s]]
      BY <2>3 DEF ApproveLast
    <3>2. QED BY <1>2, <2>1, <3>1, OrdersNat
  <2>4. QED BY <2>2, <2>3
<1>5. PassedStepsApproved'
  BY <1>2, <1>3, OrdersNat DEF IInv, TypeOK, PassedStepsApproved
<1>6. Covering'
  <2>1. ASSUME NEW r \in Requests, NEW k \in 1 .. required'[r]
        PROVE ApprovedAt(r, k)'
    <3>0. k \in Nat
      BY <1>4, OrdersNat
    <3>1. CASE r = target[s] /\ seen[s].status # "approved"
      <4>1. required'[r] = lastStep[s]
        BY <3>1 DEF ApproveLast, IInv, TypeOK
      <4>2. lastStep[s] \in Nat /\ seen[s].current \in Nat /\ seen[s].current >= lastStep[s]
        BY <1>2, OrdersNat DEF ApproveLast, IInv, TypeOK
      <4>3. k = seen[s].current \/ k \in 1 .. seen[s].current - 1
        BY <3>0, <4>1, <4>2
      <4>4. CASE k = seen[s].current
        BY <1>2, <3>1, <4>4 DEF ApprovedAt
      <4>5. CASE k \in 1 .. seen[s].current - 1
        BY <1>2, <3>0, <3>1, <4>5 DEF IInv, Informed
      <4>6. QED BY <4>3, <4>4, <4>5
    <3>2. CASE r # target[s] \/ seen[s].status = "approved"
      <4>1. required'[r] = required[r]
        BY <1>2, <3>2 DEF ApproveLast, IInv, TypeOK
      <4>2. ApprovedAt(r, k)
        BY <4>1 DEF IInv, Covering
      <4>3. QED BY <1>2, <3>0, <4>2
    <3>3. QED BY <3>1, <3>2
  <2>2. QED BY <2>1 DEF Covering
<1>7. Counted'
  BY <1>3, <1>4 DEF IInv, Counted
<1>8. /\ run' \in [Requests -> RunStatuses] /\ managed' \subseteq Requests
      /\ RunFollowsDecision'
  BY <1>1, <1>2, <1>4, <1>6, RunEnded
<1>9. TypeOK' /\ Informed'
  BY <1>1, <1>2, <1>3, <1>4, <1>8, Closed DEF IInv, TypeOK, flow
<1>10. QED BY <1>5, <1>6, <1>7, <1>8, <1>9 DEF IInv

LEMMA RejectStep ==
  ASSUME IInv, NEW s \in Sessions, Reject(s)
  PROVE IInv'
<1>1. /\ pc[s] \in Deciding /\ Record(s, "reject") /\ Done(s)
      /\ SetStatus(s, "rejected") /\ EndRun(s, "failed") /\ UNCHANGED <<flow, required>>
      /\ "rejected" \in Statuses
  BY DEF Reject, Deciding, Statuses, Decisions
<1>2. /\ target[s] \in Requests /\ seen[s].current \in Orders
      /\ actions \subseteq actions'
      /\ [request |-> target[s], type |-> "reject", step |-> seen[s].current] \in actions'
      /\ actions' \subseteq [request : Requests, type : {"approve", "reject", "cancel"},
                             step : Orders]
      /\ \A r \in Requests, k \in Nat : ApprovedAt(r, k) => ApprovedAt(r, k)'
  BY <1>1, Recorded
<1>3. /\ request' \in [Requests -> [status : Statuses, current : Orders]]
      /\ \A r \in Requests : request'[r].current = request[r].current
      /\ \A r \in Requests : request'[r].status \in {request[r].status, "rejected"}
  BY <1>1, <1>2, StatusSet
<1>4. PassedStepsApproved' /\ Covering' /\ Counted'
  BY <1>1, <1>2, <1>3, OrdersNat DEF IInv, TypeOK, PassedStepsApproved, Covering, Counted
<1>5. /\ run' \in [Requests -> RunStatuses] /\ managed' \subseteq Requests
      /\ RunFollowsDecision'
  BY <1>1, <1>2, <1>4, RunEnded
<1>6. TypeOK' /\ Informed'
  BY <1>1, <1>2, <1>3, <1>5, Closed DEF IInv, TypeOK, flow
<1>7. QED BY <1>4, <1>5, <1>6 DEF IInv

LEMMA CancelStep ==
  ASSUME IInv, NEW s \in Sessions, Cancel(s)
  PROVE IInv'
<1>1. /\ pc[s] \in Deciding /\ Record(s, "cancel") /\ Done(s)
      /\ SetStatus(s, "cancelled") /\ UNCHANGED <<flow, run, managed, required>>
      /\ "cancelled" \in Statuses
  BY DEF Cancel, Deciding, Statuses, Decisions
<1>2. /\ target[s] \in Requests /\ seen[s].current \in Orders
      /\ actions \subseteq actions'
      /\ actions' \subseteq [request : Requests, type : {"approve", "reject", "cancel"},
                             step : Orders]
      /\ \A r \in Requests, k \in Nat : ApprovedAt(r, k) => ApprovedAt(r, k)'
  BY <1>1, Recorded
<1>3. /\ request' \in [Requests -> [status : Statuses, current : Orders]]
      /\ \A r \in Requests : request'[r].current = request[r].current
      /\ \A r \in Requests : request'[r].status \in {request[r].status, "cancelled"}
  BY <1>1, <1>2, StatusSet
<1>4. TypeOK' /\ Informed'
  BY <1>1, <1>2, <1>3, Closed DEF IInv, TypeOK, flow
<1>5. PassedStepsApproved' /\ Covering' /\ Counted'
  BY <1>1, <1>2, <1>3, OrdersNat DEF IInv, TypeOK, PassedStepsApproved, Covering, Counted
<1>6. RunFollowsDecision'
  BY <1>1, <1>2, <1>5, RunsKept
<1>7. QED BY <1>4, <1>5, <1>6 DEF IInv
-----------------------------------------------------------------------------
\* Steps that touch neither requests, actions nor runs: the rows of the flow
\* keep their type, and the session is closed, or goes on without a row.
LEMMA FlowRows ==
  ASSUME IInv, UNCHANGED <<request, actions, run, managed, required>>,
         stepOrder' \in [Rows -> 0 .. MaxOrder], deleted' \in BOOLEAN,
         Informed', pc' \in [Sessions -> Labels],
         target' \in [Sessions -> Requests \cup {None}],
         seen' \in [Sessions -> [status : Statuses, current : Orders]],
         lastStep' \in [Sessions -> Orders], todo' \in [Sessions -> SUBSET Orders]
  PROVE IInv'
<1>1. TypeOK'
  BY DEF IInv, TypeOK
<1>2. PassedStepsApproved' /\ Covering' /\ Counted' /\ RunFollowsDecision'
  BY DEF IInv, PassedStepsApproved, Covering, Counted, RunFollowsDecision,
         ApprovedOnce, ApprovedAt
<1>3. QED BY <1>1, <1>2 DEF IInv

LEMMA SameSessions ==
  ASSUME IInv, UNCHANGED <<request, actions, run, managed, required, session>>,
         stepOrder' \in [Rows -> 0 .. MaxOrder], deleted' \in BOOLEAN
  PROVE IInv'
<1>1. Informed'
  BY DEF IInv, Informed, Working, ApprovedAt, session
<1>2. QED BY <1>1, FlowRows DEF IInv, TypeOK, session

\* A run written through /flow-runs is one that says nothing about decisions.
LEMMA ManageRunStep ==
  ASSUME IInv, NEW r \in Requests, ManageRun(r)
  PROVE IInv'
<1>1. /\ run' \in [Requests -> RunStatuses] /\ managed' = managed \cup {r}
      /\ \A q \in Requests : q # r => run'[q] = run[q]
  BY DEF ManageRun, IInv, TypeOK, RunStatuses
<1>2. TypeOK'
  BY <1>1 DEF ManageRun, IInv, TypeOK, flow, session
<1>3. \A q \in Requests : ApprovedOnce(EntityOf[q]) <=> ApprovedOnce(EntityOf[q])'
  BY DEF ManageRun, ApprovedOnce, ApprovedAt
<1>4. RunFollowsDecision'
  BY <1>1, <1>3 DEF ManageRun, IInv, RunFollowsDecision
<1>5. PassedStepsApproved' /\ Covering' /\ Counted'
  BY DEF ManageRun, IInv, PassedStepsApproved, Covering, Counted, ApprovedAt
<1>6. Informed'
  BY DEF ManageRun, IInv, Informed, Working, ApprovedAt, session
<1>7. QED BY <1>2, <1>4, <1>5, <1>6 DEF IInv

LEMMA EditStepStep ==
  ASSUME IInv, EditStep
  PROVE IInv'
<1>1. \A o \in Orders : o \in 0 .. MaxOrder
  BY OrdersNat DEF Orders
<1>2. ASSUME NEW o \in Orders, AddStep(o)
      PROVE IInv'
  BY <1>1, <1>2, SameSessions DEF AddStep, AddRow, IInv, TypeOK
<1>3. ASSUME NEW w \in Rows, DeleteStep(w)
      PROVE IInv'
  BY <1>3, OrdersNat, SameSessions DEF DeleteStep, IInv, TypeOK
<1>4. ASSUME NEW w \in Rows, NEW o \in Orders, UpdateStep(w, o)
      PROVE IInv'
  BY <1>1, <1>4, SameSessions DEF UpdateStep, IInv, TypeOK
<1>5. QED BY <1>2, <1>3, <1>4 DEF EditStep

LEMMA ReplaceStepsStep ==
  ASSUME IInv, NEW s \in Sessions, NEW orders \in SUBSET Orders, ReplaceSteps(s, orders)
  PROVE IInv'
<1>1. seen[s] = NoRow /\ "replace" \in Labels /\ "replace" \notin Deciding \cup {"createRun"}
  BY DEF IInv, Informed, ReplaceSteps, Deciding, Labels
<1>2. Informed' /\ pc' \in [Sessions -> Labels]
  BY <1>1, NoRowType, Moved DEF ReplaceSteps
<1>3. stepOrder' \in [Rows -> 0 .. MaxOrder] /\ todo' \in [Sessions -> SUBSET Orders]
  BY OrdersNat DEF ReplaceSteps, IInv, TypeOK
<1>4. QED BY <1>2, <1>3, FlowRows DEF ReplaceSteps, IInv, TypeOK

LEMMA ReplaceNextStep ==
  ASSUME IInv, NEW s \in Sessions, ReplaceNext(s)
  PROVE IInv'
<1>1. PICK o \in todo[s] : AddRow(o) /\ todo' = [todo EXCEPT ![s] = @ \ {o}]
  BY DEF ReplaceNext
<1>2. o \in 0 .. MaxOrder
  BY <1>1, OrdersNat DEF IInv, TypeOK, Orders
<1>3. stepOrder' \in [Rows -> 0 .. MaxOrder] /\ todo' \in [Sessions -> SUBSET Orders]
  BY <1>1, <1>2 DEF AddRow, IInv, TypeOK
<1>4. UNCHANGED <<deleted, request, actions, run, managed, pc, target, seen, lastStep, required>>
  BY DEF ReplaceNext
<1>5. Informed'
  BY <1>4 DEF IInv, Informed, Working, ApprovedAt
<1>6. QED BY <1>3, <1>4, <1>5, FlowRows DEF IInv, TypeOK

LEMMA StartDeleteFlowStep ==
  ASSUME IInv, NEW s \in Sessions, StartDeleteFlow(s)
  PROVE IInv'
<1>1. /\ seen[s] = NoRow /\ "deleteFlow" \in Labels
      /\ "deleteFlow" \notin Deciding \cup {"createRun"}
  BY DEF IInv, Informed, StartDeleteFlow, Deciding, Labels
<1>2. Informed' /\ pc' \in [Sessions -> Labels]
  BY <1>1, NoRowType, Moved DEF StartDeleteFlow
<1>3. QED BY <1>2, FlowRows DEF StartDeleteFlow, IInv, TypeOK, flow

\* DeleteFlow, ReplaceDone and Abort only close the session.
LEMMA CloseStep ==
  ASSUME IInv, NEW s \in Sessions, Done(s),
         UNCHANGED <<stepOrder, request, actions, run, managed, required>>, deleted' \in BOOLEAN
  PROVE IInv'
<1>1. /\ Informed' /\ pc' \in [Sessions -> Labels]
      /\ target' \in [Sessions -> Requests \cup {None}]
      /\ seen' \in [Sessions -> [status : Statuses, current : Orders]]
      /\ lastStep' \in [Sessions -> Orders] /\ todo' \in [Sessions -> SUBSET Orders]
  BY Closed
<1>2. QED BY <1>1, FlowRows DEF IInv, TypeOK
-----------------------------------------------------------------------------
LEMMA Initially == Init => IInv
<1>1. SUFFICES ASSUME Init PROVE IInv
  OBVIOUS
<1>2. TypeOK
  <2>1. /\ stepOrder \in [Rows -> 0 .. MaxOrder]
        /\ deleted \in BOOLEAN
        /\ run \in [Requests -> RunStatuses] /\ managed = {}
        /\ required \in [Requests -> 0 .. MaxOrder]
    <3>1. 0 \in 0 .. MaxOrder
      BY OrdersNat
    <3>2. QED BY <1>1, <3>1 DEF Init, RunStatuses
  <2>2. /\ request \in [Requests -> [status : Statuses, current : Orders]]
        /\ seen \in [Sessions -> [status : Statuses, current : Orders]]
    BY <1>1, NoRowType DEF Init
  <2>3. /\ actions = {}
        /\ pc \in [Sessions -> Labels]
        /\ target \in [Sessions -> Requests \cup {None}]
        /\ lastStep \in [Sessions -> Orders]
        /\ todo \in [Sessions -> SUBSET Orders]
    BY <1>1, OrdersNat DEF Init, Labels
  <2>4. QED BY <2>1, <2>2, <2>3 DEF TypeOK
<1>3. PassedStepsApproved /\ Covering /\ Counted /\ RunFollowsDecision
  BY <1>1, NoRowType DEF Init, PassedStepsApproved, Covering, Counted, RunFollowsDecision
<1>4. Informed
  <2>1. ASSUME NEW s \in Sessions
        PROVE /\ ~Working(s) /\ seen[s] = NoRow
              /\ \A k \in 1 .. seen[s].current - 1 : FALSE
    BY <1>1, NoRowType DEF Init, Working, Deciding
  <2>2. QED BY <2>1, NoRowType DEF Informed
<1>5. QED BY <1>2, <1>3, <1>4 DEF IInv

LEMMA Inductive == IInv /\ [Next]_vars => IInv'
<1>1. SUFFICES ASSUME IInv, [Next]_vars PROVE IInv'
  OBVIOUS
<1>2. CASE UNCHANGED vars
  BY <1>1, <1>2, SameSessions DEF vars, flow, IInv, TypeOK
<1>3. ASSUME NEW s \in Sessions, Decide(s) PROVE IInv'
  <2>1. ASSUME NEW r \in Requests, StartApprove(s, r) \/ StartReject(s, r) \/ StartCancel(s, r)
        PROVE IInv'
    BY <1>1, <2>1, ReadRequestStep DEF StartApprove, StartReject, StartCancel
  <2>2. QED
    BY <1>1, <1>3, <2>1, ReadStepsStep, ApproveStepStep, ApproveLastStep, RejectStep, CancelStep
       DEF Decide
<1>4. ASSUME NEW s \in Sessions, Create(s) PROVE IInv'
  <2>1. ASSUME NEW r \in Requests, CreateRequest(s, r) PROVE IInv'
    BY <1>1, <2>1, InsertStep DEF CreateRequest, Deciding
  <2>2. ASSUME CreateByEntity(s) PROVE IInv'
    BY <1>1, <2>2, InsertStep DEF CreateByEntity, Deciding
  <2>3. QED
    BY <1>1, <1>4, <2>1, <2>2, FindNoneStep, CreateRunStep DEF Create
<1>5. ASSUME NEW s \in Sessions, Edit(s) PROVE IInv'
  <2>1. ASSUME ReplaceDone(s) PROVE IInv'
    BY <1>1, <2>1, CloseStep DEF ReplaceDone, flow, IInv, TypeOK
  <2>2. ASSUME DeleteFlow(s) PROVE IInv'
    BY <1>1, <2>2, CloseStep DEF DeleteFlow
  <2>3. QED
    BY <1>1, <1>5, <2>1, <2>2, ReplaceStepsStep, ReplaceNextStep, StartDeleteFlowStep DEF Edit
<1>6. ASSUME NEW s \in Sessions, Abort(s) PROVE IInv'
  BY <1>1, <1>6, CloseStep DEF Abort, flow, IInv, TypeOK
<1>7. QED BY <1>1, <1>2, <1>3, <1>4, <1>5, <1>6, EditStepStep, ManageRunStep DEF Next

LEMMA Invariant == Spec => []IInv
BY Initially, Inductive, PTL DEF Spec

\* Every variable has its type; in particular current_step of a request never
\* leaves the flow's range of step orders, whichever sessions write it.
THEOREM TypeCorrect == Spec => []TypeOK
<1>1. IInv => TypeOK
  BY DEF IInv
<1>2. QED BY <1>1, Invariant, PTL

\* For any number of concurrent sessions, the steps a request has passed were
\* all approved (approve_request, service.py:362-404).
THEOREM AuditTrail == Spec => []PassedStepsApproved
<1>1. IInv => PassedStepsApproved
  BY DEF IInv
<1>2. QED BY <1>1, Invariant, PTL

\* An approved request carries an approval of every step that the session which
\* approved it had counted (approve_request, service.py:390-398).
THEOREM Covered == Spec => []ApprovalCovers
<1>1. IInv => ApprovalCovers
  BY DEF IInv, Covering, ApprovalCovers
<1>2. QED BY <1>1, Invariant, PTL

\* The approval operations complete a flow run only after all steps of a request
\* of its entity were approved, and fail it only after a rejection; runs last
\* written through /flow-runs are apart (_complete_flow_run and _fail_flow_run,
\* service.py:902-940, flow_runs.py:205-294).
THEOREM RunsEndByDecision == Spec => []RunFollowsDecision
<1>1. IInv => RunFollowsDecision
  BY DEF IInv
<1>2. QED BY <1>1, Invariant, PTL
=============================================================================
