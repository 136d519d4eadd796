--------------------------- MODULE AgentRunProofs ---------------------------
(***************************************************************************)
(* What AgentRun keeps for every number of requests, rows, plans and       *)
(* faults.                                                                 *)
(*                                                                         *)
(* Base says what a session can hold.  Calm holds until two decisions      *)
(* overlap: one session at most works on the run, what it has loaded and   *)
(* not changed is what the rows say, and so its last commit leaves a status*)
(* that the steps bear out.                                                *)
(***************************************************************************)
EXTENDS AgentRun, TLAPS

Places == {"closed", "queued", "plan", "execute", "commit", "confirm", "reject", "replan", "cancel"}
RunRow == [status : RunStatus, current : Nat]
StepRow == [index : Nat, asks : BOOLEAN, status : StepStatus \cup {"unused", "deleted"}]
SessionState ==
  [pc : Places, seen : RunStatus \cup {"expired"}, status : RunStatus \cup {"expired"},
   current : Nat, moved : BOOLEAN, view : [Rows -> StepStatus \cup {"expired"}],
   dirty : SUBSET Rows, todo : SUBSET Rows, aborted : BOOLEAN]

Holding(s) == session[s].pc \in {"replan", "execute", "commit"}
Busy(s) == session[s].pc \in {"queued", "plan", "confirm", "reject", "replan", "execute", "commit"}

\* What is changed is loaded, and nothing is changed before the steps are
\* loaded; the task plans, requests decide, and neither the job nor the task
\* does what the other does.
SessionI ==
  \A s \in Sessions :
    /\ session[s].status = "expired" => session[s].seen = "expired"
    /\ \A r \in session[s].dirty : session[s].view[r] \notin {"expired", "pending"}
    /\ ~Holding(s) => session[s].dirty = {}
    /\ session[s].pc \in {"queued", "plan"} => s = Task
    /\ session[s].pc \in {"confirm", "reject", "replan"} => s \in Requests
    /\ s = Job => ~Busy(s)
    /\ s = Task => session[s].pc # "cancel"

\* The rows are used in their order.
RowsI == \A r \in Rows : r > inserted <=> step[r].status = "unused"

Base == TypeOK /\ SessionI /\ RowsI

Alone == \A s, t \in Sessions : Busy(s) /\ Busy(t) => s = t

\* What a status tells of a step.
Fits(status, r) ==
  /\ status \in {"awaiting", "confirmed", "rejected"} => step[r].asks
  /\ status \in {"completed", "failed"} => ~step[r].asks
  /\ status = "completed" => calls[r] > 0

StatusI ==
  /\ \A r \in Rows : Fits(step[r].status, r)
  /\ \A s \in Sessions, r \in Rows : Holding(s) => Fits(session[s].view[r], r)

\* A session that has not loaded the steps yet, and the task at any time.
StartI ==
  /\ \A s \in Sessions :
       /\ session[s].pc \in {"plan", "confirm", "reject"} => session[s].current = run.current
       /\ session[s].pc \in {"confirm", "reject"} => session[s].seen = "awaiting_confirmation"
  /\ session[Task].pc \in {"queued", "plan"} => inserted = 0
  /\ session[Task].pc # "closed" => run.status # "awaiting_confirmation"

Done(status, r) == status = IF step[r].asks THEN "confirmed" ELSE "completed"

\* A session that has loaded the steps: its rows are there, the ones it did
\* not change are as it read them, and it knows if the run waits.
Loaded(s) ==
  /\ session[s].dirty \cup session[s].todo \subseteq Present
  /\ \A r \in Present \ session[s].dirty : session[s].view[r] \in {"expired", step[r].status}
  /\ session[s].seen \in {"awaiting_confirmation", "executing", "expired"}
  /\ session[s].seen = "expired" \/ session[s].moved \/ session[s].current = run.current
  /\ run.status = "awaiting_confirmation" => session[s].seen = "awaiting_confirmation"

\* It has not decided how the run goes on, ...
Working(s) ==
  /\ session[s].status \in {"executing", "expired"}
  /\ session[s].status = "expired" <=> session[s].seen = "expired"

\* ... it has done the steps it passed, ...
Executing(s) ==
  /\ \A r \in Present \ session[s].todo : Done(Status(s, r), r)
  /\ \A r \in session[s].todo \cap session[s].dirty : step[r].asks
  /\ \A r \in Rows : session[s].view[r] # "failed"

\* ... and the status it commits is borne out by the steps.
Committing(s) ==
  /\ session[s].status \in {"awaiting_confirmation", "completed", "failed"}
  /\ session[s].status = "completed" => \A r \in Present : Done(Status(s, r), r)
  /\ session[s].status = "awaiting_confirmation" =>
       /\ session[s].moved \/ session[s].current = run.current
       /\ \E r \in Present : step[r].index = session[s].current /\ session[s].view[r] = "awaiting"
  /\ session[s].status # "failed" => \A r \in Rows : session[s].view[r] # "failed"

HoldI ==
  \A s \in Sessions :
    /\ Holding(s) => Loaded(s)
    /\ session[s].pc \in {"replan", "execute"} => Working(s)
    /\ session[s].pc = "replan" => \A r \in session[s].dirty : step[r].asks
    /\ session[s].pc = "execute" => Executing(s)
    /\ session[s].pc = "commit" => Committing(s)

\* Nobody works on a run that completed or failed, and a failed step ends it.
OverI ==
  /\ run.status \in {"completed", "failed"} => \A s \in Sessions : ~Busy(s)
  /\ \A r \in Rows : step[r].status = "failed" =>
       run.status \in Terminal /\ \A s \in Sessions : ~Busy(s)

DoneI == run.status = "completed" => \A r \in Present : Done(step[r].status, r)

AwaitI ==
  run.status = "awaiting_confirmation" =>
    \E r \in Present : step[r].index = run.current /\ step[r].status = "awaiting"

\* What was invoked is known: its row says so, the session that did it, or the
\* count of what was lost.
CallsI ==
  \A r \in Rows :
    /\ calls[r] <= 1 + lost[r]
    /\ calls[r] > lost[r] =>
         \/ step[r].status \in {"completed", "failed"}
         \/ \E s \in Sessions : session[s].pc \in {"execute", "commit"} /\ r \in Unrecorded(s)

\* A request that rejects has its row, awaiting in the database, in its way.
BlockI ==
  \A s \in Sessions : session[s].pc \in {"reject", "replan"} =>
    \E r \in Present : step[r].index = session[s].current /\ step[r].status = "awaiting"

Calm ==
  Alone /\ StatusI /\ StartI /\ HoldI /\ OverI /\ DoneI /\ AwaitI /\ CallsI /\ BlockI

Inv == Base /\ (~overlap => Calm)
-----------------------------------------------------------------------------
(* What each step does to the sessions and the rows. *)

LEMMA ClosedType == Closed \in SessionState
BY DEF Closed, SessionState, Places

LEMMA CloseStep ==
  ASSUME Base, NEW s \in Sessions, CloseSession(s)
  PROVE  /\ session' \in [Sessions -> SessionState]
         /\ \A t \in Sessions \ {s} : session'[t] = session[t]
         /\ session'[s] = Closed
BY ClosedType DEF Base, TypeOK, SessionState, Places, CloseSession

LEMMA OpenStep ==
  ASSUME Base, NEW s \in Sessions, NEW pc \in Places, OpenSession(s, pc)
  PROVE  /\ session' \in [Sessions -> SessionState]
         /\ \A t \in Sessions \ {s} : session'[t] = session[t]
         /\ session'[s].pc = pc /\ session'[s].seen = run.status /\ session'[s].status = run.status
         /\ session'[s].current = run.current /\ session'[s].dirty = {}
<1> DEFINE x == [Closed EXCEPT !.pc = pc, !.seen = run.status, !.status = run.status, !.current = run.current]
<1>1. session' = [session EXCEPT ![s] = x] /\ run \in RunRow
  BY DEF OpenSession, Base, TypeOK, RunRow
<1>2. x \in SessionState
  BY <1>1, ClosedType DEF SessionState, RunRow
<1>3. x.pc = pc /\ x.seen = run.status /\ x.status = run.status /\ x.current = run.current /\ x.dirty = {}
  BY DEF Closed
<1>4. QED BY <1>1, <1>2, <1>3 DEF Base, TypeOK, SessionState, Places

LEMMA SessionType ==
  ASSUME Base
  PROVE  session \in [Sessions -> SessionState] /\ run \in RunRow /\ step \in [Rows -> StepRow]
BY DEF Base, TypeOK, SessionState, Places, RunRow, StepRow

LEMMA TaskPlansStep ==
  ASSUME Base, NEW plan \in Plans, TaskPlans(plan)
  PROVE  /\ session' \in [Sessions -> SessionState]
         /\ \A t \in Sessions \ {Task} : session'[t] = session[t]
         /\ session'[Task].pc = "execute"
         /\ session'[Task].seen = "executing" /\ session'[Task].status = "executing"
         /\ session'[Task].current = session[Task].current
         /\ session'[Task].dirty = {} /\ session'[Task].todo = DOMAIN plan
         /\ \A r \in Rows : session'[Task].view[r] = IF r \in DOMAIN plan THEN "pending" ELSE "expired"
<1> DEFINE x == [session[Task] EXCEPT !.pc = "execute", !.seen = "executing", !.status = "executing",
                    !.view = [r \in Rows |-> IF r \in DOMAIN plan THEN "pending" ELSE "expired"],
                    !.todo = DOMAIN plan]
<1>1. session' = [session EXCEPT ![Task] = x] /\ Task \in Sessions /\ session[Task] \in SessionState
  BY SessionType DEF TaskPlans, Sessions
<1>2. DOMAIN plan \subseteq Rows
  <2>1. plan \in Seq(BOOLEAN)
    BY PlansAssumption
  <2>2. DOMAIN plan = 1 .. Len(plan) /\ Len(plan) \in Nat
    BY <2>1
  <2>3. QED BY <2>2, BoundsAssumption DEF TaskPlans, Rows, Base, TypeOK
<1>3. x \in SessionState
  BY <1>1, <1>2 DEF SessionState, Places, RunStatus, StepStatus
<1>4. session[Task].dirty = {}
  BY <1>1 DEF Base, SessionI, Holding, TaskPlans
<1>5. x.pc = "execute" /\ x.seen = "executing" /\ x.status = "executing" /\ x.current = session[Task].current
      /\ x.dirty = {} /\ x.todo = DOMAIN plan
      /\ x.view = [r \in Rows |-> IF r \in DOMAIN plan THEN "pending" ELSE "expired"]
  BY <1>1, <1>4 DEF SessionState
<1>6. session' \in [Sessions -> SessionState] /\ session'[Task] = x
      /\ \A t \in Sessions \ {Task} : session'[t] = session[t]
  BY <1>1, <1>3, SessionType
<1>7. QED BY <1>5, <1>6

LEMMA SkipStepStep ==
  ASSUME Base, NEW s \in Sessions, NEW r \in Rows, SkipStep(s, r)
  PROVE  /\ session' \in [Sessions -> SessionState]
         /\ \A t \in Sessions \ {s} : session'[t] = session[t]
         /\ session'[s].todo = session[s].todo \ {r}
         /\ session'[s].pc = session[s].pc
         /\ session'[s].seen = session[s].seen /\ session'[s].status = session[s].status
         /\ session'[s].current = session[s].current /\ session'[s].moved = session[s].moved
         /\ session'[s].view = session[s].view /\ session'[s].dirty = session[s].dirty
<1> DEFINE x == [session[s] EXCEPT !.todo = session[s].todo \ {r}]
<1>1. session' = [session EXCEPT ![s] = x] /\ session[s] \in SessionState
  BY SessionType DEF SkipStep
<1>2. x \in SessionState
  BY <1>1 DEF SessionState
<1>3. session' \in [Sessions -> SessionState] /\ session'[s] = x
      /\ \A t \in Sessions \ {s} : session'[t] = session[t]
  BY <1>1, <1>2, SessionType
<1>4. QED BY <1>1, <1>3 DEF SessionState

\* What session s holds after it paused the run at step r.
Asked(s, r) ==
  /\ session' \in [Sessions -> SessionState]
  /\ \A t \in Sessions \ {s} : session'[t] = session[t]
  /\ session'[s].pc = "commit" /\ session'[s].status = "awaiting_confirmation"
  /\ session'[s].current = step[r].index
  /\ ~session'[s].moved =>
       ~session[s].moved /\ session[s].seen # "expired" /\ step[r].index = session[s].current
  /\ session'[s].view[r] = "awaiting"
  /\ \A q \in Rows \ {r} : session'[s].view[q] = session[s].view[q]
  /\ session'[s].dirty = (IF Status(s, r) = "awaiting" THEN session[s].dirty
       ELSE session[s].dirty \cup {r})
  /\ session'[s].seen = session[s].seen /\ session'[s].todo = session[s].todo

LEMMA AskStepStep ==
  ASSUME Base, NEW s \in Sessions, NEW r \in Rows, AskStep(s, r)
  PROVE  Asked(s, r)
<1> DEFINE m == session[s].moved \/ session[s].seen = "expired" \/ step[r].index # session[s].current
           d == IF Status(s, r) = "awaiting" THEN session[s].dirty ELSE session[s].dirty \cup {r}
           x == [session[s] EXCEPT !.pc = "commit", !.status = "awaiting_confirmation",
                   !.current = step[r].index, !.moved = m, !.view[r] = "awaiting", !.dirty = d]
<1>1. session' = [session EXCEPT ![s] = x] /\ session[s] \in SessionState /\ step[r].index \in Nat
  <2>1. session' = [session EXCEPT ![s] = x]
    BY DEF AskStep
  <2>2. QED BY <2>1, SessionType DEF StepRow
<1>2. m \in BOOLEAN /\ d \in SUBSET Rows
  BY <1>1 DEF SessionState
<1> HIDE DEF m, d
<1>3. x \in SessionState
  BY <1>1, <1>2 DEF SessionState, Places, RunStatus, Terminal, StepStatus
<1>4. x.pc = "commit" /\ x.status = "awaiting_confirmation" /\ x.current = step[r].index /\ (x.moved = m)
      /\ x.view[r] = "awaiting" /\ (\A q \in Rows \ {r} : x.view[q] = session[s].view[q])
      /\ x.dirty = d /\ x.seen = session[s].seen /\ x.todo = session[s].todo
  BY <1>1 DEF SessionState
<1>5. session' \in [Sessions -> SessionState] /\ session'[s] = x
      /\ \A t \in Sessions \ {s} : session'[t] = session[t]
  BY <1>1, <1>3, SessionType
<1>6. QED BY <1>4, <1>5 DEF m, d, Asked

\* What session s holds after it invoked the capability of step r.
Invoked(s, r, commits, fails) ==
  /\ session' \in [Sessions -> SessionState]
  /\ \A t \in Sessions \ {s} : session'[t] = session[t]
  /\ session'[s].pc = IF fails THEN "commit" ELSE "execute"
  /\ session'[s].status = IF fails THEN "failed" ELSE IF commits THEN "expired" ELSE session[s].status
  /\ session'[s].seen = IF commits THEN "expired" ELSE session[s].seen
  /\ session'[s].current = session[s].current
  /\ ~commits /\ session[s].moved => session'[s].moved
  /\ session'[s].view[r] = IF fails THEN "failed" ELSE "completed"
  /\ \A q \in Rows \ {r} : session'[s].view[q] = IF commits THEN "expired" ELSE session[s].view[q]
  /\ session'[s].dirty = IF commits THEN {r} ELSE session[s].dirty \cup {r}
  /\ session'[s].todo = session[s].todo \ {r}

LEMMA InvokeStepStep ==
  ASSUME Base, NEW s \in Sessions, NEW r \in Rows, NEW commits \in BOOLEAN, NEW aborts \in BOOLEAN,
         NEW fails \in BOOLEAN, InvokeStep(s, r, commits, aborts, fails)
  PROVE  Invoked(s, r, commits, fails)
<1> DEFINE flushed == IF commits THEN [session[s] EXCEPT !.seen = "expired", !.status = "expired", !.moved = FALSE,
                                         !.view = [q \in Rows |-> "expired"], !.dirty = {}]
                                 ELSE session[s]
           done == [flushed EXCEPT !.view[r] = IF fails THEN "failed" ELSE "completed", !.dirty = @ \cup {r},
                                   !.todo = @ \ {r}, !.aborted = @ \/ aborts]
           x == IF fails THEN [done EXCEPT !.pc = "commit", !.status = "failed"] ELSE done
<1>1. session' = [session EXCEPT ![s] = x] /\ session[s] \in SessionState /\ session[s].pc = "execute"
  BY SessionType DEF InvokeStep, Reads
<1>2. flushed \in SessionState
  BY <1>1 DEF SessionState
<1>3. /\ flushed.pc = "execute" /\ flushed.current = session[s].current /\ flushed.todo = session[s].todo
      /\ flushed.seen = (IF commits THEN "expired" ELSE session[s].seen)
      /\ flushed.status = (IF commits THEN "expired" ELSE session[s].status)
      /\ (~commits /\ session[s].moved => flushed.moved)
      /\ flushed.dirty = (IF commits THEN {} ELSE session[s].dirty)
      /\ \A q \in Rows : flushed.view[q] = IF commits THEN "expired" ELSE session[s].view[q]
  BY <1>1 DEF SessionState
<1> HIDE DEF flushed
<1>4. done \in SessionState
  BY <1>2 DEF SessionState, StepStatus
<1>5. /\ done.pc = flushed.pc /\ done.current = flushed.current /\ done.seen = flushed.seen
      /\ done.status = flushed.status /\ (flushed.moved => done.moved)
      /\ done.todo = flushed.todo \ {r} /\ done.dirty = flushed.dirty \cup {r}
      /\ done.view[r] = (IF fails THEN "failed" ELSE "completed")
      /\ \A q \in Rows \ {r} : done.view[q] = flushed.view[q]
  BY <1>2 DEF SessionState
<1> HIDE DEF done
<1>6. x \in SessionState
  BY <1>4 DEF SessionState, Places, RunStatus, Terminal
<1>7. /\ x.pc = (IF fails THEN "commit" ELSE done.pc)
      /\ x.status = (IF fails THEN "failed" ELSE done.status)
      /\ x.current = done.current /\ x.seen = done.seen /\ (done.moved => x.moved)
      /\ x.todo = done.todo /\ x.dirty = done.dirty /\ x.view = done.view
  BY <1>4 DEF SessionState
<1> HIDE DEF x
<1>8. session' \in [Sessions -> SessionState] /\ session'[s] = x
      /\ \A t \in Sessions \ {s} : session'[t] = session[t]
  BY <1>1, <1>6, SessionType
<1>9. /\ x.pc = (IF fails THEN "commit" ELSE "execute")
      /\ x.status = (IF fails THEN "failed" ELSE IF commits THEN "expired" ELSE session[s].status)
      /\ x.seen = (IF commits THEN "expired" ELSE session[s].seen) /\ x.current = session[s].current
  BY <1>3, <1>5, <1>7
<1>10. ~commits /\ session[s].moved => x.moved
  BY <1>3, <1>5, <1>7
<1>11. /\ x.view[r] = (IF fails THEN "failed" ELSE "completed")
       /\ \A q \in Rows \ {r} : x.view[q] = IF commits THEN "expired" ELSE session[s].view[q]
       /\ x.dirty = (IF commits THEN {r} ELSE session[s].dirty \cup {r})
       /\ x.todo = session[s].todo \ {r}
  BY <1>3, <1>5, <1>7
<1>12. QED BY <1>8, <1>9, <1>10, <1>11 DEF Invoked

LEMMA PlanDoneStep ==
  ASSUME Base, NEW s \in Sessions, PlanDone(s)
  PROVE  /\ session' \in [Sessions -> SessionState]
         /\ \A t \in Sessions \ {s} : session'[t] = session[t]
         /\ session'[s].pc = "commit" /\ session'[s].status = "completed"
         /\ session'[s].seen = session[s].seen /\ session'[s].todo = session[s].todo
         /\ session'[s].current = session[s].current /\ session'[s].moved = session[s].moved
         /\ session'[s].view = session[s].view /\ session'[s].dirty = session[s].dirty
<1> DEFINE x == [session[s] EXCEPT !.pc = "commit", !.status = "completed"]
<1>1. session' = [session EXCEPT ![s] = x] /\ session[s] \in SessionState
  BY SessionType DEF PlanDone
<1>2. x \in SessionState
  BY <1>1 DEF SessionState, Places, RunStatus, Terminal
<1>3. session' \in [Sessions -> SessionState] /\ session'[s] = x
      /\ \A t \in Sessions \ {s} : session'[t] = session[t]
  BY <1>1, <1>2, SessionType
<1>4. QED BY <1>1, <1>3 DEF SessionState

\* What session s holds after it loaded the steps and marked one.
Marked(s, pc, mark) ==
  /\ session' \in [Sessions -> SessionState]
  /\ \A t \in Sessions \ {s} : session'[t] = session[t]
  /\ session'[s].pc = pc /\ session'[s].status = "executing" /\ session'[s].todo = Present
  /\ session'[s].seen = session[s].seen /\ session'[s].current = session[s].current
  /\ session'[s].dirty \subseteq Decided(s)
  /\ \A r \in Rows : session'[s].view[r] = IF r \in session'[s].dirty THEN mark
                                           ELSE IF r \in Present THEN step[r].status ELSE "expired"

LEMMA LoadStepsStep ==
  ASSUME Base, NEW s \in Sessions, NEW pc \in {"execute", "replan"}, NEW mark \in {"confirmed", "rejected"},
         LoadSteps(s, pc, "executing", mark)
  PROVE  Marked(s, pc, mark)
<1>1. Decided(s) \subseteq Rows /\ Present \subseteq Rows /\ session[s] \in SessionState
  BY SessionType DEF Decided, Present
<1>2. PICK d \in IF Decided(s) = {} THEN {{}} ELSE {{r} : r \in Decided(s)} :
        session' = [session EXCEPT ![s] =
          [session[s] EXCEPT !.pc = pc, !.status = "executing",
                   !.view = [r \in Rows |-> IF r \in d THEN mark
                                            ELSE IF r \in Present THEN step[r].status ELSE "expired"],
                   !.dirty = d, !.todo = Present]]
  BY DEF LoadSteps
<1> DEFINE v == [r \in Rows |-> IF r \in d THEN mark ELSE IF r \in Present THEN step[r].status ELSE "expired"]
           x == [session[s] EXCEPT !.pc = pc, !.status = "executing", !.view = v, !.dirty = d, !.todo = Present]
<1>3. d \subseteq Decided(s)
  BY <1>2
<1>4. v \in [Rows -> StepStatus \cup {"expired"}]
  BY <1>1 DEF Present, StepStatus
<1>5. \A r \in Rows : v[r] = IF r \in d THEN mark ELSE IF r \in Present THEN step[r].status ELSE "expired"
  OBVIOUS
<1> HIDE DEF v
<1>6. x \in SessionState
  BY <1>1, <1>3, <1>4 DEF SessionState, Places, RunStatus, Terminal
<1>7. x.pc = pc /\ x.status = "executing" /\ x.view = v /\ x.dirty = d /\ x.todo = Present
      /\ x.seen = session[s].seen /\ x.current = session[s].current
  BY <1>1 DEF SessionState
<1>8. session' = [session EXCEPT ![s] = x]
  BY <1>2 DEF v
<1> HIDE DEF x
<1>9. session' \in [Sessions -> SessionState] /\ session'[s] = x
      /\ \A t \in Sessions \ {s} : session'[t] = session[t]
  BY <1>6, <1>8, SessionType
<1>10. QED BY <1>3, <1>5, <1>7, <1>9 DEF Marked

LEMMA FlushStep ==
  ASSUME Base, NEW s \in Sessions, Flushable(s)
  PROVE  /\ RunFlushed(s) \in RunRow
         /\ RunFlushed(s).status =
              (IF session[s].status = session[s].seen THEN run.status ELSE session[s].status)
         /\ RunFlushed(s).current = (IF session[s].moved THEN session[s].current ELSE run.current)
         /\ StepsFlushed(s) \in [Rows -> StepRow]
         /\ \A r \in Rows :
              /\ StepsFlushed(s)[r].index = step[r].index /\ StepsFlushed(s)[r].asks = step[r].asks
              /\ StepsFlushed(s)[r].status =
                   IF r \in session[s].dirty THEN session[s].view[r] ELSE step[r].status
<1>1. session[s] \in SessionState /\ run \in RunRow /\ step \in [Rows -> StepRow]
  BY SessionType
<1>2. session[s].status = session[s].seen \/ session[s].status \in RunStatus
  BY <1>1 DEF SessionState, Base, SessionI
<1>3. \A r \in Rows : r \in session[s].dirty => session[s].view[r] \in StepStatus
  BY <1>1 DEF SessionState, Base, SessionI
<1>4. QED
  <2>1. RunFlushed(s) \in RunRow
    BY <1>1, <1>2 DEF RunFlushed, RunRow, SessionState
  <2>2. RunFlushed(s).status = (IF session[s].status = session[s].seen THEN run.status ELSE session[s].status)
        /\ RunFlushed(s).current = (IF session[s].moved THEN session[s].current ELSE run.current)
    BY <1>1 DEF RunFlushed, RunRow
  <2>3. StepsFlushed(s) \in [Rows -> StepRow]
    BY <1>1, <1>3 DEF StepsFlushed, StepRow
  <2>4. \A r \in Rows :
              /\ StepsFlushed(s)[r].index = step[r].index /\ StepsFlushed(s)[r].asks = step[r].asks
              /\ StepsFlushed(s)[r].status =
                   IF r \in session[s].dirty THEN session[s].view[r] ELSE step[r].status
    BY <1>1 DEF StepsFlushed, StepRow
  <2>5. QED BY <2>1, <2>2, <2>3, <2>4

LEMMA WithPlanRows ==
  ASSUME NEW rows \in [Rows -> StepRow], NEW plan \in Plans, NEW from \in Nat, inserted \in Nat
  PROVE  /\ WithPlan(rows, plan, from) \in [Rows -> StepRow]
         /\ Len(plan) \in Nat \ {0}
         /\ DOMAIN plan = 1 .. Len(plan)
         /\ \A r \in Rows :
              IF r - inserted \in 1 .. Len(plan)
              THEN WithPlan(rows, plan, from)[r].status = "pending"
              ELSE WithPlan(rows, plan, from)[r] = rows[r]
<1>1. plan \in Seq(BOOLEAN) /\ plan # <<>>
  BY PlansAssumption
<1>2. DOMAIN plan = 1 .. Len(plan) /\ Len(plan) \in Nat \ {0} /\ \A k \in 1 .. Len(plan) : plan[k] \in BOOLEAN
  BY <1>1
<1>3. \A r \in Rows : r \in Int
  BY DEF Rows
<1>4. \A r \in Rows : r - inserted \in 1 .. Len(plan) =>
        [index |-> from + (r - inserted) - 1, asks |-> plan[r - inserted], status |-> "pending"] \in StepRow
  BY <1>2, <1>3 DEF StepRow, StepStatus
<1>5. QED BY <1>2, <1>4 DEF WithPlan

LEMMA ReplanRows ==
  ASSUME Base, NEW s \in Sessions, NEW plan \in Plans, Replan(s, plan), Flushable(s), ~Collides(s, plan)
  PROVE  /\ step' \in [Rows -> StepRow]
         /\ \A r \in Rows :
              IF r - inserted \in 1 .. Len(plan) THEN step'[r].status = "pending"
              ELSE /\ step'[r].asks = step[r].asks
                   /\ step'[r].status = IF step[r].status \in {"pending", "rejected"} THEN "deleted"
                                        ELSE IF r \in session[s].dirty THEN "rejected" ELSE step[r].status
<1> DEFINE left == [r \in Rows |-> IF r \in Present \ Kept THEN [step[r] EXCEPT !.status = "deleted"]
                              ELSE IF r \in session[s].dirty THEN [step[r] EXCEPT !.status = "rejected"]
                              ELSE step[r]]
<1>1. step \in [Rows -> StepRow] /\ session[s].current \in Nat /\ inserted \in Nat
  BY SessionType DEF SessionState, Base, TypeOK
<1>2. left \in [Rows -> StepRow]
  BY <1>1 DEF StepRow, StepStatus
<1>3. \A r \in Rows :
        /\ left[r].asks = step[r].asks
        /\ left[r].status = IF step[r].status \in {"pending", "rejected"} THEN "deleted"
                            ELSE IF r \in session[s].dirty THEN "rejected" ELSE step[r].status
  BY <1>1 DEF StepRow, Present, Kept, StepStatus
<1>4. step' = WithPlan(left, plan, session[s].current)
  BY DEF Replan
<1> HIDE DEF left
<1>5. QED BY <1>1, <1>2, <1>3, <1>4, WithPlanRows

-----------------------------------------------------------------------------
(* Base is kept by every step. *)

\* TypeOK from what its conjuncts say.
LEMMA TypeBack ==
  ASSUME session' \in [Sessions -> SessionState], run' \in RunRow, step' \in [Rows -> StepRow],
         inserted' \in 0 .. MaxRows, calls' \in [Rows -> Nat], lost' \in [Rows -> Nat],
         overlap' \in BOOLEAN, faults' \in 0 .. MaxFaults
  PROVE  TypeOK'
BY DEF TypeOK, SessionState, Places, RunRow, StepRow

LEMMA TypeForth ==
  ASSUME Base
  PROVE  inserted \in 0 .. MaxRows /\ calls \in [Rows -> Nat] /\ lost \in [Rows -> Nat]
         /\ overlap \in BOOLEAN /\ faults \in 0 .. MaxFaults
BY DEF Base, TypeOK

LEMMA SessionsDistinct ==
  /\ Task \in Sessions /\ Job \in Sessions /\ Task # Job
  /\ \A q \in Requests : q \in Sessions /\ q # Task /\ q # Job
BY SessionsAssumption DEF Sessions

LEMMA LoseType == ASSUME Base, NEW rows, Lose(rows) PROVE lost' \in [Rows -> Nat]
<1>1. \A r \in Rows : lost[r] + (IF r \in rows THEN 1 ELSE 0) \in Nat
  BY TypeForth
<1>2. QED BY <1>1 DEF Lose

\* A session that closes.
LEMMA CloseBase ==
  ASSUME Base, NEW s \in Sessions, CloseSession(s)
  PROVE  SessionI' /\ session' \in [Sessions -> SessionState]
BY CloseStep DEF Base, SessionI, Holding, Busy, Closed

\* A session that opens.
LEMMA OpenBase ==
  ASSUME Base, NEW s \in Sessions, NEW pc \in {"plan", "confirm", "reject", "cancel"}, OpenSession(s, pc),
         pc = "plan" => s = Task, pc \in {"confirm", "reject"} => s \in Requests,
         pc = "cancel" => s # Task
  PROVE  SessionI' /\ session' \in [Sessions -> SessionState]
<1>1. pc \in Places
  BY DEF Places
<1>2. run.status # "expired"
  BY SessionType DEF RunRow, RunStatus, Terminal
<1>3. QED BY <1>1, <1>2, OpenStep, SessionsDistinct DEF Base, SessionI, Holding, Busy

LEMMA TaskReadsBase == ASSUME Base, TaskReads PROVE Base'
<1>1. session' \in [Sessions -> SessionState] /\ SessionI'
  BY CloseBase, OpenBase, SessionsDistinct DEF TaskReads
<1>2. TypeOK'
  BY <1>1, TypeBack, TypeForth, SessionType DEF TaskReads
<1>3. RowsI'
  BY DEF Base, RowsI, TaskReads
<1>4. QED BY <1>1, <1>2, <1>3 DEF Base

LEMMA TaskFailsBase == ASSUME Base, TaskFails PROVE Base'
<1>1. session' \in [Sessions -> SessionState] /\ SessionI'
  BY CloseBase, SessionsDistinct DEF TaskFails
<1>2. run' \in RunRow
  BY SessionType DEF TaskFails, RunRow, RunStatus, Terminal
<1>3. TypeOK'
  BY <1>1, <1>2, TypeBack, TypeForth, SessionType DEF TaskFails
<1>4. RowsI'
  BY DEF Base, RowsI, TaskFails
<1>5. QED BY <1>1, <1>3, <1>4 DEF Base

\* Rows of a new plan are the next ones.
LEMMA RowsUsed ==
  ASSUME Base, NEW n \in Nat \ {0}, inserted' = inserted + n,
         \A r \in Rows : step'[r].status = "unused" <=>
                         step[r].status = "unused" /\ r - inserted \notin 1 .. n
  PROVE  RowsI'
<1>1. inserted \in Nat /\ \A r \in Rows : r \in Int
  BY TypeForth, BoundsAssumption DEF Rows
<1>2. \A r \in Rows : r > inserted <=> step[r].status = "unused"
  BY DEF Base, RowsI
<1>3. \A r \in Rows : r > inserted + n <=> r > inserted /\ r - inserted \notin 1 .. n
  BY <1>1
<1>4. QED BY <1>2, <1>3 DEF RowsI

LEMMA TaskPlansBase == ASSUME Base, NEW plan \in Plans, TaskPlans(plan) PROVE Base'
<1>1. session' \in [Sessions -> SessionState] /\ Task \in Sessions
  BY TaskPlansStep, SessionsDistinct
<1>2. SessionI'
  BY TaskPlansStep, SessionsDistinct DEF Base, SessionI, Holding, Busy
<1>3. run' \in RunRow
  BY SessionType DEF TaskPlans, RunRow, RunStatus, Terminal
<1>4. /\ step' \in [Rows -> StepRow] /\ Len(plan) \in Nat \ {0}
      /\ \A r \in Rows : IF r - inserted \in 1 .. Len(plan) THEN step'[r].status = "pending"
                                                            ELSE step'[r] = step[r]
  <2>1. inserted \in Nat /\ 0 \in Nat /\ step \in [Rows -> StepRow]
    BY SessionType, TypeForth, BoundsAssumption
  <2>2. step' = WithPlan(step, plan, 0)
    BY DEF TaskPlans
  <2>3. QED BY <2>1, <2>2, WithPlanRows
<1>5. inserted' \in 0 .. MaxRows /\ inserted' = inserted + Len(plan)
  BY <1>4, TypeForth, BoundsAssumption DEF TaskPlans
<1>6. TypeOK'
  BY <1>1, <1>3, <1>4, <1>5, TypeBack, TypeForth DEF TaskPlans
<1>7. RowsI'
  <2>1. \A r \in Rows : step'[r].status = "unused" <=>
                          step[r].status = "unused" /\ r - inserted \notin 1 .. Len(plan)
    BY <1>4
  <2>2. QED BY <1>4, <1>5, <2>1, RowsUsed
<1>8. QED BY <1>2, <1>6, <1>7 DEF Base

\* The steps of execute_plan that neither flush nor close.
LEMMA SkipStepBase == ASSUME Base, NEW s \in Sessions, NEW r \in Rows, SkipStep(s, r) PROVE Base'
<1>1. session' \in [Sessions -> SessionState]
  BY SkipStepStep
<1>2. SessionI'
  BY SkipStepStep DEF Base, SessionI, Holding, Busy
<1>3. TypeOK'
  BY <1>1, TypeBack, TypeForth, SessionType DEF SkipStep
<1>4. RowsI'
  BY DEF Base, RowsI, SkipStep
<1>5. QED BY <1>2, <1>3, <1>4 DEF Base

LEMMA AskStepBase == ASSUME Base, NEW s \in Sessions, NEW r \in Rows, AskStep(s, r) PROVE Base'
<1>0. Asked(s, r)
  BY AskStepStep
<1>1. session' \in [Sessions -> SessionState]
  BY <1>0 DEF Asked
<1>2. session[s].pc = "execute"
  BY DEF AskStep, Reads
<1>3. \A q \in session'[s].dirty : session'[s].view[q] \notin {"expired", "pending"}
  <2>1. \A q \in session'[s].dirty : q \in Rows /\ (q = r \/ q \in session[s].dirty)
    BY <1>0, <1>1 DEF Asked, SessionState
  <2>2. QED BY <1>0, <2>1 DEF Asked, Base, SessionI
<1>4. SessionI'
  BY <1>0, <1>2, <1>3 DEF Asked, Base, SessionI, Holding, Busy
<1>5. TypeOK'
  BY <1>1, TypeBack, TypeForth, SessionType DEF AskStep
<1>6. RowsI'
  BY DEF Base, RowsI, AskStep
<1>7. QED BY <1>4, <1>5, <1>6 DEF Base

LEMMA FlushBase ==
  ASSUME Base, NEW s \in Sessions, Flushable(s), run' = RunFlushed(s), step' = StepsFlushed(s),
         inserted' = inserted
  PROVE  run' \in RunRow /\ step' \in [Rows -> StepRow] /\ RowsI'
<1>1. run' \in RunRow /\ step' \in [Rows -> StepRow]
  BY FlushStep
<1>2. \A r \in Rows : step'[r].status = "unused" <=> step[r].status = "unused"
  <2>1. \A r \in session[s].dirty :
          r \in Rows /\ session[s].view[r] # "unused" /\ step[r].status # "unused"
    BY SessionType DEF SessionState, Flushable, Present, StepStatus
  <2>2. QED BY <2>1, FlushStep
<1>3. QED BY <1>1, <1>2 DEF Base, RowsI

LEMMA InvokeStepBase ==
  ASSUME Base, NEW s \in Sessions, NEW r \in Rows, NEW commits \in BOOLEAN, NEW aborts \in BOOLEAN,
         NEW fails \in BOOLEAN, InvokeStep(s, r, commits, aborts, fails)
  PROVE  Base'
<1>0. Invoked(s, r, commits, fails)
  BY InvokeStepStep
<1>1. session' \in [Sessions -> SessionState]
  BY <1>0 DEF Invoked
<1>2. session[s].pc = "execute"
  BY DEF InvokeStep, Reads
<1>3. \A q \in session'[s].dirty : session'[s].view[q] \notin {"expired", "pending"}
  <2>1. session'[s].view[r] \in {"failed", "completed"}
    BY <1>0 DEF Invoked
  <2>2. \A q \in session'[s].dirty : q \in Rows /\ (q = r \/ (~commits /\ q \in session[s].dirty))
    BY <1>0, <1>1 DEF Invoked, SessionState
  <2>3. QED BY <1>0, <2>1, <2>2 DEF Invoked, Base, SessionI
<1>4. session'[s].status = "expired" => session'[s].seen = "expired"
  BY <1>0 DEF Invoked, Base, SessionI
<1>5. session'[s].pc \in {"execute", "commit"} /\ \A t \in Sessions \ {s} : session'[t] = session[t]
  BY <1>0 DEF Invoked
<1>6. SessionI'
  BY <1>2, <1>3, <1>4, <1>5 DEF Base, SessionI, Holding, Busy
<1>7. run' \in RunRow /\ step' \in [Rows -> StepRow] /\ RowsI'
  BY FlushBase, SessionType DEF InvokeStep, Base, RowsI
<1>8. calls' \in [Rows -> Nat]
  BY TypeForth DEF InvokeStep
<1>9. TypeOK'
  <2>1. faults' \in 0 .. MaxFaults
    BY TypeForth, BoundsAssumption DEF InvokeStep
  <2>2. QED BY <1>1, <1>7, <1>8, <2>1, TypeBack, TypeForth DEF InvokeStep
<1>10. QED BY <1>6, <1>7, <1>9 DEF Base

LEMMA InvokeRefusedBase == ASSUME Base, NEW s \in Sessions, NEW r \in Rows, InvokeRefused(s, r) PROVE Base'
<1>1. session' \in [Sessions -> SessionState] /\ SessionI'
  BY CloseBase DEF InvokeRefused
<1>2. calls' \in [Rows -> Nat] /\ lost' \in [Rows -> Nat]
  BY TypeForth, LoseType DEF InvokeRefused
<1>3. TypeOK'
  BY <1>1, <1>2, TypeBack, TypeForth, SessionType DEF InvokeRefused
<1>4. RowsI'
  BY DEF Base, RowsI, InvokeRefused
<1>5. QED BY <1>1, <1>3, <1>4 DEF Base

LEMMA PlanDoneBase == ASSUME Base, NEW s \in Sessions, PlanDone(s) PROVE Base'
<1>1. session' \in [Sessions -> SessionState]
  BY PlanDoneStep
<1>2. SessionI'
  <2>1. session[s].pc = "execute"
    BY DEF PlanDone
  <2>2. QED BY <2>1, PlanDoneStep DEF Base, SessionI, Holding, Busy
<1>3. TypeOK'
  BY <1>1, TypeBack, TypeForth, SessionType DEF PlanDone
<1>4. RowsI'
  BY DEF Base, RowsI, PlanDone
<1>5. QED BY <1>2, <1>3, <1>4 DEF Base

LEMMA CommitBase == ASSUME Base, NEW s \in Sessions, Commit(s) PROVE Base'
<1>1. session' \in [Sessions -> SessionState] /\ SessionI'
  BY CloseBase DEF Commit, GiveUp
<1>2. run' \in RunRow /\ step' \in [Rows -> StepRow] /\ RowsI'
  BY FlushBase, SessionType DEF Commit, Base, RowsI
<1>3. lost' \in [Rows -> Nat]
  BY TypeForth, LoseType DEF Commit, GiveUp
<1>4. TypeOK'
  BY <1>1, <1>2, <1>3, TypeBack, TypeForth DEF Commit
<1>5. QED BY <1>1, <1>2, <1>4 DEF Base

LEMMA LoadStepsBase ==
  ASSUME Base, NEW s \in Requests,
         NEW pc \in {"execute", "replan"}, NEW mark \in {"confirmed", "rejected"},
         LoadSteps(s, pc, "executing", mark)
  PROVE  SessionI' /\ session' \in [Sessions -> SessionState]
<1>1. s \in Sessions /\ s # Job /\ s # Task
  BY SessionsDistinct
<1>2. Marked(s, pc, mark) /\ session' \in [Sessions -> SessionState]
  BY <1>1, LoadStepsStep DEF Marked
<1>3. \A q \in session'[s].dirty : session'[s].view[q] \notin {"expired", "pending"}
  <2>1. \A q \in session'[s].dirty : q \in Rows
    BY <1>1, <1>2 DEF SessionState
  <2>2. QED BY <1>2, <2>1 DEF Marked
<1>4. session'[s].status # "expired" /\ session'[s].pc = pc /\ \A t \in Sessions \ {s} : session'[t] = session[t]
  BY <1>2 DEF Marked
<1>5. QED BY <1>1, <1>2, <1>3, <1>4 DEF Base, SessionI, Holding, Busy

LEMMA ConfirmBase == ASSUME Base, NEW s \in Sessions, Confirm(s) PROVE Base'
<1>1. session' \in [Sessions -> SessionState] /\ SessionI'
  <2>1. s \in Requests
    BY DEF Confirm, Base, SessionI
  <2>2. QED BY <2>1, LoadStepsBase DEF Confirm
<1>2. TypeOK'
  BY <1>1, TypeBack, TypeForth, SessionType DEF Confirm
<1>3. RowsI'
  BY DEF Base, RowsI, Confirm
<1>4. QED BY <1>1, <1>2, <1>3 DEF Base

LEMMA RejectBase == ASSUME Base, NEW s \in Sessions, Reject(s) PROVE Base'
<1>1. session' \in [Sessions -> SessionState] /\ SessionI'
  <2>1. s \in Requests
    BY DEF Reject, Base, SessionI
  <2>2. QED BY <2>1, LoadStepsBase DEF Reject
<1>2. TypeOK'
  BY <1>1, TypeBack, TypeForth, SessionType DEF Reject
<1>3. RowsI'
  BY DEF Base, RowsI, Reject
<1>4. QED BY <1>1, <1>2, <1>3 DEF Base

LEMMA ReplanBase == ASSUME Base, NEW s \in Sessions, NEW plan \in Plans, Replan(s, plan) PROVE Base'
<1>1. session' \in [Sessions -> SessionState] /\ SessionI'
  BY CloseBase DEF Replan
<1>2. CASE Collides(s, plan) \/ ~Flushable(s)
  <2>1. UNCHANGED <<run, step, inserted, calls, lost, overlap, faults>>
    BY <1>2 DEF Replan
  <2>2. QED BY <1>1, <2>1, TypeBack, TypeForth, SessionType DEF Base, RowsI
<1>3. CASE ~Collides(s, plan) /\ Flushable(s)
  <2>1. run' \in RunRow
    BY <1>3, FlushStep DEF Replan
  <2>2. step' \in [Rows -> StepRow] /\ Len(plan) \in Nat \ {0}
    BY <1>3, ReplanRows, SessionType, TypeForth, WithPlanRows
  <2>3. inserted' = inserted + Len(plan) /\ inserted' \in 0 .. MaxRows
    BY <1>3, <2>2, TypeForth, BoundsAssumption DEF Replan
  <2>4. TypeOK'
    BY <1>1, <2>1, <2>2, <2>3, TypeBack, TypeForth DEF Replan
  <2>5. \A r \in Rows : r \in session[s].dirty => step[r].status # "unused"
    BY <1>3 DEF Flushable, Present, StepStatus
  <2>6. \A r \in Rows : step'[r].status = "unused" <=>
                          step[r].status = "unused" /\ r - inserted \notin 1 .. Len(plan)
    BY <1>3, <2>5, ReplanRows
  <2>7. RowsI'
    BY <2>2, <2>3, <2>6, RowsUsed
  <2>8. QED BY <1>1, <2>4, <2>7 DEF Base
<1>4. QED BY <1>2, <1>3

LEMMA OpenDecisionBase ==
  ASSUME Base, NEW s \in Requests, NEW pc \in {"confirm", "reject"}, OpenDecision(s, pc)
  PROVE  Base'
<1>1. session' \in [Sessions -> SessionState] /\ SessionI'
  BY OpenBase, SessionsDistinct DEF OpenDecision
<1>2. overlap' \in BOOLEAN
  BY TypeForth DEF OpenDecision
<1>3. TypeOK'
  BY <1>1, <1>2, TypeBack, TypeForth, SessionType DEF OpenDecision
<1>4. RowsI'
  BY DEF Base, RowsI, OpenDecision
<1>5. QED BY <1>1, <1>3, <1>4 DEF Base

LEMMA OpenCancelBase == ASSUME Base, NEW s \in Requests, OpenCancel(s) PROVE Base'
<1>1. session' \in [Sessions -> SessionState] /\ SessionI'
  BY OpenBase, SessionsDistinct DEF OpenCancel
<1>2. TypeOK'
  BY <1>1, TypeBack, TypeForth, SessionType DEF OpenCancel
<1>3. RowsI'
  BY DEF Base, RowsI, OpenCancel
<1>4. QED BY <1>1, <1>2, <1>3 DEF Base

LEMMA OpenTimeoutBase == ASSUME Base, OpenTimeout PROVE Base'
<1>1. session' \in [Sessions -> SessionState] /\ SessionI'
  BY OpenBase, SessionsDistinct DEF OpenTimeout
<1>2. TypeOK'
  BY <1>1, TypeBack, TypeForth, SessionType DEF OpenTimeout
<1>3. RowsI'
  BY DEF Base, RowsI, OpenTimeout
<1>4. QED BY <1>1, <1>2, <1>3 DEF Base

LEMMA CancelBase == ASSUME Base, NEW s \in Sessions, Cancel(s) PROVE Base'
<1>1. session' \in [Sessions -> SessionState] /\ SessionI'
  BY CloseBase DEF Cancel
<1>2. run' \in RunRow
  BY SessionType DEF Cancel, RunRow, RunStatus, Terminal
<1>3. TypeOK'
  BY <1>1, <1>2, TypeBack, TypeForth, SessionType DEF Cancel
<1>4. RowsI'
  BY DEF Base, RowsI, Cancel
<1>5. QED BY <1>1, <1>3, <1>4 DEF Base

\* The steps that only close a session.
LEMMA StepGoneBase == ASSUME Base, NEW s \in Sessions, NEW r \in Rows, StepGone(s, r) PROVE Base'
<1>1. session' \in [Sessions -> SessionState] /\ SessionI'
  BY CloseBase DEF StepGone, GiveUp
<1>2. TypeOK'
  BY <1>1, LoseType, TypeBack, TypeForth, SessionType DEF StepGone, GiveUp
<1>3. RowsI'
  BY DEF Base, RowsI, StepGone
<1>4. QED BY <1>1, <1>2, <1>3 DEF Base

LEMMA RequestFailsBase == ASSUME Base, NEW s \in Sessions, RequestFails(s) PROVE Base'
<1>1. session' \in [Sessions -> SessionState] /\ SessionI'
  BY CloseBase DEF RequestFails
<1>2. TypeOK'
  BY <1>1, TypeBack, TypeForth, SessionType DEF RequestFails
<1>3. RowsI'
  BY DEF Base, RowsI, RequestFails
<1>4. QED BY <1>1, <1>2, <1>3 DEF Base

LEMMA CrashBase == ASSUME Base, NEW s \in Sessions, Crash(s) PROVE Base'
<1>1. session' \in [Sessions -> SessionState] /\ SessionI'
  BY CloseBase DEF Crash, GiveUp
<1>2. faults' \in 0 .. MaxFaults
  BY TypeForth, BoundsAssumption DEF Crash
<1>3. TypeOK'
  BY <1>1, <1>2, LoseType, TypeBack, TypeForth, SessionType DEF Crash, GiveUp
<1>4. RowsI'
  BY DEF Base, RowsI, Crash
<1>5. QED BY <1>1, <1>3, <1>4 DEF Base

LEMMA InitBase == Init => Base
<1> SUFFICES ASSUME Init PROVE Base
  OBVIOUS
<1>1. \A pc \in Places : [Closed EXCEPT !.pc = pc] \in SessionState
                         /\ [Closed EXCEPT !.pc = pc].pc = pc
                         /\ [Closed EXCEPT !.pc = pc].status = "expired"
                         /\ [Closed EXCEPT !.pc = pc].seen = "expired"
                         /\ [Closed EXCEPT !.pc = pc].dirty = {}
  BY ClosedType DEF SessionState, Closed
<1>2. session \in [Sessions -> SessionState] /\ SessionI
  <2>1. \A s \in Sessions : (IF s = Task THEN "queued" ELSE "closed") \in Places
    BY DEF Places
  <2>2. \A s \in Sessions : session[s] = [Closed EXCEPT !.pc = IF s = Task THEN "queued" ELSE "closed"]
    BY DEF Init
  <2>3. session \in [Sessions -> SessionState]
    BY <1>1, <2>1 DEF Init
  <2>4. \A s \in Sessions : /\ session[s].pc = IF s = Task THEN "queued" ELSE "closed"
                            /\ session[s].status = "expired" /\ session[s].seen = "expired"
                            /\ session[s].dirty = {}
    <3> SUFFICES ASSUME NEW s \in Sessions
                 PROVE  /\ session[s].pc = IF s = Task THEN "queued" ELSE "closed"
                        /\ session[s].status = "expired" /\ session[s].seen = "expired"
                        /\ session[s].dirty = {}
      OBVIOUS
    <3>1. PICK pc \in Places : pc = IF s = Task THEN "queued" ELSE "closed"
      BY <2>1
    <3>2. session[s] = [Closed EXCEPT !.pc = pc]
      BY <2>2, <3>1
    <3>3. QED BY <1>1, <3>1, <3>2
  <2>5. QED BY <2>3, <2>4, SessionsDistinct DEF SessionI, Holding, Busy
<1>3. TypeOK
  <2>1. run \in RunRow /\ step \in [Rows -> StepRow] /\ inserted \in 0 .. MaxRows /\ calls \in [Rows -> Nat]
        /\ lost \in [Rows -> Nat] /\ overlap \in BOOLEAN /\ faults \in 0 .. MaxFaults
    <3>1. run \in RunRow /\ step \in [Rows -> StepRow] /\ calls \in [Rows -> Nat] /\ lost \in [Rows -> Nat]
      BY DEF Init, RunRow, StepRow, RunStatus
    <3>2. inserted = 0 /\ faults = 0
      BY DEF Init
    <3>3. inserted \in 0 .. MaxRows /\ faults \in 0 .. MaxFaults
      BY <3>2, BoundsAssumption
    <3>4. overlap \in BOOLEAN
      BY DEF Init
    <3>5. QED BY <3>1, <3>3, <3>4
  <2>2. QED BY <1>2, <2>1 DEF TypeOK, SessionState, Places, RunRow, StepRow
<1>4. RowsI
  BY DEF Init, RowsI, Rows
<1>5. QED BY <1>2, <1>3, <1>4 DEF Base

LEMMA NextBase == Base /\ [Next]_vars => Base'
<1> SUFFICES ASSUME Base, [Next]_vars PROVE Base'
  OBVIOUS
<1>1. CASE TaskPlanning
  BY <1>1, TaskReadsBase, TaskFailsBase, TaskPlansBase DEF TaskPlanning
<1>2. CASE OpenTimeout
  BY <1>2, OpenTimeoutBase
<1>3. CASE \E s \in Sessions : Work(s)
  BY <1>3, StepGoneBase, SkipStepBase, AskStepBase, InvokeRefusedBase, InvokeStepBase, PlanDoneBase,
     CommitBase, ConfirmBase, RejectBase, CancelBase, RequestFailsBase, ReplanBase DEF Work
<1>4. CASE \E s \in Sessions : Crash(s)
  BY <1>4, CrashBase
<1>5. CASE \E s \in Requests : OpenDecision(s, "confirm") \/ OpenDecision(s, "reject") \/ OpenCancel(s)
  BY <1>5, OpenDecisionBase, OpenCancelBase
<1>6. CASE UNCHANGED vars
  BY <1>6 DEF vars, Base, TypeOK, SessionI, RowsI, Holding, Busy
<1>7. QED BY <1>1, <1>2, <1>3, <1>4, <1>5, <1>6 DEF Next

\* The rows, the sessions and the counters keep their types.
THEOREM TypeCorrect == Spec => []TypeOK
<1>1. Base => TypeOK
  BY DEF Base
<1>2. QED BY InitBase, NextBase, <1>1, PTL DEF Spec

-----------------------------------------------------------------------------
(* Calm is kept while no two decisions overlap. *)

\* While s is busy, everyone else is idle; a step of s leaves them so.
LEMMA OthersIdle ==
  ASSUME Calm, NEW s \in Sessions, Busy(s), \A t \in Sessions \ {s} : session'[t] = session[t]
  PROVE  /\ \A t \in Sessions \ {s} : ~Busy(t) /\ ~Holding(t)
         /\ \A t \in Sessions \ {s} : ~Busy(t)' /\ ~Holding(t)'
         /\ Alone'
BY DEF Calm, Alone, Busy, Holding

\* What Calm asks for once nobody is busy.
LEMMA CalmIdle ==
  ASSUME Base', \A t \in Sessions : ~Busy(t)',
         \A r \in Rows : Fits(step[r].status, r)',
         \A r \in Rows : step'[r].status = "failed" => run'.status \in Terminal,
         DoneI', AwaitI',
         \A r \in Rows : calls'[r] <= 1 + lost'[r] /\
                         (calls'[r] > lost'[r] => step'[r].status \in {"completed", "failed"})
  PROVE  Calm'
<1>1. \A t \in Sessions : session'[t].pc \notin {"queued", "plan", "confirm", "reject", "replan", "execute", "commit"}
  BY DEF Busy
<1>2. Alone' /\ HoldI' /\ OverI'
  BY <1>1 DEF Alone, HoldI, OverI, Busy, Holding
<1>3. StatusI'
  BY <1>1 DEF StatusI, Holding
<1>4. Task \in Sessions /\ session'[Task].pc = "closed"
  BY <1>1, SessionsDistinct DEF Base, TypeOK, SessionI
<1>5. StartI'
  BY <1>1, <1>4 DEF StartI
<1>6. CallsI'
  BY DEF CallsI
<1>7. BlockI'
  BY <1>1 DEF BlockI
<1>8. QED BY <1>2, <1>3, <1>5, <1>6, <1>7 DEF Calm

\* A busy session that closes leaves nobody busy.
LEMMA AllIdle ==
  ASSUME Base, Calm, NEW s \in Sessions, Busy(s), CloseSession(s)
  PROVE  \A t \in Sessions : ~Busy(t)'
BY CloseStep, OthersIdle DEF Closed, Busy

\* A busy session closes and changes no row: what it invoked is counted.
LEMMA CloseCalm ==
  ASSUME Base, Base', Calm, NEW s \in Sessions, Busy(s), CloseSession(s), UNCHANGED <<run, step>>,
         \A r \in Rows : step[r].status = "completed" => calls'[r] > 0,
         \A r \in Rows : calls'[r] <= 1 + lost'[r] /\
                         (calls'[r] > lost'[r] => step[r].status \in {"completed", "failed"})
  PROVE  Calm'
<1>1. \A t \in Sessions : ~Busy(t)'
  BY AllIdle
<1>2. /\ \A r \in Rows : Fits(step[r].status, r)'
      /\ \A r \in Rows : step'[r].status = "failed" => run'.status \in Terminal
  BY DEF Calm, StatusI, Fits, OverI
<1>3. DoneI' /\ AwaitI'
  BY DEF Calm, DoneI, AwaitI, Present, Done
<1>4. QED BY <1>1, <1>2, <1>3, CalmIdle

\* A busy session that has invoked nothing closes.
LEMMA LeaveCalm ==
  ASSUME Base, Base', Calm, NEW s \in Sessions, Busy(s), CloseSession(s), UNCHANGED <<run, step, calls, lost>>,
         session[s].pc \notin {"execute", "commit"}
  PROVE  Calm'
<1>1. \A t \in Sessions : session[t].pc \notin {"execute", "commit"}
  BY OthersIdle, CloseStep DEF Calm, Busy
<1>2. \A r \in Rows : calls'[r] <= 1 + lost'[r] /\
                       (calls'[r] > lost'[r] => step[r].status \in {"completed", "failed"})
  BY <1>1 DEF Calm, CallsI
<1>3. \A r \in Rows : step[r].status = "completed" => calls'[r] > 0
  BY DEF Calm, StatusI, Fits
<1>4. QED BY <1>2, <1>3, CloseCalm

\* What a session loses when it is alone, with or without a step that it has
\* just invoked.
LEMMA LoseCalls ==
  ASSUME Base, Calm, NEW s \in Sessions, Busy(s), NEW new \in SUBSET Rows, Lose(Unrecorded(s) \cup new),
         new \cap Unrecorded(s) = {},
         \A r \in Rows : calls'[r] = calls[r] + IF r \in new THEN 1 ELSE 0
  PROVE  /\ \A r \in Rows : calls'[r] <= 1 + lost'[r] /\
                             (calls'[r] > lost'[r] => step[r].status \in {"completed", "failed"})
         /\ \A r \in Rows : step[r].status = "completed" => calls'[r] > 0
<1> SUFFICES ASSUME NEW r \in Rows
             PROVE  /\ calls'[r] <= 1 + lost'[r] /\
                       (calls'[r] > lost'[r] => step[r].status \in {"completed", "failed"})
                    /\ step[r].status = "completed" => calls'[r] > 0
  OBVIOUS
<1>1. calls[r] \in Nat /\ lost[r] \in Nat /\ calls'[r] = calls[r] + IF r \in new THEN 1 ELSE 0
  BY TypeForth
<1>2. lost'[r] = lost[r] + IF r \in Unrecorded(s) \cup new THEN 1 ELSE 0
  BY DEF Lose
<1>3. calls[r] <= 1 + lost[r]
  BY DEF Calm, CallsI
<1>4. calls[r] > lost[r] => step[r].status \in {"completed", "failed"} \/ r \in Unrecorded(s)
  <2>1. \A t \in Sessions : session[t].pc \in {"execute", "commit"} => t = s
    BY DEF Calm, Alone, Busy
  <2>2. QED BY <2>1 DEF Calm, CallsI
<1>5. step[r].status = "completed" => calls[r] > 0
  BY DEF Calm, StatusI, Fits
<1>6. r \notin new \/ r \notin Unrecorded(s)
  OBVIOUS
<1>7. QED BY <1>1, <1>2, <1>3, <1>4, <1>5, <1>6

\* A busy session is rolled back.
LEMMA GiveUpCalm ==
  ASSUME Base, Base', Calm, NEW s \in Sessions, Busy(s), GiveUp(s), UNCHANGED <<run, step, calls>>
  PROVE  Calm'
<1>1. Lose(Unrecorded(s) \cup {}) /\ CloseSession(s)
  <2>1. Unrecorded(s) \cup {} = Unrecorded(s)
    OBVIOUS
  <2>2. QED BY <2>1 DEF GiveUp
<1>2. \A r \in Rows : calls'[r] = calls[r] + IF r \in {} THEN 1 ELSE 0
  BY TypeForth
<1>3. {} \in SUBSET Rows /\ {} \cap Unrecorded(s) = {}
  OBVIOUS
<1>4. QED BY <1>1, <1>2, <1>3, LoseCalls, CloseCalm

\* A session that is not busy opens or closes and may cancel the run.
LEMMA OffStageCalm ==
  ASSUME Base, Base', Calm, NEW s \in Sessions, ~Busy(s), ~Busy(s)',
         \A t \in Sessions \ {s} : session'[t] = session[t],
         UNCHANGED <<step, inserted, calls>>, run'.current = run.current,
         run'.status = run.status \/ run'.status = "cancelled",
         \A r \in Rows : lost'[r] = lost[r]
  PROVE  Calm'
<1>1. /\ \A t \in Sessions : Busy(t) \/ Busy(t)' => session'[t] = session[t] /\ Busy(t) /\ t # s
      /\ \A t \in Sessions : Holding(t)' => Holding(t) /\ session'[t] = session[t]
  BY DEF Busy, Holding
<1>2. Present' = Present
  BY DEF Present
<1>3. Alone'
  BY <1>1 DEF Calm, Alone
<1>4. StatusI'
  BY <1>1 DEF Calm, StatusI, Fits
<1>5. StartI'
  <2>1. \A t \in Sessions : session'[t].pc \in {"plan", "confirm", "reject"} => session'[t] = session[t]
    BY <1>1 DEF Busy
  <2>2. session'[Task].pc # "closed" => session'[Task] = session[Task]
    BY SessionsDistinct, <1>1 DEF Base, SessionI, TypeOK, Busy
  <2>3. QED BY <2>1, <2>2 DEF Calm, StartI
<1>6. HoldI'
  <2>1. \A t \in Sessions : Holding(t)' => Holding(t) /\ Loaded(t)'
    BY <1>1, <1>2 DEF Calm, HoldI, Loaded
  <2>2. \A t \in Sessions : session'[t].pc \in {"replan", "execute"} => Working(t)'
    BY <1>1 DEF Calm, HoldI, Working, Holding
  <2>3. \A t \in Sessions : session'[t].pc = "execute" => Executing(t)'
    BY <1>1, <1>2 DEF Calm, HoldI, Executing, Holding, Done, Status
  <2>4. \A t \in Sessions : session'[t].pc = "commit" => Committing(t)'
    BY <1>1, <1>2 DEF Calm, HoldI, Committing, Holding, Done, Status
  <2>5. \A t \in Sessions : session'[t].pc = "replan" => \A r \in session'[t].dirty : step'[r].asks
    BY <1>1 DEF Calm, HoldI, Holding
  <2>6. QED BY <2>1, <2>2, <2>3, <2>4, <2>5 DEF HoldI
<1>7. OverI'
  BY <1>1 DEF Calm, OverI, Terminal
<1>8. DoneI' /\ AwaitI'
  BY <1>2 DEF Calm, DoneI, AwaitI, Done
<1>9. CallsI'
  <2>1. \A t \in Sessions : session[t].pc \in {"execute", "commit"} => session'[t] = session[t]
    BY <1>1 DEF Busy
  <2>2. SUFFICES ASSUME CallsI PROVE CallsI'
    BY DEF Calm
  <2>3. \A t \in Sessions : session[t].pc \in {"execute", "commit"} => Unrecorded(t)' = Unrecorded(t)
    BY <2>1 DEF Unrecorded
  <2>4. QED BY <2>1, <2>2, <2>3 DEF CallsI
<1>10. BlockI'
  <2>1. \A t \in Sessions : session'[t].pc \in {"reject", "replan"} => session'[t] = session[t]
    BY <1>1 DEF Busy
  <2>2. QED BY <1>2, <2>1 DEF Calm, BlockI
<1>11. QED BY <1>3, <1>4, <1>5, <1>6, <1>7, <1>8, <1>9, <1>10 DEF Calm

\* A session begins to work on the run: the task, or a request that decides.
LEMMA BeginCalm ==
  ASSUME Base, Base', Calm, NEW s \in Sessions, NEW pc \in {"plan", "confirm", "reject"}, OpenSession(s, pc),
         \A t \in Sessions \ {s} : ~Busy(t), ~Holding(s),
         run.status \notin {"completed", "failed"},
         \A r \in Rows : step[r].status # "failed",
         pc = "plan" => inserted = 0 /\ run.status # "awaiting_confirmation",
         pc \in {"confirm", "reject"} => run.status = "awaiting_confirmation" /\ s # Task,
         UNCHANGED <<run, step, inserted, calls, lost>>
  PROVE  Calm'
<1>1. pc \in Places
  BY DEF Places
<1>2. /\ \A t \in Sessions \ {s} : session'[t] = session[t] /\ ~Busy(t)' /\ ~Holding(t)'
      /\ session'[s].pc = pc /\ session'[s].seen = run.status /\ session'[s].current = run.current
      /\ ~Holding(s)'
  BY <1>1, OpenStep DEF Busy, Holding
<1>3. Alone'
  BY <1>2 DEF Alone
<1>4. StatusI'
  BY <1>2 DEF Calm, StatusI, Fits
<1>5. StartI'
  <2>1. \A t \in Sessions : session'[t].pc \in {"plan", "confirm", "reject"} => t = s
    BY <1>2 DEF Busy
  <2>2. CASE s = Task
    BY <1>2, <2>1, <2>2 DEF StartI
  <2>3. CASE s # Task
    <3>1. session'[Task] = session[Task]
      BY <1>2, <2>3, SessionsDistinct
    <3>2. QED BY <1>2, <2>1, <3>1 DEF Calm, StartI
  <2>4. QED BY <2>2, <2>3
<1>6. HoldI'
  BY <1>2 DEF HoldI, Holding
<1>7. OverI'
  BY DEF OverI
<1>8. DoneI' /\ AwaitI'
  BY DEF Calm, DoneI, AwaitI, Present, Done
<1>9. CallsI'
  <2>1. \A t \in Sessions : session[t].pc \notin {"execute", "commit"}
    BY DEF Holding, Busy
  <2>2. QED BY <2>1 DEF Calm, CallsI
<1>10. BlockI'
  <2>1. \A t \in Sessions : session'[t].pc \in {"reject", "replan"} => t = s /\ run.status = "awaiting_confirmation"
    BY <1>2 DEF Busy
  <2>2. QED BY <1>2, <2>1 DEF Calm, AwaitI, BlockI, Present
<1>11. QED BY <1>3, <1>4, <1>5, <1>6, <1>7, <1>8, <1>9, <1>10 DEF Calm

LEMMA TaskReadsCalm == ASSUME Base, Calm, TaskReads PROVE Calm'
<1>1. Base'
  BY TaskReadsBase
<1>2. Task \in Sessions /\ Busy(Task) /\ ~Holding(Task) /\ session[Task].pc = "queued"
  BY SessionsDistinct DEF TaskReads, Busy, Holding
<1>3. UNCHANGED <<run, step, inserted, calls, lost>>
  BY DEF TaskReads
<1>4. CASE CloseSession(Task)
  BY <1>1, <1>2, <1>3, <1>4, LeaveCalm
<1>5. CASE OpenSession(Task, "plan")
  <2>1. \A t \in Sessions \ {Task} : ~Busy(t)
    BY <1>2 DEF Calm, Alone
  <2>2. run.status \notin {"completed", "failed"} /\ \A r \in Rows : step[r].status # "failed"
    BY <1>2 DEF Calm, OverI
  <2>3. inserted = 0 /\ run.status # "awaiting_confirmation"
    BY <1>2 DEF Calm, StartI
  <2>4. QED BY <1>1, <1>2, <1>3, <1>5, <2>1, <2>2, <2>3, BeginCalm
<1>6. QED BY <1>4, <1>5 DEF TaskReads

LEMMA OpenDecisionCalm ==
  ASSUME Base, Calm, NEW s \in Requests, NEW pc \in {"confirm", "reject"}, OpenDecision(s, pc), ~overlap'
  PROVE  Calm'
<1>1. Base' /\ s \in Sessions /\ s # Task
  BY OpenDecisionBase, SessionsDistinct
<1>2. run.status = "awaiting_confirmation" /\ OpenSession(s, pc) /\ UNCHANGED <<run, step, inserted, calls, lost>>
      /\ session[s].pc = "closed"
  BY DEF OpenDecision
<1>3. \A t \in Sessions : ~Busy(t)
  <2>1. \A q \in Requests : ~Deciding(q)
    BY DEF OpenDecision
  <2>2. \A q \in Requests : ~Busy(q)
    BY <2>1, SessionsDistinct DEF Deciding, Busy, Base, SessionI
  <2>3. ~Busy(Task)
    BY <1>2 DEF Calm, StartI, Busy
  <2>4. ~Busy(Job)
    BY SessionsDistinct DEF Base, SessionI
  <2>5. QED BY <2>2, <2>3, <2>4 DEF Sessions
<1>4. \A r \in Rows : step[r].status # "failed"
  BY <1>2 DEF Calm, OverI, Terminal
<1>5. ~Holding(s)
  BY <1>2 DEF Holding
<1>6. QED BY <1>1, <1>2, <1>3, <1>4, <1>5, BeginCalm

LEMMA OpenCancelCalm == ASSUME Base, Calm, NEW s \in Requests, OpenCancel(s) PROVE Calm'
<1>1. Base' /\ s \in Sessions
  BY OpenCancelBase, SessionsDistinct
<1>2. "cancel" \in Places
  BY DEF Places
<1>3. ~Busy(s) /\ ~Busy(s)' /\ \A t \in Sessions \ {s} : session'[t] = session[t]
  BY <1>1, <1>2, OpenStep DEF OpenCancel, Busy
<1>4. QED BY <1>1, <1>3, OffStageCalm DEF OpenCancel

LEMMA OpenTimeoutCalm == ASSUME Base, Calm, OpenTimeout PROVE Calm'
<1>1. Base' /\ Job \in Sessions
  BY OpenTimeoutBase, SessionsDistinct
<1>2. "cancel" \in Places
  BY DEF Places
<1>3. ~Busy(Job) /\ ~Busy(Job)' /\ \A t \in Sessions \ {Job} : session'[t] = session[t]
  BY <1>1, <1>2, OpenStep DEF OpenTimeout, Busy
<1>4. QED BY <1>1, <1>3, OffStageCalm DEF OpenTimeout

LEMMA CancelCalm == ASSUME Base, Calm, NEW s \in Sessions, Cancel(s) PROVE Calm'
<1>1. Base'
  BY CancelBase
<1>2. ~Busy(s) /\ ~Busy(s)' /\ \A t \in Sessions \ {s} : session'[t] = session[t]
  BY CloseStep DEF Cancel, Busy, Closed
<1>3. run'.status = "cancelled" /\ run'.current = run.current
  BY SessionType DEF Cancel, RunRow
<1>4. QED BY <1>1, <1>2, <1>3, OffStageCalm DEF Cancel

LEMMA RequestFailsCalm == ASSUME Base, Calm, NEW s \in Sessions, RequestFails(s) PROVE Calm'
<1>1. Base' /\ Busy(s)
  BY RequestFailsBase DEF RequestFails, Busy
<1>2. QED BY <1>1, LeaveCalm DEF RequestFails

LEMMA CrashCalm == ASSUME Base, Calm, NEW s \in Sessions, Crash(s) PROVE Calm'
<1>1. Base' /\ GiveUp(s) /\ UNCHANGED <<run, step, inserted, calls>>
  BY CrashBase DEF Crash
<1>2. CASE Busy(s)
  BY <1>1, <1>2, GiveUpCalm
<1>3. CASE ~Busy(s)
  <2>1. ~Busy(s)' /\ \A t \in Sessions \ {s} : session'[t] = session[t]
    BY <1>1, CloseStep DEF GiveUp, Busy, Closed
  <2>2. session[s].dirty = {}
    BY <1>3 DEF Base, SessionI, Busy, Holding
  <2>3. \A r \in Rows : lost'[r] = lost[r]
    BY <1>1, <2>2, TypeForth DEF GiveUp, Lose, Unrecorded
  <2>4. QED BY <1>1, <1>3, <2>1, <2>3, OffStageCalm
<1>4. QED BY <1>2, <1>3

\* A request or the task fails while it executes the plan.
LEMMA StepGoneCalm == ASSUME Base, Calm, NEW s \in Sessions, NEW r \in Rows, StepGone(s, r) PROVE Calm'
<1>1. Base' /\ Busy(s) /\ GiveUp(s) /\ UNCHANGED <<run, step, calls>>
  BY StepGoneBase DEF StepGone, Busy
<1>2. QED BY <1>1, GiveUpCalm

LEMMA InvokeRefusedCalm == ASSUME Base, Calm, NEW s \in Sessions, NEW r \in Rows, InvokeRefused(s, r) PROVE Calm'
<1>1. Base' /\ Busy(s) /\ CloseSession(s) /\ Lose(Unrecorded(s) \cup {r}) /\ UNCHANGED <<run, step>>
  BY InvokeRefusedBase DEF InvokeRefused, Reads, Busy
<1>2. {r} \in SUBSET Rows /\ {r} \cap Unrecorded(s) = {}
  BY DEF InvokeRefused, Reads, Front, Unrecorded
<1>3. \A q \in Rows : calls'[q] = calls[q] + IF q \in {r} THEN 1 ELSE 0
  BY TypeForth DEF InvokeRefused
<1>4. QED BY <1>1, <1>2, <1>3, LoseCalls, CloseCalm

LEMMA TaskFailsCalm == ASSUME Base, Calm, TaskFails PROVE Calm'
<1>1. Base' /\ Task \in Sessions /\ Busy(Task) /\ session[Task].pc = "plan"
  BY TaskFailsBase, SessionsDistinct DEF TaskFails, Busy
<1>2. \A t \in Sessions : ~Busy(t)'
  BY <1>1, AllIdle DEF TaskFails
<1>3. run'.status = "failed"
  BY SessionType DEF TaskFails, RunRow
<1>4. /\ \A r \in Rows : Fits(step[r].status, r)'
      /\ \A r \in Rows : step'[r].status = "failed" => run'.status \in Terminal
      /\ DoneI' /\ AwaitI'
  BY <1>3 DEF TaskFails, Calm, StatusI, Fits, DoneI, AwaitI, Terminal
<1>5. ASSUME NEW r \in Rows
      PROVE  calls'[r] <= 1 + lost'[r] /\ (calls'[r] > lost'[r] => step'[r].status \in {"completed", "failed"})
  <2>1. CallsI /\ \A t \in Sessions : session[t].pc \notin {"execute", "commit"}
    BY <1>1 DEF Calm, Alone, Busy, TaskFails
  <2>2. QED BY <2>1 DEF CallsI, TaskFails
<1>6. QED BY <1>1, <1>2, <1>4, <1>5, CalmIdle

LEMMA TaskPlansCalm == ASSUME Base, Calm, NEW plan \in Plans, TaskPlans(plan) PROVE Calm'
<1>1. Base' /\ Task \in Sessions /\ Busy(Task) /\ session[Task].pc = "plan"
  BY TaskPlansBase, SessionsDistinct DEF TaskPlans, Busy
<1>2. inserted = 0 /\ session[Task].current = run.current
  BY <1>1 DEF Calm, StartI
<1>3. \A r \in Rows : step[r].status = "unused"
  BY <1>2 DEF Base, RowsI, Rows
<1>4. step \in [Rows -> StepRow] /\ step' = WithPlan(step, plan, 0)
  BY SessionType DEF TaskPlans
<1>5. /\ DOMAIN plan = 1 .. Len(plan)
      /\ \A r \in Rows : IF r \in DOMAIN plan THEN step'[r].status = "pending" ELSE step'[r] = step[r]
  <2>1. \A r \in Rows : r - inserted = r
    BY <1>2 DEF Rows
  <2>2. inserted \in Nat /\ 0 \in Nat
    BY <1>2
  <2>3. QED BY <1>4, <2>1, <2>2, WithPlanRows
<1>6. DOMAIN plan \subseteq Rows
  BY TaskPlansStep, <1>1 DEF SessionState
<1>7. Present' = DOMAIN plan
  BY <1>3, <1>5, <1>6 DEF Present, StepStatus
<1>8. run'.status = "executing" /\ run'.current = run.current
  BY SessionType DEF TaskPlans, RunRow
<1>9. /\ \A t \in Sessions \ {Task} : session'[t] = session[t] /\ ~Busy(t) /\ ~Busy(t)' /\ ~Holding(t)'
      /\ Alone'
  BY <1>1, TaskPlansStep, OthersIdle
<1>10. session'[Task].pc = "execute" /\ session'[Task].seen = "executing" /\ session'[Task].status = "executing"
       /\ session'[Task].current = run'.current /\ session'[Task].dirty = {} /\ session'[Task].todo = Present'
       /\ \A r \in Rows : session'[Task].view[r] = IF r \in Present' THEN "pending" ELSE "expired"
  BY <1>2, <1>7, <1>8, TaskPlansStep
<1>11. \A r \in Rows : step'[r].status = IF r \in Present' THEN "pending" ELSE "unused"
  BY <1>3, <1>5, <1>7
<1>12. StatusI'
  BY <1>9, <1>10, <1>11 DEF StatusI, Fits
<1>13. StartI'
  BY <1>8, <1>9, <1>10 DEF StartI, Busy
<1>14. HoldI'
  <2>1. Loaded(Task)'
    <3>1. \A r \in Present' : session'[Task].view[r] = step'[r].status
      BY <1>10, <1>11 DEF Present
    <3>2. session'[Task].dirty \cup session'[Task].todo \subseteq Present'
      BY <1>10
    <3>3. run'.status # "awaiting_confirmation"
      BY <1>8
    <3>4. QED BY <1>10, <3>1, <3>2, <3>3 DEF Loaded
  <2>2. Working(Task)' /\ Executing(Task)'
    BY <1>10 DEF Working, Executing
  <2>3. QED BY <1>9, <1>10, <2>1, <2>2 DEF HoldI, Holding
<1>15. OverI' /\ DoneI' /\ AwaitI'
  BY <1>8, <1>11 DEF OverI, DoneI, AwaitI
<1>16. CallsI'
  <2>1. SUFFICES \A r \in Rows : calls'[r] <= lost'[r]
    BY TypeForth DEF CallsI, TaskPlans
  <2>2. \A t \in Sessions : session[t].pc \notin {"execute", "commit"}
    BY <1>1, <1>9 DEF Busy
  <2>3. \A r \in Rows : step[r].status \notin {"completed", "failed"}
    BY <1>3
  <2>4. \A r \in Rows : ~(calls[r] > lost[r])
    BY <2>2, <2>3 DEF Calm, CallsI
  <2>5. \A r \in Rows : calls[r] \in Nat /\ lost[r] \in Nat
    BY TypeForth
  <2>6. calls' = calls /\ lost' = lost
    BY DEF TaskPlans
  <2>7. QED BY <2>4, <2>5, <2>6
<1>17. BlockI'
  BY <1>9, <1>10 DEF BlockI, Busy
<1>18. QED BY <1>9, <1>12, <1>13, <1>14, <1>15, <1>16, <1>17 DEF Calm

\* A session that executes the plan: it is alone, and what holds of it.
LEMMA ExecuteHolds ==
  ASSUME Base, Calm, NEW s \in Sessions, session[s].pc = "execute"
  PROVE  /\ Busy(s) /\ Holding(s) /\ Loaded(s) /\ Working(s) /\ Executing(s)
         /\ \A t \in Sessions \ {s} : ~Busy(t)
         /\ run.status \notin {"completed", "failed"}
         /\ \A r \in Rows : step[r].status # "failed"
         /\ \A r \in Rows : Fits(step[r].status, r) /\ Fits(session[s].view[r], r)
         /\ run.status = "awaiting_confirmation" => s # Task
<1>1. Busy(s) /\ Holding(s)
  BY DEF Busy, Holding
<1>2. Loaded(s) /\ Working(s) /\ Executing(s)
  BY <1>1 DEF Calm, HoldI
<1>3. \A t \in Sessions \ {s} : ~Busy(t)
  BY <1>1 DEF Calm, Alone
<1>4. run.status \notin {"completed", "failed"} /\ \A r \in Rows : step[r].status # "failed"
  BY <1>1 DEF Calm, OverI
<1>5. \A r \in Rows : Fits(step[r].status, r) /\ Fits(session[s].view[r], r)
  BY <1>1 DEF Calm, StatusI
<1>6. run.status = "awaiting_confirmation" => s # Task
  BY DEF Calm, StartI
<1>7. QED BY <1>1, <1>2, <1>3, <1>4, <1>5, <1>6

LEMMA SkipStepCalm == ASSUME Base, Calm, NEW s \in Sessions, NEW r \in Rows, SkipStep(s, r) PROVE Calm'
<1>1. Base' /\ session[s].pc = "execute"
  BY SkipStepBase DEF SkipStep, Reads
<1>2. Busy(s) /\ Loaded(s) /\ Working(s) /\ Executing(s)
      /\ \A q \in Rows : Fits(step[q].status, q) /\ Fits(session[s].view[q], q)
  BY <1>1, ExecuteHolds
<1>3. UNCHANGED <<run, step, inserted, calls, lost>>
  BY DEF SkipStep
<1>4. /\ \A t \in Sessions : session'[t].pc = session[t].pc
      /\ \A t \in Sessions : Busy(t)' <=> Busy(t)
      /\ \A t \in Sessions : Holding(t)' <=> Holding(t)
      /\ \A t \in Sessions \ {s} : session'[t] = session[t] /\ ~Busy(t)' /\ ~Holding(t)'
      /\ Present' = Present
  BY <1>2, <1>3, SkipStepStep, OthersIdle DEF Busy, Holding, Present
<1>5. Alone' /\ OverI'
  BY <1>3, <1>4 DEF Calm, Alone, OverI
<1>6. StatusI'
  BY <1>2, <1>3, <1>4, SkipStepStep DEF StatusI, Fits
<1>7. StartI'
  <2>1. \A t \in Sessions : session'[t].pc \notin {"queued", "plan", "confirm", "reject"}
    BY <1>1, <1>4 DEF Busy
  <2>2. Task \in Sessions /\ (session'[Task].pc # "closed" => session[Task].pc # "closed")
    BY <1>1, <1>4, SessionsDistinct
  <2>3. QED BY <1>3, <2>1, <2>2 DEF Calm, StartI
<1>8. HoldI'
  <2>1. Loaded(s)'
    BY <1>2, <1>3, <1>4, SkipStepStep DEF Loaded
  <2>2. Working(s)'
    BY <1>2, SkipStepStep DEF Working
  <2>3. Done(Status(s, r), r)
    <3>1. Status(s, r) \in {"completed", "confirmed"}
      BY DEF SkipStep, Passed
    <3>2. Fits(Status(s, r), r)
      BY <1>2 DEF Status
    <3>3. QED BY <3>1, <3>2 DEF Fits, Done
  <2>4. \A q \in Rows : Status(s, q)' = Status(s, q)
    BY <1>3, SkipStepStep DEF Status
  <2>5. Executing(s)'
    BY <1>2, <1>3, <1>4, <2>3, <2>4, SkipStepStep DEF Executing, Done, Present
  <2>6. QED BY <1>1, <1>4, <2>1, <2>2, <2>5 DEF HoldI, Holding
<1>9. DoneI' /\ AwaitI'
  BY <1>3, <1>4 DEF Calm, DoneI, AwaitI, Done
<1>10. CallsI'
  <2>1. SUFFICES ASSUME CallsI PROVE CallsI'
    BY <1>3 DEF Calm
  <2>2. \A t \in Sessions : /\ session'[t].pc = session[t].pc /\ session'[t].view = session[t].view
                            /\ session'[t].dirty = session[t].dirty
                            /\ session'[t].todo \subseteq session[t].todo
    BY SkipStepStep
  <2>3. \A t \in Sessions : Unrecorded(t) \subseteq Unrecorded(t)'
    BY <2>2 DEF Unrecorded
  <2>4. QED BY <1>3, <2>1, <2>2, <2>3 DEF CallsI
<1>11. BlockI'
  BY <1>1, <1>4 DEF BlockI, Busy
<1>12. QED BY <1>5, <1>6, <1>7, <1>8, <1>9, <1>10, <1>11 DEF Calm

LEMMA AskStepCalm == ASSUME Base, Calm, NEW s \in Sessions, NEW r \in Rows, AskStep(s, r) PROVE Calm'
<1>1. Base' /\ session[s].pc = "execute" /\ Asked(s, r)
  BY AskStepBase, AskStepStep DEF AskStep, Reads
<1>2. Busy(s) /\ Loaded(s) /\ Working(s) /\ Executing(s)
      /\ \A q \in Rows : Fits(step[q].status, q) /\ Fits(session[s].view[q], q)
  BY <1>1, ExecuteHolds
<1>3. UNCHANGED <<run, step, inserted, calls, lost>> /\ step[r].asks /\ r \in session[s].todo
  BY DEF AskStep, Reads, Front
<1>4. /\ \A t \in Sessions : session'[t].pc = IF t = s THEN "commit" ELSE session[t].pc
      /\ \A t \in Sessions : Busy(t)' <=> Busy(t)
      /\ \A t \in Sessions \ {s} : session'[t] = session[t] /\ ~Busy(t)' /\ ~Holding(t)'
      /\ Present' = Present
  BY <1>1, <1>2, <1>3, OthersIdle DEF Asked, Busy, Present
<1>5. Alone' /\ OverI'
  BY <1>3, <1>4 DEF Calm, Alone, OverI
<1>6. StatusI'
  <2>1. \A q \in Rows : Fits(session'[s].view[q], q)
    BY <1>1, <1>2, <1>3 DEF Asked, Fits
  <2>2. QED BY <1>2, <1>3, <1>4, <2>1 DEF StatusI, Fits
<1>7. StartI'
  <2>1. \A t \in Sessions : session'[t].pc \notin {"queued", "plan", "confirm", "reject"}
    BY <1>1, <1>4 DEF Busy
  <2>2. Task \in Sessions /\ (session'[Task].pc # "closed" => session[Task].pc # "closed")
    BY <1>1, <1>4, SessionsDistinct
  <2>3. QED BY <1>3, <2>1, <2>2 DEF Calm, StartI
<1>8. HoldI'
  <2>1. r \in Present
    BY <1>2, <1>3 DEF Loaded
  <2>2. \A q \in Present \ session'[s].dirty : session'[s].view[q] \in {"expired", step[q].status}
    <3>1. \A q \in Present \ session[s].dirty : session[s].view[q] \in {"expired", step[q].status}
      BY <1>2 DEF Loaded
    <3>2. session[s].dirty \subseteq session'[s].dirty /\ \A q \in Rows \ {r} : session'[s].view[q] = session[s].view[q]
      BY <1>1 DEF Asked
    <3>3. r \notin session'[s].dirty => Status(s, r) = "awaiting" /\ r \notin session[s].dirty
      BY <1>1 DEF Asked
    <3>4. r \notin session'[s].dirty => session'[s].view[r] = step[r].status
      BY <1>1, <2>1, <3>1, <3>3 DEF Asked, Status
    <3>5. Present \subseteq Rows
      BY DEF Present
    <3>6. QED BY <3>1, <3>2, <3>4, <3>5
  <2>3. session'[s].seen = "expired" \/ session'[s].moved \/ session'[s].current = run.current
    BY <1>1, <1>2 DEF Asked, Loaded
  <2>4. session'[s].dirty \subseteq Present /\ session'[s].todo \subseteq Present
    BY <1>1, <1>2, <2>1 DEF Asked, Loaded
  <2>5. Loaded(s)'
    BY <1>1, <1>2, <1>3, <1>4, <2>2, <2>3, <2>4 DEF Loaded, Asked
  <2>6. session'[s].moved \/ session'[s].current = run.current
    BY <1>1, <1>2 DEF Asked, Loaded
  <2>7. \A q \in Rows : session'[s].view[q] # "failed"
    BY <1>1, <1>2 DEF Asked, Executing
  <2>8. session'[s].status = "awaiting_confirmation" /\ session'[s].current = step[r].index
        /\ session'[s].view[r] = "awaiting"
    BY <1>1 DEF Asked
  <2>9. Committing(s)'
    BY <1>3, <1>4, <2>1, <2>6, <2>7, <2>8 DEF Committing
  <2>10. QED BY <1>4, <2>5, <2>9 DEF HoldI, Holding
<1>9. DoneI' /\ AwaitI'
  BY <1>3, <1>4 DEF Calm, DoneI, AwaitI, Done
<1>10. CallsI'
  <2>1. SUFFICES ASSUME CallsI PROVE CallsI'
    BY <1>3 DEF Calm
  <2>2. \A q \in session[s].dirty \ session[s].todo :
          q \in Rows => q \in session'[s].dirty \ session'[s].todo /\ session'[s].view[q] = session[s].view[q]
    BY <1>1, <1>3 DEF Asked
  <2>3. session'[s].pc = "commit" /\ \A t \in Sessions \ {s} : session'[t] = session[t]
    BY <1>1 DEF Asked
  <2>4. \A t \in Sessions : Unrecorded(t) \cap Rows \subseteq Unrecorded(t)'
    BY <2>2, <2>3 DEF Unrecorded
  <2>5. \A t \in Sessions : session[t].pc \in {"execute", "commit"} => session'[t].pc \in {"execute", "commit"}
    BY <2>3
  <2>6. QED BY <1>3, <2>1, <2>4, <2>5 DEF CallsI
<1>11. BlockI'
  BY <1>1, <1>4 DEF BlockI, Busy
<1>12. QED BY <1>5, <1>6, <1>7, <1>8, <1>9, <1>10, <1>11 DEF Calm

\* A commit of a session that is alone: its rows are there and what it reads
\* of them becomes what they say.
LEMMA FlushHolds ==
  ASSUME Base, Calm, NEW s \in Sessions, Holding(s), Flushable(s), step' = StepsFlushed(s)
  PROVE  /\ \A q \in Rows : step'[q].asks = step[q].asks /\ step'[q].index = step[q].index
         /\ \A q \in Rows : step'[q].status =
                              IF q \in session[s].dirty THEN session[s].view[q] ELSE step[q].status
         /\ Present' = Present
         /\ \A q \in Present : step'[q].status = Status(s, q)
         /\ \A q \in Rows : Fits(step'[q].status, q)
         /\ \A q \in Rows : step[q].status \in {"completed", "failed"} => step'[q].status \in {"completed", "failed"}
<1>1. Flushable(s) /\ Loaded(s) /\ session[s] \in SessionState
  BY SessionType DEF Calm, HoldI
<1>2. /\ \A q \in Rows : step'[q].asks = step[q].asks /\ step'[q].index = step[q].index
      /\ \A q \in Rows : step'[q].status =
                           IF q \in session[s].dirty THEN session[s].view[q] ELSE step[q].status
  BY <1>1, FlushStep
<1>3. \A q \in session[s].dirty : q \in Present /\ session[s].view[q] \in StepStatus \ {"pending"}
  BY <1>1 DEF Flushable, SessionState, Base, SessionI
<1>4. Present' = Present
  BY <1>2, <1>3 DEF Present
<1>5. \A q \in Present : step'[q].status = Status(s, q)
  <2>1. SUFFICES ASSUME NEW q \in Present PROVE step'[q].status = Status(s, q)
    OBVIOUS
  <2>2. q \in Rows /\ step[q].status # "expired"
    BY DEF Present, StepStatus
  <2>3. CASE q \in session[s].dirty
    BY <1>2, <1>3, <2>2, <2>3 DEF Status, StepStatus
  <2>4. CASE q \notin session[s].dirty
    BY <1>1, <1>2, <2>2, <2>4 DEF Status, Loaded
  <2>5. QED BY <2>3, <2>4
<1>6. \A q \in Rows : Fits(step'[q].status, q)
  BY <1>2 DEF Calm, StatusI
<1>7. \A q \in Rows : step[q].status \in {"completed", "failed"} => step'[q].status \in {"completed", "failed"}
  <2>1. SUFFICES ASSUME NEW q \in Rows, step[q].status \in {"completed", "failed"}, q \in session[s].dirty
                 PROVE  session[s].view[q] \in {"completed", "failed"}
    BY <1>2
  <2>2. ~step[q].asks /\ Fits(session[s].view[q], q)
    BY <2>1 DEF Calm, StatusI, Fits
  <2>3. QED BY <1>3, <2>1, <2>2 DEF Fits, StepStatus
<1>8. QED BY <1>2, <1>4, <1>5, <1>6, <1>7

LEMMA InvokeStepCalm ==
  ASSUME Base, Calm, NEW s \in Sessions, NEW r \in Rows, NEW commits \in BOOLEAN, NEW aborts \in BOOLEAN,
         NEW fails \in BOOLEAN, InvokeStep(s, r, commits, aborts, fails)
  PROVE  Calm'
<1>1. Base' /\ Invoked(s, r, commits, fails)
  BY InvokeStepBase, InvokeStepStep
<1>2. session[s].pc = "execute" /\ r \in session[s].todo /\ ~step[r].asks /\ ~Passed(s, r)
  BY DEF InvokeStep, Reads, Front
<1>3. Busy(s) /\ Holding(s) /\ Loaded(s) /\ Working(s) /\ Executing(s)
      /\ (\A q \in Rows : Fits(step[q].status, q) /\ Fits(session[s].view[q], q))
      /\ (\A q \in Rows : step[q].status # "failed") /\ run.status \notin {"completed", "failed"}
  BY <1>2, ExecuteHolds
<1>4. /\ \A t \in Sessions \ {s} : session'[t] = session[t] /\ ~Busy(t) /\ ~Busy(t)' /\ ~Holding(t)'
      /\ Alone'
  BY <1>1, <1>3, OthersIdle DEF Invoked
<1>5. /\ commits => run' = RunFlushed(s) /\ step' = StepsFlushed(s)
      /\ ~commits => run' = run /\ step' = step
      /\ calls' = [calls EXCEPT ![r] = @ + 1] /\ inserted' = inserted /\ lost' = lost
      /\ commits => Flushable(s)
  BY DEF InvokeStep
<1>6. /\ \A q \in Rows : step'[q].asks = step[q].asks /\ step'[q].index = step[q].index
      /\ \A q \in Rows : commits /\ q \in session[s].dirty => step'[q].status = session[s].view[q]
      /\ \A q \in Rows : ~commits \/ q \notin session[s].dirty => step'[q].status = step[q].status
      /\ Present' = Present
      /\ \A q \in Present : commits => step'[q].status = Status(s, q)
      /\ \A q \in Rows : Fits(step'[q].status, q)
      /\ \A q \in Rows : step[q].status \in {"completed", "failed"} => step'[q].status \in {"completed", "failed"}
  <2>1. CASE commits
    BY <1>3, <1>5, <2>1, FlushHolds
  <2>2. CASE ~commits
    BY <1>3, <1>5, <2>2 DEF Present
  <2>3. QED BY <2>1, <2>2
<1>7. \A q \in Rows : step'[q].status # "failed"
  BY <1>3, <1>6 DEF Executing
<1>8. /\ run'.status = "awaiting_confirmation" => ~commits /\ run' = run
      /\ run'.status \notin {"completed", "failed"}
  <2>1. CASE commits
    <3>1. run'.status = IF session[s].status = session[s].seen THEN run.status ELSE session[s].status
      BY <1>3, <1>5, <2>1, FlushStep
    <3>2. session[s].status \in {"executing", "expired"}
          /\ (session[s].status = "expired" <=> session[s].seen = "expired")
          /\ (run.status = "awaiting_confirmation" => session[s].seen = "awaiting_confirmation")
      BY <1>3 DEF Working, Loaded
    <3>3. run'.status # "awaiting_confirmation" /\ run'.status \notin {"completed", "failed"}
      BY <1>3, <3>1, <3>2
    <3>4. QED BY <3>3
  <2>2. CASE ~commits
    BY <1>3, <1>5, <2>2
  <2>3. QED BY <2>1, <2>2
<1>9. /\ calls'[r] = calls[r] + 1 /\ calls[r] \in Nat
      /\ \A q \in Rows \ {r} : calls'[q] = calls[q]
  BY <1>5, TypeForth
<1>10. r \in Present
  BY <1>2, <1>3 DEF Loaded
<1>11. StatusI'
  <2>1. \A q \in Rows : Fits(step[q].status, q)'
    BY <1>6, <1>9 DEF Fits
  <2>2. \A q \in Rows : Fits(session[s].view[q], q)'
    <3>1. Fits(session[s].view[r], r)'
      BY <1>1, <1>2, <1>6, <1>9 DEF Invoked, Fits
    <3>2. \A q \in Rows \ {r} : session'[s].view[q] \in {"expired", session[s].view[q]}
      BY <1>1 DEF Invoked
    <3>3. \A q \in Rows \ {r} : Fits(session[s].view[q], q)'
      BY <1>3, <1>6, <1>9, <3>2 DEF Fits
    <3>4. QED BY <3>1, <3>3
  <2>3. QED BY <1>4, <2>1, <2>2 DEF StatusI
<1>12. session'[s].pc \in {"execute", "commit"}
  BY <1>1 DEF Invoked
<1>13. StartI'
  <2>1. \A t \in Sessions : session'[t].pc \notin {"queued", "plan", "confirm", "reject"}
    BY <1>4, <1>12 DEF Busy
  <2>2. Task \in Sessions /\ (session'[Task].pc # "closed" => session[Task].pc # "closed")
    BY <1>2, <1>4, SessionsDistinct
  <2>3. QED BY <1>8, <2>1, <2>2 DEF Calm, StartI
<1>14. Loaded(s)'
  <2>1. session'[s].dirty \cup session'[s].todo \subseteq Present'
    BY <1>1, <1>3, <1>6, <1>10 DEF Invoked, Loaded
  <2>2. \A q \in Present' \ session'[s].dirty : session'[s].view[q] \in {"expired", step'[q].status}
    <3>1. SUFFICES ASSUME NEW q \in Present, q \notin session'[s].dirty
                   PROVE  session'[s].view[q] \in {"expired", step'[q].status}
      BY <1>6
    <3>2. q \in Rows \ {r}
      BY <1>1, <3>1 DEF Invoked, Present
    <3>3. CASE commits
      BY <1>1, <3>2, <3>3 DEF Invoked
    <3>4. CASE ~commits
      BY <1>1, <1>3, <1>6, <3>1, <3>2, <3>4 DEF Invoked, Loaded
    <3>5. QED BY <3>3, <3>4
  <2>3. session'[s].seen \in {"awaiting_confirmation", "executing", "expired"}
    BY <1>1, <1>3 DEF Invoked, Loaded
  <2>4. session'[s].seen = "expired" \/ session'[s].moved \/ session'[s].current = run'.current
    <3>1. CASE commits
      BY <1>1, <3>1 DEF Invoked
    <3>2. CASE ~commits
      BY <1>1, <1>3, <1>5, <3>2 DEF Invoked, Loaded
    <3>3. QED BY <3>1, <3>2
  <2>5. run'.status = "awaiting_confirmation" => session'[s].seen = "awaiting_confirmation"
    BY <1>1, <1>3, <1>8 DEF Invoked, Loaded
  <2>6. QED BY <2>1, <2>2, <2>3, <2>4, <2>5 DEF Loaded
<1>15. HoldI'
  <2>1. CASE fails
    <3>1. session'[s].pc = "commit" /\ session'[s].status = "failed"
      BY <1>1, <2>1 DEF Invoked
    <3>2. QED BY <1>4, <1>14, <3>1 DEF HoldI, Holding, Committing
  <2>2. CASE ~fails
    <3>1. session'[s].pc = "execute" /\ session'[s].view[r] = "completed"
      BY <1>1, <2>2 DEF Invoked
    <3>2. Working(s)'
      BY <1>1, <1>3, <2>2 DEF Invoked, Working
    <3>3. \A q \in Present \ session'[s].todo : Done(Status(s, q), q)'
      <4>1. SUFFICES ASSUME NEW q \in Present, q \notin session'[s].todo PROVE Done(Status(s, q), q)'
        OBVIOUS
      <4>2. CASE q = r
        BY <1>2, <1>6, <1>10, <3>1, <4>2 DEF Done, Status
      <4>3. CASE q # r
        <5>1. q \in Rows \ {r} /\ q \notin session[s].todo /\ Done(Status(s, q), q)
          BY <1>1, <1>3, <4>1, <4>3 DEF Invoked, Executing, Present
        <5>2. Status(s, q)' = Status(s, q)
          <6>1. CASE commits
            BY <1>1, <1>6, <5>1, <6>1 DEF Invoked, Status
          <6>2. CASE ~commits
            BY <1>1, <1>5, <5>1, <6>2 DEF Invoked, Status
          <6>3. QED BY <6>1, <6>2
        <5>3. QED BY <1>6, <5>1, <5>2 DEF Done
      <4>4. QED BY <4>2, <4>3
    <3>4. \A q \in session'[s].todo \cap session'[s].dirty : step'[q].asks
      <4>1. SUFFICES ASSUME NEW q \in session'[s].todo, q \in session'[s].dirty PROVE step'[q].asks
        OBVIOUS
      <4>2. q \in session[s].todo /\ q \in session[s].dirty /\ q \in Rows
        BY <1>1, <1>3, <4>1 DEF Invoked, Loaded, Present
      <4>3. QED BY <1>3, <1>6, <4>2 DEF Executing
    <3>5. \A q \in Rows : session'[s].view[q] # "failed"
      BY <1>1, <1>3, <3>1 DEF Invoked, Executing
    <3>6. Executing(s)'
      BY <1>6, <3>3, <3>4, <3>5 DEF Executing
    <3>7. QED BY <1>4, <1>14, <3>1, <3>2, <3>6 DEF HoldI, Holding
  <2>3. QED BY <2>1, <2>2
<1>16. OverI'
  BY <1>7, <1>8 DEF OverI
<1>17. DoneI' /\ AwaitI'
  <2>1. DoneI'
    BY <1>8 DEF DoneI
  <2>2. SUFFICES ASSUME run'.status = "awaiting_confirmation" PROVE AwaitI'
    BY <2>1 DEF AwaitI
  <2>3. run' = run /\ step' = step
    BY <1>5, <1>8, <2>2
  <2>4. QED BY <1>6, <2>3 DEF Calm, AwaitI
<1>18. CallsI'
  <2>1. CallsI /\ \A t \in Sessions : session[t].pc \in {"execute", "commit"} => t = s
    BY <1>4 DEF Calm, Busy
  <2>2. calls[r] <= lost[r]
    <3>1. SUFFICES ASSUME calls[r] > lost[r] PROVE FALSE
      BY <1>9, TypeForth
    <3>2. r \notin Unrecorded(s)
      BY <1>2 DEF Unrecorded
    <3>3. step[r].status = "completed"
      BY <1>3, <2>1, <3>1, <3>2 DEF CallsI
    <3>4. r \notin session[s].dirty
      BY <1>2, <1>3 DEF Executing
    <3>5. session[s].view[r] \in {"expired", "completed"}
      BY <1>3, <1>10, <3>3, <3>4 DEF Loaded
    <3>6. QED BY <1>2, <3>3, <3>5 DEF Passed, Status
  <2>3. ASSUME NEW q \in Rows \ {r}, calls'[q] > lost'[q]
        PROVE  step'[q].status \in {"completed", "failed"} \/ q \in Unrecorded(s)'
    <3>1. step[q].status \in {"completed", "failed"} \/ q \in Unrecorded(s)
      BY <1>5, <1>9, <2>1, <2>3 DEF CallsI
    <3>2. CASE step[q].status \in {"completed", "failed"}
      BY <1>6, <3>2
    <3>3. CASE q \in Unrecorded(s)
      <4>1. q \in session[s].dirty \ session[s].todo /\ session[s].view[q] \in {"completed", "failed"}
        BY <3>3 DEF Unrecorded
      <4>2. CASE commits
        BY <1>6, <4>1, <4>2
      <4>3. CASE ~commits
        BY <1>1, <4>1, <4>3 DEF Invoked, Unrecorded
      <4>4. QED BY <4>2, <4>3
    <3>4. QED BY <3>1, <3>2, <3>3
  <2>4. r \in Unrecorded(s)'
    BY <1>1 DEF Invoked, Unrecorded
  <2>5. \A q \in Rows : calls'[q] <= 1 + lost'[q]
    <3>1. \A q \in Rows : lost'[q] \in Nat /\ lost'[q] = lost[q] /\ calls[q] \in Nat
      BY <1>5, TypeForth
    <3>2. QED BY <1>9, <2>1, <2>2, <3>1 DEF CallsI
  <2>6. QED BY <1>12, <2>3, <2>4, <2>5 DEF CallsI
<1>19. BlockI'
  BY <1>4, <1>12 DEF BlockI, Busy
<1>20. QED BY <1>4, <1>11, <1>13, <1>15, <1>16, <1>17, <1>18, <1>19 DEF Calm

LEMMA PlanDoneCalm == ASSUME Base, Calm, NEW s \in Sessions, PlanDone(s) PROVE Calm'
<1>1. Base' /\ session[s].pc = "execute" /\ session[s].todo = {}
  BY PlanDoneBase DEF PlanDone
<1>2. Busy(s) /\ Loaded(s) /\ Executing(s)
      /\ \A q \in Rows : Fits(step[q].status, q) /\ Fits(session[s].view[q], q)
  BY <1>1, ExecuteHolds
<1>3. UNCHANGED <<run, step, inserted, calls, lost>>
  BY DEF PlanDone
<1>4. /\ \A t \in Sessions : session'[t].pc = IF t = s THEN "commit" ELSE session[t].pc
      /\ \A t \in Sessions : Busy(t)' <=> Busy(t)
      /\ \A t \in Sessions \ {s} : session'[t] = session[t] /\ ~Busy(t)' /\ ~Holding(t)'
      /\ Present' = Present
  BY <1>2, <1>3, PlanDoneStep, OthersIdle DEF Busy, Present
<1>5. Alone' /\ OverI'
  BY <1>3, <1>4 DEF Calm, Alone, OverI
<1>6. StatusI'
  BY <1>2, <1>3, <1>4, PlanDoneStep DEF StatusI, Fits
<1>7. StartI'
  <2>1. \A t \in Sessions : session'[t].pc \notin {"queued", "plan", "confirm", "reject"}
    BY <1>1, <1>4 DEF Busy
  <2>2. Task \in Sessions /\ (session'[Task].pc # "closed" => session[Task].pc # "closed")
    BY <1>1, <1>4, SessionsDistinct
  <2>3. QED BY <1>3, <2>1, <2>2 DEF Calm, StartI
<1>8. HoldI'
  <2>1. Loaded(s)'
    BY <1>2, <1>3, <1>4, PlanDoneStep DEF Loaded
  <2>2. \A q \in Rows : Status(s, q)' = Status(s, q)
    BY <1>3, PlanDoneStep DEF Status
  <2>3. \A q \in Present : Done(Status(s, q), q)'
    BY <1>1, <1>2, <1>3, <2>2 DEF Executing, Done, Present
  <2>4. Committing(s)'
    BY <1>2, <1>4, <2>3, PlanDoneStep DEF Committing, Executing
  <2>5. QED BY <1>4, <2>1, <2>4 DEF HoldI, Holding
<1>9. DoneI' /\ AwaitI'
  BY <1>3, <1>4 DEF Calm, DoneI, AwaitI, Done
<1>10. CallsI'
  <2>1. SUFFICES ASSUME CallsI PROVE CallsI'
    BY <1>3 DEF Calm
  <2>2. \A t \in Sessions : /\ session[t].pc \in {"execute", "commit"} => session'[t].pc \in {"execute", "commit"}
                            /\ session'[t].view = session[t].view
                            /\ session'[t].dirty = session[t].dirty /\ session'[t].todo = session[t].todo
    BY <1>4, PlanDoneStep
  <2>3. \A t \in Sessions : Unrecorded(t)' = Unrecorded(t)
    BY <2>2 DEF Unrecorded
  <2>4. QED BY <1>3, <2>1, <2>2, <2>3 DEF CallsI
<1>11. BlockI'
  BY <1>1, <1>4 DEF BlockI, Busy
<1>12. QED BY <1>5, <1>6, <1>7, <1>8, <1>9, <1>10, <1>11 DEF Calm

LEMMA FlushedCalm == ASSUME Base, Calm, NEW s \in Sessions, Commit(s), Flushable(s) PROVE Calm'
<1>1. Base' /\ session[s].pc = "commit" /\ Busy(s) /\ Holding(s) /\ CloseSession(s)
  BY CommitBase DEF Commit, GiveUp, Busy, Holding
<1>2. Loaded(s) /\ Committing(s) /\ Flushable(s)
  BY <1>1 DEF Calm, HoldI
<1>3. run' = RunFlushed(s) /\ step' = StepsFlushed(s) /\ UNCHANGED <<inserted, calls, lost>>
  BY <1>2 DEF Commit
<1>4. /\ \A q \in Rows : step'[q].asks = step[q].asks /\ step'[q].index = step[q].index
      /\ \A q \in Rows : step'[q].status =
                           IF q \in session[s].dirty THEN session[s].view[q] ELSE step[q].status
      /\ Present' = Present
      /\ \A q \in Present : step'[q].status = Status(s, q)
      /\ \A q \in Rows : Fits(step'[q].status, q)
      /\ \A q \in Rows : step[q].status \in {"completed", "failed"} => step'[q].status \in {"completed", "failed"}
  BY <1>1, <1>2, <1>3, FlushHolds
<1>5. /\ run'.status = (IF session[s].status = session[s].seen THEN run.status ELSE session[s].status)
      /\ run'.current = (IF session[s].moved THEN session[s].current ELSE run.current)
  BY <1>2, <1>3, FlushStep
<1>6. /\ \A q \in Rows : step[q].status # "failed"
      /\ run.status \notin {"completed", "failed"}
      /\ \A t \in Sessions : session[t].pc \in {"execute", "commit"} => t = s
  BY <1>1 DEF Calm, OverI, Alone, Busy
<1>7. \A t \in Sessions : ~Busy(t)'
  BY <1>1, AllIdle
<1>8. \A q \in Rows : Fits(step[q].status, q)'
  BY <1>3, <1>4 DEF Fits
<1>9. \A q \in Rows : step'[q].status = "failed" => run'.status \in Terminal
  BY <1>2, <1>4, <1>5, <1>6 DEF Committing, Loaded, Terminal
<1>10. DoneI'
  <2>1. SUFFICES ASSUME run'.status = "completed" PROVE \A q \in Present : Done(step[q].status, q)'
    BY <1>4 DEF DoneI
  <2>2. session[s].status = "completed"
    BY <1>5, <1>6, <2>1
  <2>3. \A q \in Present : q \in Rows /\ Done(Status(s, q), q)
    BY <1>2, <2>2 DEF Committing, Present
  <2>4. QED BY <1>4, <2>3 DEF Done
<1>11. AwaitI'
  <2>1. SUFFICES ASSUME run'.status = "awaiting_confirmation"
                 PROVE  \E q \in Present : step'[q].index = run'.current /\ step'[q].status = "awaiting"
    BY <1>4 DEF AwaitI
  <2>2. session[s].status = "awaiting_confirmation"
    BY <1>2, <1>5, <2>1 DEF Loaded, Committing
  <2>3. PICK q \in Present : step[q].index = session[s].current /\ session[s].view[q] = "awaiting"
    BY <1>2, <2>2 DEF Committing
  <2>4. session[s].moved \/ session[s].current = run.current
    BY <1>2, <2>2 DEF Committing
  <2>5. run'.current = session[s].current
    BY <1>5, <2>4
  <2>6. step'[q].status = "awaiting"
    BY <1>4, <2>3 DEF Status
  <2>7. QED BY <1>4, <2>3, <2>5, <2>6 DEF Present
<1>12. ASSUME NEW q \in Rows
       PROVE  calls'[q] <= 1 + lost'[q] /\ (calls'[q] > lost'[q] => step'[q].status \in {"completed", "failed"})
  <2>1. CallsI
    BY DEF Calm
  <2>2. calls'[q] <= 1 + lost'[q]
    BY <1>3, <2>1 DEF CallsI
  <2>3. SUFFICES ASSUME calls[q] > lost[q] PROVE step'[q].status \in {"completed", "failed"}
    BY <1>3, <2>2
  <2>4. CASE step[q].status \in {"completed", "failed"}
    BY <1>4, <2>4
  <2>5. CASE q \in Unrecorded(s)
    BY <1>4, <2>5 DEF Unrecorded
  <2>6. QED BY <1>6, <2>1, <2>3, <2>4, <2>5 DEF CallsI
<1>13. QED BY <1>1, <1>7, <1>8, <1>9, <1>10, <1>11, <1>12, CalmIdle

LEMMA CommitCalm == ASSUME Base, Calm, NEW s \in Sessions, Commit(s) PROVE Calm'
<1>1. CASE ~Flushable(s)
  <2>1. Base' /\ Busy(s) /\ GiveUp(s) /\ UNCHANGED <<run, step, calls>>
    BY <1>1, CommitBase DEF Commit, Busy
  <2>2. QED BY <2>1, GiveUpCalm
<1>2. QED BY <1>1, FlushedCalm

\* A confirm or reject request loads the steps and marks the one it decides.
LEMMA LoadStepsCalm ==
  ASSUME Base, Base', Calm, NEW s \in Sessions, session[s].pc \in {"confirm", "reject"},
         NEW pc \in {"execute", "replan"}, NEW mark \in {"confirmed", "rejected"},
         pc = "replan" => session[s].pc = "reject", LoadSteps(s, pc, "executing", mark), UNCHANGED <<run, step, inserted, calls, lost>>
  PROVE  Calm'
<1>1. Busy(s) /\ s \in Requests /\ s # Task
  BY SessionsDistinct DEF Busy, Base, SessionI
<1>2. Marked(s, pc, mark)
  BY LoadStepsStep
<1>3. /\ \A t \in Sessions : Busy(t)' <=> Busy(t)
      /\ \A t \in Sessions \ {s} : ~Busy(t) /\ ~Busy(t)' /\ ~Holding(t)'
      /\ Alone' /\ Present' = Present
  BY <1>1, <1>2, OthersIdle DEF Marked, Busy, Present
<1>4. /\ session[s].seen = "awaiting_confirmation" /\ session[s].current = run.current
      /\ \A r \in Rows : Fits(step[r].status, r)
      /\ \A r \in Rows : step[r].status # "failed"
  BY <1>1 DEF Calm, StartI, StatusI, OverI
<1>5. /\ Decided(s) \subseteq Present /\ Present \subseteq Rows
      /\ \A r \in Decided(s) : step[r].asks
  BY <1>4 DEF Decided, Present, Fits
<1>6. StatusI'
  <2>1. \A r \in Rows : Fits(step[r].status, r)'
    BY <1>4 DEF Fits
  <2>2. \A r \in Rows : Fits(session[s].view[r], r)'
    BY <1>2, <1>4, <1>5 DEF Marked, Fits
  <2>3. QED BY <1>3, <2>1, <2>2 DEF StatusI
<1>7. StartI'
  <2>1. \A t \in Sessions : session'[t].pc \notin {"queued", "plan", "confirm", "reject"}
    BY <1>2, <1>3 DEF Marked, Busy
  <2>2. Task \in Sessions /\ session'[Task] = session[Task]
    BY <1>1, <1>2, SessionsDistinct DEF Marked
  <2>3. QED BY <2>1, <2>2 DEF Calm, StartI
<1>8. HoldI'
  <2>1. Loaded(s)'
    <3>1. session'[s].dirty \cup session'[s].todo \subseteq Present'
      BY <1>2, <1>3, <1>5 DEF Marked
    <3>2. \A r \in Present' \ session'[s].dirty : session'[s].view[r] = step'[r].status
      BY <1>2, <1>3, <1>5 DEF Marked
    <3>3. session'[s].seen = "awaiting_confirmation" /\ session'[s].current = run'.current
      BY <1>2, <1>4 DEF Marked
    <3>4. QED BY <3>1, <3>2, <3>3 DEF Loaded
  <2>2. Working(s)'
    BY <1>2, <1>4 DEF Marked, Working
  <2>3. Executing(s)'
    <3>1. \A r \in Rows : session'[s].view[r] # "failed"
      BY <1>2, <1>4 DEF Marked
    <3>2. \A r \in session'[s].dirty : step'[r].asks
      BY <1>2, <1>5 DEF Marked
    <3>3. QED BY <1>2, <1>3, <3>1, <3>2 DEF Marked, Executing
  <2>4. \A r \in session'[s].dirty : step'[r].asks
    BY <1>2, <1>5 DEF Marked
  <2>5. QED BY <1>2, <1>3, <2>1, <2>2, <2>3, <2>4 DEF Marked, HoldI, Holding
<1>9. OverI'
  BY <1>3 DEF Calm, OverI
<1>10. DoneI' /\ AwaitI'
  BY <1>3 DEF Calm, DoneI, AwaitI, Done
<1>11. CallsI'
  <2>1. SUFFICES ASSUME CallsI PROVE CallsI'
    BY DEF Calm
  <2>2. \A t \in Sessions : session[t].pc \notin {"execute", "commit"}
    BY <1>1, <1>3 DEF Busy
  <2>3. QED BY <2>1, <2>2 DEF CallsI
<1>12. BlockI'
  <2>1. \A t \in Sessions : session'[t].pc \in {"reject", "replan"} => t = s /\ session[s].pc = "reject"
    BY <1>2, <1>3 DEF Marked, Busy
  <2>2. session'[s].current = session[s].current
    BY <1>2, <1>4 DEF Marked
  <2>3. QED BY <1>3, <2>1, <2>2 DEF Calm, BlockI
<1>13. QED BY <1>3, <1>6, <1>7, <1>8, <1>9, <1>10, <1>11, <1>12 DEF Calm

LEMMA ConfirmCalm == ASSUME Base, Calm, NEW s \in Sessions, Confirm(s) PROVE Calm'
<1>1. Base'
  BY ConfirmBase
<1>2. QED BY <1>1, LoadStepsCalm DEF Confirm

LEMMA RejectCalm == ASSUME Base, Calm, NEW s \in Sessions, Reject(s) PROVE Calm'
<1>1. Base'
  BY RejectBase
<1>2. QED BY <1>1, LoadStepsCalm DEF Reject

\* The row that a request rejected is still awaiting where its plan begins.
LEMMA ReplanCollides ==
  ASSUME Base, Calm, NEW s \in Sessions, session[s].pc = "replan", NEW plan \in Plans
  PROVE  Collides(s, plan)
<1>1. PICK r \in Present : step[r].index = session[s].current /\ step[r].status = "awaiting"
  BY DEF Calm, BlockI
<1>2. r \in Kept
  BY <1>1 DEF Kept
<1>3. session[s].current \in Nat
  BY SessionType DEF SessionState
<1>4. Len(plan) \in Nat \ {0}
  <2>1. plan \in Seq(BOOLEAN) /\ plan # <<>>
    BY PlansAssumption
  <2>2. QED BY <2>1
<1>5. session[s].current \in session[s].current .. session[s].current + Len(plan) - 1
  BY <1>3, <1>4
<1>6. QED BY <1>1, <1>2, <1>5 DEF Collides

LEMMA ReplanCalm == ASSUME Base, Calm, NEW s \in Sessions, NEW plan \in Plans, Replan(s, plan) PROVE Calm'
<1>1. Base' /\ session[s].pc = "replan" /\ Busy(s) /\ CloseSession(s)
  BY ReplanBase DEF Replan, Busy
<1>2. UNCHANGED <<run, step, calls, lost>>
  BY <1>1, ReplanCollides DEF Replan
<1>3. QED BY <1>1, <1>2, LeaveCalm

-----------------------------------------------------------------------------
(* The invariant and what follows from it. *)

LEMMA InitInv == Init => Inv
<1> SUFFICES ASSUME Init PROVE Inv
  OBVIOUS
<1>1. Base
  BY InitBase
<1>2. \A s \in Sessions : session[s].pc = IF s = Task THEN "queued" ELSE "closed"
  BY DEF Init, Closed
<1>3. Task \in Sessions /\ inserted = 0 /\ run.status = "planning"
      /\ \A r \in Rows : step[r].status = "unused" /\ calls[r] = 0 /\ lost[r] = 0
  BY SessionsDistinct DEF Init
<1>4. Alone /\ StartI
  BY <1>2, <1>3 DEF Alone, StartI, Busy
<1>5. StatusI /\ HoldI
  BY <1>2, <1>3 DEF StatusI, HoldI, Holding, Fits
<1>6. OverI /\ DoneI /\ AwaitI /\ CallsI /\ BlockI
  BY <1>2, <1>3 DEF OverI, DoneI, AwaitI, CallsI, BlockI
<1>7. QED BY <1>1, <1>4, <1>5, <1>6 DEF Inv, Calm

LEMMA OverlapStays == overlap /\ [Next]_vars => overlap'
<1> SUFFICES ASSUME overlap, [Next]_vars PROVE overlap'
  OBVIOUS
<1>1. CASE TaskPlanning \/ OpenTimeout
  BY <1>1 DEF TaskPlanning, TaskReads, TaskPlans, TaskFails, OpenTimeout
<1>2. CASE \E s \in Sessions : Work(s) \/ Crash(s)
  <2>1. ASSUME NEW s \in Sessions, Work(s) PROVE overlap'
    <3>1. ASSUME NEW r \in Rows, StepGone(s, r) \/ SkipStep(s, r) \/ AskStep(s, r) \/ InvokeRefused(s, r) PROVE overlap'
      BY <3>1 DEF StepGone, SkipStep, AskStep, InvokeRefused
    <3>2. ASSUME NEW r \in Rows, NEW commits \in BOOLEAN, NEW aborts \in BOOLEAN, NEW fails \in BOOLEAN,
                 InvokeStep(s, r, commits, aborts, fails)
          PROVE  overlap'
      BY <3>2 DEF InvokeStep
    <3>3. PlanDone(s) \/ Commit(s) \/ Confirm(s) \/ Reject(s) \/ Cancel(s) \/ RequestFails(s) => overlap'
      BY DEF PlanDone, Commit, Confirm, Reject, Cancel, RequestFails
    <3>4. ASSUME NEW plan \in Plans, Replan(s, plan) PROVE overlap'
      BY <3>4 DEF Replan
    <3>5. QED BY <2>1, <3>1, <3>2, <3>3, <3>4 DEF Work
  <2>2. ASSUME NEW s \in Sessions, Crash(s) PROVE overlap'
    BY <2>2 DEF Crash
  <2>3. QED BY <1>2, <2>1, <2>2
<1>3. CASE \E s \in Requests : OpenDecision(s, "confirm") \/ OpenDecision(s, "reject") \/ OpenCancel(s)
  BY <1>3 DEF OpenDecision, OpenCancel
<1>4. CASE UNCHANGED vars
  BY <1>4 DEF vars
<1>5. QED BY <1>1, <1>2, <1>3, <1>4 DEF Next

LEMMA NextInv == Inv /\ [Next]_vars => Inv'
<1> SUFFICES ASSUME Inv, [Next]_vars PROVE Inv'
  OBVIOUS
<1>1. Base /\ Base'
  BY NextBase DEF Inv
<1> SUFFICES ASSUME ~overlap' PROVE Calm'
  BY <1>1 DEF Inv
<1>2. ~overlap
  BY OverlapStays
<1>3. Calm
  BY <1>2 DEF Inv
<1>4. CASE TaskPlanning
  BY <1>1, <1>3, <1>4, TaskReadsCalm, TaskFailsCalm, TaskPlansCalm DEF TaskPlanning
<1>5. CASE OpenTimeout
  BY <1>1, <1>3, <1>5, OpenTimeoutCalm
<1>6. CASE \E s \in Sessions : Work(s)
  <2>1. PICK s \in Sessions : Work(s)
    BY <1>6
  <2>2. QED BY <1>1, <1>3, <2>1, StepGoneCalm, InvokeRefusedCalm, SkipStepCalm, AskStepCalm, InvokeStepCalm, PlanDoneCalm, CommitCalm,
               ConfirmCalm, RejectCalm, CancelCalm, RequestFailsCalm, ReplanCalm DEF Work
<1>7. CASE \E s \in Sessions : Crash(s)
  BY <1>1, <1>3, <1>7, CrashCalm
<1>8. CASE \E s \in Requests : OpenDecision(s, "confirm") \/ OpenDecision(s, "reject") \/ OpenCancel(s)
  BY <1>1, <1>3, <1>8, OpenDecisionCalm, OpenCancelCalm
<1>9. CASE UNCHANGED vars
  BY <1>3, <1>9 DEF vars, Calm, Alone, StatusI, Fits, StartI, HoldI, Loaded, Working, Executing, Committing,
                    Done, Status, OverI, DoneI, AwaitI, CallsI, BlockI, Unrecorded, Present, Holding, Busy
<1>10. QED BY <1>4, <1>5, <1>6, <1>7, <1>8, <1>9 DEF Next

LEMMA SpecInv == Spec => []Inv
BY InitInv, NextInv, PTL DEF Spec

\* Unless decisions overlapped, a capability runs again only after the record of
\* its last run was lost with a worker or a commit (execute_plan, confirm_step).
THEOREM CapabilitiesRunOnce == Spec => []CalledOnce
<1>1. Inv => CalledOnce
  BY DEF Inv, Calm, CallsI, CalledOnce
<1>2. QED BY SpecInv, <1>1, PTL

\* Unless decisions overlapped, the database refuses every plan that a
\* rejection asks for: reject_step marks its row in the session only, so that
\* the delete leaves it where the new plan begins.
THEOREM ReplansAreRefused == Spec => [](overlap \/ \A s \in Sessions, plan \in Plans :
                                                session[s].pc = "replan" => Collides(s, plan))
<1>1. Inv => overlap \/ \A s \in Sessions, plan \in Plans : session[s].pc = "replan" => Collides(s, plan)
  BY ReplanCollides DEF Inv
<1>2. QED BY SpecInv, <1>1, PTL

\* Unless decisions overlapped, a run is completed with its whole plan done:
\* no step is lost between the requests that confirm it.
THEOREM CompletedRunsAreDone == Spec => []CompletedRunDone
<1>1. Inv => CompletedRunDone
  BY DEF Inv, Calm, DoneI, Done, StatusI, Fits, CompletedRunDone, Present
<1>2. QED BY SpecInv, <1>1, PTL

\* Unless decisions overlapped, a run that awaits a confirmation has the step
\* to confirm where confirm_step and reject_step look for it.
THEOREM WaitingRunsHaveTheirStep == Spec => []AwaitingHasStep
<1>1. Inv => AwaitingHasStep
  BY DEF Inv, Calm, AwaitI, AwaitingHasStep
<1>2. QED BY SpecInv, <1>1, PTL

=============================================================================
