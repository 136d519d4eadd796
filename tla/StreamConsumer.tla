--------------------------- MODULE StreamConsumer ---------------------------
(***************************************************************************)
(* One Redis stream, one consumer group on it and the consume loops that   *)
(* share the group (backend/app/core/pubsub).  Every uvicorn worker starts *)
(* the same consumers with the same group and consumer names, so a group   *)
(* is always served by several loops that compete for its messages.        *)
(*                                                                         *)
(* A message id is the position of its entry in the stream.  XREADGROUP    *)
(* with ">" hands out the entries after the group's cursor in order, so    *)
(* the batch a loop works on is an interval cur .. last of ids.  A loop    *)
(* keeps no state besides that batch and the attempt it is in; what the    *)
(* group remembers is the cursor and the pending entries list (PEL).       *)
(*                                                                         *)
(* Each Redis call is one step, and may fail with or without having taken  *)
(* effect on the server; a loop may end at any await, because its process  *)
(* dies or EventConsumer.stop cancels its task.                            *)
(***************************************************************************)
EXTENDS Naturals, Sequences, FiniteSets

CONSTANTS
  Loops,        (* consume loops subscribed to the group                     *)
  Admins,       (* requests to the reprocess endpoint                        *)
  Events,       (* domain events, each published at most once                *)
  Types,        (* event types                                               *)
  TypeOf,       (* the type of an event, or Unparsable                       *)
  Unparsable,   (* marks an entry Event.from_redis_dict raises on            *)
  Filter,       (* event_types of a loop's subscription, {} meaning all      *)
  MaxAttempts,  (* RetryHandler(max_attempts=5) of the consume loop          *)
  BatchSize,    (* XREADGROUP count=10                                       *)
  MaxStream,    (* bound: entries ever appended to the stream                *)
  MaxFaults     (* bound: Redis errors and loop terminations                 *)

ASSUME ConstantsAssumption ==
  /\ Unparsable \notin Types
  /\ TypeOf \in [Events -> Types \cup {Unparsable}]
  /\ Filter \in [Loops -> SUBSET Types]
  /\ MaxAttempts \in Nat \ {0}
  /\ BatchSize \in Nat \ {0}
  /\ MaxStream \in Nat
  /\ MaxFaults \in Nat

VARIABLES
  \* Redis
  stream,         (* the entries of the stream                               *)
  lastDelivered,  (* the group's cursor                                      *)
  pending,        (* the group's pending entries list                        *)
  failed,         (* entries of events:failed, by original_message_id        *)
  \* the loops
  pc, cur, last, attempt,
  \* the reprocess endpoint
  step, target,
  \* bound and history
  faults,         (* faults so far                                           *)
  handled,        (* ids whose callback returned                             *)
  skipped,        (* ids the type filter dropped                             *)
  moved,          (* ids ever copied to events:failed                        *)
  tries,          (* callback failures of an id                              *)
  ackErrors       (* ids whose XACK raised before they were settled          *)

redis == <<stream, lastDelivered, pending, failed>>
loops == <<pc, cur, last, attempt>>
admin == <<step, target>>
history == <<handled, skipped, moved, tries, ackErrors>>
vars == <<redis, loops, admin, faults, history>>

Ids == 1 .. MaxStream

\* The ids a loop has read and not yet finished.
Held(l) == IF pc[l] \in {"off", "unstarted", "poll", "pause"} THEN {} ELSE cur[l] .. last[l]

Entry(l) == stream[cur[l]]
Parses(l) == TypeOf[Entry(l)] # Unparsable
Wanted(l) == Filter[l] = {} \/ TypeOf[Entry(l)] \in Filter[l]

Goto(l, label) == pc' = [pc EXCEPT ![l] = label]

\* Mutant of NextItem: the last message of a batch is passed over.
MutNextItemStopsEarly(l) ==
  /\ cur' = [cur EXCEPT ![l] = @ + 1]
  /\ Goto(l, IF cur[l] + 1 < last[l] THEN "item" ELSE "poll")
  /\ UNCHANGED <<last, attempt>>

\* On to the next message of the batch, or to the next XREADGROUP.
NextItem(l) ==
  /\ cur' = [cur EXCEPT ![l] = @ + 1]
  /\ Goto(l, IF cur[l] < last[l] THEN "item" ELSE "poll")
  /\ UNCHANGED <<last, attempt>>

Fault ==
  /\ faults < MaxFaults
  /\ faults' = faults + 1

-----------------------------------------------------------------------------
Init ==
  /\ stream = <<>>
  /\ lastDelivered = 0
  /\ pending = {}
  /\ failed = {}
  /\ pc = [l \in Loops |-> "off"]
  /\ cur = [l \in Loops |-> 1]
  /\ last = [l \in Loops |-> 0]
  /\ attempt = [l \in Loops |-> 0]
  /\ step = [a \in Admins |-> "idle"]
  /\ target = [a \in Admins |-> 1]
  /\ faults = 0
  /\ handled = {}
  /\ skipped = {}
  /\ moved = {}
  /\ tries = [i \in Ids |-> 0]
  /\ ackErrors = {}

\* EventPublisher.publish: XADD.  A publish that fails leaves no trace here.
Publish(e) ==
  /\ Len(stream) < MaxStream
  /\ \A i \in 1 .. Len(stream) : stream[i] # e
  /\ stream' = Append(stream, e)
  /\ UNCHANGED <<lastDelivered, pending, failed, loops, admin, faults, history>>

\* subscribe: the group exists afterwards, created at id 0 or left as it was
\* (BUSYGROUP); the cursor is the same either way.
Subscribe(l) ==
  /\ pc[l] = "off"
  /\ Goto(l, "poll")
  /\ UNCHANGED <<redis, cur, last, attempt, admin, faults, history>>

\* ensure_group_exists raises: subscribe raises ConsumeError before the loop is
\* created, the lifespan logs it and goes on.  The worker lives without this
\* loop, and nothing tries again before the process ends.
SubscribeError(l) ==
  /\ pc[l] = "off"
  /\ Fault
  /\ Goto(l, "unstarted")
  /\ UNCHANGED <<redis, cur, last, attempt, admin, history>>

-----------------------------------------------------------------------------
\* Mutant of Deliver: the batch is read without advancing the group's cursor.
MutDeliverKeepsCursor(first, final) ==
  /\ lastDelivered < Len(stream)
  /\ first = lastDelivered + 1
  /\ final = IF lastDelivered + BatchSize < Len(stream)
             THEN lastDelivered + BatchSize ELSE Len(stream)
  /\ pending' = pending \cup (first .. final)
  /\ UNCHANGED <<stream, failed, lastDelivered>>

\* The server side of XREADGROUP ">".
Deliver(first, final) ==
  /\ lastDelivered < Len(stream)
  /\ first = lastDelivered + 1
  /\ final = IF lastDelivered + BatchSize < Len(stream)
             THEN lastDelivered + BatchSize ELSE Len(stream)
  /\ lastDelivered' = final
  /\ pending' = pending \cup (first .. final)
  /\ UNCHANGED <<stream, failed>>

Read(l) ==
  /\ pc[l] = "poll"
  /\ \E first, final \in Ids :
       /\ Deliver(first, final)
       /\ cur' = [cur EXCEPT ![l] = first]
       /\ last' = [last EXCEPT ![l] = final]
  /\ Goto(l, "item")
  /\ UNCHANGED <<attempt, admin, faults, history>>

\* XREADGROUP raises, before or after the server delivered the batch.
ReadError(l) ==
  /\ pc[l] = "poll"
  /\ Fault
  /\ \/ UNCHANGED redis
     \/ \E first, final \in Ids : Deliver(first, final)
  /\ Goto(l, "pause")
  /\ UNCHANGED <<cur, last, attempt, admin, history>>

\* The sleep after an exception outside the message loop.
Resume(l) ==
  /\ pc[l] = "pause"
  /\ Goto(l, "poll")
  /\ UNCHANGED <<redis, cur, last, attempt, admin, faults, history>>

-----------------------------------------------------------------------------
\* Mutant of ParseError: an entry that cannot be parsed is tried again.
MutParseErrorRetries(l) ==
  /\ pc[l] = "item"
  /\ ~Parses(l)
  /\ UNCHANGED vars

\* The entry goes to the failed stream without an attempt to handle it.
ParseError(l) ==
  /\ pc[l] = "item"
  /\ ~Parses(l)
  /\ Goto(l, "move")
  /\ UNCHANGED <<redis, cur, last, attempt, admin, faults, history>>

FilterOut(l) ==
  /\ pc[l] = "item"
  /\ Parses(l) /\ ~Wanted(l)
  /\ skipped' = skipped \cup {cur[l]}
  /\ Goto(l, "ack")
  /\ UNCHANGED <<redis, cur, last, attempt, admin, faults,
                 handled, moved, tries, ackErrors>>

\* Mutant of Dispatch: the message is acknowledged before it is processed.
MutDispatchAcksFirst(l) ==
  /\ pc[l] = "item"
  /\ Parses(l) /\ Wanted(l)
  /\ pending' = pending \ {cur[l]}
  /\ attempt' = [attempt EXCEPT ![l] = 0]
  /\ Goto(l, "call")
  /\ UNCHANGED <<stream, lastDelivered, failed, cur, last, admin, faults, history>>

Dispatch(l) ==
  /\ pc[l] = "item"
  /\ Parses(l) /\ Wanted(l)
  /\ attempt' = [attempt EXCEPT ![l] = 0]
  /\ Goto(l, "call")
  /\ UNCHANGED <<redis, cur, last, admin, faults, history>>

CallbackReturns(l) ==
  /\ pc[l] = "call"
  /\ handled' = handled \cup {cur[l]}
  /\ Goto(l, "ack")
  /\ UNCHANGED <<redis, cur, last, attempt, admin, faults,
                 skipped, moved, tries, ackErrors>>

CallbackRaises(l) ==
  /\ pc[l] = "call"
  /\ tries' = [tries EXCEPT ![cur[l]] = @ + 1]
  /\ Goto(l, "backoff")
  /\ UNCHANGED <<redis, cur, last, attempt, admin, faults,
                 handled, skipped, moved, ackErrors>>

\* Mutants of BackoffOver: one attempt too many, one attempt too few.
MutBackoffOneMore(l) ==
  /\ pc[l] = "backoff"
  /\ IF attempt[l] < MaxAttempts
     THEN /\ attempt' = [attempt EXCEPT ![l] = @ + 1]
          /\ Goto(l, "call")
     ELSE /\ Goto(l, "move")
          /\ UNCHANGED attempt
  /\ UNCHANGED <<redis, cur, last, admin, faults, history>>

MutBackoffOneLess(l) ==
  /\ pc[l] = "backoff"
  /\ IF attempt[l] + 2 < MaxAttempts
     THEN /\ attempt' = [attempt EXCEPT ![l] = @ + 1]
          /\ Goto(l, "call")
     ELSE /\ Goto(l, "move")
          /\ UNCHANGED attempt
  /\ UNCHANGED <<redis, cur, last, admin, faults, history>>

\* The sleep after a failed attempt; the last attempt sleeps too, then the
\* range is exhausted and the last exception is raised.
BackoffOver(l) ==
  /\ pc[l] = "backoff"
  /\ IF attempt[l] + 1 < MaxAttempts
     THEN /\ attempt' = [attempt EXCEPT ![l] = @ + 1]
          /\ Goto(l, "call")
     ELSE /\ Goto(l, "move")
          /\ UNCHANGED attempt
  /\ UNCHANGED <<redis, cur, last, admin, faults, history>>

-----------------------------------------------------------------------------
Ack(l) ==
  /\ pc[l] = "ack"
  /\ pending' = pending \ {cur[l]}
  /\ NextItem(l)
  /\ UNCHANGED <<stream, lastDelivered, failed, admin, faults, history>>

\* XACK raises, applied or not; the exception handler treats it as a failure
\* to process the message.
AckError(l) ==
  /\ pc[l] = "ack"
  /\ Fault
  /\ pending' \in {pending, pending \ {cur[l]}}
  /\ ackErrors' = ackErrors \cup {cur[l]}
  /\ Goto(l, "move")
  /\ UNCHANGED <<stream, lastDelivered, failed, cur, last, attempt, admin,
                 handled, skipped, moved, tries>>

\* _move_to_failed_stream: XADD to events:failed.
CopyToFailed(l) ==
  /\ failed' = failed \cup {cur[l]}
  /\ moved' = moved \cup {cur[l]}

Move(l) ==
  /\ pc[l] = "move"
  /\ CopyToFailed(l)
  /\ Goto(l, "moveAck")
  /\ UNCHANGED <<stream, lastDelivered, pending, cur, last, attempt, admin,
                 faults, handled, skipped, tries, ackErrors>>

\* Mutant of MoveError: the XACK runs although the copy failed.
MutMoveErrorAcks(l) ==
  /\ pc[l] = "move"
  /\ Fault
  /\ CopyToFailed(l) \/ UNCHANGED <<failed, moved>>
  /\ pending' = pending \ {cur[l]}
  /\ NextItem(l)
  /\ UNCHANGED <<stream, lastDelivered, admin,
                 handled, skipped, tries, ackErrors>>

\* That XADD raises, applied or not; the message stays in the PEL.
MoveError(l) ==
  /\ pc[l] = "move"
  /\ Fault
  /\ CopyToFailed(l) \/ UNCHANGED <<failed, moved>>
  /\ NextItem(l)
  /\ UNCHANGED <<stream, lastDelivered, pending, admin,
                 handled, skipped, tries, ackErrors>>

MoveAck(l) ==
  /\ pc[l] = "moveAck"
  /\ pending' = pending \ {cur[l]}
  /\ NextItem(l)
  /\ UNCHANGED <<stream, lastDelivered, failed, admin, faults, history>>

MoveAckError(l) ==
  /\ pc[l] = "moveAck"
  /\ Fault
  /\ pending' \in {pending, pending \ {cur[l]}}
  /\ NextItem(l)
  /\ UNCHANGED <<stream, lastDelivered, failed, admin, history>>

\* The loop ends at an await: stop() cancels the task, or the process dies.
Halt(l) ==
  /\ pc[l] # "off"
  /\ Fault
  /\ Goto(l, "off")
  /\ UNCHANGED <<redis, cur, last, attempt, admin, history>>

-----------------------------------------------------------------------------
\* POST /failed/{message_id}/reprocess: XRANGE, XADD, XDEL.
ReprocessRead(a) ==
  /\ step[a] = "idle"
  /\ \E i \in failed : target' = [target EXCEPT ![a] = i]
  /\ step' = [step EXCEPT ![a] = "add"]
  /\ UNCHANGED <<redis, loops, faults, history>>

ReprocessAdd(a) ==
  /\ step[a] = "add"
  /\ Len(stream) < MaxStream
  /\ stream' = Append(stream, stream[target[a]])
  /\ step' = [step EXCEPT ![a] = "del"]
  /\ UNCHANGED <<lastDelivered, pending, failed, target, loops, faults, history>>

ReprocessDel(a) ==
  /\ step[a] = "del"
  /\ failed' = failed \ {target[a]}
  /\ step' = [step EXCEPT ![a] = "idle"]
  /\ UNCHANGED <<stream, lastDelivered, pending, target, loops, faults, history>>

\* The request ends early: a Redis error, or its worker dies.
ReprocessAbort(a) ==
  /\ step[a] # "idle"
  /\ Fault
  /\ step' = [step EXCEPT ![a] = "idle"]
  /\ UNCHANGED <<redis, target, loops, history>>

-----------------------------------------------------------------------------
\* What a loop does by itself when nothing fails.
LoopStep(l) ==
  \/ Subscribe(l)
  \/ Read(l)
  \/ Resume(l)
  \/ ParseError(l)
  \/ FilterOut(l)
  \/ Dispatch(l)
  \/ CallbackReturns(l)
  \/ CallbackRaises(l)
  \/ BackoffOver(l)
  \/ Ack(l)
  \/ Move(l)
  \/ MoveAck(l)

LoopFault(l) ==
  \/ SubscribeError(l)
  \/ ReadError(l)
  \/ AckError(l)
  \/ MoveError(l)
  \/ MoveAckError(l)
  \/ Halt(l)

Reprocess(a) ==
  \/ ReprocessRead(a)
  \/ ReprocessAdd(a)
  \/ ReprocessDel(a)
  \/ ReprocessAbort(a)

Next ==
  \/ \E e \in Events : Publish(e)
  \/ \E l \in Loops : LoopStep(l) \/ LoopFault(l)
  \/ \E a \in Admins : Reprocess(a)

Spec == Init /\ [][Next]_vars

\* The event loop runs every task that is ready, sleeps and socket reads end,
\* callbacks return or raise.  A worker that ended is started again, and its
\* lifespan subscribes or fails to; a loop it failed to start is never "off", so
\* nothing here makes it run.
FairSpec == Spec /\ \A l \in Loops : WF_vars(LoopStep(l) \/ SubscribeError(l))
-----------------------------------------------------------------------------
Labels == {"off", "unstarted", "poll", "pause", "item", "call", "backoff",
           "ack", "move", "moveAck"}

\* Types of the variables, and the counters within the ranges of the code.
TypeOK ==
  /\ stream \in Seq(Events) /\ Len(stream) <= MaxStream
  /\ lastDelivered \in 0 .. Len(stream)
  /\ pending \subseteq Ids /\ failed \subseteq Ids
  /\ pc \in [Loops -> Labels]
  /\ cur \in [Loops -> Nat] /\ last \in [Loops -> Nat]
  /\ attempt \in [Loops -> 0 .. MaxAttempts - 1]
  /\ step \in [Admins -> {"idle", "add", "del"}]
  /\ target \in [Admins -> Nat]
  /\ faults \in 0 .. MaxFaults
  /\ handled \subseteq Ids /\ skipped \subseteq Ids /\ moved \subseteq Ids
  /\ tries \in [Ids -> 0 .. MaxAttempts]
  /\ ackErrors \subseteq Ids

\* No delivered message disappears without an outcome, whatever errors and
\* terminations interrupt the loops and the reprocess requests: it is still in
\* the PEL, was handled or filtered, waits in events:failed, or was appended to
\* the stream again.
NoDeliveryLost ==
  \A i \in 1 .. lastDelivered :
    \/ i \in pending \cup handled \cup skipped \cup failed
    \/ \E j \in i + 1 .. Len(stream) : stream[j] = stream[i]

\* A message is in the hands of one loop at a time, and a loop never calls the
\* callback for a message that already has an outcome.
ExclusiveDelivery ==
  /\ \A l, m \in Loops : l # m => Held(l) \cap Held(m) = {}
  /\ \A l \in Loops : pc[l] \in {"call", "backoff"} =>
       cur[l] \in pending \ (handled \cup skipped \cup moved)

\* events:failed receives a message only when its callback failed MaxAttempts
\* times, when it could not be parsed, or when its acknowledgement failed.
DeadLetterJustified ==
  \A i \in moved : \/ tries[i] = MaxAttempts
                   \/ TypeOf[stream[i]] = Unparsable
                   \/ i \in ackErrors

\* The entries of the group as EventDelivery sees them.
StatusOf(i) ==
  IF i > Len(stream) THEN "absent"
  ELSE IF i > lastDelivered THEN "queued"
  ELSE IF i \in handled THEN "handled"
  ELSE IF i \in skipped THEN "skipped"
  ELSE IF i \in moved THEN "dead"
  ELSE "taken"

Delivery == INSTANCE EventDelivery
              WITH status <- [i \in Ids |-> StatusOf(i)], unacked <- pending

\* The loops implement in-order, at-most-one-outcome delivery in which the
\* acknowledgement follows the outcome (steps of EventConsumer._consume_loop).
ImplementsDelivery == Delivery!Spec

Outcome(i) == i \in handled \cup skipped \cup moved

\* The loops whose worker lives without them.
Unstarted == {l \in Loops : pc[l] = "unstarted"}

\* As long as some worker started its loop and nothing but the start of the
\* other loops failed, every entry reaches an outcome and leaves the PEL: a
\* callback that keeps raising costs its attempts and never blocks the entries
\* behind it, and one loop serves the group for those that never started.
EventuallySettled ==
  \A i \in Ids : (i <= Len(stream)) ~>
    \/ Outcome(i) /\ i \notin pending
    \/ faults > Cardinality(Unstarted)
    \/ Unstarted = Loops

\* With faults of any kind an entry that misses its outcome was lost by the one
\* loop that took it: delivered, and no longer held by any loop.  The entry is
\* not even delivered only where no worker could start its loop.
SettledOrStranded ==
  \A i \in Ids : (i <= Len(stream)) ~>
    \/ i <= lastDelivered /\ (Outcome(i) \/ \A l \in Loops : i \notin Held(l))
    \/ Unstarted = Loops
=============================================================================
