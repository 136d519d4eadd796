------------------------ MODULE StreamConsumerProofs ------------------------
(***************************************************************************)
(* The safety properties of StreamConsumer for every number of loops,      *)
(* events, attempts and every batch size, and the refinement of            *)
(* EventDelivery.                                                          *)
(*                                                                         *)
(* None of the properties is inductive: that a loop never processes an     *)
(* entry twice rests on the batches of the loops being disjoint intervals  *)
(* below the cursor whose entries nobody has touched, and that no entry is *)
(* lost rests on what every program location knows about the entry it is   *)
(* at.  IInv collects these facts.                                         *)
(***************************************************************************)
EXTENDS StreamConsumer, TLAPS

Busy(l) == pc[l] \notin {"off", "unstarted", "poll", "pause"}

\* Delivered, and nothing has happened to it yet.
Untouched(i) ==
  /\ i \in pending
  /\ i \notin handled \cup skipped \cup moved
  /\ tries[i] = 0

\* The stream holds the entry again, further on.
Copied(i) == \E j \in i + 1 .. Len(stream) : stream[j] = stream[i]

Batches ==
  \A l \in Loops : Busy(l) =>
    1 <= cur[l] /\ cur[l] <= last[l] /\ last[l] <= lastDelivered

Apart ==
  \A l, m \in Loops : l # m /\ Busy(l) /\ Busy(m) =>
    last[l] < cur[m] \/ last[m] < cur[l]

Rest(l) == Busy(l) => \A i \in cur[l] + 1 .. last[l] : Untouched(i)

RestUntouched == \A l \in Loops : Rest(l)

\* What a loop's location says about the entry it is at.
CurrentEntry(l) ==
  /\ pc[l] = "item" => Untouched(cur[l])
  /\ pc[l] \in {"call", "backoff"} =>
       cur[l] \in pending \ (handled \cup skipped \cup moved)
  /\ pc[l] = "call" => tries[cur[l]] = attempt[l]
  /\ pc[l] = "backoff" => tries[cur[l]] = attempt[l] + 1
  /\ pc[l] = "ack" => cur[l] \in handled \cup skipped
  /\ pc[l] = "move" => \/ tries[cur[l]] = MaxAttempts
                       \/ TypeOf[stream[cur[l]]] = Unparsable
                       \/ cur[l] \in ackErrors
  /\ pc[l] = "moveAck" => cur[l] \in moved

Current == \A l \in Loops : CurrentEntry(l)

Undelivered ==
  \A i \in Ids : i > lastDelivered =>
    /\ i \notin pending \cup handled \cup skipped \cup moved
    /\ tries[i] = 0

Copies ==
  /\ failed \subseteq moved
  /\ \A i \in moved : i \in failed \/ Copied(i)

Targets ==
  \A a \in Admins : /\ step[a] # "idle" => target[a] \in moved
                    /\ step[a] = "del" => Copied(target[a])

IInv ==
  /\ TypeOK
  /\ Batches
  /\ Apart
  /\ RestUntouched
  /\ Current
  /\ Undelivered
  /\ Copies
  /\ Targets
  /\ NoDeliveryLost
  /\ DeadLetterJustified
-----------------------------------------------------------------------------
\* A step of loop x within its batch: the other loops stay where they are, and
\* the only entry whose fortune may change is the one x is at.
Own(x) ==
  /\ UNCHANGED <<stream, lastDelivered, step, target>>
  /\ \A m \in Loops : m # x => /\ pc'[m] = pc[m] /\ cur'[m] = cur[m]
                               /\ last'[m] = last[m] /\ attempt'[m] = attempt[m]
  /\ Busy(x)' => cur[x] <= cur'[x] /\ cur'[x] <= last[x] /\ last'[x] = last[x]
  /\ \A i \in Ids : i # cur[x] =>
       /\ i \in pending' <=> i \in pending
       /\ i \in handled' <=> i \in handled
       /\ i \in skipped' <=> i \in skipped
       /\ i \in moved' <=> i \in moved
       /\ tries'[i] = tries[i]
  /\ moved \subseteq moved'
  /\ ackErrors \subseteq ackErrors'

LEMMA Numbers ==
  ASSUME TypeOK
  PROVE /\ \A l \in Loops : cur[l] \in Nat /\ last[l] \in Nat /\ attempt[l] \in Nat
        /\ lastDelivered \in Nat /\ Len(stream) \in Nat /\ MaxStream \in Nat
        /\ lastDelivered <= Len(stream) /\ Len(stream) <= MaxStream
        /\ Ids \subseteq Nat
<1>1. Len(stream) \in Nat
  BY DEF TypeOK
<1>2. \A l \in Loops : attempt[l] \in Nat
  BY ConstantsAssumption DEF TypeOK
<1>3. QED
  BY <1>1, <1>2, ConstantsAssumption DEF TypeOK, Ids

LEMMA OwnKeepsBatches ==
  ASSUME IInv, NEW x \in Loops, Busy(x), Own(x), TypeOK'
  PROVE Batches' /\ Apart'
<1>1. ASSUME NEW l \in Loops, Busy(l)'
      PROVE /\ Busy(l) /\ cur[l] <= cur'[l] /\ cur'[l] <= last'[l]
            /\ last'[l] = last[l] /\ last[l] <= lastDelivered'
  <2>1. CASE l = x
    BY <1>1, <2>1 DEF IInv, Batches, Own
  <2>2. CASE l # x
    BY <1>1, <2>2 DEF IInv, TypeOK, Batches, Own, Busy
  <2>3. QED BY <2>1, <2>2
<1>2. Batches'
  <2>1. \A l \in Loops : Busy(l) => 1 <= cur[l] /\ cur[l] \in Nat
    BY Numbers DEF IInv, Batches
  <2>2. \A l \in Loops : cur'[l] \in Nat
    BY DEF TypeOK
  <2>3. QED BY <1>1, <2>1, <2>2 DEF Batches
<1>3. Apart'
  <2>1. \A l \in Loops : /\ cur[l] \in Nat /\ last[l] \in Nat
                         /\ cur'[l] \in Nat /\ last'[l] \in Nat
    BY DEF IInv, TypeOK
  <2>2. ASSUME NEW l \in Loops, NEW m \in Loops, l # m, Busy(l)', Busy(m)'
        PROVE last'[l] < cur'[m] \/ last'[m] < cur'[l]
    BY <1>1, <2>1, <2>2 DEF IInv, Apart
  <2>3. QED BY <2>2 DEF Apart, Busy
<1>4. QED BY <1>2, <1>3

LEMMA OwnKeepsOthers ==
  ASSUME IInv, NEW x \in Loops, Busy(x), Own(x), TypeOK',
         NEW m \in Loops, m # x
  PROVE CurrentEntry(m)' /\ Rest(m)'
<1>1. ASSUME Busy(m), NEW i \in cur[m] .. last[m]
      PROVE i \in Ids /\ i # cur[x]
  BY <1>1, Numbers DEF IInv, Batches, Apart, Ids
<1>2. ASSUME Busy(m) PROVE cur[m] \in cur[m] .. last[m]
  BY <1>2, Numbers DEF IInv, Batches
<1>3. CurrentEntry(m)'
  BY <1>1, <1>2 DEF IInv, Current, CurrentEntry, Own, Busy, Untouched
<1>4. Rest(m)'
  <2>1. ASSUME Busy(m), NEW i \in cur[m] + 1 .. last[m]
        PROVE i \in cur[m] .. last[m]
    BY <2>1, Numbers DEF IInv
  <2>2. QED
    BY <1>1, <2>1 DEF IInv, RestUntouched, Rest, Own, Busy, Untouched
<1>5. QED BY <1>3, <1>4

LEMMA OwnKeepsUndelivered ==
  ASSUME IInv, NEW x \in Loops, Busy(x), Own(x)
  PROVE Undelivered'
<1>1. cur[x] <= lastDelivered /\ cur[x] \in Nat /\ lastDelivered \in Nat
  BY Numbers DEF IInv, Batches
<1>2. QED
  BY <1>1 DEF IInv, Undelivered, Own, Ids

LEMMA BusyEntry ==
  ASSUME IInv, NEW x \in Loops, Busy(x)
  PROVE /\ cur[x] \in Ids /\ last[x] \in Ids /\ cur[x] <= last[x]
        /\ cur[x] <= lastDelivered /\ cur[x] \in Nat /\ last[x] \in Nat
BY Numbers DEF IInv, Batches, Ids

LEMMA OwnKeepsRest ==
  ASSUME IInv, NEW x \in Loops, Busy(x), Own(x), TypeOK'
  PROVE Rest(x)'
<1>1. SUFFICES ASSUME Busy(x)', NEW i \in cur'[x] + 1 .. last'[x]
               PROVE Untouched(i)'
  BY DEF Rest
<1>2. cur'[x] \in Nat
  BY DEF TypeOK
<1>3. i \in cur[x] + 1 .. last[x] /\ i \in Ids /\ i # cur[x]
  <2>1. cur[x] <= cur'[x] /\ last'[x] = last[x]
    BY <1>1 DEF Own
  <2>2. /\ cur[x] \in Nat /\ last[x] \in Nat /\ cur[x] >= 1
        /\ last[x] <= MaxStream /\ MaxStream \in Nat
    BY BusyEntry, ConstantsAssumption DEF Ids
  <2>3. QED
    BY <1>1, <1>2, <2>1, <2>2 DEF Ids
<1>4. Untouched(i)
  BY <1>3 DEF IInv, RestUntouched, Rest
<1>5. QED
  BY <1>3, <1>4 DEF Own, Untouched

\* Moving on to the next entry of the batch finds it untouched.
LEMMA NextItemEntry ==
  ASSUME IInv, NEW x \in Loops, Busy(x), Own(x), NextItem(x)
  PROVE CurrentEntry(x)'
<1>1. pc \in [Loops -> Labels] /\ cur \in [Loops -> Nat]
  BY DEF IInv, TypeOK
<1>2. /\ pc'[x] = IF cur[x] < last[x] THEN "item" ELSE "poll"
      /\ cur'[x] = cur[x] + 1
  BY <1>1 DEF NextItem, Goto
<1>3. CASE cur[x] < last[x]
  <2>1. /\ cur[x] + 1 \in cur[x] + 1 .. last[x] /\ cur[x] + 1 \in Ids
        /\ cur[x] + 1 # cur[x]
    <3>1. /\ cur[x] \in Nat /\ last[x] \in Nat /\ cur[x] >= 1
          /\ last[x] <= MaxStream /\ MaxStream \in Nat
      BY BusyEntry, ConstantsAssumption DEF Ids
    <3>2. QED BY <1>3, <3>1 DEF Ids
  <2>2. Untouched(cur[x] + 1)
    BY <2>1 DEF IInv, RestUntouched, Rest
  <2>3. Untouched(cur[x])'
    BY <1>2, <2>1, <2>2 DEF Own, Untouched
  <2>4. QED
    BY <1>2, <1>3, <2>3 DEF CurrentEntry
<1>4. CASE ~(cur[x] < last[x])
  BY <1>2, <1>4 DEF CurrentEntry
<1>5. QED BY <1>3, <1>4

\* What is left to show of such a step concerns the entry x is at.
LEMMA OwnStep ==
  ASSUME IInv, NEW x \in Loops, Busy(x), Own(x), TypeOK', CurrentEntry(x)',
         Copies', NoDeliveryLost', DeadLetterJustified'
  PROVE IInv'
<1>1. Targets'
  BY DEF IInv, Targets, Own, Copied
<1>2. Current' /\ RestUntouched'
  BY OwnKeepsOthers, OwnKeepsRest DEF Current, RestUntouched
<1>3. QED
  BY <1>1, <1>2, OwnKeepsBatches, OwnKeepsUndelivered DEF IInv
-----------------------------------------------------------------------------
\* The steps of a loop within its batch.

LEMMA ParseErrorStep ==
  ASSUME IInv, NEW x \in Loops, ParseError(x)
  PROVE IInv'
<1>1. /\ Busy(x) /\ cur[x] \in Ids /\ cur[x] \in Nat /\ last[x] \in Nat
      /\ cur[x] <= last[x] /\ cur[x] <= lastDelivered
  BY BusyEntry DEF ParseError, Busy
<1>2. TypeOK'
  BY <1>1, ConstantsAssumption
  DEF IInv, TypeOK, Labels, Current, CurrentEntry,
      ParseError, Goto, Entry, Parses, Wanted, redis, loops, admin, history
<1>3. Own(x)
  BY <1>1
  DEF IInv, TypeOK, Own, Busy, ParseError, Goto, Entry, Parses, Wanted, redis, loops, admin, history
<1>4. CurrentEntry(x)'
  BY <1>1, ConstantsAssumption
  DEF IInv, TypeOK, Current, CurrentEntry, Untouched,
      ParseError, Goto, Entry, Parses, Wanted, redis, loops, admin, history
<1>5. Copies'
  BY <1>1 DEF IInv, Copies, Copied, ParseError, Goto, Entry, Parses, Wanted, redis, loops, admin, history
<1>6. NoDeliveryLost'
  BY <1>1
  DEF IInv, Current, CurrentEntry, Copies, Copied, NoDeliveryLost,
      ParseError, Goto, Entry, Parses, Wanted, redis, loops, admin, history
<1>7. DeadLetterJustified'
  BY <1>1
  DEF IInv, TypeOK, Current, CurrentEntry, DeadLetterJustified,
      ParseError, Goto, Entry, Parses, Wanted, redis, loops, admin, history
<1>8. QED
  BY <1>1, <1>2, <1>3, <1>4, <1>5, <1>6, <1>7, OwnStep

LEMMA FilterOutStep ==
  ASSUME IInv, NEW x \in Loops, FilterOut(x)
  PROVE IInv'
<1>1. /\ Busy(x) /\ cur[x] \in Ids /\ cur[x] \in Nat /\ last[x] \in Nat
      /\ cur[x] <= last[x] /\ cur[x] <= lastDelivered
  BY BusyEntry DEF FilterOut, Busy
<1>2. TypeOK'
  BY <1>1, ConstantsAssumption
  DEF IInv, TypeOK, Labels, Current, CurrentEntry,
      FilterOut, Goto, Entry, Parses, Wanted, redis, loops, admin, history
<1>3. Own(x)
  BY <1>1
  DEF IInv, TypeOK, Own, Busy, FilterOut, Goto, Entry, Parses, Wanted, redis, loops, admin, history
<1>4. CurrentEntry(x)'
  BY <1>1, ConstantsAssumption
  DEF IInv, TypeOK, Current, CurrentEntry, Untouched,
      FilterOut, Goto, Entry, Parses, Wanted, redis, loops, admin, history
<1>5. Copies'
  BY <1>1 DEF IInv, Copies, Copied, FilterOut, Goto, Entry, Parses, Wanted, redis, loops, admin, history
<1>6. NoDeliveryLost'
  BY <1>1
  DEF IInv, Current, CurrentEntry, Copies, Copied, NoDeliveryLost,
      FilterOut, Goto, Entry, Parses, Wanted, redis, loops, admin, history
<1>7. DeadLetterJustified'
  BY <1>1
  DEF IInv, TypeOK, Current, CurrentEntry, DeadLetterJustified,
      FilterOut, Goto, Entry, Parses, Wanted, redis, loops, admin, history
<1>8. QED
  BY <1>1, <1>2, <1>3, <1>4, <1>5, <1>6, <1>7, OwnStep

LEMMA DispatchStep ==
  ASSUME IInv, NEW x \in Loops, Dispatch(x)
  PROVE IInv'
<1>1. /\ Busy(x) /\ cur[x] \in Ids /\ cur[x] \in Nat /\ last[x] \in Nat
      /\ cur[x] <= last[x] /\ cur[x] <= lastDelivered
  BY BusyEntry DEF Dispatch, Busy
<1>2. TypeOK'
  BY <1>1, ConstantsAssumption
  DEF IInv, TypeOK, Labels, Current, CurrentEntry,
      Dispatch, Goto, Entry, Parses, Wanted, redis, loops, admin, history
<1>3. Own(x)
  BY <1>1
  DEF IInv, TypeOK, Own, Busy, Dispatch, Goto, Entry, Parses, Wanted, redis, loops, admin, history
<1>4. CurrentEntry(x)'
  BY <1>1, ConstantsAssumption
  DEF IInv, TypeOK, Current, CurrentEntry, Untouched,
      Dispatch, Goto, Entry, Parses, Wanted, redis, loops, admin, history
<1>5. Copies'
  BY <1>1 DEF IInv, Copies, Copied, Dispatch, Goto, Entry, Parses, Wanted, redis, loops, admin, history
<1>6. NoDeliveryLost'
  BY <1>1
  DEF IInv, Current, CurrentEntry, Copies, Copied, NoDeliveryLost,
      Dispatch, Goto, Entry, Parses, Wanted, redis, loops, admin, history
<1>7. DeadLetterJustified'
  BY <1>1
  DEF IInv, TypeOK, Current, CurrentEntry, DeadLetterJustified,
      Dispatch, Goto, Entry, Parses, Wanted, redis, loops, admin, history
<1>8. QED
  BY <1>1, <1>2, <1>3, <1>4, <1>5, <1>6, <1>7, OwnStep

LEMMA CallbackReturnsStep ==
  ASSUME IInv, NEW x \in Loops, CallbackReturns(x)
  PROVE IInv'
<1>1. /\ Busy(x) /\ cur[x] \in Ids /\ cur[x] \in Nat /\ last[x] \in Nat
      /\ cur[x] <= last[x] /\ cur[x] <= lastDelivered
  BY BusyEntry DEF CallbackReturns, Busy
<1>2. TypeOK'
  BY <1>1, ConstantsAssumption
  DEF IInv, TypeOK, Labels, Current, CurrentEntry,
      CallbackReturns, Goto, redis, loops, admin, history
<1>3. Own(x)
  BY <1>1
  DEF IInv, TypeOK, Own, Busy, CallbackReturns, Goto, redis, loops, admin, history
<1>4. CurrentEntry(x)'
  BY <1>1, ConstantsAssumption
  DEF IInv, TypeOK, Current, CurrentEntry, Untouched,
      CallbackReturns, Goto, redis, loops, admin, history
<1>5. Copies'
  BY <1>1 DEF IInv, Copies, Copied, CallbackReturns, Goto, redis, loops, admin, history
<1>6. NoDeliveryLost'
  BY <1>1
  DEF IInv, Current, CurrentEntry, Copies, Copied, NoDeliveryLost,
      CallbackReturns, Goto, redis, loops, admin, history
<1>7. DeadLetterJustified'
  BY <1>1
  DEF IInv, TypeOK, Current, CurrentEntry, DeadLetterJustified,
      CallbackReturns, Goto, redis, loops, admin, history
<1>8. QED
  BY <1>1, <1>2, <1>3, <1>4, <1>5, <1>6, <1>7, OwnStep

LEMMA CallbackRaisesStep ==
  ASSUME IInv, NEW x \in Loops, CallbackRaises(x)
  PROVE IInv'
<1>1. /\ Busy(x) /\ cur[x] \in Ids /\ cur[x] \in Nat /\ last[x] \in Nat
      /\ cur[x] <= last[x] /\ cur[x] <= lastDelivered
  BY BusyEntry DEF CallbackRaises, Busy
<1>2. TypeOK'
  BY <1>1, ConstantsAssumption
  DEF IInv, TypeOK, Labels, Current, CurrentEntry,
      CallbackRaises, Goto, redis, loops, admin, history
<1>3. Own(x)
  BY <1>1
  DEF IInv, TypeOK, Own, Busy, CallbackRaises, Goto, redis, loops, admin, history
<1>4. CurrentEntry(x)'
  BY <1>1, ConstantsAssumption
  DEF IInv, TypeOK, Current, CurrentEntry, Untouched,
      CallbackRaises, Goto, redis, loops, admin, history
<1>5. Copies'
  BY <1>1 DEF IInv, Copies, Copied, CallbackRaises, Goto, redis, loops, admin, history
<1>6. NoDeliveryLost'
  BY <1>1
  DEF IInv, Current, CurrentEntry, Copies, Copied, NoDeliveryLost,
      CallbackRaises, Goto, redis, loops, admin, history
<1>7. DeadLetterJustified'
  BY <1>1
  DEF IInv, TypeOK, Current, CurrentEntry, DeadLetterJustified,
      CallbackRaises, Goto, redis, loops, admin, history
<1>8. QED
  BY <1>1, <1>2, <1>3, <1>4, <1>5, <1>6, <1>7, OwnStep

LEMMA BackoffOverStep ==
  ASSUME IInv, NEW x \in Loops, BackoffOver(x)
  PROVE IInv'
<1>1. /\ Busy(x) /\ cur[x] \in Ids /\ cur[x] \in Nat /\ last[x] \in Nat
      /\ cur[x] <= last[x] /\ cur[x] <= lastDelivered
  BY BusyEntry DEF BackoffOver, Busy
<1>2. TypeOK'
  <2>1. /\ attempt \in [Loops -> 0 .. MaxAttempts - 1]
        /\ attempt[x] \in Nat /\ MaxAttempts \in Nat
    BY Numbers, ConstantsAssumption DEF IInv, TypeOK
  <2>2. attempt' \in [Loops -> 0 .. MaxAttempts - 1]
    <3>1. CASE attempt[x] + 1 < MaxAttempts
      <4>1. attempt[x] + 1 \in 0 .. MaxAttempts - 1
        BY <2>1, <3>1
      <4>2. attempt' = [attempt EXCEPT ![x] = attempt[x] + 1]
        BY <3>1 DEF BackoffOver
      <4>3. QED BY <2>1, <4>1, <4>2
    <3>2. CASE ~(attempt[x] + 1 < MaxAttempts)
      BY <2>1, <3>2 DEF BackoffOver
    <3>3. QED BY <3>1, <3>2
  <2>3. pc' \in [Loops -> Labels]
    BY DEF IInv, TypeOK, BackoffOver, Goto, Labels
  <2>4. QED
    BY <2>2, <2>3 DEF IInv, TypeOK, BackoffOver, Goto, redis, loops, admin, history
<1>3. Own(x)
  BY <1>1
  DEF IInv, TypeOK, Own, Busy, BackoffOver, Goto, redis, loops, admin, history
<1>4. CurrentEntry(x)'
  BY <1>1, ConstantsAssumption
  DEF IInv, TypeOK, Current, CurrentEntry, Untouched,
      BackoffOver, Goto, redis, loops, admin, history
<1>5. Copies'
  BY <1>1 DEF IInv, Copies, Copied, BackoffOver, Goto, redis, loops, admin, history
<1>6. NoDeliveryLost'
  BY <1>1
  DEF IInv, Current, CurrentEntry, Copies, Copied, NoDeliveryLost,
      BackoffOver, Goto, redis, loops, admin, history
<1>7. DeadLetterJustified'
  BY <1>1
  DEF IInv, TypeOK, Current, CurrentEntry, DeadLetterJustified,
      BackoffOver, Goto, redis, loops, admin, history
<1>8. QED
  BY <1>1, <1>2, <1>3, <1>4, <1>5, <1>6, <1>7, OwnStep

LEMMA AckStep ==
  ASSUME IInv, NEW x \in Loops, Ack(x)
  PROVE IInv'
<1>1. /\ Busy(x) /\ cur[x] \in Ids /\ cur[x] \in Nat /\ last[x] \in Nat
      /\ cur[x] <= last[x] /\ cur[x] <= lastDelivered
  BY BusyEntry DEF Ack, Busy
<1>2. TypeOK'
  BY <1>1, ConstantsAssumption
  DEF IInv, TypeOK, Labels, Current, CurrentEntry,
      Ack, Goto, NextItem, redis, loops, admin, history
<1>3. Own(x)
  BY <1>1
  DEF IInv, TypeOK, Own, Busy, Ack, Goto, NextItem, redis, loops, admin, history
<1>4. CurrentEntry(x)'
  BY <1>1, <1>3, NextItemEntry DEF Ack
<1>5. Copies'
  BY <1>1 DEF IInv, Copies, Copied, Ack, Goto, NextItem, redis, loops, admin, history
<1>6. NoDeliveryLost'
  BY <1>1
  DEF IInv, Current, CurrentEntry, Copies, Copied, NoDeliveryLost,
      Ack, Goto, NextItem, redis, loops, admin, history
<1>7. DeadLetterJustified'
  BY <1>1
  DEF IInv, TypeOK, Current, CurrentEntry, DeadLetterJustified,
      Ack, Goto, NextItem, redis, loops, admin, history
<1>8. QED
  BY <1>1, <1>2, <1>3, <1>4, <1>5, <1>6, <1>7, OwnStep

LEMMA AckErrorStep ==
  ASSUME IInv, NEW x \in Loops, AckError(x)
  PROVE IInv'
<1>1. /\ Busy(x) /\ cur[x] \in Ids /\ cur[x] \in Nat /\ last[x] \in Nat
      /\ cur[x] <= last[x] /\ cur[x] <= lastDelivered
  BY BusyEntry DEF AckError, Busy
<1>2. TypeOK'
  BY <1>1, ConstantsAssumption
  DEF IInv, TypeOK, Labels, Current, CurrentEntry,
      AckError, Goto, Fault, redis, loops, admin, history
<1>3. Own(x)
  BY <1>1
  DEF IInv, TypeOK, Own, Busy, AckError, Goto, Fault, redis, loops, admin, history
<1>4. CurrentEntry(x)'
  BY <1>1, ConstantsAssumption
  DEF IInv, TypeOK, Current, CurrentEntry, Untouched,
      AckError, Goto, Fault, redis, loops, admin, history
<1>5. Copies'
  BY <1>1 DEF IInv, Copies, Copied, AckError, Goto, Fault, redis, loops, admin, history
<1>6. NoDeliveryLost'
  BY <1>1
  DEF IInv, Current, CurrentEntry, Copies, Copied, NoDeliveryLost,
      AckError, Goto, Fault, redis, loops, admin, history
<1>7. DeadLetterJustified'
  BY <1>1
  DEF IInv, TypeOK, Current, CurrentEntry, DeadLetterJustified,
      AckError, Goto, Fault, redis, loops, admin, history
<1>8. QED
  BY <1>1, <1>2, <1>3, <1>4, <1>5, <1>6, <1>7, OwnStep

LEMMA MoveStep ==
  ASSUME IInv, NEW x \in Loops, Move(x)
  PROVE IInv'
<1>1. /\ Busy(x) /\ cur[x] \in Ids /\ cur[x] \in Nat /\ last[x] \in Nat
      /\ cur[x] <= last[x] /\ cur[x] <= lastDelivered
  BY BusyEntry DEF Move, Busy
<1>2. TypeOK'
  BY <1>1, ConstantsAssumption
  DEF IInv, TypeOK, Labels, Current, CurrentEntry,
      Move, Goto, CopyToFailed, redis, loops, admin, history
<1>3. Own(x)
  BY <1>1
  DEF IInv, TypeOK, Own, Busy, Move, Goto, CopyToFailed, redis, loops, admin, history
<1>4. CurrentEntry(x)'
  BY <1>1, ConstantsAssumption
  DEF IInv, TypeOK, Current, CurrentEntry, Untouched,
      Move, Goto, CopyToFailed, redis, loops, admin, history
<1>5. Copies'
  BY <1>1 DEF IInv, Copies, Copied, Move, Goto, CopyToFailed, redis, loops, admin, history
<1>6. NoDeliveryLost'
  BY <1>1
  DEF IInv, Current, CurrentEntry, Copies, Copied, NoDeliveryLost,
      Move, Goto, CopyToFailed, redis, loops, admin, history
<1>7. DeadLetterJustified'
  BY <1>1
  DEF IInv, TypeOK, Current, CurrentEntry, DeadLetterJustified,
      Move, Goto, CopyToFailed, redis, loops, admin, history
<1>8. QED
  BY <1>1, <1>2, <1>3, <1>4, <1>5, <1>6, <1>7, OwnStep

LEMMA MoveErrorStep ==
  ASSUME IInv, NEW x \in Loops, MoveError(x)
  PROVE IInv'
<1>1. /\ Busy(x) /\ cur[x] \in Ids /\ cur[x] \in Nat /\ last[x] \in Nat
      /\ cur[x] <= last[x] /\ cur[x] <= lastDelivered
  BY BusyEntry DEF MoveError, Busy
<1>2. TypeOK'
  BY <1>1, ConstantsAssumption
  DEF IInv, TypeOK, Labels, Current, CurrentEntry,
      MoveError, Goto, NextItem, Fault, CopyToFailed, redis, loops, admin, history
<1>3. Own(x)
  BY <1>1
  DEF IInv, TypeOK, Own, Busy, MoveError, Goto, NextItem, Fault, CopyToFailed, redis, loops, admin, history
<1>4. CurrentEntry(x)'
  BY <1>1, <1>3, NextItemEntry DEF MoveError
<1>5. Copies'
  BY <1>1 DEF IInv, Copies, Copied, MoveError, Goto, NextItem, Fault, CopyToFailed, redis, loops, admin, history
<1>6. NoDeliveryLost'
  BY <1>1
  DEF IInv, Current, CurrentEntry, Copies, Copied, NoDeliveryLost,
      MoveError, Goto, NextItem, Fault, CopyToFailed, redis, loops, admin, history
<1>7. DeadLetterJustified'
  BY <1>1
  DEF IInv, TypeOK, Current, CurrentEntry, DeadLetterJustified,
      MoveError, Goto, NextItem, Fault, CopyToFailed, redis, loops, admin, history
<1>8. QED
  BY <1>1, <1>2, <1>3, <1>4, <1>5, <1>6, <1>7, OwnStep

LEMMA MoveAckStep ==
  ASSUME IInv, NEW x \in Loops, MoveAck(x)
  PROVE IInv'
<1>1. /\ Busy(x) /\ cur[x] \in Ids /\ cur[x] \in Nat /\ last[x] \in Nat
      /\ cur[x] <= last[x] /\ cur[x] <= lastDelivered
  BY BusyEntry DEF MoveAck, Busy
<1>2. TypeOK'
  BY <1>1, ConstantsAssumption
  DEF IInv, TypeOK, Labels, Current, CurrentEntry,
      MoveAck, Goto, NextItem, redis, loops, admin, history
<1>3. Own(x)
  BY <1>1
  DEF IInv, TypeOK, Own, Busy, MoveAck, Goto, NextItem, redis, loops, admin, history
<1>4. CurrentEntry(x)'
  BY <1>1, <1>3, NextItemEntry DEF MoveAck
<1>5. Copies'
  BY <1>1 DEF IInv, Copies, Copied, MoveAck, Goto, NextItem, redis, loops, admin, history
<1>6. NoDeliveryLost'
  BY <1>1
  DEF IInv, Current, CurrentEntry, Copies, Copied, NoDeliveryLost,
      MoveAck, Goto, NextItem, redis, loops, admin, history
<1>7. DeadLetterJustified'
  BY <1>1
  DEF IInv, TypeOK, Current, CurrentEntry, DeadLetterJustified,
      MoveAck, Goto, NextItem, redis, loops, admin, history
<1>8. QED
  BY <1>1, <1>2, <1>3, <1>4, <1>5, <1>6, <1>7, OwnStep

LEMMA MoveAckErrorStep ==
  ASSUME IInv, NEW x \in Loops, MoveAckError(x)
  PROVE IInv'
<1>1. /\ Busy(x) /\ cur[x] \in Ids /\ cur[x] \in Nat /\ last[x] \in Nat
      /\ cur[x] <= last[x] /\ cur[x] <= lastDelivered
  BY BusyEntry DEF MoveAckError, Busy
<1>2. TypeOK'
  BY <1>1, ConstantsAssumption
  DEF IInv, TypeOK, Labels, Current, CurrentEntry,
      MoveAckError, Goto, NextItem, Fault, redis, loops, admin, history
<1>3. Own(x)
  BY <1>1
  DEF IInv, TypeOK, Own, Busy, MoveAckError, Goto, NextItem, Fault, redis, loops, admin, history
<1>4. CurrentEntry(x)'
  BY <1>1, <1>3, NextItemEntry DEF MoveAckError
<1>5. Copies'
  BY <1>1 DEF IInv, Copies, Copied, MoveAckError, Goto, NextItem, Fault, redis, loops, admin, history
<1>6. NoDeliveryLost'
  BY <1>1
  DEF IInv, Current, CurrentEntry, Copies, Copied, NoDeliveryLost,
      MoveAckError, Goto, NextItem, Fault, redis, loops, admin, history
<1>7. DeadLetterJustified'
  BY <1>1
  DEF IInv, TypeOK, Current, CurrentEntry, DeadLetterJustified,
      MoveAckError, Goto, NextItem, Fault, redis, loops, admin, history
<1>8. QED
  BY <1>1, <1>2, <1>3, <1>4, <1>5, <1>6, <1>7, OwnStep

-----------------------------------------------------------------------------
\* The steps of a loop outside a batch.
LEMMA IdleStep ==
  ASSUME IInv, NEW x \in Loops, NEW label \in {"off", "unstarted", "poll", "pause"},
         Goto(x, label), UNCHANGED <<redis, cur, last, attempt, admin, history>>,
         faults' \in 0 .. MaxFaults
  PROVE IInv'
<1>1. TypeOK'
  BY DEF IInv, TypeOK, Labels, Goto, redis, admin, history
<1>2. \A l \in Loops : IF l = x THEN pc'[l] = label ELSE pc'[l] = pc[l]
  BY DEF IInv, TypeOK, Goto
<1>3. \A l \in Loops : Busy(l)' => Busy(l) /\ pc'[l] = pc[l]
  BY <1>2 DEF Busy
<1>4. Batches' /\ Apart'
  BY <1>3 DEF IInv, Batches, Apart, redis
<1>5. RestUntouched'
  BY <1>3 DEF IInv, RestUntouched, Rest, Untouched, redis, history
<1>6. Current'
  BY <1>2 DEF IInv, Current, CurrentEntry, Untouched, redis, history
<1>7. Undelivered' /\ Copies' /\ Targets' /\ NoDeliveryLost' /\ DeadLetterJustified'
  BY DEF IInv, Undelivered, Copies, Copied, Targets, NoDeliveryLost,
         DeadLetterJustified, redis, admin, history
<1>8. QED
  BY <1>1, <1>4, <1>5, <1>6, <1>7 DEF IInv

LEMMA SubscribeStep ==
  ASSUME IInv, NEW x \in Loops, Subscribe(x)
  PROVE IInv'
BY IdleStep DEF Subscribe, IInv, TypeOK

LEMMA ResumeStep ==
  ASSUME IInv, NEW x \in Loops, Resume(x)
  PROVE IInv'
BY IdleStep DEF Resume, IInv, TypeOK

LEMMA FaultCounted ==
  ASSUME TypeOK, Fault
  PROVE faults' \in 0 .. MaxFaults
BY ConstantsAssumption DEF TypeOK, Fault

LEMMA SubscribeErrorStep ==
  ASSUME IInv, NEW x \in Loops, SubscribeError(x)
  PROVE IInv'
BY IdleStep, FaultCounted DEF SubscribeError, IInv

LEMMA HaltStep ==
  ASSUME IInv, NEW x \in Loops, Halt(x)
  PROVE IInv'
BY IdleStep, FaultCounted DEF Halt, IInv

\* A delivery takes the next interval of untouched entries into the PEL and
\* changes nothing else an entry is known by.
LEMMA DeliverFacts ==
  ASSUME IInv, NEW first \in Ids, NEW final \in Ids, Deliver(first, final),
         UNCHANGED <<admin, history>>
  PROVE /\ first = lastDelivered + 1 /\ first <= final
        /\ final = lastDelivered' /\ final <= Len(stream)
        /\ stream' = stream /\ failed' = failed
        /\ \A i \in first .. final : Untouched(i)'
        /\ \A i \in Ids : Untouched(i) => Untouched(i)'
        /\ pending \subseteq pending'
        /\ Undelivered' /\ Copies' /\ Targets'
        /\ NoDeliveryLost' /\ DeadLetterJustified'
<1>1. /\ lastDelivered \in Nat /\ Len(stream) \in Nat /\ MaxStream \in Nat
      /\ BatchSize \in Nat /\ BatchSize >= 1 /\ Len(stream) <= MaxStream
  BY Numbers, ConstantsAssumption DEF IInv
<1>2. /\ first = lastDelivered + 1 /\ first <= final
      /\ final = lastDelivered' /\ final <= Len(stream)
      /\ stream' = stream /\ failed' = failed
      /\ pending' = pending \cup (first .. final)
  BY <1>1 DEF Deliver
<1>3. \A i \in first .. final : i \in Ids /\ i > lastDelivered
  BY <1>1, <1>2 DEF Ids
<1>4. \A i \in first .. final : Untouched(i)'
  BY <1>2, <1>3 DEF IInv, Undelivered, Untouched, history
<1>5. \A i \in Ids : Untouched(i) => Untouched(i)'
  BY <1>2 DEF Untouched, history
<1>6. Undelivered'
  BY <1>1, <1>2 DEF IInv, Undelivered, history, Ids
<1>7. Copies' /\ Targets' /\ DeadLetterJustified'
  BY <1>2 DEF IInv, Copies, Copied, Targets, DeadLetterJustified, history, admin
<1>8. NoDeliveryLost'
  <2>1. ASSUME NEW i \in 1 .. lastDelivered', i \notin 1 .. lastDelivered
        PROVE i \in pending'
    BY <1>1, <1>2, <2>1
  <2>2. QED
    BY <1>2, <2>1 DEF IInv, NoDeliveryLost, history
<1>9. QED
  BY <1>2, <1>4, <1>5, <1>6, <1>7, <1>8

\* What the locations of the loops outside the batch say survives a delivery.
LEMMA DeliverKeepsLoop ==
  ASSUME IInv, NEW first \in Ids, NEW final \in Ids, Deliver(first, final),
         UNCHANGED <<admin, history>>, NEW m \in Loops,
         pc'[m] = pc[m], cur'[m] = cur[m], last'[m] = last[m],
         attempt'[m] = attempt[m]
  PROVE CurrentEntry(m)' /\ Rest(m)'
<1>1. Busy(m) => \A i \in cur[m] .. last[m] : i \in Ids
  BY Numbers DEF IInv, Batches, Ids
<1>2. Busy(m) => cur[m] \in Ids /\ cur[m] \in Nat /\ last[m] \in Nat
  BY BusyEntry
<1>3. CurrentEntry(m)'
  BY <1>2, DeliverFacts DEF IInv, Current, CurrentEntry, Busy, history
<1>4. Rest(m)'
  <2>1. ASSUME Busy(m), NEW i \in cur[m] + 1 .. last[m]
        PROVE i \in cur[m] .. last[m]
    BY <1>2, <2>1
  <2>2. QED
    BY <1>1, <2>1, DeliverFacts DEF IInv, RestUntouched, Rest, Busy
<1>5. QED BY <1>3, <1>4

LEMMA ReadStep ==
  ASSUME IInv, NEW x \in Loops, Read(x)
  PROVE IInv'
<1>1. PICK first \in Ids, final \in Ids :
        /\ Deliver(first, final)
        /\ cur' = [cur EXCEPT ![x] = first]
        /\ last' = [last EXCEPT ![x] = final]
  BY DEF Read
<1>2. /\ pc' = [pc EXCEPT ![x] = "item"] /\ pc[x] = "poll"
      /\ UNCHANGED <<attempt, admin, faults, history>>
  BY DEF Read, Goto
<1>3. /\ pc \in [Loops -> Labels]
      /\ cur \in [Loops -> Nat] /\ last \in [Loops -> Nat]
  BY DEF IInv, TypeOK
<1>4. /\ pc'[x] = "item" /\ cur'[x] = first /\ last'[x] = final
      /\ \A m \in Loops : m # x =>
           /\ pc'[m] = pc[m] /\ cur'[m] = cur[m]
           /\ last'[m] = last[m] /\ attempt'[m] = attempt[m]
  BY <1>1, <1>2, <1>3
<1>5. /\ first \in Nat /\ final \in Nat /\ lastDelivered \in Nat
      /\ first = lastDelivered + 1 /\ first <= final
      /\ final = lastDelivered' /\ final <= Len(stream) /\ stream' = stream
  BY <1>1, <1>2, DeliverFacts, Numbers DEF IInv
<1>6. TypeOK'
  <2>1. pending' \subseteq Ids /\ failed' \subseteq Ids
    <3>1. \A i \in first .. final : i \in Ids
      BY <1>5, Numbers DEF IInv, Ids
    <3>2. QED
      BY <1>1, <3>1 DEF Deliver, IInv, TypeOK
  <2>2. /\ pc' \in [Loops -> Labels]
        /\ cur' \in [Loops -> Nat] /\ last' \in [Loops -> Nat]
    BY <1>1, <1>2, <1>3, <1>5 DEF Labels
  <2>3. lastDelivered' \in 0 .. Len(stream')
    BY <1>5, Numbers DEF IInv
  <2>4. QED
    BY <1>2, <1>5, <2>1, <2>2, <2>3 DEF IInv, TypeOK, admin, history
<1>7. Batches'
  <2>1. ASSUME NEW l \in Loops, Busy(l)'
        PROVE 1 <= cur'[l] /\ cur'[l] <= last'[l] /\ last'[l] <= lastDelivered'
    <3>1. CASE l = x
      BY <1>4, <1>5, <3>1
    <3>2. CASE l # x
      BY <1>4, <1>5, <2>1, <3>2, Numbers DEF IInv, Batches, Busy
    <3>3. QED BY <3>1, <3>2
  <2>2. QED BY <2>1 DEF Batches
<1>8. Apart'
  <2>1. \A m \in Loops : m # x /\ Busy(m)' => last'[m] < cur'[x]
    BY <1>4, <1>5, Numbers DEF IInv, Batches, Busy
  <2>2. ASSUME NEW l \in Loops, NEW m \in Loops, l # m, Busy(l)', Busy(m)',
               l # x, m # x
        PROVE last'[l] < cur'[m] \/ last'[m] < cur'[l]
    BY <1>4, <2>2 DEF IInv, Apart, Busy
  <2>3. QED BY <2>1, <2>2 DEF Apart
<1>9. Current' /\ RestUntouched'
  <2>1. CurrentEntry(x)' /\ Rest(x)'
    <3>1. \A i \in first .. final : Untouched(i)'
      BY <1>1, <1>2, DeliverFacts
    <3>2. first \in first .. final
      BY <1>5
    <3>3. Untouched(cur[x])'
      BY <1>4, <3>1, <3>2 DEF Untouched
    <3>4. CurrentEntry(x)'
      BY <1>4, <3>3 DEF CurrentEntry
    <3>5. \A i \in cur'[x] + 1 .. last'[x] : i \in first .. final
      BY <1>4, <1>5
    <3>6. QED
      BY <3>1, <3>4, <3>5 DEF Rest
  <2>2. ASSUME NEW m \in Loops, m # x PROVE CurrentEntry(m)' /\ Rest(m)'
    BY <1>1, <1>2, <1>4, <2>2, DeliverKeepsLoop
  <2>3. QED
    BY <2>1, <2>2 DEF Current, RestUntouched
<1>10. QED
  BY <1>1, <1>2, <1>6, <1>7, <1>8, <1>9, DeliverFacts DEF IInv

\* A delivery whose reply is lost: the batch stays in the PEL, held by nobody.
LEMMA ReadErrorStep ==
  ASSUME IInv, NEW x \in Loops, ReadError(x)
  PROVE IInv'
<1>1. /\ Goto(x, "pause") /\ pc[x] = "poll" /\ faults' \in 0 .. MaxFaults
      /\ UNCHANGED <<cur, last, attempt, admin, history>>
  BY FaultCounted DEF ReadError, IInv
<1>2. CASE UNCHANGED redis
  BY <1>1, <1>2, IdleStep
<1>3. CASE \E first, final \in Ids : Deliver(first, final)
  <2>1. PICK first \in Ids, final \in Ids : Deliver(first, final)
    BY <1>3
  <2>2. /\ first \in Nat /\ final \in Nat /\ lastDelivered \in Nat
        /\ first = lastDelivered + 1 /\ first <= final
        /\ final = lastDelivered' /\ final <= Len(stream) /\ stream' = stream
    BY <1>1, <2>1, DeliverFacts, Numbers DEF IInv
  <2>3. /\ pc' \in [Loops -> Labels] /\ pc'[x] = "pause"
        /\ \A m \in Loops : m # x => pc'[m] = pc[m]
    BY <1>1 DEF Goto, IInv, TypeOK, Labels
  <2>4. TypeOK'
    <3>1. \A i \in first .. final : i \in Ids
      BY <2>2, Numbers DEF IInv, Ids
    <3>2. pending' \subseteq Ids /\ failed' \subseteq Ids
      BY <2>1, <3>1 DEF Deliver, IInv, TypeOK
    <3>3. lastDelivered' \in 0 .. Len(stream')
      BY <2>2, Numbers DEF IInv
    <3>4. QED
      BY <1>1, <2>2, <2>3, <3>2, <3>3 DEF IInv, TypeOK, admin, history
  <2>5. Batches' /\ Apart'
    <3>1. \A l \in Loops : Busy(l)' => Busy(l)
      BY <2>3 DEF Busy
    <3>2. QED
      BY <1>1, <2>2, <3>1, Numbers DEF IInv, Batches, Apart
  <2>6. Current' /\ RestUntouched'
    <3>1. CurrentEntry(x)' /\ Rest(x)'
      BY <2>3 DEF CurrentEntry, Rest, Busy
    <3>2. ASSUME NEW m \in Loops, m # x PROVE CurrentEntry(m)' /\ Rest(m)'
      BY <1>1, <2>1, <2>3, <3>2, DeliverKeepsLoop
    <3>3. QED
      BY <3>1, <3>2 DEF Current, RestUntouched
  <2>7. QED
    BY <1>1, <2>1, <2>4, <2>5, <2>6, DeliverFacts DEF IInv
<1>4. QED
  BY <1>2, <1>3 DEF ReadError

-----------------------------------------------------------------------------
\* The steps of the publishers and of the reprocess endpoint.
LEMMA AppendFacts ==
  ASSUME IInv, NEW e \in Events, Len(stream) < MaxStream,
         stream' = Append(stream, e)
  PROVE /\ stream' \in Seq(Events) /\ Len(stream') = Len(stream) + 1
        /\ Len(stream') <= MaxStream /\ stream'[Len(stream) + 1] = e
        /\ \A i \in 1 .. Len(stream) : stream'[i] = stream[i]
        /\ \A i \in 1 .. Len(stream) : Copied(i) => Copied(i)'
        /\ \A i \in moved : i \in 1 .. lastDelivered /\ i \in 1 .. Len(stream)
<1>1. stream \in Seq(Events) /\ Len(stream) \in Nat /\ MaxStream \in Nat
  BY ConstantsAssumption DEF IInv, TypeOK
<1>2. /\ stream' \in Seq(Events) /\ Len(stream') = Len(stream) + 1
      /\ stream'[Len(stream) + 1] = e
      /\ \A i \in 1 .. Len(stream) : stream'[i] = stream[i]
  BY <1>1
<1>3. Len(stream') <= MaxStream
  BY <1>1, <1>2
<1>4. \A i \in 1 .. Len(stream) : Copied(i) => Copied(i)'
  <2>1. ASSUME NEW i \in 1 .. Len(stream), NEW j \in i + 1 .. Len(stream),
               stream[j] = stream[i]
        PROVE j \in i + 1 .. Len(stream') /\ stream'[j] = stream'[i]
    BY <1>1, <1>2, <2>1
  <2>2. QED
    BY <2>1 DEF Copied
<1>5. \A i \in moved : i \in 1 .. lastDelivered /\ i \in 1 .. Len(stream)
  BY Numbers DEF IInv, TypeOK, Undelivered, Ids
<1>6. QED
  BY <1>2, <1>3, <1>4, <1>5

\* Appending an entry disturbs nothing that is said about delivered ones.
LEMMA AppendStep ==
  ASSUME IInv, NEW e \in Events, Len(stream) < MaxStream,
         stream' = Append(stream, e),
         UNCHANGED <<lastDelivered, pending, failed, loops, faults, history>>
  PROVE /\ Batches' /\ Apart' /\ RestUntouched' /\ Current' /\ Undelivered'
        /\ Copies' /\ NoDeliveryLost' /\ DeadLetterJustified'
        /\ lastDelivered' \in 0 .. Len(stream')
<1>1. Batches' /\ Apart' /\ RestUntouched' /\ Undelivered'
  BY DEF IInv, Batches, Apart, RestUntouched, Rest, Undelivered, Untouched,
         Busy, loops, history
<1>2. \A l \in Loops : Busy(l) => cur[l] \in 1 .. Len(stream)
  BY BusyEntry, Numbers DEF IInv, Ids
<1>3. Current'
  <2>1. ASSUME NEW l \in Loops PROVE CurrentEntry(l)'
    <3>1. pc[l] = "move" => stream'[cur[l]] = stream[cur[l]]
      BY <1>2, AppendFacts DEF Busy
    <3>2. CurrentEntry(l)
      BY DEF IInv, Current
    <3>3. QED
      BY <3>1, <3>2 DEF CurrentEntry, Untouched, loops, history
  <2>2. QED BY <2>1 DEF Current
<1>4. Copies'
  BY AppendFacts DEF IInv, Copies, history
<1>5. NoDeliveryLost'
  <2>1. ASSUME NEW i \in 1 .. lastDelivered
        PROVE \/ i \in pending \cup handled \cup skipped \cup failed
              \/ Copied(i)'
    <3>1. i \in 1 .. Len(stream)
      BY Numbers DEF IInv
    <3>2. \/ i \in pending \cup handled \cup skipped \cup failed
          \/ Copied(i)
      BY DEF IInv, NoDeliveryLost, Copied
    <3>3. QED BY <3>1, <3>2, AppendFacts
  <2>2. QED
    BY <2>1 DEF NoDeliveryLost, Copied, history
<1>6. DeadLetterJustified'
  BY AppendFacts DEF IInv, DeadLetterJustified, history
<1>7. lastDelivered' \in 0 .. Len(stream')
  BY AppendFacts, Numbers DEF IInv
<1>8. QED
  BY <1>1, <1>3, <1>4, <1>5, <1>6, <1>7

LEMMA PublishStep ==
  ASSUME IInv, NEW e \in Events, Publish(e)
  PROVE IInv'
<1>1. Targets'
  BY AppendFacts DEF Publish, IInv, Targets, admin, history
<1>2. TypeOK'
  BY AppendStep, AppendFacts DEF Publish, IInv, TypeOK, loops, admin, history
<1>3. QED
  BY <1>1, <1>2, AppendStep DEF Publish, IInv

LEMMA ReprocessReadStep ==
  ASSUME IInv, NEW a \in Admins, ReprocessRead(a)
  PROVE IInv'
<1>1. PICK i \in failed : target' = [target EXCEPT ![a] = i]
  BY DEF ReprocessRead
<1>2. i \in moved /\ i \in Nat
  BY Numbers DEF IInv, TypeOK, Copies
<1>3. step' = [step EXCEPT ![a] = "add"]
  BY DEF ReprocessRead
<1>4. Targets'
  BY <1>1, <1>2, <1>3
  DEF ReprocessRead, IInv, TypeOK, Targets, Copied, redis, history
<1>5. TypeOK'
  BY <1>1, <1>2, <1>3
  DEF ReprocessRead, IInv, TypeOK, redis, loops, history
<1>6. QED
  BY <1>4, <1>5
  DEF ReprocessRead, IInv, Batches, Apart, RestUntouched, Rest, Untouched, Busy,
      Current, CurrentEntry, Undelivered, Copies, Copied, NoDeliveryLost,
      DeadLetterJustified, redis, loops, history

LEMMA ReprocessAddStep ==
  ASSUME IInv, NEW a \in Admins, ReprocessAdd(a)
  PROVE IInv'
<1>1. target[a] \in moved /\ target[a] \in 1 .. Len(stream)
  BY Numbers DEF ReprocessAdd, IInv, TypeOK, Targets, Undelivered, Ids
<1>2. stream[target[a]] \in Events
  BY <1>1 DEF IInv, TypeOK
<1>3. /\ step' = [step EXCEPT ![a] = "del"] /\ target' = target
      /\ Len(stream) < MaxStream
      /\ stream' = Append(stream, stream[target[a]])
      /\ UNCHANGED <<lastDelivered, pending, failed, loops, faults, history>>
  BY DEF ReprocessAdd
<1>4. Targets'
  <2>1. Copied(target[a])'
    <3>1. /\ Len(stream) + 1 \in target[a] + 1 .. Len(stream')
          /\ stream'[Len(stream) + 1] = stream'[target[a]]
      BY <1>1, <1>2, <1>3, AppendFacts, Numbers DEF IInv
    <3>2. QED BY <1>3, <3>1 DEF Copied
  <2>2. ASSUME NEW b \in Admins, b # a
        PROVE /\ step'[b] # "idle" => target'[b] \in moved'
              /\ step'[b] = "del" => Copied(target[b])'
    BY <1>2, <1>3, <2>2, AppendFacts DEF IInv, TypeOK, Targets, history
  <2>3. QED
    BY <1>1, <1>3, <2>1, <2>2 DEF IInv, TypeOK, Targets, Copied, history
<1>5. TypeOK'
  BY <1>2, <1>3, AppendStep, AppendFacts DEF IInv, TypeOK, loops, history
<1>6. QED
  BY <1>2, <1>3, <1>4, <1>5, AppendStep DEF IInv

LEMMA ReprocessDelStep ==
  ASSUME IInv, NEW a \in Admins, ReprocessDel(a)
  PROVE IInv'
<1>1. Copied(target[a])
  BY DEF ReprocessDel, IInv, Targets
<1>2. Copies' /\ NoDeliveryLost'
  BY <1>1
  DEF ReprocessDel, IInv, Copies, Copied, NoDeliveryLost, history
<1>3. Targets'
  BY DEF ReprocessDel, IInv, TypeOK, Targets, Copied, history
<1>4. TypeOK'
  BY DEF ReprocessDel, IInv, TypeOK, loops, history
<1>5. QED
  BY <1>2, <1>3, <1>4
  DEF ReprocessDel, IInv, Batches, Apart, RestUntouched, Rest, Untouched, Busy,
      Current, CurrentEntry, Undelivered, DeadLetterJustified, loops, history

LEMMA ReprocessAbortStep ==
  ASSUME IInv, NEW a \in Admins, ReprocessAbort(a)
  PROVE IInv'
<1>1. Targets'
  BY DEF ReprocessAbort, IInv, TypeOK, Targets, Copied, redis, history
<1>2. TypeOK'
  BY FaultCounted DEF ReprocessAbort, IInv, TypeOK, redis, loops, history
<1>3. QED
  BY <1>1, <1>2
  DEF ReprocessAbort, IInv, Batches, Apart, RestUntouched, Rest, Untouched,
      Busy, Current, CurrentEntry, Undelivered, Copies, Copied, NoDeliveryLost,
      DeadLetterJustified, redis, loops, history

-----------------------------------------------------------------------------
LEMMA InitIInv == Init => IInv
<1>1. SUFFICES ASSUME Init PROVE IInv
  OBVIOUS
<1>2. TypeOK
  BY <1>1, ConstantsAssumption DEF Init, TypeOK, Labels
<1>3. \A l \in Loops : ~Busy(l)
  BY <1>1 DEF Init, Busy
<1>4. Batches /\ Apart /\ RestUntouched /\ Current
  BY <1>1, <1>3 DEF Init, Batches, Apart, RestUntouched, Rest, Current, CurrentEntry
<1>5. Undelivered /\ Copies /\ Targets /\ NoDeliveryLost /\ DeadLetterJustified
  BY <1>1 DEF Init, Undelivered, Copies, Targets, NoDeliveryLost, DeadLetterJustified
<1>6. QED
  BY <1>2, <1>4, <1>5 DEF IInv

LEMMA NextIInv == IInv /\ [Next]_vars => IInv'
<1>1. SUFFICES ASSUME IInv, [Next]_vars PROVE IInv'
  OBVIOUS
<1>2. ASSUME NEW e \in Events, Publish(e) PROVE IInv'
  BY <1>2, <1>1, PublishStep
<1>3. ASSUME NEW l \in Loops, LoopStep(l) PROVE IInv'
  BY <1>3, <1>1, SubscribeStep, ReadStep, ResumeStep, ParseErrorStep,
     FilterOutStep, DispatchStep, CallbackReturnsStep, CallbackRaisesStep,
     BackoffOverStep, AckStep, MoveStep, MoveAckStep DEF LoopStep
<1>4. ASSUME NEW l \in Loops, LoopFault(l) PROVE IInv'
  BY <1>4, <1>1, SubscribeErrorStep, ReadErrorStep, AckErrorStep, MoveErrorStep, MoveAckErrorStep,
     HaltStep DEF LoopFault
<1>5. ASSUME NEW a \in Admins, Reprocess(a) PROVE IInv'
  BY <1>5, <1>1, ReprocessReadStep, ReprocessAddStep, ReprocessDelStep,
     ReprocessAbortStep DEF Reprocess
<1>6. CASE UNCHANGED vars
  BY <1>1, <1>6
  DEF vars, IInv, TypeOK, Batches, Apart, RestUntouched, Rest, Untouched, Busy,
      Current, CurrentEntry, Undelivered, Copies, Copied, Targets,
      NoDeliveryLost, DeadLetterJustified, redis, loops, admin, history
<1>7. QED
  BY <1>1, <1>2, <1>3, <1>4, <1>5, <1>6 DEF Next

LEMMA Invariance == Spec => []IInv
BY InitIInv, NextIInv, PTL DEF Spec

\* Every loop, entry and counter stays within the types of the code, in
\* particular no callback is attempted more than MaxAttempts times.
THEOREM TypeCorrect == Spec => []TypeOK
<1>1. IInv => TypeOK
  BY DEF IInv
<1>2. QED BY <1>1, Invariance, PTL

\* No delivered entry disappears without an outcome, whatever Redis errors and
\* terminations interrupt the loops and the reprocess requests.
THEOREM NothingLost == Spec => []NoDeliveryLost
<1>1. IInv => NoDeliveryLost
  BY DEF IInv
<1>2. QED BY <1>1, Invariance, PTL

\* An entry is in the hands of one loop, and its callback is never run again
\* once it has an outcome.
THEOREM Exclusive == Spec => []ExclusiveDelivery
<1>1. ASSUME IInv PROVE ExclusiveDelivery
  <2>1. ASSUME NEW l \in Loops, NEW m \in Loops, l # m
        PROVE Held(l) \cap Held(m) = {}
    <3>1. CASE Busy(l) /\ Busy(m)
      BY <1>1, <2>1, <3>1, Numbers DEF IInv, Apart, Held
    <3>2. CASE ~Busy(l) \/ ~Busy(m)
      BY <3>2 DEF Held, Busy
    <3>3. QED BY <3>1, <3>2
  <2>2. \A l \in Loops : pc[l] \in {"call", "backoff"} =>
          cur[l] \in pending \ (handled \cup skipped \cup moved)
    BY <1>1 DEF IInv, Current, CurrentEntry
  <2>3. QED BY <2>1, <2>2 DEF ExclusiveDelivery
<1>2. QED BY <1>1, Invariance, PTL

\* The failed stream receives an entry only after MaxAttempts failures of its
\* callback, for an unparsable entry, or after a failed acknowledgement.
THEOREM DeadLetters == Spec => []DeadLetterJustified
<1>1. IInv => DeadLetterJustified
  BY DEF IInv
<1>2. QED BY <1>1, Invariance, PTL
-----------------------------------------------------------------------------
\* The refinement.  Status is what EventDelivery sees; a step of the loops
\* takes a batch, settles or acknowledges the entry a loop is at, or stutters.
Status == [i \in Ids |-> StatusOf(i)]

Observed == <<stream, lastDelivered, handled, skipped, moved>>

LEMMA StatusKept ==
  ASSUME UNCHANGED Observed
  PROVE Status' = Status
BY DEF Status, StatusOf, Observed, Ids

LEMMA Stutter ==
  ASSUME UNCHANGED Observed, UNCHANGED pending
  PROVE UNCHANGED Delivery!vars
BY StatusKept DEF Delivery!vars, Status

LEMMA Appends ==
  ASSUME IInv, NEW e \in Events, Len(stream) < MaxStream,
         stream' = Append(stream, e),
         UNCHANGED <<lastDelivered, pending, handled, skipped, moved>>
  PROVE Delivery!Append(Len(stream) + 1)
<1>1. /\ stream \in Seq(Events) /\ Len(stream) \in Nat /\ MaxStream \in Nat
      /\ lastDelivered \in 0 .. Len(stream)
  BY ConstantsAssumption DEF IInv, TypeOK
<1>2. PICK n \in Nat : n = Len(stream) + 1 /\ Len(stream') = n
  BY <1>1
<1>3. n \in Ids /\ Status[n] = "absent" /\ StatusOf(n)' = "queued"
  BY <1>1, <1>2 DEF Status, StatusOf, Ids
<1>4. \A j \in 1 .. n - 1 : j \in Ids /\ Status[j] # "absent"
  BY <1>1, <1>2 DEF Status, StatusOf, Ids
<1>5. \A j \in Ids : j # n => StatusOf(j)' = StatusOf(j)
  BY <1>1, <1>2 DEF StatusOf, Ids
<1>6. Status' = [Status EXCEPT ![n] = "queued"]
  BY <1>3, <1>5 DEF Status
<1>7. QED
  BY <1>2, <1>3, <1>4, <1>6 DEF Delivery!Append, Status

LEMMA Takes ==
  ASSUME IInv, NEW first \in Ids, NEW final \in Ids, Deliver(first, final),
         UNCHANGED <<handled, skipped, moved>>
  PROVE Delivery!Take(first, final)
<1>1. /\ Len(stream) \in Nat /\ lastDelivered \in Nat /\ BatchSize \in Nat \ {0}
      /\ lastDelivered < Len(stream) /\ Len(stream) <= MaxStream
  BY ConstantsAssumption DEF IInv, TypeOK, Deliver
<1>2. /\ first = lastDelivered + 1 /\ first <= final
      /\ final <= Len(stream) /\ final < first + BatchSize
      /\ lastDelivered' = final /\ stream' = stream
      /\ pending' = pending \cup (first .. final)
      /\ final \in Nat /\ MaxStream \in Nat
  BY <1>1, ConstantsAssumption DEF Deliver, Ids
<1>3. \A j \in 1 .. first - 1 : j \in Ids /\ Status[j] # "queued"
  BY <1>1, <1>2 DEF Status, StatusOf, Ids
<1>4. \A j \in first .. final :
        /\ j \in Ids /\ Status[j] = "queued" /\ StatusOf(j)' = "taken"
  BY <1>1, <1>2 DEF Status, StatusOf, Ids, IInv, Undelivered
<1>5. \A j \in Ids : j \notin first .. final => StatusOf(j)' = StatusOf(j)
  BY <1>1, <1>2 DEF StatusOf, Ids
<1>6. Status' = [j \in Ids |-> IF j \in first .. final THEN "taken" ELSE Status[j]]
  BY <1>4, <1>5 DEF Status
<1>7. QED
  BY <1>2, <1>3, <1>4, <1>6 DEF Delivery!Take, Delivery!Ids, Status, Ids

\* The entry at the head of a batch is settled by one of the three outcomes;
\* nothing changes if it already had one that takes precedence.
LEMMA Settles ==
  ASSUME IInv, NEW i \in 1 .. lastDelivered, NEW outcome \in {"handled", "skipped", "dead"},
         i \notin handled \cup skipped \cup moved,
         handled' = IF outcome = "handled" THEN handled \cup {i} ELSE handled,
         skipped' = IF outcome = "skipped" THEN skipped \cup {i} ELSE skipped,
         moved' = IF outcome = "dead" THEN moved \cup {i} ELSE moved,
         UNCHANGED <<stream, lastDelivered, pending>>
  PROVE Delivery!Settle(i, outcome)
<1>1. /\ Len(stream) \in Nat /\ lastDelivered \in 0 .. Len(stream)
      /\ Len(stream) <= MaxStream /\ MaxStream \in Nat
  BY ConstantsAssumption DEF IInv, TypeOK
<1>2. i \in Ids /\ Status[i] = "taken" /\ StatusOf(i)' = outcome
  BY <1>1 DEF Status, StatusOf, Ids
<1>3. \A j \in Ids : j # i => StatusOf(j)' = StatusOf(j)
  BY DEF StatusOf
<1>4. Status' = [Status EXCEPT ![i] = outcome]
  BY <1>2, <1>3 DEF Status
<1>5. QED
  BY <1>2, <1>4 DEF Delivery!Settle, Status

\* A copy to the failed stream settles the entry unless it has an outcome.
LEMMA MovesOrStutters ==
  ASSUME IInv, NEW i \in 1 .. lastDelivered, moved' = moved \cup {i},
         UNCHANGED <<stream, lastDelivered, pending, handled, skipped>>
  PROVE Delivery!Settle(i, "dead") \/ UNCHANGED Delivery!vars
<1>1. CASE i \in handled \cup skipped \cup moved
  <2>1. \A j \in Ids : StatusOf(j)' = StatusOf(j)
    BY <1>1 DEF StatusOf
  <2>2. Status' = Status
    BY <2>1 DEF Status
  <2>3. QED
    BY <2>2 DEF Delivery!vars, Status
<1>2. CASE i \notin handled \cup skipped \cup moved
  BY <1>2, Settles
<1>3. QED BY <1>1, <1>2

LEMMA Acknowledges ==
  ASSUME IInv, NEW i \in 1 .. lastDelivered, i \in handled \cup skipped \cup moved,
         pending' \in {pending, pending \ {i}}, UNCHANGED Observed
  PROVE Delivery!Acknowledge(i) \/ UNCHANGED Delivery!vars
<1>1. CASE pending' = pending
  BY <1>1, Stutter
<1>2. CASE pending' = pending \ {i} /\ i \in pending
  <2>1. /\ Len(stream) \in Nat /\ lastDelivered \in 0 .. Len(stream)
        /\ Len(stream) <= MaxStream /\ MaxStream \in Nat
    BY ConstantsAssumption DEF IInv, TypeOK
  <2>2. i \in Ids /\ Status[i] \in {"handled", "skipped", "dead"}
    BY <2>1 DEF Status, StatusOf, Ids
  <2>3. QED
    BY <1>2, <2>2, StatusKept DEF Delivery!Acknowledge, Delivery!Outcomes, Status
<1>3. QED BY <1>1, <1>2

\* The entry a busy loop is at was delivered.
LEMMA CurrentDelivered ==
  ASSUME IInv, NEW l \in Loops, Busy(l)
  PROVE cur[l] \in 1 .. lastDelivered /\ cur[l] \in Ids
<1>1. /\ cur[l] \in Nat /\ last[l] \in Nat /\ lastDelivered \in Nat
      /\ Len(stream) \in Nat /\ lastDelivered <= Len(stream)
      /\ Len(stream) <= MaxStream /\ MaxStream \in Nat
  BY ConstantsAssumption DEF IInv, TypeOK
<1>2. QED
  BY <1>1 DEF IInv, Batches, Ids

LEMMA LoopStepRefines ==
  ASSUME IInv, NEW l \in Loops, LoopStep(l)
  PROVE [Delivery!Next]_(Delivery!vars)
<1>1. CASE \/ Subscribe(l) \/ Resume(l) \/ ParseError(l) \/ Dispatch(l)
           \/ CallbackRaises(l) \/ BackoffOver(l)
  BY <1>1, Stutter DEF Subscribe, Resume, ParseError, Dispatch, CallbackRaises,
     BackoffOver, redis, history, Observed
<1>2. CASE Read(l)
  <2>1. PICK first \in Ids, final \in Ids : Deliver(first, final)
    BY <1>2 DEF Read
  <2>2. Delivery!Take(first, final)
    BY <1>2, <2>1, Takes DEF Read, history
  <2>3. QED
    BY <2>2 DEF Delivery!Next, Delivery!Ids, Ids
<1>3. CASE FilterOut(l)
  <2>1. cur[l] \in 1 .. lastDelivered /\ cur[l] \in Ids
    BY <1>3, CurrentDelivered DEF FilterOut, Busy
  <2>2. cur[l] \notin handled \cup skipped \cup moved
    BY <1>3 DEF FilterOut, IInv, Current, CurrentEntry, Untouched
  <2>3. Delivery!Settle(cur[l], "skipped")
    BY <1>3, <2>1, <2>2, Settles DEF FilterOut, redis
  <2>4. QED
    BY <2>1, <2>3 DEF Delivery!Next, Delivery!Ids, Delivery!Outcomes, Ids
<1>4. CASE CallbackReturns(l)
  <2>1. cur[l] \in 1 .. lastDelivered /\ cur[l] \in Ids
    BY <1>4, CurrentDelivered DEF CallbackReturns, Busy
  <2>2. cur[l] \notin handled \cup skipped \cup moved
    BY <1>4 DEF CallbackReturns, IInv, Current, CurrentEntry
  <2>3. Delivery!Settle(cur[l], "handled")
    BY <1>4, <2>1, <2>2, Settles DEF CallbackReturns, redis
  <2>4. QED
    BY <2>1, <2>3 DEF Delivery!Next, Delivery!Ids, Delivery!Outcomes, Ids
<1>5. CASE Ack(l) \/ MoveAck(l)
  <2>1. cur[l] \in 1 .. lastDelivered /\ cur[l] \in Ids
    BY <1>5, CurrentDelivered DEF Ack, MoveAck, Busy
  <2>2. cur[l] \in handled \cup skipped \cup moved
    BY <1>5 DEF Ack, MoveAck, IInv, Current, CurrentEntry
  <2>3. Delivery!Acknowledge(cur[l]) \/ UNCHANGED Delivery!vars
    BY <1>5, <2>1, <2>2, Acknowledges DEF Ack, MoveAck, history, Observed
  <2>4. QED
    BY <2>1, <2>3 DEF Delivery!Next, Delivery!Ids, Ids
<1>6. CASE Move(l)
  <2>1. cur[l] \in 1 .. lastDelivered /\ cur[l] \in Ids
    BY <1>6, CurrentDelivered DEF Move, Busy
  <2>2. Delivery!Settle(cur[l], "dead") \/ UNCHANGED Delivery!vars
    BY <1>6, <2>1, MovesOrStutters DEF Move, CopyToFailed
  <2>3. QED
    BY <2>1, <2>2 DEF Delivery!Next, Delivery!Ids, Delivery!Outcomes, Ids
<1>7. QED
  BY <1>1, <1>2, <1>3, <1>4, <1>5, <1>6 DEF LoopStep

LEMMA LoopFaultRefines ==
  ASSUME IInv, NEW l \in Loops, LoopFault(l)
  PROVE [Delivery!Next]_(Delivery!vars)
<1>1. CASE SubscribeError(l) \/ Halt(l)
  BY <1>1, Stutter DEF SubscribeError, Halt, redis, history, Observed
<1>2. CASE ReadError(l)
  <2>1. CASE UNCHANGED redis
    BY <1>2, <2>1, Stutter DEF ReadError, redis, history, Observed
  <2>2. ASSUME NEW first \in Ids, NEW final \in Ids, Deliver(first, final)
        PROVE Delivery!Next
    <3>1. Delivery!Take(first, final)
      BY <1>2, <2>2, Takes DEF ReadError, history
    <3>2. QED
      BY <3>1 DEF Delivery!Next, Delivery!Ids, Ids
  <2>3. QED
    BY <1>2, <2>1, <2>2 DEF ReadError
<1>3. CASE AckError(l)
  <2>1. cur[l] \in 1 .. lastDelivered /\ cur[l] \in Ids
    BY <1>3, CurrentDelivered DEF AckError, Busy
  <2>2. cur[l] \in handled \cup skipped \cup moved
    BY <1>3 DEF AckError, IInv, Current, CurrentEntry
  <2>3. Delivery!Acknowledge(cur[l]) \/ UNCHANGED Delivery!vars
    BY <1>3, <2>1, <2>2, Acknowledges DEF AckError, Observed
  <2>4. QED
    BY <2>1, <2>3 DEF Delivery!Next, Delivery!Ids, Ids
<1>4. CASE MoveError(l)
  <2>1. cur[l] \in 1 .. lastDelivered /\ cur[l] \in Ids
    BY <1>4, CurrentDelivered DEF MoveError, Busy
  <2>2. CASE CopyToFailed(l)
    <3>1. Delivery!Settle(cur[l], "dead") \/ UNCHANGED Delivery!vars
      BY <1>4, <2>1, <2>2, MovesOrStutters DEF MoveError, CopyToFailed
    <3>2. QED
      BY <2>1, <3>1 DEF Delivery!Next, Delivery!Ids, Delivery!Outcomes, Ids
  <2>3. CASE UNCHANGED <<failed, moved>>
    BY <1>4, <2>3, Stutter DEF MoveError, Observed
  <2>4. QED
    BY <1>4, <2>2, <2>3 DEF MoveError
<1>5. CASE MoveAckError(l)
  <2>1. cur[l] \in 1 .. lastDelivered /\ cur[l] \in Ids
    BY <1>5, CurrentDelivered DEF MoveAckError, Busy
  <2>2. cur[l] \in handled \cup skipped \cup moved
    BY <1>5 DEF MoveAckError, IInv, Current, CurrentEntry
  <2>3. Delivery!Acknowledge(cur[l]) \/ UNCHANGED Delivery!vars
    BY <1>5, <2>1, <2>2, Acknowledges DEF MoveAckError, history, Observed
  <2>4. QED
    BY <2>1, <2>3 DEF Delivery!Next, Delivery!Ids, Ids
<1>6. QED
  BY <1>1, <1>2, <1>3, <1>4, <1>5 DEF LoopFault

LEMMA ReprocessRefines ==
  ASSUME IInv, NEW a \in Admins, Reprocess(a)
  PROVE [Delivery!Next]_(Delivery!vars)
<1>1. CASE ReprocessRead(a) \/ ReprocessDel(a) \/ ReprocessAbort(a)
  BY <1>1, Stutter DEF ReprocessRead, ReprocessDel, ReprocessAbort, redis,
     history, Observed
<1>2. CASE ReprocessAdd(a)
  <2>1. target[a] \in moved /\ moved \subseteq Ids
    BY <1>2 DEF ReprocessAdd, IInv, TypeOK, Targets
  <2>2. target[a] \in 1 .. Len(stream)
    BY <2>1, ConstantsAssumption DEF IInv, TypeOK, Undelivered, Ids
  <2>3. stream[target[a]] \in Events
    BY <2>2 DEF IInv, TypeOK
  <2>4. Delivery!Append(Len(stream) + 1)
    BY <1>2, <2>3, Appends DEF ReprocessAdd, history
  <2>5. Len(stream) + 1 \in Ids
    BY <1>2, ConstantsAssumption DEF ReprocessAdd, IInv, TypeOK, Ids
  <2>6. QED
    BY <2>4, <2>5 DEF Delivery!Next, Delivery!Ids, Ids
<1>3. QED
  BY <1>1, <1>2 DEF Reprocess

LEMMA NextRefines == IInv /\ [Next]_vars => [Delivery!Next]_(Delivery!vars)
<1>1. SUFFICES ASSUME IInv, [Next]_vars PROVE [Delivery!Next]_(Delivery!vars)
  OBVIOUS
<1>2. ASSUME NEW e \in Events, Publish(e) PROVE Delivery!Next
  <2>1. Delivery!Append(Len(stream) + 1)
    BY <1>1, <1>2, Appends DEF Publish, history
  <2>2. Len(stream) + 1 \in Ids
    BY <1>1, <1>2, ConstantsAssumption DEF Publish, IInv, TypeOK, Ids
  <2>3. QED
    BY <2>1, <2>2 DEF Delivery!Next, Delivery!Ids, Ids
<1>3. CASE UNCHANGED vars
  BY <1>3, Stutter DEF vars, redis, history, Observed
<1>4. QED
  BY <1>1, <1>2, <1>3, LoopStepRefines, LoopFaultRefines, ReprocessRefines DEF Next

LEMMA InitRefines == Init => Delivery!Init
<1>1. SUFFICES ASSUME Init PROVE Delivery!Init
  OBVIOUS
<1>2. \A i \in Ids : StatusOf(i) = "absent"
  BY <1>1, ConstantsAssumption DEF Init, StatusOf, Ids
<1>3. QED
  BY <1>1, <1>2 DEF Init, Delivery!Init, Delivery!Ids, Ids

\* The loops implement EventDelivery: entries are taken in stream order and
\* once, get at most one outcome, and are acknowledged only after it.
THEOREM Implements == Spec => ImplementsDelivery
BY Invariance, InitRefines, NextRefines, PTL DEF Spec, ImplementsDelivery, Delivery!Spec
=============================================================================
