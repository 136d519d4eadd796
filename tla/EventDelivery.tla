---------------------------- MODULE EventDelivery ----------------------------
(***************************************************************************)
(* What a consumer group promises about the entries of its stream, with no *)
(* loops, batches, attempts or errors: entries are taken in stream order,  *)
(* each is taken once and gets at most one outcome, and the group forgets  *)
(* an entry only after it has one.  An entry whose consumer vanishes stays *)
(* taken and unacknowledged for good: nothing takes it again.              *)
(***************************************************************************)
EXTENDS Naturals

CONSTANTS
  MaxStream,  (* entries of the stream                                       *)
  BatchSize   (* entries taken in one read, at most                          *)

VARIABLES
  status,     (* what has become of each entry                               *)
  unacked     (* entries taken and not yet acknowledged                      *)

vars == <<status, unacked>>

Ids == 1 .. MaxStream
Outcomes == {"handled", "skipped", "dead"}

Init ==
  /\ status = [i \in Ids |-> "absent"]
  /\ unacked = {}

\* The stream grows at its end.
Append(i) ==
  /\ status[i] = "absent"
  /\ \A j \in 1 .. i - 1 : status[j] # "absent"
  /\ status' = [status EXCEPT ![i] = "queued"]
  /\ UNCHANGED unacked

\* A batch is the next entries nobody has taken, without a gap.
Take(first, final) ==
  /\ first <= final /\ final < first + BatchSize
  /\ \A j \in 1 .. first - 1 : status[j] # "queued"
  /\ \A j \in first .. final : status[j] = "queued"
  /\ status' = [j \in Ids |-> IF j \in first .. final THEN "taken" ELSE status[j]]
  /\ unacked' = unacked \cup (first .. final)

Settle(i, outcome) ==
  /\ status[i] = "taken"
  /\ status' = [status EXCEPT ![i] = outcome]
  /\ UNCHANGED unacked

Acknowledge(i) ==
  /\ i \in unacked
  /\ status[i] \in Outcomes
  /\ unacked' = unacked \ {i}
  /\ UNCHANGED status

Next ==
  \/ \E i \in Ids : Append(i) \/ Acknowledge(i)
  \/ \E first, final \in Ids : Take(first, final)
  \/ \E i \in Ids, outcome \in Outcomes : Settle(i, outcome)

Spec == Init /\ [][Next]_vars
=============================================================================
