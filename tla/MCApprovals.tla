---------------------------- MODULE MCApprovals ----------------------------
(* Small instances of Approvals for TLC. *)
EXTENDS Approvals, TLC

CONSTANTS e1, s1, s2, s3, r1, r2, w1, w2, w3

MCEntityOf == [r \in Requests |-> e1]

MCSymmetry == Permutations(Sessions) \cup Permutations(Requests) \cup Permutations(Rows)
=============================================================================
