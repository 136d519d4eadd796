------------------------------ MODULE MCAwards ------------------------------
(* Small instances of Awards for TLC. *)
EXTENDS Awards, TLC

CONSTANTS w1, w2, f1, f2, f3, b1, b2, b3, completed, created

\* Two facts of user 1, one of user 2.
MCUserOf == (f1 :> 1) @@ (f2 :> 1) @@ (f3 :> 2)

\* With f1 alone user 1 is below user 2, with both above.
MCWorth == (f1 :> 1) @@ (f2 :> 2) @@ (f3 :> 2)

\* The first fact is completed twice.
MCDeliveries == (f1 :> 2) @@ (f2 :> 1) @@ (f3 :> 1)

\* User 1 completes tasks, user 2 creates one.
MCEventOf == (f1 :> completed) @@ (f2 :> completed) @@ (f3 :> created)

\* The first badge takes one event of any type, the second two completed tasks,
\* the third a created one.
MCWants == (b1 :> None) @@ (b2 :> completed) @@ (b3 :> created)
MCNeed == (b1 :> 1) @@ (b2 :> 2) @@ (b3 :> 1)
=============================================================================
