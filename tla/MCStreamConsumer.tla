-------------------------- MODULE MCStreamConsumer --------------------------
(* Small instances of StreamConsumer for TLC. *)
EXTENDS StreamConsumer, TLC

CONSTANTS l1, l2, a1, a2, wanted, unwanted, broken, tA, tB

MCTypeOf == (wanted :> tA) @@ (unwanted :> tB) @@ (broken :> Unparsable)

\* Workers running the same subscription.
MCFilterSame == [l \in Loops |-> {tA}]

MCSymmetry == Permutations(Loops)
=============================================================================
