----------------------------- MODULE MCResolver -----------------------------
(* Every registry over a few modules with at most MaxEdges dependencies. *)
EXTENDS Resolver, FiniteSetsExt

CONSTANTS NumModules,  \* the module ids are 1..NumModules
          MaxEdges     \* bound: dependencies in the whole registry

MCModules == 1 .. NumModules

Edges == UNION {kSubset(n, MCModules \X MCModules) : n \in 0 .. MaxEdges}

\* The last module may be missing from the registry, and a list may name its
\* first dependency twice.
Lists(E, twice) ==
  [m \in {x \in MCModules : x < NumModules \/ \E d \in MCModules : <<x, d>> \in E} |->
     LET list == SelectSeq([i \in MCModules |-> i], LAMBDA d : <<m, d>> \in E)
     IN  IF twice /\ list # <<>> THEN Append(list, Head(list)) ELSE list]

MCRegistries == {Lists(E, FALSE) : E \in Edges} \cup
                {Lists(E, TRUE) : E \in {x \in Edges : Cardinality(x) < MaxEdges}}
=============================================================================
