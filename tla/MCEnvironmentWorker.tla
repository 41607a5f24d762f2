------------------------ MODULE MCEnvironmentWorker ------------------------
(* EnvironmentWorker with small constants for TLC. *)
EXTENDS EnvironmentWorker, TLC

CONSTANTS i1, i2, w1, w2, c1, c2

\* Two workers with one call each, and one worker with two overlapping calls.
Serial == (c1 :> w1) @@ (c2 :> w2)
Overlapping == (c1 :> w1) @@ (c2 :> w1)

\* The items are alike; so are the two workers together with their calls, and
\* the two calls of one worker.  Used where no liveness is checked.
SwapCalls ==
    IF WorkerOf[c1] = WorkerOf[c2]
    THEN (c1 :> c2) @@ (c2 :> c1)
    ELSE (c1 :> c2) @@ (c2 :> c1) @@ (w1 :> w2) @@ (w2 :> w1)
Symmetry == {p @@ s : p \in Permutations(Items),
                      s \in {SwapCalls, [x \in DOMAIN SwapCalls |-> x]}}
=============================================================================
