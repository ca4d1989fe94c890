-------------------------- MODULE MCFailureMemory --------------------------
(***************************************************************************)
(* A run that failed in the second step of a parallel batch, one that was  *)
(* uploaded as failed with no failed step, and one that did not fail.  The *)
(* judge finds an entry similar but scores it nothing, similar but just    *)
(* too weak, similar and just good enough once the score is rounded, or    *)
(* scores it high though it calls it irrelevant.                           *)
(***************************************************************************)
EXTENDS Recall

RunOf(n, failed, wrong, batch) ==
  [failed |-> failed,
   steps  |-> [k \in 1 .. n |-> [failed |-> k \in wrong,
                                 group  |-> IF k \in batch THEN "g" ELSE None]]]

SomeRuns ==
  {RunOf(3, TRUE, {3}, {2, 3}), RunOf(1, TRUE, {}, {}), RunOf(1, FALSE, {}, {})}

TwoSeeds == <<[pattern |-> "routing", step |-> 2], [pattern |-> "argument", step |-> 2]>>

SomeVerdicts ==
  {[relevant |-> TRUE, score |-> 0], [relevant |-> TRUE, score |-> 4494],
   [relevant |-> TRUE, score |-> 4496], [relevant |-> FALSE, score |-> 9000]}

=============================================================================
