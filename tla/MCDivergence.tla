---------------------------- MODULE MCDivergence ----------------------------
(***************************************************************************)
(* A recording of three steps with a parallel batch of two in it, two      *)
(* recorders, one of which replaces its run, and two forks.  The recorders *)
(* write runs of their own and the forks edit a payload; or both write one *)
(* run and the forks take a step_id that is in use.                        *)
(***************************************************************************)
EXTENDS Divergence, TLC

CONSTANTS api, p1, p2, f1, f2, r1, r2, k1, k2, g

MCForkers   == {f1, f2}
MCRecorders == {p1, p2}
MCReplacing == {p1}
MCConns     == {Api} \cup Recorders
MCTakes     == Recorders \cup Forkers
MCRuns      == {r1, r2, k1, k2}

OwnRuns == [q \in Recorders |-> IF q = p1 THEN r1 ELSE r2]
OneRun  == [q \in Recorders |-> r1]
MCSettings == {[writes |-> OwnRuns, edit |-> "payload"], [writes |-> OneRun, edit |-> "step_id"]}

MCForkId == [f \in Forkers |-> IF f = f1 THEN k1 ELSE k2]

MCShapes == {<<None, g, g>>}
MCGroups == {g}
MCSteps  == [id : 1 .. 3, group : {g, None}, take : Recorders, edited : BOOLEAN]

\* The forks may be exchanged, each with the run it makes.
Symmetry == {f1 :> f2 @@ f2 :> f1 @@ k1 :> k2 @@ k2 :> k1}

=============================================================================
