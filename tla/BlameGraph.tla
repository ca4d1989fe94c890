----------------------------- MODULE BlameGraph -----------------------------
(***************************************************************************)
(* root_cause.analyze: the walk from the failed step up through            *)
(* causal_parents, then one perturbed replay per ancestor, then the        *)
(* verdict.  The replays are those of ScriptedReplay, the engine that the  *)
(* API and the evaluation harness pass in: correcting a step of fixes (its *)
(* resolves_at) prevents the failure, and changes the outputs of that step *)
(* and of everything downstream, which a second walk, forward, finds for   *)
(* each ancestor.  Traces are not only recorded ones, where parents        *)
(* precede their children: they may be uploaded, with any parents, missing *)
(* and circular ones included.                                             *)
(***************************************************************************)
EXTENDS Naturals, FiniteSets

CONSTANTS
  None,
  Traces,   \* functions from step ids to causal_parents
  Failures, \* sets of step ids, those with status "error"
  Fixes,    \* what ScriptedReplay is told to resolve the failure
  Asked     \* what callers pass as failed_step_id, None if they do not

ASSUME TracesAssumption == \A t \in Traces :
  IsFiniteSet(DOMAIN t) /\ DOMAIN t \subseteq Nat /\ t \in [DOMAIN t -> SUBSET Nat]
ASSUME AskedAssumption == Asked \subseteq Nat \cup {None}
ASSUME NoneAssumption == None \notin Nat

VARIABLES
  trace,
  failing,
  fixes,
  asked,
  pc,         \* "infer", "walk", "perturb", "descend", "done"
  failedStep, \* failed_step_id
  pending,    \* the stack of the walk under way: only what is on it matters
  seen,       \* the ancestors found
  current,    \* the step that is perturbed
  reached,    \* the descendants of it found
  todo,       \* candidates still to be perturbed
  resolving,  \* those that resolved the failure
  score,      \* blame scores, in thousandths
  verdict     \* None, or what is returned

down == <<current, reached>>
vars == <<trace, failing, fixes, asked, pc, failedStep, pending, seen, down, todo, resolving, score, verdict>>

Ids == DOMAIN trace
Parents(n) == IF n \in Ids THEN trace[n] ELSE {}
Children(n) == {c \in Ids : n \in trace[c]}

Init ==
  /\ trace \in Traces
  /\ failing \in Failures /\ failing \subseteq Ids
  /\ fixes \in Fixes
  /\ asked \in Asked
  /\ pc = "infer"
  /\ failedStep = None
  /\ pending = {}
  /\ seen = {}
  /\ current = None
  /\ reached = {}
  /\ todo = {}
  /\ resolving = {}
  /\ score = <<>>
  /\ verdict = None

-----------------------------------------------------------------------------
\* infer_failed_step

IsLeast(n, S) == n \in S /\ \A m \in S : n <= m
IsGreatest(n, S) == n \in S /\ \A m \in S : m <= n

\* Plausible bug: the first failing step.
IsInferred_First(f) == IF failing = {} THEN f = None ELSE IsLeast(f, failing)

IsInferred(f) == IF failing = {} THEN f = None ELSE IsGreatest(f, failing)

Infer(f) ==
  /\ pc = "infer"
  /\ IF asked # None THEN f = asked ELSE IsInferred(f)
  /\ failedStep' = f
  /\ IF f = None
       THEN /\ pc' = "done"
            /\ verdict' = [failed |-> None, root |-> None, sure |-> FALSE]
            /\ UNCHANGED pending
       ELSE /\ pc' = "walk"
            /\ pending' = Parents(f)
            /\ UNCHANGED verdict
  /\ UNCHANGED <<trace, failing, fixes, asked, seen, down, todo, resolving, score>>

-----------------------------------------------------------------------------
\* causal_ancestors

Visit(n) ==
  /\ pc = "walk"
  /\ n \in pending
  /\ IF n \in seen \/ n \notin Ids
       THEN pending' = pending \ {n} /\ UNCHANGED seen
       ELSE /\ seen' = seen \cup {n}
            /\ pending' = (pending \ {n}) \cup Parents(n)
  /\ UNCHANGED <<trace, failing, fixes, asked, pc, failedStep, down, todo, resolving, score, verdict>>

\* Plausible bug: the failed step is a candidate too.
Walked_WithFailed ==
  /\ pc = "walk"
  /\ pending = {}
  /\ pc' = "perturb"
  /\ todo' = seen \cup {failedStep}
  /\ UNCHANGED <<trace, failing, fixes, asked, failedStep, pending, seen, down, resolving, score, verdict>>

Walked ==
  /\ pc = "walk"
  /\ pending = {}
  /\ pc' = "perturb"
  /\ todo' = seen
  /\ UNCHANGED <<trace, failing, fixes, asked, failedStep, pending, seen, down, resolving, score, verdict>>

-----------------------------------------------------------------------------
\* ScriptedReplay and _causal_descendants: the next candidate is replayed with its
\* output corrected, and what is downstream of it is found to have changed.

\* Plausible bug: the step counts as its own descendant.
Replay_Itself(n) ==
  /\ pc = "perturb"
  /\ IsLeast(n, todo)
  /\ pc' = "descend"
  /\ current' = n
  /\ reached' = {n}
  /\ pending' = Children(n)
  /\ UNCHANGED <<trace, failing, fixes, asked, failedStep, seen, todo, resolving, score, verdict>>

Replay(n) ==
  /\ pc = "perturb"
  /\ IsLeast(n, todo)
  /\ pc' = "descend"
  /\ current' = n
  /\ reached' = {}
  /\ pending' = Children(n)
  /\ UNCHANGED <<trace, failing, fixes, asked, failedStep, seen, todo, resolving, score, verdict>>

\* Plausible bug: no test of what was reached already.
Descend_Again(d) ==
  /\ pc = "descend"
  /\ d \in pending
  /\ reached' = reached \cup {d}
  /\ pending' = (pending \ {d}) \cup Children(d)
  /\ UNCHANGED <<trace, failing, fixes, asked, pc, failedStep, seen, current, todo, resolving, score, verdict>>

\* Plausible bug: only what the step feeds directly is derived again.
Descend_Shallow(d) ==
  /\ pc = "descend"
  /\ d \in pending
  /\ pending' = pending \ {d}
  /\ reached' = reached \cup {d}
  /\ UNCHANGED <<trace, failing, fixes, asked, pc, failedStep, seen, current, todo, resolving, score, verdict>>

Descend(d) ==
  /\ pc = "descend"
  /\ d \in pending
  /\ IF d \in reached
       THEN pending' = pending \ {d} /\ UNCHANGED reached
       ELSE /\ reached' = reached \cup {d}
            /\ pending' = (pending \ {d}) \cup Children(d)
  /\ UNCHANGED <<trace, failing, fixes, asked, pc, failedStep, seen, current, todo, resolving, score, verdict>>

-----------------------------------------------------------------------------
\* The rest of analyze

\* default_failure_resolved: the baseline failed, the perturbed replay did not.
Resolves(n) == failing # {} /\ n \in fixes

\* Thousandths, rounded.  Root cause or contributor; never innocent, since the
\* perturbed step itself has another output.
Weight(n, changed) ==
  IF Resolves(n) THEN 1000
  ELSE 200 + (800 * Cardinality(changed) + Cardinality(Ids)) \div (2 * Cardinality(Ids))

Weigh ==
  /\ pc = "descend"
  /\ pending = {}
  /\ pc' = "perturb"
  /\ todo' = todo \ {current}
  /\ resolving' = resolving \cup (IF Resolves(current) THEN {current} ELSE {})
  /\ score' = [m \in DOMAIN score \cup {current} |->
                 IF m = current THEN Weight(current, {current} \cup reached) ELSE score[m]]
  /\ UNCHANGED <<trace, failing, fixes, asked, failedStep, pending, seen, down, verdict>>

IsRoot(r) == IF resolving = {} THEN r = None ELSE IsLeast(r, resolving)

\* Confidence 0.9 when exactly one step resolves the failure, else 0.5 or 0.3.
Conclude(r) ==
  /\ pc = "perturb"
  /\ todo = {}
  /\ IsRoot(r)
  /\ verdict' = [failed |-> failedStep, root |-> r, sure |-> \E n \in resolving : resolving = {n}]
  /\ pc' = "done"
  /\ UNCHANGED <<trace, failing, fixes, asked, failedStep, pending, seen, down, todo, resolving, score>>

Next ==
  \/ \E f \in Ids \cup {asked} : Infer(f)
  \/ \E n \in pending : Visit(n)
  \/ Walked
  \/ \E n \in todo : Replay(n)
  \/ \E d \in pending : Descend(d)
  \/ Weigh
  \/ \E r \in resolving \cup {None} : Conclude(r)

Spec == Init /\ [][Next]_vars
FairSpec == Spec /\ WF_vars(Next)

-----------------------------------------------------------------------------
\* Properties

Verdicts == [failed : Nat \cup {None}, root : Nat \cup {None}, sure : BOOLEAN]

TypeOK ==
  /\ trace \in Traces /\ failing \subseteq Ids /\ asked \in Asked
  /\ pc \in {"infer", "walk", "perturb", "descend", "done"}
  /\ failedStep \in Nat \cup {None}
  /\ pending \subseteq Nat
  /\ current \in Nat \cup {None} /\ reached \subseteq Ids
  /\ seen \subseteq Ids /\ todo \subseteq seen /\ resolving \subseteq seen
  /\ DOMAIN score = IF pc \in {"infer", "walk"} THEN {} ELSE seen \ todo
  /\ \A n \in DOMAIN score : score[n] \in Nat
  /\ verdict \in Verdicts \cup {None}

\* The analysis returns the verdict of module Blame: the walk finds the causes
\* of the failed step and nothing else, and the loop the earliest that resolves.
Judgement == INSTANCE Blame
BlamesTheCause == Judgement!Spec

\* In a recorded run every parent is an earlier step (module RecordingSession),
\* and then what is blamed comes before the failure it explains.
Recorded == \A n \in Ids : \A p \in trace[n] : p < n

BlamePrecedesFailure ==
  Recorded /\ failedStep # None => \A n \in DOMAIN score : n < failedStep

\* The steps that n is a cause of.
Downstream(n) == {d \in Ids : n \in Judgement!Causes(d)}

\* The forward walk of a replay mirrors the backward walk that chose the candidates
\* (root_cause.py:132, "Mirrors causal_ancestors but walks downward"): when nothing is
\* pending it has reached every step that the perturbed one is a cause of, and no
\* other, the perturbed step itself only where it is a cause of itself; and among
\* them is the failed step.
WalksMirror ==
  pc = "descend" /\ pending = {} =>
    /\ reached = Downstream(current)
    /\ failedStep \in Ids => failedStep \in reached

\* Of two steps that resolve nothing, one that feeds into the other is blamed no
\* less (root_cause.py:19, the cause is "the upstream-most step").
UpstreamWeighsMore ==
  \A m, n \in DOMAIN score :
    n \in Downstream(m) /\ score[n] < 1000 => score[m] >= score[n]

\* analyze returns, on circular traces too, where both walks meet steps they have
\* been at: each turn of a loop is taken, as in any single thread of Python.
Returns == <>(pc = "done")

=============================================================================
