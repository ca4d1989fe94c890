------------------------------- MODULE Repair -------------------------------
(***************************************************************************)
(* POST counterfactual: n rewritings of one step of a failed run, each     *)
(* tried on a fork of its own and judged against a replay of the run, then *)
(* ranked.  A fork is atomic here: what it copies, and how it can fail     *)
(* halfway, is module Divergence.  The run is read anew by every part of   *)
(* the request, and other processes may replace it meanwhile.              *)
(***************************************************************************)
EXTENDS Naturals, Sequences, FiniteSets

CONSTANTS
  None,
  Settings,    \* [llm, shared, docs]: a model answers; others record the run; what they record
  Hints,       \* steps of resolves.json for the run, {} if it has no entry
  Asked,       \* what clients pass as step_id, None if they do not
  MaxVariants

\* A recorded step: id, type, failed (its status), gone (its blob), group,
\* parents and out, the payload.  A document has them in order of id, and the
\* point it was forked at.
IsStep(s) ==
  /\ s.id \in Nat /\ s.type \in {"llm_call", "tool_call"}
  /\ s.failed \in BOOLEAN /\ s.gone \in BOOLEAN
IsDoc(d) ==
  /\ d.forkedAt \in Nat \cup {None}
  /\ d.steps \in Seq({d.steps[i] : i \in DOMAIN d.steps})
  /\ \A i \in DOMAIN d.steps : IsStep(d.steps[i])
  /\ \A i, j \in DOMAIN d.steps : i < j => d.steps[i].id < d.steps[j].id

ASSUME SettingsAssumption == \A s \in Settings :
  s.llm \in BOOLEAN /\ s.shared \in BOOLEAN /\ \A d \in s.docs : d # None /\ IsDoc(d)
ASSUME HintsAssumption == \A h \in Hints : h \subseteq Nat
ASSUME AskedAssumption == Asked \subseteq Nat \cup {None}
ASSUME BoundAssumption == MaxVariants \in Nat
ASSUME NoneAssumption == None \notin Nat

VARIABLES
  setting,
  hint,      \* resolves_at_for the run
  run,       \* the run in the store, None while it is deleted
  pc,        \* "idle", "baseline", "replay", "generate", "try", "done", "refused"
  doc,       \* as the endpoint has read it
  step,      \* step_id
  judged,    \* as the baseline has read it first
  base,      \* the baseline: failed and outputs
  left,      \* variants still to be tried
  variants,  \* those that were tried
  forks,     \* the documents that were forked, one per fork
  ranking    \* positions of variants, the best one first

request == <<pc, doc, step, judged, base, left, variants, forks, ranking>>
vars == <<setting, hint, run, request>>

Init ==
  /\ setting \in Settings
  /\ hint \in Hints
  /\ run \in setting.docs
  /\ pc = "idle"
  /\ doc = None
  /\ step = None
  /\ judged = None
  /\ base = None
  /\ left = 0
  /\ variants = <<>>
  /\ forks = <<>>
  /\ ranking = <<>>

Ids(d) == {d.steps[i].id : i \in DOMAIN d.steps}
At(d, k) == CHOOSE i \in DOMAIN d.steps : d.steps[i].id = k
Failed(d) == \E i \in DOMAIN d.steps : d.steps[i].failed
Beside(s, t) == s.group # None /\ s.group = t.group

\* What readers see of recorders at work: the run deleted, or part of a recording.
Readings ==
  setting.docs \cup
  UNION {{[forkedAt |-> d.forkedAt, steps |-> SubSeq(d.steps, 1, n)] : n \in 0 .. Len(d.steps)} :
          d \in setting.docs}

Rerecord ==
  /\ setting.shared
  /\ run' \in {None} \cup Readings
  /\ UNCHANGED <<setting, hint, request>>

\* llm_complete: without a key every caller falls back; with one the service may
\* refuse, an error that no caller catches.
ModelFails == setting.llm

-----------------------------------------------------------------------------
\* The endpoint

\* No document is the answer 404, everything else that is refused 500.
Refuse ==
  /\ pc' = "refused"
  /\ UNCHANGED <<doc, step, judged, base, left, variants, ranking>>

IsLeast(n, S) == n \in S /\ \A m \in S : n <= m

\* The step the client names, or the first of the hint, or step 1.
IsTarget(k, asked) ==
  IF asked # None THEN k = asked ELSE IF hint # {} THEN IsLeast(k, hint) ELSE k = 1

Receive(asked) ==
  /\ pc = "idle"
  /\ \/ run = None /\ Refuse
     \/ /\ run # None
        /\ \E k \in {asked, 1} \cup hint : IsTarget(k, asked) /\ step' = k
        /\ doc' = run
        /\ pc' = "baseline"
        /\ UNCHANGED <<judged, base, left, variants, ranking>>
  /\ UNCHANGED forks

-----------------------------------------------------------------------------
\* The baseline: ScriptedReplay.replay, or StoreReplayEngine.replay

Scripted == hint # {}

BaselineScripted ==
  /\ pc = "baseline"
  /\ Scripted
  /\ base' = [failed |-> Failed(doc), outputs |-> <<>>]
  /\ pc' = "generate"
  /\ UNCHANGED <<doc, step, judged, left, variants, forks, ranking>>

BaselineReads ==
  /\ pc = "baseline"
  /\ ~Scripted
  /\ \/ run = None /\ Refuse
     \/ /\ run # None
        /\ judged' = run
        /\ pc' = "replay"
        /\ UNCHANGED <<doc, step, base, left, variants, ranking>>
  /\ UNCHANGED forks

\* A run that is a fork itself is synthesized past its fork point.
Synthesized(d, s) ==
  /\ d.forkedAt # None
  /\ s.id > d.forkedAt
  /\ \A i \in DOMAIN d.steps : d.steps[i].id = d.forkedAt => ~Beside(s, d.steps[i])

\* The Replayer has read the run again (as d), and is asked for the steps of judged.
Replays(d) ==
  /\ d # None
  /\ \A i \in DOMAIN judged.steps :
       IF i \in DOMAIN d.steps
         THEN /\ d.steps[i].type = judged.steps[i].type
              /\ Synthesized(d, d.steps[i]) \/ ~d.steps[i].gone
         ELSE d.forkedAt # None

\* Some step that is asked for is past the tape, or past its fork point.
Synthesizes(d) ==
  \E i \in DOMAIN judged.steps : i \in DOMAIN d.steps => Synthesized(d, d.steps[i])

\* What is synthesized is never what was recorded.
Output(d, i) ==
  IF i \in DOMAIN d.steps /\ ~Synthesized(d, d.steps[i]) THEN d.steps[i].out ELSE "synthesized"

\* The statuses are those of the first reading, the outputs those of the second.
BaselineReplays ==
  /\ pc = "replay"
  /\ \/ ~Replays(run) /\ Refuse
     \/ Replays(run) /\ Synthesizes(run) /\ ModelFails /\ Refuse
     \/ /\ Replays(run)
        /\ base' = [failed  |-> Failed(judged),
                    outputs |-> [k \in Ids(judged) |-> Output(run, At(judged, k))]]
        /\ pc' = "generate"
        /\ UNCHANGED <<doc, step, judged, left, variants, ranking>>
  /\ UNCHANGED forks

-----------------------------------------------------------------------------
\* repair

\* The templates yield the number asked for; a model yields any, or an error that
\* is not caught.
Generate ==
  /\ pc = "generate"
  /\ \/ /\ left' \in 0 .. MaxVariants
        /\ pc' = "try"
        /\ UNCHANGED <<doc, step, judged, base, variants, ranking>>
     \/ ModelFails /\ Refuse
  /\ UNCHANGED forks

\* The steps of a fork of d at k: those before k, k, and the siblings of k, all of
\* which its replay serves.  The edited step keeps its status.
Kept(d, k) ==
  {i \in DOMAIN d.steps : d.steps[i].id <= k \/ Beside(d.steps[i], d.steps[At(d, k)])}

\* Plausible bug: the edited step itself is taken to succeed.
ForkOk_Hopeful(d, k) == \A i \in Kept(d, k) \ {At(d, k)} : ~d.steps[i].failed

ForkOk(d, k) == \A i \in Kept(d, k) : ~d.steps[i].failed

\* The target is always "result": the edit of a model call is in a column that is
\* not served.
Edits(d, i, k) == d.steps[i].id = k /\ d.steps[i].type = "tool_call"

ForkReplays(d, k) == \A i \in Kept(d, k) : d.steps[i].gone => Edits(d, i, k)

\* text is the payload of the edited step.
ForkOutput(d, k, text) ==
  [n \in {d.steps[i].id : i \in Kept(d, k)} |->
     IF Edits(d, At(d, n), k) THEN text ELSE d.steps[At(d, n)].out]

\* _count_steps_changed: a step that one side lacks counts as changed.
StepsChanged(outputs) ==
  Cardinality({n \in DOMAIN base.outputs \cup DOMAIN outputs :
    n \in DOMAIN base.outputs \cap DOMAIN outputs => base.outputs[n] # outputs[n]})

\* ScriptedReplay: the step and its descendants differ.
ClosedDown(d, C, k) ==
  \A i \in DOMAIN d.steps : d.steps[i].parents \cap (C \cup {k}) # {} => d.steps[i].id \in C
StepsScripted(d, k) ==
  Cardinality({n \in Ids(d) : n = k \/ \A C \in SUBSET Ids(d) : ClosedDown(d, C, k) => n \in C})

\* _score, in thousandths.
Score(resolved, changed) ==
  IF resolved THEN IF changed < 25 THEN 1000 - 20 * changed ELSE 500
  ELSE IF changed < 5 THEN 100 - 20 * changed ELSE 0

\* llm_failure_resolved: a model may still find the outputs equivalent.
Verdicts(ok) ==
  IF ~base.failed \/ ~ok THEN {FALSE} ELSE IF setting.llm THEN BOOLEAN ELSE {TRUE}

\* Plausible bug: each variant is compared with the one before.
Judge_Chained(ok, changed) ==
  \/ \E resolved \in Verdicts(ok) :
       /\ variants' = Append(variants, [resolved |-> resolved, score |-> Score(resolved, changed)])
       /\ base' = [base EXCEPT !.failed = ~ok]
       /\ left' = left - 1
       /\ UNCHANGED <<pc, doc, step, judged, ranking>>
  \/ ModelFails /\ base.failed /\ ok /\ Refuse

\* The model may fail with an error that is not caught.
Judge(ok, changed) ==
  \/ \E resolved \in Verdicts(ok) :
       /\ variants' = Append(variants, [resolved |-> resolved, score |-> Score(resolved, changed)])
       /\ left' = left - 1
       /\ UNCHANGED <<pc, doc, step, judged, base, ranking>>
  \/ ModelFails /\ base.failed /\ ok /\ Refuse

TryScripted ==
  /\ pc = "try"
  /\ left > 0
  /\ Scripted
  /\ Judge(step \in hint, StepsScripted(doc, step))
  /\ UNCHANGED forks

CanFork(d, k) == d # None /\ k \in Ids(d)

\* Plausible bug: the fork is registered before the step is looked for.
TryFork_Early(text) ==
  /\ pc = "try"
  /\ left > 0
  /\ ~Scripted
  /\ \/ run = None /\ Refuse /\ UNCHANGED forks
     \/ /\ run # None
        /\ forks' = Append(forks, run)
        /\ IF step \in Ids(run) /\ ForkReplays(run, step)
             THEN Judge(ForkOk(run, step), StepsChanged(ForkOutput(run, step, text)))
             ELSE Refuse

\* replay_with_injection; the step must be in the run as it is now.
TryFork(text) ==
  /\ pc = "try"
  /\ left > 0
  /\ ~Scripted
  /\ \/ ~CanFork(run, step) /\ Refuse /\ UNCHANGED forks
     \/ /\ CanFork(run, step)
        /\ forks' = Append(forks, run)
        /\ IF ForkReplays(run, step)
             THEN Judge(ForkOk(run, step), StepsChanged(ForkOutput(run, step, text)))
             ELSE Refuse

\* A model may answer with the text that was recorded.
Texts ==
  {"rewritten"} \cup
  (IF setting.llm /\ run # None THEN {run.steps[i].out : i \in DOMAIN run.steps} ELSE {})

\* The key of the sort, (resolved, score); equal ones keep their order.
Before(p, q) ==
  LET v == variants[p]
      w == variants[q]
  IN \/ v.resolved /\ ~w.resolved
     \/ v.resolved = w.resolved /\ v.score > w.score
     \/ v = w /\ p < q

Rank ==
  /\ pc = "try"
  /\ left = 0
  /\ ranking' \in [DOMAIN variants -> DOMAIN variants]
  /\ \A i, j \in DOMAIN variants : i < j => Before(ranking'[i], ranking'[j])
  /\ pc' = "done"
  /\ UNCHANGED <<doc, step, judged, base, left, variants, forks>>

Request ==
  \/ \E asked \in Asked : Receive(asked)
  \/ BaselineScripted \/ BaselineReads \/ BaselineReplays
  \/ Generate
  \/ TryScripted
  \/ \E text \in Texts : TryFork(text)
  \/ Rank

Next == Rerecord \/ (Request /\ UNCHANGED <<setting, hint, run>>)
Spec == Init /\ [][Next]_vars

\* The winner of the answer.
HasWinner == pc = "done" /\ variants # <<>> /\ variants[ranking[1]].resolved

\* from_margin: the confidence, in thousandths.
Confidence ==
  IF variants = <<>> THEN 0
  ELSE variants[ranking[1]].score - (IF Len(variants) > 1 THEN variants[ranking[2]].score ELSE 0)

-----------------------------------------------------------------------------
\* Properties

Pcs == {"idle", "baseline", "replay", "generate", "try", "done", "refused"}

Variants == [resolved : BOOLEAN, score : 0 .. 1000]

TypeOK ==
  /\ setting \in Settings /\ hint \in Hints
  /\ pc \in Pcs
  /\ {run, doc, judged} \subseteq Readings \cup {None}
  /\ step \in Nat \cup {None}
  /\ pc \in {"generate", "try", "done"} =>
       base.failed \in BOOLEAN /\ IsFiniteSet(DOMAIN base.outputs)
  /\ left \in Nat
  /\ variants \in Seq(Variants)
  /\ forks \in Seq(Readings)
  /\ pc = "done" => ranking \in [DOMAIN variants -> DOMAIN variants]

\* A winner is announced only for a run that was seen to fail, and it has taken
\* every failure of the run out of the trajectory: none is before the edited step,
\* at it, or beside it.  With a hint it is the hint that says so.  As long as
\* nobody replaces the run, it is the run the client sees (app.py:1240, "A run that
\* never failed honestly yields no resolved variant").
Avoided(d, k) ==
  \A i \in DOMAIN d.steps : d.steps[i].failed =>
    d.steps[i].id > k /\ ~Beside(d.steps[i], d.steps[At(d, k)])

WinnerRepairs ==
  HasWinner =>
    /\ base.failed
    /\ IF Scripted THEN step \in hint ELSE Avoided(forks[ranking[1]], step)
    /\ ~setting.shared => Failed(doc)

\* A recorded run that nobody replaces, offline: a request leaves a fork for each
\* variant it reports, and none when it is refused.
LeavesWhatItReports ==
  ~setting.shared /\ ~setting.llm /\ (doc # None => doc.forkedAt = None) =>
    /\ pc = "refused" => forks = <<>>
    /\ pc = "done" /\ ~Scripted => Len(forks) = Len(variants)

\* Offline, the text of a variant has no part in its verdict: all of them tie, so
\* that the first is the winner and a choice between two has no confidence at all.
OfflineTies ==
  pc = "done" /\ ~setting.shared /\ ~setting.llm =>
    /\ \A i \in DOMAIN variants : ranking[1] = 1 /\ variants[i] = variants[1]
    /\ Len(variants) > 1 => Confidence = 0

\* The words of app.py:1240, also when the run is replaced.
NoneForSuccess == doc # None /\ ~Failed(doc) => ~HasWinner

=============================================================================
