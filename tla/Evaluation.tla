----------------------------- MODULE Evaluation -----------------------------
(***************************************************************************)
(* A thread of the API server answers GET /eval, or GET /metrics           *)
(* (api/app.py): it lists the runs, reads the results of the studies, and  *)
(* replays every run, while recorders go on with their runs or replace     *)
(* them, another thread forks one, and studies rewrite their results.  The *)
(* runs are replayed in any order.                                         *)
(***************************************************************************)
EXTENDS Divergence, Studies

CONSTANTS
  Workloads,  \* who is at work, what recorders record and studies are told
  StepType,   \* per recorder: the type of each step
  Lost        \* the steps whose blob cannot be resolved

ASSUME StepTypeAssumption ==
  /\ StepType \in [Recorders -> Seq({"llm_call", "tool_call"})]
  /\ Lost \subseteq Steps

ASSUME WorkloadsAssumption ==
  \A w \in Workloads : w.working \subseteq Recorders \cup Forkers \cup Processes

VARIABLES
  working,  \* the recorders, forks and studies there are; never changes
  page      \* the request

evalVars == <<allVars, studyVars, working, page>>

\* What the request has found: the runs, with what they held; the studies whose
\* results it shows; the runs it has still to replay, the current one, its steps
\* as read, and the runs that it finds to be deterministic.
NoPage == [pc |-> "idle", kind |-> None, listed |-> <<>>, held |-> <<>>,
           results |-> Missing, rate |-> Missing, checks |-> Missing,
           todo |-> {}, run |-> None, doc |-> <<>>, deterministic |-> {}]

EvalInit ==
  /\ InitAll
  /\ \E w \in Workloads : shape = w.shape /\ answers = w.answers /\ working = w.working
  /\ StudiesInit
  /\ page = NoPage

-----------------------------------------------------------------------------
\* get_eval_report and get_metrics

Show(next) == page' = next

\* The runs that are not forks.
PrimaryRuns ==
  {r \in RunIds : ViewOf(Api).runs[r] # None /\ ViewOf(Api).runs[r].take \notin Forkers}

\* The list is of headers; what the runs hold is history.
EvalLists(kind) ==
  /\ page.pc = "idle"
  /\ ListRuns(Api)
  /\ Show([page EXCEPT !.pc = IF kind = "eval" THEN "results" ELSE "next",
                       !.kind = kind,
                       !.listed = [r \in PrimaryRuns |-> ViewOf(Api).runs[r]],
                       !.held = [r \in PrimaryRuns |-> ViewOf(Api).steps[r]],
                       !.todo = PrimaryRuns])

\* _load_harness_metrics opens both files, _load_reliability_checks the second again.
ReadsFiles ==
  /\ \/ page.pc = "results" /\ Show([page EXCEPT !.pc = "rate", !.results = ReadReport("results")])
     \/ page.pc = "rate" /\ Show([page EXCEPT !.pc = "checks", !.rate = ReadReport("reliability")])
     \/ page.pc = "checks" /\ Show([page EXCEPT !.pc = "next", !.checks = ReadReport("reliability")])
  /\ UNCHANGED vars

\* GET /eval reads a run once more, to count its steps.
NextRun(r) ==
  /\ page.pc = "next"
  /\ r \in page.todo
  /\ Show([page EXCEPT !.pc = IF page.kind = "eval" THEN "count" ELSE "replay",
                       !.run = r, !.todo = @ \ {r}])
  /\ UNCHANGED vars

Answer ==
  /\ page.pc = "next"
  /\ page.todo = {}
  /\ Show([page EXCEPT !.pc = "answered"])
  /\ UNCHANGED vars

\* get_run, by the request, then by StoreReplayEngine.replay, then by its Replayer.
\* A run that is gone has no steps to count, and is not deterministic.
EvalReads ==
  /\ page.pc \in {"count", "replay", "tape"}
  /\ GetRunHeader(Api, page.run)
  /\ Show([page EXCEPT !.pc =
             IF reading'[Api] = None
               THEN IF @ = "count" THEN "replay" ELSE "next"
               ELSE CASE @ = "count" -> "count steps"
                      [] @ = "replay" -> "replay steps"
                      [] @ = "tape" -> "tape steps"])

CountSteps ==
  /\ page.pc = "count steps"
  /\ GetRunSteps(Api)
  /\ Show([page EXCEPT !.pc = "replay"])

ReplaySteps ==
  /\ page.pc = "replay steps"
  /\ GetRunSteps(Api)
  /\ Show([page EXCEPT !.pc = "tape", !.doc = ById(Document(Api).steps)])

TypeAt(s) == StepType[s.take][s.id]

\* Plausible bug: the status of finish decides.
Replays_Finished(doc, tape) ==
  /\ DOMAIN doc = DOMAIN tape
  /\ \A i \in DOMAIN doc : TypeAt(doc[i]) = TypeAt(tape[i]) /\ tape[i] \notin Lost

\* The tape is asked for the type of each step of doc: one of another type, none,
\* and one without its payload are errors.  What is left of the tape is not.
Replays(doc, tape) ==
  \A i \in DOMAIN doc :
    i \in DOMAIN tape /\ TypeAt(doc[i]) = TypeAt(tape[i]) /\ tape[i] \notin Lost

TapeSteps ==
  /\ page.pc = "tape steps"
  /\ GetRunSteps(Api)
  /\ LET fine == Replays(page.doc, ById(Document(Api).steps))
     IN Show([page EXCEPT !.pc = "next", !.run = None, !.doc = <<>>,
                          !.deterministic = IF fine THEN @ \cup {page.run} ELSE @])

EvalStep ==
  \/ \E kind \in {"eval", "metrics"} : EvalLists(kind)
  \/ ReadsFiles
  \/ \E r \in RunIds : NextRun(r)
  \/ EvalReads \/ CountSteps \/ ReplaySteps \/ TapeSteps
  \/ Answer

EvalNext ==
  /\ \/ (\E r \in Recorders \cap working : RecorderStep(r)) /\ UNCHANGED <<setting, studyVars, page>>
     \/ (\E f \in Forkers \cap working : ForkStep(f)) /\ UNCHANGED <<setting, studyVars, page>>
     \/ (\E p \in Processes \cap working : StudyStep(p)) /\ UNCHANGED <<allVars, page>>
     \/ EvalStep /\ UNCHANGED <<setting, jobVars, fork, studyVars>>
  /\ UNCHANGED working

EvalSpec == EvalInit /\ [][EvalNext]_evalVars

-----------------------------------------------------------------------------
\* Properties

EvalTypeOK ==
  /\ JobTypeOK
  /\ stage \in [Processes -> {"asking", "writing", "done", "killed"}]
  /\ report \in [{"reliability", "results"} -> Processes \cup {Missing, Empty, Torn}]
  /\ {page.results, page.rate, page.checks} \subseteq Processes \cup {Missing}
  /\ working \subseteq Recorders \cup Forkers \cup Processes
  /\ page.todo \cup page.deterministic \subseteq DOMAIN page.listed
  /\ DOMAIN page.listed \subseteq RunIds

\* The results the page shows are those of a study that was finished: the rate is
\* the share of correct repeats among those that were not given up, and its
\* breakdown that of the same study or of one that finished since.  A matcher that
\* is never wrong has full marks, however often it fails.  And a study of
\* reliability that measured nothing replaces no other (demo_reliability.py:9-11
\* and 502-503, harness.py:199-200, app.py:839-897).
HeadlineTrue ==
  /\ page.rate # Missing =>
       LET a == answers[page.rate]
       IN  /\ page.rate \in Range(written)
           /\ SumCorrect(a) = Cardinality(Good(a))
           /\ SumEffective(a) = Cardinality(Checks) * Repeats - Cardinality(Excluded(a))
           /\ SumEffective(a) > 0
  /\ page.rate # Missing /\ page.checks # Missing =>
       \E i, j \in DOMAIN written :
         written[i] = page.rate /\ written[j] = page.checks /\ i <= j
  /\ page.results # Missing =>
       LET a == answers[page.results]
           scores == SemanticMatchPr(a)
       IN  (\A p \in Pairs : a.reply[p] # (IF p \in Gold THEN "different" ELSE "equivalent")) =>
             scores.precision[1] = scores.precision[2] /\ scores.recall[1] = scores.recall[2]
  /\ \A f \in DOMAIN report, p \in Processes :
       Undamaged(f) /\ WroteLast(f, p) => report[f] = p

\* What the page says of a run that is recorded by one process, and was not
\* replaced meanwhile: it is deterministic if its payloads are there, also if it
\* has grown since, and not if one was lost before (app.py:815-818 and 944-958,
\* "actually replay each primary run and confirm it reproduces").
RunsCounted ==
  page.pc = "answered" =>
    \A r \in DOMAIN page.listed :
      /\ runs[r] # None /\ runs[r].take = page.listed[r].take
      /\ \A s \in steps[r] : s.take = runs[r].take
      => /\ steps[r] \cap Lost = {} => r \in page.deterministic
         /\ r \in page.deterministic => page.held[r] \cap Lost = {}

\* Contradicted: a run is "non-deterministic" because it "cannot be cleanly
\* replayed" (app.py:958).
OnlyLostFail ==
  page.pc = "answered" =>
    \A r \in DOMAIN page.listed \ page.deterministic :
      page.held[r] \cap Lost # {} \/ steps[r] \cap Lost # {}

\* Contradicted: bad output of the model counts as incorrect
\* (demo_reliability.py:9-11).
BadOutputIncorrect ==
  \A p \in Reliability : answers[p].key =>
    SumCorrect(answers[p]) =
      Cardinality({c \in Checks \X (1 .. Repeats) :
        \A t \in Tasks : t[1] = c[1] /\ t[2] = c[2] => Says(answers[p], t, "right")})

=============================================================================
