------------------------------ MODULE Studies ------------------------------
(***************************************************************************)
(* The two studies of the AI decisions, that somebody starts from the      *)
(* command line and whose results the evaluation page shows: of their      *)
(* reliability (ai_agents/demo_reliability.py) and of the semantic matcher *)
(* (eval/harness.py).  Each process asks the model many times, and then    *)
(* rewrites its file; it may be killed at any point.                       *)
(*                                                                         *)
(* External: opening a file to write truncates it, and its text, which is  *)
(* smaller than the buffer, is written when it is closed.  Of two texts    *)
(* written at the start of one file the rest of a longer first one stays.  *)
(***************************************************************************)
EXTENDS Naturals, FiniteSetsExt, SequencesExt

CONSTANTS
  Reliability,  \* processes of demo_reliability
  Harness,      \* processes of eval.harness
  Repeats,      \* how often a check is run
  Attempts,     \* 1 + len(_RETRY_DELAYS)
  Replies,      \* per reliability process: what the service may reply
  Pairs, Gold,  \* the labelled pairs, and those that are equivalent
  Judgements,   \* per harness process: what the judge may say
  Missing, Empty, Torn

Processes == Reliability \cup Harness
Checks == {"debug_agent", "blame_verdict", "counterfactual", "semantic_matcher"}

\* What _call_with_retry is called for: the matcher is asked twice.
Tasks == {t \in Checks \X (1 .. Repeats) \X {1, 2} : t[3] = 2 => t[1] = "semantic_matcher"}

\* An attempt is answered, well or badly; or with text that does not parse; or it
\* fails, in a way that is worth a retry or not.
Reply == {"right", "wrong", "garbled", "fails", "transient"}

\* Without a key every attempt is refused, the first one in particular.
ASSUME RepliesAssumption ==
  /\ Repeats \in Nat \ {0} /\ Attempts \in Nat \ {0}
  /\ Reliability \cap Harness = {}
  /\ Replies \subseteq [key : BOOLEAN, reply : [Tasks -> [1 .. Attempts -> Reply]]]
  /\ Gold \subseteq Pairs /\ IsFiniteSet(Pairs)
  /\ Judgements \subseteq [key : BOOLEAN, reply : [Pairs -> {"equivalent", "different", "fails"}]]
  /\ {Missing, Empty, Torn} \cap Processes = {}

VARIABLES
  answers,  \* per process: what it is told; never changes
  stage,    \* per process
  report,   \* per file: the process that wrote what it holds
  written   \* history: the processes in the order they wrote

studyVars == <<answers, stage, report, written>>

StudiesInit ==
  /\ answers \in [Processes -> Replies \cup Judgements]
  /\ \A p \in Processes : answers[p] \in IF p \in Reliability THEN Replies ELSE Judgements
  /\ stage = [p \in Processes |-> "asking"]
  /\ report = [f \in {"reliability", "results"} |-> Missing]
  /\ written = <<>>

-----------------------------------------------------------------------------
\* demo_reliability

\* Plausible bug: the last retry is not made.
CallWithRetry_Fewer(a, t) ==
  LET try[n \in 1 .. Attempts] ==
        IF a.reply[t][n] # "transient" \/ n + 1 >= Attempts THEN a.reply[t][n] ELSE try[n + 1]
  IN try[1]

CallWithRetry(a, t) ==
  LET try[n \in 1 .. Attempts] ==
        IF a.reply[t][n] # "transient" \/ n = Attempts THEN a.reply[t][n] ELSE try[n + 1]
  IN try[1]

\* The verdict and the repair fall back on the blame graph and on templates when
\* they cannot parse the text; both are right for the demo's trace.
Fallback == {"blame_verdict", "counterfactual"}

Hears(a, t) ==
  LET reply == CallWithRetry(a, t)
  IN IF reply = "garbled" THEN IF t[1] \in Fallback THEN "right" ELSE "fails" ELSE reply

\* One repeat of a check: an exception ends it.
Outcome(a, k, i) ==
  LET first == Hears(a, <<k, i, 1>>)
      second == Hears(a, <<k, i, 2>>)
  IN IF k # "semantic_matcher" \/ first \in {"fails", "transient"} THEN first
     ELSE IF second = "right" THEN first ELSE second

\* The record of a check; without a key it is skipped.
Check(a, k) ==
  LET having(outcomes) == Cardinality({i \in 1 .. Repeats : Outcome(a, k, i) \in outcomes})
  IN [total   |-> IF a.key THEN Repeats ELSE 0,
      correct |-> IF a.key THEN having({"right"}) ELSE 0,
      errored |-> IF a.key THEN having({"transient"}) ELSE 0]

\* main: the rate is correct out of effective.
OverChecks(n) ==
  n["debug_agent"] + n["blame_verdict"] + n["counterfactual"] + n["semantic_matcher"]

SumCorrect(a) == OverChecks([k \in Checks |-> Check(a, k).correct])
SumEffective(a) == OverChecks([k \in Checks |-> Check(a, k).total - Check(a, k).errored])

-----------------------------------------------------------------------------
\* eval.harness

\* A pair that cannot be judged is skipped.
Counted(a, verdict, P) == Cardinality({p \in P : a.key /\ a.reply[p] = verdict})

\* Precision and recall, each a numerator and a denominator; 0 out of 0 is null.
SemanticMatchPr(a) ==
  LET tp == Counted(a, "equivalent", Gold)
      fp == Counted(a, "equivalent", Pairs \ Gold)
      fn == Counted(a, "different", Gold)
  IN [precision |-> <<tp, tp + fp>>, recall |-> <<tp, tp + fn>>]

-----------------------------------------------------------------------------
\* The files

FileOf(p) == IF p \in Reliability THEN "reliability" ELSE "results"

\* A study of reliability that measured nothing leaves the file alone.
Writes(p) == p \in Reliability => SumEffective(answers[p]) > 0

OpenReport(p) ==
  /\ stage[p] = "asking"
  /\ IF Writes(p)
       THEN /\ stage' = [stage EXCEPT ![p] = "writing"]
            /\ report' = [report EXCEPT ![FileOf(p)] = Empty]
       ELSE /\ stage' = [stage EXCEPT ![p] = "done"]
            /\ UNCHANGED report
  /\ UNCHANGED <<answers, written>>

WriteReport(p) ==
  /\ stage[p] = "writing"
  /\ stage' = [stage EXCEPT ![p] = "done"]
  /\ written' = Append(written, p)
  /\ \/ report' = [report EXCEPT ![FileOf(p)] = p]
     \/ report[FileOf(p)] # Empty /\ report' = [report EXCEPT ![FileOf(p)] = Torn]
  /\ UNCHANGED answers

KillStudy(p) ==
  /\ stage[p] \in {"asking", "writing"}
  /\ stage' = [stage EXCEPT ![p] = "killed"]
  /\ UNCHANGED <<answers, report, written>>

StudyStep(p) == OpenReport(p) \/ WriteReport(p) \/ KillStudy(p)

\* What a reader of the file gets: text that does not parse is ignored.
ReadReport(f) == IF report[f] \in Processes THEN report[f] ELSE Missing

-----------------------------------------------------------------------------
\* What the results should be

\* All attempts of a task have failed, but not for good.
GivenUp(a, t) == \A n \in 1 .. Attempts : a.reply[t][n] = "transient"

\* The answer that counts is the first that is not transient.
Says(a, t, reply) ==
  \E n \in 1 .. Attempts :
    a.reply[t][n] = reply /\ \A m \in 1 .. n - 1 : a.reply[t][m] = "transient"

\* A repeat that gave up on a task is excluded, unless it had failed before.
Excluded(a) ==
  {c \in Checks \X (1 .. Repeats) :
     \/ GivenUp(a, <<c[1], c[2], 1>>)
     \/ /\ c[1] = "semantic_matcher" /\ GivenUp(a, <<c[1], c[2], 2>>)
        /\ Says(a, <<c[1], c[2], 1>>, "right") \/ Says(a, <<c[1], c[2], 1>>, "wrong")}

\* A repeat is correct if every answer it needs is, a fallback counting as one.
Good(a) ==
  {c \in Checks \X (1 .. Repeats) :
     \A t \in Tasks : t[1] = c[1] /\ t[2] = c[2] =>
       Says(a, t, "right") \/ (t[1] \in Fallback /\ Says(a, t, "garbled"))}

\* Nobody has died while writing the file, and no two wrote it at once.
Undamaged(f) ==
  \A p \in Processes : FileOf(p) = f =>
    stage[p] \in {"asking", "done"} /\ report[f] # Torn

\* The last to write the file, if anyone did.
WroteLast(f, p) == \E i \in DOMAIN written :
  /\ FileOf(written[i]) = f /\ written[i] = p
  /\ \A j \in i + 1 .. Len(written) : FileOf(written[j]) # f

=============================================================================
