------------------------------- MODULE Recall -------------------------------
(***************************************************************************)
(* What the failure library is for: the requests that recall the failures  *)
(* most similar to a run or to a text (GET /runs/{id}/memory and           *)
(* /library/search, by relevant_failures of ai_agents/failure_library.py), *)
(* next to those that learn, on the rows that seeding and learning have    *)
(* left.  A language model or the overlap of words judges each entry: any  *)
(* verdict is possible.  A request reads the library in one statement, and *)
(* its answer depends on nothing else that changes.                        *)
(***************************************************************************)
EXTENDS FailureMemory

CONSTANTS
  Verdicts,       \* those that a judge may give
  RecallLimit,    \* how many entries are read back (get_all(limit=200))
  RunMatches,     \* k of get_run_memory
  SearchMatches,  \* k of search_failure_library
  Threshold       \* _MEMORY_MATCH_THRESHOLD, in thousandths

VARIABLE recalled  \* the verdicts and the answer of the last request, until it was received

\* "Judge error": an exception of the judge, a failed request for instance.
NoVerdict == [relevant |-> FALSE, score |-> 0]

\* Scores are in ten-thousandths.  None is halfway between two thousandths: as
\* doubles all but odd sixteenths are above or below.
ASSUME VerdictsAssumption ==
  /\ Verdicts \subseteq [relevant : BOOLEAN, score : Nat]
  /\ \A verdict \in Verdicts : verdict.score % 10 # 5
ASSUME RecallAssumption ==
  {RecallLimit, RunMatches, SearchMatches, Threshold} \subseteq Nat \ {0}

-----------------------------------------------------------------------------
\* _SqliteFailureLibrary.all: the newest entries.
Entries == {i \in DOMAIN library : i + RecallLimit > Len(library)}

Judgements == [Entries -> Verdicts \cup {NoVerdict}]

Similar(verdict) == {i \in DOMAIN verdict : verdict[i].relevant \/ verdict[i].score > 0}

\* A stable sort of what was read newest first.
Above(verdict, i, j) ==
  \/ verdict[i].score > verdict[j].score
  \/ verdict[i].score = verdict[j].score /\ i > j

Place(verdict, i) ==
  Cardinality({j \in Similar(verdict) : j = i \/ Above(verdict, j, i)})

Ranking(verdict) ==
  [n \in 1 .. Cardinality(Similar(verdict)) |->
     CHOOSE i \in Similar(verdict) : Place(verdict, i) = n]

FirstOf(s, k) == SubSeq(s, 1, Min({k, Len(s)}))

\* Plausible bug: the entries are cut to k before they are ranked.
Best_Cut(verdict, k) ==
  Ranking([i \in {j \in DOMAIN verdict : j + k > Len(library)} |-> verdict[i]])

\* relevant_failures
Best(verdict, k) == FirstOf(Ranking(verdict), k)

Judged(verdict, k) ==
  [verdict |-> verdict, k |-> k, best |-> Best(verdict, k)]

\* round(score, 3), in thousandths: what the server shows, and compares.  What it
\* ranks by is the score itself.
Rounded(score) == (score + 5) \div 10

Warns(verdict, best) == best # <<>> /\ Rounded(verdict[best[1]].score) >= Threshold

\* get_run_memory: of a run that failed.
RecallRun(t) ==
  /\ Free(t) /\ recalled = None
  /\ \E run \in Runs : run.failed \/ \E q \in DOMAIN run.steps : run.steps[q].failed
  /\ \E verdict \in Judgements :
       LET judged == Judged(verdict, RunMatches)
       IN  recalled' = [request   |-> "run",
                        judged    |-> judged,
                        available |-> Warns(verdict, judged.best)]
  /\ UNCHANGED vars

\* search_failure_library
Search(t) ==
  /\ Free(t) /\ recalled = None
  /\ \E verdict \in Judgements :
       LET judged == Judged(verdict, SearchMatches)
       IN  recalled' = [request   |-> "search",
                        judged    |-> judged,
                        available |-> judged.best # <<>>]
  /\ UNCHANGED vars

RecallNext ==
  \/ Next /\ recalled' = None
  \/ \E t \in Threads : RecallRun(t) \/ Search(t)

RecallInit == Init /\ recalled = None

RecallSpec == RecallInit /\ [][RecallNext]_<<vars, recalled>>

-----------------------------------------------------------------------------
\* Properties

\* Of the failures the server has read, it names the most similar ones, at most k
\* and none that is irrelevant, the best first and of equal ones the newest; and it
\* warns of a run exactly when the score of one of those it read, cut to k or not,
\* is in thousandths as high as the threshold, whatever the judge makes of the
\* others, and though it fails on some (failure_library.py:271-286, app.py:750-755
\* and 773).
BestRecalled ==
  recalled # None =>
    LET verdict == recalled.judged.verdict
        best    == recalled.judged.best
        Beats(i, j) == \/ verdict[i].score > verdict[j].score
                       \/ verdict[i].score = verdict[j].score /\ i > j
    IN  /\ ToSet(best) \subseteq Similar(verdict)
        /\ Len(best) = Min({recalled.judged.k, Cardinality(Similar(verdict))})
        /\ \A m, n \in DOMAIN best : m < n => Beats(best[m], best[n])
        /\ \A i \in Similar(verdict) \ ToSet(best), n \in DOMAIN best : Beats(best[n], i)
        /\ recalled.request = "run" =>
             (recalled.available <=> \E i \in DOMAIN verdict : Rounded(verdict[i].score) >= Threshold)

\* Contradicted: "A match must clear this relevance score" (app.py:632).  It is what
\* the score is rounded to that must: 0.4496 passes for 0.45.
WarnedScoresClear ==
  recalled # None /\ recalled.request = "run" /\ recalled.available =>
    \E i \in DOMAIN recalled.judged.verdict :
      recalled.judged.verdict[i].score >= 10 * Threshold

\* Contradicted: "the AI ranks every stored pattern" (app.py:786-787).
EveryPatternRanked ==
  recalled # None => DOMAIN recalled.judged.verdict = DOMAIN library

=============================================================================
