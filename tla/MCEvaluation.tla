---------------------------- MODULE MCEvaluation ----------------------------
(***************************************************************************)
(* Either two studies of reliability are told anything by a service that   *)
(* differs from the usual in one check, while nobody records a step; or    *)
(* two recorders record three steps each, one payload of which was lost,   *)
(* in runs of their own, or such that the second replaces the run of the   *)
(* first by one whose steps are of other types; or one of two short        *)
(* recordings is forked; or one is made while two studies end.  Each check *)
(* is run once, and attempted twice.                                       *)
(***************************************************************************)
EXTENDS Evaluation, TLC

CONSTANTS api, p1, p2, f1, r1, r2, k1, s1, s2, h1, e, d

MCRecorders == {p1, p2}
MCConns     == {Api} \cup Recorders
MCTakes     == Recorders \cup Forkers
MCRuns      == {r1, r2, k1}

OwnRuns == [q \in Recorders |-> IF q = p1 THEN r1 ELSE r2]
OneRun  == [q \in Recorders |-> r1]
MCSettings == {[writes |-> w, edit |-> "payload"] : w \in {OwnRuns, OneRun}}
MCReplacing == {p2}

MCForkers == {f1}
MCForkId  == [f \in Forkers |-> k1]

One == <<None>>
ThreeSteps == <<None, None, None>>
MCShapes   == {<<>>, One, ThreeSteps}
MCSteps    == [id : 1 .. 3, group : {None}, take : Recorders, edited : BOOLEAN]
MCTypes    ==
  [q \in Recorders |-> IF q = p1 THEN <<"llm_call", "tool_call", "tool_call">>
                                 ELSE <<"tool_call", "tool_call", "llm_call">>]
MCLost     == {s \in MCSteps : s.take = p2 /\ s.id = 3}

MCReliability == {s1, s2}
MCHarness     == {h1}

\* What can be told in two attempts.
Told == {<<x, "right">> : x \in Reply}
          \cup {<<"transient", x>> : x \in Reply}
TaskSet == {<<k, 1, 1>> : k \in Checks} \cup {<<"semantic_matcher", 1, 2>>}
Usual == [t \in TaskSet |-> <<"right", "right">>]

\* One check is told anything at all.
Unusual ==
  {[Usual EXCEPT ![<<k, 1, 1>>] = x] : k \in Checks, x \in Told} \cup
  {[Usual EXCEPT ![<<"semantic_matcher", 1, 1>>] = x,
                 ![<<"semantic_matcher", 1, 2>>] = y] : x \in Told, y \in Told}
AllBusy == [t \in TaskSet |-> <<"transient", "transient">>]

Answered == {[key |-> TRUE, reply |-> u] : u \in Unusual}
NoKey    == [key |-> FALSE, reply |-> Usual]
Busy     == [key |-> TRUE, reply |-> AllBusy]
MCReplies == Answered \cup {NoKey, Busy}

\* One pair that is equivalent, e, and one that is not, d.
MCPairs == {e, d}
MCGold  == {e}
MCJudgements ==
  [key : BOOLEAN, reply : [Pairs -> {"equivalent", "different", "fails"}]]

Quiet == [q \in Recorders |-> <<>>]
TellThem(a, b, j) == [p \in MCReliability \cup MCHarness |-> IF p = s1 THEN a ELSE IF p = s2 THEN b ELSE j]
Right == [key |-> TRUE, reply |-> Usual]
Sure  == [key |-> TRUE, reply |-> [p \in MCPairs |-> IF p = e THEN "equivalent" ELSE "different"]]

Works(who, n, answer) == [working |-> who, shape |-> [q \in Recorders |-> n], answers |-> answer]

MCWorkloads ==
  {Works({s1, s2}, <<>>, TellThem(a, b, Sure)) : a \in MCReplies, b \in {Right, NoKey, Busy}} \cup
  {Works({s1, h1}, <<>>, TellThem(Right, NoKey, j)) : j \in MCJudgements} \cup
  {Works({p1, p2}, ThreeSteps, TellThem(Right, NoKey, Sure)),
   Works({p1, p2, f1}, One, TellThem(Right, NoKey, Sure)),
   Works({p1, s1, s2}, One, TellThem(Right, Right, Sure))}

=============================================================================
