-------------------------- MODULE BlameGraphProofs --------------------------
(***************************************************************************)
(* The analysis implements module Blame on traces of any size and shape.   *)
(* The walk up is exact because of two facts that hold at each turn: what  *)
(* was found or is pending lies in every set that is closed under parents, *)
(* and the parents of what was found are found or pending.  That nothing   *)
(* is pending then leaves one set between the two.  The walk down is exact *)
(* for the same reasons, told of the steps it started from: what it found  *)
(* or has pending has that step for a cause, and the children of what it   *)
(* found are found or pending.                                             *)
(***************************************************************************)
EXTENDS BlameGraph, FiniteSetTheorems, TLAPS

Closed(C) == Judgement!Closed(C, failedStep)

Sound == \A C \in SUBSET Ids : Closed(C) => seen \subseteq C /\ pending \cap Ids \subseteq C

Complete ==
  /\ Parents(failedStep) \cap Ids \subseteq seen \cup pending
  /\ \A s \in seen : Parents(s) \cap Ids \subseteq seen \cup pending

\* Of the walk down from current.
Below ==
  /\ current \in todo
  /\ reached \cup pending \subseteq Downstream(current)
  /\ Children(current) \subseteq reached \cup pending
  /\ \A c \in reached : Children(c) \subseteq reached \cup pending

Walking == pc = "walk" => Sound /\ Complete /\ todo = {} /\ resolving = {}
Waiting == pc = "infer" => seen = {} /\ todo = {} /\ resolving = {} /\ pending = {}
Exact == pc \in {"perturb", "descend", "done"} /\ failedStep # None => seen = Judgement!Causes(failedStep)
Tried == pc \in {"perturb", "descend"} => resolving = {n \in seen \ todo : Resolves(n)}
Descending == pc = "descend" => Below
Scored == \A n \in DOMAIN score : score[n] = Weight(n, {n} \cup Downstream(n))
Inferred ==
  /\ pc # "infer" => Judgement!IsFailedStep(failedStep)
  /\ pc \in {"walk", "perturb", "descend"} => failedStep # None
Open == pc # "done" => verdict = None

IInv == TypeOK /\ Walking /\ Waiting /\ Exact /\ Tried /\ Descending /\ Scored /\ Inferred /\ Open

-----------------------------------------------------------------------------
\* Facts about the operators

\* The weight of a step is a number: a trace with a step to perturb is not empty.
LEMMA WeightIsNatural ==
  ASSUME trace \in Traces, NEW n \in Ids, NEW S \in SUBSET Ids
  PROVE  /\ Weight(n, S) \in Nat
         /\ Cardinality(S) \in Nat
         /\ Cardinality(Ids) \in Nat \ {0}
<1>1. IsFiniteSet(Ids)
  BY TracesAssumption DEF Ids
<1>2. Cardinality(Ids) \in Nat /\ Cardinality(Ids) # 0
  BY <1>1, FS_CardinalityType, FS_EmptySet
<1>3. IsFiniteSet(S)
  BY <1>1, FS_Subset
<1>4. Cardinality(S) \in Nat
  BY <1>3, FS_CardinalityType
<1>5. (800 * Cardinality(S) + Cardinality(Ids)) \div (2 * Cardinality(Ids)) \in Nat
  <2> DEFINE a == 800 * Cardinality(S) + Cardinality(Ids)
             b == 2 * Cardinality(Ids)
  <2>1. a \in Nat /\ b \in Nat \ {0}
    BY <1>2, <1>4
  <2> HIDE DEF a, b
  <2>2. a \div b \in Nat
    BY <2>1
  <2> QED
    BY <2>2 DEF a, b
<1> QED
  BY <1>2, <1>4, <1>5 DEF Weight

\* The parents of d have among their causes only causes of d.
LEMMA CausesOfParents ==
  ASSUME NEW d, NEW p \in Ids, p \in Judgement!Parents(d), NEW n \in Judgement!Causes(p)
  PROVE  n \in Judgement!Causes(d)
<1> SUFFICES ASSUME NEW C \in SUBSET Ids, Judgement!Closed(C, d) PROVE n \in C
  BY DEF Judgement!Causes, Judgement!Ids, Ids
<1>1. p \in C
  BY DEF Judgement!Closed, Judgement!Ids, Ids
<1>2. Judgement!Closed(C, p)
  BY <1>1 DEF Judgement!Closed
<1> QED
  BY <1>2 DEF Judgement!Causes, Judgement!Ids, Ids

\* A step is upstream of its children, and of the children of those downstream.
LEMMA ChildrenAreDownstream ==
  ASSUME NEW n \in Ids, NEW c \in {n} \cup Downstream(n)
  PROVE  Children(c) \subseteq Downstream(n)
<1> SUFFICES ASSUME NEW d \in Children(c) PROVE n \in Judgement!Causes(d)
  BY DEF Downstream, Children
<1>1. d \in Ids /\ c \in Judgement!Parents(d) /\ c \in Ids
  BY DEF Children, Downstream, Judgement!Parents, Judgement!Ids, Ids
<1>2. CASE c = n
  BY <1>1, <1>2 DEF Judgement!Causes, Judgement!Closed, Judgement!Ids, Ids
<1>3. CASE c \in Downstream(n)
  BY <1>1, <1>3, CausesOfParents DEF Downstream
<1> QED
  BY <1>2, <1>3

\* What has n for a cause lies in every set that has the children of n and of its
\* members.
LEMMA DownstreamIsLeast ==
  ASSUME NEW n \in Ids, NEW C \in SUBSET Ids,
         \A c \in {n} \cup C : Children(c) \subseteq C
  PROVE  Downstream(n) \subseteq C
<1> SUFFICES ASSUME NEW d \in Ids, n \in Judgement!Causes(d), d \notin C
             PROVE  FALSE
  BY DEF Downstream
<1> DEFINE D == Ids \ ({n} \cup C)
<1>1. \A e \in {d} \cup D, p \in Ids : p \in Judgement!Parents(e) => p \in D
  <2> SUFFICES ASSUME NEW e \in {d} \cup D, NEW p \in Ids, p \in Judgement!Parents(e),
                      p \in {n} \cup C
               PROVE  FALSE
    OBVIOUS
  <2>1. e \in Children(p)
    BY DEF Children, Judgement!Parents, Judgement!Ids, Ids
  <2>2. e \in C
    BY <2>1
  <2> QED
    BY <2>2
<1>2. Judgement!Closed(D, d)
  BY <1>1 DEF Judgement!Closed, Judgement!Ids, Ids
<1>3. n \in D
  BY <1>2 DEF Judgement!Causes, Judgement!Ids, Ids
<1> QED
  BY <1>3

\* What is downstream of a step downstream of m is downstream of m.
LEMMA DownstreamNests ==
  ASSUME NEW m \in Ids, NEW n \in Downstream(m)
  PROVE  Downstream(n) \subseteq Downstream(m)
<1>1. n \in Ids /\ Downstream(m) \in SUBSET Ids
  BY DEF Downstream
<1>2. \A c \in {n} \cup Downstream(m) : Children(c) \subseteq Downstream(m)
  BY ChildrenAreDownstream
<1> QED
  BY <1>1, <1>2, DownstreamIsLeast

LEMMA DivMonotone ==
  ASSUME NEW a \in Nat, NEW b \in Nat, NEW c \in Nat \ {0}, a <= b
  PROVE  a \div c <= b \div c
<1> DEFINE q == a \div c
           r == b \div c
<1>1. q \in Nat /\ r \in Nat
  OBVIOUS
<1>2. a >= c * q /\ b < c * (r + 1)
  OBVIOUS
<1> HIDE DEF q, r
<1>3. c * q < c * (r + 1)
  BY <1>1, <1>2
<1>4. ~(q >= r + 1)
  BY <1>1, <1>3
<1> QED
  BY <1>1, <1>4 DEF q, r

\* A score depends only on the run that is analyzed.
LEMMA ScoreFixed ==
  ASSUME UNCHANGED <<trace, failing, fixes>>
  PROVE  \A m : /\ Weight(m, {m} \cup Downstream(m))' = Weight(m, {m} \cup Downstream(m))
                /\ Downstream(m)' = Downstream(m)
                /\ Children(m)' = Children(m)
BY DEF Weight, Resolves, Downstream, Children, Ids, Judgement!Causes, Judgement!Closed,
       Judgement!Parents, Judgement!Ids

-----------------------------------------------------------------------------
\* The invariant

LEMMA InitIInv == Init => IInv
BY NoneAssumption DEF Init, IInv, TypeOK, Walking, Waiting, Exact, Tried, Descending, Scored, Inferred, Open, Ids

LEMMA InferIInv ==
  ASSUME IInv, NEW f \in Ids \cup {asked}, Infer(f)
  PROVE  IInv'
<1> USE DEF Infer
<1>1. f \in Nat \cup {None} /\ Parents(f) \subseteq Nat
  BY TracesAssumption, AskedAssumption DEF IInv, TypeOK, Ids, Parents
<1>2. seen = {} /\ todo = {} /\ resolving = {} /\ DOMAIN score = {} /\ verdict = None /\ pending = {}
  BY DEF IInv, Waiting, TypeOK, Open
<1>3. TypeOK'
  <2>1. verdict' \in Verdicts \cup {None} /\ pending' \subseteq Nat
    <3>1. [failed |-> None, root |-> None, sure |-> FALSE] \in Verdicts
      BY DEF Verdicts
    <3>2. verdict' \in {None, [failed |-> None, root |-> None, sure |-> FALSE]}
      BY <1>2
    <3> QED
      BY <1>1, <1>2, <3>1, <3>2
  <2>2. pc' \in {"done", "walk"}
    OBVIOUS
  <2>3. DOMAIN score' = IF pc' \in {"infer", "walk"} THEN {} ELSE seen' \ todo'
    BY <1>2
  <2>4. trace' \in Traces /\ failing' \subseteq Ids' /\ asked' \in Asked
    BY DEF IInv, TypeOK, Ids
  <2>5. seen' = {} /\ todo' = {} /\ resolving' = {} /\ DOMAIN score' = {}
    BY <1>2
  <2>6. failedStep' \in Nat \cup {None} /\ pc' \in {"infer", "walk", "perturb", "descend", "done"}
    BY <1>1, <2>2
  <2>7. current' \in Nat \cup {None} /\ reached' \subseteq Ids'
    BY DEF IInv, TypeOK, Ids, down
  <2> QED
    BY <2>1, <2>3, <2>4, <2>5, <2>6, <2>7 DEF TypeOK
<1>4. Walking'
  BY <1>2 DEF Walking, Sound, Complete, Closed, Judgement!Closed, Judgement!Parents, Judgement!Ids,
              Parents, Ids
<1>5. Judgement!IsFailedStep(f)
  <2>1. CASE asked # None
    BY <2>1 DEF Judgement!IsFailedStep
  <2>2. CASE asked = None
    BY <2>2 DEF Judgement!IsFailedStep, IsInferred, IsGreatest, Judgement!IsGreatest
  <2> QED
    BY <2>1, <2>2
<1>6. Inferred'
  BY <1>5 DEF Inferred, Judgement!IsFailedStep, Judgement!IsGreatest
<1>7. Waiting' /\ Exact' /\ Tried' /\ Descending' /\ Scored' /\ Open'
  BY <1>2 DEF Waiting, Exact, Tried, Descending, Scored, Open
<1> QED
  BY <1>3, <1>4, <1>6, <1>7 DEF IInv

LEMMA VisitIInv ==
  ASSUME IInv, NEW n \in pending, Visit(n)
  PROVE  IInv'
<1> USE DEF Visit
<1>1. pending \subseteq Nat /\ trace \in Traces
  BY DEF IInv, TypeOK
<1>2. Parents(n) \subseteq Nat
  BY <1>1, TracesAssumption DEF Parents, Ids
<1>3. TypeOK'
  BY <1>2 DEF IInv, TypeOK, Ids, down
<1>4. Sound'
  <2> SUFFICES ASSUME NEW C \in SUBSET Ids, Closed(C)
               PROVE  seen' \subseteq C /\ pending' \cap Ids \subseteq C
    BY DEF Sound, Ids, Closed, Judgement!Closed, Judgement!Parents, Judgement!Ids
  <2>1. seen \subseteq C /\ pending \cap Ids \subseteq C
    BY DEF IInv, Walking, Sound
  <2>2. n \in Ids => Parents(n) \cap Ids \subseteq C
    BY <2>1 DEF Closed, Judgement!Closed, Judgement!Parents, Judgement!Ids, Parents, Ids
  <2> QED
    BY <2>1, <2>2
<1>5. Complete'
  BY DEF IInv, Walking, Complete, Parents, Ids
<1>6. Walking'
  BY <1>4, <1>5 DEF IInv, Walking
<1>7. Inferred'
  BY DEF IInv, Inferred, Judgement!IsFailedStep, Judgement!IsGreatest
<1>8. Scored'
  BY ScoreFixed DEF IInv, Scored
<1>9. Waiting' /\ Exact' /\ Tried' /\ Descending' /\ Open'
  BY DEF IInv, Waiting, Exact, Tried, Descending, Open
<1> QED
  BY <1>3, <1>6, <1>7, <1>8, <1>9 DEF IInv

\* When nothing is pending, what was seen is the least closed set.
LEMMA WalkExact ==
  ASSUME IInv, pc = "walk", pending = {}
  PROVE  seen = Judgement!Causes(failedStep)
<1>1. Sound /\ Complete /\ seen \subseteq Ids
  BY DEF IInv, Walking, TypeOK
<1>2. Closed(seen)
  BY <1>1 DEF Complete, Closed, Judgement!Closed, Judgement!Parents, Judgement!Ids, Parents, Ids
<1>3. Judgement!Causes(failedStep) \subseteq seen
  BY <1>1, <1>2 DEF Judgement!Causes, Closed, Judgement!Ids, Ids
<1>4. seen \subseteq Judgement!Causes(failedStep)
  BY <1>1 DEF Sound, Judgement!Causes, Closed, Judgement!Ids, Ids
<1> QED
  BY <1>3, <1>4

LEMMA WalkedIInv ==
  ASSUME IInv, Walked
  PROVE  IInv'
<1> USE DEF Walked
<1>1. seen = Judgement!Causes(failedStep)
  BY WalkExact
<1>2. TypeOK'
  BY DEF IInv, TypeOK, Ids, down
<1>3. Exact'
  BY <1>1 DEF Exact, Judgement!Causes, Judgement!Closed, Judgement!Parents, Judgement!Ids
<1>4. Tried'
  BY DEF IInv, Walking, Tried
<1>5. Inferred'
  BY DEF IInv, Inferred, Judgement!IsFailedStep, Judgement!IsGreatest
<1>6. Scored'
  BY ScoreFixed DEF IInv, Scored
<1>7. Waiting' /\ Walking' /\ Descending' /\ Open'
  BY DEF IInv, Waiting, Walking, Descending, Open
<1> QED
  BY <1>2, <1>3, <1>4, <1>5, <1>6, <1>7 DEF IInv

LEMMA ReplayIInv ==
  ASSUME IInv, NEW n \in todo, Replay(n)
  PROVE  IInv'
<1> USE DEF Replay
<1>1. n \in Ids /\ n \in seen /\ trace \in Traces
  BY DEF IInv, TypeOK
<1>2. Children(n) \subseteq Downstream(n) /\ Children(n) \subseteq Nat
  BY <1>1, ChildrenAreDownstream, TracesAssumption DEF Children, Ids
<1>3. TypeOK'
  BY <1>1, <1>2, TracesAssumption DEF IInv, TypeOK, Ids
<1>4. Descending'
  BY <1>2, ScoreFixed DEF Descending, Below
<1>5. Tried'
  BY DEF IInv, Tried, Resolves
<1>6. Scored'
  BY ScoreFixed DEF IInv, Scored
<1>7. Exact'
  BY DEF IInv, Exact, Judgement!Causes, Judgement!Closed, Judgement!Parents, Judgement!Ids
<1>8. Inferred'
  BY DEF IInv, Inferred, Judgement!IsFailedStep, Judgement!IsGreatest
<1>9. Waiting' /\ Walking' /\ Open'
  BY DEF IInv, Waiting, Walking, Open
<1> QED
  BY <1>3, <1>4, <1>5, <1>6, <1>7, <1>8, <1>9 DEF IInv

LEMMA DescendIInv ==
  ASSUME IInv, NEW d \in pending, Descend(d)
  PROVE  IInv'
<1> USE DEF Descend
<1>1. Below /\ trace \in Traces /\ current \in Ids
  BY DEF IInv, Descending, Below, TypeOK
<1>2. d \in Downstream(current) /\ d \in Ids
  BY <1>1 DEF Below, Downstream
<1>3. Children(d) \subseteq Downstream(current) /\ Children(d) \subseteq Nat
  BY <1>1, <1>2, ChildrenAreDownstream, TracesAssumption DEF Children, Ids
<1>4. TypeOK'
  BY <1>2, <1>3 DEF IInv, TypeOK, Ids
<1>5. Below'
  <2>1. current' \in todo' /\ reached' \cup pending' \subseteq Downstream(current)
    BY <1>1, <1>2, <1>3 DEF Below
  <2>2. \A m \in {current} \cup reached' : Children(m) \subseteq reached' \cup pending'
    BY <1>1 DEF Below
  <2>3. Downstream(current)' = Downstream(current)
    BY DEF Downstream, Ids, Judgement!Causes, Judgement!Closed, Judgement!Parents, Judgement!Ids
  <2>4. \A m \in {current} \cup reached' : Children(m)' = Children(m)
    BY DEF Children, Ids
  <2>5. Children(current)' = Children(current)
    BY DEF Children, Ids
  <2>6. (\A m \in reached : Children(m) \subseteq reached \cup pending)'
    BY <2>2, <2>4
  <2> QED
    BY <2>1, <2>2, <2>3, <2>5, <2>6 DEF Below
<1>6. Descending'
  BY <1>5 DEF Descending
<1>7. Tried'
  BY DEF IInv, Tried, Resolves
<1>8. Scored'
  BY ScoreFixed DEF IInv, Scored
<1>9. Exact'
  BY DEF IInv, Exact, Judgement!Causes, Judgement!Closed, Judgement!Parents, Judgement!Ids
<1>10. Inferred'
  BY DEF IInv, Inferred, Judgement!IsFailedStep, Judgement!IsGreatest
<1>11. Waiting' /\ Walking' /\ Open'
  BY DEF IInv, Waiting, Walking, Open
<1> QED
  BY <1>4, <1>6, <1>7, <1>8, <1>9, <1>10, <1>11 DEF IInv

\* When nothing is pending, what was reached is all that is downstream.
LEMMA DescentExact ==
  ASSUME IInv, pc = "descend", pending = {}
  PROVE  reached = Downstream(current)
<1>1. Below /\ current \in Ids /\ reached \in SUBSET Ids
  BY DEF IInv, Descending, Below, TypeOK
<1>2. \A c \in {current} \cup reached : Children(c) \subseteq reached
  BY <1>1 DEF Below
<1>3. Downstream(current) \subseteq reached
  BY <1>1, <1>2, DownstreamIsLeast
<1> QED
  BY <1>1, <1>3 DEF Below

LEMMA WeighIInv ==
  ASSUME IInv, Weigh
  PROVE  IInv'
<1> USE DEF Weigh
<1>1. current \in todo /\ current \in seen /\ current \in Ids /\ trace \in Traces
  BY DEF IInv, Descending, Below, TypeOK
<1>2. reached = Downstream(current)
  BY DescentExact
<1>3. Weight(current, {current} \cup reached) \in Nat
  BY <1>1, <1>2, WeightIsNatural DEF Downstream
<1>4. TypeOK'
  BY <1>1, <1>3 DEF IInv, TypeOK, Ids, down
<1>5. Tried'
  BY <1>1 DEF IInv, Tried, Resolves
<1>6. Scored'
  BY <1>2, ScoreFixed DEF IInv, Scored
<1>7. Exact'
  BY DEF IInv, Exact, Judgement!Causes, Judgement!Closed, Judgement!Parents, Judgement!Ids
<1>8. Inferred'
  BY DEF IInv, Inferred, Judgement!IsFailedStep, Judgement!IsGreatest
<1>9. Waiting' /\ Walking' /\ Descending' /\ Open'
  BY DEF IInv, Waiting, Walking, Descending, Open
<1> QED
  BY <1>4, <1>5, <1>6, <1>7, <1>8, <1>9 DEF IInv

LEMMA ConcludeIInv ==
  ASSUME IInv, NEW r \in resolving \cup {None}, Conclude(r)
  PROVE  IInv'
<1> USE DEF Conclude
<1>1. r \in Nat \cup {None}
  BY TracesAssumption DEF IInv, TypeOK, Ids
<1>2. TypeOK'
  BY <1>1 DEF IInv, TypeOK, Verdicts, Ids, down
<1>3. Exact'
  BY DEF IInv, Exact, Judgement!Causes, Judgement!Closed, Judgement!Parents, Judgement!Ids
<1>4. Inferred'
  BY DEF IInv, Inferred, Judgement!IsFailedStep, Judgement!IsGreatest
<1>5. Scored'
  BY ScoreFixed DEF IInv, Scored
<1>6. Waiting' /\ Walking' /\ Tried' /\ Descending' /\ Open'
  BY DEF Waiting, Walking, Tried, Descending, Open
<1> QED
  BY <1>2, <1>3, <1>4, <1>5, <1>6 DEF IInv

LEMMA NextIInv == IInv /\ [Next]_vars => IInv'
<1> SUFFICES ASSUME IInv, [Next]_vars PROVE IInv'
  OBVIOUS
<1>1. CASE UNCHANGED vars
  <2>1. TypeOK' /\ Waiting' /\ Open' /\ Tried'
    BY <1>1 DEF vars, down, IInv, TypeOK, Ids, Waiting, Open, Tried, Resolves
  <2>2. Walking' /\ Exact'
    BY <1>1 DEF vars, IInv, Walking, Sound, Complete, Closed, Exact, Judgement!Causes,
                Judgement!Closed, Judgement!Parents, Judgement!Ids, Parents, Ids
  <2>3. Scored' /\ Inferred'
    BY <1>1, ScoreFixed DEF vars, IInv, Scored, Inferred, Judgement!IsFailedStep,
                            Judgement!IsGreatest
  <2>4. Descending'
    BY <1>1, ScoreFixed DEF vars, down, IInv, Descending, Below
  <2> QED
    BY <2>1, <2>2, <2>3, <2>4 DEF IInv
<1> QED
  BY <1>1, InferIInv, VisitIInv, WalkedIInv, ReplayIInv, DescendIInv, WeighIInv, ConcludeIInv
     DEF Next

LEMMA Invariance == Spec => []IInv
BY InitIInv, NextIInv, PTL DEF Spec

-----------------------------------------------------------------------------
\* The theorems

\* Type correctness: among the rest, the candidates are steps of the trace, each
\* is scored once, and the scores of the analysis (root_cause.py:227-257) are
\* numbers, whatever the trace.
THEOREM TypeCorrect == Spec => []TypeOK
BY Invariance, PTL DEF IInv

\* Every step the verdict scores comes before the failure, in every recorded run
\* (root_cause.py:115-126 follows causal_parents, which point back).
THEOREM BlamePrecedes == Spec => []BlamePrecedesFailure
<1>1. IInv => BlamePrecedesFailure
  <2> SUFFICES ASSUME IInv, Recorded, failedStep # None, NEW n \in DOMAIN score
               PROVE  n < failedStep
    BY DEF BlamePrecedesFailure
  <2>1. n \in Judgement!Causes(failedStep)
    BY DEF IInv, TypeOK, Exact
  <2>2. failedStep \in Nat /\ Ids \subseteq Nat
    BY TracesAssumption DEF IInv, TypeOK, Ids
  <2> DEFINE C == {p \in Ids : p < failedStep}
  <2>3. Judgement!Closed(C, failedStep)
    BY <2>2 DEF Recorded, Judgement!Closed, Judgement!Parents, Judgement!Ids, Ids
  <2> QED
    BY <2>1, <2>3 DEF Judgement!Causes, Judgement!Ids, Ids
<1> QED
  BY <1>1, Invariance, PTL

\* The walk down of each replay has reached, when it ends, exactly the steps that
\* the perturbed one is a cause of, and the failed step among them: it mirrors the
\* walk up (root_cause.py:115-126 and 129-151), on circular traces too.
THEOREM WalksAgree == Spec => []WalksMirror
<1>1. IInv => WalksMirror
  <2> SUFFICES ASSUME IInv, pc = "descend", pending = {}
               PROVE  /\ reached = Downstream(current)
                      /\ failedStep \in Ids => failedStep \in reached
    BY DEF WalksMirror
  <2>1. reached = Downstream(current)
    BY DescentExact
  <2>2. current \in Judgement!Causes(failedStep)
    BY DEF IInv, Inferred, Exact, TypeOK, Descending, Below
  <2> QED
    BY <2>1, <2>2 DEF Downstream
<1> QED
  BY <1>1, Invariance, PTL

\* Among steps that resolve nothing, blame does not grow downstream
\* (root_cause.py:159-176 and 239-250).
THEOREM BlameGrowsUpstream == Spec => []UpstreamWeighsMore
<1>1. IInv => UpstreamWeighsMore
  <2> SUFFICES ASSUME IInv, NEW m \in DOMAIN score, NEW n \in DOMAIN score,
                      n \in Downstream(m), score[n] < 1000
               PROVE  score[m] >= score[n]
    BY DEF UpstreamWeighsMore
  <2> DEFINE S == {m} \cup Downstream(m)
             T == {n} \cup Downstream(n)
  <2>1. m \in Ids /\ n \in Ids /\ trace \in Traces
    BY DEF IInv, TypeOK
  <2>2. score[m] = Weight(m, S) /\ score[n] = Weight(n, T) /\ score[n] \in Nat
    BY DEF IInv, Scored, TypeOK
  <2>3. S \in SUBSET Ids /\ T \in SUBSET S
    BY <2>1, DownstreamNests DEF Downstream
  <2> HIDE DEF S, T
  <2>4. CASE Resolves(m)
    BY <2>2, <2>4 DEF Weight
  <2>5. CASE ~Resolves(m)
    <3>1. /\ Cardinality(S) \in Nat /\ Cardinality(T) \in Nat
          /\ Cardinality(Ids) \in Nat \ {0}
      BY <2>1, <2>3, WeightIsNatural
    <3>2. IsFiniteSet(S)
      BY <2>1, <2>3, TracesAssumption, FS_Subset DEF Ids
    <3>3. Cardinality(T) <= Cardinality(S)
      BY <2>3, <3>2, FS_Subset
    <3> DEFINE a == 800 * Cardinality(T) + Cardinality(Ids)
               b == 800 * Cardinality(S) + Cardinality(Ids)
               c == 2 * Cardinality(Ids)
    <3>4. a \in Nat /\ b \in Nat /\ c \in Nat \ {0} /\ a <= b
      BY <3>1, <3>3
    <3>5. ~Resolves(n)
      BY <2>2 DEF Weight
    <3>6. score[n] = 200 + a \div c /\ score[m] = 200 + b \div c
      BY <2>2, <2>5, <3>5 DEF Weight
    <3> HIDE DEF a, b, c
    <3>7. a \div c <= b \div c /\ a \div c \in Nat /\ b \div c \in Nat
      BY <3>4, DivMonotone
    <3> QED
      BY <3>6, <3>7
  <2> QED
    BY <2>4, <2>5
<1> QED
  BY <1>1, Invariance, PTL

\* The verdict of the analysis is the one module Blame defines: the earliest
\* cause whose correction prevents the failure (root_cause.py:218-271).
THEOREM ImplementsBlame == Spec => BlamesTheCause
<1>1. Init => Judgement!Init
  BY DEF Init, Judgement!Init, Judgement!Ids, Ids
<1>2. IInv /\ [Next]_vars => [Judgement!Next]_(Judgement!vars)
  <2> SUFFICES ASSUME IInv, [Next]_vars PROVE [Judgement!Next]_(Judgement!vars)
    OBVIOUS
  <2> USE DEF Judgement!vars
  <2>1. CASE UNCHANGED vars
    BY <2>1 DEF vars
  <2>2. ASSUME NEW f \in Ids \cup {asked}, Infer(f) PROVE [Judgement!Next]_(Judgement!vars)
    <3>1. CASE f # None
      BY <2>2, <3>1 DEF Infer
    <3>2. CASE f = None
      <4>1. asked = None /\ failing = {} /\ verdict = None
        BY <2>2, <3>2, TracesAssumption, NoneAssumption
           DEF Infer, IsInferred, IsGreatest, IInv, TypeOK, Ids, Open
      <4>2. Judgement!Judge(None, None)
        BY <2>2, <3>2, <4>1 DEF Infer, Judgement!Judge, Judgement!IsFailedStep
      <4> QED
        BY <4>1, <4>2 DEF Judgement!Next
    <3> QED
      BY <3>1, <3>2
  <2>3. ASSUME NEW n \in pending, Visit(n) PROVE [Judgement!Next]_(Judgement!vars)
    BY <2>3 DEF Visit
  <2>4. CASE Walked
    BY <2>4 DEF Walked
  <2>5. ASSUME NEW n \in todo, Replay(n) PROVE [Judgement!Next]_(Judgement!vars)
    BY <2>5 DEF Replay
  <2>7. ASSUME NEW d \in pending, Descend(d) PROVE [Judgement!Next]_(Judgement!vars)
    BY <2>7 DEF Descend
  <2>8. CASE Weigh
    BY <2>8 DEF Weigh
  <2>6. ASSUME NEW r \in resolving \cup {None}, Conclude(r) PROVE Judgement!Next
    <3>1. pc = "perturb" /\ todo = {} /\ failedStep # None /\ verdict = None
      BY <2>6 DEF Conclude, IInv, Inferred, Open
    <3>2. resolving = Judgement!Culprits(failedStep)
      BY <3>1 DEF IInv, Tried, Exact, Resolves, Judgement!Culprits
    <3>3. Judgement!IsFailedStep(failedStep) /\ failedStep \in Ids \cup {asked}
      BY <3>1 DEF IInv, Inferred, Judgement!IsFailedStep, Judgement!IsGreatest, TypeOK
    <3>4. Judgement!IsRoot(r, Judgement!Culprits(failedStep))
      BY <2>6, <3>2 DEF Conclude, IsRoot, IsLeast, Judgement!IsRoot, Judgement!IsLeast
    <3>5. Judgement!Judge(failedStep, r)
      BY <2>6, <3>1, <3>2, <3>3, <3>4 DEF Conclude, Judgement!Judge
    <3>6. r \in Ids \cup {None}
      BY DEF IInv, TypeOK
    <3> QED
      BY <3>3, <3>5, <3>6 DEF Judgement!Next, Judgement!Ids, Ids
  <2> QED
    BY <2>1, <2>2, <2>3, <2>4, <2>5, <2>6, <2>7, <2>8 DEF Next
<1> QED
  BY <1>1, <1>2, Invariance, PTL DEF Spec, BlamesTheCause, Judgement!Spec

=============================================================================
