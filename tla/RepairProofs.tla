---------------------------- MODULE RepairProofs ----------------------------
(***************************************************************************)
(* What a counterfactual repair may claim, for any documents, any number   *)
(* of variants, and whoever else records the run meanwhile.                *)
(***************************************************************************)
EXTENDS Repair, FiniteSetTheorems, SequenceTheorems, TLAPS

Numbered(d) ==
  /\ Len(d.steps) \in Nat
  /\ DOMAIN d.steps = 1 .. Len(d.steps)
  /\ \A i \in DOMAIN d.steps : d.steps[i].id \in Nat

LEMMA DocNumbered ==
  ASSUME NEW d, IsDoc(d)
  PROVE  Numbered(d)
<1> DEFINE S == {d.steps[i] : i \in DOMAIN d.steps}
<1>1. d.steps \in Seq(S)
  BY DEF IsDoc
<1> HIDE DEF S
<1>2. Len(d.steps) \in Nat /\ DOMAIN d.steps = 1 .. Len(d.steps)
  BY <1>1
<1> QED
  BY <1>2 DEF Numbered, IsDoc, IsStep

\* Whatever a reader finds has numbered steps.
LEMMA ReadingsNumbered ==
  ASSUME setting \in Settings, NEW d \in Readings
  PROVE  d # None => Numbered(d)
<1>1. CASE d \in setting.docs
  BY <1>1, DocNumbered, SettingsAssumption
<1>2. ASSUME NEW e \in setting.docs, NEW n \in 0 .. Len(e.steps),
             d = [forkedAt |-> e.forkedAt, steps |-> SubSeq(e.steps, 1, n)]
      PROVE  Numbered(d)
  <2>1. Numbered(e)
    BY DocNumbered, SettingsAssumption
  <2> DEFINE S == {e.steps[i] : i \in DOMAIN e.steps}
  <2>2. \A i \in 1 .. n : i \in DOMAIN e.steps /\ e.steps[i] \in S
    BY <2>1 DEF Numbered
  <2>3. n \in Int
    BY <2>1 DEF Numbered
  <2> HIDE DEF S
  <2>4. /\ SubSeq(e.steps, 1, n) \in Seq(S)
        /\ Len(SubSeq(e.steps, 1, n)) = n
        /\ \A i \in 1 .. n : SubSeq(e.steps, 1, n)[i] = e.steps[i]
    <3>1. \A i \in 1 .. n : e.steps[i] \in S
      BY <2>2
    <3>2. /\ SubSeq(e.steps, 1, n) \in Seq(S)
          /\ Len(SubSeq(e.steps, 1, n)) = IF 1 <= n THEN n - 1 + 1 ELSE 0
          /\ \A i \in 1 .. n - 1 + 1 : SubSeq(e.steps, 1, n)[i] = e.steps[1 + i - 1]
      BY <2>3, <3>1, SubSeqProperties
    <3> QED
      BY <2>1, <2>3, <3>2 DEF Numbered
  <2>5. DOMAIN d.steps = 1 .. n /\ Len(d.steps) = n
    BY <2>4, <1>2
  <2> QED
    BY <2>1, <2>2, <2>3, <2>4, <2>5, <1>2 DEF Numbered
<1> QED
  BY <1>1, <1>2 DEF Readings

LEMMA IdsFinite ==
  ASSUME NEW d, Numbered(d)
  PROVE  IsFiniteSet(Ids(d)) /\ \A T \in SUBSET Ids(d) : Cardinality(T) \in Nat
<1> DEFINE f == [i \in 1 .. Len(d.steps) |-> d.steps[i].id]
<1>1. f \in Surjection(1 .. Len(d.steps), Ids(d))
  BY DEF Numbered, Ids, Surjection
<1>2. IsFiniteSet(Ids(d))
  BY <1>1, FS_NatSurjection DEF Numbered, ExistsSurjection
<1> QED
  BY <1>2, FS_Subset, FS_CardinalityType

LEMMA CountsType ==
  ASSUME NEW d, Numbered(d), NEW k, NEW text,
         IsFiniteSet(DOMAIN base.outputs)
  PROVE  StepsScripted(d, k) \in Nat /\ StepsChanged(ForkOutput(d, k, text)) \in Nat
<1>1. StepsScripted(d, k) \in Nat
  BY IdsFinite DEF StepsScripted
<1> DEFINE A == DOMAIN base.outputs
           B == DOMAIN ForkOutput(d, k, text)
           C == {n \in A \cup B :
                  n \in A \cap B => base.outputs[n] # ForkOutput(d, k, text)[n]}
<1>2. IsFiniteSet(B)
  <2>1. B \in SUBSET Ids(d)
    BY DEF ForkOutput, Kept, Ids
  <2> QED
    BY <2>1, IdsFinite, FS_Subset
<1>3. IsFiniteSet(A \cup B)
  BY <1>2, FS_Union
<1>4. C \in SUBSET (A \cup B)
  OBVIOUS
<1>5. IsFiniteSet(C)
  BY <1>3, <1>4, FS_Subset
<1>6. Cardinality(C) \in Nat
  BY <1>5, FS_CardinalityType
<1> QED
  BY <1>1, <1>6 DEF StepsChanged

-----------------------------------------------------------------------------
\* Where the request is in what it does: what it has read, that the verdict of the
\* baseline is that of the document read for it, and that a fork precedes the
\* variant it is judged as.
Phase ==
  /\ pc \in {"idle", "baseline", "replay", "generate"} => variants = <<>> /\ forks = <<>>
  /\ pc = "idle" => doc = None /\ judged = None
  /\ pc \in {"baseline", "replay", "generate", "try", "done"} => doc # None /\ step # None
  /\ pc = "baseline" => judged = None
  /\ pc = "replay" => judged # None /\ ~Scripted
  /\ pc \in {"generate", "try", "done"} =>
       IF Scripted THEN base.failed = Failed(doc)
       ELSE judged # None /\ base.failed = Failed(judged)
  /\ Scripted => forks = <<>>
  /\ ~Scripted => Len(variants) <= Len(forks)
  /\ ~Scripted /\ pc \in {"try", "done"} => Len(forks) = Len(variants)

Typed == TypeOK /\ Phase

LEMMA InitTyped == Init => Typed
<1> SUFFICES ASSUME Init PROVE Typed
  OBVIOUS
<1>1. TypeOK
  BY DEF Init, TypeOK, Readings, Pcs
<1>2. Phase
  BY DEF Init, Phase
<1> QED
  BY <1>1, <1>2 DEF Typed

LEMMA FailedType ==
  ASSUME NEW d
  PROVE  Failed(d) \in BOOLEAN
BY DEF Failed

\* One variant more, or the request is refused.
LEMMA JudgeTyped ==
  ASSUME Typed, pc = "try", left > 0, NEW ok \in BOOLEAN, NEW changed \in Nat, Judge(ok, changed)
  PROVE  /\ variants' \in Seq(Variants)
         /\ left' \in Nat
         /\ pc' \in {"try", "refused"}
         /\ UNCHANGED <<doc, step, judged, base, ranking>>
         /\ pc' = "try" => Len(variants') = Len(variants) + 1
         /\ pc' = "refused" => variants' = variants
<1> USE DEF Typed, TypeOK
<1>1. CASE Refuse
  BY <1>1 DEF Refuse
<1>2. ASSUME NEW resolved \in Verdicts(ok),
             variants' = Append(variants, [resolved |-> resolved, score |-> Score(resolved, changed)]),
             left' = left - 1,
             UNCHANGED <<pc, doc, step, judged, base, ranking>>
      PROVE  /\ variants' \in Seq(Variants)
             /\ left' \in Nat
             /\ Len(variants') = Len(variants) + 1
  <2>1. resolved \in BOOLEAN
    BY DEF Verdicts
  <2>2. Score(resolved, changed) \in 0 .. 1000
    BY <2>1 DEF Score
  <2>3. [resolved |-> resolved, score |-> Score(resolved, changed)] \in Variants
    BY <2>1, <2>2 DEF Variants
  <2> QED
    BY <1>2, <2>3
<1> QED
  BY <1>1, <1>2 DEF Judge

LEMMA NextTyped == Typed /\ [Next]_vars => Typed'
<1> SUFFICES ASSUME Typed, [Next]_vars PROVE Typed'
  OBVIOUS
<1> USE DEF Typed
<1>1. CASE UNCHANGED vars
  BY <1>1 DEF TypeOK, Phase, vars, request, Readings, Scripted
<1>2. CASE Rerecord
  BY <1>2 DEF Rerecord, request, TypeOK, Phase, Readings, Scripted
<1>3. ASSUME Request, UNCHANGED <<setting, hint, run>> PROVE Typed'
  <2>0. Readings' = Readings /\ Scripted' = Scripted
    BY <1>3 DEF Readings, Scripted
  <2>1. ASSUME NEW asked \in Asked, Receive(asked) PROVE Typed'
    <3>1. CASE run = None /\ Refuse
      BY <2>1, <3>1, <1>3, <2>0 DEF Receive, Refuse, TypeOK, Phase, Pcs
    <3>2. CASE doc' = run /\ run # None
      <4>1. \E k \in {asked, 1} \cup hint : IsTarget(k, asked) /\ step' = k
        BY <2>1, <3>2 DEF Receive, Refuse, Phase
      <4>2. step' \in Nat
        BY <4>1, AskedAssumption, HintsAssumption DEF IsTarget, IsLeast, TypeOK
      <4>3. step' # None
        BY <4>2, NoneAssumption
      <4>4. pc' = "baseline" /\ UNCHANGED <<judged, base, left, variants, forks, ranking>>
        BY <2>1, <3>2 DEF Receive, Refuse, Phase
      <4> QED
        BY <2>1, <3>2, <4>2, <4>3, <4>4, <1>3, <2>0 DEF Receive, TypeOK, Phase, Pcs
    <3> QED
      BY <2>1, <3>1, <3>2 DEF Receive
  <2>2. CASE BaselineScripted
    <3>1. base'.outputs = <<>> /\ base'.failed = Failed(doc)
      BY <2>2 DEF BaselineScripted
    <3>2. IsFiniteSet(DOMAIN base'.outputs) /\ base'.failed \in BOOLEAN
      BY <3>1, FS_EmptySet, FailedType
    <3>3. pc = "baseline" /\ pc' = "generate" /\ Scripted
          /\ UNCHANGED <<doc, step, judged, left, variants, forks, ranking>>
      BY <2>2 DEF BaselineScripted
    <3> QED
      BY <3>1, <3>2, <3>3, <1>3, <2>0 DEF TypeOK, Phase, Pcs
  <2>3. CASE BaselineReads
    BY <2>3, <1>3, <2>0 DEF BaselineReads, Refuse, TypeOK, Phase, Pcs
  <2>4. CASE BaselineReplays
    <3>1. CASE Refuse
      BY <2>4, <3>1, <1>3, <2>0 DEF BaselineReplays, Refuse, TypeOK, Phase, Pcs
    <3>2. CASE ~Refuse
      <4>1. /\ base'.failed = Failed(judged)
            /\ DOMAIN base'.outputs = Ids(judged)
            /\ pc = "replay" /\ pc' = "generate"
            /\ UNCHANGED <<doc, step, judged, left, variants, forks, ranking>>
        BY <2>4, <3>2 DEF BaselineReplays
      <4>2. Numbered(judged)
        BY <4>1, ReadingsNumbered DEF TypeOK, Phase
      <4>3. IsFiniteSet(DOMAIN base'.outputs) /\ base'.failed \in BOOLEAN
        BY <4>1, <4>2, IdsFinite, FailedType
      <4> QED
        BY <4>1, <4>3, <1>3, <2>0 DEF TypeOK, Phase, Pcs
    <3> QED
      BY <3>1, <3>2
  <2>5. CASE Generate
    <3>1. left' \in Nat
      BY <2>5, BoundAssumption DEF Generate, Refuse, TypeOK
    <3> QED
      BY <2>5, <3>1, <1>3, <2>0 DEF Generate, Refuse, TypeOK, Phase, Pcs
  <2>6. CASE TryScripted
    <3>1. Numbered(doc) /\ IsFiniteSet(DOMAIN base.outputs)
      BY <2>6, ReadingsNumbered DEF TryScripted, TypeOK, Phase
    <3>2. StepsScripted(doc, step) \in Nat
      BY <3>1, CountsType
    <3>3. /\ pc = "try" /\ left > 0 /\ UNCHANGED forks
          /\ (step \in hint) \in BOOLEAN
          /\ Judge(step \in hint, StepsScripted(doc, step))
      BY <2>6 DEF TryScripted
    <3>4. /\ variants' \in Seq(Variants)
          /\ left' \in Nat
          /\ pc' \in {"try", "refused"}
          /\ UNCHANGED <<doc, step, judged, base, ranking>>
      BY <3>2, <3>3, JudgeTyped, Zenon
    <3> QED
      BY <3>3, <3>4, <2>6, <1>3, <2>0 DEF TryScripted, TypeOK, Phase, Pcs
  <2>7. ASSUME NEW text \in Texts, TryFork(text) PROVE Typed'
    <3>1. CASE ~CanFork(run, step) /\ Refuse /\ UNCHANGED forks
      BY <2>7, <3>1, <1>3, <2>0 DEF TryFork, Refuse, TypeOK, Phase, Pcs
    <3>2. CASE CanFork(run, step)
      <4>1. Numbered(run) /\ IsFiniteSet(DOMAIN base.outputs) /\ run \in Readings
        BY <2>7, <3>2, ReadingsNumbered DEF TryFork, CanFork, TypeOK
      <4>2. forks' = Append(forks, run)
        BY <2>7, <3>2 DEF TryFork
      <4>3. forks' \in Seq(Readings) /\ Len(forks') = Len(forks) + 1
        BY <4>1, <4>2 DEF TypeOK
      <4>4. /\ variants' \in Seq(Variants)
            /\ left' \in Nat
            /\ pc' \in {"try", "refused"}
            /\ UNCHANGED <<doc, step, judged, base, ranking>>
            /\ pc' = "try" => Len(variants') = Len(variants) + 1
            /\ pc' = "refused" => variants' = variants
        <5>1. CASE Refuse
          BY <5>1 DEF Refuse, TypeOK
        <5>2. CASE Judge(ForkOk(run, step), StepsChanged(ForkOutput(run, step, text)))
          <6>1. StepsChanged(ForkOutput(run, step, text)) \in Nat
            BY <4>1, CountsType
          <6>2. ForkOk(run, step) \in BOOLEAN
            BY DEF ForkOk
          <6> QED
            BY <2>7, <5>2, <6>1, <6>2, JudgeTyped DEF TryFork
        <5> QED
          BY <2>7, <3>2, <5>1, <5>2 DEF TryFork
      <4>5. Len(forks) \in Nat /\ Len(variants) \in Nat
        BY DEF TypeOK
      <4>6. TypeOK'
        BY <2>7, <4>3, <4>4, <1>3, <2>0 DEF TryFork, TypeOK, Pcs
      <4>7. Phase'
        BY <2>7, <4>3, <4>4, <4>5, <1>3, <2>0 DEF TryFork, Phase
      <4> QED
        BY <4>6, <4>7
    <3> QED
      BY <2>7, <3>1, <3>2 DEF TryFork
  <2>8. CASE Rank
    BY <2>8, <1>3, <2>0 DEF Rank, TypeOK, Phase, Pcs
  <2> QED
    BY <1>3, <2>1, <2>2, <2>3, <2>4, <2>5, <2>6, <2>7, <2>8 DEF Request
<1> QED
  BY <1>1, <1>2, <1>3 DEF Next

\* Type correctness, and with it the order of the request's parts (app.py:1217-1292).
THEOREM TypeCorrect == Spec => []TypeOK
<1>1. Spec => []Typed
  BY InitTyped, NextTyped, PTL DEF Spec
<1>2. Typed => TypeOK
  BY DEF Typed
<1> QED
  BY <1>1, <1>2, PTL

-----------------------------------------------------------------------------
\* As long as nobody else records, whatever has been read is the run.
Frozen ==
  ~setting.shared =>
    /\ run # None
    /\ doc # None => doc = run
    /\ judged # None => judged = run

LEMMA FrozenStep ==
  /\ Init => Frozen
  /\ Typed /\ Frozen /\ [Next]_vars => Frozen'
<1>1. Init => Frozen
  BY SettingsAssumption DEF Init, Frozen
<1>2. Typed /\ Frozen /\ [Next]_vars => Frozen'
  <2> SUFFICES ASSUME Typed, Frozen, [Next]_vars PROVE Frozen'
    OBVIOUS
  <2>1. CASE UNCHANGED vars
    BY <2>1 DEF Frozen, vars, request
  <2>2. CASE Rerecord
    BY <2>2 DEF Rerecord, Frozen
  <2>3. ASSUME Request, UNCHANGED <<setting, hint, run>> PROVE Frozen'
    <3>1. /\ doc' = doc \/ (doc' = run /\ run # None)
          /\ judged' = judged \/ (judged' = run /\ run # None)
      BY <2>3 DEF Request, Receive, BaselineScripted, BaselineReads, BaselineReplays,
                 Generate, TryScripted, TryFork, Judge, Rank, Refuse
    <3> QED
      BY <2>3, <3>1 DEF Frozen
  <2> QED
    BY <2>1, <2>2, <2>3 DEF Next
<1> QED
  BY <1>1, <1>2

\* A variant that counts as a repair: of what, and why.
Repairs(v, i) ==
  v.resolved =>
    /\ base.failed
    /\ IF Scripted THEN step \in hint ELSE Avoided(forks[i], step)

Resolving == \A i \in DOMAIN variants : Repairs(variants[i], i)

\* The steps of a fork that succeeds, in terms of the run it is a fork of.
LEMMA OkAvoids ==
  ASSUME NEW d, Numbered(d), NEW k \in Nat, ForkOk(d, k)
  PROVE  Avoided(d, k)
<1> SUFFICES ASSUME NEW i \in DOMAIN d.steps, d.steps[i].failed
             PROVE  d.steps[i].id > k /\ ~Beside(d.steps[i], d.steps[At(d, k)])
  BY DEF Avoided
<1>1. i \notin Kept(d, k)
  BY DEF ForkOk
<1>2. ~(d.steps[i].id <= k) /\ ~Beside(d.steps[i], d.steps[At(d, k)])
  BY <1>1 DEF Kept
<1>3. d.steps[i].id \in Nat
  BY DEF Numbered
<1> QED
  BY <1>2, <1>3

\* What a judgement adds to the variants is resolved only if the baseline failed and
\* the outcome did not.
LEMMA JudgeResolves ==
  ASSUME Typed, NEW ok \in BOOLEAN, NEW changed, Judge(ok, changed)
  PROVE  \/ variants' = variants
         \/ \E v : /\ v.resolved => base.failed /\ ok
                  /\ variants' = Append(variants, v)
<1>1. ASSUME NEW resolved \in Verdicts(ok)
      PROVE  [resolved |-> resolved, score |-> Score(resolved, changed)].resolved
               => base.failed /\ ok
  BY DEF Verdicts
<1> QED
  BY <1>1 DEF Judge, Refuse

LEMMA ResolvingStep ==
  /\ Init => Resolving
  /\ Typed /\ Resolving /\ [Next]_vars => Resolving'
<1>1. Init => Resolving
  BY DEF Init, Resolving
<1>2. Typed /\ Resolving /\ [Next]_vars => Resolving'
  <2> SUFFICES ASSUME Typed, Resolving, [Next]_vars PROVE Resolving'
    OBVIOUS
  <2>1. CASE UNCHANGED vars \/ Rerecord
    BY <2>1 DEF Rerecord, vars, request, Resolving, Repairs, Scripted, Avoided
  <2>2. ASSUME Request, UNCHANGED <<setting, hint, run>> PROVE Resolving'
    <3>0. Scripted' = Scripted /\ variants \in Seq(Variants) /\ forks \in Seq(Readings)
      BY <2>2 DEF Scripted, Typed, TypeOK
    <3>1. CASE pc \in {"idle", "baseline", "replay", "generate"}
      <4>1. variants' = <<>>
        BY <2>2, <3>1 DEF Request, Receive, BaselineScripted, BaselineReads, BaselineReplays,
             Generate, TryScripted, TryFork, Rank, Refuse, Typed, Phase
      <4> QED
        BY <4>1 DEF Resolving
    <3>2. CASE Rank
      BY <2>2, <3>2, <3>0 DEF Rank, Resolving, Repairs, Avoided
    <3>3. CASE TryScripted
      <4>1. Scripted /\ Judge(step \in hint, StepsScripted(doc, step))
            /\ UNCHANGED <<base, step, forks>>
        BY <3>3, <2>2 DEF TryScripted, Judge, Refuse
      <4>2. (step \in hint) \in BOOLEAN
        OBVIOUS
      <4>3. \/ variants' = variants
            \/ \E v : /\ v.resolved => base.failed /\ step \in hint
                     /\ variants' = Append(variants, v)
        BY <4>1, <4>2, JudgeResolves
      <4>4. CASE variants' = variants
        BY <4>1, <4>4, <2>2, <3>0 DEF Resolving, Repairs
      <4>5. ASSUME NEW v, v.resolved => base.failed /\ step \in hint,
                   variants' = Append(variants, v)
            PROVE  Resolving'
        <5>1. \A i \in DOMAIN variants' : \/ i \in DOMAIN variants /\ variants'[i] = variants[i]
                                        \/ variants'[i] = v
          BY <4>5, <3>0
        <5> QED
          BY <5>1, <4>1, <4>5, <2>2, <3>0 DEF Resolving, Repairs
      <4> QED
        BY <4>3, <4>4, <4>5
    <3>4. ASSUME NEW text \in Texts, TryFork(text) PROVE Resolving'
      <4>1. ~Scripted /\ UNCHANGED <<base, step>> /\ Len(variants) = Len(forks)
            /\ step \in Nat
        BY <3>4, <2>2 DEF TryFork, Judge, Refuse, Typed, TypeOK, Phase
      <4>2. CASE ~CanFork(run, step)
        BY <3>4, <4>1, <4>2, <2>2, <3>0 DEF TryFork, Refuse, Resolving, Repairs, Avoided
      <4>3. CASE CanFork(run, step)
        <5>1. forks' = Append(forks, run)
          BY <3>4, <4>3 DEF TryFork
        <5>2. run \in Readings /\ Numbered(run)
          BY <4>3, ReadingsNumbered DEF CanFork, Typed, TypeOK
        <5>3. \A i \in DOMAIN variants : forks'[i] = forks[i]
          BY <5>1, <5>2, <4>1, <3>0
        <5>4. \/ variants' = variants
              \/ \E v : /\ v.resolved => base.failed /\ ForkOk(run, step)
                       /\ variants' = Append(variants, v)
          <6>1. ForkOk(run, step) \in BOOLEAN
            BY DEF ForkOk
          <6>2. CASE Refuse
            BY <6>2 DEF Refuse
          <6>3. CASE Judge(ForkOk(run, step), StepsChanged(ForkOutput(run, step, text)))
            BY <6>1, <6>3, JudgeResolves
          <6> QED
            BY <3>4, <4>3, <6>2, <6>3 DEF TryFork
        <5>5. CASE variants' = variants
          BY <5>3, <5>5, <4>1, <2>2, <3>0 DEF Resolving, Repairs, Avoided
        <5>6. ASSUME NEW v, v.resolved => base.failed /\ ForkOk(run, step),
                     variants' = Append(variants, v)
              PROVE  Resolving'
          <6>1. \A i \in DOMAIN variants' :
                  \/ i \in DOMAIN variants /\ variants'[i] = variants[i]
                  \/ i = Len(forks) + 1 /\ variants'[i] = v
            BY <5>6, <4>1, <3>0
          <6>2. forks'[Len(forks) + 1] = run
            BY <5>1, <5>2, <3>0
          <6>3. ForkOk(run, step) => Avoided(run, step)
            BY <5>2, <4>1, OkAvoids
          <6> QED
            BY <6>1, <6>2, <6>3, <5>3, <5>6, <4>1, <2>2, <3>0 DEF Resolving, Repairs, Avoided
        <5> QED
          BY <5>4, <5>5, <5>6
      <4> QED
        BY <4>2, <4>3
    <3> QED
      BY <2>2, <3>1, <3>2, <3>3, <3>4 DEF Request, Receive, BaselineScripted, BaselineReads,
         BaselineReplays, Generate
  <2> QED
    BY <2>1, <2>2 DEF Next
<1> QED
  BY <1>1, <1>2

\* A winner repairs: of a run that failed, a fork that its failures are not part of
\* (counterfactual.py:254-270, app.py:1281-1283).
THEOREM WinnersRepair == Spec => []WinnerRepairs
<1>1. Spec => [](Typed /\ Frozen /\ Resolving)
  BY InitTyped, NextTyped, FrozenStep, ResolvingStep, PTL DEF Spec
<1>2. Typed /\ Frozen /\ Resolving => WinnerRepairs
  <2> SUFFICES ASSUME Typed, Frozen, Resolving, HasWinner
               PROVE  /\ base.failed
                      /\ IF Scripted THEN step \in hint ELSE Avoided(forks[ranking[1]], step)
                      /\ ~setting.shared => Failed(doc)
    BY DEF WinnerRepairs
  <2>1. ranking[1] \in DOMAIN variants
    BY DEF HasWinner, Typed, TypeOK
  <2>2. Repairs(variants[ranking[1]], ranking[1]) /\ variants[ranking[1]].resolved
    BY <2>1 DEF Resolving, HasWinner
  <2>3. base.failed /\ IF Scripted THEN step \in hint ELSE Avoided(forks[ranking[1]], step)
    BY <2>2 DEF Repairs
  <2>4. ~setting.shared => Failed(doc)
    BY <2>3 DEF Typed, Phase, Frozen, HasWinner
  <2> QED
    BY <2>3, <2>4
<1> QED
  BY <1>1, <1>2, PTL

-----------------------------------------------------------------------------
\* Offline, nobody else records, and the run is no fork: what the baseline could
\* replay each fork can, and a step that one fork has found the next one finds.
Calm == ~setting.shared /\ ~setting.llm /\ (doc # None => doc.forkedAt = None)

Clean ==
  Calm =>
    /\ pc = "refused" => forks = <<>>
    /\ pc \in {"generate", "try"} /\ ~Scripted =>
         \A i \in DOMAIN run.steps : ~run.steps[i].gone
    /\ forks # <<>> => CanFork(run, step)

LEMMA CleanStep ==
  /\ Init => Clean
  /\ Typed /\ Frozen /\ Clean /\ [Next]_vars => Clean'
<1>1. Init => Clean
  BY DEF Init, Clean
<1>2. Typed /\ Frozen /\ Clean /\ [Next]_vars => Clean'
  <2> SUFFICES ASSUME Typed, Frozen, Clean, [Next]_vars, Calm' PROVE Clean'
    BY DEF Clean
  <2>1. CASE UNCHANGED vars
    BY <2>1 DEF vars, request, Clean, Calm, CanFork, Scripted, Ids
  <2>2. CASE Rerecord
    BY <2>2 DEF Rerecord, Calm
  <2>3. ASSUME Request, UNCHANGED <<setting, hint, run>> PROVE Clean'
    <3>0. Scripted' = Scripted
      BY <2>3 DEF Scripted
    <3>1. CASE (\E asked \in Asked : Receive(asked)) \/ BaselineReads \/ BaselineScripted
      <4>1. forks' = <<>> /\ pc' \in {"refused", "baseline", "replay", "generate"}
            /\ (pc' = "generate" => Scripted)
        BY <3>1 DEF Receive, BaselineReads, BaselineScripted, Refuse, Typed, Phase
      <4> QED
        BY <4>1, <3>0 DEF Clean
    <3>2. CASE BaselineReplays
      <4>1. forks' = <<>> /\ pc = "replay" /\ UNCHANGED <<doc, judged>>
        BY <3>2 DEF BaselineReplays, Refuse, Typed, Phase
      <4>2. Calm /\ doc = run /\ judged = run /\ run.forkedAt = None
        BY <4>1, <2>3 DEF Calm, Frozen, Typed, Phase
      <4>3. Replays(run) => \A i \in DOMAIN run.steps : ~run.steps[i].gone
        BY <4>2 DEF Replays, Synthesized
      <4>4. pc' # "refused" => Replays(run)
        BY <3>2 DEF BaselineReplays, Refuse
      <4>5. pc' \in {"refused", "generate"}
        BY <3>2 DEF BaselineReplays, Refuse
      <4> QED
        BY <4>1, <4>3, <4>4, <4>5, <2>3 DEF Clean
    <3>3. CASE Generate
      <4>1. pc = "generate" /\ pc' = "try" /\ UNCHANGED <<doc, step, forks>> /\ Calm
        BY <3>3, <2>3 DEF Generate, Refuse, ModelFails, Calm
      <4> QED
        BY <4>1, <3>0, <2>3 DEF Clean, CanFork, Ids
    <3>4. CASE TryScripted
      <4>1. forks' = <<>> /\ Scripted
        BY <3>4 DEF TryScripted, Typed, Phase
      <4> QED
        BY <4>1, <3>0 DEF Clean
    <3>5. ASSUME NEW text \in Texts, TryFork(text) PROVE Clean'
      <4>1. pc = "try" /\ ~Scripted /\ UNCHANGED <<doc, step>> /\ Calm
        BY <3>5, <2>3 DEF TryFork, Judge, Refuse, Calm
      <4>2. CASE ~CanFork(run, step)
        <5>1. forks' = <<>> /\ pc' = "refused"
          BY <3>5, <4>1, <4>2 DEF TryFork, Refuse, Clean
        <5> QED
          BY <5>1 DEF Clean
      <4>3. CASE CanFork(run, step)
        <5>1. ForkReplays(run, step)
          BY <4>1 DEF Clean, ForkReplays, Kept
        <5>2. Judge(ForkOk(run, step), StepsChanged(ForkOutput(run, step, text)))
          BY <3>5, <4>3, <5>1 DEF TryFork
        <5>3. pc' = "try"
          BY <4>1, <5>2 DEF Judge, ModelFails, Calm
        <5> QED
          BY <4>1, <4>3, <5>3, <3>0, <2>3 DEF Clean, CanFork, Ids
      <4> QED
        BY <4>2, <4>3
    <3>6. CASE Rank
      <4>1. pc' = "done" /\ UNCHANGED <<doc, step, forks>> /\ Calm
        BY <3>6, <2>3 DEF Rank, Calm
      <4> QED
        BY <4>1, <2>3 DEF Clean, CanFork, Ids
    <3> QED
      BY <2>3, <3>1, <3>2, <3>3, <3>4, <3>5, <3>6 DEF Request
  <2> QED
    BY <2>1, <2>2, <2>3 DEF Next
<1> QED
  BY <1>1, <1>2

\* Forks are left behind for what is reported and for nothing else: a request that
\* is refused has none (app.py:1260-1267, replay_adapter.py:109-120).
THEOREM NothingLeftBehind == Spec => []LeavesWhatItReports
<1>1. Spec => [](Typed /\ Frozen /\ Clean)
  BY InitTyped, NextTyped, FrozenStep, CleanStep, PTL DEF Spec
<1>2. Typed /\ Frozen /\ Clean => LeavesWhatItReports
  BY DEF Typed, Phase, Clean, Calm, LeavesWhatItReports
<1> QED
  BY <1>1, <1>2, PTL

-----------------------------------------------------------------------------
\* The variant that every text yields offline, as long as the run stays as it is.
Common ==
  IF Scripted
    THEN LET ok == base.failed /\ step \in hint
         IN  [resolved |-> ok, score |-> Score(ok, StepsScripted(doc, step))]
    ELSE LET ok == base.failed /\ ForkOk(run, step)
         IN  [resolved |-> ok,
              score    |-> Score(ok, StepsChanged(ForkOutput(run, step, "rewritten")))]

Tied ==
  /\ ~setting.shared /\ ~setting.llm => \A i \in DOMAIN variants : variants[i] = Common
  /\ pc = "done" => \A i, j \in DOMAIN variants : i < j => Before(ranking[i], ranking[j])

LEMMA OfflineVerdict ==
  ASSUME ~setting.llm, base.failed \in BOOLEAN, NEW ok \in BOOLEAN
  PROVE  Verdicts(ok) = {base.failed /\ ok}
BY DEF Verdicts

LEMMA JudgeTies ==
  ASSUME ~setting.llm, base.failed \in BOOLEAN, NEW ok \in BOOLEAN, NEW changed, Judge(ok, changed)
  PROVE  /\ variants' = Append(variants, [resolved |-> base.failed /\ ok,
                                         score |-> Score(base.failed /\ ok, changed)])
         /\ UNCHANGED <<pc, doc, step, judged, base>>
<1>1. PICK resolved \in Verdicts(ok) :
        /\ variants' = Append(variants, [resolved |-> resolved, score |-> Score(resolved, changed)])
        /\ UNCHANGED <<pc, doc, step, judged, base>>
  BY DEF Judge, ModelFails
<1>2. Verdicts(ok) = {base.failed /\ ok}
  BY OfflineVerdict
<1>3. resolved = (base.failed /\ ok)
  BY <1>2
<1> QED
  BY <1>1, <1>3

LEMMA TiedStep ==
  /\ Init => Tied
  /\ Typed /\ Tied /\ [Next]_vars => Tied'
<1>1. Init => Tied
  BY DEF Init, Tied
<1>2. Typed /\ Tied /\ [Next]_vars => Tied'
  <2> SUFFICES ASSUME Typed, Tied, [Next]_vars PROVE Tied'
    OBVIOUS
  <2>1. CASE UNCHANGED vars
    BY <2>1 DEF vars, request, Tied, Common, Scripted, StepsChanged, Before
  <2>2. CASE Rerecord
    BY <2>2 DEF Rerecord, request, Tied, Before
  <2>3. ASSUME Request, UNCHANGED <<setting, hint, run>> PROVE Tied'
    <3>0. Scripted' = Scripted /\ variants \in Seq(Variants)
      BY <2>3 DEF Scripted, Typed, TypeOK
    <3>1. CASE pc \in {"idle", "baseline", "replay", "generate"}
      <4>1. variants' = <<>>
        BY <2>3, <3>1 DEF Request, Receive, BaselineScripted, BaselineReads, BaselineReplays,
             Generate, TryScripted, TryFork, Rank, Refuse, Typed, Phase
      <4> QED
        BY <4>1 DEF Tied
    <3>2. CASE Rank
      <4>1. UNCHANGED <<doc, step, base, variants>>
        BY <3>2 DEF Rank
      <4>2. Common' = Common
        BY <4>1, <2>3, <3>0 DEF Common, StepsChanged
      <4>3. \A i, j \in DOMAIN variants : i < j => Before(ranking'[i], ranking'[j])
        BY <3>2 DEF Rank
      <4>4. \A p, q : Before(p, q)' <=> Before(p, q)
        BY <4>1 DEF Before
      <4> QED
        BY <4>1, <4>2, <4>3, <4>4, <2>3 DEF Tied, Before
    <3>3. ASSUME ~setting.shared, ~setting.llm, TryScripted PROVE Tied'
      <4>1. /\ Scripted /\ pc = "try" /\ base.failed \in BOOLEAN /\ (step \in hint) \in BOOLEAN
            /\ Judge(step \in hint, StepsScripted(doc, step))
        BY <3>3 DEF TryScripted, Typed, TypeOK
      <4>2. /\ variants' = Append(variants, Common)
            /\ UNCHANGED <<pc, doc, step, judged, base>>
        BY <3>3, <4>1, JudgeTies DEF Common
      <4>3. Common' = Common
        BY <4>1, <4>2, <3>0, <2>3 DEF Common
      <4> QED
        BY <4>1, <4>2, <4>3, <3>0, <3>3 DEF Tied
    <3>4. ASSUME ~setting.shared, ~setting.llm, NEW text \in Texts, TryFork(text) PROVE Tied'
      <4>1. ~Scripted /\ pc = "try" /\ base.failed \in BOOLEAN /\ text = "rewritten"
        BY <3>4 DEF TryFork, Typed, TypeOK, Texts
      <4>2. CASE Refuse
        BY <3>4, <4>1, <4>2, <3>0, <2>3 DEF Refuse, Tied, Common, StepsChanged
      <4>3. CASE Judge(ForkOk(run, step), StepsChanged(ForkOutput(run, step, text)))
        <5>1. ForkOk(run, step) \in BOOLEAN
          BY DEF ForkOk
        <5>2. /\ variants' = Append(variants, Common)
              /\ UNCHANGED <<pc, doc, step, judged, base>>
          BY <3>4, <4>1, <4>3, <5>1, JudgeTies DEF Common
        <5>3. Common' = Common
          BY <4>1, <5>2, <3>0, <2>3 DEF Common, StepsChanged
        <5> QED
          BY <4>1, <5>2, <5>3, <3>0, <3>4 DEF Tied
      <4> QED
        BY <3>4, <4>2, <4>3 DEF TryFork
    <3>5. CASE (setting.shared \/ setting.llm) /\ pc = "try" /\ ~Rank
      <4>1. pc' # "done"
        BY <2>3, <3>5 DEF Request, Receive, BaselineScripted, BaselineReads, BaselineReplays,
             Generate, TryScripted, TryFork, Judge, Refuse
      <4> QED
        BY <4>1, <3>5, <2>3 DEF Tied
    <3>6. pc \in {"idle", "baseline", "replay", "generate", "try"}
      BY <2>3 DEF Request, Receive, BaselineScripted, BaselineReads, BaselineReplays,
             Generate, TryScripted, TryFork, Rank
    <3>7. pc = "try" => TryScripted \/ (\E text \in Texts : TryFork(text)) \/ Rank
      BY <2>3 DEF Request, Receive, BaselineScripted, BaselineReads, BaselineReplays, Generate
    <3> QED
      BY <3>1, <3>2, <3>3, <3>4, <3>5, <3>6, <3>7
  <2> QED
    BY <2>1, <2>2, <2>3 DEF Next
<1> QED
  BY <1>1, <1>2

\* A ranking in which equal variants keep their order begins with the first one: it
\* is one-to-one, so the first variant has a place, and only the first place will do.
LEMMA FirstStays ==
  ASSUME NEW n \in Nat, n > 0, NEW r \in [1 .. n -> 1 .. n],
         \A i, j \in 1 .. n : i < j => r[i] < r[j]
  PROVE  r[1] = 1
<1>1. \A i, j \in 1 .. n : i # j => r[i] # r[j]
  <2>1. \A i, j \in 1 .. n : i # j => i < j \/ j < i
    OBVIOUS
  <2> QED
    BY <2>1
<1>2. r \in Injection(1 .. n, 1 .. n)
  BY <1>1 DEF Injection, IsInjective
<1>3. IsFiniteSet(1 .. n)
  BY FS_Interval
<1>4. r \in Surjection(1 .. n, 1 .. n)
  BY <1>2, <1>3, FS_Injection
<1>5. PICK j \in 1 .. n : r[j] = 1
  BY <1>4 DEF Surjection
<1>6. 1 \in 1 .. n /\ r[1] \in 1 .. n
  OBVIOUS
<1>7. j = 1 \/ r[1] < 1
  BY <1>5, <1>6
<1> QED
  BY <1>5, <1>6, <1>7

\* Offline all variants tie, whatever the model's text would have been
\* (counterfactual.py:254-276, app.py:1236-1240).
THEOREM TextsTie == Spec => []OfflineTies
<1>1. Spec => [](Typed /\ Tied)
  BY InitTyped, NextTyped, TiedStep, PTL DEF Spec
<1>2. Typed /\ Tied => OfflineTies
  <2> SUFFICES ASSUME Typed, Tied, pc = "done", ~setting.shared, ~setting.llm
               PROVE  /\ \A i \in DOMAIN variants : ranking[1] = 1 /\ variants[i] = variants[1]
                      /\ Len(variants) > 1 => Confidence = 0
    BY DEF OfflineTies
  <2> DEFINE n == Len(variants)
  <2>1. n \in Nat /\ DOMAIN variants = 1 .. n /\ ranking \in [1 .. n -> 1 .. n]
        /\ \A i \in 1 .. n : variants[i] \in Variants
    BY DEF Typed, TypeOK
  <2>2. \A i \in 1 .. n : variants[i] = Common
    BY <2>1 DEF Tied
  <2> HIDE DEF n
  <2>3. n > 0 => Common.score \in Nat
    <3>1. n > 0 => 1 \in 1 .. n
      BY <2>1
    <3>2. n > 0 => Common \in Variants
      BY <2>1, <2>2, <3>1
    <3>3. \A v \in Variants : v.score \in Nat
      BY DEF Variants
    <3> QED
      BY <3>2, <3>3
  <2>7. \A i, j \in 1 .. n : i < j => ranking[i] < ranking[j]
    <3> SUFFICES ASSUME NEW i \in 1 .. n, NEW j \in 1 .. n, i < j
                 PROVE  ranking[i] < ranking[j]
      OBVIOUS
    <3>1. Before(ranking[i], ranking[j])
      BY <2>1 DEF Tied
    <3>2. variants[ranking[i]] = Common /\ variants[ranking[j]] = Common
      BY <2>1, <2>2
    <3>3. n > 0
      BY <2>1
    <3>4. Common.score \in Nat
      BY <2>3, <3>3
    <3> QED
      BY <3>1, <3>2, <3>4 DEF Before
  <2>4. n > 0 => ranking[1] = 1
    BY <2>1, <2>7, FirstStays
  <2>5. ASSUME n > 1 PROVE Confidence = 0
    <3>1. ranking[1] \in 1 .. n /\ ranking[2] \in 1 .. n
      BY <2>1, <2>5
    <3>2. variants[ranking[1]] = Common /\ variants[ranking[2]] = Common
      BY <2>2, <3>1
    <3>3. variants # <<>> /\ Len(variants) > 1
      BY <2>1, <2>5 DEF n
    <3>4. Confidence = Common.score - Common.score
      BY <3>2, <3>3 DEF Confidence
    <3>5. n > 0
      BY <2>1, <2>5
    <3>6. Common.score \in Nat
      BY <2>3, <3>5
    <3> QED
      BY <3>4, <3>6
  <2>6. \A i \in DOMAIN variants : ranking[1] = 1 /\ variants[i] = variants[1]
    BY <2>1, <2>2, <2>4
  <2> QED
    BY <2>5, <2>6 DEF n
<1> QED
  BY <1>1, <1>2, PTL

=============================================================================
