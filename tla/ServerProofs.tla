---------------------------- MODULE ServerProofs ----------------------------
(***************************************************************************)
(* Proofs about what the API server does besides keeping traces.           *)
(* FailureMemory: what the failure library holds, for any runs and any     *)
(* releases of the seeds, however often the server dies.  Recall: what the *)
(* library recalls, for any verdicts of the judge.  RecordOver: a run that *)
(* is recorded over one at a time, for any agent.  ImportRuns: how imports *)
(* and hosted runs reach into each other, for any number of them.          *)
(***************************************************************************)
EXTENDS Recall, RecordOver, ImportRuns, FiniteSetTheorems, SequenceTheorems, TLAPS

Content == SeedEntries \cup Learnable

LEMMA SeedsSeq ==
  /\ Len(Seeds) \in Nat
  /\ \A n \in Nat : 1 <= n /\ n <= Len(Seeds) => n \in DOMAIN Seeds
<1> DEFINE S == ToSet(Seeds)
<1> HIDE DEF S
<1>1. Seeds \in Seq(S)
  BY SeedsAssumption DEF S
<1> QED
  BY <1>1

LEMMA SeedsType ==
  ASSUME NEW i \in DOMAIN Seeds
  PROVE  /\ Seeds[i].pattern # None
         /\ Entry(Seeds[i].pattern, Seeds[i].step, None, None) \in SeedEntries
BY SeedsAssumption DEF SeedEntries

\* What the fork or the new recording of a run may teach.
LEMMA LearnableType ==
  ASSUME NEW run \in Runs, NEW k \in DOMAIN run.steps, run.failed,
         NEW edit \in Edits \cup {"rerun"}
  PROVE  Entry(None, k, run, edit) \in Learnable
<1>1. k \in Nat
  BY RunsAssumption DEF StepsAssumption
<1> QED
  BY <1>1 DEF Entry, Learnable

LEMMA SeedStep ==
  ASSUME TypeOK, SeedNext
  PROVE  /\ library' \in Seq(Content)
         /\ \/ library' = library
            \/ \E e \in SeedEntries : e.pattern # None /\ library' = Append(library, e)
<1>1. next \in DOMAIN Seeds
  <2>1. next \in Nat /\ version \in Nat /\ 1 <= next /\ next <= version /\ version <= Len(Seeds)
    BY SeedsSeq DEF TypeOK, SeedNext
  <2> QED
    BY <2>1, SeedsSeq
<1> DEFINE e == Entry(Seeds[next].pattern, Seeds[next].step, None, None)
<1>2. e \in SeedEntries /\ e.pattern # None
  BY <1>1, SeedsType DEF Entry
<1>3. library' = library \/ library' = Append(library, e)
  BY DEF SeedNext
<1>4. library \in Seq(Content) /\ e \in Content
  BY <1>2 DEF TypeOK, Content
<1> HIDE DEF e
<1>5. library' \in Seq(Content)
  BY <1>3, <1>4
<1> QED
  BY <1>2, <1>3, <1>5

-----------------------------------------------------------------------------
\* Type correctness: in particular a thread that is about to write holds an entry
\* about a step of a failed run (app.py:1089-1098).
THEOREM TypeCorrect == Spec => []TypeOK
<1>1. Init => TypeOK
  <2> SUFFICES ASSUME Init PROVE TypeOK
    OBVIOUS
  <2>1. version \in 0 .. Len(Seeds) /\ next \in 1 .. version + 1
    BY SeedsSeq DEF Init
  <2>2. library \in Seq(SeedEntries \cup Learnable)
    BY DEF Init
  <2>3. /\ pc \in [Threads -> {"idle", "query", "write"}]
        /\ fix \in [Threads -> Learnable \cup {None}]
        /\ \A t \in Threads : pc[t] # "idle" => up /\ fix[t] \in Learnable
    BY DEF Init
  <2> QED
    BY <2>1, <2>2, <2>3 DEF Init, TypeOK
<1>2. TypeOK /\ [Next]_vars => TypeOK'
  <2> SUFFICES ASSUME TypeOK, [Next]_vars PROVE TypeOK'
    OBVIOUS
  <2> USE DEF TypeOK
  <2>1. CASE ReadPatterns
    <3>1. known' \subseteq Patterns \cup {None}
      <4>1. \A i \in DOMAIN library : library[i].pattern \in Patterns \cup {None}
        BY DEF SeedEntries, Patterns, Learnable, Entry
      <4>2. known' \subseteq Newest
        BY <2>1 DEF ReadPatterns
      <4>3. Newest \subseteq Patterns \cup {None}
        BY <4>1 DEF Newest
      <4> QED
        BY <4>2, <4>3
    <3> QED
      BY <2>1, <3>1 DEF ReadPatterns
  <2>2. CASE SeedNext
    <3>1. library' \in Seq(SeedEntries \cup Learnable)
      BY <2>2, SeedStep DEF Content
    <3> QED
      BY <2>2, <3>1 DEF SeedNext
  <2>3. CASE Started
    BY <2>3 DEF Started
  <2>4. CASE Restart
    <3>1. version' \in 0 .. Len(Seeds) /\ next' \in 1 .. version' + 1
      BY <2>4, SeedsSeq DEF Restart
    <3>2. /\ pc' \in [Threads -> {"idle", "query", "write"}]
          /\ fix' \in [Threads -> Learnable \cup {None}]
          /\ \A t \in Threads : pc'[t] = "idle"
      BY <2>4 DEF Restart
    <3> QED
      BY <2>4, <3>1, <3>2 DEF Restart
  <2>5. ASSUME NEW t \in Threads, Diverge(t) PROVE TypeOK'
    <3>1. PICK run \in Runs :
            \E k \in DOMAIN run.steps, edit \in Edits :
              run.failed /\ MayLearn(t, Entry(None, k, run, edit))
      BY <2>5 DEF Diverge
    <3>2. PICK e \in Learnable : MayLearn(t, e)
      BY <3>1, LearnableType
    <3> QED
      BY <2>5, <3>2 DEF Diverge, MayLearn, Free
  <2>6. ASSUME NEW t \in Threads, RecordOver(t) PROVE TypeOK'
    <3>1. PICK run \in Runs :
            \E k \in DOMAIN run.steps : run.failed /\ MayLearn(t, Entry(None, k, run, "rerun"))
      BY <2>6 DEF RecordOver
    <3>2. PICK e \in Learnable : MayLearn(t, e)
      BY <3>1, LearnableType
    <3> QED
      BY <2>6, <3>2 DEF RecordOver, MayLearn, Free
  <2>7. ASSUME NEW t \in Threads, Query(t) PROVE TypeOK'
    BY <2>7 DEF Query, Done
  <2>8. ASSUME NEW t \in Threads, Write(t) PROVE TypeOK'
    <3>1. fix[t] \in Learnable
      BY <2>8 DEF Write
    <3>2. library' \in Seq(SeedEntries \cup Learnable)
      BY <2>8, <3>1 DEF Write
    <3> QED
      BY <2>8, <3>2 DEF Write, Done
  <2>9. CASE UNCHANGED vars
    BY <2>9 DEF vars
  <2> QED
    BY <2>1, <2>2, <2>3, <2>4, <2>5, <2>6, <2>7, <2>8, <2>9 DEF Next
<1> QED
  BY <1>1, <1>2, PTL DEF Spec

-----------------------------------------------------------------------------
\* Served one at a time, a request finds what the one before it learned.
Alone == \A t, u \in Threads : pc[t] # "idle" /\ pc[u] # "idle" => t = u
News  == \A t \in Threads : pc[t] = "write" => ~Stored(fix[t].step)

Serial == OneAtATime => Alone /\ News /\ LearnedOncePerStep

LEMMA SerialStep == TypeOK /\ Serial /\ [Next]_vars => Serial'
<1> SUFFICES ASSUME TypeOK, OneAtATime, Alone, News, LearnedOncePerStep, [Next]_vars
             PROVE  (Alone /\ News /\ LearnedOncePerStep)'
  BY DEF Serial
<1> USE DEF TypeOK
<1>1. CASE SeedNext
  <2>1. \A t \in Threads : pc'[t] = "idle"
    BY <1>1 DEF SeedNext
  <2>2. PICK e : e.pattern # None /\ (library' = library \/ library' = Append(library, e))
    BY <1>1, SeedStep, SeedsType DEF SeedNext, Entry
  <2>3. LearnedOncePerStep'
    <3>1. CASE library' = library
      BY <3>1 DEF LearnedOncePerStep
    <3>2. CASE library' = Append(library, e)
      BY <2>2, <3>2 DEF LearnedOncePerStep
    <3> QED
      BY <2>2, <3>1, <3>2
  <2> QED
    BY <2>1, <2>3 DEF Alone, News
<1>2. CASE ReadPatterns \/ Started \/ Restart
  BY <1>2 DEF ReadPatterns, Started, Restart, Alone, News, Stored, LearnedOncePerStep
<1>3. ASSUME NEW t \in Threads, NEW e, Free(t), MayLearn(t, e)
      PROVE  (Alone /\ News /\ LearnedOncePerStep)'
  BY <1>3 DEF Free, MayLearn, Alone, News, Stored, LearnedOncePerStep
<1>4. ASSUME NEW t \in Threads, Query(t) PROVE (Alone /\ News /\ LearnedOncePerStep)'
  BY <1>4 DEF Query, Done, Alone, News, Stored, LearnedOncePerStep
<1>5. ASSUME NEW t \in Threads, Write(t) PROVE (Alone /\ News /\ LearnedOncePerStep)'
  <2>1. ~Stored(fix[t].step) /\ (library' = library \/ library' = Append(library, fix[t]))
    BY <1>5 DEF Write, News
  <2>2. \A u \in Threads : pc'[u] = "idle"
    BY <1>5 DEF Write, Done, Alone
  <2>3. LearnedOncePerStep'
    <3>1. CASE library' = library
      BY <3>1 DEF LearnedOncePerStep
    <3>2. CASE library' = Append(library, fix[t])
      BY <2>1, <3>2 DEF LearnedOncePerStep, Stored
    <3> QED
      BY <2>1, <3>1, <3>2
  <2> QED
    BY <2>2, <2>3 DEF Alone, News
<1>6. CASE UNCHANGED vars
  BY <1>6 DEF vars, Alone, News, Stored, LearnedOncePerStep
<1> QED
  BY <1>1, <1>2, <1>3, <1>4, <1>5, <1>6 DEF Next, Diverge, RecordOver

\* Requests that do not overlap never learn about the same step twice
\* (app.py:1093-1094).
THEOREM LearnsOnce == ASSUME OneAtATime PROVE Spec => []LearnedOncePerStep
<1>1. Init => Serial
  BY DEF Init, Serial, Alone, News, LearnedOncePerStep
<1>2. Serial => LearnedOncePerStep
  BY DEF Serial
<1> QED
  BY <1>1, <1>2, SerialStep, TypeCorrect, PTL DEF Spec

-----------------------------------------------------------------------------
\* A server that can read its library knows, while it starts, all of the patterns
\* it has still to deal with, and has dealt with those before.
Has(p) == \E i \in DOMAIN library : library[i].pattern = p

Single ==
  \A i, j \in DOMAIN library :
    library[i].pattern # None /\ library[i].pattern = library[j].pattern => i = j

Offered(n) == \A k \in DOMAIN Seeds : k <= n => Has(Seeds[k].pattern)

Seeding ==
  /\ Single
  /\ known = None => next = 1
  /\ ~up /\ known # None =>
       /\ Offered(next - 1)
       /\ \A p \in known : Has(p)
       /\ \A k \in DOMAIN Seeds : next <= k /\ Has(Seeds[k].pattern) => Seeds[k].pattern \in known
  /\ up => Offered(version)

LEMMA SeedsDomain == \A k \in DOMAIN Seeds : k \in Nat /\ 1 <= k /\ k <= Len(Seeds)
<1> DEFINE S == ToSet(Seeds)
<1> HIDE DEF S
<1>1. Seeds \in Seq(S)
  BY SeedsAssumption DEF S
<1> QED
  BY <1>1

LEMMA NewestIsAll ==
  ASSUME TypeOK, Len(library) <= Limit
  PROVE  \A p : p \in Newest <=> Has(p)
<1>1. \A i \in DOMAIN library : i + Limit > Len(library)
  <2> SUFFICES ASSUME NEW i \in DOMAIN library PROVE i + Limit > Len(library)
    OBVIOUS
  <2>1. i \in Nat /\ 1 <= i /\ Len(library) \in Nat
    BY DEF TypeOK
  <2> QED
    BY <2>1, LimitAssumption
<1>2. Newest = {library[i].pattern : i \in DOMAIN library}
  BY <1>1 DEF Newest
<1> QED
  BY <1>2 DEF Has

\* An entry that is appended adds its pattern and nothing else.
LEMMA AppendHas ==
  ASSUME TypeOK, NEW e, library' = Append(library, e)
  PROVE  \A p : Has(p)' <=> Has(p) \/ p = e.pattern
<1>1. /\ DOMAIN library' = 1 .. Len(library) + 1
      /\ DOMAIN library = 1 .. Len(library)
      /\ Len(library) \in Nat
      /\ library'[Len(library) + 1] = e
      /\ \A i \in DOMAIN library : library'[i] = library[i]
  BY DEF TypeOK
<1> QED
  BY <1>1 DEF Has

LEMMA AppendSingle ==
  ASSUME TypeOK, Single, NEW e, library' = Append(library, e),
         e.pattern = None \/ ~Has(e.pattern)
  PROVE  Single'
<1>1. /\ DOMAIN library' = DOMAIN library \cup {Len(library) + 1}
      /\ library'[Len(library) + 1] = e
      /\ \A i \in DOMAIN library : library'[i] = library[i]
  BY DEF TypeOK
<1> QED
  BY <1>1 DEF Single, Has

LEMMA SeedingStep ==
  ASSUME ~ReadsFail
  PROVE  TypeOK /\ Len(library) <= Limit /\ Seeding /\ [Next]_vars => Seeding'
<1> SUFFICES ASSUME TypeOK, Len(library) <= Limit, Seeding, [Next]_vars PROVE Seeding'
  OBVIOUS
<1> DEFINE Same == /\ \A p : Has(p)' <=> Has(p)
                   /\ \A n : Offered(n)' <=> Offered(n)
<1>0. library' = library => Same /\ Single'
  BY DEF Has, Offered, Single, Seeding
<1>1. CASE ReadPatterns
  <2>1. known' = Newest /\ library' = library /\ next' = next /\ ~up' /\ next = 1
    BY <1>1 DEF ReadPatterns, Seeding
  <2>2. Offered(next - 1)'
    BY <2>1, SeedsDomain DEF Offered
  <2>3. \A p : p \in known' <=> Has(p)'
    BY <2>1, <1>0, NewestIsAll
  <2> QED
    BY <2>1, <2>2, <2>3, <1>0 DEF Seeding
<1>2. CASE SeedNext
  <2>1. next \in DOMAIN Seeds /\ next \in Nat
    <3>1. next \in Nat /\ version \in Nat /\ 1 <= next /\ next <= version /\ version <= Len(Seeds)
      BY <1>2, SeedsSeq DEF TypeOK, SeedNext
    <3> QED
      BY <3>1, SeedsSeq
  <2> DEFINE p == Seeds[next].pattern
             e == Entry(p, Seeds[next].step, None, None)
  <2>2. /\ ~up' /\ ~up /\ known # None /\ known' = known /\ next' = next + 1
        /\ library' = IF p \in known THEN library ELSE Append(library, e)
    BY <1>2 DEF SeedNext
  <2>3. e.pattern = p
    BY DEF Entry
  <2>4. p \in known <=> Has(p)
    BY <2>1, <2>2 DEF Seeding
  <2>5. Single'
    <3>1. CASE p \in known
      BY <3>1, <2>2, <1>0
    <3>2. CASE p \notin known
      BY <3>2, <2>2, <2>3, <2>4, AppendSingle DEF Seeding
    <3> QED
      BY <3>1, <3>2
  <2>6. \A q : Has(q)' <=> Has(q) \/ q = p
    <3>1. CASE p \in known
      BY <3>1, <2>2, <2>4, <1>0
    <3>2. CASE p \notin known
      <4>1. library' = Append(library, e)
        BY <3>2, <2>2
      <4> HIDE DEF e
      <4> QED
        BY <4>1, <2>3, AppendHas
    <3> QED
      BY <3>1, <3>2
  <2>7. Offered(next - 1)'
    <3> SUFFICES ASSUME NEW k \in DOMAIN Seeds, k <= next PROVE Has(Seeds[k].pattern)'
      BY <2>1, <2>2 DEF Offered
    <3>1. k = next \/ k <= next - 1
      BY <2>1, SeedsDomain
    <3>2. Has(Seeds[k].pattern) \/ Seeds[k].pattern = p
      BY <3>1, <2>2 DEF Seeding, Offered
    <3> QED
      BY <3>2, <2>6
  <2>8. \A q \in known' : Has(q)'
    BY <2>2, <2>6 DEF Seeding
  <2>9. ASSUME NEW k \in DOMAIN Seeds, next' <= k, Has(Seeds[k].pattern)'
        PROVE  Seeds[k].pattern \in known'
    <3>1. k # next /\ next <= k
      BY <2>9, <2>1, <2>2, SeedsDomain
    <3>2. Seeds[k].pattern # p
      BY <3>1, <2>1, SeedsAssumption
    <3>3. Has(Seeds[k].pattern)
      BY <3>2, <2>6, <2>9
    <3> QED
      BY <3>1, <3>3, <2>2 DEF Seeding
  <2> QED
    BY <2>2, <2>5, <2>7, <2>8, <2>9 DEF Seeding
<1>3. CASE Started
  <2>1. /\ ~up /\ up' /\ known # None /\ next > version /\ library' = library
        /\ version' = version /\ known' = known /\ next' = next
    BY <1>3 DEF Started
  <2>2. Offered(version)
    <3>1. next \in Nat /\ version \in Nat
      BY SeedsSeq DEF TypeOK
    <3>2. Offered(next - 1)
      BY <2>1 DEF Seeding
    <3> QED
      BY <3>1, <3>2, <2>1, SeedsDomain DEF Offered
  <2> QED
    BY <2>1, <2>2, <1>0 DEF Seeding
<1>4. CASE Restart
  BY <1>4, <1>0 DEF Restart, Seeding
<1>5. ASSUME NEW t \in Threads, Diverge(t) \/ RecordOver(t) \/ Query(t) PROVE Seeding'
  <2>1. UNCHANGED <<library, version, up, known, next>>
    BY <1>5 DEF Diverge, RecordOver, MayLearn, Query
  <2> QED
    BY <2>1, <1>0 DEF Seeding
<1>6. ASSUME NEW t \in Threads, Write(t) PROVE Seeding'
  <2>1. /\ up /\ up' = up /\ version' = version /\ known' = known /\ next' = next
        /\ fix[t] \in Learnable
        /\ library' = library \/ library' = Append(library, fix[t])
    BY <1>6 DEF Write, TypeOK
  <2>2. fix[t].pattern = None
    BY <2>1 DEF Learnable
  <2>3. CASE library' = library
    BY <2>1, <2>3, <1>0 DEF Seeding
  <2>4. CASE library' = Append(library, fix[t])
    <3>1. Single'
      BY <2>2, <2>4, AppendSingle DEF Seeding
    <3>2. \A p : Has(p) => Has(p)'
      BY <2>4, AppendHas
    <3>3. Offered(version)
      BY <2>1 DEF Seeding
    <3>4. Offered(version)'
      BY <2>1, <3>2, <3>3 DEF Offered
    <3> QED
      BY <2>1, <3>1, <3>4 DEF Seeding
  <2> QED
    BY <2>1, <2>3, <2>4
<1>7. CASE UNCHANGED vars
  BY <1>7, <1>0 DEF vars, Seeding
<1> QED
  BY <1>1, <1>2, <1>3, <1>4, <1>5, <1>6, <1>7 DEF Next

\* However often it dies while it seeds, and whatever its releases add, a server
\* that has started has every pattern once, as long as its reads succeed and the
\* library has no more rows than it reads back (seed.py:146-152).
THEOREM SeedsOnce ==
  ASSUME ~ReadsFail
  PROVE  Spec /\ [](Len(library) <= Limit) => []SeededOnce
<1>1. Init => Seeding
  BY DEF Init, Seeding, Single
<1>2. TypeOK /\ Seeding => SeededOnce
  <2> SUFFICES ASSUME TypeOK, Seeding PROVE SeededOnce
    OBVIOUS
  <2>1. \A k \in 1 .. version : k \in DOMAIN Seeds /\ k <= version
    BY SeedsSeq DEF TypeOK
  <2> QED
    BY <2>1 DEF Seeding, Single, Offered, Has, SeededOnce
<1> QED
  BY <1>1, <1>2, SeedingStep, TypeCorrect, PTL DEF Spec

-----------------------------------------------------------------------------
(***************************************************************************)
(* Recall.  What the judge was shown are finitely many rows, each with a   *)
(* score, so that no two similar ones take the same place.                 *)
(***************************************************************************)
IsVerdict(verdict) ==
  /\ IsFiniteSet(DOMAIN verdict) /\ DOMAIN verdict \subseteq Nat
  /\ \A i \in DOMAIN verdict : verdict[i].relevant \in BOOLEAN /\ verdict[i].score \in Nat

LEMMA JudgedRows ==
  ASSUME TypeOK, NEW verdict \in Judgements
  PROVE  IsVerdict(verdict)
<1>1. library \in Seq(Content)
  BY DEF TypeOK, Content
<1>2. Len(library) \in Nat /\ DOMAIN library = 1 .. Len(library)
  BY <1>1
<1>3. IsFiniteSet(1 .. Len(library))
  BY <1>2, FS_Interval
<1>4. Entries \in SUBSET (1 .. Len(library))
  BY <1>2 DEF Entries
<1>5. IsFiniteSet(Entries)
  BY <1>3, <1>4, FS_Subset
<1>6. Entries \subseteq Nat
  BY <1>2, <1>4
<1>7. Verdicts \cup {NoVerdict} \subseteq [relevant : BOOLEAN, score : Nat]
  <2>1. NoVerdict \in [relevant : BOOLEAN, score : Nat]
    BY DEF NoVerdict
  <2> QED
    BY <2>1, VerdictsAssumption
<1>8. verdict \in [Entries -> Verdicts \cup {NoVerdict}]
  BY DEF Judgements
<1> QED
  BY <1>5, <1>6, <1>7, <1>8 DEF IsVerdict

LEMMA SimilarRows ==
  ASSUME NEW verdict, IsVerdict(verdict)
  PROVE  /\ IsFiniteSet(Similar(verdict)) /\ Cardinality(Similar(verdict)) \in Nat
         /\ \A i \in Similar(verdict) : i \in DOMAIN verdict /\ i \in Nat /\ verdict[i].score \in Nat
<1>1. Similar(verdict) \in SUBSET DOMAIN verdict
  BY DEF Similar
<1> QED
  BY <1>1, FS_Subset, FS_CardinalityType DEF IsVerdict

\* The similar rows take the places from 1 on, one each, the better the earlier.
LEMMA Places ==
  ASSUME NEW verdict, IsVerdict(verdict)
  PROVE  /\ \A i \in Similar(verdict) : Place(verdict, i) \in 1 .. Cardinality(Similar(verdict))
         /\ \A i, j \in Similar(verdict) :
              Above(verdict, i, j) <=> Place(verdict, i) < Place(verdict, j)
         /\ \A n \in 1 .. Cardinality(Similar(verdict)) :
              \E i \in Similar(verdict) : Place(verdict, i) = n
<1> DEFINE S == Similar(verdict)
           upTo(i) == {j \in S : j = i \/ Above(verdict, j, i)}
<1>1. IsFiniteSet(S) /\ Cardinality(S) \in Nat
      /\ \A i \in S : i \in Nat /\ verdict[i].score \in Nat
  BY SimilarRows
<1>2. ASSUME NEW i \in S
      PROVE  /\ IsFiniteSet(upTo(i)) /\ Cardinality(upTo(i)) \in 1 .. Cardinality(S)
  <2>1. upTo(i) \in SUBSET S /\ i \in upTo(i)
    OBVIOUS
  <2>2. IsFiniteSet(upTo(i)) /\ Cardinality(upTo(i)) <= Cardinality(S)
    BY <1>1, <2>1, FS_Subset
  <2> HIDE DEF upTo
  <2>3. Cardinality(upTo(i)) \in Nat /\ Cardinality(upTo(i)) # 0
    BY <2>1, <2>2, FS_CardinalityType, FS_EmptySet
  <2> QED
    BY <1>1, <2>2, <2>3
<1>3. \A i \in S : Place(verdict, i) = Cardinality(upTo(i))
  BY DEF Place
<1>4. ASSUME NEW i \in S, NEW j \in S, Above(verdict, i, j)
      PROVE  Place(verdict, i) < Place(verdict, j)
  <2>1. upTo(i) \in SUBSET upTo(j)
    BY <1>1, <1>4 DEF Above
  <2>2. j \in upTo(j) /\ j \notin upTo(i)
    BY <1>1, <1>4 DEF Above
  <2> HIDE DEF upTo
  <2>3. /\ Cardinality(upTo(i)) <= Cardinality(upTo(j))
        /\ Cardinality(upTo(j)) = Cardinality(upTo(i)) => upTo(j) = upTo(i)
    BY <1>2, <2>1, FS_Subset
  <2>4. Cardinality(upTo(i)) \in Nat /\ Cardinality(upTo(j)) \in Nat
    BY <1>2, FS_CardinalityType
  <2> QED
    BY <1>3, <2>2, <2>3, <2>4
<1>5. \A i \in S : Place(verdict, i) \in 1 .. Cardinality(S)
  BY <1>2, <1>3
<1>6. ASSUME NEW i \in S, NEW j \in S, Place(verdict, i) <= Place(verdict, j)
      PROVE  i = j \/ Above(verdict, i, j)
  <2>1. ~Above(verdict, j, i)
    BY <1>1, <1>4, <1>5, <1>6
  <2> QED
    BY <1>1, <2>1 DEF Above
<1>7. ASSUME NEW n \in 1 .. Cardinality(S) PROVE \E i \in S : Place(verdict, i) = n
  <2> DEFINE place == [i \in S |-> Place(verdict, i)]
             T == 1 .. Cardinality(S)
  <2>1. IsFiniteSet(T) /\ Cardinality(T) = Cardinality(S)
    BY <1>1, FS_Interval
  <2>2. \A i, j \in S : Place(verdict, i) = Place(verdict, j) => i = j
    BY <1>1, <1>5, <1>6 DEF Above
  <2>3. place \in Injection(S, T)
    BY <1>5, <2>2 DEF Injection, IsInjective
  <2>4. place \in Surjection(S, T)
    BY <1>1, <2>1, <2>3, FS_Injection
  <2> QED
    BY <2>4 DEF Surjection
<1>8. \A i, j \in S : Place(verdict, i) < Place(verdict, j) => Above(verdict, i, j)
  BY <1>1, <1>5, <1>6
<1> QED
  BY <1>4, <1>5, <1>7, <1>8

\* What relevant_failures returns: the first of the ranking, or all of it.
LEMMA BestRows ==
  ASSUME NEW verdict, IsVerdict(verdict), NEW k \in Nat \ {0}
  PROVE  LET S == Similar(verdict)  best == Best(verdict, k)
         IN  /\ Len(best) = Min({k, Cardinality(S)})
             /\ DOMAIN best = 1 .. Len(best)
             /\ Len(best) \in Nat
             /\ Len(best) = 0 <=> S = {}
             /\ \A n \in DOMAIN best : best[n] \in S /\ Place(verdict, best[n]) = n
             /\ \A i \in S : Place(verdict, i) \in DOMAIN best => i \in ToSet(best)
<1> DEFINE S == Similar(verdict)
           c == Cardinality(S)
           R == Ranking(verdict)
           m == Min({k, c})
<1>1. IsFiniteSet(S) /\ c \in Nat
  BY SimilarRows
<1>2. m \in Nat /\ m <= c /\ m <= k /\ m \in {k, c}
  <2>1. \E x \in {k, c} : \A y \in {k, c} : x =< y
    <3>1. CASE k <= c
      BY <1>1, <3>1
    <3>2. CASE c <= k
      BY <1>1, <3>2
    <3> QED
      BY <1>1, <3>1, <3>2
  <2>2. m \in {k, c} /\ \A y \in {k, c} : m =< y
    BY <2>1 DEF Min
  <2> QED
    BY <1>1, <2>2
<1>3. /\ DOMAIN R = 1 .. c
      /\ \A n \in 1 .. c : R[n] \in S /\ Place(verdict, R[n]) = n
  BY Places DEF Ranking
<1>4. R \in Seq(S) /\ Len(R) = c
  <2>1. R = [n \in 1 .. c |-> R[n]]
    BY DEF Ranking
  <2> HIDE DEF R, c, S
  <2>2. R \in [1 .. c -> S]
    BY <1>3, <2>1
  <2> QED
    BY <1>1, <2>2
<1>5. Best(verdict, k) = SubSeq(R, 1, m)
  BY <1>4 DEF Best, FirstOf
<1> HIDE DEF R, m, c, S
<1>6. SubSeq(R, 1, m) \in Seq(S) /\ Len(SubSeq(R, 1, m)) = m
      /\ \A n \in 1 .. m : SubSeq(R, 1, m)[n] = R[n]
  BY <1>1, <1>2, <1>4
<1>7. m = 0 <=> S = {}
  <2>1. m = 0 <=> c = 0
    BY <1>2
  <2>2. c = 0 <=> S = {}
    BY <1>1, FS_EmptySet DEF c
  <2> QED
    BY <2>1, <2>2
<1> DEFINE best == SubSeq(R, 1, m)
<1>8. DOMAIN best = 1 .. m
  BY <1>2, <1>6
<1>9. \A n \in 1 .. m : best[n] \in S /\ Place(verdict, best[n]) = n
  BY <1>1, <1>2, <1>3, <1>6
<1>10. ASSUME NEW i \in S, Place(verdict, i) \in 1 .. m PROVE i \in ToSet(best)
  <2> DEFINE n == Place(verdict, i)
  <2>1. best[n] \in S /\ Place(verdict, best[n]) = n
    BY <1>9, <1>10
  <2>2. ~Above(verdict, i, best[n]) /\ ~Above(verdict, best[n], i)
    BY <1>10, <2>1, Places, <1>2 DEF S
  <2>3. /\ i \in Nat /\ verdict[i].score \in Nat
        /\ best[n] \in Nat /\ verdict[best[n]].score \in Nat
    BY <2>1, SimilarRows DEF S
  <2> HIDE DEF best, n
  <2>4. best[n] = i
    BY <2>2, <2>3 DEF Above
  <2> QED
    BY <1>8, <1>10, <2>4 DEF ToSet, n
<1> QED
  BY <1>2, <1>5, <1>6, <1>7, <1>8, <1>9, <1>10 DEF m, c, S

\* A request recalls what the judge's verdicts make best.
Recollection(r) ==
  /\ IsVerdict(r.judged.verdict)
  /\ r.judged.k \in Nat \ {0}
  /\ r.judged.best = Best(r.judged.verdict, r.judged.k)
  /\ r.request = "run" =>
       (r.available <=> /\ r.judged.best # <<>>
                        /\ Rounded(r.judged.verdict[r.judged.best[1]].score) >= Threshold)

LEMMA NamesTheBest ==
  ASSUME NEW verdict, IsVerdict(verdict), NEW k \in Nat \ {0},
         NEW best, best = Best(verdict, k)
  PROVE  /\ ToSet(best) \subseteq Similar(verdict)
         /\ Len(best) = Min({k, Cardinality(Similar(verdict))})
         /\ \A m, n \in DOMAIN best : m < n => Above(verdict, best[m], best[n])
         /\ \A i \in Similar(verdict) \ ToSet(best), n \in DOMAIN best :
              Above(verdict, best[n], i)
         /\ (best # <<>> /\ Rounded(verdict[best[1]].score) >= Threshold)
              <=> \E i \in DOMAIN verdict : Rounded(verdict[i].score) >= Threshold
<1> DEFINE S == Similar(verdict)
<1>1. /\ Len(best) = Min({k, Cardinality(S)})
      /\ DOMAIN best = 1 .. Len(best)
      /\ Len(best) \in Nat
      /\ Len(best) = 0 <=> S = {}
      /\ \A n \in DOMAIN best : best[n] \in S /\ Place(verdict, best[n]) = n
      /\ \A i \in S : Place(verdict, i) \in DOMAIN best => i \in ToSet(best)
  BY BestRows
<1>2. /\ \A i \in S : Place(verdict, i) \in 1 .. Cardinality(S)
      /\ \A i, j \in S : Above(verdict, i, j) <=> Place(verdict, i) < Place(verdict, j)
      /\ Cardinality(S) \in Nat
      /\ \A i \in S : i \in DOMAIN verdict /\ verdict[i].score \in Nat
  BY Places, SimilarRows
<1>3. \A i \in DOMAIN verdict : verdict[i].score \in Nat /\ (verdict[i].score > 0 => i \in S)
  BY DEF IsVerdict, Similar
<1>4. Threshold \in Nat \ {0}
  BY RecallAssumption
<1>5. best # <<>> <=> 1 \in DOMAIN best
  BY <1>1
<1>6. best # <<>> <=> S # {}
  BY <1>1, <1>5
<1> HIDE DEF S
<1>7. ToSet(best) \subseteq S
  BY <1>1 DEF ToSet
<1>8. ASSUME NEW m \in DOMAIN best, NEW n \in DOMAIN best, m < n
      PROVE  Above(verdict, best[m], best[n])
  <2>1. best[m] \in S /\ best[n] \in S
        /\ Place(verdict, best[m]) < Place(verdict, best[n])
    BY <1>1, <1>8
  <2> QED
    BY <1>2, <2>1
<1>9. ASSUME NEW i \in S \ ToSet(best), NEW n \in DOMAIN best
      PROVE  Above(verdict, best[n], i)
  <2>1. i \in S /\ Place(verdict, i) \notin DOMAIN best
    BY <1>1
  <2>2. best[n] \in S /\ Place(verdict, best[n]) = n
    BY <1>1
  <2>3. Place(verdict, i) \in Nat /\ Place(verdict, i) >= 1
    BY <1>2, <2>1
  <2>4. \A q : q \in DOMAIN best <=> q \in Nat /\ 1 <= q /\ q <= Len(best)
    <3> DEFINE l == Len(best)
    <3>1. DOMAIN best = 1 .. l /\ l \in Nat
      BY <1>1
    <3> HIDE DEF l
    <3>2. \A q : q \in 1 .. l <=> q \in Nat /\ 1 <= q /\ q <= l
      BY <3>1
    <3> QED
      BY <3>1, <3>2 DEF l
  <2>5. Len(best) \in Nat
    BY <1>1
  <2>6. Place(verdict, best[n]) < Place(verdict, i)
    BY <2>1, <2>2, <2>3, <2>4, <2>5
  <2> QED
    BY <1>2, <2>1, <2>2, <2>6
<1>10. ASSUME NEW i \in DOMAIN verdict, Rounded(verdict[i].score) >= Threshold
       PROVE  best # <<>> /\ Rounded(verdict[best[1]].score) >= Threshold
  <2>0. verdict[i].score # 0
    BY <1>4, <1>10 DEF Rounded
  <2>1. i \in S
    BY <1>3, <2>0
  <2>2. best # <<>> /\ 1 \in DOMAIN best /\ best[1] \in S
    BY <1>1, <1>5, <1>6, <2>1
  <2>3. i = best[1] \/ Above(verdict, best[1], i)
    <3>1. CASE i \in ToSet(best)
      <4>1. PICK n \in DOMAIN best : i = best[n]
        BY <3>1 DEF ToSet
      <4>2. n = 1 \/ 1 < n
        BY <1>1
      <4> QED
        BY <1>8, <2>2, <4>1, <4>2
    <3>2. CASE i \notin ToSet(best)
      BY <1>9, <2>1, <2>2, <3>2
    <3> QED
      BY <3>1, <3>2
  <2>4. verdict[i].score \in Nat /\ verdict[best[1]].score \in Nat
    BY <1>2, <2>1, <2>2
  <2>5. verdict[i].score <= verdict[best[1]].score
    BY <2>3, <2>4 DEF Above
  <2>6. /\ Rounded(verdict[i].score) <= Rounded(verdict[best[1]].score)
        /\ Rounded(verdict[i].score) \in Nat /\ Rounded(verdict[best[1]].score) \in Nat
    \* Rounding keeps the order of scores.
    <3> DEFINE m == verdict[i].score
               n == verdict[best[1]].score
    <3>1. m \in Nat /\ n \in Nat /\ m <= n
      BY <2>4, <2>5
    <3> HIDE DEF m, n
    <3>2. Rounded(m) <= Rounded(n) /\ Rounded(m) \in Nat /\ Rounded(n) \in Nat
      BY <3>1 DEF Rounded
    <3> QED
      BY <3>2 DEF m, n
  <2> QED
    BY <1>4, <1>10, <2>2, <2>6
<1>11. ASSUME best # <<>>, Rounded(verdict[best[1]].score) >= Threshold
       PROVE  \E i \in DOMAIN verdict : Rounded(verdict[i].score) >= Threshold
  <2>1. best[1] \in S
    BY <1>1, <1>5, <1>11
  <2>2. best[1] \in DOMAIN verdict
    BY <1>2, <2>1
  <2> QED
    BY <1>11, <2>2
<1> QED
  BY <1>1, <1>7, <1>8, <1>9, <1>10, <1>11 DEF S

LEMMA RecollectionIsBest ==
  ASSUME recalled # None => Recollection(recalled)
  PROVE  BestRecalled
<1> SUFFICES ASSUME recalled # None, NEW verdict, NEW k, NEW best,
                    verdict = recalled.judged.verdict,
                    k = recalled.judged.k,
                    best = recalled.judged.best
             PROVE  /\ ToSet(best) \subseteq Similar(verdict)
                    /\ Len(best) = Min({k, Cardinality(Similar(verdict))})
                    /\ \A m, n \in DOMAIN best : m < n => Above(verdict, best[m], best[n])
                    /\ \A i \in Similar(verdict) \ ToSet(best), n \in DOMAIN best :
                         Above(verdict, best[n], i)
                    /\ recalled.request = "run" =>
                         (recalled.available <=>
                            \E i \in DOMAIN verdict : Rounded(verdict[i].score) >= Threshold)
  BY DEF BestRecalled, Above
<1>1. IsVerdict(verdict) /\ k \in Nat \ {0} /\ best = Best(verdict, k)
  BY DEF Recollection
<1>2. recalled.request = "run" =>
        (recalled.available <=> best # <<>> /\ Rounded(verdict[best[1]].score) >= Threshold)
  BY DEF Recollection
<1> QED
  BY <1>1, <1>2, NamesTheBest

\* The requests that recall write nothing: the library is that of FailureMemory.
THEOREM RecallReadsOnly == RecallSpec => Spec
<1>1. [RecallNext]_<<vars, recalled>> => [Next]_vars
  BY DEF RecallNext, RecallRun, Search
<1> QED
  BY <1>1, PTL DEF RecallSpec, RecallInit, Spec

\* BestRecalled: whatever the library holds and whatever the judge makes of it, the
\* failures that are named are the most similar of those that were read
\* (failure_library.py:271-286), and a run is warned of exactly when the rounded
\* score of one of them reaches the threshold (app.py:750-755 and 773).
THEOREM RecallsTheBest == RecallSpec => []BestRecalled
<1> DEFINE Inv == recalled # None => Recollection(recalled)
<1>1. RecallInit => Inv
  BY DEF RecallInit
<1>2. TypeOK /\ Inv /\ [RecallNext]_<<vars, recalled>> => Inv'
  <2> SUFFICES ASSUME TypeOK, Inv, [RecallNext]_<<vars, recalled>>, recalled' # None
               PROVE  Recollection(recalled')
    OBVIOUS
  <2>0. {RunMatches, SearchMatches} \subseteq Nat \ {0}
    BY RecallAssumption
  <2>1. ASSUME NEW t \in Threads, RecallRun(t) PROVE Recollection(recalled')
    <3>1. PICK verdict \in Judgements :
            recalled' = [request   |-> "run",
                         judged    |-> Judged(verdict, RunMatches),
                         available |-> Warns(verdict, Judged(verdict, RunMatches).best)]
      BY <2>1 DEF RecallRun
    <3> QED
      BY <2>0, <3>1, JudgedRows DEF Recollection, Judged, Warns
  <2>2. ASSUME NEW t \in Threads, Search(t) PROVE Recollection(recalled')
    <3>1. PICK verdict \in Judgements :
            recalled' = [request   |-> "search",
                         judged    |-> Judged(verdict, SearchMatches),
                         available |-> Judged(verdict, SearchMatches).best # <<>>]
      BY <2>2 DEF Search
    <3> QED
      BY <2>0, <3>1, JudgedRows DEF Recollection, Judged
  <2>3. CASE UNCHANGED <<vars, recalled>>
    BY <2>3
  <2> QED
    BY <2>1, <2>2, <2>3 DEF RecallNext
<1>3. Inv => BestRecalled
  BY RecollectionIsBest
<1> QED
  BY <1>1, <1>2, <1>3, RecallReadsOnly, TypeCorrect, PTL DEF RecallSpec

-----------------------------------------------------------------------------
(***************************************************************************)
(* Recording over: the variable and the hooks belong to the process.       *)
(***************************************************************************)
LEMMA HookedFacts ==
  /\ Hooked \in Seq(Instrumented) /\ Len(Hooked) \in Nat
  /\ DOMAIN Hooked = 1 .. Len(Hooked)
  /\ \A k \in 1 .. Len(Hooked) : Hooked[k] \in Instrumented
  /\ \A n \in Instrumented : \E k \in 1 .. Len(Hooked) : n = Hooked[k]
<1>1. Hooked \in Seq(Instrumented)
  BY ScriptAssumption
<1>2. \A n \in Instrumented : \E k \in DOMAIN Hooked : n = Hooked[k]
  BY DEF Instrumented, ToSet
<1> HIDE DEF Instrumented
<1> QED
  BY <1>1, <1>2

LEMMA ScriptFacts ==
  /\ Len(Script) \in Nat /\ DOMAIN Script = 1 .. Len(Script)
  /\ \A k \in 1 .. Len(Script) : Script[k] \in Instrumented
<1>1. Script \in Seq(Instrumented)
  BY ScriptAssumption
<1> QED
  BY <1>1

LEMMA StepOfType ==
  ASSUME OverTypeOK, NEW i \in Nat, NEW n \in Instrumented
  PROVE  StepOf(i, n) \in StepType
BY DEF StepOf, StepType, OverTypeOK

\* What a call does to the session of its run.
LEMMA CallType ==
  ASSUME OverTypeOK, NEW t \in Threads, CallNext(t)
  PROVE  /\ given' \in [Threads -> Nat]
         /\ trace' \in [Threads -> SUBSET StepType]
         /\ lost' \in [Threads -> SUBSET Nat]
<1> DEFINE n == Script[pos[t]]
<1>1. n \in Instrumented
  BY ScriptFacts DEF CallNext, OverTypeOK
<1> HIDE DEF n
<1>2. given[t] \in Nat /\ depth[n] \in Nat /\ Numbers(t, n) \subseteq Nat
  BY <1>1 DEF Numbers, OverTypeOK
<1>3. PICK failed \in SUBSET Numbers(t, n) :
        /\ trace' = [trace EXCEPT ![t] = @ \cup {StepOf(i, n) : i \in Numbers(t, n) \ failed}]
        /\ lost' = [lost EXCEPT ![t] = @ \cup failed]
        /\ given' = [given EXCEPT ![t] = @ + depth[n]]
  BY DEF CallNext, n
<1> DEFINE new == {StepOf(i, n) : i \in Numbers(t, n) \ failed}
<1>4. new \subseteq StepType
  BY <1>1, <1>2, StepOfType
<1> HIDE DEF new, StepType
<1>5. trace' = [trace EXCEPT ![t] = @ \cup new]
  BY <1>3 DEF new
<1> QED
  BY <1>2, <1>3, <1>4, <1>5 DEF OverTypeOK

\* Whoever is served asked for a value.
WantsValue == \A t \in Threads : stage[t] # "idle" => want[t] \in Values

\* OverTypeOK: however many requests overlap, and whatever becomes of the agents.
THEOREM OverTypeCorrect == OverSpec => [](OverTypeOK /\ WantsValue)
<1>1. OverInit => OverTypeOK /\ WantsValue
  BY MaxRequestsAssumption DEF OverInit, OverTypeOK, WantsValue
<1>2. OverTypeOK /\ WantsValue /\ [OverNext]_overVars => OverTypeOK' /\ WantsValue'
  <2> SUFFICES ASSUME OverTypeOK, WantsValue, [OverNext]_overVars
               PROVE  OverTypeOK' /\ WantsValue'
    OBVIOUS
  <2> USE DEF Enter, Turn, Forward
  <2>1. ASSUME NEW t \in Threads, NEW v \in Values, Request(t, v)
        PROVE  OverTypeOK' /\ WantsValue'
    BY <2>1, MaxRequestsAssumption DEF Request, OverTypeOK, WantsValue
  <2>2. ASSUME NEW t \in Threads, SaveEnv(t) PROVE OverTypeOK' /\ WantsValue'
    BY <2>2 DEF SaveEnv, session, OverTypeOK, WantsValue
  <2>3. ASSUME NEW t \in Threads, SetEnv(t) PROVE OverTypeOK' /\ WantsValue'
    BY <2>3 DEF SetEnv, session, OverTypeOK, WantsValue
  <2>13. ASSUME NEW t \in Threads, Refuse(t) PROVE OverTypeOK' /\ WantsValue'
    BY <2>13 DEF Refuse, session, OverTypeOK, WantsValue
  <2>4. ASSUME NEW t \in Threads, Wrap(t) PROVE OverTypeOK' /\ WantsValue'
    <3> DEFINE n == Hooked[pos[t]]
    <3>1. n \in Instrumented
      BY <2>4, HookedFacts DEF Wrap, OverTypeOK
    <3> HIDE DEF n
    <3>2. /\ saved' = [saved EXCEPT ![t][n] = depth[n]]
          /\ depth' = [depth EXCEPT ![n] = @ + 1]
      BY <2>4 DEF Wrap, n
    <3>3. saved' \in [Threads -> [Instrumented -> Nat]] /\ depth' \in [Instrumented -> Nat]
      BY <3>1, <3>2 DEF OverTypeOK
    <3>4. /\ pos' = [pos EXCEPT ![t] = @ + 1]
          /\ UNCHANGED <<override, startEnv, stage, want, prev, given, trace, lost, requests, answered>>
      BY <2>4 DEF Wrap, session
    <3>5. pos' \in [Threads -> Nat \ {0}]
      BY <3>4 DEF OverTypeOK
    <3> HIDE DEF StepType
    <3>6. OverTypeOK'
      BY <3>3, <3>4, <3>5 DEF OverTypeOK
    <3> QED
      BY <3>4, <3>6 DEF WantsValue
  <2>5. ASSUME NEW t \in Threads, Wrapped(t) PROVE OverTypeOK' /\ WantsValue'
    BY <2>5 DEF Wrapped, session, OverTypeOK, WantsValue
  <2>6. ASSUME NEW t \in Threads, CallNext(t) PROVE OverTypeOK' /\ WantsValue'
    <3>1. /\ given' \in [Threads -> Nat]
          /\ trace' \in [Threads -> SUBSET StepType]
          /\ lost' \in [Threads -> SUBSET Nat]
      BY <2>6, CallType
    <3>2. /\ pos' = [pos EXCEPT ![t] = @ + 1]
          /\ UNCHANGED <<override, depth, startEnv, stage, want, prev, saved, requests, answered>>
      BY <2>6 DEF CallNext
    <3> HIDE DEF StepType
    <3> QED
      BY <3>1, <3>2 DEF OverTypeOK, WantsValue
  <2>7. ASSUME NEW t \in Threads, Complete(t) PROVE OverTypeOK' /\ WantsValue'
    <3> HIDE DEF StepType
    <3> QED
      BY <2>7 DEF Complete, session, OverTypeOK, WantsValue
  <2>8. ASSUME NEW t \in Threads, Raise(t) PROVE OverTypeOK' /\ WantsValue'
    BY <2>8 DEF Raise, session, OverTypeOK, WantsValue
  <2>9. ASSUME NEW t \in Threads, Unwrap(t) PROVE OverTypeOK' /\ WantsValue'
    <3> DEFINE n == Hooked[pos[t]]
    <3>1. n \in Instrumented
      BY <2>9, HookedFacts DEF Unwrap, OverTypeOK
    <3> HIDE DEF n
    <3>2. depth' = [depth EXCEPT ![n] = saved[t][n]]
      BY <2>9 DEF Unwrap, n
    <3>3. depth' \in [Instrumented -> Nat]
      BY <3>1, <3>2 DEF OverTypeOK
    <3>4. /\ pos' = [pos EXCEPT ![t] = @ + 1]
          /\ UNCHANGED <<override, startEnv, stage, want, prev, saved, given, trace, lost, requests, answered>>
      BY <2>9 DEF Unwrap, session
    <3>5. pos' \in [Threads -> Nat \ {0}]
      BY <3>4 DEF OverTypeOK
    <3> HIDE DEF StepType
    <3>6. OverTypeOK'
      BY <3>3, <3>4, <3>5 DEF OverTypeOK
    <3> QED
      BY <3>4, <3>6 DEF WantsValue
  <2>10. ASSUME NEW t \in Threads, Unwrapped(t) PROVE OverTypeOK' /\ WantsValue'
    BY <2>10 DEF Unwrapped, session, OverTypeOK, WantsValue
  <2>11. ASSUME NEW t \in Threads, ResetEnv(t) PROVE OverTypeOK' /\ WantsValue'
    BY <2>11 DEF ResetEnv, session, OverTypeOK, WantsValue
  <2>12. CASE UNCHANGED overVars
    BY <2>12 DEF overVars, session, OverTypeOK, WantsValue
  <2> QED
    BY <2>1, <2>2, <2>3, <2>4, <2>5, <2>6, <2>7, <2>8, <2>9, <2>10, <2>11, <2>12, <2>13
    DEF OverNext, ThreadStep
<1> QED
  BY <1>1, <1>2, PTL DEF OverSpec

-----------------------------------------------------------------------------
(***************************************************************************)
(* Requests that do not overlap.  The thread that is served, if any, has   *)
(* saved what the process was at the start, and the recording so far is    *)
(* the beginning of the script.                                            *)
(***************************************************************************)
Stages == {"idle", "save", "set", "wrap", "run", "unwrap", "reset"}

OneRun == \A t, u \in Threads : stage[t] # "idle" /\ stage[u] # "idle" => t = u

Bare        == [n \in Instrumented |-> 0]
Before(p)   == {Hooked[k] : k \in {q \in DOMAIN Hooked : q < p}}
HookedTo(p) == [n \in Instrumented |-> IF n \in Before(p) THEN 1 ELSE 0]
BareTo(p)   == [n \in Instrumented |-> IF n \in Before(p) THEN 0 ELSE 1]

ThreadInv(t) ==
  /\ stage[t] \in {"save", "set"} => override = startEnv /\ depth = Bare
  /\ stage[t] \in {"save", "set", "wrap"} => given[t] = 0 /\ trace[t] = {} /\ lost[t] = {}
  /\ stage[t] \notin {"idle", "save"} => prev[t] = startEnv
  /\ stage[t] \in {"wrap", "run"} => override = want[t]
  /\ stage[t] = "wrap" => /\ depth = HookedTo(pos[t])
                          /\ \A n \in Before(pos[t]) : saved[t][n] = 0
  /\ stage[t] \in {"run", "unwrap"} => \A n \in Instrumented : saved[t][n] = 0
  /\ stage[t] = "run" =>
       /\ \A n \in Instrumented : depth[n] = 1
       /\ pos[t] <= Len(Script) + 1
       /\ given[t] = pos[t] - 1
       /\ lost[t] \subseteq 1 .. pos[t] - 1
       /\ trace[t] = {s \in ScriptUnder(want[t]) : s.id < pos[t] /\ s.id \notin lost[t]}
  /\ stage[t] = "unwrap" => depth = BareTo(pos[t])
  /\ stage[t] = "reset" => depth = Bare

OverInv ==
  /\ OneRun
  /\ \A t \in Threads : ThreadInv(t)
  /\ RestoredWhenIdle
  /\ DecisionHonoured

\* The functions dealt with so far, as the position moves on.
LEMMA BeforeFacts ==
  /\ Before(1) = {}
  /\ \A p \in Nat \ {0} : p <= Len(Hooked) =>
       /\ Before(p + 1) = Before(p) \cup {Hooked[p]}
       /\ Hooked[p] \notin Before(p)
  /\ \A p \in Nat : p > Len(Hooked) => Before(p) = Instrumented
<1>1. Before(1) = {}
  BY HookedFacts DEF Before
<1>2. ASSUME NEW p \in Nat \ {0}, p <= Len(Hooked)
      PROVE  /\ Before(p + 1) = Before(p) \cup {Hooked[p]}
             /\ Hooked[p] \notin Before(p)
  <2>1. {q \in DOMAIN Hooked : q < p + 1} = {q \in DOMAIN Hooked : q < p} \cup {p}
    BY <1>2, HookedFacts
  <2>2. Before(p + 1) = Before(p) \cup {Hooked[p]}
    BY <2>1 DEF Before
  <2>3. p \in DOMAIN Hooked /\ \A q \in DOMAIN Hooked : Hooked[q] = Hooked[p] => q = p
    <3>1. p \in DOMAIN Hooked
      BY <1>2, HookedFacts
    <3>2. \A i, j \in DOMAIN Hooked : Hooked[i] = Hooked[j] => i = j
      BY ScriptAssumption
    <3> QED
      BY <3>1, <3>2
  <2>4. Hooked[p] \notin Before(p)
    BY <2>3, HookedFacts DEF Before
  <2> QED
    BY <2>2, <2>4
<1>3. ASSUME NEW p \in Nat, p > Len(Hooked) PROVE Before(p) = Instrumented
  <2>1. {q \in DOMAIN Hooked : q < p} = DOMAIN Hooked
    BY <1>3, HookedFacts
  <2> QED
    BY <2>1, HookedFacts DEF Before
<1> QED
  BY <1>1, <1>2, <1>3

\* One thread moves while the others are idle, and stay so.
LEMMA OnlyOne ==
  ASSUME NEW t \in Threads, stage \in [Threads -> Stages],
         \A u \in Threads \ {t} : stage[u] = "idle",
         NEW s, stage' = [stage EXCEPT ![t] = s]
  PROVE  /\ OneRun'
         /\ ThreadInv(t)' => \A u \in Threads : ThreadInv(u)'
<1>1. \A u \in Threads \ {t} : stage'[u] = "idle"
  OBVIOUS
<1>2. OneRun'
  BY <1>1 DEF OneRun
<1>3. \A u \in Threads \ {t} : ThreadInv(u)'
  BY <1>1 DEF ThreadInv
<1> QED
  BY <1>2, <1>3

LEMMA OverStep ==
  ASSUME OneAtATime, OverTypeOK, WantsValue, OverInv, [OverNext]_overVars
  PROVE  OverInv'
<1> USE DEF Enter, Turn, Forward
<1>0. /\ stage \in [Threads -> Stages]
      /\ pos \in [Threads -> Nat \ {0}]
      /\ given \in [Threads -> Nat]
      /\ trace \in [Threads -> SUBSET StepType]
      /\ lost \in [Threads -> SUBSET Nat]
      /\ prev \in [Threads -> Values \cup {None}]
      /\ want \in [Threads -> Values \cup {None}]
      /\ depth \in [Instrumented -> Nat]
      /\ saved \in [Threads -> [Instrumented -> Nat]]
  BY DEF OverTypeOK, Stages
<1>1. CASE UNCHANGED overVars
  <2>1. OneRun' /\ RestoredWhenIdle' /\ DecisionHonoured'
    BY <1>1 DEF overVars, session, OverInv, OneRun, RestoredWhenIdle, AllIdle, DecisionHonoured
  <2>2. \A t \in Threads : ThreadInv(t)'
    BY <1>1 DEF overVars, session, OverInv, ThreadInv, HookedTo, BareTo
  <2> QED
    BY <2>1, <2>2 DEF OverInv
<1>2. ASSUME NEW t \in Threads, NEW v \in Values, Request(t, v) PROVE OverInv'
  <2>1. override = startEnv /\ depth = Bare /\ \A u \in Threads : stage[u] = "idle"
    BY <1>2 DEF Request, OverInv, RestoredWhenIdle, AllIdle, Bare
  <2>2. stage' = [stage EXCEPT ![t] = "save"]
    BY <1>2 DEF Request
  <2>3. ThreadInv(t)'
    BY <1>0, <1>2, <2>1, <2>2 DEF Request, ThreadInv
  <2>4. stage'[t] = "save"
    BY <1>0, <2>2
  <2>5. RestoredWhenIdle' /\ DecisionHonoured'
    BY <1>2, <2>4 DEF Request, OverInv, RestoredWhenIdle, AllIdle, DecisionHonoured
  <2> QED
    BY <1>0, <2>1, <2>2, <2>3, <2>5, OnlyOne DEF OverInv
<1>3. ASSUME NEW t \in Threads, stage[t] # "idle",
             stage' = stage \/ \E s : stage' = [stage EXCEPT ![t] = s],
             ThreadInv(t)', RestoredWhenIdle', DecisionHonoured'
      PROVE  OverInv'
  <2>1. \A u \in Threads \ {t} : stage[u] = "idle"
    BY <1>3 DEF OverInv, OneRun
  <2>2. PICK s : stage' = [stage EXCEPT ![t] = s]
    BY <1>0, <1>3
  <2> QED
    BY <1>0, <1>3, <2>1, <2>2, OnlyOne DEF OverInv
<1>4. ASSUME NEW t \in Threads, stage'[t] # "idle" PROVE RestoredWhenIdle'
  BY <1>4 DEF RestoredWhenIdle, AllIdle
<1>5. answered' = answered => DecisionHonoured'
  BY DEF OverInv, DecisionHonoured, ScriptUnder
<1>6. ASSUME NEW t \in Threads, SaveEnv(t) PROVE OverInv'
  <2>1. ThreadInv(t) /\ stage'[t] = "set"
    BY <1>0, <1>6 DEF SaveEnv, OverInv
  <2>2. ThreadInv(t)'
    BY <1>0, <1>6, <2>1 DEF SaveEnv, session, ThreadInv
  <2> QED
    BY <1>3, <1>4, <1>5, <1>6, <2>1, <2>2 DEF SaveEnv, session
<1>7. ASSUME NEW t \in Threads, SetEnv(t) PROVE OverInv'
  <2>1. ThreadInv(t) /\ stage'[t] = "wrap" /\ pos'[t] = 1
    BY <1>0, <1>7 DEF SetEnv, OverInv
  <2>2. Bare = HookedTo(1)
    BY BeforeFacts DEF Bare, HookedTo
  <2>3. ThreadInv(t)'
    BY <1>0, <1>7, <2>1, <2>2, BeforeFacts DEF SetEnv, session, ThreadInv, HookedTo
  <2> QED
    BY <1>3, <1>4, <1>5, <1>7, <2>1, <2>3 DEF SetEnv, session
<1>8. ASSUME NEW t \in Threads, Wrap(t) PROVE OverInv'
  <2> DEFINE p == pos[t]  n == Hooked[p]
  <2>1. p \in Nat \ {0} /\ p <= Len(Hooked) /\ n \in Instrumented
    BY <1>0, <1>8, HookedFacts DEF Wrap
  <2>2. Before(p + 1) = Before(p) \cup {n} /\ n \notin Before(p)
    BY <2>1, BeforeFacts
  <2>3. ThreadInv(t) /\ stage[t] = "wrap"
    BY <1>8 DEF Wrap, OverInv
  <2>4. depth = HookedTo(p) /\ \A m \in Before(p) : saved[t][m] = 0
    BY <2>3 DEF ThreadInv
  <2>5. depth[n] = 0
    BY <2>1, <2>2, <2>4 DEF HookedTo
  <2> HIDE DEF n, p
  <2>6. /\ saved' = [saved EXCEPT ![t][n] = depth[n]]
        /\ depth' = [depth EXCEPT ![n] = @ + 1]
        /\ pos' = [pos EXCEPT ![t] = @ + 1]
        /\ UNCHANGED <<override, startEnv, stage, want, prev, session, requests, answered>>
    BY <1>8 DEF Wrap, session, n, p
  <2>7. pos'[t] = p + 1
    BY <1>0, <2>6 DEF p
  <2>8. depth' = HookedTo(p + 1)
    <3>1. depth' \in [Instrumented -> Nat] /\ HookedTo(p + 1) \in [Instrumented -> Nat]
      BY <1>0, <2>1, <2>6 DEF HookedTo
    <3>2. ASSUME NEW m \in Instrumented PROVE depth'[m] = HookedTo(p + 1)[m]
      BY <1>0, <2>1, <2>2, <2>4, <2>5, <2>6 DEF HookedTo
    <3> QED
      BY <3>1, <3>2
  <2>9. ASSUME NEW m \in Before(p + 1) PROVE saved'[t][m] = 0
    BY <1>0, <2>1, <2>2, <2>4, <2>5, <2>6
  <2>10. HookedTo(pos'[t]) = HookedTo(p + 1) /\ Before(pos'[t]) = Before(p + 1)
    BY <2>7
  <2>11. ThreadInv(t)'
    BY <2>3, <2>6, <2>8, <2>9, <2>10 DEF ThreadInv, HookedTo, session
  <2> QED
    BY <1>3, <1>4, <1>5, <2>3, <2>6, <2>11
<1>15. ASSUME NEW t \in Threads, Refuse(t) PROVE OverInv'
  <2>1. ThreadInv(t) /\ stage[t] = "wrap" /\ pos[t] = 1 /\ stage'[t] = "reset"
    BY <1>0, <1>15 DEF Refuse, OverInv
  <2>2. depth = Bare
    <3>1. depth = HookedTo(1)
      BY <2>1 DEF ThreadInv
    <3> QED
      BY <3>1, BeforeFacts DEF HookedTo, Bare
  <2>3. ThreadInv(t)'
    BY <1>15, <2>1, <2>2 DEF Refuse, session, ThreadInv
  <2> QED
    BY <1>3, <1>4, <1>5, <1>15, <2>1, <2>3 DEF Refuse, session
<1>9. ASSUME NEW t \in Threads, Wrapped(t) PROVE OverInv'
  <2>1. ThreadInv(t) /\ stage[t] = "wrap" /\ stage'[t] = "run" /\ pos'[t] = 1
    BY <1>0, <1>9 DEF Wrapped, OverInv
  <2>2. Before(pos[t]) = Instrumented
    BY <1>0, <1>9, BeforeFacts DEF Wrapped, session
  <2>3. /\ \A n \in Instrumented : depth[n] = 1
        /\ \A n \in Instrumented : saved[t][n] = 0
    BY <2>1, <2>2 DEF ThreadInv, HookedTo
  <2>4. given[t] = 0 /\ trace[t] = {} /\ lost[t] = {}
    BY <2>1 DEF ThreadInv
  <2>6. \A v : \A s \in ScriptUnder(v) : ~(s.id < 1)
    BY ScriptFacts DEF ScriptUnder
  <2>5. ThreadInv(t)'
    BY <1>9, <2>1, <2>3, <2>4, <2>6, ScriptFacts DEF Wrapped, session, ThreadInv
  <2> QED
    BY <1>3, <1>4, <1>5, <1>9, <2>1, <2>5 DEF Wrapped, session
<1>10. ASSUME NEW t \in Threads, CallNext(t) PROVE OverInv'
  <2> DEFINE p == pos[t]  n == Script[p]
  <2>1. p \in Nat \ {0} /\ p <= Len(Script) /\ n \in Instrumented
    BY <1>0, <1>10, ScriptFacts DEF CallNext
  <2>2. ThreadInv(t) /\ stage[t] = "run" /\ override = want[t] /\ depth[n] = 1
    BY <1>10, <2>1 DEF CallNext, OverInv, ThreadInv
  <2>3. given[t] = p - 1 /\ lost[t] \subseteq 1 .. p - 1
        /\ trace[t] = {s \in ScriptUnder(want[t]) : s.id < p /\ s.id \notin lost[t]}
    BY <2>2 DEF ThreadInv
  <2>4. Numbers(t, n) = {p}
    BY <2>1, <2>2, <2>3 DEF Numbers
  <2>5. PICK failed \in SUBSET {p} :
          /\ given' = [given EXCEPT ![t] = @ + depth[n]]
          /\ trace' = [trace EXCEPT ![t] = @ \cup {StepOf(i, n) : i \in {p} \ failed}]
          /\ lost' = [lost EXCEPT ![t] = @ \cup failed]
          /\ pos' = [pos EXCEPT ![t] = @ + 1]
          /\ UNCHANGED <<override, depth, startEnv, stage, want, prev, saved, requests, answered>>
    <3>1. /\ UNCHANGED <<override, depth, startEnv, stage, want, prev, saved, requests, answered>>
          /\ pos' = [pos EXCEPT ![t] = @ + 1]
          /\ given' = [given EXCEPT ![t] = @ + depth[n]]
          /\ \E failed \in SUBSET Numbers(t, n) :
               /\ trace' = [trace EXCEPT ![t] = @ \cup {StepOf(i, n) : i \in Numbers(t, n) \ failed}]
               /\ lost' = [lost EXCEPT ![t] = @ \cup failed]
      BY <1>10 DEF CallNext
    <3> QED
      BY <2>4, <3>1
  <2>6. StepOf(p, n) \in ScriptUnder(want[t]) /\ StepOf(p, n).id = p
        /\ \A s \in ScriptUnder(want[t]) : s.id \in Nat /\ (s.id = p => s = StepOf(p, n))
    BY <2>1, <2>2, ScriptFacts DEF StepOf, ScriptUnder
  <2> HIDE DEF p, n
  <2>7. /\ pos'[t] = p + 1 /\ given'[t] = p
        /\ trace'[t] = trace[t] \cup {StepOf(i, n) : i \in {p} \ failed}
        /\ lost'[t] = lost[t] \cup failed
    BY <1>0, <2>1, <2>2, <2>3, <2>5 DEF p
  <2>8. trace'[t] = {s \in ScriptUnder(want[t]) : s.id < p + 1 /\ s.id \notin lost'[t]}
    <3>1. ASSUME NEW s PROVE s \in trace'[t] <=> s \in ScriptUnder(want[t]) /\ s.id < p + 1
                                                 /\ s.id \notin lost'[t]
      <4>1. CASE s \in ScriptUnder(want[t]) /\ s.id # p
        <5>1. s # StepOf(p, n) /\ s.id \notin failed /\ s.id \in Nat
          BY <2>6, <4>1
        <5>2. s \notin {StepOf(i, n) : i \in {p} \ failed}
          BY <5>1
        <5> QED
          BY <2>1, <2>3, <2>7, <4>1, <5>1, <5>2
      <4>2. CASE s \in ScriptUnder(want[t]) /\ s.id = p
        <5>1. s = StepOf(p, n) /\ s \notin trace[t] /\ p \notin lost[t]
          BY <2>1, <2>3, <2>6, <4>2
        <5> QED
          BY <2>1, <2>7, <4>2, <5>1
      <4>3. CASE s \notin ScriptUnder(want[t])
        BY <2>3, <2>6, <2>7, <4>3
      <4> QED
        BY <4>1, <4>2, <4>3
    <3> QED
      BY <3>1
  <2>9. /\ pos'[t] <= Len(Script) + 1 /\ given'[t] = pos'[t] - 1
        /\ lost'[t] \subseteq 1 .. pos'[t] - 1
    <3>1. lost'[t] \subseteq 1 .. p
      <4>1. lost[t] \subseteq 1 .. p /\ failed \subseteq 1 .. p
        BY <2>1, <2>3, <2>5
      <4> QED
        BY <2>7, <4>1
    <3> QED
      BY <2>1, <2>7, <3>1, ScriptFacts
  <2>10. ScriptUnder(want'[t]) = ScriptUnder(want[t])
    BY <2>5
  <2>11. ThreadInv(t)'
    BY <2>2, <2>5, <2>7, <2>8, <2>9, <2>10 DEF ThreadInv
  <2> QED
    BY <1>3, <1>4, <1>5, <2>2, <2>5, <2>11
<1>11. ASSUME NEW t \in Threads, Complete(t) \/ Raise(t) PROVE OverInv'
  <2>1. ThreadInv(t) /\ stage[t] = "run" /\ stage'[t] = "unwrap" /\ pos'[t] = 1
        /\ UNCHANGED <<override, depth, startEnv, want, prev, saved, given, trace, lost>>
        /\ stage' = [stage EXCEPT ![t] = "unwrap"]
    BY <1>0, <1>11 DEF Complete, Raise, OverInv, session
  <2>2. depth = BareTo(1)
    <3>1. \A n \in Instrumented : depth[n] = 1
      BY <2>1 DEF ThreadInv
    <3> QED
      BY <1>0, <3>1, BeforeFacts DEF BareTo
  <2>3. ThreadInv(t)'
    BY <2>1, <2>2 DEF ThreadInv, BareTo
  <2>4. DecisionHonoured'
    <3>1. CASE Raise(t)
      BY <1>5, <3>1 DEF Raise, session
    <3>2. CASE Complete(t)
      <4>1. answered' = [want |-> want[t], trace |-> trace[t], lost |-> lost[t]]
            /\ pos[t] > Len(Script)
        BY <3>2 DEF Complete
      <4>2. pos[t] = Len(Script) + 1
        BY <1>0, <2>1, <4>1, ScriptFacts DEF ThreadInv
      <4>3. /\ trace[t] = {s \in ScriptUnder(want[t]) : s.id < Len(Script) + 1 /\ s.id \notin lost[t]}
            /\ lost[t] \subseteq DOMAIN Script
        BY <2>1, <4>2, ScriptFacts DEF ThreadInv
      <4>4. \A s \in ScriptUnder(want[t]) : s.id < Len(Script) + 1
        BY ScriptFacts DEF ScriptUnder
      <4>5. trace[t] = {s \in ScriptUnder(want[t]) : s.id \notin lost[t]}
        BY <4>3, <4>4
      <4>6. /\ answered'.want = want[t] /\ answered'.trace = trace[t] /\ answered'.lost = lost[t]
        BY <4>1
      <4> QED
        BY <4>3, <4>5, <4>6 DEF DecisionHonoured, ScriptUnder
    <3> QED
      BY <1>11, <3>1, <3>2
  <2> QED
    BY <1>3, <1>4, <2>1, <2>3, <2>4
<1>12. ASSUME NEW t \in Threads, Unwrap(t) PROVE OverInv'
  <2> DEFINE p == pos[t]  n == Hooked[p]
  <2>1. p \in Nat \ {0} /\ p <= Len(Hooked) /\ n \in Instrumented
    BY <1>0, <1>12, HookedFacts DEF Unwrap
  <2>2. Before(p + 1) = Before(p) \cup {n} /\ n \notin Before(p)
    BY <2>1, BeforeFacts
  <2>3. ThreadInv(t) /\ stage[t] = "unwrap"
    BY <1>12 DEF Unwrap, OverInv
  <2>4. depth = BareTo(p) /\ saved[t][n] = 0
    BY <2>1, <2>3 DEF ThreadInv
  <2> HIDE DEF n, p
  <2>5. /\ depth' = [depth EXCEPT ![n] = saved[t][n]]
        /\ pos' = [pos EXCEPT ![t] = @ + 1]
        /\ UNCHANGED <<override, startEnv, stage, want, prev, saved, session, requests, answered>>
    BY <1>12 DEF Unwrap, session, n, p
  <2>6. pos'[t] = p + 1
    BY <1>0, <2>5 DEF p
  <2>7. depth' = BareTo(p + 1)
    <3>1. depth' = [BareTo(p) EXCEPT ![n] = 0]
      BY <2>4, <2>5
    <3>2. \A m \in Instrumented : m \in Before(p + 1) <=> m \in Before(p) \/ m = n
      BY <2>2
    <3> QED
      BY <3>1, <3>2 DEF BareTo
  <2>8. BareTo(pos'[t]) = BareTo(p + 1)
    BY <2>6
  <2>9. ThreadInv(t)'
    BY <2>3, <2>5, <2>7, <2>8 DEF ThreadInv, BareTo, session
  <2> QED
    BY <1>3, <1>4, <1>5, <2>3, <2>5, <2>9
<1>13. ASSUME NEW t \in Threads, Unwrapped(t) PROVE OverInv'
  <2>1. ThreadInv(t) /\ stage[t] = "unwrap" /\ stage'[t] = "reset"
    BY <1>0, <1>13 DEF Unwrapped, OverInv
  <2>2. Before(pos[t]) = Instrumented
    BY <1>0, <1>13, BeforeFacts DEF Unwrapped, session
  <2>3. depth = Bare
    BY <2>1, <2>2 DEF ThreadInv, Bare, BareTo
  <2>4. ThreadInv(t)'
    BY <1>13, <2>1, <2>3 DEF Unwrapped, session, ThreadInv
  <2> QED
    BY <1>3, <1>4, <1>5, <1>13, <2>1, <2>4 DEF Unwrapped, session
<1>14. ASSUME NEW t \in Threads, ResetEnv(t) PROVE OverInv'
  <2>1. ThreadInv(t) /\ stage[t] = "reset" /\ stage'[t] = "idle"
    BY <1>0, <1>14 DEF ResetEnv, OverInv
  <2>2. override' = startEnv' /\ depth' = Bare
    BY <1>14, <2>1 DEF ResetEnv, ThreadInv
  <2>3. ThreadInv(t)' /\ RestoredWhenIdle'
    BY <2>1, <2>2 DEF ThreadInv, RestoredWhenIdle, Bare
  <2> QED
    BY <1>3, <1>5, <1>14, <2>1, <2>3 DEF ResetEnv, session
<1> QED
  BY <1>1, <1>2, <1>6, <1>7, <1>8, <1>9, <1>10, <1>11, <1>12, <1>13, <1>14, <1>15
  DEF OverNext, ThreadStep

LEMMA OverInvariant == ASSUME OneAtATime PROVE OverSpec => []OverInv
<1>1. OverInit => OverInv
  BY DEF OverInit, OverInv, OneRun, ThreadInv, RestoredWhenIdle, DecisionHonoured
<1>2. OverTypeOK /\ WantsValue /\ OverInv /\ [OverNext]_overVars => OverInv'
  BY OverStep
<1> QED
  BY <1>1, <1>2, OverTypeCorrect, PTL DEF OverSpec

\* RestoredWhenIdle: between requests that do not overlap, whatever the agents did,
\* the process is as it was when it started (run_agent.py:57 and 99-103).
THEOREM OverRestores == ASSUME OneAtATime PROVE OverSpec => []RestoredWhenIdle
<1>1. OverInv => RestoredWhenIdle
  BY DEF OverInv
<1> QED
  BY <1>1, OverInvariant, PTL

\* DecisionHonoured: for any agent, any decision and any order of the requests, an
\* answered run has each call of the script under its number, once unless its step was
\* lost, with the value that was asked for (run_agent.py:77-78, session.py:163-166).
THEOREM OverHonours == ASSUME OneAtATime PROVE OverSpec => []DecisionHonoured
<1>1. OverInv => DecisionHonoured
  BY DEF OverInv
<1> QED
  BY <1>1, OverInvariant, PTL

-----------------------------------------------------------------------------
(***************************************************************************)
(* Imports and hosted runs                                                 *)
(***************************************************************************)

\* Only an import goes through its source and the server's environment.
Resolves == \A i \in Requests : phase[i] \in {"resolve", "export"} => i \in Imports

\* ImportTypeOK: for any number of requests, in containers or not.
THEOREM ImportTypeCorrect == ImportSpec => [](ImportTypeOK /\ Resolves)
<1>1. ImportInit => ImportTypeOK /\ Resolves
  BY DEF ImportInit, ImportTypeOK, Resolves, Unset
<1>2. ImportTypeOK /\ Resolves /\ [ImportNext]_importVars => ImportTypeOK' /\ Resolves'
  <2> SUFFICES ASSUME ImportTypeOK, Resolves, [ImportNext]_importVars
               PROVE  ImportTypeOK' /\ Resolves'
    OBVIOUS
  <2> USE DEF ImportTypeOK, Resolves, Goto, Answer
  <2>1. CASE UNCHANGED importVars
    BY <2>1 DEF importVars
  <2>2. ASSUME NEW i \in Requests, Ask(i), UNCHANGED setting PROVE ImportTypeOK' /\ Resolves'
    BY <2>2 DEF Ask, Requests
  <2>3. ASSUME NEW i \in Requests, Resolve(i), UNCHANGED setting
        PROVE  ImportTypeOK' /\ Resolves'
    BY <2>3 DEF Resolve
  <2>4. ASSUME NEW i \in Requests, Export(i), UNCHANGED setting
        PROVE  ImportTypeOK' /\ Resolves'
    <3>1. environ' \in [Names -> Imports \cup {NoValue}]
      BY <2>4 DEF Export, With
    <3> QED
      BY <2>4, <3>1 DEF Export
  <2>5. ASSUME NEW i \in Requests, Launch(i), UNCHANGED setting
        PROVE  ImportTypeOK' /\ Resolves'
    <3>1. Environment(i) \in [Names -> Requests \cup {NoValue}]
      BY DEF Environment, With, Requests
    <3>2. \/ /\ phase' = [phase EXCEPT ![i] = "wait"]
             /\ env' = [env EXCEPT ![i] = Environment(i)]
             /\ driver' = [driver EXCEPT ![i] = "starting"]
             /\ answer' = answer
          \/ /\ phase' = [phase EXCEPT ![i] = "done"]
             /\ answer' = [answer EXCEPT ![i] = "error"]
             /\ UNCHANGED <<env, driver>>
      BY <2>5 DEF Launch
    <3>3. UNCHANGED <<environ, own, code, proxy, agent, status, steps>>
      BY <2>5 DEF Launch
    <3> HIDE DEF Environment
    <3>4. env' \in [Requests -> [Names -> Requests \cup {NoValue}]]
      <4>1. env \in [Requests -> [Names -> Requests \cup {NoValue}]]
        OBVIOUS
      <4>2. env' = env \/ env' = [env EXCEPT ![i] = Environment(i)]
        BY <3>2
      <4> HIDE DEF ImportTypeOK, Resolves
      <4> QED
        BY <3>1, <4>1, <4>2
    <3>5. /\ phase' \in [Requests -> {"idle", "resolve", "export", "launch", "wait", "done"}]
          /\ Resolves'
      BY <3>2
    <3>6. driver' \in [Requests -> {"none", "starting", "recording", "stopping", "exited", "killed"}]
      BY <3>2
    <3>7. answer' \in [Requests -> {NoValue, "ok", "error", "timeout"}]
      BY <3>2
    <3>8. UNCHANGED <<setting, environ, own, code, proxy, agent, status, steps>>
      BY <2>5, <3>3
    <3> HIDE DEF Resolves
    <3> QED
      BY <3>4, <3>5, <3>6, <3>7, <3>8
  <2>6. ASSUME NEW i \in Requests, Timeout(i), UNCHANGED setting
        PROVE  ImportTypeOK' /\ Resolves'
    <3>1. /\ phase' = [phase EXCEPT ![i] = "done"]
          /\ answer' = [answer EXCEPT ![i] = "timeout"]
          /\ UNCHANGED <<environ, own, env, code, status, steps>>
      BY <2>6 DEF Timeout
    <3>2. /\ driver' = driver \/ driver' = [driver EXCEPT ![i] = "killed"]
          /\ proxy' = proxy \/ proxy' = [proxy EXCEPT ![i] = "none"]
          /\ agent' = agent \/ agent' = [agent EXCEPT ![i] = "none"]
      BY <2>6 DEF Timeout
    <3>3. driver' \in [Requests -> {"none", "starting", "recording", "stopping", "exited", "killed"}]
      BY <3>2
    <3>4. proxy' \in [Requests -> {"none", "binding", "up", "dead"}]
      BY <3>2
    <3>5. agent' \in [Requests -> {"none", "running", "exited", "crashed"}]
      BY <3>2
    <3>6. /\ phase' \in [Requests -> {"idle", "resolve", "export", "launch", "wait", "done"}]
          /\ answer' \in [Requests -> {NoValue, "ok", "error", "timeout"}]
          /\ Resolves'
      BY <3>1
    <3> QED
      BY <2>6, <3>1, <3>3, <3>4, <3>5, <3>6
  <2>7. ASSUME NEW i \in Requests, Finalize(i), UNCHANGED setting
        PROVE  ImportTypeOK' /\ Resolves'
    BY <2>7 DEF Finalize
  <2>8. ASSUME NEW i \in Requests, Begin(i), UNCHANGED setting
        PROVE  ImportTypeOK' /\ Resolves'
    <3>1. /\ \/ driver' = [driver EXCEPT ![i] = "recording"]
             \/ driver' = [driver EXCEPT ![i] = "exited"]
          /\ status' = status \/ status' = [status EXCEPT ![i] = "open"]
          /\ agent' = agent \/ agent' = [agent EXCEPT ![i] = "running"]
          /\ proxy' = proxy \/ proxy' = [proxy EXCEPT ![i] = "binding"]
          /\ code' = code \/ code' = [code EXCEPT ![i] = 1]
          /\ UNCHANGED <<environ, own, phase, env, steps, answer>>
      BY <2>8 DEF Begin
    <3>2. driver' \in [Requests -> {"none", "starting", "recording", "stopping", "exited", "killed"}]
      BY <3>1
    <3>3. status' \in [Requests -> {NoValue, "open", "ok", "error"}]
      BY <3>1
    <3>4. agent' \in [Requests -> {"none", "running", "exited", "crashed"}]
      BY <3>1
    <3>5. proxy' \in [Requests -> {"none", "binding", "up", "dead"}]
      BY <3>1
    <3>6. code' \in [Requests -> {NoValue, 0, 1}]
      BY <3>1
    <3>7. UNCHANGED <<environ, own, phase, env, steps, answer>>
      BY <3>1
    <3> QED
      BY <2>8, <3>2, <3>3, <3>4, <3>5, <3>6, <3>7
  <2>9. ASSUME NEW i \in Requests, Bind(i), UNCHANGED setting
        PROVE  ImportTypeOK' /\ Resolves'
    BY <2>9 DEF Bind
  <2>10. ASSUME NEW a \in Requests, Call(a), UNCHANGED setting
         PROVE  ImportTypeOK' /\ Resolves'
    <3>1. PICK i \in Requests :
            /\ steps' = [steps EXCEPT ![i] = Append(@, a)]
            /\ UNCHANGED <<environ, own, phase, env, driver, code, proxy, agent, status, answer>>
      BY <2>10 DEF Call, Reached, Up, Requests
    <3>2. steps' \in [Requests -> Seq(Requests)]
      BY <3>1
    <3> QED
      BY <2>10, <3>1, <3>2
  <2>11. ASSUME NEW a \in Requests, AgentEnds(a), UNCHANGED setting
         PROVE  ImportTypeOK' /\ Resolves'
    BY <2>11 DEF AgentEnds
  <2>12. ASSUME NEW i \in Requests, Stop(i), UNCHANGED setting
         PROVE  ImportTypeOK' /\ Resolves'
    BY <2>12 DEF Stop
  <2>13. ASSUME NEW i \in Requests, Exit(i), UNCHANGED setting
         PROVE  ImportTypeOK' /\ Resolves'
    BY <2>13 DEF Exit
  <2> QED
    BY <2>1, <2>2, <2>3, <2>4, <2>5, <2>6, <2>7, <2>8, <2>9, <2>10, <2>11, <2>12, <2>13
    DEF ImportNext, RequestStep, DriverStep
<1> QED
  BY <1>1, <1>2, PTL DEF ImportSpec

-----------------------------------------------------------------------------
\* What a recorder has done by the time it is launched, stops and is gone.
RecorderInv(i) ==
  /\ phase[i] \in {"idle", "resolve", "export", "launch"} =>
       driver[i] = "none" /\ answer[i] = NoValue
  /\ driver[i] \in {"none", "starting"} =>
       agent[i] = "none" /\ proxy[i] = "none" /\ steps[i] = <<>>
  /\ driver[i] \in {"exited", "killed"} => proxy[i] = "none"
  /\ i \in Hosted /\ driver[i] \in {"stopping", "exited", "killed"} => agent[i] # "running"
  /\ i \in Imports /\ driver[i] = "stopping" => status[i] = "ok"
  /\ i \in Imports /\ driver[i] = "exited" =>
       \/ status[i] = "ok" /\ (steps[i] = <<>> => code[i] = 1)
       \/ steps[i] = <<>> /\ code[i] = 1
  /\ i \in Imports /\ answer[i] = "ok" =>
       driver[i] = "exited" /\ status[i] = "ok" /\ steps[i] # <<>>
  /\ phase[i] = "done" /\ ~Docker => driver[i] \in {"none", "exited", "killed"}

RecordersInv == \A i \in Requests : RecorderInv(i)

\* A request that is left alone.
Untouched(j) ==
  /\ phase'[j] = phase[j] /\ driver'[j] = driver[j] /\ agent'[j] = agent[j]
  /\ proxy'[j] = proxy[j] /\ steps'[j] = steps[j] /\ status'[j] = status[j]
  /\ code'[j] = code[j] /\ answer'[j] = answer[j]

LEMMA UntouchedKeeps ==
  ASSUME setting' = setting, NEW j, RecorderInv(j), Untouched(j)
  PROVE  RecorderInv(j)'
BY DEF RecorderInv, Untouched, Docker

\* A call reaches a recorder that listens, or the process it is made in.
LEMMA CallReaches ==
  ASSUME ImportTypeOK, NEW a \in Requests, Call(a)
  PROVE  \E i \in Requests :
           /\ agent[a] = "running"
           /\ i \in Hosted => i = a
           /\ i \notin Hosted => proxy[i] = "up"
           /\ Docker => i = a
           /\ steps' = [steps EXCEPT ![i] = Append(@, a)]
           /\ UNCHANGED <<environ, own, phase, env, driver, code, proxy, agent, status, answer>>
BY RequestsAssumption DEF Call, Reached, Up, Requests

LEMMA RecorderStep ==
  ASSUME ImportTypeOK, Resolves, RecordersInv, [ImportNext]_importVars
  PROVE  RecordersInv'
<1> USE DEF Goto, Answer
<1>0. /\ phase \in [Requests -> {"idle", "resolve", "export", "launch", "wait", "done"}]
      /\ driver \in [Requests -> {"none", "starting", "recording", "stopping", "exited", "killed"}]
      /\ code \in [Requests -> {NoValue, 0, 1}]
      /\ proxy \in [Requests -> {"none", "binding", "up", "dead"}]
      /\ agent \in [Requests -> {"none", "running", "exited", "crashed"}]
      /\ status \in [Requests -> {NoValue, "open", "ok", "error"}]
      /\ steps \in [Requests -> Seq(Requests)]
      /\ answer \in [Requests -> {NoValue, "ok", "error", "timeout"}]
  BY DEF ImportTypeOK
<1>1. CASE UNCHANGED importVars
  BY <1>1 DEF importVars, RecordersInv, RecorderInv, Docker
<1>2. ASSUME NEW i \in Requests, setting' = setting, RecorderInv(i)',
             \A j \in Requests \ {i} : Untouched(j)
      PROVE  RecordersInv'
  BY <1>2, UntouchedKeeps DEF RecordersInv
<1>3. ASSUME NEW i \in Requests, Ask(i), setting' = setting PROVE RecordersInv'
  <2>1. RecorderInv(i)'
    BY <1>0, <1>3 DEF Ask, RecordersInv, RecorderInv
  <2>2. \A j \in Requests \ {i} : Untouched(j)
    BY <1>0, <1>3 DEF Ask, Untouched
  <2> QED
    BY <1>2, <1>3, <2>1, <2>2
<1>4. ASSUME NEW i \in Requests, Resolve(i), setting' = setting PROVE RecordersInv'
  <2>1. RecorderInv(i)'
    BY <1>0, <1>4 DEF Resolve, RecordersInv, RecorderInv
  <2>2. \A j \in Requests \ {i} : Untouched(j)
    BY <1>0, <1>4 DEF Resolve, Untouched
  <2> QED
    BY <1>2, <1>4, <2>1, <2>2
<1>5. ASSUME NEW i \in Requests, Export(i), setting' = setting PROVE RecordersInv'
  <2>1. RecorderInv(i)'
    BY <1>0, <1>5 DEF Export, RecordersInv, RecorderInv
  <2>2. \A j \in Requests \ {i} : Untouched(j)
    BY <1>0, <1>5 DEF Export, Untouched
  <2> QED
    BY <1>2, <1>5, <2>1, <2>2
<1>6. ASSUME NEW i \in Requests, Launch(i), setting' = setting PROVE RecordersInv'
  <2>1. RecorderInv(i)'
    BY <1>0, <1>6 DEF Launch, RecordersInv, RecorderInv
  <2>2. \A j \in Requests \ {i} : Untouched(j)
    BY <1>0, <1>6 DEF Launch, Untouched
  <2> QED
    BY <1>2, <1>6, <2>1, <2>2
<1>7. ASSUME NEW i \in Requests, Timeout(i), setting' = setting PROVE RecordersInv'
  <2>1. RecorderInv(i)'
    <3>1. CASE Docker /\ i \in Imports
      BY <1>0, <1>7, <3>1 DEF Timeout, Waits, RecordersInv, RecorderInv, Docker
    <3>2. CASE ~(Docker /\ i \in Imports)
      <4>1. driver'[i] = "killed" /\ proxy'[i] = "none" /\ answer'[i] = "timeout"
            /\ phase'[i] = "done" /\ (i \in Hosted => agent'[i] = "none")
        BY <1>0, <1>7, <3>2 DEF Timeout
      <4> QED
        BY <4>1 DEF RecorderInv
    <3> QED
      BY <3>1, <3>2
  <2>2. \A j \in Requests \ {i} : Untouched(j)
    BY <1>0, <1>7 DEF Timeout, Untouched
  <2> QED
    BY <1>2, <1>7, <2>1, <2>2
<1>8. ASSUME NEW i \in Requests, Finalize(i), setting' = setting PROVE RecordersInv'
  <2>1. RecorderInv(i)'
    BY <1>0, <1>8, RequestsAssumption DEF Finalize, RecordersInv, RecorderInv
  <2>2. \A j \in Requests \ {i} : Untouched(j)
    BY <1>0, <1>8 DEF Finalize, Untouched
  <2> QED
    BY <1>2, <1>8, <2>1, <2>2
<1>9. ASSUME NEW i \in Requests, Begin(i), setting' = setting PROVE RecordersInv'
  <2>1. RecorderInv(i)'
    BY <1>0, <1>9 DEF Begin, RecordersInv, RecorderInv, Docker
  <2>2. \A j \in Requests \ {i} : Untouched(j)
    BY <1>0, <1>9 DEF Begin, Untouched
  <2> QED
    BY <1>2, <1>9, <2>1, <2>2
<1>10. ASSUME NEW i \in Requests, Bind(i), setting' = setting PROVE RecordersInv'
  <2>1. RecorderInv(i)'
    BY <1>0, <1>10 DEF Bind, RecordersInv, RecorderInv, Docker
  <2>2. \A j \in Requests \ {i} : Untouched(j)
    BY <1>0, <1>10 DEF Bind, Untouched
  <2> QED
    BY <1>2, <1>10, <2>1, <2>2
<1>11. ASSUME NEW a \in Requests, Call(a), setting' = setting PROVE RecordersInv'
  <2>1. PICK i \in Requests :
          /\ agent[a] = "running"
          /\ i \in Hosted => i = a
          /\ i \notin Hosted => proxy[i] = "up"
          /\ steps' = [steps EXCEPT ![i] = Append(@, a)]
          /\ UNCHANGED <<phase, driver, code, proxy, agent, status, answer>>
    BY <1>11, CallReaches
  <2>2. RecorderInv(i) /\ driver[i] \notin {"none", "starting"}
        /\ (i \in Imports => driver[i] # "exited")
    BY <2>1, RequestsAssumption DEF RecordersInv, RecorderInv
  <2>3. steps'[i] # <<>>
    <3>1. steps[i] \in Seq(Requests) /\ steps'[i] = Append(steps[i], a)
      BY <1>0, <2>1
    <3> QED
      BY <3>1
  <2>4. RecorderInv(i)'
    BY <1>11, <2>1, <2>2, <2>3 DEF RecorderInv, Docker
  <2>5. \A j \in Requests \ {i} : Untouched(j)
    BY <1>0, <2>1 DEF Untouched
  <2> QED
    BY <1>2, <1>11, <2>4, <2>5
<1>12. ASSUME NEW i \in Requests, AgentEnds(i), setting' = setting PROVE RecordersInv'
  <2>1. RecorderInv(i)'
    BY <1>0, <1>12 DEF AgentEnds, RecordersInv, RecorderInv, Docker
  <2>2. \A j \in Requests \ {i} : Untouched(j)
    BY <1>0, <1>12 DEF AgentEnds, Untouched
  <2> QED
    BY <1>2, <1>12, <2>1, <2>2
<1>13. ASSUME NEW i \in Requests, Stop(i), setting' = setting PROVE RecordersInv'
  <2>1. RecorderInv(i)'
    BY <1>0, <1>13, RequestsAssumption DEF Stop, RecordersInv, RecorderInv, Docker
  <2>2. \A j \in Requests \ {i} : Untouched(j)
    BY <1>0, <1>13 DEF Stop, Untouched
  <2> QED
    BY <1>2, <1>13, <2>1, <2>2
<1>14. ASSUME NEW i \in Requests, Exit(i), setting' = setting PROVE RecordersInv'
  <2>1. RecorderInv(i)'
    BY <1>0, <1>14, RequestsAssumption DEF Exit, Failed, RecordersInv, RecorderInv, Docker
  <2>2. \A j \in Requests \ {i} : Untouched(j)
    BY <1>0, <1>14 DEF Exit, Untouched
  <2> QED
    BY <1>2, <1>14, <2>1, <2>2
<1> QED
  BY <1>1, <1>3, <1>4, <1>5, <1>6, <1>7, <1>8, <1>9, <1>10, <1>11, <1>12, <1>13, <1>14
  DEF ImportNext, RequestStep, DriverStep

LEMMA RecordersInvariant == ImportSpec => []RecordersInv
<1>1. ImportInit => RecordersInv
  BY NoValueAssumption DEF ImportInit, RecordersInv, RecorderInv
<1>2. ImportTypeOK /\ Resolves /\ RecordersInv /\ [ImportNext]_importVars => RecordersInv'
  BY RecorderStep
<1> QED
  BY <1>1, <1>2, ImportTypeCorrect, PTL DEF ImportSpec

\* Once its recorder is gone, and it never comes back, nothing is recorded for a request.
LEMMA DoneStays ==
  ASSUME ImportTypeOK, RecordersInv, [ImportNext]_importVars,
         NEW i \in Requests, ~Docker, phase[i] = "done"
  PROVE  steps'[i] = steps[i] /\ status'[i] = status[i]
<1> USE DEF Goto, Answer
<1>0. /\ status \in [Requests -> {NoValue, "open", "ok", "error"}]
      /\ steps \in [Requests -> Seq(Requests)]
  BY DEF ImportTypeOK
<1>1. driver[i] \in {"none", "exited", "killed"} /\ agent[i] \in {"none", "running", "exited", "crashed"}
  BY DEF RecordersInv, RecorderInv, ImportTypeOK
<1>2. proxy[i] = "none" /\ (i \in Hosted => agent[i] # "running")
  BY <1>1 DEF RecordersInv, RecorderInv
<1>3. CASE UNCHANGED importVars
  BY <1>3 DEF importVars
<1>4. ASSUME NEW j \in Requests, Ask(j) \/ RequestStep(j) \/ Bind(j) \/ AgentEnds(j) \/ Exit(j)
      PROVE  steps' = steps /\ status' = status
  BY <1>4 DEF Ask, RequestStep, Resolve, Export, Launch, Timeout, Finalize, Bind, AgentEnds, Exit
<1>5. ASSUME NEW j \in Requests, Begin(j) \/ Stop(j)
      PROVE  steps'[i] = steps[i] /\ status'[i] = status[i]
  <2>1. j # i
    BY <1>1, <1>5 DEF Begin, Stop
  <2> QED
    BY <1>0, <1>5, <2>1 DEF Begin, Stop
<1>6. ASSUME NEW a \in Requests, Call(a)
      PROVE  steps'[i] = steps[i] /\ status'[i] = status[i]
  <2>1. PICK j \in Requests :
          /\ agent[a] = "running"
          /\ j \in Hosted => j = a
          /\ j \notin Hosted => proxy[j] = "up"
          /\ steps' = [steps EXCEPT ![j] = Append(@, a)]
          /\ status' = status
    BY <1>6, CallReaches
  <2>2. j # i
    BY <1>2, <2>1
  <2> QED
    BY <1>0, <2>1, <2>2
<1> QED
  BY <1>3, <1>4, <1>5, <1>6 DEF ImportNext, DriverStep

\* AnsweredIsFinal: what a client was told of an import that is ok stays true, and
\* a recorder that the server has given up adds nothing to its run, without Docker.
THEOREM AnswersAreFinal == ImportSpec => AnsweredIsFinal
<1>1. RecordersInv => \A i \in Imports : answer[i] = "ok" => status[i] = "ok" /\ steps[i] # <<>>
  BY DEF RecordersInv, RecorderInv, Requests
<1>2. ImportTypeOK /\ RecordersInv /\ [ImportNext]_importVars =>
        [\A i \in Requests : ~Docker /\ phase[i] = "done" =>
           steps'[i] = steps[i] /\ status'[i] = status[i]]_importVars
  BY DoneStays
<1> QED
  BY <1>1, <1>2, ImportTypeCorrect, RecordersInvariant, PTL DEF ImportSpec, AnsweredIsFinal

-----------------------------------------------------------------------------
\* A recorder or an agent that is at work has a thread that waits for it, or one
\* that gave it up.
LiveInv(i) ==
  /\ agent[i] = "running" \/ driver[i] \in {"starting", "recording", "stopping"} =>
       phase[i] = "wait" \/ answer[i] = "timeout"
  /\ driver[i] \in {"stopping", "exited"} => agent[i] # "running"

LivesInv == \A i \in Requests : LiveInv(i)

LEMMA LiveStep ==
  ASSUME ImportTypeOK, RecordersInv, LivesInv, [ImportNext]_importVars
  PROVE  LivesInv'
<1> USE DEF Goto, Answer
<1>0. /\ phase \in [Requests -> {"idle", "resolve", "export", "launch", "wait", "done"}]
      /\ driver \in [Requests -> {"none", "starting", "recording", "stopping", "exited", "killed"}]
      /\ agent \in [Requests -> {"none", "running", "exited", "crashed"}]
      /\ answer \in [Requests -> {NoValue, "ok", "error", "timeout"}]
  BY DEF ImportTypeOK
<1>1. CASE UNCHANGED <<phase, driver, agent, answer>>
  BY <1>1 DEF LivesInv, LiveInv
<1>2. ASSUME NEW i \in Requests, LiveInv(i)',
             \A j \in Requests \ {i} : /\ phase'[j] = phase[j] /\ driver'[j] = driver[j]
                                       /\ agent'[j] = agent[j] /\ answer'[j] = answer[j]
      PROVE  LivesInv'
  BY <1>2 DEF LivesInv, LiveInv
<1>3. ASSUME NEW i \in Requests, Ask(i) \/ Resolve(i) \/ Export(i) \/ Launch(i) PROVE LivesInv'
  <2>1. phase[i] \in {"idle", "resolve", "export", "launch"}
    BY <1>3 DEF Ask, Resolve, Export, Launch
  <2>2. driver[i] = "none" /\ agent[i] = "none"
    BY <2>1 DEF RecordersInv, RecorderInv
  <2>3. agent' = agent /\ \/ driver'[i] = "none"
                          \/ driver'[i] = "starting" /\ phase'[i] = "wait"
    BY <1>0, <1>3, <2>2 DEF Ask, Resolve, Export, Launch
  <2>4. LiveInv(i)'
    BY <2>2, <2>3 DEF LiveInv
  <2>5. \A j \in Requests \ {i} : /\ phase'[j] = phase[j] /\ driver'[j] = driver[j]
                                  /\ agent'[j] = agent[j] /\ answer'[j] = answer[j]
    BY <1>0, <1>3 DEF Ask, Resolve, Export, Launch
  <2> QED
    BY <1>2, <2>4, <2>5
<1>4. ASSUME NEW i \in Requests, Timeout(i) PROVE LivesInv'
  <2>1. LiveInv(i)'
    BY <1>0, <1>4 DEF Timeout, Waits, LivesInv, LiveInv
  <2>2. \A j \in Requests \ {i} : /\ phase'[j] = phase[j] /\ driver'[j] = driver[j]
                                  /\ agent'[j] = agent[j] /\ answer'[j] = answer[j]
    BY <1>0, <1>4 DEF Timeout
  <2> QED
    BY <1>2, <2>1, <2>2
<1>5. ASSUME NEW i \in Requests, Finalize(i) PROVE LivesInv'
  <2>1. LiveInv(i)'
    BY <1>0, <1>5 DEF Finalize, LivesInv, LiveInv
  <2>2. \A j \in Requests \ {i} : /\ phase'[j] = phase[j] /\ driver'[j] = driver[j]
                                  /\ agent'[j] = agent[j] /\ answer'[j] = answer[j]
    BY <1>0, <1>5 DEF Finalize
  <2> QED
    BY <1>2, <2>1, <2>2
<1>6. ASSUME NEW i \in Requests, Begin(i) \/ AgentEnds(i) \/ Stop(i) \/ Exit(i) PROVE LivesInv'
  <2>0. driver[i] = "starting" => agent[i] = "none"
    BY DEF RecordersInv, RecorderInv
  <2>1. CASE Begin(i)
    BY <1>0, <2>0, <2>1 DEF Begin, LivesInv, LiveInv
  <2>2. CASE AgentEnds(i)
    BY <1>0, <2>2 DEF AgentEnds, LivesInv, LiveInv
  <2>3. CASE Stop(i)
    BY <1>0, <2>3 DEF Stop, LivesInv, LiveInv
  <2>4. CASE Exit(i)
    BY <1>0, <2>4 DEF Exit, LivesInv, LiveInv
  <2> QED
    BY <1>6, <2>1, <2>2, <2>3, <2>4
<1>7. ASSUME NEW i \in Requests, Bind(i) \/ Call(i) PROVE LivesInv'
  BY <1>1, <1>7 DEF Bind, Call
<1> QED
  BY <1>1, <1>3, <1>4, <1>5, <1>6, <1>7 DEF ImportNext, RequestStep, DriverStep, importVars

-----------------------------------------------------------------------------
\* The values in the server's environment were exported by the requests they come
\* from.
Passed(j) == phase[j] \notin {"idle", "resolve", "export"}

Exported == \A n \in Names, j \in Requests : environ[n] = j => n \in own[j] /\ Passed(j)

LEMMA ExportedStep ==
  ASSUME ImportTypeOK, Exported, [ImportNext]_importVars
  PROVE  Exported'
<1> USE DEF Goto, Answer
<1>0. /\ phase \in [Requests -> {"idle", "resolve", "export", "launch", "wait", "done"}]
      /\ environ \in [Names -> Imports \cup {NoValue}]
  BY DEF ImportTypeOK
<1>1. own' = own
  BY DEF ImportNext, Ask, RequestStep, Resolve, Export, Launch, Timeout, Finalize, DriverStep,
         Begin, Bind, Call, AgentEnds, Stop, Exit, importVars
<1>2. ASSUME NEW j \in Requests, Passed(j) PROVE Passed(j)'
  <2>1. ASSUME NEW i \in Requests, Ask(i) \/ RequestStep(i) PROVE Passed(j)'
    BY <1>0, <1>2, <2>1
       DEF Passed, Ask, RequestStep, Resolve, Export, Launch, Timeout, Waits, Finalize
  <2>2. ASSUME NEW i \in Requests, DriverStep(i) PROVE phase' = phase
    BY <2>2 DEF DriverStep, Begin, Bind, Call, AgentEnds, Stop, Exit
  <2>3. UNCHANGED importVars => phase' = phase
    BY DEF importVars
  <2> QED
    BY <1>2, <2>1, <2>2, <2>3 DEF ImportNext, Passed
<1>3. CASE environ' = environ
  BY <1>1, <1>2, <1>3 DEF Exported
<1>4. ASSUME NEW i \in Requests, Export(i) PROVE Exported'
  <2>1. environ' = With(environ, i) /\ Passed(i)'
    BY <1>0, <1>4 DEF Export, Passed
  <2>2. \A n \in Names : environ'[n] = IF n \in own[i] THEN i ELSE environ[n]
    BY <2>1 DEF With
  <2>3. ASSUME NEW n \in Names, NEW j \in Requests, environ'[n] = j
        PROVE  n \in own'[j] /\ Passed(j)'
    <3>1. CASE n \in own[i]
      BY <1>1, <2>1, <2>2, <2>3, <3>1
    <3>2. CASE n \notin own[i]
      BY <1>1, <1>2, <2>2, <2>3, <3>2 DEF Exported
    <3> QED
      BY <3>1, <3>2
  <2> QED
    BY <2>3 DEF Exported
<1> QED
  BY <1>3, <1>4
  DEF ImportNext, Ask, RequestStep, Resolve, Launch, Timeout, Finalize, DriverStep,
      Begin, Bind, Call, AgentEnds, Stop, Exit, importVars

-----------------------------------------------------------------------------
Busy(i) == phase[i] \notin {"idle", "done"}

\* With one request at a time, the server's variables are those of the import it
\* is about to launch.
OwnInv ==
  /\ \A i, j \in Requests : Busy(i) /\ Busy(j) => i = j
  /\ \A i \in Imports : phase[i] = "launch" => \A n \in own[i] : environ[n] = i

LEMMA OwnStep ==
  ASSUME ImportTypeOK, Resolves, setting.serial => OwnInv, [ImportNext]_importVars
  PROVE  (setting.serial => OwnInv)'
<1> USE DEF Goto, Answer
<1>0. /\ phase \in [Requests -> {"idle", "resolve", "export", "launch", "wait", "done"}]
      /\ environ \in [Names -> Imports \cup {NoValue}]
      /\ own \in [Requests -> SUBSET Names]
      /\ Imports \subseteq Requests
  BY DEF ImportTypeOK, Requests
<1>1. own' = own /\ setting' = setting
  BY DEF ImportNext, Ask, RequestStep, Resolve, Export, Launch, Timeout, Finalize, DriverStep,
         Begin, Bind, Call, AgentEnds, Stop, Exit, importVars
<1> SUFFICES ASSUME setting.serial, OwnInv PROVE OwnInv'
  BY <1>1
<1>2. CASE UNCHANGED <<environ, phase>>
  BY <1>1, <1>2 DEF OwnInv, Busy
<1>3. ASSUME NEW i \in Requests, environ' = environ,
             Busy(i) \/ (\A j \in Requests : ~Busy(j)),
             \A j \in Requests \ {i} : phase'[j] = phase[j],
             phase'[i] = "launch" => i \notin Imports
      PROVE  OwnInv'
  <2>1. \A j \in Requests : Busy(j)' => j = i
    BY <1>3 DEF OwnInv, Busy
  <2>2. \A j \in Imports : ~(phase'[j] = "launch")
    BY <1>0, <1>3, <2>1 DEF Busy
  <2> QED
    BY <2>1, <2>2 DEF OwnInv
<1>4. ASSUME NEW i \in Requests, Ask(i) PROVE OwnInv'
  <2>1. \A j \in Requests : ~Busy(j)
    BY <1>4 DEF Ask, Busy
  <2>2. phase'[i] = "launch" => i \notin Imports
    BY <1>0, <1>4, RequestsAssumption DEF Ask
  <2>3. environ' = environ /\ \A j \in Requests \ {i} : phase'[j] = phase[j]
    BY <1>0, <1>4 DEF Ask
  <2> QED
    BY <1>3, <2>1, <2>2, <2>3
<1>5. ASSUME NEW i \in Requests, Resolve(i) \/ Launch(i) \/ Timeout(i) \/ Finalize(i)
      PROVE  OwnInv'
  <2>1. Busy(i) /\ phase'[i] # "launch"
    BY <1>0, <1>5 DEF Resolve, Launch, Timeout, Waits, Finalize, Busy
  <2>2. environ' = environ /\ \A j \in Requests \ {i} : phase'[j] = phase[j]
    BY <1>0, <1>5 DEF Resolve, Launch, Timeout, Finalize
  <2> QED
    BY <1>3, <2>1, <2>2
<1>6. ASSUME NEW i \in Requests, Export(i) PROVE OwnInv'
  <2>1. /\ \A j \in Requests \ {i} : phase'[j] = phase[j]
        /\ environ' = With(environ, i) /\ Busy(i)
    BY <1>0, <1>6 DEF Export, Busy
  <2>2. \A j \in Requests : Busy(j)' => j = i
    BY <2>1 DEF OwnInv, Busy
  <2>3. \A n \in own[i] : environ'[n] = i
    BY <1>0, <2>1 DEF With
  <2>4. \A j \in Imports : phase'[j] = "launch" => \A n \in own'[j] : environ'[n] = j
    BY <1>0, <1>1, <2>2, <2>3 DEF Busy
  <2> QED
    BY <2>2, <2>4 DEF OwnInv
<1>7. ASSUME NEW i \in Requests, DriverStep(i) PROVE OwnInv'
  BY <1>2, <1>7 DEF DriverStep, Begin, Bind, Call, AgentEnds, Stop, Exit
<1> QED
  BY <1>2, <1>4, <1>5, <1>6, <1>7 DEF ImportNext, RequestStep, importVars

-----------------------------------------------------------------------------
\* The call of a stranger comes from the host, by the recorder of a request that is
\* waited for.
LEMMA CallOfStranger ==
  ASSUME ImportTypeOK, RecordersInv, LivesInv, setting.serial => OwnInv,
         [ImportNext]_importVars,
         NEW i \in Requests, NEW j \in Requests, i # j
  PROVE  CallExplained(i, j)
<1> SUFFICES ASSUME steps'[i] = Append(steps[i], j)
             PROVE  ~Docker /\ (answer[j] = "timeout" \/ (phase[j] = "wait" /\ ~setting.serial))
  BY DEF CallExplained
<1>0. steps \in [Requests -> Seq(Requests)] /\ steps[i] \in Seq(Requests)
  BY DEF ImportTypeOK
<1>1. steps'[i] # steps[i]
  BY <1>0
<1>2. PICK a \in Requests : Call(a)
  <2>1. steps' = steps \/ \E a \in Requests : Call(a)
    BY DEF ImportNext, Ask, RequestStep, Resolve, Export, Launch, Timeout, Finalize, DriverStep,
           Begin, Bind, AgentEnds, Stop, Exit, importVars
  <2> QED
    BY <1>1, <2>1
<1>3. PICK k \in Requests :
        /\ agent[a] = "running"
        /\ k \in Hosted => k = a
        /\ k \notin Hosted => proxy[k] = "up"
        /\ Docker => k = a
        /\ steps' = [steps EXCEPT ![k] = Append(@, a)]
  BY <1>2, CallReaches
<1>4. k = i
  BY <1>0, <1>1, <1>3
<1>5. a = j
  <2>1. Append(steps[i], a) = Append(steps[i], j)
    BY <1>0, <1>3, <1>4
  <2> QED
    BY <1>0, <2>1
<1>6. ~Docker /\ proxy[i] = "up" /\ agent[j] = "running"
  BY <1>3, <1>4, <1>5
<1>7. phase[i] = "wait"
  BY <1>6 DEF ImportTypeOK, RecordersInv, RecorderInv
<1>8. phase[j] = "wait" \/ answer[j] = "timeout"
  BY <1>6 DEF LivesInv, LiveInv
<1>9. phase[j] = "wait" => ~setting.serial
  BY <1>7 DEF OwnInv, Busy
<1> QED
  BY <1>6, <1>8, <1>9

LEMMA ValueOfStranger ==
  ASSUME ImportTypeOK, Exported, setting.serial => OwnInv, [ImportNext]_importVars,
         NEW i \in Requests, NEW j \in Requests, i # j, NEW n \in Names
  PROVE  ValueExplained(i, j, n)
<1> SUFFICES ASSUME env[i][n] # j, env'[i][n] = j
             PROVE  /\ n \in own[j] /\ Passed(j)
                    /\ IF n \in own[i] THEN ~setting.serial ELSE ~Docker \/ i \in Hosted
  BY DEF ValueExplained, Passed
<1>0. env \in [Requests -> [Names -> Requests \cup {NoValue}]]
  BY DEF ImportTypeOK
<1>1. PICK k \in Requests : Launch(k)
  <2>1. env' = env \/ \E k \in Requests : Launch(k)
    BY DEF ImportNext, Ask, RequestStep, Resolve, Export, Timeout, Finalize, DriverStep,
           Begin, Bind, Call, AgentEnds, Stop, Exit, importVars
  <2> QED
    BY <2>1
<1>2. phase[k] = "launch" /\ (env' = env \/ env' = [env EXCEPT ![k] = Environment(k)])
  BY <1>1 DEF Launch
<1>3. k = i /\ env'[i] = Environment(i)
  BY <1>0, <1>2
<1>4. Environment(i)[n] = j /\ phase[i] = "launch"
  BY <1>2, <1>3
<1>5. environ[n] = j /\ IF n \in own[i] THEN i \in Imports ELSE ~Docker \/ i \in Hosted
  BY <1>4, NoValueAssumption DEF Environment, With, Requests
<1>6. n \in own[j] /\ Passed(j)
  BY <1>5 DEF Exported
<1>7. n \in own[i] => ~setting.serial
  BY <1>4, <1>5 DEF OwnInv
<1> QED
  BY <1>5, <1>6, <1>7

\* StrangersExplained: an agent that calls into another request's run has lost its
\* recorder or has one beside it on the host, and a variable of another request was
\* set by it before, however many requests there are and whatever is given up
\* meanwhile (driver.py:28-75, app.py:437-449 and 472).
THEOREM StrangersAreExplained == ImportSpec => StrangersExplained
<1> DEFINE Inv == LivesInv /\ Exported /\ (setting.serial => OwnInv)
<1>1. ImportInit => Inv
  BY NoValueAssumption
     DEF ImportInit, LivesInv, LiveInv, Exported, OwnInv, Busy, Unset, Requests
<1>2. ImportTypeOK /\ Resolves /\ RecordersInv /\ Inv /\ [ImportNext]_importVars => Inv'
  BY LiveStep, ExportedStep, OwnStep
<1>3. ImportTypeOK /\ RecordersInv /\ Inv /\ [ImportNext]_importVars =>
        [\A i, j \in Requests : i # j =>
           CallExplained(i, j) /\ \A n \in Names : ValueExplained(i, j, n)]_importVars
  BY CallOfStranger, ValueOfStranger
<1> QED
  BY <1>1, <1>2, <1>3, ImportTypeCorrect, RecordersInvariant, PTL
     DEF ImportSpec, StrangersExplained

=============================================================================
