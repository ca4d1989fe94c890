--------------------------- MODULE ReplayerProofs ---------------------------
(***************************************************************************)
(* Proofs about Replayer, for every set of tapes and every number of       *)
(* calls: the state stays well typed, no index hands a step out twice,     *)
(* equal requests are answered in recorded order, a miss is only reported  *)
(* when the recorded answers are used up, and finish() counts exactly the  *)
(* steps handed out.  Then about RerunAgent: an agent that repeats its     *)
(* requests in recorded order is handed its own recorded steps by any of   *)
(* the three lookups, one that repeats them in any order never misses, and *)
(* a complete repetition uses up the tape and meets its failures.          *)
(***************************************************************************)
EXTENDS RerunAgent, FiniteSetTheorems, TLAPS

\* The steps of a well-typed run document.
LEMMA TapeFacts ==
  ASSUME run \in Runs
  PROVE  /\ Tape \in Seq(Steps)
         /\ Len(Tape) \in Nat
         /\ \A p \in Positions : p \in Nat \ {0} /\ Tape[p] \in Steps
         /\ run.recordOver \in BOOLEAN
         /\ run.fork \in Nat
<1>1. run \in RunDocs
  BY RunsAssumption
<1>2. Tape \in Seq(Steps)
  BY <1>1 DEF RunDocs, Tape
<1>3. QED
  BY <1>1, <1>2 DEF RunDocs, Positions

-----------------------------------------------------------------------------
(***************************************************************************)
(* Type correctness                                                        *)
(***************************************************************************)

\* What one answer does to the variables that every call writes.
LEMMA HandOutType ==
  ASSUME TypeOK, NEW p \in Positions, NEW path \in Paths,
         NEW request \in Keys \cup Idents \cup StepTypes \cup {None},
         NEW readable \in BOOLEAN, HandOut(p, path, request, readable)
  PROVE  answer' \in Answers /\ given' \subseteq Paths \X Positions
<1>1. Tape[p].failed \in BOOLEAN /\ p \in Nat
  BY TapeFacts DEF TypeOK, Steps
<1>2. QED
  BY <1>1 DEF TypeOK, HandOut, Answers

LEMMA BuildResponseType ==
  ASSUME TypeOK, NEW p \in Positions, NEW path \in Paths,
         NEW request \in Keys \cup Idents \cup StepTypes \cup {None},
         BuildResponse(p, path, request)
  PROVE  /\ UNCHANGED <<config, synthesized, effects>>
         /\ served' \in Nat /\ errors' \in Nat
         /\ answer' \in Answers /\ given' \subseteq Paths \X Positions
<1>1. answer' \in Answers /\ given' \subseteq Paths \X Positions
  BY HandOutType DEF BuildResponse
<1>2. QED
  BY <1>1 DEF BuildResponse, TypeOK

LEMMA MissType ==
  ASSUME TypeOK, NEW path \in Paths,
         NEW request \in Keys \cup Idents \cup StepTypes \cup {None},
         NEW source \in {"none", "raised"},
         Synthesize(path, request) \/ Refuse(source, path, request)
  PROVE  /\ UNCHANGED <<config, hashQ, identQ, groupQ, served, errors, effects, given>>
         /\ synthesized' \in Nat
         /\ answer' \in Answers
<1>1. CASE Synthesize(path, request)
  BY <1>1 DEF Synthesize, OffTape, Answers, TypeOK
<1>2. CASE Refuse(source, path, request)
  <2>1. answer' \in Answers
    BY <1>2 DEF Refuse, OffTape, Answers
  <2>2. QED
    BY <1>2, <2>1 DEF Refuse, TypeOK, counters
<1>3. QED
  BY <1>1, <1>2

LEMMA HashCallType ==
  ASSUME TypeOK, NEW k \in Keys, NEW t \in Tools \cup {None},
         calls' \in 0 .. MaxCalls, GetResponseForHash(k, t)
  PROVE  TypeOK'
<1>1. CASE HashHit(k)
  <2>1. PICK p \in HashQueue(k) :
          /\ hashQ' = hashQ \ {p}
          /\ BuildResponse(p, "hash", k)
          /\ UNCHANGED <<identQ, groupQ, cursor>>
    BY <1>1 DEF HashHit
  <2>2. p \in Positions
    BY <2>1 DEF HashQueue, TypeOK
  <2>3. QED
    BY <2>1, <2>2, BuildResponseType DEF TypeOK, Paths, config, Tape, Positions
<1>2. CASE HashSibling(k, t)
  <2>1. PICK p \in Siblings(t) :
          /\ groupQ' = groupQ \ {p}
          /\ BuildResponse(p, "sibling", k)
          /\ UNCHANGED <<hashQ, identQ, cursor>>
    BY <1>2 DEF HashSibling
  <2>2. p \in Positions
    BY <2>1 DEF Siblings, TypeOK
  <2>3. QED
    BY <2>1, <2>2, BuildResponseType DEF TypeOK, Paths, config, Tape, Positions
<1>3. CASE HashMiss(k, t) \/ HashRefused(k)
  BY <1>3, MissType DEF HashMiss, HashRefused, TypeOK, Paths, config, Tape, Positions
<1>4. QED
  BY <1>1, <1>2, <1>3 DEF GetResponseForHash

LEMMA IdentCallType ==
  ASSUME TypeOK, NEW i \in Idents, calls' \in 0 .. MaxCalls, ResponseFor(i)
  PROVE  TypeOK'
<1>1. CASE IdentHit(i)
  <2>1. PICK p \in IdentQueue(i) :
          /\ identQ' = identQ \ {p}
          /\ effects' = IF Tape[p].effect /\ Tape[p].payload # "missing"
                          THEN effects + 1 ELSE effects
          /\ HandOut(p, "ident", i, Tape[p].payload # "missing")
          /\ UNCHANGED <<config, hashQ, groupQ, cursor, served, synthesized, errors>>
    BY <1>1 DEF IdentHit
  <2>2. p \in Positions
    BY <2>1 DEF IdentQueue, TypeOK
  <2>3. answer' \in Answers /\ given' \subseteq Paths \X Positions
    BY <2>1, <2>2, HandOutType DEF Paths
  <2>4. effects' = effects \/ effects' = effects + 1
    BY <2>1
  <2>5. UNCHANGED <<run, synthOnMiss, suppress, hashQ, groupQ, cursor, served,
                    synthesized, errors>>
    BY <2>1 DEF config
  <2>6. Positions' = Positions /\ Tape' = Tape
    BY <2>5 DEF Tape, Positions
  <2>7. identQ' \subseteq Positions' /\ effects' \in Nat
    BY <2>1, <2>4, <2>6 DEF TypeOK
  <2>8. QED
    BY <2>3, <2>5, <2>6, <2>7 DEF TypeOK
<1>2. CASE IdentMiss(i) \/ IdentDiverged(i)
  BY <1>2, MissType DEF IdentMiss, IdentDiverged, TypeOK, Paths, config, Tape, Positions
<1>3. QED
  BY <1>1, <1>2 DEF ResponseFor

LEMMA NextCallType ==
  ASSUME TypeOK, NEW ty \in StepTypes, calls' \in 0 .. MaxCalls, GetNextResponse(ty)
  PROVE  TypeOK'
<1> USE TapeFacts DEF TypeOK
<1>1. CASE NextServed(ty)
  <2>1. cursor + 1 \in Positions /\ cursor' \in 0 .. Len(Tape)
    BY <1>1 DEF NextServed, Positions
  <2>2. QED
    BY <1>1, <2>1, BuildResponseType DEF NextServed, Paths, config, Tape, Positions
<1>2. CASE NextMismatch(ty) \/ NextDownstream(ty) \/ NextExhausted(ty)
  <2>1. cursor' \in 0 .. Len(Tape)
    BY <1>2 DEF NextMismatch, NextDownstream, NextExhausted
  <2>2. Synthesize("next", ty) \/ Refuse("raised", "next", ty)
    BY <1>2 DEF NextMismatch, NextDownstream, NextExhausted
  <2>3. QED
    BY <2>1, <2>2, MissType DEF Paths, config, Tape, Positions
<1>3. QED
  BY <1>1, <1>2 DEF GetNextResponse

LEMMA InitType == Init => TypeOK
<1> SUFFICES ASSUME Init PROVE TypeOK
  OBVIOUS
<1>1. Len(Tape) \in Nat
  BY TapeFacts DEF Init
<1>2. QED
  BY <1>1, MaxCallsAssumption DEF Init, TypeOK, OffTape, Answers, Paths

LEMMA NextType == TypeOK /\ [Next]_vars => TypeOK'
<1> SUFFICES ASSUME TypeOK, [Next]_vars PROVE TypeOK'
  OBVIOUS
<1>1. CASE Next
  <2>1. calls' \in 0 .. MaxCalls
    BY <1>1, MaxCallsAssumption DEF Next, Counted, TypeOK
  <2>2. QED
    BY <1>1, <2>1, HashCallType, IdentCallType, NextCallType
    DEF Next, HashCall, IdentCall, NextCall
<1>2. CASE UNCHANGED vars
  BY <1>2 DEF vars, config, indexes, counters, TypeOK, Tape, Positions
<1>3. QED
  BY <1>1, <1>2

\* TypeOK: every call leaves the indexes within the tape and the counters in
\* Nat, for any tape that get_run may return.
THEOREM TypeCorrect == Spec => []TypeOK
  BY InitType, NextType, PTL DEF Spec

-----------------------------------------------------------------------------
(***************************************************************************)
(* The indexes against the history.  GivenInv says that each index still   *)
(* holds exactly the indexed steps that it has not handed out; it is       *)
(* inductive, and the three step properties follow from it.                *)
(***************************************************************************)
GivenInv ==
  /\ \A p \in Positions : p \in hashQ <=> Tape[p].key # None /\ <<"hash", p>> \notin given
  /\ \A p \in Positions : p \in identQ <=> Tape[p].ident # None /\ <<"ident", p>> \notin given
  /\ \A p \in Positions : p \in groupQ <=> Tape[p].group # None /\ <<"sibling", p>> \notin given
  /\ \A p \in Positions : <<"next", p>> \in given => p <= cursor

\* The conjunction of the step properties and of the inductive step.
Preserved == GivenInv' /\ FreshStep /\ OrderedStep /\ MissStep

LEMMA HashHitStep ==
  ASSUME TypeOK, GivenInv, NEW k \in Keys, HashHit(k)
  PROVE  Preserved
<1>1. PICK p \in HashQueue(k) :
        /\ IsFirst(p, HashQueue(k))
        /\ hashQ' = hashQ \ {p}
        /\ BuildResponse(p, "hash", k)
        /\ UNCHANGED <<identQ, groupQ, cursor>>
  BY DEF HashHit
<1>2. p \in Positions /\ p \in hashQ /\ Tape[p].key = k
  BY <1>1 DEF HashQueue, TypeOK
<1>3. answer'.path = "hash" /\ answer'.pos = p /\ answer'.request = k
      /\ given' = given \cup {<<"hash", p>>} /\ run' = run
  BY <1>1 DEF BuildResponse, HandOut, config
<1>4. p \in Nat \ {0} /\ \A q \in Positions : q \in Nat
  BY <1>2, TapeFacts DEF TypeOK
<1>5. \A q \in Positions : q < p /\ Tape[q].key = k => q \notin hashQ
  BY <1>1, <1>2, <1>4 DEF IsFirst, HashQueue
<1>6. k # None
  BY NoneAssumption
<1>7. FreshStep /\ OrderedStep /\ MissStep
  BY <1>2, <1>3, <1>4, <1>5, <1>6 DEF FreshStep, OrderedStep, MissStep, GivenInv
<1>8. GivenInv'
  BY <1>1, <1>2, <1>3 DEF GivenInv, Positions, Tape
<1>9. QED
  BY <1>7, <1>8 DEF Preserved

LEMMA HashSiblingStep ==
  ASSUME TypeOK, GivenInv, NEW k \in Keys, NEW t \in Tools \cup {None}, HashSibling(k, t)
  PROVE  Preserved
<1>1. PICK p \in Siblings(t) :
        /\ groupQ' = groupQ \ {p}
        /\ BuildResponse(p, "sibling", k)
        /\ UNCHANGED <<hashQ, identQ, cursor>>
  BY DEF HashSibling
<1>2. p \in Positions /\ p \in groupQ
  BY <1>1 DEF Siblings, TypeOK
<1>3. answer'.path = "sibling" /\ answer'.pos = p /\ answer'.request = k
      /\ given' = given \cup {<<"sibling", p>>} /\ run' = run
  BY <1>1 DEF BuildResponse, HandOut, config
<1>4. \A q \in Positions : Tape[q].key = k => q \notin hashQ
  BY DEF HashSibling, HashQueue
<1>5. k # None
  BY NoneAssumption
<1>6. FreshStep /\ OrderedStep /\ MissStep
  BY <1>2, <1>3, <1>4, <1>5 DEF FreshStep, OrderedStep, MissStep, GivenInv
<1>7. GivenInv'
  BY <1>1, <1>2, <1>3 DEF GivenInv, Positions, Tape
<1>8. QED
  BY <1>6, <1>7 DEF Preserved

LEMMA HashMissStep ==
  ASSUME TypeOK, GivenInv, NEW k \in Keys, NEW t \in Tools \cup {None},
         HashMiss(k, t) \/ HashRefused(k)
  PROVE  Preserved
<1>1. answer'.path = "hash" /\ answer'.pos = 0 /\ answer'.request = k
  BY DEF HashMiss, HashRefused, Synthesize, Refuse, OffTape
<1>2. UNCHANGED <<config, hashQ, identQ, groupQ, cursor, given>>
  BY DEF HashMiss, HashRefused, Synthesize, Refuse
<1>3. \A q \in Positions : Tape[q].key = k => q \notin hashQ
  BY DEF HashMiss, HashRefused, HashQueue
<1>4. k # None
  BY NoneAssumption
<1>5. FreshStep /\ OrderedStep /\ MissStep
  BY <1>1, <1>3, <1>4 DEF FreshStep, OrderedStep, MissStep, GivenInv
<1>6. GivenInv'
  BY <1>2 DEF GivenInv, Positions, Tape, config
<1>7. QED
  BY <1>5, <1>6 DEF Preserved

LEMMA IdentCallStep ==
  ASSUME TypeOK, GivenInv, NEW i \in Idents, ResponseFor(i)
  PROVE  Preserved
<1>1. CASE IdentHit(i)
  <2>1. PICK p \in IdentQueue(i) :
          /\ IsFirst(p, IdentQueue(i))
          /\ identQ' = identQ \ {p}
          /\ HandOut(p, "ident", i, Tape[p].payload # "missing")
          /\ UNCHANGED <<config, hashQ, groupQ, cursor>>
    BY <1>1 DEF IdentHit
  <2>2. p \in Positions /\ p \in identQ /\ Tape[p].ident = i
    BY <2>1 DEF IdentQueue, TypeOK
  <2>3. answer'.path = "ident" /\ answer'.pos = p /\ answer'.request = i
        /\ given' = given \cup {<<"ident", p>>} /\ run' = run
    BY <2>1 DEF HandOut, config
  <2>4. p \in Nat \ {0} /\ \A q \in Positions : q \in Nat
    BY <2>2, TapeFacts DEF TypeOK
  <2>5. \A q \in Positions : q < p /\ Tape[q].ident = i => q \notin identQ
    BY <2>1, <2>2, <2>4 DEF IsFirst, IdentQueue
  <2>6. i # None
    BY NoneAssumption
  <2>7. FreshStep /\ OrderedStep /\ MissStep
    BY <2>2, <2>3, <2>4, <2>5, <2>6 DEF FreshStep, OrderedStep, MissStep, GivenInv
  <2>8. GivenInv'
    BY <2>1, <2>2, <2>3 DEF GivenInv, Positions, Tape
  <2>9. QED
    BY <2>7, <2>8 DEF Preserved
<1>2. CASE IdentMiss(i) \/ IdentDiverged(i)
  <2>1. answer'.path = "ident" /\ answer'.pos = 0 /\ answer'.request = i
    BY <1>2 DEF IdentMiss, IdentDiverged, Synthesize, Refuse, OffTape
  <2>2. UNCHANGED <<config, hashQ, identQ, groupQ, cursor, given>>
    BY <1>2 DEF IdentMiss, IdentDiverged, Synthesize, Refuse
  <2>3. \A q \in Positions : Tape[q].ident = i => q \notin identQ
    BY <1>2 DEF IdentMiss, IdentDiverged, IdentQueue
  <2>4. i # None
    BY NoneAssumption
  <2>5. FreshStep /\ OrderedStep /\ MissStep
    BY <2>1, <2>3, <2>4 DEF FreshStep, OrderedStep, MissStep, GivenInv
  <2>6. GivenInv'
    BY <2>2 DEF GivenInv, Positions, Tape, config
  <2>7. QED
    BY <2>5, <2>6 DEF Preserved
<1>3. QED
  BY <1>1, <1>2 DEF ResponseFor

LEMMA NextCallStep ==
  ASSUME TypeOK, GivenInv, NEW ty \in StepTypes, GetNextResponse(ty)
  PROVE  Preserved
<1>1. answer'.path = "next" /\ run' = run /\ UNCHANGED <<hashQ, identQ, groupQ>>
  BY DEF GetNextResponse, NextServed, NextMismatch, NextDownstream, NextExhausted,
         BuildResponse, HandOut, Synthesize, Refuse, OffTape, config
<1>2. OrderedStep /\ MissStep
  BY <1>1 DEF OrderedStep, MissStep
<1>3. cursor \in Nat /\ \A q \in Positions : q \in Nat
  BY TapeFacts DEF TypeOK
<1>4. CASE NextServed(ty)
  <2>1. cursor' = cursor + 1 /\ answer'.pos = cursor + 1
        /\ given' = given \cup {<<"next", cursor + 1>>}
    BY <1>4 DEF NextServed, BuildResponse, HandOut
  <2>2. cursor + 1 \in Positions
    BY <1>3, <1>4, TapeFacts DEF NextServed, Positions, TypeOK
  <2>3. FreshStep
    BY <1>1, <1>3, <2>1, <2>2 DEF FreshStep, GivenInv
  <2>4. GivenInv'
    BY <1>1, <1>3, <2>1 DEF GivenInv, Positions, Tape
  <2>5. QED
    BY <1>2, <2>3, <2>4 DEF Preserved
<1>5. CASE NextMismatch(ty) \/ NextDownstream(ty) \/ NextExhausted(ty)
  <2>1. answer'.pos = 0 /\ given' = given
        /\ (cursor' = cursor \/ cursor' = cursor + 1)
    BY <1>5 DEF NextMismatch, NextDownstream, NextExhausted, Synthesize, Refuse, OffTape
  <2>2. GivenInv'
    BY <1>1, <1>3, <2>1 DEF GivenInv, Positions, Tape
  <2>3. QED
    BY <1>2, <2>1, <2>2 DEF Preserved, FreshStep
<1>6. QED
  BY <1>4, <1>5 DEF GetNextResponse

LEMMA CallStep == TypeOK /\ GivenInv /\ Next => Preserved
  BY HashHitStep, HashSiblingStep, HashMissStep, IdentCallStep, NextCallStep
  DEF Next, HashCall, IdentCall, NextCall, GetResponseForHash

LEMMA GivenCorrect == Spec => []GivenInv
<1>1. Init => GivenInv
  BY DEF Init, GivenInv
<1>2. TypeOK /\ GivenInv /\ [Next]_vars => GivenInv'
  <2>1. GivenInv /\ UNCHANGED vars => GivenInv'
    BY DEF GivenInv, vars, config, indexes, Positions, Tape
  <2>2. QED
    BY <2>1, CallStep DEF Preserved
<1>3. QED
  BY <1>1, <1>2, TypeCorrect, PTL DEF Spec

\* RecordedOrder holds of every tape.
THEOREM AnswersInOrder == Spec => RecordedOrder
<1>1. TypeOK /\ GivenInv /\ [Next]_vars => [FreshStep /\ OrderedStep]_vars /\ [MissStep]_vars
  BY CallStep DEF Preserved
<1>2. QED
  BY <1>1, TypeCorrect, GivenCorrect, PTL DEF Spec, RecordedOrder

-----------------------------------------------------------------------------
(***************************************************************************)
(* The counters that finish() reports                                      *)
(***************************************************************************)

Failed(G) == {g \in G : Tape[g[2]].failed}

LEMMA FiniteGiven ==
  ASSUME TypeOK
  PROVE  IsFiniteSet(given) /\ IsFiniteSet(Counting) /\ IsFiniteSet(Failed(Counting))
<1>1. IsFiniteSet(Positions)
  BY TapeFacts, FS_Interval DEF Positions, TypeOK
<1>2. IsFiniteSet(Paths)
  <2>1. IsFiniteSet({}) /\ Paths = ((({} \cup {"hash"}) \cup {"sibling"}) \cup {"ident"}) \cup {"next"}
    BY FS_EmptySet DEF Paths
  <2>2. QED
    BY <2>1, FS_AddElement
<1>3. IsFiniteSet(given)
  BY <1>1, <1>2, FS_Product, FS_Subset DEF TypeOK
<1>4. Counting \in SUBSET given /\ Failed(Counting) \in SUBSET given
  BY DEF Counting, Failed
<1>5. QED
  BY <1>3, <1>4, FS_Subset

\* A hand-out through _build_response moves both counters and the tally alike.
LEMMA BuildResponseCounts ==
  ASSUME TypeOK, CountsMatchTape,
         NEW p \in Positions, NEW path \in Paths \ {"ident"}, NEW request,
         BuildResponse(p, path, request), <<path, p>> \notin given
  PROVE  CountsMatchTape'
<1>1. given' = given \cup {<<path, p>>} /\ run' = run
      /\ served' = served + 1
      /\ errors' = IF Tape[p].failed THEN errors + 1 ELSE errors
  BY DEF BuildResponse, HandOut, config
<1>2. Counting' = Counting \cup {<<path, p>>} /\ <<path, p>> \notin Counting
  BY <1>1 DEF Counting
<1>3. Cardinality(Counting') = Cardinality(Counting) + 1
  BY <1>2, FiniteGiven, FS_AddElement
<1>4. CASE Tape[p].failed
  <2>1. Failed(Counting)' = Failed(Counting) \cup {<<path, p>>}
        /\ <<path, p>> \notin Failed(Counting)
    BY <1>1, <1>2, <1>4 DEF Failed, Tape
  <2>2. Cardinality(Failed(Counting)') = Cardinality(Failed(Counting)) + 1
    BY <2>1, FiniteGiven, FS_AddElement
  <2>3. QED
    BY <1>1, <1>3, <1>4, <2>2 DEF CountsMatchTape, Failed
<1>5. CASE ~Tape[p].failed
  <2>1. Failed(Counting)' = Failed(Counting)
    BY <1>1, <1>2, <1>5 DEF Failed, Tape
  <2>2. QED
    BY <1>1, <1>3, <1>5, <2>1 DEF CountsMatchTape, Failed
<1>6. QED
  BY <1>4, <1>5

\* A call that hands out nothing, or hands out by identity, moves neither.
LEMMA OtherCounts ==
  ASSUME CountsMatchTape, run' = run, served' = served, errors' = errors,
         Counting' = Counting
  PROVE  CountsMatchTape'
  BY DEF CountsMatchTape, Tape

LEMMA CallCounts == TypeOK /\ GivenInv /\ CountsMatchTape /\ Next => CountsMatchTape'
<1> SUFFICES ASSUME TypeOK, GivenInv, CountsMatchTape, Next PROVE CountsMatchTape'
  OBVIOUS
<1>1. ASSUME NEW k \in Keys, HashHit(k) PROVE CountsMatchTape'
  <2>1. PICK p \in HashQueue(k) : BuildResponse(p, "hash", k)
    BY <1>1 DEF HashHit
  <2>2. p \in Positions /\ <<"hash", p>> \notin given
    BY <2>1 DEF HashQueue, TypeOK, GivenInv
  <2>3. QED
    BY <2>1, <2>2, BuildResponseCounts DEF Paths
<1>2. ASSUME NEW k \in Keys, NEW t \in Tools \cup {None}, HashSibling(k, t)
      PROVE  CountsMatchTape'
  <2>1. PICK p \in Siblings(t) : BuildResponse(p, "sibling", k)
    BY <1>2 DEF HashSibling
  <2>2. p \in Positions /\ <<"sibling", p>> \notin given
    BY <2>1 DEF Siblings, TypeOK, GivenInv
  <2>3. QED
    BY <2>1, <2>2, BuildResponseCounts DEF Paths
<1>3. ASSUME NEW k \in Keys, NEW t \in Tools \cup {None}, HashMiss(k, t) \/ HashRefused(k)
      PROVE  CountsMatchTape'
  BY <1>3, OtherCounts
  DEF HashMiss, HashRefused, Synthesize, Refuse, counters, config, Counting
<1>4. ASSUME NEW i \in Idents, ResponseFor(i) PROVE CountsMatchTape'
  <2>1. CASE IdentHit(i)
    <3>1. PICK p \in IdentQueue(i) :
            /\ HandOut(p, "ident", i, Tape[p].payload # "missing")
            /\ UNCHANGED <<config, served, errors>>
      BY <2>1 DEF IdentHit
    <3>2. Counting' = Counting
      BY <3>1 DEF HandOut, Counting
    <3>3. QED
      BY <3>1, <3>2, OtherCounts DEF config
  <2>2. CASE IdentMiss(i) \/ IdentDiverged(i)
    BY <2>2, OtherCounts
    DEF IdentMiss, IdentDiverged, Synthesize, Refuse, counters, config, Counting
  <2>3. QED
    BY <1>4, <2>1, <2>2 DEF ResponseFor
<1>5. ASSUME NEW ty \in StepTypes, GetNextResponse(ty) PROVE CountsMatchTape'
  <2>1. CASE NextServed(ty)
    <3>1. cursor + 1 \in Positions /\ BuildResponse(cursor + 1, "next", ty)
      BY <2>1, TapeFacts DEF NextServed, Positions, TypeOK
    <3>2. <<"next", cursor + 1>> \notin given
      BY <3>1, TapeFacts DEF GivenInv, TypeOK
    <3>3. QED
      BY <3>1, <3>2, BuildResponseCounts DEF Paths
  <2>2. CASE NextMismatch(ty) \/ NextDownstream(ty) \/ NextExhausted(ty)
    BY <2>2, OtherCounts
    DEF NextMismatch, NextDownstream, NextExhausted, Synthesize, Refuse,
        counters, config, Counting
  <2>3. QED
    BY <1>5, <2>1, <2>2 DEF GetNextResponse
<1>6. QED
  BY <1>1, <1>2, <1>3, <1>4, <1>5
  DEF Next, HashCall, IdentCall, NextCall, GetResponseForHash

\* CountsMatchTape: steps_replayed and error_step_count are exact on every tape.
THEOREM CountsCorrect == Spec => []CountsMatchTape
<1>1. Init => CountsMatchTape
  BY FS_EmptySet DEF Init, CountsMatchTape, Counting
<1>2. TypeOK /\ GivenInv /\ CountsMatchTape /\ [Next]_vars => CountsMatchTape'
  <2>1. CountsMatchTape /\ UNCHANGED vars => CountsMatchTape'
    BY DEF CountsMatchTape, Counting, vars, config, counters, Tape
  <2>2. QED
    BY <2>1, CallCounts
<1>3. QED
  BY <1>1, <1>2, TypeCorrect, GivenCorrect, PTL DEF Spec

-----------------------------------------------------------------------------
(***************************************************************************)
(* What "ok" means                                                         *)
(***************************************************************************)
HandedOut == {p \in Positions : Replayed(p)}

LEMMA FinitePositions ==
  ASSUME TypeOK
  PROVE  IsFiniteSet(Positions) /\ Cardinality(Positions) = Len(Tape)
<1>1. Len(Tape) \in Nat /\ 1 \in Int /\ Len(Tape) \in Int
  BY TapeFacts DEF TypeOK
<1>2. /\ IsFiniteSet(1 .. Len(Tape))
      /\ Cardinality(1 .. Len(Tape)) = IF 1 > Len(Tape) THEN 0 ELSE Len(Tape) - 1 + 1
  BY ONLY <1>1, FS_Interval
<1>3. QED
  BY <1>1, <1>2 DEF Positions

\* A set of pairs has as many elements as it has second components, when these
\* determine the pair.
LEMMA SecondComponents ==
  ASSUME NEW G, IsFiniteSet(G), NEW S,
         \A g, h \in G : g[2] = h[2] => g = h,
         S = {g[2] : g \in G}
  PROVE  IsFiniteSet(S) /\ Cardinality(S) = Cardinality(G)
<1> DEFINE f == [g \in G |-> g[2]]
<1>1. f \in [G -> S]
  OBVIOUS
<1>2. \A g, h \in G : f[g] = f[h] => g = h
  OBVIOUS
<1>3. \A s \in S : \E g \in G : f[g] = s
  OBVIOUS
<1>4. f \in Bijection(G, S)
  BY <1>1, <1>2, <1>3 DEF Bijection, Injection, Surjection, IsInjective
<1>5. ExistsBijection(G, S)
  BY <1>4 DEF ExistsBijection
<1>6. QED
  BY <1>5, FS_Bijection

LEMMA CountedPositions ==
  ASSUME TypeOK, CountsMatchTape, CountedOnce
  PROVE  served = Cardinality(HandedOut) /\ Counting = given
<1>1. Counting = given
  BY DEF CountedOnce, Counting
<1>2. HandedOut = {g[2] : g \in given}
  <2>1. \A g \in given : g[1] \in Paths /\ g[2] \in Positions /\ g = <<g[1], g[2]>>
    BY DEF TypeOK
  <2>2. ASSUME NEW p \in HandedOut PROVE \E g \in given : p = g[2]
    BY <2>2 DEF HandedOut, Replayed
  <2>3. ASSUME NEW g \in given PROVE g[2] \in HandedOut
    BY <2>1 DEF HandedOut, Replayed
  <2>4. QED
    BY <2>2, <2>3
<1>3. \A g, h \in given : g[2] = h[2] => g = h
  BY DEF CountedOnce
<1>4. Cardinality(HandedOut) = Cardinality(given)
  BY <1>2, <1>3, FiniteGiven, SecondComponents
<1>5. QED
  BY <1>1, <1>4 DEF CountsMatchTape

\* ReportIsTrue: finish() tells exactly whether the whole tape was replayed, for
\* every caller that is not handed a step by identity or by two indexes.
THEOREM ReportCorrect == Spec => []ReportIsTrue
<1>1. TypeOK /\ CountsMatchTape => ReportIsTrue
  <2> SUFFICES ASSUME TypeOK, CountsMatchTape, CountedOnce
               PROVE  FinishStatus # "incomplete" <=> \A p \in Positions : Replayed(p)
    BY DEF ReportIsTrue
  <2>1. HandedOut \in SUBSET Positions
    BY DEF HandedOut
  <2>2. /\ Cardinality(HandedOut) \in Nat
        /\ Cardinality(HandedOut) <= Len(Tape)
        /\ Cardinality(HandedOut) = Len(Tape) => HandedOut = Positions
    BY <2>1, FinitePositions, FS_Subset, FS_CardinalityType
  <2>3. served >= Len(Tape) <=> served = Len(Tape)
    BY <2>2, CountedPositions, TapeFacts DEF TypeOK
  <2>4. FinishStatus # "incomplete" <=> served = Len(Tape)
    BY <2>3 DEF FinishStatus
  <2>5. served = Len(Tape) <=> HandedOut = Positions
    BY <2>2, FinitePositions, CountedPositions
  <2>6. QED
    BY <2>4, <2>5 DEF HandedOut
<1>2. QED
  BY <1>1, TypeCorrect, CountsCorrect, PTL

-----------------------------------------------------------------------------
\* An agent is one of the callers that Replayer allows: what is proved of every
\* caller holds of it.
THEOREM AgentIsCaller == AgentSpec => Spec
<1>1. ASSUME TypeOK, AgentNext PROVE Next
  <2> SUFFICES ASSUME ~Roam PROVE Next
    BY DEF Roam
  <2>1. PICK p \in Positions : Counted /\ Request(p)
    BY <1>1 DEF AgentNext, Ask
  <2>2. Tape[p] \in Steps
    BY <1>1, <2>1, TapeFacts DEF TypeOK
  <2>3. CASE protocol = "hash" /\ Tape[p].key # None /\ GetResponseForHash(Tape[p].key, None)
    <3>1. Tape[p].key \in Keys
      BY <2>2, <2>3 DEF Steps
    <3>2. QED
      BY <2>1, <2>3, <3>1 DEF Next, HashCall
  <2>4. CASE protocol = "ident" /\ Tape[p].ident # None /\ ResponseFor(Tape[p].ident)
    <3>1. Tape[p].ident \in Idents
      BY <2>2, <2>4 DEF Steps
    <3>2. QED
      BY <2>1, <2>4, <3>1 DEF Next, IdentCall
  <2>5. CASE protocol = "next" /\ GetNextResponse(Tape[p].type)
    <3>1. Tape[p].type \in StepTypes
      BY <2>2 DEF Steps
    <3>2. QED
      BY <2>1, <2>5, <3>1 DEF Next, NextCall
  <2>6. QED
    BY <2>1, <2>3, <2>4, <2>5 DEF Request
<1>2. TypeOK /\ [AgentNext]_agentVars => [Next]_vars
  BY <1>1 DEF agentVars
<1>3. QED
  BY <1>2, InitType, NextType, PTL DEF AgentSpec, AgentInit, Spec

-----------------------------------------------------------------------------
(***************************************************************************)
(* The sequential cursor, in recorded order: the agent, the cursor and the *)
(* history stand at the same step.                                         *)
(***************************************************************************)
CursorInv ==
  /\ asked = 1 .. cursor
  /\ given = {<<"next", p>> : p \in 1 .. cursor}

LEMMA AskNext ==
  ASSUME protocol = "next", Faithful, TypeOK, CursorInv, NEW p \in Positions, Ask(p)
  PROVE  answer'.pos = p /\ CursorInv'
<1>1. /\ p \notin asked /\ asked' = asked \cup {p}
      /\ \A q \in 1 .. p - 1 : q \in asked
      /\ GetNextResponse(Tape[p].type)
  BY DEF Ask, Request, Faithful
<1>2. p \in Nat \ {0} /\ cursor \in Nat /\ Len(Tape) \in Nat /\ p <= Len(Tape)
  BY TapeFacts DEF TypeOK, Positions
<1>3. p = cursor + 1
  <2>1. p > cursor
    BY <1>1, <1>2 DEF CursorInv
  <2>2. ~(p > cursor + 1)
    BY <1>1, <1>2 DEF CursorInv
  <2>3. QED
    BY <1>2, <2>1, <2>2
<1>4. ~Downstream(p)
  BY DEF Faithful
<1>5. NextServed(Tape[p].type)
  BY <1>1, <1>2, <1>3, <1>4
  DEF GetNextResponse, NextMismatch, NextDownstream, NextExhausted
<1>6. cursor' = p /\ answer'.pos = p /\ given' = given \cup {<<"next", p>>}
  BY <1>3, <1>5 DEF NextServed, BuildResponse, HandOut
<1>7. 1 .. p = (1 .. cursor) \cup {p}
  BY <1>2, <1>3
<1>8. QED
  BY <1>1, <1>6, <1>7 DEF CursorInv

-----------------------------------------------------------------------------
(***************************************************************************)
(* Matched by hash or by identity.  The request of a step is its key or    *)
(* its identity, and the queue in use that of the protocol.                *)
(***************************************************************************)
Matched    == protocol \in {"hash", "ident"}
RequestOf(p) == IF protocol = "hash" THEN Tape[p].key ELSE Tape[p].ident
Requests   == IF protocol = "hash" THEN Keys ELSE Idents
Queued     == IF protocol = "hash" THEN hashQ ELSE identQ

QueuedFor(k)   == {p \in Queued : RequestOf(p) = k}
RecordedFor(k) == {p \in Positions : RequestOf(p) = k}
AskedFor(k)    == {p \in asked : RequestOf(p) = k}

\* In recorded order, the queue holds exactly the indexed steps not yet asked for.
QueueInStep == Queued = {q \in Positions : q \notin asked /\ RequestOf(q) # None}

\* In any order, for each request the answers still queued are as many as the
\* repetitions still to come: an argument that does not depend on which of
\* several equal steps was handed out.
QueuesSuffice ==
  /\ \A p \in asked : RequestOf(p) # None
  /\ \A g \in given : g[1] = protocol
  /\ \A k \in Requests :
       Cardinality(AskedFor(k)) + Cardinality(QueuedFor(k)) = Cardinality(RecordedFor(k))

\* What an agent keeps true, whatever its protocol.
AgentInv ==
  /\ protocol \in {"hash", "ident", "next", "any"}
  /\ asked \subseteq Positions
  /\ protocol = "any" => asked = {} /\ ~inOrder
  /\ protocol = "next" /\ Faithful => CursorInv
  /\ Matched => QueuesSuffice
  /\ Matched /\ inOrder => QueueInStep
  /\ NeverMisses

LEMMA FiniteQueues ==
  ASSUME TypeOK, asked \subseteq Positions, NEW k
  PROVE  /\ IsFiniteSet(RecordedFor(k)) /\ Cardinality(RecordedFor(k)) \in Nat
         /\ IsFiniteSet(AskedFor(k)) /\ Cardinality(AskedFor(k)) \in Nat
         /\ IsFiniteSet(QueuedFor(k)) /\ Cardinality(QueuedFor(k)) \in Nat
<1>1. IsFiniteSet(Positions)
  BY FinitePositions
<1>2. /\ RecordedFor(k) \in SUBSET Positions
      /\ AskedFor(k) \in SUBSET Positions
      /\ QueuedFor(k) \in SUBSET Positions
  BY DEF RecordedFor, AskedFor, QueuedFor, Queued, TypeOK
<1>3. QED
  BY <1>1, <1>2, FS_Subset, FS_CardinalityType

\* A request that was recorded and not yet repeated finds its queue non-empty,
\* and takes the first step of it.
LEMMA AskHits ==
  ASSUME Matched, TypeOK, asked \subseteq Positions, QueuesSuffice,
         NEW p \in Positions, Ask(p)
  PROVE  /\ RequestOf(p) \in Requests
         /\ \E r \in QueuedFor(RequestOf(p)) :
              /\ IsFirst(r, QueuedFor(RequestOf(p)))
              /\ Queued' = Queued \ {r}
              /\ answer'.pos = r
              /\ given' = given \cup {<<protocol, r>>}
<1> DEFINE k == RequestOf(p)
<1>1. Tape[p] \in Steps
  BY TapeFacts DEF TypeOK
<1>2. protocol' = protocol /\ p \notin asked
  BY DEF Ask
<1>3. k # None /\ k \in Requests
  BY <1>1 DEF Ask, Request, Matched, RequestOf, Requests, Steps
<1>4. QueuedFor(k) # {}
  <2>1. AskedFor(k) \in SUBSET RecordedFor(k) /\ AskedFor(k) # RecordedFor(k)
    BY <1>2 DEF AskedFor, RecordedFor
  <2>2. Cardinality(AskedFor(k)) # Cardinality(RecordedFor(k))
    BY <2>1, FiniteQueues, FS_Subset
  <2>3. Cardinality(QueuedFor(k)) # 0
    BY <1>3, <2>2, FiniteQueues DEF QueuesSuffice
  <2>4. QED
    BY <2>3, FS_EmptySet
<1>5. CASE protocol = "hash"
  <2>1. k = Tape[p].key /\ QueuedFor(k) = HashQueue(k) /\ Queued = hashQ /\ Queued' = hashQ'
    BY <1>2, <1>5 DEF RequestOf, QueuedFor, Queued, HashQueue
  <2>2. GetResponseForHash(k, None)
    BY <1>5, <2>1 DEF Ask, Request
  <2>3. HashHit(k)
    BY <1>4, <2>1, <2>2 DEF GetResponseForHash, HashSibling, HashMiss, HashRefused
  <2>4. QED
    BY <1>3, <1>5, <2>1, <2>3 DEF HashHit, BuildResponse, HandOut
<1>6. CASE protocol = "ident"
  <2>1. k = Tape[p].ident /\ QueuedFor(k) = IdentQueue(k) /\ Queued = identQ /\ Queued' = identQ'
    BY <1>2, <1>6 DEF RequestOf, QueuedFor, Queued, IdentQueue
  <2>2. ResponseFor(k)
    BY <1>6, <2>1 DEF Ask, Request
  <2>3. IdentHit(k)
    BY <1>4, <2>1, <2>2 DEF ResponseFor, IdentMiss, IdentDiverged
  <2>4. QED
    BY <1>3, <1>6, <2>1, <2>3 DEF IdentHit, HandOut
<1>7. QED
  BY <1>5, <1>6 DEF Matched

\* Nothing that a step is matched by changes.
LEMMA AskKeeps ==
  ASSUME NEW p \in Positions, Ask(p)
  PROVE  /\ UNCHANGED <<protocol, inOrder, run>>
         /\ asked' = asked \cup {p} /\ p \notin asked
<1>1. run' = run
  BY DEF Ask, Request, GetResponseForHash, HashHit, HashSibling, HashMiss, HashRefused,
         ResponseFor, IdentHit, IdentMiss, IdentDiverged,
         GetNextResponse, NextServed, NextMismatch, NextDownstream, NextExhausted,
         BuildResponse, Synthesize, Refuse, config
<1>2. QED
  BY <1>1 DEF Ask

LEMMA AskMatched ==
  ASSUME Matched, TypeOK, asked \subseteq Positions, QueuesSuffice,
         NEW p \in Positions, Ask(p)
  PROVE  QueuesSuffice' /\ answer'.pos # 0
<1> DEFINE k == RequestOf(p)
<1>1. k \in Requests /\ p \notin asked /\ asked' = asked \cup {p}
      /\ protocol' = protocol /\ run' = run
  BY AskHits, AskKeeps
<1>2. PICK r \in QueuedFor(k) :
        Queued' = Queued \ {r} /\ answer'.pos = r /\ given' = given \cup {<<protocol, r>>}
  BY AskHits
<1>3. r \in Positions /\ r # 0
  BY <1>2, TapeFacts DEF QueuedFor, Queued, TypeOK
<1>4. /\ Requests' = Requests /\ Positions' = Positions
      /\ \A q : RequestOf(q)' = RequestOf(q)
  BY <1>1 DEF Requests, Positions, RequestOf, Tape
<1>5. \A q \in asked' : RequestOf(q)' # None
  <2>1. k # None
    BY DEF Ask, Request, Matched, RequestOf
  <2>2. QED
    BY <1>1, <1>4, <2>1 DEF QueuesSuffice
<1>6. ASSUME NEW j \in Requests
      PROVE  Cardinality(AskedFor(j)') + Cardinality(QueuedFor(j)') = Cardinality(RecordedFor(j)')
  <2>1. RecordedFor(j)' = RecordedFor(j)
    BY <1>4 DEF RecordedFor
  <2>2. CASE j = k
    <3>1. AskedFor(j)' = AskedFor(j) \cup {p} /\ p \notin AskedFor(j)
      BY <1>1, <1>4, <2>2 DEF AskedFor
    <3>2. QueuedFor(j)' = QueuedFor(j) \ {r} /\ r \in QueuedFor(j)
      BY <1>2, <1>4, <2>2 DEF QueuedFor
    <3>3. Cardinality(AskedFor(j)') = Cardinality(AskedFor(j)) + 1
      BY <3>1, FiniteQueues, FS_AddElement
    <3>4. Cardinality(QueuedFor(j)') = Cardinality(QueuedFor(j)) - 1
      BY <3>2, FiniteQueues, FS_RemoveElement
    <3>5. QED
      BY <2>1, <3>3, <3>4, FiniteQueues DEF QueuesSuffice
  <2>3. CASE j # k
    <3>1. AskedFor(j)' = AskedFor(j)
      BY <1>1, <1>4, <2>3 DEF AskedFor
    <3>2. QueuedFor(j)' = QueuedFor(j)
      BY <1>2, <1>4, <2>3 DEF QueuedFor
    <3>3. QED
      BY <2>1, <3>1, <3>2 DEF QueuesSuffice
  <2>4. QED
    BY <2>2, <2>3
<1>7. \A g \in given' : g[1] = protocol'
  BY <1>1, <1>2 DEF QueuesSuffice
<1>8. QED
  BY <1>2, <1>3, <1>4, <1>5, <1>6, <1>7 DEF QueuesSuffice

LEMMA AskInOrder ==
  ASSUME inOrder, Matched, TypeOK, asked \subseteq Positions, QueuesSuffice, QueueInStep,
         NEW p \in Positions, Ask(p)
  PROVE  answer'.pos = p /\ QueueInStep'
<1> DEFINE k == RequestOf(p)
<1>1. /\ p \notin asked /\ asked' = asked \cup {p}
      /\ \A q \in 1 .. p - 1 : q \in asked
      /\ protocol' = protocol /\ run' = run
  BY AskKeeps DEF Ask
<1>2. \A q \in Positions : q \in Nat \ {0}
  BY TapeFacts DEF TypeOK
<1>3. \A q \in Positions : q \notin asked => p <= q
  BY <1>1, <1>2 DEF Positions
<1>4. k # None
  BY DEF Ask, Request, Matched, RequestOf
<1>5. p \in QueuedFor(k)
  BY <1>1, <1>4 DEF QueuedFor, QueueInStep
<1>6. PICK r \in QueuedFor(k) :
        IsFirst(r, QueuedFor(k)) /\ Queued' = Queued \ {r} /\ answer'.pos = r
  BY AskHits
<1>7. r \in Positions /\ r \notin asked /\ r <= p
  BY <1>5, <1>6 DEF QueuedFor, QueueInStep, IsFirst
<1>8. r = p
  BY <1>2, <1>3, <1>7
<1>9. /\ Positions' = Positions
      /\ \A q : RequestOf(q)' = RequestOf(q)
  BY <1>1 DEF Positions, RequestOf, Tape
<1>10. QueueInStep'
  BY <1>1, <1>6, <1>8, <1>9 DEF QueueInStep
<1>11. QED
  BY <1>6, <1>8, <1>10

-----------------------------------------------------------------------------
LEMMA AgentInitInv == AgentInit => TypeOK /\ AgentInv
<1> SUFFICES ASSUME AgentInit PROVE TypeOK /\ AgentInv
  OBVIOUS
<1>1. TypeOK /\ asked = {} /\ given = {} /\ cursor = 0
  BY InitType DEF AgentInit, Init
<1>2. protocol = "next" => CursorInv
  BY <1>1 DEF CursorInv
<1>3. Queued = {q \in Positions : RequestOf(q) # None}
  BY DEF AgentInit, Init, Queued, RequestOf
<1>4. QueueInStep
  BY <1>1, <1>3 DEF QueueInStep
<1>5. \A k \in Requests : AskedFor(k) = {} /\ QueuedFor(k) = RecordedFor(k)
  BY <1>1, <1>3, NoneAssumption DEF AskedFor, QueuedFor, RecordedFor, Requests
<1>6. QueuesSuffice
  BY <1>1, <1>5, FiniteQueues, FS_EmptySet DEF QueuesSuffice
<1>7. QED
  BY <1>1, <1>2, <1>4, <1>6 DEF AgentInv, NeverMisses, AgentInit

LEMMA AgentStep ==
  ASSUME TypeOK, AgentInv, [AgentNext]_agentVars
  PROVE  AgentInv'
<1>1. CASE UNCHANGED agentVars
  <2>1. /\ UNCHANGED <<run, protocol, inOrder, asked, given, cursor, hashQ, identQ, answer>>
        /\ UNCHANGED <<Positions, Queued, Requests>>
        /\ \A q : RequestOf(q)' = RequestOf(q)
    BY <1>1 DEF agentVars, vars, config, indexes, Positions, Queued, Requests, RequestOf, Tape
  <2>2. \A k : UNCHANGED <<AskedFor(k), QueuedFor(k), RecordedFor(k)>>
    BY <2>1 DEF AskedFor, QueuedFor, RecordedFor
  <2>3. UNCHANGED <<Faithful, CursorInv, QueueInStep, Matched, QueuesSuffice>>
    <3>1. Faithful' = Faithful
      BY <2>1 DEF Faithful, Downstream, ForkGroup, Tape
    <3>2. CursorInv' = CursorInv
      BY <2>1 DEF CursorInv
    <3>3. QueueInStep' = QueueInStep
      BY <2>1 DEF QueueInStep
    <3>4. Matched' = Matched
      BY <2>1 DEF Matched
    <3>5. QueuesSuffice' = QueuesSuffice
      BY <2>1, <2>2 DEF QueuesSuffice
    <3>6. QED
      BY <3>1, <3>2, <3>3, <3>4, <3>5
  <2>4. QED
    BY <2>1, <2>3 DEF AgentInv, NeverMisses
<1>2. CASE Roam
  <2>1. protocol = "any" /\ protocol' = "any" /\ asked' = {} /\ ~inOrder'
    BY <1>2 DEF Roam, AgentInv
  <2>2. QED
    BY <2>1 DEF AgentInv, NeverMisses, Matched
<1>3. ASSUME NEW p \in Positions, Ask(p) PROVE AgentInv'
  <2>1. /\ UNCHANGED <<protocol, inOrder, run>>
        /\ asked' = asked \cup {p}
    BY <1>3, AskKeeps
  <2>2. Positions' = Positions /\ Matched' = Matched /\ Faithful' = Faithful
    BY <2>1 DEF Positions, Matched, Faithful, Downstream, ForkGroup, Tape
  <2>3. protocol # "any"
    BY <1>3 DEF Ask, Request
  <2>4. CASE protocol = "next"
    <3>1. Faithful => answer'.pos = p /\ CursorInv'
      BY <1>3, <2>4, AskNext DEF AgentInv
    <3>2. p # 0
      BY TapeFacts DEF TypeOK
    <3>3. NeverMisses'
      BY <2>2, <3>1, <3>2 DEF NeverMisses
    <3>4. ~Matched
      BY <2>4 DEF Matched
    <3>5. QED
      BY <2>1, <2>2, <2>4, <3>1, <3>3, <3>4 DEF AgentInv
  <2>5. CASE Matched
    <3>1. QueuesSuffice' /\ answer'.pos # 0
      BY <1>3, <2>5, AskMatched DEF AgentInv
    <3>2. inOrder => QueueInStep'
      BY <1>3, <2>5, AskInOrder DEF AgentInv
    <3>3. NeverMisses'
      BY <3>1 DEF NeverMisses
    <3>4. protocol # "next"
      BY <2>5 DEF Matched
    <3>5. QED
      BY <2>1, <2>2, <2>3, <3>1, <3>2, <3>3, <3>4 DEF AgentInv
  <2>6. QED
    BY <2>3, <2>4, <2>5 DEF AgentInv, Matched
<1>4. QED
  BY <1>1, <1>2, <1>3 DEF AgentNext

LEMMA AgentInvariant == AgentSpec => []TypeOK /\ []AgentInv
<1>1. AgentSpec => []TypeOK
  BY AgentIsCaller, TypeCorrect, PTL
<1>2. TypeOK /\ AgentInv /\ [AgentNext]_agentVars => AgentInv'
  BY AgentStep
<1>3. QED
  BY <1>1, <1>2, AgentInitInv, PTL DEF AgentSpec

\* SameTrajectory: an agent that repeats its requests in recorded order is handed
\* its own recorded steps, by whichever of the three lookups its driver uses.
THEOREM DeterministicReplay == AgentSpec => SameTrajectory
<1>1. ASSUME TypeOK, AgentInv, inOrder, Faithful, NEW p \in Positions, Ask(p)
      PROVE  answer'.pos = p
  <2>1. CASE protocol = "next"
    BY <1>1, <2>1, AskNext DEF AgentInv
  <2>2. CASE Matched
    BY <1>1, <2>2, AskInOrder DEF AgentInv
  <2>3. protocol # "any"
    BY <1>1 DEF Ask, Request
  <2>4. QED
    BY <1>1, <2>1, <2>2, <2>3 DEF AgentInv, Matched
<1>2. TypeOK /\ AgentInv
        => [inOrder /\ Faithful => \A p \in Positions : Ask(p) => answer'.pos = p]_agentVars
  BY <1>1
<1>3. QED
  BY <1>2, AgentInvariant, PTL DEF AgentSpec, SameTrajectory

\* NeverMisses: whatever the order of the requests, unless the driver plays the
\* tape sequentially.
THEOREM OrderIndependentReplay == AgentSpec => []NeverMisses
<1>1. AgentInv => NeverMisses
  BY DEF AgentInv
<1>2. QED
  BY <1>1, AgentInvariant, PTL

-----------------------------------------------------------------------------
(***************************************************************************)
(* A run that was repeated to its end                                      *)
(***************************************************************************)

\* Every step was handed out through one and the same index.
LEMMA RepeatedOnce ==
  ASSUME TypeOK, GivenInv, AgentInv, Repeated
  PROVE  \E path \in Paths :
           /\ \A g \in given : g[1] = path
           /\ \A p \in Positions : <<path, p>> \in given
           /\ path = "ident" => protocol = "ident"
<1>1. CASE protocol = "any"
  <2>1. Positions = {}
    BY <1>1 DEF AgentInv, Repeated
  <2>2. given = {}
    BY <2>1 DEF TypeOK
  <2>3. QED
    BY <2>1, <2>2 DEF Paths
<1>2. CASE protocol = "next"
  <2>1. given = {<<"next", p>> : p \in Positions}
    BY <1>2 DEF AgentInv, Repeated, CursorInv
  <2>2. QED
    BY <2>1 DEF Paths
<1>3. CASE Matched
  <2>1. ASSUME NEW p \in Positions PROVE <<protocol, p>> \in given
    <3> DEFINE k == RequestOf(p)
    <3>1. Tape[p] \in Steps
      BY TapeFacts DEF TypeOK
    <3>2. k # None
      BY <1>3 DEF AgentInv, QueuesSuffice, Repeated
    <3>3. k \in Requests
      BY <3>1, <3>2 DEF Steps, Requests, RequestOf
    <3>4. AskedFor(k) = RecordedFor(k)
      BY DEF AskedFor, RecordedFor, Repeated
    <3>5. Cardinality(QueuedFor(k)) = 0
      BY <1>3, <3>3, <3>4, FiniteQueues DEF AgentInv, QueuesSuffice
    <3>6. p \notin Queued
      BY <3>5, FiniteQueues, FS_EmptySet DEF AgentInv, QueuedFor
    <3>7. QED
      BY <1>3, <3>2, <3>6 DEF Matched, Queued, RequestOf, GivenInv
  <2>2. QED
    BY <1>3, <2>1 DEF AgentInv, QueuesSuffice, Matched, Paths
<1>4. QED
  BY <1>1, <1>2, <1>3 DEF AgentInv, Matched

\* A history in which every step of the tape occurs exactly once has as many
\* entries as the tape has steps, and as many failed ones.
LEMMA OnePath ==
  ASSUME TypeOK, NEW path \in Paths,
         \A g \in given : g[1] = path,
         \A p \in Positions : <<path, p>> \in given
  PROVE  /\ Cardinality(given) = Len(Tape)
         /\ Cardinality(Failed(given)) = Cardinality({p \in Positions : Tape[p].failed})
<1>1. \A g \in given : g = <<path, g[2]>> /\ g[2] \in Positions
  BY DEF TypeOK
<1>2. \A p \in Positions : (<<path, p>>)[2] = p
  OBVIOUS
<1>3. \A g, h \in given : g[2] = h[2] => g = h
  BY <1>1
<1>4. Positions = {g[2] : g \in given}
  <2>1. ASSUME NEW p \in Positions PROVE \E g \in given : p = g[2]
    BY <1>2
  <2>2. QED
    BY <1>1, <2>1
<1>5. Cardinality(given) = Len(Tape)
  BY <1>3, <1>4, FiniteGiven, FinitePositions, SecondComponents
<1>6. {p \in Positions : Tape[p].failed} = {g[2] : g \in Failed(given)}
  <2>1. ASSUME NEW p \in Positions, Tape[p].failed PROVE \E g \in Failed(given) : p = g[2]
    BY <1>2, <2>1 DEF Failed
  <2>2. QED
    BY <1>1, <2>1 DEF Failed
<1>7. IsFiniteSet(Failed(given)) /\ \A g, h \in Failed(given) : g[2] = h[2] => g = h
  BY <1>3, FiniteGiven, FS_Subset DEF Failed
<1>8. QED
  BY <1>5, <1>6, <1>7, SecondComponents

\* FailuresReproduced: the replay met exactly as many failures as were recorded.
THEOREM SameFailures == AgentSpec => []FailuresReproduced
<1>1. ASSUME TypeOK, GivenInv, CountsMatchTape, AgentInv, Repeated, protocol # "ident"
      PROVE  errors = Cardinality({p \in Positions : Tape[p].failed})
  <2>1. PICK path \in Paths \ {"ident"} :
          /\ \A g \in given : g[1] = path
          /\ \A p \in Positions : <<path, p>> \in given
    BY <1>1, RepeatedOnce
  <2>2. Counting = given
    BY <2>1 DEF Counting
  <2>3. errors = Cardinality(Failed(given))
    BY <1>1, <2>2 DEF CountsMatchTape, Failed
  <2>4. QED
    BY <1>1, <2>1, <2>3, OnePath
<1>2. TypeOK /\ GivenInv /\ CountsMatchTape /\ AgentInv => FailuresReproduced
  BY <1>1 DEF FailuresReproduced
<1>3. QED
  BY <1>2, AgentIsCaller, AgentInvariant, GivenCorrect, CountsCorrect, PTL

\* CompleteReport: the whole tape was used up, each step once, and except by
\* identity finish() says so.
THEOREM CompleteReplay == AgentSpec => []CompleteReport
<1>1. ASSUME TypeOK, GivenInv, ReportIsTrue, AgentInv, Repeated
      PROVE  /\ \A p \in Positions : Replayed(p)
             /\ Cardinality(given) = Len(Tape)
             /\ protocol # "ident" => FinishStatus # "incomplete"
  <2>1. PICK path \in Paths :
          /\ \A g \in given : g[1] = path
          /\ \A p \in Positions : <<path, p>> \in given
          /\ path = "ident" => protocol = "ident"
    BY <1>1, RepeatedOnce
  <2>2. Cardinality(given) = Len(Tape)
    BY <1>1, <2>1, OnePath
  <2>3. \A p \in Positions : Replayed(p)
    BY <2>1 DEF Replayed
  <2>4. protocol # "ident" => CountedOnce
    <3>1. \A g \in given : g[1] = path /\ g = <<g[1], g[2]>>
      BY <1>1, <2>1 DEF TypeOK
    <3>2. QED
      BY <2>1, <3>1 DEF CountedOnce
  <2>5. QED
    BY <1>1, <2>2, <2>3, <2>4 DEF ReportIsTrue
<1>2. TypeOK /\ GivenInv /\ ReportIsTrue /\ AgentInv => CompleteReport
  BY <1>1 DEF CompleteReport
<1>3. QED
  BY <1>2, AgentIsCaller, AgentInvariant, GivenCorrect, ReportCorrect, PTL

=============================================================================
