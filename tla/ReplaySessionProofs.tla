------------------------ MODULE ReplaySessionProofs ------------------------
(***************************************************************************)
(* The two Replayers never deliver a step twice between them, for every    *)
(* tape, any number of threads and any agent, and an agent that can be     *)
(* trusted reaches nothing live.  The first holds because a position       *)
(* leaves the queue of its transport when it is delivered (Drained), and   *)
(* because the identities of the two transports differ, so that the other  *)
(* queue never hands it out; the second because a faithful agent has as    *)
(* many calls left for each identity as there are answers (Answerable).    *)
(***************************************************************************)
EXTENDS ReplaySession, FiniteSetTheorems, TLAPS

\* A delivered position is out of the only queue that could deliver it again.
Drained ==
  \A p \in got : /\ tape[p].ident \in HttpIdents => p \notin proxyQ
                 /\ tape[p].ident \in SdkIdents => p \notin sdkQ

EffectsOf(S) == {p \in S : tape[p].effect}

Counted ==
  /\ Served = Cardinality(got)
  /\ Effects = Cardinality(EffectsOf(got))

IInv == TypeOK /\ Drained /\ Counted

\* Every step of a tape is a record of Steps, and the positions are finitely many.
LEMMA TapeSteps ==
  ASSUME TypeOK
  PROVE  /\ tape \in Seq(Steps)
         /\ IsFiniteSet(Positions)
         /\ Cardinality(Positions) = Len(tape)
         /\ Indexed \subseteq Positions
         /\ \A p \in Positions : tape[p].effect \in BOOLEAN
<1>1. tape \in Seq(Steps)
  BY TapesAssumption DEF TypeOK
<1>2. Len(tape) \in Nat /\ 1 \in Int /\ Len(tape) \in Int
  BY <1>1
<1>3. IsFiniteSet(Positions) /\ Cardinality(Positions) = Len(tape)
  <2>1. /\ IsFiniteSet(1 .. Len(tape))
        /\ Cardinality(1 .. Len(tape)) = IF 1 > Len(tape) THEN 0 ELSE Len(tape) - 1 + 1
    BY ONLY <1>2, FS_Interval
  <2> QED
    BY <1>2, <2>1 DEF Positions
<1>4. ASSUME NEW p \in Positions PROVE tape[p].effect \in BOOLEAN
  <2>1. tape[p] \in Steps
    BY <1>1 DEF Positions
  <2> QED
    BY <2>1 DEF Steps
<1>5. Indexed \subseteq Positions
  BY DEF Indexed
<1> QED
  BY <1>1, <1>3, <1>4, <1>5

\* One delivery more, in terms of the tallies.
LEMMA DeliverCounts ==
  ASSUME NEW p, NEW tally \in Tallies, tape[p].effect \in BOOLEAN
  PROVE  /\ Deliver(p, tally) \in Tallies
         /\ Deliver(p, tally).served = tally.served + 1
         /\ Deliver(p, tally).effects
              = tally.effects + (IF tape[p].effect THEN 1 ELSE 0)
BY DEF Deliver, Tallies

\* One delivery more, in terms of the positions.
LEMMA GotCounts ==
  ASSUME TypeOK, NEW p \in Positions, p \notin got
  PROVE  /\ Cardinality(got \cup {p}) = Cardinality(got) + 1
         /\ Cardinality(EffectsOf(got \cup {p}))
              = Cardinality(EffectsOf(got)) + (IF tape[p].effect THEN 1 ELSE 0)
<1>1. got \subseteq Positions
  BY TapeSteps DEF TypeOK
<1>2. IsFiniteSet(got) /\ IsFiniteSet(EffectsOf(got))
  BY <1>1, TapeSteps, FS_Subset DEF EffectsOf
<1>3. Cardinality(got \cup {p}) = Cardinality(got) + 1
  BY <1>2, FS_AddElement
<1>4. CASE tape[p].effect
  <2>1. EffectsOf(got \cup {p}) = EffectsOf(got) \cup {p} /\ p \notin EffectsOf(got)
    BY <1>4 DEF EffectsOf
  <2> QED
    BY <1>2, <1>3, <1>4, <2>1, FS_AddElement
<1>5. CASE ~tape[p].effect
  <2>1. EffectsOf(got \cup {p}) = EffectsOf(got)
    BY <1>5 DEF EffectsOf
  <2>2. Cardinality(EffectsOf(got)) \in Nat
    BY <1>2, FS_CardinalityType
  <2> QED
    BY <1>3, <1>5, <2>1, <2>2
<1> QED
  BY <1>4, <1>5

-----------------------------------------------------------------------------
\* What the steps do to the state; each is used for the type, for Drained and
\* for Counted.

\* A delivery to a proxied call.
LEMMA ProxyDelivers ==
  ASSUME TypeOK, NEW i \in HttpIdents, ProxyHit(i)
  PROVE  \E p \in Positions :
           /\ tape[p].ident = i
           /\ p \in proxyQ
           /\ proxyQ' = proxyQ \ {p}
           /\ \/ proxy' = Deliver(p, proxy) /\ got' = got \cup {p} /\ live' = live
              \/ proxy' = proxy /\ got' = got /\ live' = live \cup {"upstream"}
BY DEF ProxyHit, Queue, Forward, TypeOK, Indexed

\* A delivery to a native call.
LEMMA SdkDelivers ==
  ASSUME TypeOK, NEW t \in Inside, SdkServe(t)
  PROVE  \E p \in Positions :
           /\ tape[p].ident = popping[t]
           /\ p \in sdkQ
           /\ sdkQ' = sdkQ \ {p}
           /\ \/ sdk' = Deliver(p, sdk) /\ got' = got \cup {p}
              \/ sdk' = sdk /\ got' = got
BY DEF SdkServe, Queue, TypeOK, Indexed

LEMMA InitIInv == Init => IInv
<1> SUFFICES ASSUME Init PROVE IInv
  OBVIOUS
<1>1. TypeOK
  BY MaxCallsAssumption DEF Init, TypeOK, Tallies
<1>2. Drained
  BY DEF Init, Drained
<1>3. Served = 0 /\ Effects = 0 /\ got = {} /\ EffectsOf(got) = {}
  BY DEF Init, Served, Effects, EffectsOf
<1>4. Counted
  BY <1>3, FS_EmptySet DEF Counted
<1> QED
  BY <1>1, <1>2, <1>4 DEF IInv

\* The position an action delivers was not delivered before, so that both
\* counts go up by one.
LEMMA StepIInv == IInv /\ [Next]_vars => IInv'
<1> SUFFICES ASSUME IInv, [Next]_vars PROVE IInv'
  OBVIOUS
<1> UNCHANGED agent
  BY DEF Next, vars
<1> USE DEF IInv
<1>1. ASSUME NEW i \in HttpIdents, ProxyCall(i) PROVE IInv'
  <2>1. /\ calls' \in 0 .. MaxCalls
        /\ due' \subseteq Indexed
        /\ UNCHANGED <<tape, sdkQ, popping, sdk>>
    BY <1>1, MaxCallsAssumption DEF ProxyCall, Call, Queue, TypeOK
  <2>2. CASE ProxyMiss(i)
    <3>1. /\ UNCHANGED <<proxyQ, proxy, got>>
          /\ live' = live \cup {"upstream"}
      BY <2>2 DEF ProxyMiss, Forward
    <3>2. TypeOK'
      BY <2>1, <3>1 DEF TypeOK, Indexed, Positions
    <3>3. Drained' /\ Counted'
      BY <2>1, <3>1 DEF Drained, Counted, Served, Effects, EffectsOf
    <3> QED
      BY <3>2, <3>3
  <2>3. CASE ProxyHit(i)
    <3>1. PICK p \in Positions :
            /\ tape[p].ident = i
            /\ p \in proxyQ
            /\ proxyQ' = proxyQ \ {p}
            /\ \/ proxy' = Deliver(p, proxy) /\ got' = got \cup {p} /\ live' = live
               \/ proxy' = proxy /\ got' = got /\ live' = live \cup {"upstream"}
      BY <2>3, ProxyDelivers
    <3>2. p \notin got /\ i \notin SdkIdents /\ p \in Indexed
      BY <3>1, IdentsAssumption DEF Drained, Indexed
    <3>3. CASE proxy' = proxy /\ got' = got /\ live' = live \cup {"upstream"}
      <4>1. TypeOK'
        BY <2>1, <3>1, <3>3 DEF TypeOK, Indexed, Positions
      <4>2. Drained' /\ Counted'
        BY <2>1, <3>1, <3>3 DEF Drained, Counted, Served, Effects, EffectsOf
      <4> QED
        BY <4>1, <4>2
    <3>4. CASE proxy' = Deliver(p, proxy) /\ got' = got \cup {p} /\ live' = live
      <4>1. proxy \in Tallies /\ sdk \in Tallies
        BY DEF TypeOK
      <4>2. /\ proxy' \in Tallies
            /\ proxy'.served = proxy.served + 1
            /\ proxy'.effects = proxy.effects + (IF tape[p].effect THEN 1 ELSE 0)
        BY <3>4, <4>1, TapeSteps, DeliverCounts
      <4>3. TypeOK'
        BY <2>1, <3>1, <3>2, <3>4, <4>2 DEF TypeOK, Indexed, Positions
      <4>4. Drained'
        BY <2>1, <3>1, <3>2, <3>4 DEF Drained
      <4>5. Counted'
        <5>1. EffectsOf(got)' = EffectsOf(got \cup {p})
          BY <2>1, <3>4 DEF EffectsOf
        <5>2. Cardinality(got') = Cardinality(got) + 1
          BY <3>2, <3>4, GotCounts
        <5>3. Cardinality(EffectsOf(got \cup {p}))
                = Cardinality(EffectsOf(got)) + (IF tape[p].effect THEN 1 ELSE 0)
          BY <3>2, GotCounts
        <5>4. Served' = Served + 1
          BY <2>1, <4>1, <4>2 DEF Served, Tallies
        <5>5. Effects' = Effects + (IF tape[p].effect THEN 1 ELSE 0)
          BY <2>1, <4>1, <4>2 DEF Effects, Tallies
        <5> QED
          BY <5>1, <5>2, <5>3, <5>4, <5>5 DEF Counted
      <4> QED
        BY <4>3, <4>4, <4>5
    <3> QED
      BY <3>1, <3>3, <3>4
  <2> QED
    BY <1>1, <2>2, <2>3 DEF ProxyCall
<1>2. CASE ProxyBlocked
  <2>1. /\ calls' \in 0 .. MaxCalls
        /\ UNCHANGED <<tape, proxyQ, sdkQ, popping, proxy, sdk, live, got, due>>
    BY <1>2, MaxCallsAssumption DEF ProxyBlocked, TypeOK
  <2> QED
    BY <2>1 DEF TypeOK, Indexed, Positions, Drained, Counted, Served, Effects, EffectsOf
<1>3. ASSUME NEW t \in Inside, NEW i \in SdkIdents, SdkCall(t, i) PROVE IInv'
  <2>1. /\ calls' \in 0 .. MaxCalls
        /\ due' \subseteq Indexed
        /\ UNCHANGED <<tape, proxyQ, sdkQ, proxy, live, got>>
    BY <1>3, MaxCallsAssumption DEF SdkCall, Call, Queue, TypeOK
  <2>2. /\ popping' \in [Inside -> SdkIdents \cup {None}]
        /\ sdk' \in Tallies
        /\ sdk'.served = sdk.served /\ sdk'.effects = sdk.effects
    <3>1. sdk \in Tallies /\ popping \in [Inside -> SdkIdents \cup {None}]
      BY DEF TypeOK
    <3>2. CASE SdkMiss(t, i)
      BY <3>1, <3>2 DEF SdkMiss, Tallies
    <3>3. CASE SdkFound(t, i)
      BY <3>1, <3>3 DEF SdkFound
    <3> QED
      BY <1>3, <3>2, <3>3 DEF SdkCall
  <2>3. TypeOK'
    BY <2>1, <2>2 DEF TypeOK, Indexed, Positions
  <2> QED
    BY <2>1, <2>2, <2>3 DEF Drained, Counted, Served, Effects, EffectsOf
<1>4. ASSUME NEW t \in Inside, SdkPop(t) PROVE IInv'
  <2>1. /\ popping' \in [Inside -> SdkIdents \cup {None}]
        /\ UNCHANGED <<tape, proxyQ, proxy, live, due, calls>>
        /\ popping[t] \in SdkIdents
    BY <1>4 DEF SdkPop, TypeOK
  <2>2. CASE SdkRaced(t)
    <3>1. UNCHANGED <<sdkQ, sdk, got>>
      BY <2>2 DEF SdkRaced
    <3>2. TypeOK'
      BY <2>1, <3>1 DEF TypeOK, Indexed, Positions
    <3> QED
      BY <2>1, <3>1, <3>2 DEF Drained, Counted, Served, Effects, EffectsOf
  <2>3. CASE SdkServe(t)
    <3>1. PICK p \in Positions :
            /\ tape[p].ident = popping[t]
            /\ p \in sdkQ
            /\ sdkQ' = sdkQ \ {p}
            /\ \/ sdk' = Deliver(p, sdk) /\ got' = got \cup {p}
               \/ sdk' = sdk /\ got' = got
      BY <2>3, SdkDelivers
    <3>2. p \notin got /\ tape[p].ident \notin HttpIdents /\ p \in Indexed
      BY <2>1, <3>1, IdentsAssumption DEF Drained, Indexed
    <3>3. CASE sdk' = sdk /\ got' = got
      <4>1. TypeOK'
        BY <2>1, <3>1, <3>3 DEF TypeOK, Indexed, Positions
      <4> QED
        BY <2>1, <3>1, <3>3, <4>1 DEF Drained, Counted, Served, Effects, EffectsOf
    <3>4. CASE sdk' = Deliver(p, sdk) /\ got' = got \cup {p}
      <4>1. proxy \in Tallies /\ sdk \in Tallies
        BY DEF TypeOK
      <4>2. /\ sdk' \in Tallies
            /\ sdk'.served = sdk.served + 1
            /\ sdk'.effects = sdk.effects + (IF tape[p].effect THEN 1 ELSE 0)
        BY <3>4, <4>1, TapeSteps, DeliverCounts
      <4>3. TypeOK'
        BY <2>1, <3>1, <3>2, <3>4, <4>2 DEF TypeOK, Indexed, Positions
      <4>4. Drained'
        BY <2>1, <3>1, <3>2, <3>4 DEF Drained
      <4>5. Counted'
        <5>1. EffectsOf(got)' = EffectsOf(got \cup {p})
          BY <2>1, <3>4 DEF EffectsOf
        <5>2. Cardinality(got') = Cardinality(got) + 1
          BY <3>2, <3>4, GotCounts
        <5>3. Cardinality(EffectsOf(got \cup {p}))
                = Cardinality(EffectsOf(got)) + (IF tape[p].effect THEN 1 ELSE 0)
          BY <3>2, GotCounts
        <5>4. Served' = Served + 1
          BY <2>1, <4>1, <4>2 DEF Served, Tallies
        <5>5. Effects' = Effects + (IF tape[p].effect THEN 1 ELSE 0)
          BY <2>1, <4>1, <4>2 DEF Effects, Tallies
        <5> QED
          BY <5>1, <5>2, <5>3, <5>4, <5>5 DEF Counted
      <4> QED
        BY <4>3, <4>4, <4>5
    <3> QED
      BY <3>1, <3>3, <3>4
  <2> QED
    BY <1>4, <2>2, <2>3 DEF SdkPop
<1>5. ASSUME NEW i \in SdkIdents, SdkPassThrough(i) PROVE IInv'
  <2>1. /\ calls' \in 0 .. MaxCalls
        /\ due' \subseteq Indexed
        /\ live' = live \cup {"tool"}
        /\ UNCHANGED <<tape, proxyQ, sdkQ, popping, proxy, sdk, got>>
    BY <1>5, MaxCallsAssumption DEF SdkPassThrough, Call, Queue, TypeOK
  <2>2. TypeOK'
    BY <2>1 DEF TypeOK, Indexed, Positions
  <2> QED
    BY <2>1, <2>2 DEF Drained, Counted, Served, Effects, EffectsOf
<1>6. CASE UNCHANGED vars
  BY <1>6 DEF vars, TypeOK, Indexed, Positions, Drained, Counted, Served, Effects, EffectsOf
<1> QED
  BY <1>1, <1>2, <1>3, <1>4, <1>5, <1>6 DEF Next

LEMMA Invariant == Spec => []IInv
BY InitIInv, StepIInv, PTL DEF Spec

-----------------------------------------------------------------------------
\* The variables of record_session.replay_run keep their types.
THEOREM TypeCorrect == Spec => []TypeOK
<1>1. IInv => TypeOK
  BY DEF IInv
<1> QED
  BY <1>1, Invariant, PTL

\* However the calls of the agent's threads and the proxy interleave, and
\* whatever is missing from the tape, side_effecting_served counts the side
\* effects the tape stood in for.
THEOREM EffectsCorrect == Spec => []EffectsAccounted
<1>1. IInv => EffectsAccounted
  BY DEF IInv, Counted, EffectsOf, EffectsAccounted
<1> QED
  BY <1>1, Invariant, PTL

\* When a demo reports success (record_session.py:146-148, recorder/replay.py:68)
\* the agent received every recorded step, and each of them once.
THEOREM OkCorrect == Spec => []OkMeansComplete
<1>1. IInv => OkMeansComplete
  <2> SUFFICES ASSUME IInv, DemoOk PROVE got = Positions
    BY DEF OkMeansComplete
  <2>1. Served = Cardinality(got) /\ Served = Len(tape)
    BY DEF IInv, Counted, DemoOk
  <2>2. /\ got \subseteq Positions
        /\ IsFiniteSet(Positions)
        /\ Cardinality(Positions) = Len(tape)
    BY TapeSteps DEF IInv, TypeOK
  <2> QED
    BY <2>1, <2>2, FS_Subset
<1> QED
  BY <1>1, Invariant, PTL

-----------------------------------------------------------------------------
\* Refinement of SafeReplay.

\* A step delivers one new position or none, and the tape stays.
LEMMA GotStep ==
  ASSUME IInv, [Next]_vars
  PROVE  /\ UNCHANGED tape
         /\ got' = got \/ \E p \in Positions : p \notin got /\ got' = got \cup {p}
<1> USE DEF IInv
<1>1. ASSUME NEW i \in HttpIdents, ProxyCall(i)
      PROVE  got' = got \/ \E p \in Positions : p \notin got /\ got' = got \cup {p}
  <2>1. CASE ProxyMiss(i)
    BY <2>1 DEF ProxyMiss
  <2>2. CASE ProxyHit(i)
    BY <2>2, ProxyDelivers DEF Drained
  <2> QED
    BY <1>1, <2>1, <2>2 DEF ProxyCall
<1>2. ASSUME NEW t \in Inside, SdkPop(t)
      PROVE  got' = got \/ \E p \in Positions : p \notin got /\ got' = got \cup {p}
  <2>1. popping[t] \in SdkIdents
    BY <1>2 DEF SdkPop, TypeOK
  <2>2. CASE SdkRaced(t)
    BY <2>2 DEF SdkRaced
  <2>3. CASE SdkServe(t)
    BY <2>1, <2>3, SdkDelivers DEF Drained
  <2> QED
    BY <1>2, <2>2, <2>3 DEF SdkPop
<1>3. UNCHANGED tape
  BY DEF Next, ProxyCall, ProxyBlocked, SdkCall, SdkPop, SdkPassThrough, vars
<1>4. CASE ProxyBlocked
  BY <1>4 DEF ProxyBlocked
<1>5. ASSUME NEW t \in Inside, NEW i \in SdkIdents, SdkCall(t, i) PROVE got' = got
  BY <1>5 DEF SdkCall
<1>6. ASSUME NEW i \in SdkIdents, SdkPassThrough(i) PROVE got' = got
  BY <1>6 DEF SdkPassThrough
<1>7. CASE UNCHANGED vars
  BY <1>7 DEF vars
<1> QED
  BY <1>1, <1>2, <1>3, <1>4, <1>5, <1>6, <1>7 DEF Next

\* A step that delivers does not go live.
LEMMA GotLive ==
  ASSUME IInv, [Next]_vars, got' # got
  PROVE  UNCHANGED live
<1>1. ASSUME NEW i \in HttpIdents, ProxyCall(i) PROVE UNCHANGED live
  <2>1. TypeOK
    BY DEF IInv
  <2>2. ProxyHit(i)
    BY <1>1 DEF ProxyCall, ProxyMiss
  <2> QED
    BY <2>1, <2>2, ProxyDelivers
<1> QED
  BY <1>1 DEF Next, ProxyBlocked, SdkCall, SdkPop, SdkPassThrough, vars

\* A step of a trusted agent reaches nothing live; any other step does not matter.
LEMMA StepSafe ==
  ASSUME IInv, [Next]_vars, Trusted => UNCHANGED live
  PROVE  [Safe!Next]_<<Trusted, Positions, got, Served, live>>
<1>1. Counted /\ Counted' /\ TypeOK
  BY StepIInv DEF IInv
<1>2. UNCHANGED <<agent, tape>>
  BY GotStep DEF Next, vars
<1>3. UNCHANGED <<Trusted, Positions>>
  BY <1>2 DEF Positions, Trusted, Intact
<1>4. CASE got' = got
  <2>1. Served' = Served
    BY <1>1, <1>4 DEF Counted
  <2>2. live \subseteq live'
    BY DEF Next, ProxyCall, ProxyHit, ProxyMiss, Forward, ProxyBlocked, SdkCall, SdkPop,
           SdkPassThrough, vars
  <2> QED
    BY <1>3, <1>4, <2>1, <2>2 DEF Safe!Next, Safe!GoLive
<1>5. ASSUME NEW p \in Positions, p \notin got, got' = got \cup {p}
      PROVE  Safe!Deliver(p)
  <2>1. Cardinality(got') = Cardinality(got) + 1
    BY <1>1, <1>5, GotCounts
  <2>2. Served' = Served + 1
    BY <1>1, <2>1 DEF Counted
  <2>3. UNCHANGED live
    BY <1>5, GotLive
  <2> QED
    BY <1>3, <1>5, <2>2, <2>3 DEF Safe!Deliver
<1> QED
  BY <1>4, <1>5, GotStep DEF Safe!Next

LEMMA InitSafe == Init => Safe!Init
<1> SUFFICES ASSUME Init PROVE Safe!Init
  OBVIOUS
<1>1. Positions \subseteq Nat
  <2>1. tape \in Seq(Steps)
    BY TapesAssumption DEF Init
  <2> QED
    BY <2>1 DEF Positions
<1>2. Trusted \in BOOLEAN
  <2>1. agent \in [faithful : BOOLEAN, proxied : BOOLEAN, plain : BOOLEAN]
    BY AgentsAssumption DEF Init
  <2> QED
    BY <2>1 DEF Trusted
<1> QED
  BY <1>1, <1>2 DEF Init, Safe!Init, Served

-----------------------------------------------------------------------------
\* A proxied call that a faithful agent may still make has an answer left, since
\* for each identity there are as many of both.

Answerable ==
  agent.faithful => \A i \in HttpIdents :
    Cardinality(Queue(due, i)) = Cardinality(Queue(proxyQ, i))

LEMMA QueuesFinite ==
  ASSUME TypeOK, NEW i
  PROVE  IsFiniteSet(Queue(due, i)) /\ IsFiniteSet(Queue(proxyQ, i))
<1>1. Queue(due, i) \subseteq Positions /\ Queue(proxyQ, i) \subseteq Positions
  BY TapeSteps DEF TypeOK, Queue
<1> QED
  BY <1>1, TapeSteps, FS_Subset

\* What a faithful agent's proxied call meets: the step that leaves the queue is
\* a recorded one, and nothing goes live when it can be read.
LEMMA FaithfulHit ==
  ASSUME IInv, Answerable, agent.faithful, NEW i \in HttpIdents, ProxyCall(i)
  PROVE  /\ Intact => UNCHANGED live
         /\ \E p \in Queue(due, i) : due' = due \ {p}
         /\ \E p \in Queue(proxyQ, i) : proxyQ' = proxyQ \ {p}
<1>1. PICK p \in Queue(due, i) : due' = due \ {p}
  BY DEF ProxyCall, Call
<1>2. Cardinality(Queue(due, i)) # 0
  BY <1>1, QueuesFinite, FS_EmptySet DEF IInv
<1>3. Queue(proxyQ, i) # {}
  BY <1>2, FS_EmptySet DEF Answerable
<1>4. PICK q \in Queue(proxyQ, i) :
        /\ proxyQ' = proxyQ \ {q}
        /\ tape[q].readable => UNCHANGED live
  BY <1>3 DEF ProxyCall, ProxyMiss, ProxyHit
<1>5. Intact => tape[q].readable
  BY <1>4, TapeSteps DEF IInv, TypeOK, Queue, Intact
<1> QED
  BY <1>1, <1>4, <1>5

LEMMA InitAnswerable == Init => Answerable
BY DEF Init, Answerable

\* Both queues of identity i lose one position, those of the others none.
LEMMA StepAnswerable == IInv /\ Answerable /\ [Next]_vars => Answerable'
<1> SUFFICES ASSUME IInv, Answerable, [Next]_vars, agent.faithful, NEW j \in HttpIdents
             PROVE  Cardinality(Queue(due, j)') = Cardinality(Queue(proxyQ, j)')
  BY DEF Answerable, Next, vars
<1>1. UNCHANGED tape /\ TypeOK
  BY GotStep DEF IInv
<1>2. ASSUME NEW i \in HttpIdents, ProxyCall(i)
      PROVE  Cardinality(Queue(due, j)') = Cardinality(Queue(proxyQ, j)')
  <2>1. PICK p \in Queue(due, i) : due' = due \ {p}
    BY <1>2, FaithfulHit
  <2>2. PICK q \in Queue(proxyQ, i) : proxyQ' = proxyQ \ {q}
    BY <1>2, FaithfulHit
  <2>3. CASE j = i
    <3>1. /\ Queue(due, i)' = Queue(due, i) \ {p}
          /\ Queue(proxyQ, i)' = Queue(proxyQ, i) \ {q}
      BY <1>1, <2>1, <2>2 DEF Queue
    <3>2. /\ Cardinality(Queue(due, i) \ {p}) = Cardinality(Queue(due, i)) - 1
          /\ Cardinality(Queue(proxyQ, i) \ {q}) = Cardinality(Queue(proxyQ, i)) - 1
      BY <1>1, QueuesFinite, FS_RemoveElement
    <3> QED
      BY <2>3, <3>1, <3>2 DEF Answerable
  <2>4. CASE j # i
    <3>1. /\ Queue(due, j)' = Queue(due, j)
          /\ Queue(proxyQ, j)' = Queue(proxyQ, j)
      BY <1>1, <2>1, <2>2, <2>4 DEF Queue
    <3> QED
      BY <3>1 DEF Answerable
  <2> QED
    BY <2>3, <2>4
<1>3. ASSUME NEW i \in SdkIdents, Call(i), UNCHANGED proxyQ
      PROVE  Cardinality(Queue(due, j)') = Cardinality(Queue(proxyQ, j)')
  <2>1. PICK p \in Queue(due, i) : due' = due \ {p}
    BY <1>3 DEF Call
  <2>2. Queue(due, j)' = Queue(due, j) /\ Queue(proxyQ, j)' = Queue(proxyQ, j)
    BY <1>1, <1>3, <2>1, IdentsAssumption DEF Queue
  <2> QED
    BY <2>2 DEF Answerable
<1>4. ASSUME UNCHANGED <<due, proxyQ>>
      PROVE  Cardinality(Queue(due, j)') = Cardinality(Queue(proxyQ, j)')
  BY <1>1, <1>4 DEF Answerable, Queue
<1> QED
  BY <1>2, <1>3, <1>4 DEF Next, ProxyBlocked, SdkCall, SdkPop, SdkPassThrough, vars

\* A trusted agent does not go live: it makes no proxied call, or one that is on
\* the tape and can be read.
LEMMA TrustedStep ==
  ASSUME IInv, Answerable, [Next]_vars, Trusted
  PROVE  UNCHANGED live
<1>1. ASSUME NEW i \in HttpIdents, ProxyCall(i) PROVE UNCHANGED live
  <2>1. agent.proxied
    BY <1>1 DEF ProxyCall
  <2> QED
    BY <1>1, <2>1, FaithfulHit DEF Trusted
<1> QED
  BY <1>1 DEF Next, ProxyBlocked, SdkCall, SdkPop, SdkPassThrough, Trusted, vars

\* Every replay delivers each recorded step at most once and counts what it
\* delivers.  An agent that only has native tools reaches nothing live whatever
\* it does, whatever is missing from the tape and however its threads race: a
\* miss and a lost race are refused (sdk_hooks.py:4-6).  One that makes proxied
\* calls reaches nothing live (README.md:3) as long as it repeats its recorded
\* calls, in any order, and no blob of the tape is missing.
THEOREM ReplayIsSafe == Spec => SafeReplayed
<1>1. Init => IInv /\ Answerable
  BY InitIInv, InitAnswerable
<1>2. IInv /\ Answerable /\ [Next]_vars => (IInv /\ Answerable)'
  BY StepIInv, StepAnswerable
<1>3. IInv /\ Answerable /\ [Next]_vars
        => [Safe!Next]_<<Trusted, Positions, got, Served, live>>
  BY TrustedStep, StepSafe
<1> QED
  BY <1>1, <1>2, <1>3, InitSafe, PTL DEF Spec, SafeReplayed, Safe!Spec

-----------------------------------------------------------------------------
\* A replay that repeats every recorded call is complete: a native call that a
\* faithful agent may still make, and one that is about to pop, have an answer left.

Waiting(i) == {t \in Inside : popping[t] = i}

SdkAnswerable ==
  \A i \in SdkIdents :
    Cardinality(Queue(sdkQ, i)) = Cardinality(Queue(due, i)) + Cardinality(Waiting(i))

\* What has left the queue of its transport was delivered.
Handed ==
  \A p \in Indexed : /\ tape[p].ident \in HttpIdents /\ p \notin proxyQ => p \in got
                     /\ tape[p].ident \in SdkIdents /\ p \notin sdkQ => p \in got

FaithfulInv == agent.faithful /\ ~agent.plain =>
  /\ SdkAnswerable
  /\ Diverged = 0
  /\ Intact => Handed

LEMMA SdkFinite ==
  ASSUME TypeOK, NEW i
  PROVE  /\ IsFiniteSet(Queue(due, i)) /\ Cardinality(Queue(due, i)) \in Nat
         /\ IsFiniteSet(Queue(sdkQ, i)) /\ Cardinality(Queue(sdkQ, i)) \in Nat
         /\ IsFiniteSet(Waiting(i)) /\ Cardinality(Waiting(i)) \in Nat
<1>1. Queue(due, i) \subseteq Positions /\ Queue(sdkQ, i) \subseteq Positions
  BY TapeSteps DEF TypeOK, Queue
<1>2. Waiting(i) \subseteq Inside
  BY DEF Waiting
<1> QED
  BY <1>1, <1>2, TapeSteps, InsideAssumption, FS_Subset, FS_CardinalityType

LEMMA InitFaithful == Init => FaithfulInv
<1> SUFFICES ASSUME Init PROVE FaithfulInv
  OBVIOUS
<1>1. TypeOK /\ Diverged = 0 /\ Handed
  BY InitIInv DEF Init, IInv, Diverged, Handed
<1>2. ASSUME NEW i \in SdkIdents
      PROVE  Cardinality(Queue(sdkQ, i)) = Cardinality(Queue(due, i)) + Cardinality(Waiting(i))
  <2>1. Waiting(i) = {} /\ Queue(sdkQ, i) = Queue(due, i)
    BY IdentsAssumption DEF Init, Waiting, Queue
  <2> QED
    BY <1>1, <2>1, SdkFinite, FS_EmptySet
<1> QED
  BY <1>1, <1>2 DEF FaithfulInv, SdkAnswerable

\* A native call takes one of the calls due for its identity, and waits to pop.
LEMMA SdkCallFaithful ==
  ASSUME IInv, FaithfulInv, agent.faithful, ~agent.plain, UNCHANGED agent,
         NEW t \in Inside, NEW i \in SdkIdents, SdkCall(t, i)
  PROVE  FaithfulInv'
<1>1. TypeOK /\ UNCHANGED <<tape, proxyQ, sdkQ, proxy, live, got>> /\ popping[t] = None
  BY DEF SdkCall, IInv
<1>2. PICK p \in Queue(due, i) : due' = due \ {p}
  BY DEF SdkCall, Call
<1>3. Cardinality(Queue(due, i)) # 0
  BY <1>1, <1>2, SdkFinite, FS_EmptySet
<1>4. Queue(sdkQ, i) # {}
  BY <1>1, <1>3, SdkFinite, FS_EmptySet DEF FaithfulInv, SdkAnswerable
<1>5. popping' = [popping EXCEPT ![t] = i] /\ sdk' = sdk
  BY <1>4 DEF SdkCall, SdkMiss, SdkFound
<1>6. ASSUME NEW j \in SdkIdents
      PROVE  Cardinality(Queue(sdkQ, j)') = Cardinality(Queue(due, j)') + Cardinality(Waiting(j)')
  <2>1. Queue(sdkQ, j)' = Queue(sdkQ, j)
    BY <1>1 DEF Queue
  <2>2. CASE j = i
    <3>1. Queue(due, i)' = Queue(due, i) \ {p}
      BY <1>1, <1>2 DEF Queue
    <3>2. Waiting(i)' = Waiting(i) \cup {t} /\ t \notin Waiting(i)
      BY <1>1, <1>5, IdentsAssumption DEF Waiting, TypeOK
    <3>3. Cardinality(Queue(due, i) \ {p}) = Cardinality(Queue(due, i)) - 1
      BY <1>1, SdkFinite, FS_RemoveElement
    <3>4. Cardinality(Waiting(i) \cup {t}) = Cardinality(Waiting(i)) + 1
      BY <1>1, <3>2, SdkFinite, FS_AddElement
    <3> QED
      BY <1>1, <2>1, <2>2, <3>1, <3>2, <3>3, <3>4, SdkFinite DEF FaithfulInv, SdkAnswerable
  <2>3. CASE j # i
    <3>1. Queue(due, j)' = Queue(due, j)
      BY <1>1, <1>2, <2>3 DEF Queue
    <3>2. Waiting(j)' = Waiting(j)
      BY <1>1, <1>5, <2>3, IdentsAssumption DEF Waiting, TypeOK
    <3> QED
      BY <2>1, <3>1, <3>2 DEF FaithfulInv, SdkAnswerable
  <2> QED
    BY <2>2, <2>3
<1> QED
  BY <1>1, <1>5, <1>6 DEF FaithfulInv, SdkAnswerable, Diverged, Handed, Intact, Positions, Indexed

\* A thread that pops takes the answer it waits for.
LEMMA SdkPopFaithful ==
  ASSUME IInv, FaithfulInv, agent.faithful, ~agent.plain, UNCHANGED agent,
         NEW t \in Inside, SdkPop(t)
  PROVE  FaithfulInv'
<1> DEFINE i == popping[t]
<1>1. TypeOK /\ UNCHANGED <<tape, proxyQ, proxy, live, due, calls>> /\ i \in SdkIdents
      /\ popping' = [popping EXCEPT ![t] = None]
  BY DEF SdkPop, IInv, TypeOK
<1>2. t \in Waiting(i)
  BY DEF Waiting
<1>3. Queue(sdkQ, i) # {}
  <2>1. Cardinality(Waiting(i)) # 0
    BY <1>1, <1>2, SdkFinite, FS_EmptySet
  <2> QED
    BY <1>1, <2>1, SdkFinite, FS_EmptySet DEF FaithfulInv, SdkAnswerable
<1>4. SdkServe(t)
  BY <1>3 DEF SdkPop, SdkRaced
<1>5. PICK p \in Queue(sdkQ, i) :
        /\ sdkQ' = sdkQ \ {p}
        /\ \/ tape[p].readable /\ sdk' = Deliver(p, sdk) /\ got' = got \cup {p}
           \/ ~tape[p].readable /\ sdk' = sdk /\ got' = got
  BY <1>4 DEF SdkServe
<1>6. ASSUME NEW j \in SdkIdents
      PROVE  Cardinality(Queue(sdkQ, j)') = Cardinality(Queue(due, j)') + Cardinality(Waiting(j)')
  <2>1. Queue(due, j)' = Queue(due, j)
    BY <1>1 DEF Queue
  <2>2. CASE j = i
    <3>1. {u \in Inside : popping'[u] = j} = Waiting(j) \ {t}
      BY <1>1, <2>2, IdentsAssumption DEF Waiting, TypeOK
    <3>2. Cardinality(Queue(sdkQ, i) \ {p}) = Cardinality(Queue(sdkQ, i)) - 1
      BY <1>1, SdkFinite, FS_RemoveElement
    <3>3. Cardinality(Waiting(i) \ {t}) = Cardinality(Waiting(i)) - 1
      BY <1>1, <1>2, SdkFinite, FS_RemoveElement
    <3>4. Queue(sdkQ, j)' = Queue(sdkQ, i) \ {p} /\ Waiting(j)' = Waiting(i) \ {t}
      BY <1>1, <1>5, <2>2, <3>1 DEF Queue, Waiting
    <3> QED
      BY <1>1, <2>1, <2>2, <3>2, <3>3, <3>4, SdkFinite DEF FaithfulInv, SdkAnswerable
  <2>3. CASE j # i
    <3>1. Queue(sdkQ, j)' = Queue(sdkQ, j)
      BY <1>1, <1>5, <2>3 DEF Queue
    <3>2. Waiting(j)' = Waiting(j)
      BY <1>1, <2>3, IdentsAssumption DEF Waiting, TypeOK
    <3> QED
      BY <2>1, <3>1, <3>2 DEF FaithfulInv, SdkAnswerable
  <2> QED
    BY <2>2, <2>3
<1>7. Diverged' = Diverged
  BY <1>1, <1>5 DEF Diverged, Deliver
<1>8. Intact' => Intact /\ tape[p].readable
  BY <1>1, <1>5 DEF Intact, Positions, Queue, TypeOK, Indexed
<1>9. Intact' => Handed'
  BY <1>1, <1>5, <1>8 DEF FaithfulInv, Handed, Indexed, Positions
<1> QED
  BY <1>6, <1>7, <1>9 DEF FaithfulInv, SdkAnswerable

\* A proxied call does not concern the native ones.
LEMMA ProxyCallFaithful ==
  ASSUME IInv, Answerable, FaithfulInv, agent.faithful, ~agent.plain, UNCHANGED agent,
         NEW i \in HttpIdents, ProxyCall(i)
  PROVE  FaithfulInv'
<1>1. TypeOK /\ UNCHANGED <<tape, sdkQ, popping, sdk>>
  BY DEF ProxyCall, IInv
<1>2. PICK p \in Queue(due, i) : due' = due \ {p}
  BY FaithfulHit
<1>3. Cardinality(Queue(due, i)) # 0
  BY <1>1, <1>2, QueuesFinite, FS_EmptySet
<1>4. Queue(proxyQ, i) # {}
  BY <1>3, FS_EmptySet DEF Answerable
<1>5. PICK q \in Queue(proxyQ, i) :
        /\ proxyQ' = proxyQ \ {q}
        /\ \/ tape[q].readable /\ proxy' = Deliver(q, proxy) /\ got' = got \cup {q}
           \/ ~tape[q].readable /\ proxy' = proxy /\ got' = got
  BY <1>4 DEF ProxyCall, ProxyMiss, ProxyHit
<1>6. ASSUME NEW j \in SdkIdents
      PROVE  Cardinality(Queue(sdkQ, j)') = Cardinality(Queue(due, j)') + Cardinality(Waiting(j)')
  <2>1. Queue(due, j)' = Queue(due, j) /\ Queue(sdkQ, j)' = Queue(sdkQ, j)
        /\ Waiting(j)' = Waiting(j)
    BY <1>1, <1>2, IdentsAssumption DEF Queue, Waiting
  <2> QED
    BY <2>1 DEF FaithfulInv, SdkAnswerable
<1>7. Diverged' = Diverged
  BY <1>1, <1>5 DEF Diverged, Deliver
<1>8. Intact' => Intact /\ tape[q].readable
  BY <1>1, <1>5 DEF Intact, Positions, Queue, TypeOK, Indexed
<1>9. Intact' => Handed'
  BY <1>1, <1>5, <1>8 DEF FaithfulInv, Handed, Indexed, Positions
<1> QED
  BY <1>6, <1>7, <1>9 DEF FaithfulInv, SdkAnswerable

LEMMA StepFaithful == IInv /\ Answerable /\ FaithfulInv /\ [Next]_vars => FaithfulInv'
<1> SUFFICES ASSUME IInv, Answerable, FaithfulInv, [Next]_vars,
                    agent.faithful, ~agent.plain
             PROVE  FaithfulInv'
  BY DEF FaithfulInv, Next, vars
<1>1. UNCHANGED agent
  BY DEF Next, vars
<1>2. CASE UNCHANGED vars \/ ProxyBlocked
  BY <1>1, <1>2 DEF vars, ProxyBlocked, FaithfulInv, SdkAnswerable, Queue, Waiting,
                    Diverged, Handed, Intact, Positions, Indexed
<1>3. ~ \E i \in SdkIdents : SdkPassThrough(i)
  BY DEF SdkPassThrough
<1> QED
  BY <1>1, <1>2, <1>3, ProxyCallFaithful, SdkCallFaithful, SdkPopFaithful DEF Next

\* An agent that repeats every recorded call, in any order and from any number
\* of threads, gets a report of success (record_session.py:146-148), if every
\* step of the tape has an identity and can be read.
THEOREM FaithfulSucceeds == Spec => []FaithfulReplayOk
<1>1. Init => IInv /\ Answerable /\ FaithfulInv
  BY InitIInv, InitAnswerable, InitFaithful
<1>2. IInv /\ Answerable /\ FaithfulInv /\ [Next]_vars => (IInv /\ Answerable /\ FaithfulInv)'
  BY StepIInv, StepAnswerable, StepFaithful
<1>3. IInv /\ Answerable /\ FaithfulInv => FaithfulReplayOk
  <2> SUFFICES ASSUME IInv, Answerable, FaithfulInv, agent.faithful, ~agent.plain,
                      Intact, Indexed = Positions, due = {}, Idle
               PROVE  DemoOk
    BY DEF FaithfulReplayOk
  <2>1. TypeOK /\ Served = Cardinality(got) /\ got \subseteq Positions
    BY DEF IInv, Counted, TypeOK
  <2>2. ASSUME NEW p \in Positions PROVE p \in got
    <3> DEFINE i == tape[p].ident
    <3>1. p \in Indexed /\ i \in HttpIdents \cup SdkIdents
      <4>1. tape \in Seq(Steps)
        BY <2>1, TapeSteps
      <4>2. tape[p] \in Steps
        BY <4>1 DEF Positions
      <4> QED
        BY <4>2 DEF Steps, Indexed
    <3>2. Queue(due, i) = {}
      BY DEF Queue
    <3>3. CASE i \in HttpIdents
      <4>1. Queue(proxyQ, i) = {}
        BY <2>1, <3>2, <3>3, QueuesFinite, FS_EmptySet DEF Answerable
      <4> QED
        BY <3>1, <3>3, <4>1 DEF FaithfulInv, Handed, Queue
    <3>4. CASE i \in SdkIdents
      <4>1. Waiting(i) = {}
        BY <3>4, IdentsAssumption DEF Idle, Waiting
      <4>2. Queue(sdkQ, i) = {}
        BY <2>1, <3>2, <3>4, <4>1, SdkFinite, FS_EmptySet DEF FaithfulInv, SdkAnswerable
      <4> QED
        BY <3>1, <3>4, <4>2 DEF FaithfulInv, Handed, Queue
    <3> QED
      BY <3>1, <3>3, <3>4
  <2>3. got = Positions
    BY <2>1, <2>2
  <2> QED
    BY <2>1, <2>3, TapeSteps DEF DemoOk, ExitOk, LiveExecuted, FaithfulInv
<1> QED
  BY <1>1, <1>2, <1>3, PTL DEF Spec

=============================================================================
