----------------------- MODULE RecordingSessionProofs -----------------------
(***************************************************************************)
(* Proofs about RecordingSession, for any number of branches and of tool   *)
(* calls, with or without the proxy, and whichever appends fail: all the   *)
(* threads together produce one sequence of step ids, without collisions   *)
(* and without gaps; the status accounts for every failure that the agent  *)
(* had heard of when its session ended; and, while no two branches share   *)
(* the session, the causal edges are those of its batches.                 *)
(***************************************************************************)
EXTENDS RecordingSession, FiniteSetTheorems, TLAPS

\* Ids are handed out from 1 up to the counter.
Numbered ==
  /\ \A s \in Known : s.id \in 1 .. counter
  /\ \A t \in Threads : Holding(t) => draft[t].id \in 1 .. counter

\* Tool calls are in flight only while their branch waits for them.
CallsJoined ==
  \A b \in Branches, i \in Slots : at[<<b, i>>] # "idle" => at[b] = "tools"

-----------------------------------------------------------------------------
(***************************************************************************)
(* Type correctness                                                        *)
(***************************************************************************)

LEMMA BlankIsStep ==
  /\ Blank \in Steps
  /\ \A a \in 0 .. Cardinality(Slots) : a \in Nat
<1>1. Cardinality(Slots) \in Nat
  BY SlotsAssumption, FS_CardinalityType
<1>2. QED
  BY <1>1 DEF Blank, Steps, Ids

\* What handing out an id does.
LEMMA NumberType ==
  ASSUME TypeOK, NEW t \in Threads, NEW step \in Steps, Number(t, step)
  PROVE  /\ counter' \in 0 .. mode.limit
         /\ counter' = counter + 1
         /\ draft' \in [Threads -> Steps]
         /\ draft'[t].id = counter + 1
         /\ \A u \in Threads \ {t} : draft'[u] = draft[u]
<1>1. counter \in Nat /\ counter' = counter + 1 /\ counter' \in 0 .. mode.limit
  BY ModesAssumption DEF TypeOK, Number
<1> DEFINE new == [step EXCEPT !.id = counter + 1, !.parents = Previous(counter + 1)]
<1>2. Previous(counter + 1) \in SUBSET Ids
  BY <1>1 DEF Previous, Ids
<1>3. new \in Steps /\ new.id = counter + 1
  <2>1. counter + 1 \in Ids
    BY <1>1 DEF Ids
  <2>2. \A i \in Ids, P \in SUBSET Ids :
          LET s == [step EXCEPT !.id = i, !.parents = P] IN s \in Steps /\ s.id = i
    BY DEF Steps
  <2>3. QED
    BY <1>2, <2>1, <2>2
<1>4. draft' = [draft EXCEPT ![t] = new]
  BY DEF Number
<1>5. QED
  BY <1>1, <1>3, <1>4 DEF TypeOK

\* What appending does to the trace.
LEMMA AppendType ==
  ASSUME TypeOK, NEW t \in Threads, Append(t)
  PROVE  /\ steps' \subseteq Steps /\ lost' \subseteq Steps
         /\ Known' = Known \cup {draft[t]}
         /\ UNCHANGED <<counter, armed, remaining, dispatcher, siblings, heard, verdict, status>>
<1>1. draft[t] \in Steps
  BY DEF TypeOK
<1>2. QED
  BY <1>1 DEF TypeOK, Append, Known, batch, ending

LEMMA StartCallsType ==
  ASSUME TypeOK, NEW b \in Branches, NEW asked, StartCalls(b, asked)
  PROVE  at' \in [Threads -> Labels]
BY DEF TypeOK, StartCalls, Labels

LEMMA GotoType ==
  ASSUME TypeOK, NEW t \in Threads, NEW label \in Labels, Goto(t, label)
  PROVE  at' \in [Threads -> Labels]
BY DEF TypeOK, Goto

LEMMA DiscardType ==
  ASSUME TypeOK, NEW t \in Threads, Discard(t)
  PROVE  draft' \in [Threads -> Steps]
BY BlankIsStep DEF TypeOK, Discard

LEMMA BranchStepType ==
  ASSUME TypeOK, NEW b \in Branches, BranchStep(b), UNCHANGED mode
  PROVE  TypeOK'
<1> b \in Threads /\ draft[b] \in Steps
  BY DEF Threads, TypeOK
<1>1. CASE LlmNumber(b)
  <2>1. PICK asked \in 0 .. Cardinality(Slots) :
          Number(b, [Blank EXCEPT !.kind = "llm", !.asked = asked, !.cause = turn[b]])
    BY <1>1 DEF LlmNumber
  <2>2. [Blank EXCEPT !.kind = "llm", !.asked = asked, !.cause = turn[b]] \in Steps
    BY BlankIsStep DEF Steps, TypeOK
  <2>3. counter' \in 0 .. mode.limit /\ draft' \in [Threads -> Steps]
    BY <2>1, <2>2, NumberType
  <2>4. at' \in [Threads -> Labels]
    BY <1>1, GotoType DEF LlmNumber, Labels
  <2>5. QED
    BY <1>1, <2>3, <2>4 DEF LlmNumber, TypeOK, batch, ending
<1>2. CASE LlmRaise(b)
  <2>1. at' \in [Threads -> Labels]
    BY <1>2, GotoType DEF LlmRaise, Labels
  <2>2. QED
    BY <1>2, <2>1 DEF LlmRaise, TypeOK, batch, ending
<1>3. CASE LlmFanin(b)
  <2>1. at' \in [Threads -> Labels]
    BY <1>3, GotoType DEF LlmFanin, Labels
  <2>2. draft' = draft \/ draft' = [draft EXCEPT ![b].parents = siblings]
    BY <1>3 DEF LlmFanin, ConsumeFanin
  <2>3. draft' \in [Threads -> Steps]
    BY <2>2 DEF TypeOK, Steps
  <2>4. siblings' \subseteq Ids
    BY <1>3 DEF LlmFanin, ConsumeFanin
  <2>5. QED
    BY <1>3, <2>1, <2>3, <2>4 DEF LlmFanin, TypeOK, ending
<1>4. CASE LlmAppend(b)
  <2>1. at' \in [Threads -> Labels]
    BY <1>4, GotoType DEF LlmAppend, Labels
  <2>2. QED
    BY <1>4, <2>1, AppendType DEF LlmAppend, TypeOK
<1>5. CASE LlmArm(b)
  <2>1. at' \in [Threads -> Labels]
    BY <1>5, StartCallsType DEF LlmArm
  <2>2. draft' \in [Threads -> Steps]
    BY <1>5, DiscardType DEF LlmArm
  <2>3. draft[b].id \in Ids /\ draft[b].asked \in Nat
    BY DEF Steps
  <2>4. armed' \in Ids \cup {None} /\ remaining' \in Nat
        /\ dispatcher' \in Ids \cup {None} /\ siblings' \subseteq Ids
    <3>1. CASE draft[b].asked >= 2
      BY <1>5, <2>3, <3>1 DEF LlmArm, ArmParallelGroup, TypeOK
    <3>2. CASE ~(draft[b].asked >= 2)
      <4>1. armed' = None /\ remaining' = 0 /\ dispatcher' = None /\ siblings' = siblings
        BY <1>5, <3>2 DEF LlmArm, ArmParallelGroup
      <4>2. QED
        BY <4>1 DEF TypeOK
    <3>3. QED
      BY <3>1, <3>2
  <2>5. turn' \in [Branches -> Nat]
    BY <1>5, <2>3 DEF LlmArm, TypeOK, Ids
  <2>6. QED
    BY <1>5, <2>1, <2>2, <2>4, <2>5 DEF LlmArm, TypeOK, ending
<1>6. CASE HttpAnswered(b)
  <2>1. at' \in [Threads -> Labels]
    BY <1>6, StartCallsType DEF HttpAnswered
  <2>2. QED
    BY <1>6, <2>1 DEF HttpAnswered, TypeOK, batch, ending
<1>7. CASE Gather(b)
  <2>1. at' \in [Threads -> Labels]
    BY <1>7, GotoType DEF Gather, Labels
  <2>2. heard' \subseteq Ids
    BY <1>7 DEF Gather, TypeOK, Known, Steps
  <2>3. QED
    BY <1>7, <2>1, <2>2 DEF Gather, TypeOK, batch
<1>8. QED
  BY <1>1, <1>2, <1>3, <1>4, <1>5, <1>6, <1>7 DEF BranchStep

LEMMA CallStepType ==
  ASSUME TypeOK, NEW c \in Calls, CallStep(c), UNCHANGED mode
  PROVE  TypeOK'
<1> c \in Threads /\ c[1] \in Branches /\ draft[c] \in Steps
  BY DEF Threads, Calls, TypeOK
<1>1. CASE ToolNumber(c)
  <2>1. PICK failed \in BOOLEAN :
          Number(c, [Blank EXCEPT !.kind = "tool", !.failed = failed,
                                  !.cause = turn[c[1]]])
    BY <1>1 DEF ToolNumber
  <2>2. [Blank EXCEPT !.kind = "tool", !.failed = failed, !.cause = turn[c[1]]] \in Steps
    BY BlankIsStep DEF Steps, TypeOK
  <2>3. counter' \in 0 .. mode.limit /\ draft' \in [Threads -> Steps]
    BY <2>1, <2>2, NumberType
  <2>4. at' \in [Threads -> Labels]
    BY <1>1, GotoType DEF ToolNumber, Labels
  <2>5. QED
    BY <1>1, <2>3, <2>4 DEF ToolNumber, TypeOK, batch, ending
<1>2. CASE ToolRaise(c)
  <2>1. at' \in [Threads -> Labels]
    BY <1>2, GotoType DEF ToolRaise, Labels
  <2>2. QED
    BY <1>2, <2>1 DEF ToolRaise, TypeOK, batch, ending
<1>3. CASE ToolJoin(c)
  <2>1. at' \in [Threads -> Labels]
    BY <1>3, GotoType DEF ToolJoin, Labels
  <2>2. CASE JoinsBatch /\ draft' = [draft EXCEPT ![c].group = armed,
                     ![c].parents = IF dispatcher # None THEN {dispatcher} ELSE @]
             /\ siblings' = siblings \cup {draft[c].id}
             /\ remaining' = remaining - 1
             /\ armed' = IF remaining = 1 THEN None ELSE armed
    <3>1. (IF dispatcher # None THEN {dispatcher} ELSE draft[c].parents) \in SUBSET Ids
      BY DEF TypeOK, Steps
    <3>2. draft' \in [Threads -> Steps]
      BY <2>2, <3>1 DEF TypeOK, Steps
    <3>3. siblings' \subseteq Ids /\ remaining' \in Nat /\ armed' \in Ids \cup {None}
      BY <2>2 DEF TypeOK, Steps, JoinsBatch
    <3>4. QED
      BY <1>3, <2>1, <3>2, <3>3 DEF ToolJoin, TypeOK, ending
  <2>3. CASE UNCHANGED <<draft, siblings, remaining, armed>>
    BY <1>3, <2>1, <2>3 DEF ToolJoin, TypeOK, ending
  <2>4. QED
    BY <1>3, <2>2, <2>3 DEF ToolJoin
<1>4. CASE ToolAppend(c)
  <2>1. at' \in [Threads -> Labels]
    BY <1>4, GotoType DEF ToolAppend, Labels
  <2>2. draft' \in [Threads -> Steps]
    BY <1>4, DiscardType DEF ToolAppend
  <2>3. QED
    BY <1>4, <2>1, <2>2, AppendType DEF ToolAppend, TypeOK
<1>5. QED
  BY <1>1, <1>2, <1>3, <1>4 DEF CallStep

LEMMA ProxyStepType ==
  ASSUME TypeOK, ProxyStep, UNCHANGED mode
  PROVE  TypeOK'
<1> Proxy \in Threads /\ draft[Proxy] \in Steps
  BY DEF Threads, TypeOK
<1>1. CASE HttpNumber
  <2>1. \E step \in Steps : Number(Proxy, step)
    <3>1. \A f \in BOOLEAN : [Blank EXCEPT !.failed = f] \in Steps
      BY BlankIsStep DEF Steps
    <3>2. \A b \in Branches, f \in BOOLEAN, a \in 0 .. Cardinality(Slots) :
            [Blank EXCEPT !.kind = "llm", !.failed = f, !.asked = a,
                          !.cause = turn[b]] \in Steps
      BY BlankIsStep DEF Steps, TypeOK
    <3>3. QED
      BY <1>1, <3>1, <3>2 DEF HttpNumber
  <2>2. counter' \in 0 .. mode.limit /\ draft' \in [Threads -> Steps]
    BY <2>1, NumberType
  <2>3. at' \in [Threads -> Labels]
    BY <1>1 DEF HttpNumber, Goto, TypeOK, Labels
  <2>4. QED
    BY <1>1, <2>2, <2>3 DEF HttpNumber, TypeOK, batch, ending
<1>2. CASE HttpAppend
  <2>1. at' \in [Threads -> Labels]
    BY <1>2 DEF HttpAppend, TypeOK, Labels
  <2>2. draft' \in [Threads -> Steps]
    BY <1>2, DiscardType DEF HttpAppend
  <2>3. turn' \in [Branches -> Nat]
    BY <1>2 DEF HttpAppend, TypeOK, Steps, Ids
  <2>4. QED
    BY <1>2, <2>1, <2>2, <2>3, AppendType DEF HttpAppend, TypeOK
<1>3. QED
  BY <1>1, <1>2 DEF ProxyStep

LEMMA InitType == Init => TypeOK
<1>1. \A t \in Threads : (IF t \in mode.branches THEN "think"
                         ELSE IF t \in Branches THEN "done" ELSE "idle") \in Labels
  BY DEF Labels
<1>2. QED
  BY <1>1, BlankIsStep, ModesAssumption DEF Init, TypeOK

LEMMA StepType == TypeOK /\ [Next]_vars => TypeOK'
<1> SUFFICES ASSUME TypeOK, [Next]_vars PROVE TypeOK'
  OBVIOUS
<1>1. CASE (ExitRead \/ ExitFinish \/ StopRecorder) /\ UNCHANGED mode
  BY <1>1 DEF ExitRead, ExitFinish, StopRecorder, Verdict, TypeOK, batch, ending
<1>2. CASE UNCHANGED vars
  BY <1>2 DEF vars, batch, ending, TypeOK
<1>3. QED
  BY <1>1, <1>2, BranchStepType, CallStepType, ProxyStepType DEF Next

\* The session, the trace and the threads stay well formed, whichever hooks
\* interleave.
THEOREM TypeCorrect == Spec => []TypeOK
BY InitType, StepType, PTL DEF Spec

-----------------------------------------------------------------------------
(***************************************************************************)
(* One sequence of ids                                                     *)
(***************************************************************************)

SeqInv == Numbered /\ OneSequence

\* Thread t takes an id: the new id exceeds all the others.
LEMMA NumberSeq ==
  ASSUME TypeOK, SeqInv, NEW t \in Threads, NEW step \in Steps, Number(t, step),
         UNCHANGED <<steps, lost>>,
         Holding(t)', ~Holding(t),
         \A u \in Threads \ {t} : Holding(u)' <=> Holding(u)
  PROVE  SeqInv'
<1>1. /\ counter \in Nat /\ counter' = counter + 1
      /\ draft'[t].id = counter + 1
      /\ \A u \in Threads \ {t} : draft'[u] = draft[u]
      /\ Known' = Known
  BY NumberType DEF TypeOK, Known
<1>2. /\ \A s \in Known : s.id \in 1 .. counter
      /\ \A u \in Threads : Holding(u) => draft[u].id \in 1 .. counter
  BY DEF SeqInv, Numbered
<1>3. Numbered'
  BY <1>1, <1>2 DEF Numbered
<1>4. \A s, r \in Known' : s.id = r.id => s = r
  BY <1>1 DEF SeqInv, OneSequence
<1>5. \A u \in Threads : Holding(u)' => \A s \in Known' : s.id # draft'[u].id
  BY <1>1, <1>2 DEF SeqInv, OneSequence
<1>6. \A u, w \in Threads :
        Holding(u)' /\ Holding(w)' /\ draft'[u].id = draft'[w].id => u = w
  BY <1>1, <1>2 DEF SeqInv, OneSequence
<1>7. \A n \in 1 .. counter' :
        \/ \E s \in Known' : s.id = n
        \/ \E u \in Threads : Holding(u)' /\ draft'[u].id = n
  <2> SUFFICES ASSUME NEW n \in 1 .. counter',
                      ~ \E s \in Known' : s.id = n
               PROVE  \E u \in Threads : Holding(u)' /\ draft'[u].id = n
    OBVIOUS
  <2>1. CASE n = counter + 1
    BY <1>1, <2>1
  <2>2. CASE n \in 1 .. counter
    <3>1. PICK u \in Threads : Holding(u) /\ draft[u].id = n
      BY <1>1, <2>2 DEF SeqInv, OneSequence
    <3>2. QED
      BY <1>1, <3>1
  <2>3. QED
    BY <1>1, <2>1, <2>2
<1>8. QED
  BY <1>3, <1>4, <1>5, <1>6, <1>7 DEF SeqInv, OneSequence

\* Thread t appends its step: the id moves from the thread to the trace, or to
\* the lost steps.
LEMMA AppendSeq ==
  ASSUME TypeOK, SeqInv, NEW t \in Threads, Append(t), Holding(t), ~Holding(t)',
         \A u \in Threads \ {t} : (Holding(u)' <=> Holding(u)) /\ draft'[u] = draft[u]
  PROVE  SeqInv'
<1>1. Known' = Known \cup {draft[t]} /\ counter' = counter
  BY AppendType
<1>2. Numbered'
  BY <1>1 DEF SeqInv, Numbered
<1>3. \A s, r \in Known' : s.id = r.id => s = r
  BY <1>1 DEF SeqInv, OneSequence
<1>4. \A u \in Threads : Holding(u)' => \A s \in Known' : s.id # draft'[u].id
  BY <1>1 DEF SeqInv, OneSequence
<1>5. \A u, w \in Threads :
        Holding(u)' /\ Holding(w)' /\ draft'[u].id = draft'[w].id => u = w
  BY DEF SeqInv, OneSequence
<1>6. \A n \in 1 .. counter' :
        \/ \E s \in Known' : s.id = n
        \/ \E u \in Threads : Holding(u)' /\ draft'[u].id = n
  BY <1>1 DEF SeqInv, OneSequence
<1>7. QED
  BY <1>2, <1>3, <1>4, <1>5, <1>6 DEF SeqInv, OneSequence

\* Nothing happens to the ids.
LEMMA KeepSeq ==
  ASSUME SeqInv, UNCHANGED <<counter, steps, lost>>,
         \A u \in Threads : Holding(u)' <=> Holding(u),
         \A u \in Threads : Holding(u) => draft'[u].id = draft[u].id
  PROVE  SeqInv'
<1>1. Known' = Known
  BY DEF Known
<1>2. Numbered'
  BY <1>1 DEF SeqInv, Numbered
<1>3. OneSequence'
  BY <1>1 DEF SeqInv, OneSequence
<1>4. QED
  BY <1>2, <1>3 DEF SeqInv

IInv == TypeOK /\ SeqInv /\ CallsJoined

LEMMA BranchStepInv ==
  ASSUME IInv, NEW b \in Branches, BranchStep(b), TypeOK'
  PROVE  SeqInv' /\ CallsJoined'
<1> b \in Threads /\ at \in [Threads -> Labels] /\ draft \in [Threads -> Steps]
    /\ at' \in [Threads -> Labels] /\ draft' \in [Threads -> Steps]
  BY DEF Threads, TypeOK, IInv
<1> \A d \in Branches, i \in Slots : <<d, i>> \in Threads /\ <<d, i>> \notin Branches
  BY ThreadsAssumption DEF Threads, Calls
<1>1. CASE LlmNumber(b)
  <2>1. PICK asked \in 0 .. Cardinality(Slots) :
          Number(b, [Blank EXCEPT !.kind = "llm", !.asked = asked, !.cause = turn[b]])
    BY <1>1 DEF LlmNumber
  <2>2. [Blank EXCEPT !.kind = "llm", !.asked = asked, !.cause = turn[b]] \in Steps
    BY BlankIsStep DEF Steps, TypeOK, IInv
  <2>3. SeqInv'
    BY <1>1, <2>1, <2>2, NumberSeq DEF LlmNumber, IInv, Goto, Holding
  <2>4. CallsJoined'
    BY <1>1 DEF LlmNumber, IInv, Goto, CallsJoined
  <2>5. QED
    BY <2>3, <2>4
<1>2. CASE LlmRaise(b)
  <2>1. SeqInv'
    BY <1>2, KeepSeq DEF LlmRaise, IInv, Goto, Holding
  <2>2. QED
    BY <1>2, <2>1 DEF LlmRaise, IInv, Goto, CallsJoined
<1>3. CASE LlmFanin(b)
  <2>1. \A u \in Threads : draft'[u].id = draft[u].id
    <3>1. draft' = draft \/ draft' = [draft EXCEPT ![b].parents = siblings]
      BY <1>3 DEF LlmFanin, ConsumeFanin
    <3>2. \A u \in Threads : draft[u] \in Steps
      OBVIOUS
    <3>3. QED
      BY <3>1, <3>2 DEF Steps
  <2>2. SeqInv'
    BY <1>3, <2>1, KeepSeq DEF LlmFanin, IInv, Goto, Holding
  <2>3. QED
    BY <1>3, <2>2 DEF LlmFanin, IInv, Goto, CallsJoined
<1>4. CASE LlmAppend(b)
  <2>1. SeqInv'
    BY <1>4, AppendSeq DEF LlmAppend, IInv, Goto, Holding
  <2>2. QED
    BY <1>4, <2>1 DEF LlmAppend, IInv, Goto, CallsJoined
<1>5. CASE LlmArm(b) \/ HttpAnswered(b)
  <2>1. PICK asked : StartCalls(b, asked)
    BY <1>5 DEF LlmArm, HttpAnswered
  <2>2. PICK S \in SUBSET Slots :
          at' = [t \in Threads |-> IF t = b THEN "tools"
                                  ELSE IF t \in {b} \X S THEN "running" ELSE at[t]]
    BY <2>1 DEF StartCalls
  <2>3. at[b] \in {"appended", "answered"}
    BY <1>5 DEF LlmArm, HttpAnswered
  <2>4. \A i \in Slots : at[<<b, i>>] = "idle"
    BY <2>3 DEF IInv, CallsJoined
  <2>5. \A u \in Threads : Holding(u)' <=> Holding(u)
    <3> SUFFICES ASSUME NEW u \in Threads PROVE Holding(u)' <=> Holding(u)
      OBVIOUS
    <3>1. CASE u = b
      BY <2>2, <2>3, <3>1 DEF Holding
    <3>2. CASE u # b /\ u \in {b} \X S
      <4>1. at[u] = "idle"
        BY <2>4, <3>2
      <4>2. QED
        BY <2>2, <3>2, <4>1 DEF Holding
    <3>3. CASE u # b /\ u \notin {b} \X S
      BY <2>2, <3>3 DEF Holding
    <3>4. QED
      BY <3>1, <3>2, <3>3
  <2>6. \A u \in Threads : Holding(u) => draft'[u] = draft[u]
    BY <1>5, <2>3 DEF LlmArm, HttpAnswered, Discard, Holding
  <2>7. SeqInv'
    BY <1>5, <2>5, <2>6, KeepSeq DEF LlmArm, HttpAnswered, IInv
  <2>8. CallsJoined'
    <3> SUFFICES ASSUME NEW d \in Branches, NEW i \in Slots, at'[<<d, i>>] # "idle",
                        d # b
                 PROVE  at'[d] = "tools"
      BY <2>2 DEF CallsJoined
    <3>1. <<d, i>> \notin {b} \X S /\ <<d, i>> # b
      OBVIOUS
    <3>2. at'[<<d, i>>] = at[<<d, i>>]
      BY <2>2, <3>1
    <3>3. at[d] = "tools" /\ d \in Threads
      BY <3>2 DEF IInv, CallsJoined, Threads
    <3>4. QED
      BY <2>2, <3>3
  <2>9. QED
    BY <2>7, <2>8
<1>6. CASE Gather(b)
  <2>1. PICK label \in {"think", "done"} : Goto(b, label)
    BY <1>6 DEF Gather
  <2>2. SeqInv'
    BY <1>6, <2>1, KeepSeq DEF Gather, IInv, Goto, Holding
  <2>3. QED
    BY <1>6, <2>1, <2>2 DEF Gather, IInv, Goto, CallsJoined
<1>7. QED
  BY <1>1, <1>2, <1>3, <1>4, <1>5, <1>6 DEF BranchStep

LEMMA CallStepInv ==
  ASSUME IInv, NEW c \in Calls, CallStep(c), TypeOK'
  PROVE  SeqInv' /\ CallsJoined'
<1> c \in Threads /\ c \notin Branches /\ c[1] \in Branches
    /\ at \in [Threads -> Labels] /\ draft \in [Threads -> Steps]
    /\ at' \in [Threads -> Labels] /\ draft' \in [Threads -> Steps]
  BY ThreadsAssumption DEF Threads, Calls, TypeOK, IInv
<1> \A d \in Branches, i \in Slots : <<d, i>> \in Threads /\ d \in Threads
  BY DEF Threads, Calls
<1>1. CASE ToolNumber(c)
  <2>1. PICK failed \in BOOLEAN :
          Number(c, [Blank EXCEPT !.kind = "tool", !.failed = failed,
                                  !.cause = turn[c[1]]])
    BY <1>1 DEF ToolNumber
  <2>2. [Blank EXCEPT !.kind = "tool", !.failed = failed, !.cause = turn[c[1]]] \in Steps
    BY BlankIsStep DEF Steps, TypeOK, IInv
  <2>3. SeqInv'
    BY <1>1, <2>1, <2>2, NumberSeq DEF ToolNumber, IInv, Goto, Holding
  <2>4. CallsJoined'
    BY <1>1 DEF ToolNumber, IInv, Goto, CallsJoined
  <2>5. QED
    BY <2>3, <2>4
<1>2. CASE ToolRaise(c)
  <2>1. SeqInv'
    BY <1>2, KeepSeq DEF ToolRaise, IInv, Goto, Holding
  <2>2. QED
    BY <1>2, <2>1 DEF ToolRaise, IInv, Goto, CallsJoined
<1>3. CASE ToolJoin(c)
  <2>1. \A u \in Threads : draft'[u].id = draft[u].id
    <3>1. \/ draft' = draft
          \/ \E P : draft' = [draft EXCEPT ![c].group = armed, ![c].parents = P]
      BY <1>3 DEF ToolJoin
    <3>2. \A u \in Threads : draft[u] \in Steps
      OBVIOUS
    <3>3. QED
      BY <3>1, <3>2 DEF Steps
  <2>2. SeqInv'
    BY <1>3, <2>1, KeepSeq DEF ToolJoin, IInv, Goto, Holding
  <2>3. QED
    BY <1>3, <2>2 DEF ToolJoin, IInv, Goto, CallsJoined
<1>4. CASE ToolAppend(c)
  <2>1. \A u \in Threads \ {c} : draft'[u] = draft[u]
    BY <1>4 DEF ToolAppend, Discard
  <2>2. SeqInv'
    BY <1>4, <2>1, AppendSeq DEF ToolAppend, IInv, Goto, Holding
  <2>3. QED
    BY <1>4, <2>2 DEF ToolAppend, IInv, Goto, CallsJoined
<1>5. QED
  BY <1>1, <1>2, <1>3, <1>4 DEF CallStep

LEMMA ProxyStepInv ==
  ASSUME IInv, ProxyStep, TypeOK'
  PROVE  SeqInv' /\ CallsJoined'
<1> Proxy \in Threads /\ Proxy \notin Branches /\ Proxy \notin Calls
    /\ at \in [Threads -> Labels] /\ draft \in [Threads -> Steps]
    /\ at' \in [Threads -> Labels] /\ draft' \in [Threads -> Steps]
  BY ThreadsAssumption DEF Threads, TypeOK, IInv
<1> \A d \in Branches, i \in Slots :
      <<d, i>> \in Threads /\ d \in Threads /\ <<d, i>> # Proxy /\ <<d, i>> \notin Branches
  BY ThreadsAssumption DEF Threads, Calls
<1>1. CASE HttpNumber
  <2>1. PICK step \in Steps : Number(Proxy, step)
    <3>1. \A f \in BOOLEAN : [Blank EXCEPT !.failed = f] \in Steps
      BY BlankIsStep DEF Steps
    <3>2. \A b \in Branches, f \in BOOLEAN, a \in 0 .. Cardinality(Slots) :
            [Blank EXCEPT !.kind = "llm", !.failed = f, !.asked = a,
                          !.cause = turn[b]] \in Steps
      BY BlankIsStep DEF Steps, TypeOK, IInv
    <3>3. QED
      BY <1>1, <3>1, <3>2 DEF HttpNumber
  <2>2. \/ Goto(Proxy, "linked")
        \/ \E b \in Branches : at[b] = "think"
             /\ at' = [at EXCEPT ![Proxy] = "linked", ![b] = "waiting"]
    BY <1>1 DEF HttpNumber
  <2>3. Holding(Proxy)' /\ ~Holding(Proxy)
    BY <1>1, <2>2 DEF HttpNumber, Goto, Holding
  <2>4. \A u \in Threads \ {Proxy} : Holding(u)' <=> Holding(u)
    BY <2>2 DEF Goto, Holding
  <2>5. SeqInv'
    BY <1>1, <2>1, <2>3, <2>4, NumberSeq DEF HttpNumber, IInv
  <2>6. CallsJoined'
    BY <2>2 DEF IInv, Goto, CallsJoined
  <2>7. QED
    BY <2>5, <2>6
<1>2. CASE HttpAppend
  <2>1. at' = [t \in Threads |-> IF at[t] = "waiting" THEN "answered"
                               ELSE IF t = Proxy THEN "idle" ELSE at[t]]
    BY <1>2 DEF HttpAppend
  <2>2. Holding(Proxy) /\ ~Holding(Proxy)'
    BY <1>2, <2>1 DEF HttpAppend, Holding
  <2>3. \A u \in Threads \ {Proxy} : Holding(u)' <=> Holding(u)
    BY <2>1 DEF Holding
  <2>4. \A u \in Threads \ {Proxy} : draft'[u] = draft[u]
    BY <1>2 DEF HttpAppend, Discard
  <2>5. SeqInv'
    BY <1>2, <2>2, <2>3, <2>4, AppendSeq DEF HttpAppend, IInv
  <2>6. CallsJoined'
    <3> SUFFICES ASSUME NEW d \in Branches, NEW i \in Slots, at'[<<d, i>>] # "idle"
                 PROVE  at'[d] = "tools"
      BY DEF CallsJoined
    <3>1. at[<<d, i>>] # "idle"
      BY <2>1
    <3>2. at[d] = "tools" /\ d # Proxy
      BY <3>1 DEF IInv, CallsJoined
    <3>3. QED
      BY <2>1, <3>2
  <2>7. QED
    BY <2>5, <2>6
<1>3. QED
  BY <1>1, <1>2 DEF ProxyStep

LEMMA InitInv == Init => IInv
<1> SUFFICES ASSUME Init PROVE IInv
  OBVIOUS
<1>1. TypeOK
  BY InitType
<1>2. CallsJoined
  <2>1. \A d \in Branches, i \in Slots : <<d, i>> \in Threads /\ <<d, i>> \notin Branches
    BY ThreadsAssumption DEF Threads, Calls
  <2>2. mode.branches \subseteq Branches
    BY ModesAssumption DEF Init
  <2>3. QED
    BY <2>1, <2>2 DEF Init, CallsJoined
<1>3. SeqInv
  BY DEF Init, SeqInv, Numbered, OneSequence, Known, Holding
<1>4. QED
  BY <1>1, <1>2, <1>3 DEF IInv

LEMMA StepInv == IInv /\ [Next]_vars => IInv'
<1> SUFFICES ASSUME IInv, [Next]_vars PROVE IInv'
  OBVIOUS
<1>1. TypeOK'
  BY StepType DEF IInv
<1>2. CASE ExitRead \/ ExitFinish \/ StopRecorder \/ UNCHANGED vars
  <2>1. UNCHANGED <<counter, steps, lost, at, draft>>
    BY <1>2 DEF ExitRead, ExitFinish, StopRecorder, vars
  <2>2. SeqInv'
    BY <2>1, KeepSeq DEF IInv, Holding
  <2>3. QED
    BY <1>1, <2>1, <2>2 DEF IInv, CallsJoined
<1>3. CASE Next /\ ~(ExitRead \/ ExitFinish \/ StopRecorder)
  BY <1>1, <1>3, BranchStepInv, CallStepInv, ProxyStepInv DEF Next, IInv
<1>4. QED
  BY <1>2, <1>3

\* Every transport and every thread of the agent writes the one trace under its
\* own step ids: none collides, and none is skipped (session.py, next_step_id
\* and its callers in sdk_hooks.py and http_proxy.py).
THEOREM IdsFormOneSequence == Spec => []OneSequence
<1>1. IInv => OneSequence
  BY DEF IInv, SeqInv
<1>2. QED
  BY <1>1, InitInv, StepInv, PTL DEF Spec

-----------------------------------------------------------------------------
(***************************************************************************)
(* The status of the run                                                   *)
(***************************************************************************)

\* What a branch has gathered is numbered and out of its thread's hands.
HeardKnown == \A n \in heard : \E s \in Known : s.id = n

\* What the session read in the trace stays true of what was heard before.
VerdictTrue ==
  ~mode.proxied /\ mode.readable =>
    /\ verdict = "error" => \E s \in steps : s.failed
    /\ verdict = "ok" => \A s \in steps : s.failed => s.id \notin heard

\* The session writes what it read; the proxy only runs where it owns the run.
Ended ==
  /\ ~mode.proxied => status \in {None, verdict} /\ at[Proxy] = "idle"
  /\ mode.proxied => verdict = None

StatusInv == HeardKnown /\ VerdictTrue /\ Ended

\* A step that neither reads nor writes a status adds to the trace only steps whose
\* numbers nobody has heard of, since each number has one owner.
LEMMA StatusKept ==
  ASSUME IInv, StatusInv, UNCHANGED <<mode, verdict, status>>,
         UNCHANGED <<steps, lost>> \/ \E t \in Threads : Holding(t) /\ Append(t),
         \/ heard' = heard
         \/ verdict = None /\ heard' \subseteq heard \cup {s.id : s \in Known},
         ~mode.proxied => at'[Proxy] = at[Proxy]
  PROVE  StatusInv'
<1>1. /\ steps \subseteq steps' /\ Known \subseteq Known'
      /\ \A s \in steps' \ steps : s.id \notin heard
  <2>1. CASE UNCHANGED <<steps, lost>>
    BY <2>1 DEF Known
  <2>2. ASSUME NEW t \in Threads, Holding(t), Append(t)
        PROVE  /\ steps \subseteq steps' /\ Known \subseteq Known'
               /\ \A s \in steps' \ steps : s.id \notin heard
    <3>1. \A s \in Known : s.id # draft[t].id
      BY <2>2 DEF IInv, SeqInv, OneSequence
    <3>2. draft[t].id \notin heard
      BY <3>1 DEF StatusInv, HeardKnown
    <3>3. \A s \in steps' \ steps : s = draft[t]
      BY <2>2 DEF Append
    <3>4. steps \subseteq steps' /\ lost \subseteq lost'
      BY <2>2 DEF Append
    <3>5. QED
      BY <3>2, <3>3, <3>4 DEF Known
  <2>3. QED
    BY <2>1, <2>2
<1>2. HeardKnown'
  BY <1>1 DEF StatusInv, HeardKnown
<1>3. VerdictTrue'
  <2>1. CASE verdict = None
    BY <2>1, StatusAssumption DEF VerdictTrue
  <2>2. CASE verdict # None
    BY <1>1, <2>2 DEF StatusInv, VerdictTrue
  <2>3. QED
    BY <2>1, <2>2
<1>4. Ended'
  BY DEF StatusInv, Ended
<1>5. QED
  BY <1>2, <1>3, <1>4 DEF StatusInv

LEMMA StatusStep == IInv /\ StatusInv /\ [Next]_vars => StatusInv'
<1> SUFFICES ASSUME IInv, StatusInv, [Next]_vars PROVE StatusInv'
  OBVIOUS
<1> Proxy \in Threads /\ Proxy \notin Branches /\ Proxy \notin Calls
    /\ Branches \subseteq Threads /\ Calls \subseteq Threads
    /\ at \in [Threads -> Labels]
  BY ThreadsAssumption DEF Threads, TypeOK, IInv
<1>1. CASE UNCHANGED vars
  BY <1>1, StatusKept DEF vars, ending
<1>2. CASE (ExitRead \/ ExitFinish \/ StopRecorder) /\ UNCHANGED mode
  <2>1. UNCHANGED <<mode, steps, lost, heard, at>> /\ Known' = Known
    BY <1>2 DEF ExitRead, ExitFinish, StopRecorder, Known
  <2>2. HeardKnown'
    BY <2>1 DEF StatusInv, HeardKnown
  <2>3. VerdictTrue'
    <3>1. CASE ExitRead
      <4>1. CASE mode.readable
        BY <2>1, <3>1, <4>1 DEF ExitRead, Verdict, VerdictTrue
      <4>2. CASE ~mode.readable
        BY <2>1, <4>2 DEF VerdictTrue
      <4>3. QED
        BY <4>1, <4>2
    <3>2. CASE ExitFinish \/ StopRecorder
      BY <2>1, <3>2 DEF ExitFinish, StopRecorder, StatusInv, VerdictTrue
    <3>3. QED
      BY <1>2, <3>1, <3>2
  <2>4. Ended'
    BY <1>2 DEF ExitRead, ExitFinish, StopRecorder, StatusInv, Ended
  <2>5. QED
    BY <2>2, <2>3, <2>4 DEF StatusInv
<1>3. ASSUME NEW b \in Branches, BranchStep(b), UNCHANGED mode PROVE StatusInv'
  <2>1. b # Proxy /\ UNCHANGED <<verdict, status>>
    BY <1>3 DEF BranchStep, LlmNumber, LlmRaise, LlmFanin, LlmAppend, LlmArm,
                HttpAnswered, Gather, Append, ending
  <2>2. at'[Proxy] = at[Proxy]
    <3>1. CASE \E label : Goto(b, label)
      BY <2>1, <3>1 DEF Goto
    <3>2. CASE \E asked : StartCalls(b, asked)
      BY <2>1, <3>2, ThreadsAssumption DEF StartCalls, Calls
    <3>3. QED
      BY <1>3, <3>1, <3>2 DEF BranchStep, LlmNumber, LlmRaise, LlmFanin, LlmAppend,
                              LlmArm, HttpAnswered, Gather
  <2>3. UNCHANGED <<steps, lost>> \/ (Holding(b) /\ Append(b))
    BY <1>3 DEF BranchStep, LlmNumber, LlmRaise, LlmFanin, LlmAppend, LlmArm,
                HttpAnswered, Gather, Holding
  <2>4. \/ heard' = heard
        \/ verdict = None /\ heard' \subseteq heard \cup {s.id : s \in Known}
    <3>1. CASE Gather(b)
      <4>1. CASE verdict = None
        BY <3>1, <4>1 DEF Gather
      <4>2. CASE verdict # None
        BY <3>1, <4>2 DEF Gather
      <4>3. QED
        BY <4>1, <4>2
    <3>2. CASE ~Gather(b)
      BY <1>3, <3>2 DEF BranchStep, LlmNumber, LlmRaise, LlmFanin, LlmAppend, LlmArm,
                        HttpAnswered, Append, ending
    <3>3. QED
      BY <3>1, <3>2
  <2>5. QED
    BY <1>3, <2>1, <2>2, <2>3, <2>4, StatusKept
<1>4. ASSUME NEW c \in Calls, CallStep(c), UNCHANGED mode PROVE StatusInv'
  <2>1. c # Proxy /\ UNCHANGED <<heard, verdict, status>> /\ at'[Proxy] = at[Proxy]
    BY <1>4 DEF CallStep, ToolNumber, ToolRaise, ToolJoin, ToolAppend, Append, Goto, ending
  <2>2. UNCHANGED <<steps, lost>> \/ (Holding(c) /\ Append(c))
    BY <1>4 DEF CallStep, ToolNumber, ToolRaise, ToolJoin, ToolAppend, Holding
  <2>3. QED
    BY <1>4, <2>1, <2>2, StatusKept
<1>5. CASE ProxyStep /\ UNCHANGED mode
  <2>1. mode.proxied
    BY <1>5 DEF ProxyStep, HttpNumber, HttpAppend, StatusInv, Ended
  <2>2. UNCHANGED <<heard, verdict, status>>
    BY <1>5 DEF ProxyStep, HttpNumber, HttpAppend, Append, ending
  <2>3. UNCHANGED <<steps, lost>> \/ (Holding(Proxy) /\ Append(Proxy))
    BY <1>5 DEF ProxyStep, HttpNumber, HttpAppend, Holding
  <2>4. QED
    BY <1>5, <2>1, <2>2, <2>3, StatusKept
<1>6. QED
  BY <1>1, <1>2, <1>3, <1>4, <1>5 DEF Next

LEMMA InitStatus == Init => StatusInv
BY ThreadsAssumption, ModesAssumption, StatusAssumption
   DEF Init, StatusInv, HeardKnown, VerdictTrue, Ended, Threads

\* The status that the session derives when it ends (__exit__) is true of what its
\* agent knew by then: a failed call whose result a branch had gathered shows in it,
\* and it reports no failure that is not in the trace, whichever threads go on
\* recording around the read and the write, and whichever steps are lost.
THEOREM HeardFailuresAreReported == Spec => []FailureHeardIsReported
<1>1. Init => StatusInv
  BY InitStatus
<1>2. StatusInv => FailureHeardIsReported
  BY StatusAssumption DEF StatusInv, VerdictTrue, Ended, FailureHeardIsReported
<1>3. QED
  BY <1>1, <1>2, InitInv, StepInv, StatusStep, PTL DEF Spec

-----------------------------------------------------------------------------
(***************************************************************************)
(* Causal edges point backwards                                            *)
(***************************************************************************)

\* Without the proxy, at most one branch uses the session.
Lone ==
  ~mode.proxied /\ BatchOfOneBranch =>
    \A b, d \in Branches : at[b] # "done" /\ at[d] # "done" => b = d

\* Only record_llm, which the proxy replaces, arms a batch.
Unarmed ==
  mode.proxied =>
    /\ armed = None /\ dispatcher = None /\ siblings = {}
    /\ \A b \in Branches : at[b] \notin {"numbered", "linked", "appended"}

\* The batch state names steps numbered before.
BatchNumbered ==
  /\ siblings \subseteq 1 .. counter
  /\ dispatcher # None => dispatcher \in 1 .. counter
  /\ \A b \in Branches : at[b] = "appended" => draft[b].id \in 1 .. counter

\* A thread that is building a step, if it is to be linked with the batch, took
\* its number after those the batch names.
LinksBack ==
  BatchOfOneBranch =>
    /\ \A b \in Branches : at[b] = "numbered" => siblings \subseteq 1 .. draft[b].id - 1
    /\ \A c \in Calls : at[c] = "numbered" /\ dispatcher # None =>
         dispatcher \in 1 .. draft[c].id - 1

\* The steps that threads are building have parents numbered before them.
DraftsPrecede ==
  BatchOfOneBranch =>
    \A t \in Threads : Holding(t) => draft[t].parents \subseteq 1 .. draft[t].id - 1

Edges == Unarmed /\ BatchNumbered /\ LinksBack /\ DraftsPrecede /\ ParentsPrecede

Silent == \A b \in Branches \ mode.branches : at[b] = "done"

EdgeInv == Silent /\ Edges

LEMMA AloneIsLone ==
  ASSUME TypeOK, Silent
  PROVE  Lone
<1> SUFFICES ASSUME ~mode.proxied, BatchOfOneBranch
             PROVE  \A b, d \in Branches : at[b] # "done" /\ at[d] # "done" => b = d
  BY DEF Lone
<1>1. mode.branches \subseteq Branches /\ Cardinality(mode.branches) = 1
  BY ModesAssumption DEF TypeOK, BatchOfOneBranch
<1>2. IsFiniteSet(mode.branches)
  BY <1>1, BranchesAssumption, FS_Subset
<1>3. PICK m : mode.branches = {m}
  BY <1>1, <1>2, FS_Singleton
<1>4. QED
  BY <1>3 DEF Silent

\* Thread t takes a number: its parent is the number before.
LEMMA NumberEdges ==
  ASSUME IInv, Edges, NEW t \in Threads, NEW step \in Steps, Number(t, step),
         UNCHANGED <<mode, batch, steps, lost>>,
         Holding(t)', ~Holding(t),
         t \in Branches => ~mode.proxied /\ at'[t] = "numbered",
         \A u \in Threads \ {t} : at'[u] = at[u] \/ at'[u] = "waiting"
  PROVE  Edges'
<1>1. /\ counter \in Nat /\ counter' = counter + 1
      /\ draft'[t].id = counter + 1
      /\ \A u \in Threads \ {t} : draft'[u] = draft[u]
  BY NumberType DEF IInv, TypeOK
<1>2. draft'[t].parents = Previous(counter + 1)
  BY DEF Number, IInv, TypeOK, Steps
<1>3. Branches \subseteq Threads /\ Calls \subseteq Threads
      /\ UNCHANGED <<armed, dispatcher, siblings>> /\ Known' = Known
  BY DEF Threads, batch, Known
<1>4. \A u \in Threads \ {t}, label \in {"numbered", "linked", "appended"} :
        at'[u] = label => at[u] = label
  OBVIOUS
<1>5. Unarmed'
  BY <1>3, <1>4 DEF Edges, Unarmed
<1>6. BatchNumbered'
  <2>1. \A d \in Branches : at'[d] = "appended" => d # t
    OBVIOUS
  <2>2. QED
    BY <1>1, <1>3, <1>4, <2>1 DEF Edges, BatchNumbered
<1>7. LinksBack'
  <2> SUFFICES ASSUME BatchOfOneBranch PROVE LinksBack'
    BY DEF LinksBack, BatchOfOneBranch
  <2>1. ASSUME NEW d \in Branches, at'[d] = "numbered"
        PROVE  siblings \subseteq 1 .. draft'[d].id - 1
    BY <1>1, <1>3, <1>4, <2>1 DEF Edges, LinksBack, BatchNumbered
  <2>2. ASSUME NEW c \in Calls, at'[c] = "numbered", dispatcher # None
        PROVE  dispatcher \in 1 .. draft'[c].id - 1
    BY <1>1, <1>3, <1>4, <2>2 DEF Edges, LinksBack, BatchNumbered
  <2>3. QED
    BY <1>3, <2>1, <2>2 DEF LinksBack
<1>8. DraftsPrecede'
  <2>1. Previous(counter + 1) \subseteq 1 .. counter
    BY <1>1 DEF Previous
  <2>2. \A u \in Threads \ {t} : Holding(u)' => Holding(u)
    BY <1>4 DEF Holding
  <2>3. QED
    BY <1>1, <1>2, <2>1, <2>2 DEF Edges, DraftsPrecede, BatchOfOneBranch
<1>9. ParentsPrecede'
  BY <1>3 DEF Edges, ParentsPrecede, BatchOfOneBranch
<1>10. QED
  BY <1>5, <1>6, <1>7, <1>8, <1>9 DEF Edges

\* Thread t appends its step, whose parents are numbered before it.
LEMMA AppendEdges ==
  ASSUME IInv, Edges, NEW t \in Threads, Append(t), UNCHANGED mode,
         Holding(t),
         at'[t] \in {"appended", "idle"},
         at'[t] = "appended" => ~mode.proxied /\ draft' = draft,
         \A u \in Threads \ {t} : draft'[u] = draft[u],
         \A u \in Threads \ {t} : at'[u] = at[u] \/ at'[u] \in {"answered", "idle"}
  PROVE  Edges'
<1>1. Known' = Known \cup {draft[t]}
      /\ UNCHANGED <<counter, armed, remaining, dispatcher, siblings, heard, verdict, status>>
  BY AppendType DEF IInv
<1>2. Branches \subseteq Threads /\ Calls \subseteq Threads
  BY DEF Threads
<1>3. \A u \in Threads \ {t}, label \in {"numbered", "linked", "appended"} :
        at'[u] = label => at[u] = label
  OBVIOUS
<1>4. Unarmed'
  BY <1>1, <1>2, <1>3 DEF Edges, Unarmed
<1>5. BatchNumbered'
  BY <1>1, <1>2, <1>3 DEF Edges, BatchNumbered, IInv, SeqInv, Numbered
<1>6. LinksBack'
  BY <1>1, <1>2, <1>3 DEF Edges, LinksBack, BatchOfOneBranch
<1>7. DraftsPrecede'
  BY <1>3 DEF Edges, DraftsPrecede, BatchOfOneBranch, Holding
<1>8. ParentsPrecede'
  BY <1>1 DEF Edges, DraftsPrecede, ParentsPrecede, BatchOfOneBranch
<1>9. QED
  BY <1>4, <1>5, <1>6, <1>7, <1>8 DEF Edges

\* Nobody takes a number, and the batch stays what it was.
LEMMA KeepEdges ==
  ASSUME Edges, UNCHANGED <<mode, counter, armed, dispatcher, siblings, steps, lost>>,
         \A u \in Threads : at'[u] \in {"numbered", "linked", "appended"} =>
                              at'[u] = at[u] /\ draft'[u] = draft[u]
  PROVE  Edges'
<1>1. Branches \subseteq Threads /\ Calls \subseteq Threads /\ Known' = Known
  BY DEF Threads, Known
<1>2. Unarmed'
  BY <1>1 DEF Edges, Unarmed
<1>3. BatchNumbered'
  BY <1>1 DEF Edges, BatchNumbered
<1>4. LinksBack'
  BY <1>1 DEF Edges, LinksBack, BatchOfOneBranch
<1>5. DraftsPrecede'
  BY DEF Edges, DraftsPrecede, BatchOfOneBranch, Holding
<1>6. ParentsPrecede'
  BY <1>1 DEF Edges, ParentsPrecede, BatchOfOneBranch
<1>7. QED
  BY <1>2, <1>3, <1>4, <1>5, <1>6 DEF Edges

\* Tool calls that start were idle.
LEMMA StartCallsAt ==
  ASSUME NEW b \in Branches, at[b] # "done", IInv,
         NEW asked, StartCalls(b, asked), NEW u \in Threads
  PROVE  at'[u] = at[u] \/ at'[u] \in {"tools", "running"}
BY DEF StartCalls

LEMMA BranchStepEdges ==
  ASSUME IInv, EdgeInv, TypeOK', NEW b \in Branches, BranchStep(b), UNCHANGED mode
  PROVE  Edges'
<1> b \in Threads /\ at \in [Threads -> Labels] /\ draft \in [Threads -> Steps]
    /\ Calls \subseteq Threads /\ Branches \subseteq Threads /\ Edges
    /\ Branches \cap Calls = {}
  BY ThreadsAssumption DEF Threads, TypeOK, IInv, EdgeInv
<1>1. CASE LlmNumber(b)
  <2>1. PICK asked \in 0 .. Cardinality(Slots) :
          Number(b, [Blank EXCEPT !.kind = "llm", !.asked = asked, !.cause = turn[b]])
    BY <1>1 DEF LlmNumber
  <2>2. [Blank EXCEPT !.kind = "llm", !.asked = asked, !.cause = turn[b]] \in Steps
    BY BlankIsStep DEF Steps, TypeOK, IInv
  <2>3. QED
    BY <1>1, <2>1, <2>2, NumberEdges DEF LlmNumber, Goto, Holding
<1>2. CASE LlmRaise(b) \/ Gather(b)
  BY <1>2, KeepEdges DEF LlmRaise, Gather, Goto, batch
<1>3. CASE LlmFanin(b)
  <2>1. at' = [at EXCEPT ![b] = "linked"] /\ at[b] = "numbered"
        /\ UNCHANGED <<counter, armed, dispatcher, steps, lost>> /\ siblings' = {}
        /\ Known' = Known
    BY <1>3 DEF LlmFanin, Goto, ConsumeFanin, Known
  <2>2. draft' = draft \/ draft' = [draft EXCEPT ![b].parents = siblings]
    BY <1>3 DEF LlmFanin, ConsumeFanin
  <2>3. /\ \A u \in Threads \ {b} : draft'[u] = draft[u]
        /\ draft'[b].id = draft[b].id
        /\ draft'[b].parents \in {draft[b].parents, siblings}
    BY <2>2 DEF Steps
  <2>4. ~mode.proxied
    BY <2>1 DEF Edges, Unarmed
  <2>5. Unarmed' /\ BatchNumbered'
    BY <2>1, <2>3, <2>4 DEF Edges, Unarmed, BatchNumbered
  <2>6. LinksBack'
    BY <2>1, <2>3 DEF Edges, LinksBack, BatchOfOneBranch
  <2>7. DraftsPrecede'
    <3> SUFFICES ASSUME BatchOfOneBranch, NEW u \in Threads, Holding(u)'
                 PROVE  draft'[u].parents \subseteq 1 .. draft'[u].id - 1
      BY DEF DraftsPrecede, BatchOfOneBranch
    <3>1. Holding(u)
      BY <2>1 DEF Holding
    <3>2. draft[u].parents \subseteq 1 .. draft[u].id - 1
      BY <3>1 DEF Edges, DraftsPrecede
    <3>3. siblings \subseteq 1 .. draft[b].id - 1
      BY <2>1 DEF Edges, LinksBack
    <3>4. QED
      BY <2>3, <3>2, <3>3
  <2>8. ParentsPrecede'
    BY <2>1 DEF Edges, ParentsPrecede, BatchOfOneBranch
  <2>9. QED
    BY <2>5, <2>6, <2>7, <2>8 DEF Edges
<1>4. CASE LlmAppend(b)
  <2>1. ~mode.proxied
    BY <1>4 DEF LlmAppend, Edges, Unarmed
  <2>2. QED
    BY <1>4, <2>1, AppendEdges DEF LlmAppend, Goto, Holding
<1>5. CASE LlmArm(b)
  <2>1. /\ at[b] = "appended" /\ ~mode.proxied
        /\ draft' = [draft EXCEPT ![b] = Blank]
        /\ UNCHANGED <<counter, steps, lost>> /\ Known' = Known
    BY <1>5 DEF LlmArm, Discard, Edges, Unarmed, Known
  <2>2. /\ siblings' \in {{}, siblings}
        /\ dispatcher' \in {None, draft[b].id}
    BY <1>5 DEF LlmArm, ArmParallelGroup
  <2>3. \A u \in Threads : at'[u] = at[u] \/ at'[u] \in {"tools", "running"}
    BY <1>5, StartCallsAt DEF LlmArm
  <2>4. at'[b] = "tools"
    BY <1>5 DEF LlmArm, StartCalls
  <2>5. Unarmed' /\ BatchNumbered'
    BY <2>1, <2>2, <2>3, <2>4 DEF Edges, Unarmed, BatchNumbered
  <2>6. ASSUME BatchOfOneBranch, NEW c \in Calls PROVE at'[c] # "numbered"
    <3>1. c[1] \in Branches /\ c = <<c[1], c[2]>> /\ c[2] \in Slots
      BY DEF Calls
    <3>2. at[c] # "idle" => at[c[1]] = "tools"
      BY <3>1 DEF IInv, CallsJoined
    <3>3. at[c] = "idle"
      BY <2>1, <2>6, <3>1, <3>2, AloneIsLone DEF Lone, EdgeInv, IInv
    <3>4. QED
      BY <2>3, <3>3
  <2>7. LinksBack'
    <3>1. \A d \in Branches \ {b} : draft'[d] = draft[d]
      BY <2>1
    <3>2. QED
      BY <2>2, <2>3, <2>4, <2>6, <3>1 DEF Edges, LinksBack, BatchOfOneBranch
  <2>8. DraftsPrecede' /\ ParentsPrecede'
    BY <2>1, <2>3, <2>4 DEF Edges, DraftsPrecede, ParentsPrecede, BatchOfOneBranch, Holding
  <2>9. QED
    BY <2>5, <2>7, <2>8 DEF Edges
<1>6. CASE HttpAnswered(b)
  <2>1. \A u \in Threads : at'[u] = at[u] \/ at'[u] \in {"tools", "running"}
    BY <1>6, StartCallsAt DEF HttpAnswered
  <2>2. QED
    BY <1>6, <2>1, KeepEdges DEF HttpAnswered, batch
<1>7. QED
  BY <1>1, <1>2, <1>3, <1>4, <1>5, <1>6 DEF BranchStep

LEMMA CallStepEdges ==
  ASSUME IInv, EdgeInv, TypeOK', NEW c \in Calls, CallStep(c), UNCHANGED mode
  PROVE  Edges'
<1> c \in Threads /\ at \in [Threads -> Labels] /\ draft \in [Threads -> Steps]
    /\ Calls \subseteq Threads /\ Branches \subseteq Threads /\ Edges
    /\ c \notin Branches /\ Branches \cap Calls = {}
  BY ThreadsAssumption DEF Threads, TypeOK, IInv, EdgeInv
<1>1. CASE ToolNumber(c)
  <2>1. PICK failed \in BOOLEAN :
          Number(c, [Blank EXCEPT !.kind = "tool", !.failed = failed,
                                  !.cause = turn[c[1]]])
    BY <1>1 DEF ToolNumber
  <2>2. [Blank EXCEPT !.kind = "tool", !.failed = failed, !.cause = turn[c[1]]] \in Steps
    BY BlankIsStep DEF Steps, TypeOK, IInv, Calls
  <2>3. QED
    BY <1>1, <2>1, <2>2, NumberEdges DEF ToolNumber, Goto, Holding
<1>2. CASE ToolRaise(c)
  BY <1>2, KeepEdges DEF ToolRaise, Goto, batch
<1>3. CASE ToolJoin(c)
  <2>1. at' = [at EXCEPT ![c] = "linked"] /\ at[c] = "numbered"
        /\ UNCHANGED <<counter, dispatcher, steps, lost>> /\ Known' = Known
    BY <1>3 DEF ToolJoin, Goto, Known
  <2>2. /\ \A u \in Threads \ {c} : draft'[u] = draft[u]
        /\ draft'[c].id = draft[c].id
        /\ \/ draft'[c].parents = draft[c].parents
           \/ dispatcher # None /\ draft'[c].parents = {dispatcher}
    BY <1>3 DEF ToolJoin, Steps
  <2>3. \/ UNCHANGED <<siblings, armed>>
        \/ armed # None /\ siblings' = siblings \cup {draft[c].id}
    BY <1>3 DEF ToolJoin, JoinsBatch
  <2>4. Unarmed'
    BY <2>1, <2>3 DEF Edges, Unarmed
  <2>5. BatchNumbered'
    <3>1. draft[c].id \in 1 .. counter
      BY <2>1 DEF IInv, SeqInv, Numbered, Holding
    <3>2. QED
      BY <2>1, <2>2, <2>3, <3>1 DEF Edges, BatchNumbered
  <2>6. LinksBack'
    <3>1. ASSUME BatchOfOneBranch, ~mode.proxied, NEW d \in Branches
          PROVE  at'[d] # "numbered"
      <4>1. c[1] \in Branches /\ at[c[1]] = "tools"
        BY <2>1 DEF IInv, CallsJoined, Calls
      <4>2. QED
        BY <2>1, <3>1, <4>1, AloneIsLone DEF Lone, EdgeInv, IInv
    <3>2. QED
      BY <2>1, <2>2, <2>4, <3>1 DEF Edges, LinksBack, BatchOfOneBranch, Unarmed
  <2>7. DraftsPrecede'
    <3> SUFFICES ASSUME BatchOfOneBranch, NEW u \in Threads, Holding(u)'
                 PROVE  draft'[u].parents \subseteq 1 .. draft'[u].id - 1
      BY DEF DraftsPrecede, BatchOfOneBranch
    <3>1. Holding(u)
      BY <2>1 DEF Holding
    <3>2. draft[u].parents \subseteq 1 .. draft[u].id - 1
      BY <3>1 DEF Edges, DraftsPrecede
    <3>3. dispatcher # None => dispatcher \in 1 .. draft[c].id - 1
      BY <2>1 DEF Edges, LinksBack
    <3>4. QED
      BY <2>2, <3>2, <3>3
  <2>8. ParentsPrecede'
    BY <2>1 DEF Edges, ParentsPrecede, BatchOfOneBranch
  <2>9. QED
    BY <2>4, <2>5, <2>6, <2>7, <2>8 DEF Edges
<1>4. CASE ToolAppend(c)
  <2>1. \A u \in Threads \ {c} : draft'[u] = draft[u]
    BY <1>4 DEF ToolAppend, Discard
  <2>2. QED
    BY <1>4, <2>1, AppendEdges DEF ToolAppend, Goto, Holding
<1>5. QED
  BY <1>1, <1>2, <1>3, <1>4 DEF CallStep

LEMMA ProxyStepEdges ==
  ASSUME IInv, EdgeInv, TypeOK', ProxyStep, UNCHANGED mode
  PROVE  Edges'
<1> Proxy \in Threads /\ at \in [Threads -> Labels] /\ draft \in [Threads -> Steps]
    /\ Proxy \notin Branches /\ Proxy \notin Calls /\ Edges /\ Branches \subseteq Threads
  BY ThreadsAssumption DEF Threads, TypeOK, IInv, EdgeInv
<1>1. CASE HttpNumber
  <2>1. PICK step \in Steps : Number(Proxy, step)
    <3>1. \A f \in BOOLEAN : [Blank EXCEPT !.failed = f] \in Steps
      BY BlankIsStep DEF Steps
    <3>2. \A b \in Branches, f \in BOOLEAN, a \in 0 .. Cardinality(Slots) :
            [Blank EXCEPT !.kind = "llm", !.failed = f, !.asked = a,
                          !.cause = turn[b]] \in Steps
      BY BlankIsStep DEF Steps, TypeOK, IInv
    <3>3. QED
      BY <1>1, <3>1, <3>2 DEF HttpNumber
  <2>2. \/ at' = [at EXCEPT ![Proxy] = "linked"]
        \/ \E b \in Branches : at' = [at EXCEPT ![Proxy] = "linked", ![b] = "waiting"]
    BY <1>1 DEF HttpNumber, Goto
  <2>3. Holding(Proxy)' /\ ~Holding(Proxy)
    BY <1>1, <2>2 DEF HttpNumber, Holding
  <2>4. \A u \in Threads \ {Proxy} : at'[u] = at[u] \/ at'[u] = "waiting"
    BY <2>2
  <2>5. QED
    BY <1>1, <2>1, <2>3, <2>4, NumberEdges DEF HttpNumber
<1>2. CASE HttpAppend
  <2>1. at' = [t \in Threads |-> IF at[t] = "waiting" THEN "answered"
                               ELSE IF t = Proxy THEN "idle" ELSE at[t]]
        /\ Append(Proxy) /\ at[Proxy] = "linked" /\ Discard(Proxy)
    BY <1>2 DEF HttpAppend
  <2>2. \A u \in Threads \ {Proxy} : draft'[u] = draft[u]
    BY <2>1 DEF Discard
  <2>3. QED
    BY <2>1, <2>2, AppendEdges DEF Holding
<1>3. QED
  BY <1>1, <1>2 DEF ProxyStep

\* A branch that is done does nothing more.
LEMMA SilentStep == IInv /\ Silent /\ [Next]_vars => Silent'
<1> SUFFICES ASSUME IInv, Silent, [Next]_vars PROVE Silent'
  OBVIOUS
<1> SUFFICES ASSUME NEW d \in Branches, at[d] = "done" PROVE at'[d] = "done" /\ mode' = mode
  BY DEF Silent, Next, vars
<1> d \in Threads /\ d \notin Calls /\ d # Proxy /\ at \in [Threads -> Labels]
  BY ThreadsAssumption DEF Threads, TypeOK, IInv
<1>1. CASE UNCHANGED vars \/ ((ExitRead \/ ExitFinish \/ StopRecorder) /\ UNCHANGED mode)
  BY <1>1 DEF vars, ExitRead, ExitFinish, StopRecorder
<1>2. ASSUME NEW b \in Branches, BranchStep(b), UNCHANGED mode PROVE at'[d] = "done"
  <2>1. at[b] # "done"
    BY <1>2 DEF BranchStep, LlmNumber, LlmRaise, LlmFanin, LlmAppend, LlmArm,
                HttpAnswered, Gather
  <2>2. CASE \E label : Goto(b, label)
    BY <2>1, <2>2 DEF Goto
  <2>3. CASE \E asked : StartCalls(b, asked)
    BY <2>1, <2>3 DEF StartCalls, Calls
  <2>4. QED
    BY <1>2, <2>2, <2>3 DEF BranchStep, LlmNumber, LlmRaise, LlmFanin, LlmAppend,
                            LlmArm, HttpAnswered, Gather
<1>3. ASSUME NEW c \in Calls, CallStep(c), UNCHANGED mode PROVE at'[d] = "done"
  BY <1>3 DEF CallStep, ToolNumber, ToolRaise, ToolJoin, ToolAppend, Goto
<1>4. CASE ProxyStep /\ UNCHANGED mode
  BY <1>4 DEF ProxyStep, HttpNumber, HttpAppend, Goto
<1>5. QED
  BY <1>1, <1>2, <1>3, <1>4 DEF Next, vars

LEMMA EdgeStep == IInv /\ EdgeInv /\ [Next]_vars => EdgeInv'
<1> SUFFICES ASSUME IInv, EdgeInv, [Next]_vars PROVE EdgeInv'
  OBVIOUS
<1>1. Silent' /\ TypeOK'
  BY SilentStep, StepInv DEF EdgeInv, IInv
<1>2. CASE UNCHANGED vars \/ ((ExitRead \/ ExitFinish \/ StopRecorder) /\ UNCHANGED mode)
  <2>1. UNCHANGED <<mode, counter, armed, dispatcher, siblings, steps, lost, at, draft>>
    BY <1>2 DEF vars, ExitRead, ExitFinish, StopRecorder, batch
  <2>2. QED
    BY <1>1, <2>1, KeepEdges DEF EdgeInv
<1>3. QED
  BY <1>1, <1>2, BranchStepEdges, CallStepEdges, ProxyStepEdges DEF Next, EdgeInv

LEMMA InitEdges == Init => EdgeInv
<1> SUFFICES ASSUME Init PROVE EdgeInv
  OBVIOUS
<1>1. Branches \subseteq Threads /\ Calls \subseteq Threads
      /\ \A t \in Threads : at[t] \in {"think", "done", "idle"}
  BY DEF Init, Threads
<1>2. Silent /\ Unarmed /\ BatchNumbered
  BY <1>1 DEF Init, Silent, Unarmed, BatchNumbered
<1>3. LinksBack /\ DraftsPrecede /\ ParentsPrecede
  BY <1>1 DEF Init, LinksBack, DraftsPrecede, ParentsPrecede, Known, Holding
<1>4. QED
  BY <1>2, <1>3 DEF EdgeInv, Edges

\* The steps that root_cause.py reaches over causal_parents were numbered before
\* the step it starts from, if no two branches share a batch.
THEOREM EdgesPointBack == Spec => []ParentsPrecede
<1>1. Init => EdgeInv
  BY InitEdges
<1>2. EdgeInv => ParentsPrecede
  BY DEF EdgeInv, Edges
<1>3. QED
  BY <1>1, <1>2, InitInv, StepInv, EdgeStep, PTL DEF Spec

-----------------------------------------------------------------------------
(***************************************************************************)
(* Batches of one branch                                                   *)
(***************************************************************************)

Solo == ~mode.proxied /\ BatchOfOneBranch

\* The model step n asked for a batch; the recorded tool steps it led to.
Batched(n) == \E s \in Known : s.id = n /\ s.asked >= 2
Led(n) == {r.id : r \in {r \in Known : r.kind = "tool" /\ r.cause = n}}

\* How a tool step and a model step are linked that the model step n led to.
Group(n) == IF Batched(n) THEN n ELSE None
FanIn(n, id) == IF Batched(n) /\ Led(n) # {} THEN Led(n) ELSE Previous(id)

ToolLinked(r) == r.group = Group(r.cause) /\ (Batched(r.cause) => r.parents = {r.cause})
LlmLinked(r) == r.parents = FanIn(r.cause, r.id)

\* Every step was led to by the last turn of branch b or an earlier one, and is
\* linked accordingly; the last turn has led to no model step yet.
KnownLinked(b) ==
  /\ turn[b] <= counter
  /\ \A r \in Known : /\ r.cause <= turn[b]
                      /\ r.kind = "tool" => ToolLinked(r)
                      /\ r.kind = "llm" => LlmLinked(r)
  /\ at[b] \in {"think", "numbered", "linked", "tools"} =>
       \A r \in Known : r.kind = "llm" => r.cause < turn[b]

\* The siblings wait for the next model call of branch b, which consumes them.
LlmDrafted(b) ==
  /\ at[b] \notin {"waiting", "answered"}
  /\ at[b] \in {"numbered", "linked", "appended"} => turn[b] < draft[b].id
  /\ at[b] \in {"numbered", "linked"} =>
       draft[b].kind = "llm" /\ draft[b].cause = turn[b]
  /\ at[b] = "numbered" => draft[b].parents = Previous(draft[b].id)
  /\ at[b] = "linked" => draft[b].parents = FanIn(turn[b], draft[b].id)
  /\ at[b] = "appended" => draft[b] \in Known
  /\ at[b] \in {"think", "numbered"} =>
       siblings = IF Batched(turn[b]) THEN Led(turn[b]) ELSE {}
  /\ at[b] \in {"linked", "appended"} => siblings = {}

\* Calls of branch b that have yet to join the batch, and those that have joined.
Unjoined(b) == {i \in Slots : at[<<b, i>>] \in {"running", "numbered"}}
Joined(b) == {draft[<<b, i>>].id : i \in {i \in Slots : at[<<b, i>>] = "linked"}}

CallsDrafted(b) ==
  at[b] = "tools" =>
    /\ \A i \in Slots :
         /\ Holding(<<b, i>>) =>
              /\ turn[b] < draft[<<b, i>>].id
              /\ draft[<<b, i>>].kind = "tool" /\ draft[<<b, i>>].cause = turn[b]
         /\ at[<<b, i>>] = "numbered" => draft[<<b, i>>].group = None
         /\ at[<<b, i>>] = "linked" => ToolLinked(draft[<<b, i>>])
    /\ Batched(turn[b]) =>
         /\ dispatcher = turn[b]
         /\ remaining >= Cardinality(Unjoined(b))
         /\ remaining > 0 => armed = turn[b]
         /\ siblings = Led(turn[b]) \cup Joined(b)
    /\ ~Batched(turn[b]) => armed = None /\ siblings = {}

TurnInv(b) == KnownLinked(b) /\ LlmDrafted(b) /\ CallsDrafted(b)

BatchInv == Solo => \A b \in mode.branches : TurnInv(b)

\* What a step of the only branch, or of one of its calls, may assume.
LEMMA SoloFacts ==
  ASSUME IInv, EdgeInv, StatusInv, Solo, NEW b \in mode.branches
  PROVE  /\ b \in Branches /\ mode.branches = {b}
         /\ \A d \in Branches : at[d] # "done" => d = b
         /\ \A c \in Calls : at[c] # "idle" => at[b] = "tools" /\ \E i \in Slots : c = <<b, i>>
         /\ at[Proxy] = "idle"
<1>1. mode.branches \subseteq Branches /\ Cardinality(mode.branches) = 1
  BY ModesAssumption DEF IInv, TypeOK, BatchOfOneBranch, Solo
<1>2. IsFiniteSet(mode.branches)
  BY <1>1, BranchesAssumption, FS_Subset
<1>3. mode.branches = {b} /\ b \in Branches
  BY <1>1, <1>2, FS_Singleton
<1>4. \A d \in Branches : at[d] # "done" => d = b
  BY <1>3 DEF EdgeInv, Silent
<1>5. ASSUME NEW c \in Calls, at[c] # "idle"
      PROVE  at[b] = "tools" /\ \E i \in Slots : c = <<b, i>>
  <2>1. PICK d \in Branches, i \in Slots : c = <<d, i>>
    BY DEF Calls
  <2>2. at[d] = "tools"
    BY <1>5, <2>1 DEF IInv, CallsJoined
  <2>3. QED
    BY <1>4, <2>1, <2>2
<1>6. QED
  BY <1>3, <1>4, <1>5 DEF StatusInv, Ended, Solo

\* A step of another kind or with a later number changes nothing about turn n.
LEMMA LaterStep ==
  ASSUME NEW new, Known' = Known \cup {new}, NEW n, new.id # n
  PROVE  /\ Batched(n)' <=> Batched(n)
         /\ ~(new.kind = "tool" /\ new.cause = n) => Led(n)' = Led(n)
         /\ new.kind = "tool" /\ new.cause = n => Led(n)' = Led(n) \cup {new.id}
BY DEF Batched, Led

LEMMA SameKnown ==
  ASSUME UNCHANGED <<steps, lost>>
  PROVE  /\ Known' = Known
         /\ \A n : (Batched(n)' <=> Batched(n)) /\ Led(n)' = Led(n) /\ Group(n)' = Group(n)
         /\ \A n, id : FanIn(n, id)' = FanIn(n, id)
BY DEF Known, Batched, Led, Group, FanIn

LEMMA SoloInit ==
  ASSUME Init
  PROVE  BatchInv
<1> SUFFICES ASSUME Solo, NEW b \in mode.branches PROVE TurnInv(b)
  BY DEF BatchInv
<1>1. b \in Branches /\ at[b] = "think" /\ turn[b] = 0 /\ counter = 0
  BY ModesAssumption DEF Init, Threads
<1>2. Known = {}
  BY DEF Init, Known
<1>3. ~Batched(0) /\ siblings = {}
  BY <1>2 DEF Init, Batched
<1>4. QED
  BY <1>1, <1>2, <1>3 DEF TurnInv, KnownLinked, LlmDrafted, CallsDrafted

\* A model call of the only branch.
LEMMA BranchStepBatch ==
  ASSUME IInv, EdgeInv, StatusInv, TypeOK', IInv', Solo, UNCHANGED mode,
         NEW b \in mode.branches, TurnInv(b), BranchStep(b)
  PROVE  TurnInv(b)'
<1> b \in Threads /\ b \in Branches /\ at \in [Threads -> Labels] /\ at' \in [Threads -> Labels]
    /\ draft \in [Threads -> Steps] /\ turn \in [Branches -> Nat] /\ counter \in Nat
    /\ Known \subseteq Steps
  BY SoloFacts, ModesAssumption DEF Threads, TypeOK, IInv, Known
<1> \A i \in Slots : <<b, i>> \in Threads /\ <<b, i>> \in Calls /\ <<b, i>> # b
  BY ThreadsAssumption DEF Threads, Calls
<1>1. CASE LlmNumber(b)
  <2>1. PICK asked \in 0 .. Cardinality(Slots) :
          Number(b, [Blank EXCEPT !.kind = "llm", !.asked = asked, !.cause = turn[b]])
    BY <1>1 DEF LlmNumber
  <2>2. /\ counter' = counter + 1
        /\ draft'[b].id = counter + 1 /\ draft'[b].kind = "llm"
        /\ draft'[b].cause = turn[b] /\ draft'[b].parents = Previous(counter + 1)
    BY <2>1 DEF Number, Blank
  <2>3. /\ at[b] = "think" /\ at' = [at EXCEPT ![b] = "numbered"]
        /\ UNCHANGED <<steps, lost, turn, siblings>>
    BY <1>1 DEF LlmNumber, Goto, batch
  <2>4. KnownLinked(b)'
    BY <2>2, <2>3, SameKnown DEF TurnInv, KnownLinked, ToolLinked, LlmLinked
  <2>5. LlmDrafted(b)'
    BY <2>2, <2>3, SameKnown DEF TurnInv, KnownLinked, LlmDrafted
  <2>6. QED
    BY <2>3, <2>4, <2>5 DEF TurnInv, CallsDrafted
<1>2. CASE LlmRaise(b) \/ Gather(b)
  <2>1. /\ UNCHANGED <<counter, batch, siblings, steps, lost, draft, turn>>
        /\ at[b] \in {"think", "tools"} /\ at'[b] \in {"think", "done"}
    BY <1>2 DEF LlmRaise, Gather, Goto, batch
  <2>2. KnownLinked(b)'
    BY <2>1, SameKnown DEF TurnInv, KnownLinked, ToolLinked, LlmLinked
  <2>3. at'[b] = "think" => siblings = IF Batched(turn[b]) THEN Led(turn[b]) ELSE {}
    <3>1. CASE LlmRaise(b)
      BY <3>1 DEF LlmRaise, Goto
    <3>2. CASE Gather(b)
      <4>1. at[b] = "tools" /\ Joined(b) = {}
        BY <3>2 DEF Gather, Joined
      <4>2. QED
        BY <4>1 DEF TurnInv, CallsDrafted
    <3>3. QED
      BY <1>2, <3>1, <3>2
  <2>4. LlmDrafted(b)'
    BY <2>1, <2>3, SameKnown DEF LlmDrafted
  <2>5. QED
    BY <2>1, <2>2, <2>4 DEF TurnInv, CallsDrafted
<1>3. CASE LlmFanin(b)
  <2>1. /\ at[b] = "numbered" /\ at' = [at EXCEPT ![b] = "linked"]
        /\ UNCHANGED <<counter, steps, lost, turn>> /\ siblings' = {}
        /\ draft' = IF siblings = {} THEN draft ELSE [draft EXCEPT ![b].parents = siblings]
    BY <1>3 DEF LlmFanin, Goto, ConsumeFanin
  <2>2. /\ draft'[b].id = draft[b].id /\ draft'[b].kind = draft[b].kind
        /\ draft'[b].cause = draft[b].cause
        /\ draft'[b].parents = IF siblings = {} THEN draft[b].parents ELSE siblings
    BY <2>1 DEF Steps
  <2>3. draft'[b].parents = FanIn(turn[b], draft[b].id)
    BY <2>1, <2>2 DEF TurnInv, LlmDrafted, FanIn
  <2>4. KnownLinked(b)'
    BY <2>1, SameKnown DEF TurnInv, KnownLinked, ToolLinked, LlmLinked
  <2>5. LlmDrafted(b)'
    BY <2>1, <2>2, <2>3, SameKnown DEF TurnInv, LlmDrafted
  <2>6. QED
    BY <2>1, <2>4, <2>5 DEF TurnInv, CallsDrafted
<1>4. CASE LlmAppend(b)
  <2>1. /\ at[b] = "linked" /\ at' = [at EXCEPT ![b] = "appended"]
        /\ UNCHANGED <<counter, siblings, turn, draft>>
        /\ Known' = Known \cup {draft[b]}
    BY <1>4, AppendType DEF LlmAppend, Goto, IInv
  <2>2. turn[b] < draft[b].id /\ draft[b].kind = "llm" /\ draft[b].cause = turn[b]
    BY <2>1 DEF TurnInv, LlmDrafted
  <2>3. \A n \in Nat : n <= turn[b] =>
          /\ Batched(n)' <=> Batched(n)
          /\ Led(n)' = Led(n)
          /\ Group(n)' = Group(n)
          /\ \A id : FanIn(n, id)' = FanIn(n, id)
    <3> SUFFICES ASSUME NEW n \in Nat, n <= turn[b]
                 PROVE  /\ Batched(n)' <=> Batched(n)
                        /\ Led(n)' = Led(n)
      BY DEF Group, FanIn
    <3>1. draft[b].id # n
      BY <2>2 DEF Steps, Ids
    <3>2. QED
      BY <2>1, <2>2, <3>1, LaterStep
  <2>4. \A r \in Known' : r.cause \in Nat /\ r.cause <= turn[b]
    BY <2>1, <2>2 DEF TurnInv, KnownLinked, Steps
  <2>5. KnownLinked(b)'
    <3>1. turn'[b] <= counter'
      BY <2>1 DEF TurnInv, KnownLinked
    <3>2. ASSUME NEW r \in Known' PROVE r.kind = "tool" => ToolLinked(r)'
      BY <2>1, <2>2, <2>3, <2>4 DEF TurnInv, KnownLinked, ToolLinked
    <3>3. ASSUME NEW r \in Known' PROVE r.kind = "llm" => LlmLinked(r)'
      BY <2>1, <2>2, <2>3, <2>4 DEF TurnInv, KnownLinked, LlmDrafted, LlmLinked
    <3>4. QED
      BY <2>1, <2>4, <3>1, <3>2, <3>3 DEF KnownLinked
  <2>6. LlmDrafted(b)'
    BY <2>1, <2>2 DEF TurnInv, LlmDrafted
  <2>7. QED
    BY <2>1, <2>5, <2>6 DEF TurnInv, CallsDrafted
<1>5. CASE LlmArm(b)
  <2> PICK n \in Ids, a \in Nat : n = draft[b].id /\ a = draft[b].asked
    BY DEF Steps
  <2>1. /\ at[b] = "appended" /\ ArmParallelGroup(a, n)
        /\ turn' = [turn EXCEPT ![b] = n] /\ StartCalls(b, a)
        /\ UNCHANGED <<counter, steps, lost>>
    BY <1>5 DEF LlmArm
  <2>2. n \in Ids /\ n \in Nat /\ a \in Nat /\ turn'[b] = n /\ turn[b] < n
        /\ draft[b] \in Known /\ siblings = {} /\ turn[b] \in Nat
    BY <2>1 DEF TurnInv, LlmDrafted, Steps, Ids
  <2>3. Batched(n) <=> a >= 2
    <3>1. \A s \in Known : s.id = n => s = draft[b]
      BY <2>2 DEF IInv, SeqInv, OneSequence
    <3>2. QED
      BY <2>2, <3>1 DEF Batched
  <2>4. \A r \in Known : r.cause < n /\ r.cause \in Nat
    BY <2>2 DEF TurnInv, KnownLinked, Steps
  <2>5. Led(n) = {}
    BY <2>2, <2>4 DEF Led
  <2>6. PICK S \in SUBSET Slots :
          /\ Cardinality(S) = a
          /\ at' = [t \in Threads |-> IF t = b THEN "tools"
                                     ELSE IF t \in {b} \X S THEN "running" ELSE at[t]]
    BY <2>1 DEF StartCalls
  <2>7. at'[b] = "tools" /\ \A i \in Slots :
          at'[<<b, i>>] = IF i \in S THEN "running" ELSE "idle"
    <3>1. \A i \in Slots : at[<<b, i>>] = "idle"
      BY <2>1 DEF IInv, CallsJoined
    <3>2. QED
      BY <2>6, <3>1
  <2>8. KnownLinked(b)'
    <3>1. n <= counter
      BY <2>1 DEF EdgeInv, Edges, BatchNumbered
    <3>2. \A r \in Known' : ToolLinked(r)' = ToolLinked(r) /\ LlmLinked(r)' = LlmLinked(r)
      BY <2>1, SameKnown DEF ToolLinked, LlmLinked
    <3>3. QED
      BY <2>1, <2>2, <2>4, <3>1, <3>2, SameKnown DEF TurnInv, KnownLinked
  <2>9. LlmDrafted(b)'
    BY <2>7 DEF LlmDrafted
  <2>10. CallsDrafted(b)'
    <3>1. {i \in Slots : at'[<<b, i>>] \in {"running", "numbered"}} = S
      BY <2>7
    <3>2. Unjoined(b)' = S
      BY <3>1 DEF Unjoined
    <3>3. Joined(b)' = {}
      BY <2>7 DEF Joined
    <3>4. /\ a >= 2 => armed' = n /\ remaining' = a /\ dispatcher' = n
          /\ ~(a >= 2) => armed' = None
          /\ siblings' = {}
      BY <2>1, <2>2 DEF ArmParallelGroup
    <3>5. (Batched(turn[b])' <=> a >= 2) /\ Led(turn[b])' = {}
      BY <2>1, <2>2, <2>3, <2>5, SameKnown DEF Batched, Led
    <3>6. QED
      BY <2>2, <2>6, <2>7, <3>2, <3>3, <3>4, <3>5 DEF CallsDrafted, Holding
  <2>11. QED
    BY <2>8, <2>9, <2>10 DEF TurnInv
<1>6. ~HttpAnswered(b)
  <2>1. at[b] # "answered"
    BY DEF TurnInv, LlmDrafted
  <2>2. QED
    BY <2>1 DEF HttpAnswered
<1>7. QED
  BY <1>1, <1>2, <1>3, <1>4, <1>5, <1>6 DEF BranchStep

\* A tool call of the only branch.
LEMMA CallStepBatch ==
  ASSUME IInv, EdgeInv, StatusInv, TypeOK', Solo, UNCHANGED mode,
         NEW b \in mode.branches, TurnInv(b), NEW c \in Calls, CallStep(c)
  PROVE  TurnInv(b)'
<1> b \in Threads /\ b \in Branches /\ at \in [Threads -> Labels] /\ at' \in [Threads -> Labels]
    /\ draft \in [Threads -> Steps] /\ turn \in [Branches -> Nat] /\ counter \in Nat
    /\ Known \subseteq Steps
  BY SoloFacts, ModesAssumption DEF Threads, TypeOK, IInv, Known
<1> \A i \in Slots : <<b, i>> \in Threads /\ <<b, i>> \in Calls /\ <<b, i>> # b
  BY ThreadsAssumption DEF Threads, Calls
<1>0. at[c] # "idle" /\ UNCHANGED turn
  BY DEF CallStep, ToolNumber, ToolRaise, ToolJoin, ToolAppend
<1> PICK j \in Slots : c = <<b, j>>
  BY <1>0, SoloFacts
<1>1. at[b] = "tools" /\ c # b /\ c[1] = b /\ c \in Threads
  BY <1>0, SoloFacts
<1> PICK n \in Nat : n = turn[b]
  OBVIOUS
<1>2. /\ n <= counter /\ \A i \in Slots : i # j => <<b, i>> # c
      /\ IsFiniteSet(Unjoined(b)) /\ Cardinality(Unjoined(b)) \in Nat
  BY SlotsAssumption, FS_Subset, FS_CardinalityType DEF TurnInv, KnownLinked, Unjoined
<1>3. CASE ToolNumber(c)
  <2>1. PICK failed \in BOOLEAN :
          Number(c, [Blank EXCEPT !.kind = "tool", !.failed = failed, !.cause = turn[b]])
    BY <1>1, <1>3 DEF ToolNumber
  <2>2. /\ counter' = counter + 1
        /\ draft'[c].id = counter + 1 /\ draft'[c].kind = "tool"
        /\ draft'[c].cause = turn[b] /\ draft'[c].group = None
        /\ \A u \in Threads : u # c => draft'[u] = draft[u]
    BY <1>1, <2>1 DEF Number, Blank
  <2>3. /\ at[c] = "running" /\ at' = [at EXCEPT ![c] = "numbered"]
        /\ UNCHANGED <<steps, lost, turn, siblings, dispatcher, remaining, armed>>
    BY <1>3 DEF ToolNumber, Goto, batch
  <2>4. KnownLinked(b)' /\ LlmDrafted(b)'
    BY <1>1, <2>2, <2>3, SameKnown
       DEF TurnInv, KnownLinked, ToolLinked, LlmLinked, LlmDrafted
  <2>5. Unjoined(b)' = Unjoined(b) /\ Joined(b)' = Joined(b)
    <3>1. \A i \in Slots : i # j =>
            at'[<<b, i>>] = at[<<b, i>>] /\ draft'[<<b, i>>] = draft[<<b, i>>]
      BY <1>1, <1>2, <2>2, <2>3
    <3>2. at'[<<b, j>>] = "numbered" /\ at[<<b, j>>] = "running"
      BY <1>1, <2>3
    <3>3. \A i \in Slots : /\ at'[<<b, i>>] \in {"running", "numbered"}
                              <=> at[<<b, i>>] \in {"running", "numbered"}
                           /\ at'[<<b, i>>] = "linked" <=> at[<<b, i>>] = "linked"
                           /\ at[<<b, i>>] = "linked" => draft'[<<b, i>>] = draft[<<b, i>>]
      BY <3>1, <3>2
    <3>4. Unjoined(b)' = Unjoined(b)
      BY <3>3 DEF Unjoined
    <3>5. Joined(b)' = Joined(b)
      BY <3>3 DEF Joined
    <3>6. QED
      BY <3>4, <3>5
  <2>6. (Batched(turn[b])' <=> Batched(turn[b])) /\ Led(turn[b])' = Led(turn[b])
    BY <2>3, SameKnown DEF Batched, Led
  <2>7. \A i \in Slots : at'[<<b, i>>] = "linked" => ToolLinked(draft[<<b, i>>])'
    BY <1>1, <1>2, <2>2, <2>3, SameKnown DEF TurnInv, CallsDrafted, ToolLinked
  <2>8. CallsDrafted(b)'
    BY <1>1, <1>2, <2>2, <2>3, <2>5, <2>6, <2>7 DEF TurnInv, CallsDrafted, Holding
  <2>9. QED
    BY <2>4, <2>8 DEF TurnInv
<1>4. CASE ToolRaise(c)
  <2>1. /\ at[c] = "running" /\ at' = [at EXCEPT ![c] = "idle"]
        /\ UNCHANGED <<counter, draft, steps, lost, turn, siblings, dispatcher, remaining, armed>>
    BY <1>4 DEF ToolRaise, Goto, batch
  <2>2. KnownLinked(b)' /\ LlmDrafted(b)'
    BY <1>1, <2>1, SameKnown
       DEF TurnInv, KnownLinked, ToolLinked, LlmLinked, LlmDrafted
  <2>3. Unjoined(b)' \subseteq Unjoined(b) /\ Joined(b)' = Joined(b)
    BY <1>1, <1>2, <2>1 DEF Unjoined, Joined
  <2>4. /\ Cardinality(Unjoined(b)') \in Nat
        /\ Cardinality(Unjoined(b)') <= Cardinality(Unjoined(b))
    BY <1>2, <2>3, FS_Subset, FS_CardinalityType
  <2>5. (Batched(turn[b])' <=> Batched(turn[b])) /\ Led(turn[b])' = Led(turn[b])
    BY <2>1, SameKnown DEF Batched, Led
  <2>6. \A i \in Slots : at'[<<b, i>>] = "linked" => ToolLinked(draft[<<b, i>>])'
    BY <1>1, <1>2, <2>1, SameKnown DEF TurnInv, CallsDrafted, ToolLinked
  <2>7. remaining \in Nat
    BY DEF IInv, TypeOK
  <2>8. CallsDrafted(b)'
    BY <1>1, <1>2, <2>1, <2>3, <2>4, <2>5, <2>6, <2>7 DEF TurnInv, CallsDrafted, Holding
  <2>9. QED
    BY <2>2, <2>8 DEF TurnInv
<1>5. CASE ToolJoin(c)
  <2>1. /\ at[c] = "numbered" /\ at' = [at EXCEPT ![c] = "linked"]
        /\ UNCHANGED <<counter, steps, lost, turn, dispatcher>>
    BY <1>5 DEF ToolJoin, Goto
  <2>2. /\ \A u \in Threads : u # c => draft'[u] = draft[u]
        /\ draft'[c].id = draft[c].id /\ draft'[c].kind = draft[c].kind
        /\ draft'[c].cause = draft[c].cause
    BY <1>1, <1>5 DEF ToolJoin, Steps
  <2>3. KnownLinked(b)'
    BY <1>1, <2>1, SameKnown DEF TurnInv, KnownLinked, ToolLinked, LlmLinked
  <2>4. LlmDrafted(b)'
    BY <1>1, <2>1 DEF TurnInv, LlmDrafted
  <2>5. Unjoined(b)' = Unjoined(b) \ {j} /\ j \in Unjoined(b)
    BY <1>1, <1>2, <2>1 DEF Unjoined
  <2>6. Cardinality(Unjoined(b)') = Cardinality(Unjoined(b)) - 1
    BY <1>2, <2>5, FS_RemoveElement
  <2>7. Joined(b)' = Joined(b) \cup {draft[c].id}
    BY <1>1, <1>2, <2>1, <2>2 DEF Joined
  <2>8. (Batched(turn[b])' <=> Batched(turn[b])) /\ Led(turn[b])' = Led(turn[b])
        /\ (Batched(n)' <=> Batched(n)) /\ Group(n)' = Group(n)
    BY <2>1, SameKnown DEF Batched, Led
  <2>9. \A i \in Slots : i # j /\ at'[<<b, i>>] = "linked" => ToolLinked(draft[<<b, i>>])'
    BY <1>1, <1>2, <2>1, <2>2, SameKnown DEF TurnInv, CallsDrafted, ToolLinked
  <2>10. draft[c].cause = n /\ draft[c].group = None /\ n < draft[c].id
    BY <1>1, <2>1 DEF TurnInv, CallsDrafted, Holding
  <2>11. remaining \in Nat
    BY DEF IInv, TypeOK
  <2>12. CASE Batched(turn[b])
    <3>1. /\ dispatcher = n /\ remaining >= Cardinality(Unjoined(b)) /\ remaining > 0
          /\ armed = n /\ siblings = Led(turn[b]) \cup Joined(b)
      BY <1>1, <1>2, <2>5, <2>6, <2>11, <2>12, FS_CardinalityType, FS_EmptySet
         DEF TurnInv, CallsDrafted
    <3>2. n \in Ids
      BY <2>12 DEF Batched, Steps
    <3>3. JoinsBatch /\ dispatcher # None
      BY <3>1, <3>2, NoneAssumption DEF JoinsBatch
    <3>4. /\ draft'[c].group = n /\ draft'[c].parents = {n}
          /\ siblings' = siblings \cup {draft[c].id}
          /\ remaining' = remaining - 1 /\ (remaining' > 0 => armed' = armed)
      <4>1. /\ draft' = [draft EXCEPT ![c].group = armed,
                  ![c].parents = IF dispatcher # None THEN {dispatcher} ELSE @]
            /\ siblings' = siblings \cup {draft[c].id}
            /\ remaining' = remaining - 1 /\ armed' = IF remaining = 1 THEN None ELSE armed
        BY <1>5, <3>3 DEF ToolJoin
      <4>2. draft'[c] = [draft[c] EXCEPT !.group = n, !.parents = {n}]
        BY <1>1, <3>1, <3>3, <4>1
      <4>3. draft'[c].group = n /\ draft'[c].parents = {n}
        BY <1>1, <4>2 DEF Steps
      <4>4. remaining' > 0 => armed' = armed
        <5>1. CASE remaining = 1
          BY <4>1, <5>1
        <5>2. CASE remaining # 1
          BY <4>1, <5>2
        <5>3. QED
          BY <5>1, <5>2
      <4>5. QED
        BY <4>1, <4>3, <4>4
    <3>5. ToolLinked(draft[c])'
      <4>1. draft'[c].cause = n /\ Batched(n)
        BY <2>2, <2>10, <2>12
      <4>2. QED
        BY <2>8, <3>4, <4>1 DEF ToolLinked, Group, Batched
    <3>6. QED
      BY <1>1, <1>2, <2>1, <2>2, <2>3, <2>4, <2>6, <2>7, <2>8, <2>9, <2>10, <2>11, <2>12,
         <3>1, <3>4, <3>5 DEF TurnInv, CallsDrafted, Holding
  <2>13. CASE ~Batched(turn[b])
    <3>1. armed = None /\ siblings = {}
      BY <1>1, <2>13 DEF TurnInv, CallsDrafted
    <3>2. UNCHANGED <<draft, siblings, remaining, armed>>
      BY <1>5, <3>1 DEF ToolJoin, JoinsBatch
    <3>3. ToolLinked(draft[c])'
      <4>1. draft'[c].cause = n /\ ~Batched(n) /\ draft'[c].group = None
        BY <2>10, <2>13, <3>2
      <4>2. QED
        BY <2>8, <4>1 DEF ToolLinked, Group, Batched
    <3>4. QED
      BY <1>1, <1>2, <2>1, <2>2, <2>3, <2>4, <2>8, <2>9, <2>10, <2>13,
         <3>1, <3>2, <3>3 DEF TurnInv, CallsDrafted, Holding
  <2>14. QED
    BY <2>12, <2>13
<1>6. CASE ToolAppend(c)
  <2> PICK new \in Steps : new = draft[c]
    BY <1>1
  <2>1. /\ at[c] = "linked" /\ at' = [at EXCEPT ![c] = "idle"]
        /\ UNCHANGED <<counter, armed, remaining, dispatcher, siblings, turn>>
        /\ \A u \in Threads : u # c => draft'[u] = draft[u]
        /\ Known' = Known \cup {new}
    BY <1>1, <1>6, AppendType DEF ToolAppend, Goto, IInv, Discard
  <2>2. /\ n < new.id /\ new.kind = "tool" /\ new.cause = n /\ ToolLinked(new)
        /\ new.id \in Nat
    BY <1>1, <2>1 DEF TurnInv, CallsDrafted, Holding, Steps, Ids
  <2>3. \A m \in Nat : m <= n => (Batched(m)' <=> Batched(m)) /\ Group(m)' = Group(m)
    <3> SUFFICES ASSUME NEW m \in Nat, m <= n PROVE Batched(m)' <=> Batched(m)
      BY DEF Group
    <3>1. new.id # m
      BY <2>2
    <3>2. QED
      BY <2>1, <3>1, LaterStep
  <2>4. \A m \in Nat : m < n => Led(m)' = Led(m) /\ \A id : FanIn(m, id)' = FanIn(m, id)
    <3> SUFFICES ASSUME NEW m \in Nat, m < n PROVE Led(m)' = Led(m)
      BY <2>3 DEF FanIn
    <3>1. new.id # m /\ new.cause # m
      BY <2>2
    <3>2. QED
      BY <2>1, <3>1, LaterStep
  <2>5. Led(n)' = Led(n) \cup {new.id}
    <3>1. new.id # n
      BY <2>2
    <3>2. QED
      BY <2>1, <2>2, <3>1, LaterStep
  <2>6. \A r \in Known : r.cause \in Nat /\ r.cause <= n
    BY DEF TurnInv, KnownLinked, Steps
  <2>7. KnownLinked(b)'
    <3>1. ASSUME NEW r \in Known' PROVE r.kind = "tool" => ToolLinked(r)'
      BY <2>1, <2>2, <2>3, <2>6 DEF TurnInv, KnownLinked, ToolLinked
    <3>2. ASSUME NEW r \in Known', r.kind = "llm" PROVE LlmLinked(r)' /\ r.cause < n
      <4>1. r \in Known /\ r.cause < n /\ LlmLinked(r)
        BY <1>1, <2>1, <2>2, <3>2 DEF TurnInv, KnownLinked
      <4>2. QED
        BY <2>4, <2>6, <4>1 DEF LlmLinked
    <3>3. QED
      BY <1>1, <1>2, <2>1, <2>2, <2>6, <3>1, <3>2 DEF KnownLinked
  <2>8. LlmDrafted(b)'
    BY <1>1, <2>1 DEF TurnInv, LlmDrafted
  <2>9. Unjoined(b)' = Unjoined(b)
    BY <1>1, <1>2, <2>1 DEF Unjoined
  <2>10. Joined(b) = Joined(b)' \cup {new.id}
    BY <1>1, <1>2, <2>1 DEF Joined
  <2>11. (Batched(turn[b])' <=> Batched(turn[b]))
         /\ Led(turn[b])' = Led(turn[b]) \cup {new.id}
    BY <2>1, <2>3, <2>5 DEF Batched, Led
  <2>12. \A i \in Slots : at'[<<b, i>>] = "linked" => ToolLinked(draft[<<b, i>>])'
    <3> SUFFICES ASSUME NEW i \in Slots, at'[<<b, i>>] = "linked"
                 PROVE  ToolLinked(draft[<<b, i>>])'
      OBVIOUS
    <3>1. i # j /\ at[<<b, i>>] = "linked" /\ draft'[<<b, i>>] = draft[<<b, i>>]
      BY <1>1, <1>2, <2>1
    <3>2. ToolLinked(draft[<<b, i>>]) /\ draft[<<b, i>>].cause = n
      BY <1>1, <3>1 DEF TurnInv, CallsDrafted, Holding
    <3>3. QED
      BY <2>3, <3>1, <3>2 DEF ToolLinked
  <2>13. CallsDrafted(b)'
    BY <1>1, <1>2, <2>1, <2>9, <2>10, <2>11, <2>12 DEF TurnInv, CallsDrafted, Holding
  <2>14. QED
    BY <2>7, <2>8, <2>13 DEF TurnInv
<1>7. QED
  BY <1>3, <1>4, <1>5, <1>6 DEF CallStep

LEMMA BatchStep == IInv /\ EdgeInv /\ StatusInv /\ BatchInv /\ [Next]_vars => BatchInv'
<1> SUFFICES ASSUME IInv, EdgeInv, StatusInv, BatchInv, [Next]_vars, Solo',
                    NEW b \in mode'.branches
             PROVE  TurnInv(b)'
  BY DEF BatchInv
<1>1. mode' = mode /\ Solo
  BY DEF Next, vars, Solo, BatchOfOneBranch
<1>2. b \in mode.branches /\ TurnInv(b) /\ TypeOK' /\ IInv'
  BY <1>1, StepInv DEF BatchInv, IInv
<1>3. CASE UNCHANGED vars \/ ExitRead \/ ExitFinish \/ StopRecorder
  <2>1. UNCHANGED <<counter, armed, remaining, dispatcher, siblings, steps, lost, at, draft, turn>>
    BY <1>3 DEF vars, ExitRead, ExitFinish, StopRecorder, batch
  <2>2. KnownLinked(b)'
    BY <1>2, <2>1, SameKnown DEF TurnInv, KnownLinked, ToolLinked, LlmLinked
  <2>3. LlmDrafted(b)'
    BY <1>2, <2>1, SameKnown DEF TurnInv, LlmDrafted
  <2>4. CallsDrafted(b)'
    <3>1. Unjoined(b)' = Unjoined(b) /\ Joined(b)' = Joined(b)
      BY <2>1 DEF Unjoined, Joined
    <3>2. QED
      BY <1>2, <2>1, <3>1, SameKnown DEF TurnInv, CallsDrafted, ToolLinked, Holding
  <2>5. QED
    BY <2>2, <2>3, <2>4 DEF TurnInv
<1>4. ASSUME NEW d \in Branches, BranchStep(d) PROVE TurnInv(b)'
  <2>1. at[d] # "done"
    BY <1>4 DEF BranchStep, LlmNumber, LlmRaise, LlmFanin, LlmAppend, LlmArm,
                HttpAnswered, Gather
  <2>2. d = b
    BY <1>1, <1>2, <2>1, SoloFacts
  <2>3. QED
    BY <1>1, <1>2, <1>4, <2>2, BranchStepBatch
<1>5. ASSUME NEW c \in Calls, CallStep(c) PROVE TurnInv(b)'
  BY <1>1, <1>2, <1>5, CallStepBatch
<1>6. ~ProxyStep
  <2>1. at[Proxy] = "idle"
    BY <1>1, <1>2, SoloFacts
  <2>2. QED
    BY <1>1, <2>1 DEF ProxyStep, HttpNumber, HttpAppend, Solo
<1>7. QED
  BY <1>3, <1>4, <1>5, <1>6 DEF Next

BatchesInv == IInv /\ EdgeInv /\ StatusInv /\ BatchInv

LEMMA BatchesInvariant == Spec => []BatchesInv
<1>1. Init => BatchesInv
  BY InitInv, InitEdges, InitStatus, SoloInit DEF BatchesInv
<1>2. BatchesInv /\ [Next]_vars => BatchesInv'
  BY StepInv, EdgeStep, StatusStep, BatchStep DEF BatchesInv
<1>3. QED
  BY <1>1, <1>2, PTL DEF Spec

\* There is a branch to speak of when one branch uses the session.
LEMMA OneBranch ==
  ASSUME IInv, Solo
  PROVE  \E b : b \in mode.branches
<1>1. mode.branches \subseteq Branches /\ Cardinality(mode.branches) = 1
  BY ModesAssumption DEF IInv, TypeOK, BatchOfOneBranch, Solo
<1>2. QED
  BY <1>1, FS_EmptySet

\* However the tool calls of a batch race, and whichever of them fail or are
\* lost, each of their steps has the batch's group and the model step as its
\* only parent; no other tool step has a group (take_parallel_for_tool).
THEOREM BatchesGrouped == Spec => []BatchGrouped
<1>1. BatchesInv => BatchGrouped
  <2> SUFFICES ASSUME BatchesInv, Solo, NEW s \in Known, NEW r \in CausedBy(s)
               PROVE  /\ r.group = IF s.asked >= 2 THEN s.id ELSE None
                      /\ s.asked >= 2 => r.parents = {s.id}
    BY DEF BatchGrouped, Solo
  <2>1. PICK b \in mode.branches : TurnInv(b)
    BY OneBranch DEF BatchesInv, BatchInv
  <2>2. r \in Known /\ r.kind = "tool" /\ r.cause = s.id
    BY DEF CausedBy
  <2>3. ToolLinked(r)
    BY <2>1, <2>2 DEF TurnInv, KnownLinked
  <2>4. Batched(r.cause) <=> s.asked >= 2
    BY <2>2 DEF Batched, BatchesInv, IInv, SeqInv, OneSequence
  <2>5. QED
    BY <2>2, <2>3, <2>4 DEF ToolLinked, Group
<1>2. QED
  BY <1>1, BatchesInvariant, PTL

\* The model call that follows a batch has all the recorded steps of the batch as
\* its parents, in whatever order they came in, and no other (consume_fanin_parents).
THEOREM FanInIsComplete == Spec => []FanInComplete
<1>1. BatchesInv => FanInComplete
  <2> SUFFICES ASSUME BatchesInv, Solo, NEW r \in Known, r.kind = "llm"
               PROVE  r.parents =
                        IF \E s \in Known : s.id = r.cause /\ s.asked >= 2 /\ CausedBy(s) # {}
                          THEN {c.id : c \in {c \in Known : c.kind = "tool" /\ c.cause = r.cause}}
                          ELSE Previous(r.id)
    BY DEF FanInComplete, Solo
  <2>1. PICK b \in mode.branches : TurnInv(b)
    BY OneBranch DEF BatchesInv, BatchInv
  <2>2. r.parents = FanIn(r.cause, r.id)
    BY <2>1 DEF TurnInv, KnownLinked, LlmLinked
  <2>3. (\E s \in Known : s.id = r.cause /\ s.asked >= 2 /\ CausedBy(s) # {})
          <=> Batched(r.cause) /\ Led(r.cause) # {}
    BY DEF Batched, Led, CausedBy
  <2>4. QED
    BY <2>2, <2>3 DEF FanIn, Led
<1>2. QED
  BY <1>1, BatchesInvariant, PTL
=============================================================================
