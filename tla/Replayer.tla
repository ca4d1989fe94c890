------------------------------ MODULE Replayer ------------------------------
(***************************************************************************)
(* The deterministic replay engine, replay_engine/replay.py.               *)
(*                                                                         *)
(* A Replayer loads one recorded run ("the tape") and answers the calls of *)
(* a re-running agent from it.  It keeps three independent indexes over    *)
(* the same steps (by blob hash, by request identity, by parallel group)   *)
(* and a sequential cursor; a miss is synthesized, raised or reported as a *)
(* divergence.  A deque of steps is modelled by the set of the positions   *)
(* still queued: popleft takes the least position, because the indexes are *)
(* filled in tape order and nothing is pushed back.                        *)
(***************************************************************************)
EXTENDS Naturals, Sequences, FiniteSets

CONSTANTS
  Keys,           \* blob refs of request payloads (args_blob or prompt_blob)
  Idents,         \* request identities
  Groups,         \* parallel_group ids
  Tools,          \* tool names
  None,           \* an absent field
  Runs,           \* the trace documents get_run may return
  MaxCalls        \* bound of the model: calls one replay makes

StepTypes == {"llm_call", "tool_call"}

\* What the engine reads of a step.  "failed" is status_code >= 400 or status
\* == "error"; "payload" says what fetching the response blob gives: a JSON
\* text, a text that is not JSON, or an exception (missing or corrupt blob).
Steps ==
  [id      : Nat \ {0},
   type    : StepTypes,
   key     : Keys \cup {None},
   ident   : Idents \cup {None},
   group   : Groups \cup {None},
   tool    : Tools \cup {None},
   effect  : BOOLEAN,
   failed  : BOOLEAN,
   payload : {"json", "text", "missing"}]

\* get_run returns the steps ORDER BY step_id, its primary key; fork = 0 stands
\* for a null fork_step_id (recorded step ids start at 1).
RunDocs == [steps : Seq(Steps), recordOver : BOOLEAN, fork : Nat]

Ordered(r) ==
  \A p, q \in 1 .. Len(r.steps) : p < q => r.steps[p].id < r.steps[q].id

ASSUME RunsAssumption ==
  /\ Runs \subseteq RunDocs
  /\ \A r \in Runs : Ordered(r)
ASSUME NoneAssumption == None \notin Keys \cup Idents \cup Groups \cup Tools
ASSUME MaxCallsAssumption == MaxCalls \in Nat

VARIABLES
  run,          \* the loaded trace document; never changes
  synthOnMiss,  \* synthesize_on_miss
  suppress,     \* error_step_mode = "suppress"
  hashQ,        \* positions still queued in _hash_index
  identQ,       \* positions still queued in _index
  groupQ,       \* positions still queued in _parallel_group_index
  cursor,       \* _cursor
  served,       \* _served_count
  synthesized,  \* synthesized_count
  errors,       \* error_step_count
  effects,      \* side_effecting_served
  answer,       \* what the last call asked for, and got
  given,        \* history: <<path, position>> of every step taken off the tape
  calls         \* history: number of calls made

config   == <<run, synthOnMiss, suppress>>
indexes  == <<hashQ, identQ, groupQ, cursor>>
counters == <<served, synthesized, errors, effects>>
vars     == <<config, indexes, counters, answer, given, calls>>

-----------------------------------------------------------------------------
\* The tape

Tape == run.steps
Positions == 1 .. Len(Tape)

\* Plausible bug: pop() instead of popleft().
IsFirst_Pop(p, S) == p \in S /\ \A q \in S : q <= p

IsFirst(p, S) == p \in S /\ \A q \in S : p <= q

HashQueue(k)  == {p \in hashQ : Tape[p].key = k}
IdentQueue(i) == {p \in identQ : Tape[p].ident = i}

\* The per-tool deques of _parallel_group_index, scanned in the order in which
\* the groups first appear on the tape.
GroupsInOrder(p, q) ==
  \E f \in Positions :
    /\ Tape[f].group = Tape[p].group
    /\ \A g \in Positions : Tape[g].group = Tape[q].group => f <= g

Siblings(t) == {p \in groupQ : Tape[p].tool = t}

IsNextSibling(p, t) ==
  /\ p \in Siblings(t)
  /\ \A q \in Siblings(t) :
       IF Tape[q].group = Tape[p].group THEN p <= q ELSE GroupsInOrder(p, q)

\* The parallel_group of the forked step, None when there is none.
ForkGroup ==
  IF \E p \in Positions : Tape[p].id = run.fork
    THEN Tape[CHOOSE p \in Positions : Tape[p].id = run.fork].group
    ELSE None

\* A step past the fork point that is no sibling of the forked step.
Downstream(p) ==
  /\ run.recordOver
  /\ run.fork # 0
  /\ Tape[p].id > run.fork
  /\ ~ (Tape[p].group # None /\ Tape[p].group = ForkGroup)

-----------------------------------------------------------------------------
\* Answers.  "tape": a recorded response; "synthesized": a fabricated one;
\* "none": response_for returned None; "raised": the call raised.  "path" is
\* the index that was used and "request" what the caller asked it for.

Paths == {"hash", "sibling", "ident", "next"}

Answers ==
  [source  : {"tape", "synthesized", "none", "raised"},
   path    : Paths,
   request : Keys \cup Idents \cup StepTypes \cup {None},
   pos     : Nat,
   failed  : BOOLEAN]

OffTape(source, path, request) ==
  [source |-> source, path |-> path, request |-> request,
   pos |-> 0, failed |-> FALSE]

\* Plausible bug: a plain dict, in which an equal request overwrites the last.
Init_Overwrite ==
  /\ run \in Runs
  /\ synthOnMiss \in BOOLEAN
  /\ suppress \in BOOLEAN
  /\ hashQ = {p \in Positions : /\ Tape[p].key # None
                               /\ \A q \in Positions : q > p => Tape[q].key # Tape[p].key}
  /\ identQ = {p \in Positions : Tape[p].ident # None}
  /\ groupQ = {p \in Positions : Tape[p].group # None}
  /\ cursor = 0 /\ served = 0 /\ synthesized = 0 /\ errors = 0 /\ effects = 0
  /\ answer = OffTape("none", "next", None)
  /\ given = {} /\ calls = 0

Init ==
  /\ run \in Runs
  /\ synthOnMiss \in BOOLEAN
  /\ suppress \in BOOLEAN
  /\ hashQ = {p \in Positions : Tape[p].key # None}
  /\ identQ = {p \in Positions : Tape[p].ident # None}
  /\ groupQ = {p \in Positions : Tape[p].group # None}
  /\ cursor = 0
  /\ served = 0
  /\ synthesized = 0
  /\ errors = 0
  /\ effects = 0
  /\ answer = OffTape("none", "next", None)
  /\ given = {}
  /\ calls = 0

\* Step p is handed out, its error status hidden in suppress mode; the caller
\* sees an exception instead when the payload cannot be read.
HandOut(p, path, request, readable) ==
  /\ answer' = [source  |-> IF readable THEN "tape" ELSE "raised",
                path    |-> path,
                request |-> request,
                pos     |-> p,
                failed  |-> Tape[p].failed /\ ~suppress]
  /\ given' = given \cup {<<path, p>>}

\* Plausible bug: suppressed errors are not counted.
BuildResponse_CountShown(p, path, request) ==
  /\ served' = served + 1
  /\ errors' = IF Tape[p].failed /\ ~suppress THEN errors + 1 ELSE errors
  /\ HandOut(p, path, request,
             Tape[p].payload = "json" \/ (Tape[p].failed /\ suppress))
  /\ UNCHANGED <<config, synthesized, effects>>

\* _build_response: counts first, then reads and parses the payload, which may
\* raise; the payload of a suppressed error step is not read at all.
BuildResponse(p, path, request) ==
  /\ served' = served + 1
  /\ errors' = IF Tape[p].failed THEN errors + 1 ELSE errors
  /\ HandOut(p, path, request,
             Tape[p].payload = "json" \/ (Tape[p].failed /\ suppress))
  /\ UNCHANGED <<config, synthesized, effects>>

\* _synthesize_response, which never raises.
Synthesize(path, request) ==
  /\ synthOnMiss
  /\ synthesized' = synthesized + 1
  /\ answer' = OffTape("synthesized", path, request)
  /\ UNCHANGED <<config, hashQ, identQ, groupQ, served, errors, effects, given>>

Refuse(source, path, request) ==
  /\ answer' = OffTape(source, path, request)
  /\ UNCHANGED <<config, hashQ, identQ, groupQ, counters, given>>

-----------------------------------------------------------------------------
\* get_response_for_hash(k, tool_hint = t)

\* Plausible bug: queue[0] instead of queue.popleft().
HashHit_Peek(k) ==
  \E p \in HashQueue(k) :
    /\ IsFirst(p, HashQueue(k))
    /\ BuildResponse(p, "hash", k)
    /\ UNCHANGED <<hashQ, identQ, groupQ, cursor>>

HashHit(k) ==
  \E p \in HashQueue(k) :
    /\ IsFirst(p, HashQueue(k))
    /\ hashQ' = hashQ \ {p}
    /\ BuildResponse(p, "hash", k)
    /\ UNCHANGED <<identQ, groupQ, cursor>>

\* _serve_parallel_sibling
HashSibling(k, t) ==
  /\ HashQueue(k) = {}
  /\ synthOnMiss
  /\ t # None
  /\ \E p \in Siblings(t) :
       /\ IsNextSibling(p, t)
       /\ groupQ' = groupQ \ {p}
       /\ BuildResponse(p, "sibling", k)
       /\ UNCHANGED <<hashQ, identQ, cursor>>

HashMiss(k, t) ==
  /\ HashQueue(k) = {}
  /\ t # None => Siblings(t) = {}
  /\ Synthesize("hash", k)
  /\ UNCHANGED cursor

HashRefused(k) ==
  /\ HashQueue(k) = {}
  /\ ~synthOnMiss
  /\ Refuse("raised", "hash", k)
  /\ UNCHANGED cursor

GetResponseForHash(k, t) ==
  HashHit(k) \/ HashSibling(k, t) \/ HashMiss(k, t) \/ HashRefused(k)

-----------------------------------------------------------------------------
\* response_for(i) pops the step and reads its body before it counts the side
\* effect; neither _served_count nor error_step_count moves.

IdentHit(i) ==
  \E p \in IdentQueue(i) :
    /\ IsFirst(p, IdentQueue(i))
    /\ identQ' = identQ \ {p}
    /\ effects' = IF Tape[p].effect /\ Tape[p].payload # "missing"
                    THEN effects + 1 ELSE effects
    /\ HandOut(p, "ident", i, Tape[p].payload # "missing")
    /\ UNCHANGED <<config, hashQ, groupQ, cursor, served, synthesized, errors>>

IdentMiss(i) ==
  /\ IdentQueue(i) = {}
  /\ Synthesize("ident", i)
  /\ UNCHANGED cursor

IdentDiverged(i) ==
  /\ IdentQueue(i) = {}
  /\ ~synthOnMiss
  /\ Refuse("none", "ident", i)
  /\ UNCHANGED cursor

ResponseFor(i) == IdentHit(i) \/ IdentMiss(i) \/ IdentDiverged(i)

-----------------------------------------------------------------------------
\* get_next_response(ty): the cursor moves before the type is compared.

NextServed(ty) ==
  /\ cursor < Len(Tape)
  /\ cursor' = cursor + 1
  /\ Tape[cursor + 1].type = ty
  /\ ~Downstream(cursor + 1)
  /\ BuildResponse(cursor + 1, "next", ty)
  /\ UNCHANGED <<hashQ, identQ, groupQ>>

\* ReplayError: step-type mismatch.
NextMismatch(ty) ==
  /\ cursor < Len(Tape)
  /\ cursor' = cursor + 1
  /\ Tape[cursor + 1].type # ty
  /\ Refuse("raised", "next", ty)

\* Past the fork: synthesized, or TapeExhaustedForFork.
NextDownstream(ty) ==
  /\ cursor < Len(Tape)
  /\ cursor' = cursor + 1
  /\ Tape[cursor + 1].type = ty
  /\ Downstream(cursor + 1)
  /\ \/ Synthesize("next", ty)
     \/ ~synthOnMiss /\ Refuse("raised", "next", ty)

\* The tape is exhausted: synthesized, TapeExhaustedForFork or ReplayError.
NextExhausted(ty) ==
  /\ cursor = Len(Tape)
  /\ UNCHANGED cursor
  /\ \/ run.recordOver /\ Synthesize("next", ty)
     \/ ~(run.recordOver /\ synthOnMiss) /\ Refuse("raised", "next", ty)

GetNextResponse(ty) ==
  NextServed(ty) \/ NextMismatch(ty) \/ NextDownstream(ty) \/ NextExhausted(ty)

-----------------------------------------------------------------------------
\* finish() reads the counters and changes nothing.

\* Plausible bug: completion is read off the sequential cursor.
FinishStatus_Cursor ==
  IF run.recordOver
    THEN IF cursor >= Len(Tape) THEN "fork-live" ELSE "incomplete"
    ELSE IF cursor = Len(Tape) THEN "ok" ELSE "incomplete"

FinishStatus ==
  IF run.recordOver
    THEN IF served >= Len(Tape) THEN "fork-live" ELSE "incomplete"
    ELSE IF served = Len(Tape) THEN "ok" ELSE "incomplete"

\* The three ways in which a caller drives a Replayer, and any mix of them.
HashCall  == \E k \in Keys, t \in Tools \cup {None} : GetResponseForHash(k, t)
IdentCall == \E i \in Idents : ResponseFor(i)
NextCall  == \E ty \in StepTypes : GetNextResponse(ty)

Counted == calls < MaxCalls /\ calls' = calls + 1

Next == Counted /\ (HashCall \/ IdentCall \/ NextCall)
Spec == Init /\ [][Next]_vars

-----------------------------------------------------------------------------
\* Properties

TypeOK ==
  /\ run \in Runs
  /\ synthOnMiss \in BOOLEAN
  /\ suppress \in BOOLEAN
  /\ hashQ \subseteq Positions
  /\ identQ \subseteq Positions
  /\ groupQ \subseteq Positions
  /\ cursor \in 0 .. Len(Tape)
  /\ served \in Nat
  /\ synthesized \in Nat
  /\ errors \in Nat
  /\ effects \in Nat
  /\ answer \in Answers
  /\ given \subseteq Paths \X Positions
  /\ calls \in 0 .. MaxCalls

\* A recorded step is handed out at most once through each index.
FreshStep ==
  answer'.pos # 0 => <<answer'.path, answer'.pos>> \notin given

OrderedStep ==
  /\ answer'.pos # 0 /\ answer'.path = "hash" =>
       /\ Tape[answer'.pos].key = answer'.request
       /\ \A q \in Positions :
            q < answer'.pos /\ Tape[q].key = answer'.request => <<"hash", q>> \in given
  /\ answer'.pos # 0 /\ answer'.path = "ident" =>
       /\ Tape[answer'.pos].ident = answer'.request
       /\ \A q \in Positions :
            q < answer'.pos /\ Tape[q].ident = answer'.request => <<"ident", q>> \in given

\* Nothing is fabricated, refused or recovered from a sibling while a recorded
\* answer to that request has not been handed out yet.
MissStep ==
  /\ answer'.path = "sibling" \/ (answer'.path = "hash" /\ answer'.pos = 0) =>
       \A q \in Positions :
         Tape[q].key = answer'.request => <<"hash", q>> \in given
  /\ answer'.path = "ident" /\ answer'.pos = 0 =>
       \A q \in Positions :
         Tape[q].ident = answer'.request => <<"ident", q>> \in given

\* Equal requests are answered in the order in which they were recorded, only
\* with steps recorded for that very request, never twice with the same one, and
\* by nothing else before all of those are used up (the FIFO deques of
\* replay.py:115-132 and 137-142): a retried or duplicated request gets the next
\* recorded answer or a miss.
RecordedOrder == [][FreshStep /\ OrderedStep /\ MissStep]_vars

\* Steps counted by finish(): every hand-out except those by identity.
Counting == {g \in given : g[1] # "ident"}

\* finish() and error_step_count report exactly what was handed out through the
\* three paths that share _build_response, whatever their interleaving.
CountsMatchTape ==
  /\ served = Cardinality(Counting)
  /\ errors = Cardinality({g \in Counting : Tape[g[2]].failed})

Replayed(p) == \E path \in Paths : <<path, p>> \in given

\* No step was handed out by identity, or through two indexes.
CountedOnce ==
  \A g \in given : g[1] # "ident" /\ \A h \in given : h[2] = g[2] => h = g

\* A caller that keeps to one index, or uses several for different steps, is told
\* exactly whether its whole tape was replayed: finish() reports "incomplete" to
\* an "agent stopped before consuming all tape" (replay.py:420), and to no other
\* (replay.py:403-425).
ReportIsTrue ==
  CountedOnce => (FinishStatus # "incomplete" <=> \A p \in Positions : Replayed(p))

=============================================================================
