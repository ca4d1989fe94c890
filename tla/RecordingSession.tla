-------------------------- MODULE RecordingSession --------------------------
(***************************************************************************)
(* The recording side: recorder/session.py, the hooks of sdk_hooks.py that *)
(* wrap model calls and tools, and the CaptureAddon of http_proxy.py, all  *)
(* of which append to one trace and draw step ids from one allocator.      *)
(*                                                                         *)
(* Each branch of the agent alternates a model call with the tool calls    *)
(* that the model asked for, which run concurrently; the proxy is one more *)
(* thread.  A hook takes the session's lock once to number its step, again *)
(* to read or write the parallel-batch state, and the store's lock to      *)
(* append: these are separate actions, between which the others move.      *)
(***************************************************************************)
EXTENDS Naturals, FiniteSets

CONSTANTS
  Branches,   \* concurrent branches of the agent
  Slots,      \* tool calls one model response may ask for
  Modes,      \* the ways of recording that mode ranges over
  Proxy,      \* the proxy's thread
  None,
  MaxLost     \* bound of the model: steps whose append fails

ASSUME BranchesAssumption == IsFiniteSet(Branches)
ASSUME SlotsAssumption == IsFiniteSet(Slots)
ASSUME ModesAssumption ==
  Modes \subseteq [proxied  : BOOLEAN,
                   readable : BOOLEAN,
                   branches : SUBSET Branches,
                   limit    : Nat]
ASSUME BoundAssumption == MaxLost \in Nat

Calls == Branches \X Slots            \* tool calls in flight
Threads == Branches \cup Calls \cup {Proxy}

ASSUME ThreadsAssumption ==
  /\ Branches \cap Calls = {}
  /\ Proxy \notin Branches \cup Calls

Ids == Nat \ {0}

ASSUME NoneAssumption == None \notin Ids
ASSUME StatusAssumption == None \notin {"ok", "error"}

\* A step as the blame graph sees it.  A uuid4 parallel_group is modelled by the
\* id of the model step that armed it, which is unique for the same reason.
\* "asked", the number of tool calls in a model response, is part of its blob;
\* "cause" is history: the model step that led to this one (0: none).
Steps ==
  [id      : Ids,
   kind    : {"llm", "tool", "http"},
   parents : SUBSET Ids,
   group   : Ids \cup {None},
   failed  : BOOLEAN,
   asked   : Nat,
   cause   : Nat]

VARIABLES
  mode,       \* the branches of this agent, and how it is recorded; never changes.
              \*   proxied: model calls are captured by the proxy, which also owns
              \*   the run (record_session.py), rather than by record_llm and the
              \*   session (run_agent.py, run_hosted.py); readable: the store can
              \*   be read when the session exits; limit: bound of the model,
              \*   the step ids allocated
  counter,    \* session._counter
  armed,      \* pending_parallel_group
  remaining,  \* _parallel_remaining
  dispatcher, \* _parallel_dispatch_step_id
  siblings,   \* _parallel_siblings
  steps,      \* the trace in the store
  lost,       \* steps whose append raised: printed and dropped
  at,         \* where each thread is
  draft,      \* the step each thread is building
  turn,       \* the last model step of each branch (history)
  heard,      \* tool steps whose results a branch had gathered before the session
              \* read the trace to derive its status (history)
  verdict,    \* the status derived by __exit__: None until the trace is read
  status      \* status of the run: None until finish_run

batch == <<armed, remaining, dispatcher, siblings>>
ending == <<heard, verdict, status>>
vars  == <<mode, counter, batch, steps, lost, at, draft, turn, ending>>

Blank == [id |-> 1, kind |-> "http", parents |-> {}, group |-> None,
          failed |-> FALSE, asked |-> 0, cause |-> 0]

Init ==
  /\ mode \in Modes
  /\ counter = 0
  /\ armed = None
  /\ remaining = 0
  /\ dispatcher = None
  /\ siblings = {}
  /\ steps = {}
  /\ lost = {}
  /\ at = [t \in Threads |-> IF t \in mode.branches THEN "think"
                          ELSE IF t \in Branches THEN "done" ELSE "idle"]
  /\ draft = [t \in Threads |-> Blank]
  /\ turn = [b \in Branches |-> 0]
  /\ heard = {}
  /\ verdict = None
  /\ status = None

-----------------------------------------------------------------------------
Goto(t, label) == at' = [at EXCEPT ![t] = label]

\* Plausible bug: a step is its own parent.
Previous_Self(id) == {id}

\* The step numbered just before, the default causal parent.
Previous(id) == IF id > 1 THEN {id - 1} ELSE {}

\* Plausible bug: the proxy numbers its steps itself (CaptureAddon.step_id).
Number_Unshared(t, step) ==
  /\ counter < mode.limit
  /\ counter' = IF t = Proxy THEN counter ELSE counter + 1
  /\ draft' = [draft EXCEPT ![t] = [step EXCEPT !.id = counter + 1,
                                               !.parents = Previous(counter + 1)]]

\* next_step_id: thread t takes the next id for the step it builds.
Number(t, step) ==
  /\ counter < mode.limit
  /\ counter' = counter + 1
  /\ draft' = [draft EXCEPT ![t] = [step EXCEPT !.id = counter + 1,
                                               !.parents = Previous(counter + 1)]]

\* The step a thread has built goes out of scope.
Discard(t) == draft' = [draft EXCEPT ![t] = Blank]

Known == steps \cup lost

Taken(id) == \E s \in steps : s.id = id

\* append_step: a duplicate (run_id, step_id) is refused by the primary key, and
\* any other failure of the store is possible too.  The step is then lost.
Append(t) ==
  /\ \/ /\ ~Taken(draft[t].id)
        /\ steps' = steps \cup {draft[t]}
        /\ UNCHANGED lost
     \/ /\ Cardinality(lost) < MaxLost
        /\ lost' = lost \cup {draft[t]}
        /\ UNCHANGED steps
  /\ UNCHANGED <<counter, batch, ending>>

\* The agent starts the tool calls that the model asked branch b for.
StartCalls(b, asked) ==
  \E S \in SUBSET Slots :
    /\ Cardinality(S) = asked
    /\ at' = [t \in Threads |-> IF t = b THEN "tools"
                               ELSE IF t \in {b} \X S THEN "running"
                               ELSE at[t]]

-----------------------------------------------------------------------------
\* record_llm, once the wrapped call has returned.

LlmNumber(b) ==
  /\ ~mode.proxied
  /\ at[b] = "think"
  /\ \E asked \in 0 .. Cardinality(Slots) :
       Number(b, [Blank EXCEPT !.kind = "llm", !.asked = asked, !.cause = turn[b]])
  /\ Goto(b, "numbered")
  /\ UNCHANGED <<batch, steps, lost, turn, ending>>

\* A model call that raises is not recorded, and ends its branch.
LlmRaise(b) ==
  /\ at[b] = "think"
  /\ Goto(b, "done")
  /\ UNCHANGED <<counter, batch, steps, lost, draft, turn, ending>>

\* Plausible bug: the collected siblings are not cleared.
ConsumeFanin_Keep(b) ==
  /\ draft' = IF siblings = {} THEN draft
                ELSE [draft EXCEPT ![b].parents = siblings]
  /\ UNCHANGED siblings

\* consume_fanin_parents
ConsumeFanin(b) ==
  /\ draft' = IF siblings = {} THEN draft
                ELSE [draft EXCEPT ![b].parents = siblings]
  /\ siblings' = {}

LlmFanin(b) ==
  /\ at[b] = "numbered"
  /\ ConsumeFanin(b)
  /\ Goto(b, "linked")
  /\ UNCHANGED <<counter, armed, remaining, dispatcher, steps, lost, turn, ending>>

LlmAppend(b) ==
  /\ at[b] = "linked"
  /\ Append(b)
  /\ Goto(b, "appended")
  /\ UNCHANGED <<draft, turn>>

\* Plausible bug: a response with no batch leaves the previous batch armed.
ArmParallelGroup_Keep(n, id) ==
  IF n >= 2
    THEN /\ armed' = id
         /\ remaining' = n
         /\ dispatcher' = id
         /\ siblings' = {}
    ELSE UNCHANGED <<armed, remaining, dispatcher, siblings>>

\* arm_parallel_group(n_tool_calls, dispatch_step_id)
ArmParallelGroup(n, id) ==
  IF n >= 2
    THEN /\ armed' = id
         /\ remaining' = n
         /\ dispatcher' = id
         /\ siblings' = {}
    ELSE /\ armed' = None
         /\ remaining' = 0
         /\ dispatcher' = None
         /\ UNCHANGED siblings

LlmArm(b) ==
  /\ at[b] = "appended"
  /\ ArmParallelGroup(draft[b].asked, draft[b].id)
  /\ turn' = [turn EXCEPT ![b] = draft[b].id]
  /\ StartCalls(b, draft[b].asked)
  /\ Discard(b)
  /\ UNCHANGED <<counter, steps, lost, ending>>

-----------------------------------------------------------------------------
\* record_tool: the wrapped tool has returned (its result may report a failure,
\* _tool_status), or has raised, and then nothing is recorded.

ToolNumber(c) ==
  /\ at[c] = "running"
  /\ \E failed \in BOOLEAN :
       Number(c, [Blank EXCEPT !.kind = "tool", !.failed = failed, !.cause = turn[c[1]]])
  /\ Goto(c, "numbered")
  /\ UNCHANGED <<batch, steps, lost, turn, ending>>

ToolRaise(c) ==
  /\ at[c] = "running"
  /\ Goto(c, "idle")
  /\ UNCHANGED <<counter, batch, steps, lost, draft, turn, ending>>

JoinsBatch == armed # None /\ remaining > 0

\* take_parallel_for_tool
ToolJoin(c) ==
  /\ at[c] = "numbered"
  /\ \/ /\ JoinsBatch
        /\ draft' = [draft EXCEPT ![c].group = armed,
                                  ![c].parents = IF dispatcher # None THEN {dispatcher}
                                                                      ELSE @]
        /\ siblings' = siblings \cup {draft[c].id}
        /\ remaining' = remaining - 1
        /\ armed' = IF remaining = 1 THEN None ELSE armed
     \/ /\ ~JoinsBatch
        /\ UNCHANGED <<draft, siblings, remaining, armed>>
  /\ Goto(c, "linked")
  /\ UNCHANGED <<counter, dispatcher, steps, lost, turn, ending>>

ToolAppend(c) ==
  /\ at[c] = "linked"
  /\ Append(c)
  /\ Discard(c)
  /\ Goto(c, "idle")
  /\ UNCHANGED turn

\* The branch has the results of all its tool calls and asks the model again,
\* or stops.
Gather(b) ==
  /\ at[b] = "tools"
  /\ \A i \in Slots : at[<<b, i>>] = "idle"
  /\ \E label \in {"think", "done"} : Goto(b, label)
  /\ heard' = IF verdict = None
                THEN heard \cup {s.id : s \in {s \in Known : s.kind = "tool" /\ s.cause = turn[b]}}
                ELSE heard
  /\ UNCHANGED <<counter, batch, steps, lost, draft, turn, verdict, status>>

-----------------------------------------------------------------------------
\* CaptureAddon.response runs in the proxy's thread, one exchange at a time, and
\* the client has its response only afterwards.  The exchange is the model call
\* of a branch, or any other call to a recorded host.

HttpNumber ==
  /\ mode.proxied
  /\ at[Proxy] = "idle"
  /\ \/ \E failed \in BOOLEAN :
          /\ Number(Proxy, [Blank EXCEPT !.failed = failed])
          /\ Goto(Proxy, "linked")
     \/ \E b \in Branches, failed \in BOOLEAN, asked \in 0 .. Cardinality(Slots) :
          /\ at[b] = "think"
          /\ failed => asked = 0
          /\ Number(Proxy, [Blank EXCEPT !.kind = "llm", !.failed = failed,
                                         !.asked = asked, !.cause = turn[b]])
          /\ at' = [at EXCEPT ![Proxy] = "linked", ![b] = "waiting"]
  /\ UNCHANGED <<batch, steps, lost, turn, ending>>

HttpAppend ==
  /\ at[Proxy] = "linked"
  /\ Append(Proxy)
  /\ Discard(Proxy)
  /\ at' = [t \in Threads |-> IF at[t] = "waiting" THEN "answered"
                             ELSE IF t = Proxy THEN "idle" ELSE at[t]]
  /\ turn' = [b \in Branches |-> IF at[b] = "waiting" THEN draft[Proxy].id
                                                      ELSE turn[b]]

\* No batch is armed: the proxy does not look into the response.
HttpAnswered(b) ==
  /\ at[b] = "answered"
  /\ \E s \in Known : s.id = turn[b] /\ StartCalls(b, s.asked)
  /\ UNCHANGED <<counter, batch, steps, lost, draft, turn, ending>>

-----------------------------------------------------------------------------
\* The end of the run.  The with-block of the session belongs to the code that
\* started the branches: it may end whatever they and their tool calls are doing,
\* and they go on recording.  __exit__ reads the trace, derives the status from it
\* ("ok" when it cannot be read), and only then writes the status.

\* Plausible bug: only the last step decides.
Verdict_Last ==
  IF \E s \in steps : s.failed /\ \A r \in steps : r.id <= s.id THEN "error" ELSE "ok"

Verdict == IF \E s \in steps : s.failed THEN "error" ELSE "ok"

ExitRead ==
  /\ ~mode.proxied
  /\ verdict = None
  /\ verdict' = IF mode.readable THEN Verdict ELSE "ok"
  /\ UNCHANGED <<counter, batch, steps, lost, at, draft, turn, heard, status>>

ExitFinish ==
  /\ verdict # None
  /\ status = None
  /\ status' = verdict
  /\ UNCHANGED <<counter, batch, steps, lost, at, draft, turn, heard, verdict>>

\* Recorder.stop reports "ok", before it shuts the proxy down.
StopRecorder ==
  /\ mode.proxied
  /\ status = None
  /\ status' = "ok"
  /\ UNCHANGED <<counter, batch, steps, lost, at, draft, turn, heard, verdict>>

BranchStep(b) ==
  \/ LlmNumber(b) \/ LlmRaise(b) \/ LlmFanin(b) \/ LlmAppend(b) \/ LlmArm(b)
  \/ HttpAnswered(b)
  \/ Gather(b)
CallStep(c) == ToolNumber(c) \/ ToolRaise(c) \/ ToolJoin(c) \/ ToolAppend(c)
ProxyStep == HttpNumber \/ HttpAppend

Next ==
  /\ \/ \E b \in Branches : BranchStep(b)
     \/ \E c \in Calls : CallStep(c)
     \/ ProxyStep
     \/ ExitRead \/ ExitFinish
     \/ StopRecorder
  /\ UNCHANGED mode

Spec == Init /\ [][Next]_vars

-----------------------------------------------------------------------------
\* Properties

Labels == {"think", "numbered", "linked", "appended", "tools", "running", "idle", "done",
           "waiting", "answered"}

TypeOK ==
  /\ mode \in Modes
  /\ counter \in 0 .. mode.limit
  /\ armed \in Ids \cup {None}
  /\ remaining \in Nat
  /\ dispatcher \in Ids \cup {None}
  /\ siblings \subseteq Ids
  /\ steps \subseteq Steps
  /\ lost \subseteq Steps
  /\ at \in [Threads -> Labels]
  /\ draft \in [Threads -> Steps]
  /\ turn \in [Branches -> Nat]
  /\ heard \subseteq Ids
  /\ verdict \in {None, "ok", "error"}
  /\ status \in {None, "ok", "error"}

\* Threads that hold an id whose step is not in the trace yet.
Holding(t) == at[t] \in {"numbered", "linked"}

\* All transports write one trace with one collision-free step sequence
\* (session.py:3-5): every id handed out belongs to exactly one step, which is
\* recorded, lost, or still being built by exactly one thread.
OneSequence ==
  /\ \A s, r \in Known : s.id = r.id => s = r
  /\ \A t \in Threads : Holding(t) => \A s \in Known : s.id # draft[t].id
  /\ \A t, u \in Threads :
       Holding(t) /\ Holding(u) /\ draft[t].id = draft[u].id => t = u
  /\ \A n \in 1 .. counter :
       \/ \E s \in Known : s.id = n
       \/ \E t \in Threads : Holding(t) /\ draft[t].id = n

\* The batch state belongs to the session and is armed by record_llm.
BatchOfOneBranch == mode.proxied \/ Cardinality(mode.branches) = 1

\* Causal edges point backwards, so that the walks of root_cause.py over
\* causal_parents follow a partial order.  Branches that share a batch do not
\* keep to this: one is given the siblings of the other as parents, among them
\* steps numbered later.
ParentsPrecede ==
  BatchOfOneBranch => \A s \in Known : \A p \in s.parents : p \in 1 .. s.id - 1

\* The tool steps that a model step led to.
CausedBy(s) == {r \in Known : r.kind = "tool" /\ r.cause = s.id}

\* A tool step belongs to the model response that asked for it: a batch shares a
\* group and the model step as its parent, a single call has no group
\* (docs/trace_schema.json:114, "shared by all tool_call steps
\* dispatched simultaneously from a single LLM response").
BatchGrouped ==
  ~mode.proxied /\ BatchOfOneBranch => \A s \in Known : s.kind = "llm" => \A r \in CausedBy(s) :
    /\ r.group = IF s.asked >= 2 THEN s.id ELSE None
    /\ s.asked >= 2 => r.parents = {s.id}

\* The model call that follows a batch has exactly the recorded tool steps of
\* that batch as its parents, any other the step numbered before it.
FanInComplete ==
  ~mode.proxied /\ BatchOfOneBranch => \A r \in Known : r.kind = "llm" =>
    r.parents = IF \E s \in Known : s.id = r.cause /\ s.asked >= 2 /\ CausedBy(s) # {}
                  THEN {c.id : c \in {c \in Known : c.kind = "tool" /\ c.cause = r.cause}}
                  ELSE Previous(r.id)

\* A run that the session ends as failed has a failed step.  A failed tool call
\* whose result a branch had gathered before the session read the trace makes the
\* run failed, unless its step was lost: what the agent knew to have failed when its
\* with-block ended is not reported as a success, although other threads go on
\* recording around the read and the write of __exit__.
FailureHeardIsReported ==
  ~mode.proxied /\ mode.readable =>
    /\ status = "error" => \E s \in steps : s.failed
    /\ status = "ok" => \A s \in steps : s.failed => s.id \notin heard

\* Contradicted: "Run status reflects the recorded steps: error if any step errored"
\* (session.py:79).  A thread that still records when the block ends appends its
\* failed step after the read.
StatusReflectsSteps ==
  ~mode.proxied /\ mode.readable /\ status # None => (status = "error" <=> \E s \in steps : s.failed)

=============================================================================
