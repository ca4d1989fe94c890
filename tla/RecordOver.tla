----------------------------- MODULE RecordOver -----------------------------
(***************************************************************************)
(* POST /runs/{id}/record-over runs a local agent again in a thread of the *)
(* API server, with its decision overridden (run_agent.record_over).  The  *)
(* override is an environment variable and the recording hooks are bound   *)
(* to attributes of the agent's module: both belong to the whole process,  *)
(* are saved and set before the run, and restored after it.                *)
(***************************************************************************)
EXTENDS ServerPool, Naturals, Sequences, FiniteSets, SequencesExt

CONSTANTS
  Values,       \* of the override; None: the variable is not set
  Hooked,       \* the functions of the agent that are instrumented, in order
  Script,       \* the calls of agent.main, in order
  Reads,        \* the functions that read the variable
  MaxRequests   \* bound of the model

Instrumented == ToSet(Hooked)

\* call_model and the names of SDK_TOOLS, a table.
ASSUME ScriptAssumption ==
  /\ Hooked \in Seq(Instrumented)
  /\ \A i, j \in DOMAIN Hooked : Hooked[i] = Hooked[j] => i = j
  /\ Script \in Seq(Instrumented)
  /\ Reads \subseteq Instrumented
ASSUME ValuesAssumption == None \notin Values
ASSUME MaxRequestsAssumption == MaxRequests \in Nat

VARIABLES
  override,  \* os.environ[override_env]
  depth,     \* per function: the number of hooks around it
  startEnv,  \* history: the variable when the server started
  stage,     \* per thread
  want,      \* per thread: the value asked for
  prev,      \* per thread: the saved variable
  saved,     \* per thread: the saved functions
  pos,       \* per thread: position in Hooked, or in Script
  given,     \* per thread: the counter of its session, the step numbers given out
  trace,     \* per thread: the steps of its run in the store
  lost,      \* per thread: the numbers of the steps whose append failed
  requests,  \* history: requests so far
  answered   \* history: the last run of an agent that came to its end

session  == <<given, trace, lost>>
overVars == <<override, depth, startEnv, stage, want, prev, saved, pos, session, requests, answered>>

OverInit ==
  /\ override \in Values \cup {None}
  /\ startEnv = override
  /\ depth = [n \in Instrumented |-> 0]
  /\ stage = [t \in Threads |-> "idle"]
  /\ want = [t \in Threads |-> None]
  /\ prev = [t \in Threads |-> None]
  /\ saved = [t \in Threads |-> [n \in Instrumented |-> 0]]
  /\ pos = [t \in Threads |-> 1]
  /\ given = [t \in Threads |-> 0]
  /\ trace = [t \in Threads |-> {}]
  /\ lost = [t \in Threads |-> {}]
  /\ requests = 0
  /\ answered = None

Enter(t, next) == stage' = [stage EXCEPT ![t] = next]
Turn(t, next) == Enter(t, next) /\ pos' = [pos EXCEPT ![t] = 1]
Forward(t)    == pos' = [pos EXCEPT ![t] = @ + 1]

AllIdle == \A t \in Threads : stage[t] = "idle"

-----------------------------------------------------------------------------

Request(t, v) ==
  /\ stage[t] = "idle"
  /\ OneAtATime => AllIdle
  /\ requests < MaxRequests
  /\ requests' = requests + 1
  /\ want' = [want EXCEPT ![t] = v]
  /\ given' = [given EXCEPT ![t] = 0]
  /\ trace' = [trace EXCEPT ![t] = {}]
  /\ lost' = [lost EXCEPT ![t] = {}]
  /\ Enter(t, "save")
  /\ UNCHANGED <<override, depth, startEnv, prev, saved, pos, answered>>

SaveEnv(t) ==
  /\ stage[t] = "save"
  /\ prev' = [prev EXCEPT ![t] = override]
  /\ Enter(t, "set")
  /\ UNCHANGED <<override, depth, startEnv, want, saved, pos, session, requests, answered>>

\* Plausible bug: os.environ.setdefault.
SetEnv_Default(t) ==
  /\ stage[t] = "set"
  /\ override' = IF override = None THEN want[t] ELSE override
  /\ Turn(t, "wrap")
  /\ UNCHANGED <<depth, startEnv, want, prev, saved, session, requests, answered>>

SetEnv(t) ==
  /\ stage[t] = "set"
  /\ override' = want[t]
  /\ Turn(t, "wrap")
  /\ UNCHANGED <<depth, startEnv, want, prev, saved, session, requests, answered>>

\* The run of the same id cannot be replaced: nothing is hooked yet.
Refuse(t) ==
  /\ stage[t] = "wrap"
  /\ pos[t] = 1
  /\ Turn(t, "reset")
  /\ UNCHANGED <<override, depth, startEnv, want, prev, saved, session, requests, answered>>

\* The next function is saved, then hooked.
Wrap(t) ==
  /\ stage[t] = "wrap"
  /\ pos[t] <= Len(Hooked)
  /\ LET n == Hooked[pos[t]]
     IN /\ saved' = [saved EXCEPT ![t][n] = depth[n]]
        /\ depth' = [depth EXCEPT ![n] = @ + 1]
  /\ Forward(t)
  /\ UNCHANGED <<override, startEnv, stage, want, prev, session, requests, answered>>

Wrapped(t) ==
  /\ stage[t] = "wrap"
  /\ pos[t] > Len(Hooked)
  /\ Turn(t, "run")
  /\ UNCHANGED <<override, depth, startEnv, want, prev, saved, session, requests, answered>>

-----------------------------------------------------------------------------
\* The agent's main, under the session of the thread's run.

\* What a call of n finds now: the hooks bound to it, each of which takes a number
\* and records the call, and the value of the variable if it reads it.
StepOf(i, n) == [id |-> i, name |-> n, value |-> IF n \in Reads THEN override ELSE None]
Numbers(t, n) == given[t] + 1 .. given[t] + depth[n]

\* A hook whose append fails prints the error and goes on without its step.
CallNext(t) ==
  /\ stage[t] = "run"
  /\ pos[t] <= Len(Script)
  /\ LET n == Script[pos[t]]
     IN /\ given' = [given EXCEPT ![t] = @ + depth[n]]
        /\ \E failed \in SUBSET Numbers(t, n) :
             /\ trace' = [trace EXCEPT ![t] = @ \cup {StepOf(i, n) : i \in Numbers(t, n) \ failed}]
             /\ lost' = [lost EXCEPT ![t] = @ \cup failed]
  /\ Forward(t)
  /\ UNCHANGED <<override, depth, startEnv, stage, want, prev, saved, requests, answered>>

Complete(t) ==
  /\ stage[t] = "run"
  /\ pos[t] > Len(Script)
  /\ answered' = [want |-> want[t], trace |-> trace[t], lost |-> lost[t]]
  /\ Turn(t, "unwrap")
  /\ UNCHANGED <<override, depth, startEnv, want, prev, saved, session, requests>>

\* The agent raises an exception, answered 500 once everything is restored.
Raise(t) ==
  /\ stage[t] = "run"
  /\ Turn(t, "unwrap")
  /\ UNCHANGED <<override, depth, startEnv, want, prev, saved, session, requests, answered>>

-----------------------------------------------------------------------------
\* The finally clauses

Unwrap(t) ==
  /\ stage[t] = "unwrap"
  /\ pos[t] <= Len(Hooked)
  /\ depth' = [depth EXCEPT ![Hooked[pos[t]]] = saved[t][Hooked[pos[t]]]]
  /\ Forward(t)
  /\ UNCHANGED <<override, startEnv, stage, want, prev, saved, session, requests, answered>>

Unwrapped(t) ==
  /\ stage[t] = "unwrap"
  /\ pos[t] > Len(Hooked)
  /\ Turn(t, "reset")
  /\ UNCHANGED <<override, depth, startEnv, want, prev, saved, session, requests, answered>>

\* Plausible bug: the variable is always removed.
ResetEnv_Pop(t) ==
  /\ stage[t] = "reset"
  /\ override' = None
  /\ Enter(t, "idle")
  /\ UNCHANGED <<depth, startEnv, want, prev, saved, pos, session, requests, answered>>

ResetEnv(t) ==
  /\ stage[t] = "reset"
  /\ override' = prev[t]
  /\ Enter(t, "idle")
  /\ UNCHANGED <<depth, startEnv, want, prev, saved, pos, session, requests, answered>>

ThreadStep(t) ==
  \/ \E v \in Values : Request(t, v)
  \/ SaveEnv(t) \/ SetEnv(t) \/ Refuse(t) \/ Wrap(t) \/ Wrapped(t)
  \/ CallNext(t) \/ Complete(t) \/ Raise(t)
  \/ Unwrap(t) \/ Unwrapped(t) \/ ResetEnv(t)

OverNext == \E t \in Threads : ThreadStep(t)
OverSpec == OverInit /\ [][OverNext]_overVars

-----------------------------------------------------------------------------
\* Properties

StepType == [id : Nat, name : Instrumented, value : Values \cup {None}]

OverTypeOK ==
  /\ override \in Values \cup {None}
  /\ startEnv \in Values \cup {None}
  /\ depth \in [Instrumented -> Nat]
  /\ stage \in [Threads -> {"idle", "save", "set", "wrap", "run", "unwrap", "reset"}]
  /\ want \in [Threads -> Values \cup {None}]
  /\ prev \in [Threads -> Values \cup {None}]
  /\ saved \in [Threads -> [Instrumented -> Nat]]
  /\ pos \in [Threads -> Nat \ {0}]
  /\ given \in [Threads -> Nat]
  /\ trace \in [Threads -> SUBSET StepType]
  /\ lost \in [Threads -> SUBSET Nat]
  /\ requests \in 0 .. MaxRequests
  /\ answered # None => answered \in [want : Values, trace : SUBSET StepType, lost : SUBSET Nat]

\* When no run is under way the process is as it was at the start
\* (run_agent.py:57, "keep originals to restore afterwards", and 99-103), also
\* after agents that raised exceptions.
RestoredWhenIdle ==
  AllIdle => override = startEnv /\ depth = [n \in Instrumented |-> 0]

\* A run that is answered is the agent's script under the decision it was asked to be
\* recorded with: the n-th call is the step numbered n, once, unless that step was lost
\* (run_agent.py:58-62, session.py:163-166); what reads the decision reads that one
\* (run_agent.py:77-78, "with one decision value overridden").
ScriptUnder(v) ==
  {[id |-> k, name |-> Script[k], value |-> IF Script[k] \in Reads THEN v ELSE None] :
     k \in DOMAIN Script}

DecisionHonoured ==
  answered # None =>
    /\ answered.trace = {s \in ScriptUnder(answered.want) : s.id \notin answered.lost}
    /\ answered.lost \subseteq DOMAIN Script

=============================================================================
