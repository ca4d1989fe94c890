--------------------------- MODULE ReplaySession ---------------------------
(***************************************************************************)
(* A recorded agent is run again (record_session.replay_run): its HTTP and *)
(* MCP calls meet the ReplayAddon in the proxy's thread, its native tools  *)
(* the record_tool hook in its own threads.  Each side has a Replayer of   *)
(* its own over the same tape, and keeps its own tallies, which the driver *)
(* adds up at the end.  Only what these callers use of a Replayer is       *)
(* modelled, response_for with synthesize_on_miss left at its default TRUE *)
(* (the whole engine is in module Replayer).                               *)
(***************************************************************************)
EXTENDS Naturals, Sequences, FiniteSets

CONSTANTS
  HttpIdents,  \* identities of proxied calls ("POST /path", "mcp tools/call")
  SdkIdents,   \* identities of native calls ("sdk tool")
  None,
  Tapes,       \* the recorded runs
  Inside,      \* threads of the agent that carry the session in their context
  Agents,      \* the agents that may be run again
  MaxCalls     \* bound of the model: calls the agent makes

Steps == [ident    : HttpIdents \cup SdkIdents \cup {None},
          effect   : BOOLEAN,
          readable : BOOLEAN]   \* its response blob is there and intact

ASSUME IdentsAssumption == HttpIdents \cap SdkIdents = {} /\ None \notin HttpIdents \cup SdkIdents
ASSUME InsideAssumption == IsFiniteSet(Inside)
ASSUME TapesAssumption == Tapes \subseteq Seq(Steps)
ASSUME AgentsAssumption ==
  Agents \subseteq [faithful : BOOLEAN, proxied : BOOLEAN, plain : BOOLEAN]
ASSUME MaxCallsAssumption == MaxCalls \in Nat

VARIABLES
  agent,    \* the agent that is run again; never changes.  faithful: it only
            \*   repeats recorded calls, in any order; proxied: it makes calls
            \*   that pass the proxy; plain: it starts plain threads, which do
            \*   not inherit the contextvar that holds the session
  tape,     \* the recorded steps
  proxyQ,   \* positions left in the index of the proxy's Replayer
  sdkQ,     \* positions left in the index of the session's Replayer
  popping,  \* per thread: the identity it found queued, before popleft
  proxy,    \* the tallies of ReplayAddon and its Replayer
  sdk,      \* the tallies of RecordingSession
  live,     \* "upstream": a request was forwarded; "tool": a tool was run
  got,      \* history: positions delivered to the agent
  due,      \* history: positions the agent has yet to repeat
  calls     \* history: calls made

vars == <<agent, tape, proxyQ, sdkQ, popping, proxy, sdk, live, got, due, calls>>

Positions == 1 .. Len(tape)
Queue(Q, i) == {p \in Q : tape[p].ident = i}
IsFirst(p, S) == p \in S /\ \A q \in S : p <= q
Indexed == {p \in Positions : tape[p].ident # None}

Init ==
  /\ agent \in Agents
  /\ tape \in Tapes
  /\ proxyQ = Indexed
  /\ sdkQ = Indexed
  /\ popping = [t \in Inside |-> None]
  /\ proxy = [served |-> 0, diverged |-> 0, effects |-> 0]
  /\ sdk = [served |-> 0, diverged |-> 0, effects |-> 0]
  /\ live = {}
  /\ got = {}
  /\ due = Indexed
  /\ calls = 0

\* The agent makes a call with identity i.
Call(i) ==
  /\ calls < MaxCalls
  /\ calls' = calls + 1
  /\ \/ \E p \in Queue(due, i) : due' = due \ {p}
     \/ ~agent.faithful /\ UNCHANGED due

\* Plausible bug: elif where the code has a second if.
Deliver_Exclusive(p, tally) ==
  IF tape[p].effect THEN [tally EXCEPT !.effects = @ + 1]
                    ELSE [tally EXCEPT !.served = @ + 1]

\* One more step delivered from the tape.
Deliver(p, tally) ==
  [served   |-> tally.served + 1,
   diverged |-> tally.diverged,
   effects  |-> tally.effects + (IF tape[p].effect THEN 1 ELSE 0)]

-----------------------------------------------------------------------------
\* ReplayAddon.request runs in the proxy's event loop, one request at a time.

\* mitmproxy logs an exception of an addon and goes on with the flow, which has
\* no response yet: the request is sent upstream.
Forward == live' = live \cup {"upstream"}

\* Plausible bug: queue[0] instead of queue.popleft().
ProxyHit_Peek(i) ==
  \E p \in Queue(proxyQ, i) :
    /\ IsFirst(p, Queue(proxyQ, i))
    /\ proxy' = Deliver(p, proxy)
    /\ got' = got \cup {p}
    /\ UNCHANGED <<proxyQ, live>>

\* A recorded response, unless its blob is missing or corrupt: fetch_blob raises.
ProxyHit(i) ==
  \E p \in Queue(proxyQ, i) :
    /\ IsFirst(p, Queue(proxyQ, i))
    /\ proxyQ' = proxyQ \ {p}
    /\ \/ /\ tape[p].readable
          /\ proxy' = Deliver(p, proxy)
          /\ got' = got \cup {p}
          /\ UNCHANGED live
       \/ /\ ~tape[p].readable
          /\ Forward
          /\ UNCHANGED <<proxy, got>>

\* A miss is synthesized: the envelope has no "body", so that resp["body"]
\* raises.  No divergence is counted.
ProxyMiss(i) ==
  /\ Queue(proxyQ, i) = {}
  /\ Forward
  /\ UNCHANGED <<proxyQ, proxy, got>>

ProxyCall(i) ==
  /\ agent.proxied
  /\ Call(i)
  /\ ProxyHit(i) \/ ProxyMiss(i)
  /\ UNCHANGED <<tape, sdkQ, popping, sdk>>

\* A host outside the policy, which was not recorded either, gets a 502.
ProxyBlocked ==
  /\ calls < MaxCalls
  /\ calls' = calls + 1
  /\ UNCHANGED <<tape, proxyQ, sdkQ, popping, proxy, sdk, live, got, due>>

-----------------------------------------------------------------------------
\* replay_sdk in thread t.  The queue is tested and popped without a lock.

\* Plausible bug: a synthesized envelope is not taken for a miss.
SdkMiss_Synthesized(t, i) ==
  /\ Queue(sdkQ, i) = {}
  /\ sdk' = [sdk EXCEPT !.served = @ + 1]
  /\ UNCHANGED popping

\* ReplayDivergence is raised: the tool is not run.
SdkMiss(t, i) ==
  /\ Queue(sdkQ, i) = {}
  /\ sdk' = [sdk EXCEPT !.diverged = @ + 1]
  /\ UNCHANGED popping

SdkFound(t, i) ==
  /\ Queue(sdkQ, i) # {}
  /\ popping' = [popping EXCEPT ![t] = i]
  /\ UNCHANGED sdk

SdkCall(t, i) ==
  /\ popping[t] = None
  /\ Call(i)
  /\ SdkMiss(t, i) \/ SdkFound(t, i)
  /\ UNCHANGED <<tape, proxyQ, sdkQ, proxy, live, got>>

\* The recorded result, or fetch_blob raises.  The pop and the increments of the
\* counters (session.py:198-200, served += 1 without a lock) are one step: what reads
\* the counters comes after all threads, and CPython from 3.10 on, which the code
\* requires, switches threads at calls and backward jumps, none of which an increment
\* has.  On another interpreter an increment might be lost, which is not modelled.
SdkServe(t) ==
  \E p \in Queue(sdkQ, popping[t]) :
    /\ IsFirst(p, Queue(sdkQ, popping[t]))
    /\ sdkQ' = sdkQ \ {p}
    /\ \/ /\ tape[p].readable
          /\ sdk' = Deliver(p, sdk)
          /\ got' = got \cup {p}
       \/ /\ ~tape[p].readable
          /\ UNCHANGED <<sdk, got>>

\* Another thread took the last one: popleft raises IndexError.
SdkRaced(t) ==
  /\ Queue(sdkQ, popping[t]) = {}
  /\ UNCHANGED <<sdkQ, sdk, got>>

SdkPop(t) ==
  /\ popping[t] # None
  /\ popping' = [popping EXCEPT ![t] = None]
  /\ SdkServe(t) \/ SdkRaced(t)
  /\ UNCHANGED <<tape, proxyQ, proxy, live, due, calls>>

\* record_tool in a thread without a session calls the tool itself.
SdkPassThrough(i) ==
  /\ agent.plain
  /\ Call(i)
  /\ live' = live \cup {"tool"}
  /\ UNCHANGED <<tape, proxyQ, sdkQ, popping, proxy, sdk, got>>

Next ==
  /\ \/ \E i \in HttpIdents : ProxyCall(i)
     \/ ProxyBlocked
     \/ \E t \in Inside, i \in SdkIdents : SdkCall(t, i)
     \/ \E t \in Inside : SdkPop(t)
     \/ \E i \in SdkIdents : SdkPassThrough(i)
  /\ UNCHANGED agent

Spec == Init /\ [][Next]_vars

-----------------------------------------------------------------------------
\* The merged report of replay_run.

Served   == proxy.served + sdk.served
Diverged == proxy.diverged + sdk.diverged
Effects  == proxy.effects + sdk.effects

\* Neither side ever counts a live execution (Replayer.side_effect_count and
\* replay_report are constantly 0).
LiveExecuted == 0

\* The exit status 0 of recorder.replay, and of the demos, which also compare
\* the number of steps.
ExitOk == LiveExecuted = 0 /\ Diverged = 0
DemoOk == ExitOk /\ Served = Len(tape)

-----------------------------------------------------------------------------
\* Properties

Tallies == [served : Nat, diverged : Nat, effects : Nat]

TypeOK ==
  /\ agent \in Agents
  /\ tape \in Tapes
  /\ proxyQ \subseteq Indexed
  /\ sdkQ \subseteq Indexed
  /\ popping \in [Inside -> SdkIdents \cup {None}]
  /\ proxy \in Tallies
  /\ sdk \in Tallies
  /\ live \subseteq {"upstream", "tool"}
  /\ got \subseteq Indexed
  /\ due \subseteq Indexed
  /\ calls \in 0 .. MaxCalls

Intact == \A p \in Positions : tape[p].readable

\* Calls that pass the proxy stay on the tape only when each of them was recorded
\* and can be read; native calls do so unless they leave the session.
Trusted == ~agent.plain /\ (agent.proxied => agent.faithful /\ Intact)

\* The replay keeps the promise of module SafeReplay (README.md:3, "with zero
\* live API calls"): the two Replayers never deliver a step twice between them,
\* their merged tally counts exactly what the agent received, and a trusted agent
\* reaches nothing but the tape.
Safe == INSTANCE SafeReplay
  WITH recorded <- Positions, delivered <- got, served <- Served, trusted <- Trusted
SafeReplayed == Safe!Spec

Idle == \A t \in Inside : popping[t] = None

\* When the agent has repeated every recorded call, and nothing is missing from
\* the tape, the report says so (record_session.py:146-148): all the recorded
\* steps were served, however the calls of its threads raced.
FaithfulReplayOk ==
  /\ agent.faithful /\ ~agent.plain
  /\ Intact /\ Indexed = Positions
  /\ due = {} /\ Idle
  => DemoOk

\* A report of success means that the whole tape was delivered, each step once.
OkMeansComplete == DemoOk => got = Positions

\* side_effecting_served counts the side effects that the tape stood in for.
EffectsAccounted == Effects = Cardinality({p \in got : tape[p].effect})

\* No request is forwarded during a replay (http_proxy.py:2-3, "never forwards,
\* so a replayed run hits zero live endpoints").
NeverForwards == "upstream" \notin live

\* No tool is executed during a replay (sdk_hooks.py:4-6, "side-effecting tools
\* are NEVER run in replay (fail closed)").
NeverExecutes == "tool" \notin live

\* A replay that went live is not reported as a success (recorder/replay.py:103).
ReportHonest == ExitOk => live = {}

=============================================================================
