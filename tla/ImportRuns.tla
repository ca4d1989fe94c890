----------------------------- MODULE ImportRuns -----------------------------
(***************************************************************************)
(* POST /agents/import, /agents/import/upload and /agents/run (api/app.py):*)
(* a thread of the API server launches a recorder, in a process of its own *)
(* or in a container, and waits for it for a limited time.  The recorder   *)
(* of an import (import_agent/driver.py) listens on a fixed port, and runs *)
(* the agent as yet another process that is told to send its calls there.  *)
(* The server's environment is what the recorders, and their agents, get.  *)
(*                                                                         *)
(* What is recorded is reduced to whose calls were; the recorded run and   *)
(* its store are those of modules RecordingSession and TraceStore.         *)
(***************************************************************************)
EXTENDS Naturals, Sequences, SequencesExt

CONSTANTS
  Imports,     \* requests to import an agent
  Hosted,      \* requests to run the built-in agent on a hosted model
  NoValue,
  Names,       \* environment variables, CASSETTE_AGENT_STDIN among them
  Settings,    \* the deployments to check, as [docker, serial, requests]
  MaxSteps     \* bound of the model: steps of a run

Requests == Imports \cup Hosted

ASSUME RequestsAssumption == Imports \cap Hosted = {}
ASSUME NoValueAssumption == NoValue \notin Requests \cup {"ok", "error", "timeout"}
ASSUME SettingsAssumption ==
  \A s \in Settings : s.docker \in BOOLEAN /\ s.serial \in BOOLEAN /\ s.requests \subseteq Requests
ASSUME MaxStepsAssumption == MaxSteps \in Nat

VARIABLES
  setting,  \* docker: a Docker daemon can be reached; serial: the clients send a
            \* request only after the last was answered; requests: those they send
  environ,  \* os.environ of the server: the request each value comes from
  own,      \* per request: the variables it sets
  phase,    \* per request: its thread
  env,      \* per request: the environment its agent gets
  driver,   \* per request: its recorder
  code,     \* per request: the recorder's exit code
  proxy,    \* per import: the recorder's proxy
  agent,    \* per request: the agent's process
  status,   \* per request: its run's header; "open" until finish_run
  steps,    \* per request: the steps of its run, as the requests whose agents made them
  answer    \* per request: "ok", or an HTTP error

importVars == <<setting, environ, own, phase, env, driver, code, proxy, agent, status, steps, answer>>

Unset == [n \in Names |-> NoValue]

Docker == setting.docker

ImportInit ==
  /\ setting \in Settings
  /\ environ = Unset
  /\ own \in [Requests -> SUBSET Names]
  /\ \A i \in Requests \ setting.requests : own[i] = {}
  /\ phase = [i \in Requests |-> "idle"]
  /\ env = [i \in Requests |-> Unset]
  /\ driver = [i \in Requests |-> "none"]
  /\ code = [i \in Requests |-> NoValue]
  /\ proxy = [i \in Requests |-> "none"]
  /\ agent = [i \in Requests |-> "none"]
  /\ status = [i \in Requests |-> NoValue]
  /\ steps = [i \in Requests |-> <<>>]
  /\ answer = [i \in Requests |-> NoValue]

Goto(i, next) == phase' = [phase EXCEPT ![i] = next]
Answer(i, a)  == Goto(i, "done") /\ answer' = [answer EXCEPT ![i] = a]

With(vals, i) == [n \in Names |-> IF n \in own[i] THEN i ELSE vals[n]]

-----------------------------------------------------------------------------
\* The request's thread

Ask(i) ==
  /\ phase[i] = "idle"
  /\ i \in setting.requests
  /\ setting.serial => \A j \in Requests : phase[j] \in {"idle", "done"}
  /\ Goto(i, IF i \in Hosted THEN "launch" ELSE "resolve")
  /\ UNCHANGED <<environ, own, env, driver, code, proxy, agent, status, steps, answer>>

\* git clone, a look at a local folder, or the upload's files; or a 422.
Resolve(i) ==
  /\ phase[i] = "resolve"
  /\ \/ Goto(i, "export") /\ UNCHANGED answer
     \/ Answer(i, "error")
  /\ UNCHANGED <<environ, own, env, driver, code, proxy, agent, status, steps>>

\* Plausible bug: setdefault, which leaves what an earlier import has set.
Export_Default(i) ==
  /\ phase[i] = "export"
  /\ environ' = [n \in Names |-> IF n \in own[i] /\ environ[n] = NoValue THEN i ELSE environ[n]]
  /\ Goto(i, "launch")
  /\ UNCHANGED <<own, env, driver, code, proxy, agent, status, steps, answer>>

\* os.environ.update
Export(i) ==
  /\ phase[i] = "export"
  /\ environ' = With(environ, i)
  /\ Goto(i, "launch")
  /\ UNCHANGED <<own, env, driver, code, proxy, agent, status, steps, answer>>

\* A container is given the request's variables by name, a process everything.
Environment(i) ==
  IF i \in Hosted THEN With(environ, i)
  ELSE IF Docker THEN [n \in Names |-> IF n \in own[i] THEN environ[n] ELSE NoValue]
  ELSE environ

\* The image may fail to build, which is an error too.
Launch(i) ==
  /\ phase[i] = "launch"
  /\ \/ /\ Goto(i, "wait")
        /\ env' = [env EXCEPT ![i] = Environment(i)]
        /\ driver' = [driver EXCEPT ![i] = "starting"]
        /\ UNCHANGED answer
     \/ /\ Docker /\ i \in Imports
        /\ Answer(i, "error")
        /\ UNCHANGED <<env, driver>>
  /\ UNCHANGED <<environ, own, code, proxy, agent, status, steps>>

Waits(i) == phase[i] = "wait" /\ driver[i] # "exited"

\* Plausible bug: the recorder is given up, not killed.
Timeout_Leave(i) ==
  /\ Waits(i)
  /\ Answer(i, "timeout")
  /\ UNCHANGED <<environ, own, env, driver, code, proxy, agent, status, steps>>

\* Plausible bug: subprocess.run without a timeout.
Timeout_Never(i) == Waits(i) /\ UNCHANGED importVars

\* subprocess.run kills what it launched: the recorder, not the recorder's agent;
\* the docker client, not the container.
Timeout(i) ==
  /\ Waits(i)
  /\ Answer(i, "timeout")
  /\ IF Docker /\ i \in Imports
       THEN UNCHANGED <<driver, proxy, agent>>
       ELSE /\ driver' = [driver EXCEPT ![i] = "killed"]
            /\ proxy' = [proxy EXCEPT ![i] = "none"]
            /\ agent' = IF i \in Hosted THEN [agent EXCEPT ![i] = "none"] ELSE agent
  /\ UNCHANGED <<environ, own, env, code, status, steps>>

\* An import has failed when its recorder failed and left no step.
Finalize(i) ==
  /\ phase[i] = "wait"
  /\ driver[i] = "exited"
  /\ Answer(i, IF code[i] # 0 /\ (i \in Hosted \/ steps[i] = <<>>) THEN "error" ELSE "ok")
  /\ UNCHANGED <<environ, own, env, driver, code, proxy, agent, status, steps>>

RequestStep(i) ==
  Resolve(i) \/ Export(i) \/ Launch(i) \/ Timeout(i) \/ Finalize(i)

-----------------------------------------------------------------------------
\* The recorder

\* The run is registered, the proxy's thread started, then the agent; or the
\* run cannot be registered.
Begin(i) ==
  /\ driver[i] = "starting"
  /\ \/ /\ driver' = [driver EXCEPT ![i] = "recording"]
        /\ status' = [status EXCEPT ![i] = "open"]
        /\ agent' = [agent EXCEPT ![i] = "running"]
        /\ proxy' = IF i \in Imports THEN [proxy EXCEPT ![i] = "binding"] ELSE proxy
        /\ UNCHANGED code
     \/ /\ driver' = [driver EXCEPT ![i] = "exited"]
        /\ code' = [code EXCEPT ![i] = 1]
        /\ UNCHANGED <<status, agent, proxy>>
  /\ UNCHANGED <<environ, own, phase, env, steps, answer>>

Up == {i \in Imports : proxy[i] = "up"}

\* start() does not wait for the proxy to listen, nor notice that it cannot.
Bind(i) ==
  /\ proxy[i] = "binding"
  /\ proxy' = [proxy EXCEPT ![i] = IF Docker \/ Up = {} THEN "up" ELSE "dead"]
  /\ UNCHANGED <<environ, own, phase, env, driver, code, agent, status, steps, answer>>

\* The recorders a call of agent a comes by: its own process, or whichever
\* listens on the port.
Reached(a) ==
  IF a \in Hosted THEN {a}
  ELSE IF Docker THEN Up \cap {a}
  ELSE Up

Call(a) ==
  \E i \in Reached(a) :
    /\ agent[a] = "running"
    /\ Len(steps[i]) < MaxSteps
    /\ steps' = [steps EXCEPT ![i] = Append(@, a)]
    /\ UNCHANGED <<environ, own, phase, env, driver, code, proxy, agent, status, answer>>

AgentEnds(a) ==
  /\ agent[a] = "running"
  /\ agent' \in {[agent EXCEPT ![a] = "exited"], [agent EXCEPT ![a] = "crashed"]}
  /\ UNCHANGED <<environ, own, phase, env, driver, code, proxy, status, steps, answer>>

\* finish_run: always "ok" for an import, the session's verdict otherwise.
Stop(i) ==
  /\ driver[i] = "recording"
  /\ agent[i] \in {"exited", "crashed"}
  /\ driver' = [driver EXCEPT ![i] = "stopping"]
  /\ \E verdict \in {"ok"} \cup (IF i \in Hosted THEN {"error"} ELSE {}) :
       status' = [status EXCEPT ![i] = verdict]
  /\ UNCHANGED <<environ, own, phase, env, code, proxy, agent, steps, answer>>

Failed(i) == IF i \in Hosted THEN agent[i] = "crashed" ELSE steps[i] = <<>>

\* The run is read back, the proxy is shut down, and the process exits.
Exit(i) ==
  /\ driver[i] = "stopping"
  /\ driver' = [driver EXCEPT ![i] = "exited"]
  /\ code' = [code EXCEPT ![i] = IF Failed(i) THEN 1 ELSE 0]
  /\ proxy' = [proxy EXCEPT ![i] = "none"]
  /\ UNCHANGED <<environ, own, phase, env, agent, status, steps, answer>>

DriverStep(i) == Begin(i) \/ Bind(i) \/ Call(i) \/ AgentEnds(i) \/ Stop(i) \/ Exit(i)

ImportNext ==
  /\ \E i \in Requests : Ask(i) \/ RequestStep(i) \/ DriverStep(i)
  /\ UNCHANGED setting

ImportSpec == ImportInit /\ [][ImportNext]_importVars

\* The server's threads get their turn, and what they call without a time limit,
\* git clone and docker build, ends.  Nothing is asked of the agents.
ImportFairSpec == ImportSpec /\ \A i \in Requests : WF_importVars(RequestStep(i) /\ UNCHANGED setting)

-----------------------------------------------------------------------------
\* Properties

ImportTypeOK ==
  /\ setting \in Settings
  /\ environ \in [Names -> Imports \cup {NoValue}]
  /\ own \in [Requests -> SUBSET Names]
  /\ phase \in [Requests -> {"idle", "resolve", "export", "launch", "wait", "done"}]
  /\ env \in [Requests -> [Names -> Requests \cup {NoValue}]]
  /\ driver \in [Requests -> {"none", "starting", "recording", "stopping", "exited", "killed"}]
  /\ code \in [Requests -> {NoValue, 0, 1}]
  /\ proxy \in [Requests -> {"none", "binding", "up", "dead"}]
  /\ agent \in [Requests -> {"none", "running", "exited", "crashed"}]
  /\ status \in [Requests -> {NoValue, "open", "ok", "error"}]
  /\ steps \in [Requests -> Seq(Requests)]
  /\ answer \in [Requests -> {NoValue, "ok", "error", "timeout"}]

\* What a client has been told is true and final.  An import that is answered "ok"
\* has recorded something: the recorder's rule for its exit code and the server's
\* for its answer make that up between them (driver.py:156-168, app.py:1361;
\* README.md:96, "rather than producing a silent empty trace"), whatever became of
\* the recorder meanwhile.  And nothing is recorded any further, where the server
\* kills the recorder it gives up (subprocess.run's timeout, app.py:472): a
\* container outlives its docker client.
AnsweredIsFinal ==
  /\ [](\A i \in Imports : answer[i] = "ok" => status[i] = "ok" /\ steps[i] # <<>>)
  /\ [][\A i \in Requests : ~Docker /\ phase[i] = "done" =>
          steps'[i] = steps[i] /\ status'[i] = status[i]]_importVars

\* Every request is answered, though an agent may hang (app.py:399-402, 470-473).
Answered == \A i \in Requests : (phase[i] # "idle") ~> (phase[i] = "done")

\* A call of agent j that goes into the run of i comes by a process of the host:
\* either j was given up and has lost its recorder, or the recorders of the two
\* requests run at the same time.
CallExplained(i, j) ==
  steps'[i] = Append(steps[i], j) =>
    /\ ~Docker
    /\ answer[j] = "timeout" \/ (phase[j] = "wait" /\ ~setting.serial)

\* A value of request j that the agent of i is given was exported before: either i
\* sets the variable too, and was overtaken by j, or it does not, and its recorder
\* is no container and has the whole environment of the server.
ValueExplained(i, j, n) ==
  env[i][n] # j /\ env'[i][n] = j =>
    /\ n \in own[j]
    /\ phase[j] \notin {"idle", "resolve", "export"}
    /\ IF n \in own[i] THEN ~setting.serial ELSE ~Docker \/ i \in Hosted

\* There is no other way for an import to reach into another's run, whatever was
\* given up, killed or asked for meanwhile (driver.py:28-75, app.py:437-449 and 472).
StrangersExplained ==
  [][\A i, j \in Requests : i # j =>
       CallExplained(i, j) /\ \A n \in Names : ValueExplained(i, j, n)]_importVars

\* Contradicted: a run consists of calls of its own agent (README.md:72, "runs it
\* with the recording proxy and CA trust wired in automatically, and captures the run").
\* Without Docker all recorders listen on the same port.
OwnSteps == \A i \in Requests : ToSet(steps[i]) \subseteq {i}

\* Contradicted: an imported agent gets the variables of its request and no other's
\* (README.md:84, "Keys are passed to the agent for that run only and are never
\* stored").  The server's own environment keeps what every import has set.
OwnEnvironment ==
  \A i \in Imports : agent[i] # "none" =>
    env[i] = [n \in Names |-> IF n \in own[i] THEN i ELSE NoValue]

\* Contradicted: an agent that failed is not answered "ok" (README.md:96, "If an agent fails
\* (missing key, crash, or no calls), the error is surfaced").
CrashSurfaced == \A i \in Requests : agent[i] = "crashed" => answer[i] # "ok"

=============================================================================
