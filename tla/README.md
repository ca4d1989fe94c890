# Cassette in TLA+

Cassette records the model and tool calls of an AI agent, replays a recorded run
without touching a live endpoint, forks runs, and explains failures. This
directory holds a TLA+ model of its Python code: modules that follow the code
function by function, TLC configurations that check them on small instances, and
proofs, checked by TLAPS, of what matters most for every value of the constants.

Paths below are relative to the repository (`src/`). `PROJECT.json` maps each
definition to the lines it models.

    cd tla
    tlc -config replay.cfg MCReplaySession     # any run of the table below
    tlapm ReplayerProofs.tla                            # any *Proofs module

## 1. Inventory

| Component | State | Operations | Talks to |
|---|---|---|---|
| **Trace store** `trace_store/store.py` | SQLite tables `runs` and `steps` in one WAL file; per object one connection, with an implicit transaction | `start_run`, `append_step`, `finish_run`, `delete_run`, `get_run`, `list_runs`, `get_step` | opened by the API server, each recorder process, each replay |
| **Blob store** `trace_store/blob_store.py` | a directory of files named by the SHA-256 of their content | `store_blob`, `fetch_blob` | every component that stores or reads a payload |
| **Failure store** `trace_store/failure_library.py` | table `failure_library` in the same database file, second connection | `write_entry`, `get_all`, `query` | `api/seed.py`, `_maybe_learn_failure` |
| **Recording session** `recorder/session.py`, `sdk_hooks.py` | step counter, armed batch, fan-in parents, error flag; the current session is a context variable | `record_llm`, `record_tool`, `arm_parallel_group`, `consume_fanin_parents`, `__exit__` | appends to the trace store; shares its counter with the proxy |
| **Proxy** `recorder/http_proxy.py`, `capture.py` | a mitmproxy master on a thread with a loop of its own | capture of responses, replay of requests | trace store (record), `Replayer` (replay) |
| **Replayer** `replay_engine/replay.py` | cursor, three indexes of queues over the tape, five counters | `get_next_response`, `response_for`, `get_response_for_hash`, `finish` | hooks, replay proxy, replay adapter |
| **Session replay** `recorder/record_session.py`, `recorder/replay.py` | two `Replayer`s over one tape, the agent's threads, the report | `replay_run`, `demo` | Replayer, hooks, proxy |
| **Divergence** `replay_engine/divergence.py` | none of its own | `fork`, `compare` | trace store |
| **Agent recording** `recorder/run_agent.py`, `run_hosted.py` | attributes of the agent's module, one variable of `os.environ` | `record`, `record_over` | trace store, hooks |
| **Import** `recorder/import_agent/`, `recorder/agent_shim/` | a clone, a container or a child process, the proxy on port 8899 | `record_imported` and the command line the server starts | API server (parent process), agent (child) |
| **Blame graph** `ai_agents/root_cause.py` | local: stacks, visited sets, scores | `infer_failed_step`, `causal_ancestors`, `analyze` | a `ReplayEngine` |
| **Counterfactual repair** `ai_agents/counterfactual.py` | local: the variants and their outcomes | `repair` | a `ReplayEngine`, which forks |
| **Replay adapter** `ai_agents/replay_adapter.py` | none | `replay`, `replay_with_injection` | Divergence, Replayer |
| **API server** `api/app.py`, `api/seed.py` | the two connections, `os.environ`, a pool of request threads | about 25 endpoints | all of the above |
| **Recall** `ai_agents/failure_library.py` | none | `relevant_failures`, behind `GET /runs/{id}/memory` and `GET /library/search` | failure store, a judge (a language model, or the overlap of words) |
| **Studies** `ai_agents/demo_reliability.py`, `eval/harness.py` | a file each, `eval/reliability.json` and `eval/results.json` | two command lines that ask a model many times and rewrite their file | the evaluation page reads both files |
| Snapshot, MCP proxy, debug agent, example agents, UI | see section 8 | | |

### How they interact

The API server is one process with a pool of threads: FastAPI runs each `def`
endpoint in a thread, all of them on the same two SQLite connections. It starts
recorders as child processes, which open the same database file. A recorder
starts the agent: in its own process (hooks), or as a child or a container behind
the proxy. A replay puts the same hooks and the same proxy between the agent and a
tape. Everything a later component knows of an earlier one is what is in the two
tables and the blob directory.

### What is hard in it

* Three lookup paths over one tape, which share steps but not queues, and a
  report made of counters that each path advances differently.
* Numbering, grouping and parenthood of steps recorded by several threads and a
  proxy, some of which are lost.
* Several connections on one SQLite file, each with implicit transactions that
  no method ever rolls back.
* Operations made of several transactions (`delete_run` then `start_run`, fork,
  query then insert) next to recorders that replace the runs they work on.
* Process-wide state (module attributes, `os.environ`, a fixed port) used by
  concurrent requests.
* Servers that start on a database and a blob directory in any state that killed
  ones have left, possibly two at once.
* A report of everything (`GET /eval`) made of many reads while recorders and
  studies write what it reads.
* Child processes and containers that outlive the process that started them.
* Traces that users upload: nothing makes their parents precede their children.

`PROJECT.json` lists each hazard at its line with the properties that guard it.

### What makes each component correct

* Replayer: equal requests are answered in recorded order, nothing twice, nothing
  fabricated while the tape has it; *complete* means all of it was served.
* Recording: one sequence of numbers; parents precede; a batch shares one group.
* Replay: no live call, no side effect executed, an honest report.
* Store: steps belong to runs and are only added; readers see what was committed.
* Fork: one state of the parent up to the edit, and the edit.
* Blame: the blamed step is the first whose repair resolves the failure, among
  those the failure depends on.
* Memory: a failure is learned once, and each known pattern is stored once.
* Import: each request is answered, with what is true and stays true; one import reaches
  into the run of another by a shared port of the host only, if at all.
* Start: a server comes up whatever was left behind, and has the demo as a whole.
* Recall: the most similar failures of those read, and a warning exactly when the score of
  one, as it is shown (rounded), reaches the threshold.
* Evaluation: a rate counts what it says, of a study that was finished; a run is
  reported deterministic exactly when it can be replayed.
* Repair: a winner takes the failure away; nothing is left behind that is not reported.

## 2. Modules

A component's module has its state as VARIABLES and one action per operation; the
`MC` module beside it gives constants their values for TLC; the `Proofs` module
holds theorems.

| Component | Modules |
|---|---|
| Replayer, and agents that repeat a run | `Replayer`, `RerunAgent`; `MCRerunAgent`; `ReplayerProofs` |
| Recording session and capture proxy | `RecordingSession`; `MCRecordingSession`; `RecordingSessionProofs` |
| Replay of a session | `SafeReplay` (abstract), `ReplaySession`; `MCReplaySession`; `ReplaySessionProofs` |
| Trace store | `TraceStore`; `TraceStoreProofs` |
| Divergence and recorders on the store | `Divergence` (extends `TraceStore`); `MCDivergence`; `TraceStoreProofs` |
| record_over in the server | `RecordOver`; `MCRecordOver`; `ServerProofs` |
| Blame graph | `Blame` (abstract), `BlameGraph`; `MCBlameGraph`; `BlameGraphProofs` |
| Failure memory: learning and recall | `FailureMemory`, `Recall`; `MCFailureMemory`; `ServerProofs` |
| Imports and hosted runs | `ImportRuns`; `MCImportRuns`; `ServerProofs` |
| Blob store, and the start of the server | `BlobStore`, `Startup`; `MCStartup`; `StartupProofs` |
| Counterfactual repair and the replay adapter | `Repair`; `MCRepair`; `RepairProofs` |
| Reliability study, harness, evaluation page | `Studies`, `Evaluation`; `MCEvaluation`; `TraceStoreProofs` |
| The threads of the server, a parameter of `FailureMemory` and `RecordOver` | `ServerPool` |

What composes what: `RerunAgent` extends `Replayer` with an agent that repeats its
recorded requests. `ReplaySession` has two copies of the part of a Replayer that
sessions use, one behind the hooks and one behind the proxy. `Divergence` extends
`TraceStore`: each of its steps is one statement of a connection, so that forks
and recorders interleave where the code commits. `Startup` composes the same
`TraceStore` with an instance of `BlobStore`, and `Evaluation` composes `Divergence`
with `Studies`. `Recall` extends `FailureMemory`: it searches what that has stored.
`ServerPool` only declares the threads that serve requests. `SafeReplay` and `Blame` are
abstract: what a replay promises, and what it means to be the cause of a failure.

## 3. Correspondence with the code

Several modules have a variable that is chosen in `Init` and never changes
(`protocol`, `mode`, `agent`, `setting`, `working`): the situation the run is in, from a set
that the configuration gives. One run of TLC then covers all of them, and a
property that the code keeps in some situations only says in which.

**Replayer.** `hashQ`, `identQ` and `groupQ` are the positions of the tape still
queued in the three indexes that `__init__` builds; the queue of a request is the
part of the set with its key, in tape order. `cursor` and the counters follow the
code. Each lookup path (`get_response_for_hash`, `response_for`,
`get_next_response`) is one atomic action, as a call of it does not yield; racing threads are the
business of `ReplaySession`. A payload is `json`, `text` (does not parse) or
`missing` (the blob is gone), since these are what the paths tell apart. `given`,
which step was handed out through which path, is history for the properties.
`RerunAgent` is an agent that repeats its recorded requests, in order or not, by
one of the three paths, or one that makes any calls through any of them (`protocol = "any"`,
`Roam`).

**RecordingSession.** One counter, one armed batch, one set of fan-in parents, as
in `RecordingSession.__init__`. A branch of the agent (a context) makes a model
call, which arms a batch, then its tool calls, concurrently: a tool call takes its
number, joins the batch, and is appended, in three steps, and so is a model call
in four. An append may fail (`lost`), and the code prints and goes on. The proxy
takes numbers from the same counter. The session's `with` block belongs to the code that
started the branches: `ExitRead` (the trace is read and the verdict derived) and `ExitFinish`
(the status is written) may come at any time, whatever is still being recorded, and
recording goes on after them. `heard` remembers the tool steps whose results a branch had
gathered before the read. Assumed of the agent: it joins its tool calls
before its next model call, and its threads inherit the context.

**SafeReplay, ReplaySession.** `SafeReplay` is the promise: each recorded step is
delivered at most once, the count of what was served is right, and a replay that can be
trusted never goes live. `ReplaySession` has the two Replayers of `replay_run`,
reduced to the identity index, which is the one both use: `proxyQ` behind
`ReplayAddon`, `sdkQ` behind the hooks. In the hooks the test for a queue and the pop are
separate steps, so that threads race; the pop and the unlocked increments of the counters
(`recorder/session.py:198-200`) are one step, `SdkServe`: the counters are read after all threads
have ended, and CPython from 3.10 on, which `pyproject.toml` asks for, switches threads at calls
and backward jumps only. An increment lost on another interpreter is not modelled. The
proxy handles one request at a time. A
miss in the hooks raises `ReplayDivergence`; a miss in the proxy makes the addon
raise `KeyError`, after which mitmproxy sends the request upstream (`Forward`).
`agent` says whether the agent only repeats recorded calls, whether some of them
pass the proxy, and whether it starts plain threads, which have no session.

**TraceStore.** A connection has a transaction (`none`, `begun`, `snapshot`, `lock`),
the snapshot it is pinned to, and with `lock` the write lock of the file. Each
method is its statements; one that violates a constraint leaves the implicit
transaction open, since no method rolls back.

**Divergence.** Recorders (`run_agent`: delete, start, append, finish; they may end
at any step) and forks (`Divergence.fork`: read the parent, start the fork, append
prefix, edited step and siblings, then `compare` them) act through the connections
of `TraceStore`, a statement at a time. Steps carry the `take` they come from, so that two
recordings of one run id can be told apart.

**RecordOver.** `override` is `os.environ[override_env]`, `stage` how far a request is, `depth` the number of hooks
around each function of the agent's module. A request saves and sets the variable,
replaces the old run, which may be refused (`Refuse`), wraps the functions one by one, runs the
agent call by call, and restores both in `finally`; the agent may raise at any call. Each hook
around a called function takes a number (`Numbers`) and appends a step, which may fail: the
session prints the error and goes on (`lost`).

**Blame, BlameGraph.** The stacks of `causal_ancestors` and `_causal_descendants`, of which
one at a time is in use, are the set `pending`, since their order does not reach any result.
Each turn of either loop is a step, with its test of what was seen before: `Visit` backward from
the failed step, then for each candidate (`current`) `Replay`, `Descend` forward from it
(`reached`), and `Weigh`. `score` is in thousandths. The engine is `ScriptedReplay`, which the endpoint
uses: `fixes` are the steps whose perturbation resolves the failure. `Blame` says
what a verdict means, with no walk: a cause is in every set closed under parents.

**FailureMemory.** The table as a sequence. A request forks, judges the fork by the
statuses of its steps (`Kept`: those before the edited one and its siblings),
queries, and inserts, in three steps. A start of the server reads the patterns, then
inserts the missing ones one at a time; it may be killed, and upgraded to a release
with more patterns, at any of them.

**ImportRuns.** A request goes from staging over launching to its answer; recorder
and agent are processes of their own, or containers. The timeout kills the recorder
(`subprocess.run` kills the child it started) and nothing else. A second proxy on a
taken port does not serve, and `start()` does not notice. `environ` is `os.environ`
of the server; each value in it is the request that set it.

**BlobStore.** A file is absent, truncated or whole; `store_blob` is test, open,
write. `fetch_blob` reads the file as text: a carriage return comes back as a
newline and the digest does not match.

**Startup.** What `api/app.py` does when it is imported, per server: the bundled blobs
that are missing are copied (test, create, write: the steps of `store_blob`), the runs
are listed, and each run of the demo that is missing is inserted by `start_run`,
`append_step` and `finish_run`, each a transaction of its own. A server may be killed
between any two statements (`Kill`); a `start_run` that clashes with another
server's ends the start (`failed`, `Exit`). `interrupted` remembers which runs were cut
short. Recorders store blobs in the same directory. Nobody deletes the demo.

**Recall.** The last `RecallLimit` rows, a verdict of the judge for each (any of
`Verdicts`, or the one that stands for an exception), the filter, the stable sort
and the cut to `k`. Scores are in ten-thousandths; the server rounds them to thousandths
(`Rounded`) after they are ranked and before it compares one with its threshold (`Warns`). The answer is kept in `recalled` until the next step of anyone.

**Studies.** The two command lines. What the model's service answers to each attempt is
chosen in `Init` (`answers`); `CallWithRetry`, `Outcome`, `Check` and the sums are
functions of it, as are precision and recall, so that a study is three steps: it has
asked everything and opens its file, it writes it, or it is killed. Opening truncates.

**Evaluation.** `GET /eval` and `GET /metrics` as a thread of the server on the connection
that forks use too. It lists, opens the two files (`reliability.json` twice), then for each
run reads it for the count, in `StoreReplayEngine.replay` and in `Replayer`: each read is the
two SELECTs of `get_run`. Recorders, a fork and the studies go on between any two. A run is
deterministic when the tape of the last read has, in order, the types of the one before,
with all payloads.

**Repair.** One request for repairs, from reading the run to the winner. The endpoint,
the baseline (twice: `get_run` of the adapter and of its Replayer) and every fork read
the run anew, and between two readings other processes may replace it (`Rerecord`,
`setting.shared`). What a reader can then find is in `Readings`: a recording, part of one,
nothing. A fork is one step here, since `Divergence` has its parts. A step of a
run has a status, a group, parents, a payload `out`, and `gone` when its blob is lost; a
variant's text is the recorded payload or `"rewritten"`. With a model (`setting.llm`)
its judgement is free and it may fail (`ModelFails`); without one the templates and the
comparison of statuses are all there is. Scores are in thousandths.

## 4. Runs

| Run | Module | Shows |
|---|---|---|
| `replayer` | MCRerunAgent | agents that mix the lookup paths in any way: `RecordedOrder` (equal requests in recorded order, nothing fabricated while the tape has it), `ReportIsTrue` (a caller that takes no step twice, nor any by identity, is told exactly whether its whole tape was replayed); agents that repeat their requests: `SameTrajectory` (in order, each gets the step recorded for it), `NeverMisses` (also out of order), `FailuresReproduced` |
| `recording` | MCRecordingSession | one branch or two, hooks and proxy, lost steps: `OneSequence`; one branch, or any behind the proxy: `ParentsPrecede`; one branch: `BatchGrouped`, `FanInComplete`; whatever still records when the session ends: `FailureHeardIsReported` (a failed call whose result a branch had gathered makes the run an error, unless its step was lost) |
| `replay` | MCReplaySession | faithful and other agents, damaged tapes, racing threads: the session implements `SafeReplay` (`SafeReplayed`), `FaithfulReplayOk`, `OkMeansComplete` |
| `fork` | MCDivergence | two forks and two recorders on one file: `Consistent`, `AppendOnly`, `CleanUntilRejected`, `ForkFaithful` (one state of the parent, and the edit); without contention for a run or a step id it also has `compare` show the edit and nothing else, and `ForkNeverFails` and `RecordedWhole` hold |
| `record_over_serial` | MCRecordOver | requests one at a time, agents that raise: `RestoredWhenIdle`, `DecisionHonoured` (a run that is answered has each call of the script under its number, once unless its step was lost, under the decision that was asked for) |
| `blame` | MCBlameGraph | any trace, circular ones included: `Returns` (liveness, both walks), `WalksMirror` (the walk forward from a step finds exactly what the step is a cause of, the failure among it), `UpstreamWeighsMore`, and the implementation of `Blame` (`BlamesTheCause`); on recorded ones `BlamePrecedesFailure` |
| `memory` | MCFailureMemory | restarts and upgrades at any point, requests one at a time: `SeededOnce`, `LearnedOncePerStep`; any verdicts of the judge: `BestRecalled` |
| `imports` | MCImportRuns | with and without Docker, concurrent or not: `Answered` (liveness); `AnsweredIsFinal` ("ok" means that something was recorded, and without Docker what was answered does not change); `StrangersExplained` (an agent that records into the run of another request has lost its own recorder, or has it next to the other on one host; a variable of another request was exported by it before, and arrives because the two raced or because the recorder inherits the whole environment) |
| `startup` | MCStartup | two servers start, a recorder stores the blob of a bundled one, all may be killed: `Resolvable` (of contents that were not cut short and have no carriage return), `SeededWhole`, `ComesUp` (liveness, and no failure of a start that was alone) |
| `repair` | MCRepair | runs that fail anywhere, forks, lost blobs, with a hint, with a model, or replaced meanwhile: `WinnerRepairs` (a winner has taken every failure out of the trajectory it was judged by), `LeavesWhatItReports` (offline, one fork per reported variant, none when refused), `OfflineTies` (offline all variants get one verdict) |
| `evaluation` | MCEvaluation | the page next to recorders, a fork and studies that are told anything: `HeadlineTrue` (the rates count what they claim, of a study that ended), `RunsCounted` (deterministic exactly when the payloads are there) |
| `replay_miss_forwarded` | MCReplaySession | **violated**: `NeverForwards` |

### Where code and documentation part

Each line is a statement of the repository about itself, and the way to see TLC
contradict it. The last run above checks one of these; the others are definitions of
the modules that no run lists, or conditions that a listed property has for this
reason. "Without" means: strike the condition from the property.

| Code | What happens, and what is said of it | Shown by |
|---|---|---|
| `replay_engine/replay.py:300` | `response_for` counts nothing: a complete replay by identity is reported `incomplete`; lines 408-409 say it "report[s] ok correctly" | `replayer` with `CompleteReport` without `protocol # "ident"` |
| `replay_engine/replay.py:378` | a run recorded live by `record_over` is synthesized past its fork point although the tape has every step; lines 3-4: "served from the tape" | `replayer` with `Runs <- MCRecordOver`, `SameTrajectory` without `\A p \in Positions : ~Downstream(p)` |
| `recorder/session.py:126` | two branches share the armed batch: a call joins the other branch's group, and a model step gets siblings of the other branch as parents, later-numbered ones among them; `docs/trace_schema.json:114`, "dispatched simultaneously from a single LLM response", `README.md:156`, "exactly which steps fed each decision" | `recording`, `BatchGrouped` and `ParentsPrecede` without `BatchOfOneBranch` |
| `recorder/session.py:82` | a thread that records while the `with` block ends appends its failed step after the trace was read; line 79, "Run status reflects the recorded steps: error if any step errored" | `recording` with `StatusReflectsSteps` |
| `recorder/http_proxy.py:83` | model calls seen by the proxy never arm a batch; `docs/trace_schema.json:114`, "the moment it observes multiple tool calls in one LLM message" | `recording`, `BatchGrouped` without `~mode.proxied` |
| `recorder/http_proxy.py:122` | a request that is not on the tape raises in the addon and goes to the live endpoint; lines 2-3, "never forwards, so a replayed run hits zero live endpoints" | `replay_miss_forwarded` |
| `recorder/replay.py:103` | and the replay exits with status 0, since `live_executed` is constant and the miss is no divergence | `replay_miss_forwarded` with `ReportHonest` |
| `recorder/sdk_hooks.py:69` | a tool called from a plain thread runs for real during a replay; lines 4-6, "NEVER run in replay (fail closed)" | `replay` with `NeverExecutes` |
| `trace_store/store.py:147` | no method rolls back: after a rejected insert a connection reads a snapshot of the past, and `get_run` misses a run that exists (lines 202-203) | `fork` with `ReadsCommitted` |
| `recorder/run_agent.py:50` | two recordings of one id: delete and start are two transactions, the second `start_run` violates the UNIQUE constraint; line 49, "no UNIQUE clash" | `fork` with `NeverRejected` |
| `trace_store/store.py:206` | `get_run` is two SELECTs: the header of one recording with the steps of another; line 194, "the full trace document" | `fork` with the action property `OneTakeRead` |
| `recorder/run_agent.py:58` | two requests: the module keeps a hook of a request that has ended; line 57, "keep originals to restore afterwards" | `record_over_serial`, with `OneAtATime = FALSE` and `MaxRequests = 2`: `RestoredWhenIdle` |
| `recorder/run_agent.py:95` | two requests: a run is recorded with the other's decision value; lines 77-78, "one decision value overridden" | the same, `DecisionHonoured` |
| `api/app.py:1093` | query and write are not one transaction: two requests learn the same step; lines 1084-1085, "not learned twice" | `memory` with `OneAtATime = FALSE` |
| `api/app.py:1091` | a fork before the failure is judged by the steps it kept, so that even one that changes nothing counts as a fix, and one that ends before the failure always does; line 1080, "actually resolves a failure" | `memory` with `FixesChangeSomething` |
| `api/seed.py:148` | a failed read at startup stores all patterns again; line 143, "Additive + idempotent" | `memory` with `ReadsFail = TRUE` |
| `recorder/import_agent/driver.py:55` | two imports without Docker use one port: one agent is recorded into the run of the other; `README.md:72` | `imports` with `OwnSteps` |
| `api/app.py:470` | an agent that outlives its timed-out recorder is recorded into the next import; `README.md:72` | the same, also with `serial` in all `Settings` |
| `api/app.py:449` | variables of an import stay in the server's environment and reach later agents; `README.md:84`, "for that run only" | `imports` with `OwnEnvironment` |
| `recorder/import_agent/driver.py:91` | an agent that crashes after one call is reported `ok`; `README.md:96`, "the error is surfaced" | `imports` with `CrashSurfaced` |
| `trace_store/blob_store.py:29` | a reference is returned while another writer still writes the file; line 26 | `startup`, `Resolvable` without `Quiet` |
| `trace_store/blob_store.py:29` | a truncated file counts as stored and is never written again | `startup`, `Resolvable` without `torn` |
| `trace_store/blob_store.py:40` | a content with a carriage return can never be fetched | `startup` with `Contents <- TwoContents` and `CarriageReturns <- InPage`, `Resolvable` without `CarriageReturns` |
| `api/seed.py:122` | a run whose insertion was cut short is skipped by every later start and keeps the steps it has; line 118, "if they are not already present" | `startup` with `DemoComplete` |
| `api/app.py:773` | the score is rounded before it is compared, so that 0.4496 warns; line 632, "A match must clear this relevance score" | `memory` with `WarnedScoresClear` |
| `api/app.py:646` | only the newest 200 entries are judged; lines 786-787, "the AI ranks every stored pattern" | `memory` with `EveryPatternRanked` |
| `api/app.py:958` | a run that is replaced while the page reads it counts as non-deterministic though both recordings can be replayed; "a run that cannot be cleanly replayed is non-deterministic" | `evaluation` with `OnlyLostFail` |
| `ai_agents/root_cause.py:415` | output that does not parse counts as correct in the checks of the verdict and of the repair, which fall back on the blame graph and on templates; `ai_agents/demo_reliability.py:9-11` | `evaluation` with `BadOutputIncorrect` |
| `ai_agents/replay_adapter.py:72` | a winner for a run whose present recording never failed, when it is replaced between two readings; `api/app.py:1240`, "A run that never failed honestly yields no resolved variant" | `repair` with `NoneForSuccess` |
| `ai_agents/replay_adapter.py:72` | the verdict on a variant is that of the recorded statuses before the edit: offline its text plays no part, and a failing step keeps its status when it is edited itself, so that no rewriting of it can win; `api/app.py:1239`, "rank variants by their ACTUAL replay outcome" | `repair`, `OfflineTies` and `WinnerRepairs` as they stand |
| `ai_agents/replay_adapter.py:118` | for a run that is a fork itself, a repair may be refused after its fork was made | `repair`, `LeavesWhatItReports` without `doc.forkedAt = None` |

## 5. Bounds, and why they are enough

* **Tapes** (`Runs`, `Tapes`): all tapes of two or three steps over the kinds of step
  that the code treats differently, and longer ones with repeats, groups and forks. A
  queue of two with a third step elsewhere already shows order, sharing between
  indexes and exhaustion. `MaxCalls` exceeds the length of the tape, so that misses
  come after the tape is used up.
* **Modes, MaxLost** (RecordingSession): for one branch six steps, enough for a batch,
  a model call that collects it and a second batch, for two branches three;
  one lost step at any place. The state of a batch is cleared by each model call.
* **Connections, runs** (Divergence): the server and two recorders, two runs and two
  forks; each recording has a step and a batch of two.
* **MaxRequests** (RecordOver): three requests: two in a row and one after an agent
  that raised; any of the appends of a run may fail.
* **Traces** (BlameGraph): all 512 parent relations of three steps, 64 with a parent that does
  not exist, and the 64 recorded relations of four: enough for cycles, diamonds, chains.
* **Seeds, Limit** (FailureMemory): two patterns, of which a release may have any
  prefix; the server reads back nine entries where the code reads 500, and the runs
  stay below that.
* **Imports, Hosted, MaxSteps** (ImportRuns): two imports, or one and a hosted run,
  two recorded calls each.
* **Servers, Recorders, SeedRuns** (Startup): two servers and a recorder as the three
  writers of one content: one that writes, one that meets the unfinished file, one that
  comes later; two runs, of one and of two steps, so that a start can be cut
  short in the first, between them, and after one of two steps.
* **RecallLimit, RunMatches, SearchMatches** (Recall): three of the rows are read where the code
  reads 200, two or three are shown: each limit cuts something off. Four
  verdicts and a failed judge tell apart the filter, the order, and on which side of the threshold
  of 450 thousandths a score is before and after it is rounded (4494 and 4496 ten-thousandths).
* **Workloads** (Evaluation): two recorders with three steps each, one payload lost, in one
  run or in two; short runs with a fork; one recorder with two studies; studies alone, one
  check of which is told anything in up to two `Attempts`, once (`Repeats`): the checks and
  repeats are counted alike.
* **Settings, Hints, Asked, MaxVariants** (Repair): every placement of failures in a run
  with a batch, forks before and after the failure, lost blobs; for runs that are
  replaced, two recordings and a fork with all their beginnings; two variants, since
  ranking, margin and the state a fork leaves behind concern pairs.

`CHECK_DEADLOCK FALSE` is set in every run: calls, requests or entries are bounded, or the
program ends, and the model stops there as the program does. That nothing stops
earlier is what `Returns` and `Answered` are for; in the store, `CleanUntilRejected`
says that no connection is ever kept from writing.

Symmetry is used in `recording` (tool calls of a response) and `fork` (forks with
their run ids), which have no liveness property.

Each module has a type invariant, and all of them are proved (section 7).

## 6. Fairness

* `Startup!FairSpec`: weak fairness of each server's steps: a process runs until it is
  killed, which it may be at any time. No statement waits for ever, since the lock of one that
  failed goes with its process.
* `BlameGraph!FairSpec`: weak fairness of the whole next-state relation. The
  analysis is a sequential loop in one thread: if it can take a step, it does.
* `ImportRuns!ImportFairSpec`: weak fairness of the steps of each request. The server's
  thread gets its turn, the recorder it waits for is bounded by the timeout of
  `subprocess.run` (`api/app.py:470`), and what has no time limit, `git clone` and
  `docker build`, is assumed to end. Nothing is asked of agents, which may hang forever.

All other properties are safety properties, and their specifications have no fairness.

## 7. Proofs

All theorems hold for every value of the constants under the named assumptions of
the modules; TLC evaluates these in the runs.

**ReplayerProofs.** `TypeCorrect`, then the invariant that ties each queue to the
history: it holds exactly those positions of its kind that were not served through it.
From it follow `AnswersInOrder` (`RecordedOrder`), `CountsCorrect`
(`CountsMatchTape`: the counters are cardinalities of parts of the history), and
`ReportCorrect` (`ReportIsTrue`: when no step is counted twice, the counter reaches the
length of the tape exactly when nothing is left).

`AgentIsCaller`: an agent that repeats a run is one of these callers. For every protocol,
`DeterministicReplay` (`SameTrajectory`), `OrderIndependentReplay` (`NeverMisses`), `SameFailures`
(`FailuresReproduced`) and `CompleteReplay` (`CompleteReport`). By hash and by identity the
invariant is that, for each key, as many steps have left the queue as were asked for, and in
recorded order those that are left are those still to ask for; by the cursor, that it stands where
the agent does. What a complete repetition has counted is then the tape itself, by a bijection
between positions and what was handed out.

**RecordingSessionProofs.** `IdsFormOneSequence`: the ids of stored steps, lost
steps and steps being built partition `1 .. counter`, for any number of branches.
`HeardFailuresAreReported` (`FailureHeardIsReported`): what a branch has gathered before the read was
stored or lost before it, and what is appended later has a number nobody has heard of, since each
number has one owner. `EdgesPointBack` (`ParentsPrecede`):
the batch names steps numbered before those that will be linked with it, as long as the batch
is of one branch. `BatchesGrouped` and `FanInIsComplete` share an invariant of that branch's
last turn (`TurnInv`): of a batch, at least as many places are left as calls have yet to join
(`remaining` also counts calls that raise, so that it may be more), hence none finds
the batch closed; the siblings are the recorded steps of the batch and those that have joined
and are about to be appended; and steps of later turns have larger numbers, so that they
change nothing about a turn that is over.

**ReplaySessionProofs.** `EffectsCorrect`, `OkCorrect`, and `ReplayIsSafe`, the
refinement of `SafeReplay` with any number of threads. That a trusted agent stays on
the tape has two cases: native calls never leave it, whatever the agent and the tape;
calls through the proxy do not when the agent only repeats its calls, since calls to
come and queued steps of an identity then balance, so that no queue it asks for is empty.
`FaithfulSucceeds` (`FaithfulReplayOk`) rests on the same balance for native calls, in which
threads that have found a queue and not popped yet count as calls to come: no such
thread loses its race, so that all that left a queue was delivered.

**TraceStoreProofs.** Of `TraceStore`: `StoreConsistent`, `NoLockWithoutRejection`,
`StepsAppendOnly`. The invariant covers every view: the committed tables and the pinned snapshots
are each consistent, and a lock or snapshot exists only after a rejection.

Of `Divergence`: `ClientsOfTheStore`, forks and recorders implement `TraceStore`, so that all of
that holds of them; `JobsTypeCorrect`; and `ForksFaithful`, `ForksNeverFail`, `RecordingsWhole`. The
steps of the new run and those a fork has still to copy make up, at any time, the prefix, the
batch and the edited step of what it read (`CopyInv`). Where recorders do not share runs
(`OrdInv`) each run holds what its recorder has counted and none is deleted later, so that what a
fork read is still there when it compares, and no insertion clashes. The order by step_id that `get_run` asks for
is defined by rank, and two ranks agree only for one step, since ids do not repeat in a run
(`Consistent`). `compare` then finds the edit.

Of `Evaluation`: `ClientsWithPage`, the page is one more client; `EvalTypeCorrect`; `PageCountsRuns`
(`RunsCounted`): a document that was read of a run that is not replaced is a prefix of what the
run has now, hence a lost payload in it stays lost and a run without any was replayed; and
`PageShowsResults` (`HeadlineTrue`): files hold what their last writer counted, in the order of
`written`, and the sums count what they claim. The retries of a call (`CallWithRetry`) are a recursive function of the
attempt; where it ends is found by the least attempt that is not transient (`WFMin`), which takes
no operator as a parameter.

**BlameGraphProofs.** `ImplementsBlame` and, on the way, `WalksAgree`,
`BlamePrecedes`, `BlameGrowsUpstream`. What a walk has seen lies in every set
closed under the walk's edges (soundness), and neighbours of what it has seen are
seen or pending (completeness); when nothing is pending it has computed the closure. That
holds of the walk backward and of each walk forward, and `WalksAgree` (`WalksMirror`) puts the two together.
No induction over the trace is needed, and cycles make no difference.

**ServerProofs.** Of `FailureMemory`: `LearnsOnce` under
`OneAtATime`, without which it does not hold. `SeedsOnce` (`SeededOnce`) for any concurrency,
if reads succeed and the library is no longer than `Limit`: a starting server knows exactly
those of the patterns still to come that are there, and those it has passed are there.

Of `Recall`: `RecallReadsOnly`, a search leaves the library to `FailureMemory`; `RecallsTheBest`
(`BestRecalled`) for any verdicts and limits: `Place` numbers the similar rows from 1 without a gap,
which is shown by counting the rows above each (`Above`); and since rounding keeps the order, the
first row reaches the threshold if any does.

Of `RecordOver`: `OverTypeCorrect`, and under `OneAtATime` `OverRestores` (`RestoredWhenIdle`) and
`OverHonours` (`DecisionHonoured`). At each stage of the one request the depth of the hooks is that of
the functions wrapped so far (`HookedTo`), the saved value is the first one, and the recording
is a beginning of the script under the decision, but for the lost steps. Two concurrent requests break both theorems (section 4).

Of `ImportRuns`: `ImportTypeCorrect`; `AnswersAreFinal` (`AnsweredIsFinal`): what each recorder has done
at each stage of its request (`RecorderInv`) gives the first half; for the second, without Docker
a request that is done has a recorder that is gone, whose proxy does not listen, and no
call comes by it. `StrangersAreExplained` (`StrangersExplained`): an agent runs only while its request
waits or after it was given up, and a proxy that is up belongs to a request that waits (`LiveInv`),
so that one at a time only an agent that was given up finds another's proxy; a value of the server's
environment was exported by the request it names (`Exported`); and when requests come one at a time the
variables at the launch are those the same request has just set (`OwnInv`).

**RepairProofs.** `TypeCorrect`; then one invariant per property. `WinnersRepair`: every
resolved variant was judged against a failing baseline and its fork (the one at the same position
of `forks`) has no failed step among those it keeps; outside a shared
store all readings are the first one. `NothingLeftBehind`: as long as nobody replaces the run, what
the baseline could replay every fork of it can, so that a request that has made a fork is not
refused. `TextsTie`: all variants are one record, and since equal ones
keep their order the ranking is increasing, hence the first stays first (`FirstStays`, by the pigeonhole principle).

**StartupProofs.** `StartSeeds` (`SeededWhole`): at most one server is adding a run, as
`start_run` lets one in and nobody deletes; the steps of a run are those its adder has
done, or all of them, or some of them when it was interrupted; and the blobs that a
server has passed in its copying are in the directory. `BlobsResolve` (`Resolvable`): while somebody
has a content open, its file is truncated or whole, and a file that is not whole although nobody
writes it was torn.
`LoneStartSucceeds` (`AloneSucceeds`, the safety half of `ComesUp`): a server next to which no other
starts knows of each run in the table, since it has found or added it, so that no insertion of
its clashes, whatever earlier starts have left. `StartTypeCorrect`, and `ServersUseTheStore`: the
start does nothing to the database but what `TraceStore` allows.

Assumptions that the theorems needed beyond those of the runs, each in its module with its reason:
ids of forks are new (`ForkIdAssumption`), the columns a step may have (`ColumnsAssumption`), markers
for absent values differ from all values (`NoneAssumption`, `NoValueAssumption`), the pairs of the harness
are finitely many (`RepliesAssumption`), only known processes work (`WorkloadsAssumption`), and a
function is in the table of instrumented ones once (`ScriptAssumption`).

Only model-checked: liveness (`Returns`, `Answered`, and that a start ends, in `ComesUp`), which is
beyond TLAPS. Every other property of the passing runs has a theorem. `NeverForwards` is violated,
and so are the definitions marked "Contradicted".

## 8. Not modelled

* Snapshot (`replay_engine/snapshot.py`): a fold over steps that only its tests use.
* MCP proxy, capture of bodies, redaction, prompts, the debug agent's
  parsing: data the properties do not tell apart.
* How a verdict of the semantic matcher or on the similarity of failures comes about: an
  embedding or a language model decides; what is done with it is modelled.
* The metrics of the harness over the scripted engine (`eval/harness.py:112-186`): constants of
  a fixed test set. `root_cause.analyze`, which they call, is in `BlameGraph`.
* Upload of an agent's files (`api/upload.py`): it ends before the import begins that
  `ImportRuns` starts with.
* Endpoints that only read and format; the UI; example agents; Docker files.
* The 0.4 s for which the proxy is left running (`recorder/record_session.py:88`): real time.

Two things that a reader of the models may want to know, though no text of the repository
speaks of them: `eval/harness.py` without a key replaces `results.json` by one
without precision and recall, where the reliability study would keep its file; and the rate on the
evaluation page and its breakdown come from two openings of one file, so that the
breakdown may be that of a later study (`HeadlineTrue` says: never of an earlier one).

## 9. Plan

1. The blob store and the failure library under one start of the server: `Startup` with
   `FailureMemory`, whose seeding is the next thing that start does.
2. Snapshot, checked against the steps it summarises, should anything come to use it.
3. A hosted run on the shared store: `ImportRuns` composed with `TraceStore`.
