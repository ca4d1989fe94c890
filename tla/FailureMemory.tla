--------------------------- MODULE FailureMemory ---------------------------
(***************************************************************************)
(* The failure library: filled with the known patterns when the API server *)
(* starts (api/seed.py), and then by the requests that fork or re-record a *)
(* failed run, when the outcome is not a failure any more                  *)
(* (_maybe_learn_failure).  The fork and its replay are those of modules   *)
(* Divergence and Replayer: what counts here is which of the recorded      *)
(* statuses they keep.  The runs are finished and do not change.           *)
(***************************************************************************)
EXTENDS ServerPool, Naturals, Sequences, FiniteSetsExt, SequencesExt

CONSTANTS
  Runs,       \* [failed, steps]: the run's status, and per step id [failed, group]
  Seeds,      \* the sequence of FAILURE_MEMORY, as [pattern, step]
  Limit,      \* how many entries the server reads back before it seeds
  ReadsFail   \* the database may be locked when the server starts

Edits == {"same", "other", "status"}

StepsAssumption(run) ==
  /\ DOMAIN run.steps \subseteq Nat
  /\ \A k \in DOMAIN run.steps : run.steps[k].failed \in BOOLEAN

ASSUME NoneAssumption == None \notin Edits \cup {"rerun"}
ASSUME RunsAssumption == \A run \in Runs : run.failed \in BOOLEAN /\ StepsAssumption(run)
ASSUME SeedsAssumption ==
  /\ Seeds \in Seq(ToSet(Seeds))
  /\ \A i \in DOMAIN Seeds : Seeds[i].pattern # None
  /\ \A i, j \in DOMAIN Seeds : Seeds[i].pattern = Seeds[j].pattern => i = j
ASSUME LimitAssumption == Limit \in Nat
ASSUME ReadsFailAssumption == ReadsFail \in BOOLEAN

VARIABLES
  library,  \* the rows of failure_library, by id
  version,  \* how many of Seeds the installed release has
  up,       \* the server has started
  known,    \* while it starts: the patterns it found, None before it looked
  next,     \* while it starts: the next of Seeds
  pc,       \* per thread: "idle", "query", "write"
  fix       \* per thread: the entry it may learn

vars == <<library, version, up, known, next, pc, fix>>

Init ==
  /\ library = <<>>
  /\ version \in 0 .. Len(Seeds)
  /\ up = FALSE
  /\ known = None
  /\ next = 1
  /\ pc = [t \in Threads |-> "idle"]
  /\ fix = [t \in Threads |-> None]

Entry(pattern, step, run, edit) == [pattern |-> pattern, step |-> step, run |-> run, edit |-> edit]

-----------------------------------------------------------------------------
\* seed_failure_library

Newest == {library[i].pattern : i \in {k \in DOMAIN library : k + Limit > Len(library)}}

\* A read that fails, on a database another process has locked, is taken for an
\* empty library.
ReadPatterns ==
  /\ ~up
  /\ known = None
  /\ known' \in IF ReadsFail THEN {Newest, {}} ELSE {Newest}
  /\ UNCHANGED <<library, version, up, next, pc, fix>>

\* Plausible bug: what is stored already is not looked at.
SeedNext_Always ==
  /\ ~up
  /\ known # None
  /\ next <= version
  /\ next' = next + 1
  /\ library' = Append(library, Entry(Seeds[next].pattern, Seeds[next].step, None, None))
  /\ UNCHANGED <<version, up, known, pc, fix>>

SeedNext ==
  /\ ~up
  /\ known # None
  /\ next <= version
  /\ next' = next + 1
  /\ library' = IF Seeds[next].pattern \in known THEN library
                ELSE Append(library, Entry(Seeds[next].pattern, Seeds[next].step, None, None))
  /\ UNCHANGED <<version, up, known, pc, fix>>

Started ==
  /\ ~up
  /\ known # None
  /\ next > version
  /\ up' = TRUE
  /\ UNCHANGED <<library, version, known, next, pc, fix>>

\* The server dies at any point; the one that follows may be a later release.
Restart ==
  /\ version' \in version .. Len(Seeds)
  /\ up' = FALSE
  /\ known' = None
  /\ next' = 1
  /\ pc' = [t \in Threads |-> "idle"]
  /\ fix' = [t \in Threads |-> None]
  /\ UNCHANGED library

-----------------------------------------------------------------------------
\* The steps of the fork at k, apart from k: those before it, and its siblings.
Kept(run, k) ==
  {q \in DOMAIN run.steps \ {k} :
     q < k \/ (run.steps[k].group # None /\ run.steps[q].group = run.steps[k].group)}

\* StoreReplayEngine.replay: a run ends well when no step it has is an error.
\* An edit of the step's status is one of its columns.
ForkOk(run, k, edit) ==
  /\ \A q \in Kept(run, k) : ~run.steps[q].failed
  /\ ~run.steps[k].failed \/ edit = "status"

Free(t) == up /\ pc[t] = "idle" /\ (OneAtATime => \A u \in Threads : pc[u] = "idle")

MayLearn(t, entry) ==
  /\ fix' = [fix EXCEPT ![t] = entry]
  /\ pc' = [pc EXCEPT ![t] = "query"]
  /\ UNCHANGED <<library, version, up, known, next>>

\* POST diverge; where nothing may be learned it leaves the library alone.
Diverge(t) ==
  /\ Free(t)
  /\ \E run \in Runs : \E k \in DOMAIN run.steps, edit \in Edits :
       /\ run.failed
       /\ ForkOk(run, k, edit)
       /\ MayLearn(t, Entry(None, k, run, edit))

\* POST record-over: the agent runs again, and ends well.
RecordOver(t) ==
  /\ Free(t)
  /\ \E run \in Runs : \E k \in DOMAIN run.steps :
       run.failed /\ MayLearn(t, Entry(None, k, run, "rerun"))

Done(t) == pc' = [pc EXCEPT ![t] = "idle"] /\ fix' = [fix EXCEPT ![t] = None]

Stored(step) == \E i \in DOMAIN library : library[i].step = step

\* Plausible bug: entries of other runs do not count.
Query_SameRun(t) ==
  /\ pc[t] = "query"
  /\ IF \E i \in DOMAIN library : library[i].step = fix[t].step /\ library[i].run = fix[t].run
       THEN Done(t)
       ELSE pc' = [pc EXCEPT ![t] = "write"] /\ UNCHANGED fix
  /\ UNCHANGED <<library, version, up, known, next>>

Query(t) ==
  /\ pc[t] = "query"
  /\ IF Stored(fix[t].step)
       THEN Done(t)
       ELSE pc' = [pc EXCEPT ![t] = "write"] /\ UNCHANGED fix
  /\ UNCHANGED <<library, version, up, known, next>>

\* The insert may fail, which is ignored.
Write(t) ==
  /\ pc[t] = "write"
  /\ library' \in {library, Append(library, fix[t])}
  /\ Done(t)
  /\ UNCHANGED <<version, up, known, next>>

Next ==
  \/ ReadPatterns \/ SeedNext \/ Started \/ Restart
  \/ \E t \in Threads : Diverge(t) \/ RecordOver(t) \/ Query(t) \/ Write(t)

Spec == Init /\ [][Next]_vars

-----------------------------------------------------------------------------
\* Properties

Patterns == {Seeds[i].pattern : i \in DOMAIN Seeds}
SeedEntries == {Entry(Seeds[i].pattern, Seeds[i].step, None, None) : i \in DOMAIN Seeds}
Learnable ==
  {e \in [pattern : {None}, step : Nat, run : Runs, edit : Edits \cup {"rerun"}] :
     e.step \in DOMAIN e.run.steps /\ e.run.failed}

TypeOK ==
  /\ library \in Seq(SeedEntries \cup Learnable)
  /\ version \in 0 .. Len(Seeds)
  /\ up \in BOOLEAN
  /\ known = None \/ known \subseteq Patterns \cup {None}
  /\ next \in 1 .. version + 1
  /\ pc \in [Threads -> {"idle", "query", "write"}]
  /\ fix \in [Threads -> Learnable \cup {None}]
  /\ \A t \in Threads : pc[t] # "idle" => up /\ fix[t] \in Learnable

\* A server that has started offers each pattern of its release exactly once,
\* whenever earlier ones died while they were adding them (seed.py:142-152,
\* "Additive + idempotent").
SeededOnce ==
  /\ \A i, j \in DOMAIN library :
       library[i].pattern # None /\ library[i].pattern = library[j].pattern => i = j
  /\ up => \A k \in 1 .. version : \E i \in DOMAIN library : library[i].pattern = Seeds[k].pattern

\* What is learned is about a step that nothing is known about yet
\* (app.py:1082-1085, "Deduped by blame_step so the same root cause is not
\* learned twice").
LearnedOncePerStep ==
  \A j \in DOMAIN library : library[j].pattern = None =>
    \A i \in 1 .. j - 1 : library[i].step # library[j].step

\* Contradicted: a fix is learned "when a fork actually resolves a failure"
\* (app.py:1080).  To set a step to what was recorded resolves nothing, but a fork
\* that ends before the failure has no failed step, whatever was edited.
FixesChangeSomething == \A i \in DOMAIN library : library[i].edit # "same"

=============================================================================
