----------------------------- MODULE Divergence -----------------------------
(***************************************************************************)
(* Threads of the API server fork runs (replay_engine/divergence.py) over  *)
(* the server's one connection, while recorders, each a process with a     *)
(* connection of its own, record runs into the same file.                  *)
(***************************************************************************)
EXTENDS TraceStore, Sequences, FiniteSetsExt, SequencesExt

CONSTANTS
  Api,        \* the server's connection
  Forkers,    \* requests to fork a run
  Recorders,
  Settings,   \* the situations that setting ranges over
  Replacing,  \* recorders that first delete the run (run_agent)
  Shapes,     \* the recordings: the parallel_group of each step, or None
  ForkId,     \* the id of each fork
  Groups

ASSUME ConnsAssumption == Conns = {Api} \cup Recorders /\ Api \notin Recorders
ASSUME TakesAssumption == Takes = Recorders \cup Forkers
ASSUME JobsAssumption ==
  /\ Settings \subseteq [writes : [Recorders -> RunIds], edit : {"payload", "step_id"}]
  /\ ForkId \in [Forkers -> RunIds]
  /\ Replacing \subseteq Recorders
  /\ Shapes \subseteq Seq(Groups \cup {None})

\* The steps a recorder or a fork may store are among Steps.
ASSUME ColumnsAssumption ==
  /\ Steps \subseteq [id : Nat, group : Groups \cup {None}, take : Recorders, edited : BOOLEAN]
  /\ \A s \in Steps : {[s EXCEPT !.id = 1], [s EXCEPT !.edited = TRUE]} \subseteq Steps
  /\ \A r \in Recorders, recorded \in Shapes : \A n \in DOMAIN recorded :
       [id |-> n, group |-> recorded[n], take |-> r, edited |-> FALSE] \in Steps

\* The id of a fork is new.
ASSUME ForkIdAssumption ==
  /\ IsInjective(ForkId)
  /\ \A s \in Settings, r \in Recorders, f \in Forkers : ForkId[f] # s.writes[r]

VARIABLES
  setting, \* writes: the run each recorder records; edit: what the forks
           \*   override, the payload of a step or its step_id; never changes
  job,    \* per recorder: what it does next
  shape,  \* per recorder: what it records
  count,  \* per recorder: the last step_id it took
  fork    \* per forker: the call of fork, then of compare

jobVars == <<job, shape, count>>
allVars == <<vars, setting, jobVars, fork>>

\* A fork in progress: its parent, the parent's steps as read, the step to edit,
\* the steps still to be stored, and the two versions of it compare looks at.
NoFork == [pc |-> "read", parent |-> None, doc |-> {}, at |-> None,
           edited |-> None, todo |-> <<>>, orig |-> None, copy |-> None]

InitAll ==
  /\ Init
  /\ setting \in Settings
  /\ job = [r \in Recorders |-> IF r \in Replacing THEN "delete" ELSE "start"]
  /\ shape \in [Recorders -> Shapes]
  /\ count = [r \in Recorders |-> 0]
  /\ fork = [f \in Forkers |-> NoFork]

-----------------------------------------------------------------------------
\* A recorder

StepOf(r, n) == [id |-> n, group |-> shape[r][n], take |-> r, edited |-> FALSE]
Recording(r) == {StepOf(r, n) : n \in 1 .. Len(shape[r])}

GoOn(r, next) == job' = [job EXCEPT ![r] = next] /\ UNCHANGED <<shape, count, fork>>

Delete(r) ==
  /\ job[r] = "delete"
  /\ \/ DeleteRun(r, setting.writes[r]) /\ GoOn(r, "start")
     \/ Locked(r) /\ GoOn(r, "failed")

Start(r) ==
  /\ job[r] = "start"
  /\ \/ StartRun(r, setting.writes[r], r) /\ GoOn(r, "append")
     \/ (StartClash(r, setting.writes[r]) \/ Locked(r)) /\ GoOn(r, "failed")

\* A step that cannot be stored is lost, its number taken.
Store(r) ==
  /\ job[r] = "append"
  /\ count[r] < Len(shape[r])
  /\ count' = [count EXCEPT ![r] = @ + 1]
  /\ LET s == StepOf(r, count[r] + 1)
     IN AppendStep(r, setting.writes[r], s) \/ AppendClash(r, setting.writes[r], s) \/ Locked(r)
  /\ UNCHANGED <<job, shape, fork>>

\* Plausible bug: the run is finished with its last step still to come.
Finish_Early(r) ==
  /\ job[r] = "append"
  /\ count[r] + 1 >= Len(shape[r])
  /\ FinishRun(r, setting.writes[r], "ok")
  /\ GoOn(r, "done")

Finish(r) ==
  /\ job[r] = "append"
  /\ count[r] = Len(shape[r])
  /\ \/ FinishRun(r, setting.writes[r], "ok") /\ GoOn(r, "done")
     \/ Locked(r) /\ GoOn(r, "failed")

\* The process exits, or it crashes.
End(r) ==
  /\ Close(r)
  /\ \/ job[r] \in {"done", "failed"} /\ tx[r] # "none" /\ GoOn(r, job[r])
     \/ job[r] \notin {"done", "failed"} /\ GoOn(r, "failed")

-----------------------------------------------------------------------------
\* Divergence.fork

Goto(f, next) == fork' = [fork EXCEPT ![f].pc = next] /\ UNCHANGED jobVars

\* ORDER BY step_id: n of the steps come up to the n-th.
ById(S) ==
  [n \in 1 .. Cardinality(S) |-> CHOOSE s \in S : Cardinality({q \in S : q.id <= s.id}) = n]

StepAt(S, k) == CHOOSE s \in S : s.id = k
SiblingsOf(S, s) == {q \in S : s.group # None /\ q.group = s.group /\ q.id # s.id}

Edited(s) ==
  IF setting.edit = "step_id" THEN [s EXCEPT !.id = 1] ELSE [s EXCEPT !.edited = TRUE]

\* Plausible bug: the copied prefix keeps the siblings, which are copied again.
Plan_SiblingsTwice(S, s) ==
  ById({q \in S : q.id < s.id}) \o <<Edited(s)>> \o ById(SiblingsOf(S, s))

\* Plausible bug: the fork step's siblings are taken for its successors.
Plan_NoSiblings(S, s) ==
  ById({q \in S : q.id < s.id} \ SiblingsOf(S, s)) \o <<Edited(s)>>

\* The steps that are stored, in this order.
Plan(S, s) ==
  ById({q \in S : q.id < s.id} \ SiblingsOf(S, s))
    \o <<Edited(s)>>
    \o ById(SiblingsOf(S, s))

\* get_run; a run that is not there is answered 404.
ForkReads(f) ==
  \E r \in {setting.writes[q] : q \in Recorders} :
    /\ fork[f].pc = "read"
    /\ GetRunHeader(Api, r)
    /\ fork' = [fork EXCEPT ![f].pc = IF ViewOf(Api).runs[r] = None THEN "refused" ELSE "steps",
                            ![f].parent = r]
    /\ UNCHANGED jobVars

\* The step to edit must be in the run (DivergenceError otherwise, 422).
ForkPlans(f) ==
  /\ fork[f].pc = "steps"
  /\ GetRunSteps(Api)
  /\ LET S == Document(Api).steps
     IN \/ S = {} /\ fork' = [fork EXCEPT ![f].pc = "refused"]
        \/ \E s \in S :
             fork' = [fork EXCEPT ![f].pc = "start",
                                  ![f].doc = S,
                                  ![f].at = s.id,
                                  ![f].edited = Edited(s),
                                  ![f].todo = Plan(S, s)]
  /\ UNCHANGED jobVars

ForkStarts(f) ==
  /\ fork[f].pc = "start"
  /\ \/ StartRun(Api, ForkId[f], f) /\ Goto(f, "copy")
     \/ (StartClash(Api, ForkId[f]) \/ Locked(Api)) /\ Goto(f, "failed")

\* An exception leaves what was stored so far.
ForkCopies(f) ==
  /\ fork[f].pc = "copy"
  /\ fork[f].todo # <<>>
  /\ LET s == Head(fork[f].todo)
     IN \/ /\ AppendStep(Api, ForkId[f], s)
           /\ fork' = [fork EXCEPT ![f].todo = Tail(@)]
           /\ UNCHANGED jobVars
        \/ (AppendClash(Api, ForkId[f], s) \/ Locked(Api)) /\ Goto(f, "failed")

-----------------------------------------------------------------------------
\* Divergence.compare, right after fork

CompareReads(f) ==
  /\ \/ fork[f].pc = "copy" /\ fork[f].todo = <<>> /\ GetRunHeader(Api, fork[f].parent)
     \/ fork[f].pc = "copied" /\ GetRunHeader(Api, ForkId[f])
  /\ IF reading'[Api] = None
       THEN Goto(f, "failed")
       ELSE Goto(f, IF fork[f].pc = "copy" THEN "orig steps" ELSE "copy steps")

StepOrNone(S, k) == IF \E s \in S : s.id = k THEN StepAt(S, k) ELSE None

CompareOrig(f) ==
  /\ fork[f].pc = "orig steps"
  /\ GetRunSteps(Api)
  /\ fork' = [fork EXCEPT ![f].pc = "copied",
                          ![f].orig = StepOrNone(Document(Api).steps, fork[f].at)]
  /\ UNCHANGED jobVars

CompareCopy(f) ==
  /\ fork[f].pc = "copy steps"
  /\ GetRunSteps(Api)
  /\ fork' = [fork EXCEPT ![f].pc = "done",
                          ![f].copy = StepOrNone(Document(Api).steps, fork[f].at)]
  /\ UNCHANGED jobVars

RecorderStep(r) == Delete(r) \/ Start(r) \/ Store(r) \/ Finish(r) \/ End(r)

ForkStep(f) ==
  \/ ForkReads(f) \/ ForkPlans(f) \/ ForkStarts(f) \/ ForkCopies(f)
  \/ CompareReads(f) \/ CompareOrig(f) \/ CompareCopy(f)

NextAll ==
  /\ (\E r \in Recorders : RecorderStep(r)) \/ (\E f \in Forkers : ForkStep(f))
  /\ UNCHANGED setting

SpecAll == InitAll /\ [][NextAll]_allVars

-----------------------------------------------------------------------------
\* Properties

JobTypeOK ==
  /\ TypeOK
  /\ job \in [Recorders -> {"delete", "start", "append", "done", "failed"}]
  /\ shape \in [Recorders -> Shapes]
  /\ \A r \in Recorders : count[r] \in 0 .. Len(shape[r])
  /\ \A f \in Forkers :
       /\ fork[f].parent \in RunIds \cup {None}
       /\ fork[f].doc \subseteq Steps
       /\ {fork[f].edited, fork[f].orig, fork[f].copy} \subseteq Steps \cup {None}
       /\ fork[f].todo \in Seq(Steps)

\* What a fork of the steps S at step k should hold: what came before k, k's
\* whole parallel batch, and k as edited.  Nothing that came after.
ForkOf(S, k, edited) ==
  {s \in S : s.id # k /\ (s.id < k \/ (s.group # None /\ s.group = StepAt(S, k).group))}
    \cup {edited}

\* No two recorders write one run, and no fork asks for a step_id that is taken.
Ordinary == setting.edit = "payload" /\ IsInjective(setting.writes)

Forked == {"orig steps", "copied", "copy steps", "done"}

\* A fork that succeeds holds one state the parent was really in, whatever is
\* recorded, deleted or forked meanwhile; and compare then shows the edit and
\* nothing else: the step it finds in the parent is the one that was edited,
\* unless the run is recorded again meanwhile (divergence.py:53-213).
ForkFaithful ==
  \A f \in Forkers :
    /\ fork[f].pc \in Forked =>
         steps[ForkId[f]] = ForkOf(fork[f].doc, fork[f].at, fork[f].edited)
    /\ Ordinary /\ fork[f].pc = "done" =>
         /\ fork[f].orig = StepAt(fork[f].doc, fork[f].at)
         /\ fork[f].copy = fork[f].edited

\* A recorder that ends well has stored every step of its recording, and its own
\* header with the status, whatever the forks and the other recorders do.
RecordedWhole ==
  Ordinary => \A r \in Recorders : job[r] = "done" =>
    /\ steps[setting.writes[r]] = Recording(r)
    /\ runs[setting.writes[r]] = [take |-> r, status |-> "ok"]

\* No statement violates a constraint; in particular re-recording a run "replaces
\* any existing run with this id (no UNIQUE clash)" (run_agent.py:49).
NeverRejected == ~rejected

\* A fork is only refused for want of a run or of a step: it never fails halfway,
\* because no statement of anyone violates a constraint.
ForkNeverFails ==
  Ordinary => NeverRejected /\ \A f \in Forkers : fork[f].pc # "failed"

\* get_run returns the document of one recording (store.py:194, "the full trace
\* document for *run_id*"): its steps are of the take its header names.
OneTakeRead ==
  [][\A f \in Forkers : ForkPlans(f) =>
       \A s \in Document(Api).steps : s.take = Document(Api).header.take]_allVars

=============================================================================
