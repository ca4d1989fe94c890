----------------------------- MODULE TraceStore -----------------------------
(***************************************************************************)
(* The SQLite trace store (trace_store/store.py), used by several          *)
(* processes at once: the API server, and the recorders it launches or     *)
(* that run from the command line.  Each process has one connection; the   *)
(* methods of a connection exclude each other (TraceStore._lock), those of *)
(* different connections do not.                                           *)
(*                                                                         *)
(* What Python's sqlite3 and SQLite (journal_mode=WAL) do is external: an  *)
(* INSERT, UPDATE or DELETE opens a transaction first, which only commit() *)
(* ends.  A statement that fails leaves it open, since no method rolls it  *)
(* back: with the write lock when a constraint was violated, without it    *)
(* when another connection had the lock for longer than the timeout.  A    *)
(* SELECT in the second case fixes the snapshot the connection works on,   *)
(* and a connection whose snapshot is out of date cannot write.            *)
(***************************************************************************)
EXTENDS Naturals, FiniteSets

CONSTANTS
  Conns,   \* connections, one per process
  RunIds,
  Takes,   \* what tells two recordings of the same run apart
  Steps,   \* records with a field id, the other columns abstracted
  None

ASSUME StepsAssumption == \A s \in Steps : s.id \in Nat

Headers == [take : Takes, status : {None, "ok", "error"}]

ASSUME NoneAssumption == None \notin Headers \cup [run : RunIds, header : Headers]

VARIABLES
  runs,      \* table runs, committed
  steps,     \* table steps, committed
  tx,        \* per connection: the state of its transaction
  seen,      \* per connection: its snapshot, if one is pinned
  behind,    \* connections whose snapshot others have overtaken
  reading,   \* per connection: get_run between its two SELECTs
  rejected   \* history: a statement violated a constraint

vars == <<runs, steps, tx, seen, behind, reading, rejected>>

Init ==
  /\ runs = [r \in RunIds |-> None]
  /\ steps = [r \in RunIds |-> {}]
  /\ tx = [c \in Conns |-> "none"]
  /\ seen = [c \in Conns |-> None]
  /\ behind = {}
  /\ reading = [c \in Conns |-> None]
  /\ rejected = FALSE

-----------------------------------------------------------------------------
\* SQLite and sqlite3 (external)

Committed == [runs |-> runs, steps |-> steps]
ViewOf(c) == IF tx[c] = "snapshot" THEN seen[c] ELSE Committed

CanLock(c) ==
  /\ \A d \in Conns \ {c} : tx[d] # "lock"
  /\ c \notin behind

Commit(c, newRuns, newSteps) ==
  /\ runs' = newRuns
  /\ steps' = newSteps
  /\ tx' = [tx EXCEPT ![c] = "none"]
  /\ seen' = [seen EXCEPT ![c] = None]
  /\ behind' = behind \cup IF newRuns = runs /\ newSteps = steps
                             THEN {}
                             ELSE {d \in Conns \ {c} : tx[d] = "snapshot"}
  /\ UNCHANGED <<reading, rejected>>

\* A constraint is violated (IntegrityError): the lock is kept.
Reject(c) ==
  /\ CanLock(c)
  /\ tx' = [tx EXCEPT ![c] = "lock"]
  /\ seen' = [seen EXCEPT ![c] = None]
  /\ rejected' = TRUE
  /\ UNCHANGED <<runs, steps, behind, reading>>

\* No other thread of the process is inside a method.
Free(c) == reading[c] = None

\* OperationalError, "database is locked".
Locked(c) ==
  /\ Free(c) /\ ~CanLock(c)
  /\ tx' = [tx EXCEPT ![c] = IF @ = "none" THEN "begun" ELSE @]
  /\ UNCHANGED <<runs, steps, seen, behind, reading, rejected>>

\* The first SELECT of an open transaction pins its snapshot.
Select(c) ==
  IF tx[c] = "begun"
    THEN /\ tx' = [tx EXCEPT ![c] = "snapshot"]
         /\ seen' = [seen EXCEPT ![c] = Committed]
    ELSE UNCHANGED <<tx, seen>>

\* The process ends, or closes its connection: the transaction is rolled back.
Close(c) ==
  /\ tx' = [tx EXCEPT ![c] = "none"]
  /\ seen' = [seen EXCEPT ![c] = None]
  /\ behind' = behind \ {c}
  /\ reading' = [reading EXCEPT ![c] = None]
  /\ UNCHANGED <<runs, steps, rejected>>

-----------------------------------------------------------------------------
\* The methods of TraceStore

\* PRIMARY KEY (run_id)
StartRun(c, r, take) ==
  /\ Free(c) /\ CanLock(c)
  /\ runs[r] = None
  /\ Commit(c, [runs EXCEPT ![r] = [take |-> take, status |-> None]], steps)

StartClash(c, r) == Free(c) /\ runs[r] # None /\ Reject(c)

\* PRIMARY KEY (run_id, step_id) and FOREIGN KEY (run_id)
Insertable(r, s) == runs[r] # None /\ \A q \in steps[r] : q.id # s.id

\* Plausible bug: INSERT OR REPLACE.
AppendStep_Upsert(c, r, s) ==
  /\ Free(c) /\ CanLock(c)
  /\ runs[r] # None
  /\ Commit(c, runs, [steps EXCEPT ![r] = {q \in @ : q.id # s.id} \cup {s}])

AppendStep(c, r, s) ==
  /\ Free(c) /\ CanLock(c)
  /\ Insertable(r, s)
  /\ Commit(c, runs, [steps EXCEPT ![r] = @ \cup {s}])

AppendClash(c, r, s) == Free(c) /\ ~Insertable(r, s) /\ Reject(c)

\* Plausible bug: the commit is forgotten.
FinishRun_NoCommit(c, r, status) ==
  /\ Free(c) /\ CanLock(c)
  /\ tx' = [tx EXCEPT ![c] = "lock"]
  /\ seen' = [seen EXCEPT ![c] = None]
  /\ UNCHANGED <<runs, steps, behind, reading, rejected>>

\* An UPDATE of no row is not an error.
FinishRun(c, r, status) ==
  /\ Free(c) /\ CanLock(c)
  /\ Commit(c, IF runs[r] = None THEN runs ELSE [runs EXCEPT ![r].status = status], steps)

\* Plausible bug: the steps are left to the foreign key.
DeleteRun_KeepSteps(c, r) ==
  /\ Free(c) /\ CanLock(c)
  /\ Commit(c, [runs EXCEPT ![r] = None], steps)

DeleteRun(c, r) ==
  /\ Free(c) /\ CanLock(c)
  /\ Commit(c, [runs EXCEPT ![r] = None], [steps EXCEPT ![r] = {}])

\* get_run is two SELECTs; a run it does not see is a KeyError.
GetRunHeader(c, r) ==
  /\ Free(c)
  /\ Select(c)
  /\ reading' = [reading EXCEPT ![c] =
                   IF ViewOf(c).runs[r] = None
                     THEN None
                     ELSE [run |-> r, header |-> ViewOf(c).runs[r]]]
  /\ UNCHANGED <<runs, steps, behind, rejected>>

GetRunSteps(c) ==
  /\ ~Free(c)
  /\ Select(c)
  /\ reading' = [reading EXCEPT ![c] = None]
  /\ UNCHANGED <<runs, steps, behind, rejected>>

\* The document get_run returns in the step GetRunSteps.
Document(c) == [header |-> reading[c].header, steps |-> ViewOf(c).steps[reading[c].run]]

ListRuns(c) ==
  /\ Free(c)
  /\ Select(c)
  /\ UNCHANGED <<runs, steps, behind, reading, rejected>>

Next == \E c \in Conns :
  \/ \E r \in RunIds :
       \/ \E t \in Takes : StartRun(c, r, t)
       \/ StartClash(c, r)
       \/ \E s \in Steps : AppendStep(c, r, s) \/ AppendClash(c, r, s)
       \/ \E status \in {"ok", "error"} : FinishRun(c, r, status)
       \/ DeleteRun(c, r)
       \/ GetRunHeader(c, r)
  \/ GetRunSteps(c)
  \/ ListRuns(c)
  \/ Locked(c)
  \/ Close(c)

Spec == Init /\ [][Next]_vars

-----------------------------------------------------------------------------
\* Properties

Views == [runs : [RunIds -> Headers \cup {None}], steps : [RunIds -> SUBSET Steps]]

TypeOK ==
  /\ Committed \in Views
  /\ tx \in [Conns -> {"none", "begun", "snapshot", "lock"}]
  /\ seen \in [Conns -> Views \cup {None}]
  /\ \A c \in Conns : tx[c] = "snapshot" => seen[c] \in Views
  /\ behind \subseteq {c \in Conns : tx[c] = "snapshot"}
  /\ reading \in [Conns -> [run : RunIds, header : Headers] \cup {None}]
  /\ rejected \in BOOLEAN

\* What any connection sees, committed or not up to date, is a store in which
\* every step belongs to a run and no step_id is used twice in a run, however
\* deletions by one process fall between the appends of another.
WholeIn(v) == \A r \in RunIds :
  /\ v.steps[r] # {} => v.runs[r] # None
  /\ \A p, q \in v.steps[r] : p.id = q.id => p = q

Consistent == \A c \in Conns : WholeIn(ViewOf(c))

\* Steps are never updated in place (store.py:20-22): those of a run are only
\* added to, until the run is deleted.
AppendOnly == [][\A r \in RunIds : steps[r] \subseteq steps'[r] \/ runs'[r] = None]_vars

\* Unless some statement has violated a constraint no transaction is ever left
\* open, so that no method fails with "database is locked" and every read is of
\* the latest commit, however many processes share the file.
CleanUntilRejected ==
  ~rejected => \A c \in Conns : tx[c] = "none" /\ CanLock(c)

\* A connection reads what was committed (store.py:202-203, get_run raises
\* KeyError "If *run_id* does not exist in the store").
ReadsCommitted == \A c \in Conns : ViewOf(c) = Committed

=============================================================================
