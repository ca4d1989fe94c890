-------------------------- MODULE TraceStoreProofs --------------------------
(***************************************************************************)
(* The trace store and its clients, for any number of processes.           *)
(*                                                                         *)
(* TraceStore: it stays consistent, and is never locked before a           *)
(* constraint was violated.  The invariant needs every pinned snapshot to  *)
(* be consistent as well as the latest commit: it is a commit of the past. *)
(* Divergence: a fork holds a state of its parent, as steps are only added *)
(* and a deletion comes before everything of the next recording.           *)
(* Evaluation: what the page says of a run was so when it read it, and     *)
(* steps that are only added keep it so; a study writes what it counted.   *)
(***************************************************************************)
EXTENDS Evaluation, FiniteSetTheorems, SequenceTheorems, WellFoundedInduction, TLAPS

SnapshotsWhole == \A c \in Conns : tx[c] = "snapshot" => WholeIn(seen[c])

Clean == ~rejected => \A c \in Conns : tx[c] = "none"

IInv == TypeOK /\ WholeIn(Committed) /\ SnapshotsWhole /\ Clean

LEMMA InitIInv == Init => IInv
<1> SUFFICES ASSUME Init PROVE IInv
  OBVIOUS
<1>1. TypeOK
  BY DEF Init, TypeOK, Committed, Views
<1>2. WholeIn(Committed)
  BY DEF Init, WholeIn, Committed
<1>3. SnapshotsWhole /\ Clean
  BY DEF Init, SnapshotsWhole, Clean
<1> QED
  BY <1>1, <1>2, <1>3 DEF IInv

\* A commit of consistent tables.
LEMMA CommitIInv ==
  ASSUME IInv, NEW c \in Conns, CanLock(c), NEW rs, NEW ss, Commit(c, rs, ss),
         [runs |-> rs, steps |-> ss] \in Views,
         WholeIn([runs |-> rs, steps |-> ss])
  PROVE  IInv'
<1>1. runs' = rs /\ steps' = ss /\ UNCHANGED <<reading, rejected>>
  BY DEF Commit
<1>2. tx' = [tx EXCEPT ![c] = "none"] /\ seen' = [seen EXCEPT ![c] = None]
  BY DEF Commit
<1>3. behind' \subseteq behind \cup {d \in Conns \ {c} : tx[d] = "snapshot"} /\ c \notin behind
  BY DEF Commit, CanLock
<1>4. Committed' = [runs |-> rs, steps |-> ss]
  BY <1>1 DEF Committed
<1>5. TypeOK'
  <2>1. /\ tx' \in [Conns -> {"none", "begun", "snapshot", "lock"}]
        /\ seen' \in [Conns -> Views \cup {None}]
        /\ \A d \in Conns : tx'[d] = "snapshot" => seen'[d] \in Views
    BY <1>2 DEF IInv, TypeOK
  <2>2. behind' \subseteq {d \in Conns : tx'[d] = "snapshot"}
    BY <1>2, <1>3 DEF IInv, TypeOK
  <2>3. reading' \in [Conns -> [run : RunIds, header : Headers] \cup {None}] /\ rejected' \in BOOLEAN
    BY <1>1 DEF IInv, TypeOK
  <2> QED
    BY <1>4, <2>1, <2>2, <2>3 DEF TypeOK, Views
<1>6. WholeIn(Committed)'
  BY <1>4 DEF WholeIn
<1>7. SnapshotsWhole'
  BY <1>2 DEF IInv, TypeOK, SnapshotsWhole, WholeIn
<1>8. Clean'
  BY <1>1, <1>2 DEF IInv, TypeOK, Clean
<1> QED
  BY <1>5, <1>6, <1>7, <1>8 DEF IInv

\* The methods that write.
LEMMA StartRunIInv ==
  ASSUME IInv, NEW c \in Conns, NEW r \in RunIds, NEW t \in Takes, StartRun(c, r, t)
  PROVE  IInv'
<1> DEFINE rs == [runs EXCEPT ![r] = [take |-> t, status |-> None]]
<1>1. CanLock(c) /\ Commit(c, rs, steps)
  BY DEF StartRun
<1>2. runs \in [RunIds -> Headers \cup {None}] /\ steps \in [RunIds -> SUBSET Steps]
  BY DEF IInv, TypeOK, Committed, Views
<1>3. [take |-> t, status |-> None] \in Headers
  BY DEF Headers
<1>4. [runs |-> rs, steps |-> steps] \in Views
  BY <1>2, <1>3 DEF Views
<1>5. runs[r] = None
  BY DEF StartRun
<1>6. WholeIn([runs |-> rs, steps |-> steps])
  BY <1>2, <1>5 DEF IInv, WholeIn, Committed
<1> QED
  BY <1>1, <1>4, <1>6, CommitIInv

LEMMA AppendStepIInv ==
  ASSUME IInv, NEW c \in Conns, NEW r \in RunIds, NEW s \in Steps, AppendStep(c, r, s)
  PROVE  IInv'
<1> DEFINE ss == [steps EXCEPT ![r] = @ \cup {s}]
<1>1. CanLock(c) /\ Commit(c, runs, ss)
  BY DEF AppendStep
<1>2. runs \in [RunIds -> Headers \cup {None}] /\ steps \in [RunIds -> SUBSET Steps]
  BY DEF IInv, TypeOK, Committed, Views
<1>3. [runs |-> runs, steps |-> ss] \in Views
  BY <1>2 DEF Views
<1>4. runs[r] # None /\ \A q \in steps[r] : q.id # s.id
  BY DEF AppendStep, Insertable
<1>5. WholeIn([runs |-> runs, steps |-> ss])
  BY <1>2, <1>4 DEF IInv, WholeIn, Committed
<1> QED
  BY <1>1, <1>3, <1>5, CommitIInv

LEMMA FinishRunIInv ==
  ASSUME IInv, NEW c \in Conns, NEW r \in RunIds, NEW status \in {"ok", "error"},
         FinishRun(c, r, status)
  PROVE  IInv'
<1> DEFINE rs == IF runs[r] = None THEN runs ELSE [runs EXCEPT ![r].status = status]
<1>1. CanLock(c) /\ Commit(c, rs, steps)
  BY DEF FinishRun
<1>2. runs \in [RunIds -> Headers \cup {None}] /\ steps \in [RunIds -> SUBSET Steps]
  BY DEF IInv, TypeOK, Committed, Views
<1>3. rs \in [RunIds -> Headers \cup {None}] /\ \A q \in RunIds : runs[q] # None => rs[q] # None
  <2>1. CASE runs[r] = None
    BY <1>2, <2>1
  <2>2. CASE runs[r] # None
    <3>1. \A h \in Headers : [h EXCEPT !.status = status] \in Headers
      BY DEF Headers
    <3>2. rs = [runs EXCEPT ![r] = [runs[r] EXCEPT !.status = status]]
      BY <2>2
    <3>3. [runs[r] EXCEPT !.status = status] \in Headers
      BY <1>2, <2>2, <3>1
    <3> HIDE DEF rs
    <3> QED
      BY <1>2, <3>2, <3>3, NoneAssumption
  <2> QED
    BY <2>1, <2>2
<1> HIDE DEF rs
<1>4. [runs |-> rs, steps |-> steps] \in Views
  BY <1>2, <1>3 DEF Views
<1>5. WholeIn([runs |-> rs, steps |-> steps])
  BY <1>3 DEF IInv, WholeIn, Committed
<1> QED
  BY <1>1, <1>4, <1>5, CommitIInv

LEMMA DeleteRunIInv ==
  ASSUME IInv, NEW c \in Conns, NEW r \in RunIds, DeleteRun(c, r)
  PROVE  IInv'
<1> DEFINE rs == [runs EXCEPT ![r] = None]
           ss == [steps EXCEPT ![r] = {}]
<1>1. CanLock(c) /\ Commit(c, rs, ss)
  BY DEF DeleteRun
<1>2. runs \in [RunIds -> Headers \cup {None}] /\ steps \in [RunIds -> SUBSET Steps]
  BY DEF IInv, TypeOK, Committed, Views
<1>3. [runs |-> rs, steps |-> ss] \in Views
  BY <1>2 DEF Views
<1>4. WholeIn([runs |-> rs, steps |-> ss])
  BY <1>2 DEF IInv, WholeIn, Committed
<1> QED
  BY <1>1, <1>3, <1>4, CommitIInv

\* A statement that fails, and the end of a process, touch no table.
LEMMA RejectIInv ==
  ASSUME IInv, NEW c \in Conns, Reject(c)
  PROVE  IInv'
<1>1. /\ c \notin behind
      /\ tx' = [tx EXCEPT ![c] = "lock"]
      /\ seen' = [seen EXCEPT ![c] = None]
      /\ rejected' = TRUE
      /\ UNCHANGED <<runs, steps, behind, reading>>
  BY DEF Reject, CanLock
<1>2. TypeOK' /\ UNCHANGED Committed
  BY <1>1 DEF IInv, TypeOK, Committed
<1>3. SnapshotsWhole'
  BY <1>1 DEF IInv, TypeOK, SnapshotsWhole, WholeIn
<1>4. Clean'
  BY <1>1 DEF Clean
<1> QED
  BY <1>2, <1>3, <1>4 DEF IInv, WholeIn

LEMMA LockedIInv ==
  ASSUME IInv, NEW c \in Conns, Locked(c)
  PROVE  IInv'
<1>1. /\ tx' = [tx EXCEPT ![c] = IF @ = "none" THEN "begun" ELSE @]
      /\ UNCHANGED <<runs, steps, seen, behind, reading, rejected>>
  BY DEF Locked
<1>2. /\ tx' \in [Conns -> {"none", "begun", "snapshot", "lock"}]
      /\ \A d \in Conns : tx'[d] = "snapshot" <=> tx[d] = "snapshot"
  BY <1>1 DEF IInv, TypeOK
<1>3. TypeOK' /\ UNCHANGED Committed
  BY <1>1, <1>2 DEF IInv, TypeOK, Committed
<1>4. SnapshotsWhole'
  BY <1>1, <1>2 DEF IInv, SnapshotsWhole, WholeIn
<1>5. rejected
  BY DEF IInv, TypeOK, Clean, Locked, CanLock
<1> QED
  BY <1>1, <1>3, <1>4, <1>5 DEF IInv, WholeIn, Clean

LEMMA CloseIInv ==
  ASSUME IInv, NEW c \in Conns, Close(c)
  PROVE  IInv'
<1>1. /\ tx' = [tx EXCEPT ![c] = "none"]
      /\ seen' = [seen EXCEPT ![c] = None]
      /\ behind' = behind \ {c}
      /\ reading' = [reading EXCEPT ![c] = None]
      /\ UNCHANGED <<runs, steps, rejected>>
  BY DEF Close
<1>2. TypeOK' /\ UNCHANGED Committed
  BY <1>1 DEF IInv, TypeOK, Committed
<1>3. SnapshotsWhole'
  BY <1>1 DEF IInv, TypeOK, SnapshotsWhole, WholeIn
<1>4. Clean'
  BY <1>1 DEF IInv, TypeOK, Clean
<1> QED
  BY <1>2, <1>3, <1>4 DEF IInv, WholeIn

\* A SELECT at most pins the latest commit, and only in a transaction that a
\* failure left open.
LEMMA ReadIInv ==
  ASSUME IInv, NEW c \in Conns, Select(c),
         UNCHANGED <<runs, steps, behind, rejected>>,
         reading' \in [Conns -> [run : RunIds, header : Headers] \cup {None}]
  PROVE  IInv'
<1>1. Committed \in Views /\ UNCHANGED Committed
  BY DEF IInv, TypeOK, Committed
<1>2. CASE tx[c] = "begun"
  <2>1. /\ tx' = [tx EXCEPT ![c] = "snapshot"]
        /\ seen' = [seen EXCEPT ![c] = Committed]
    BY <1>2 DEF Select
  <2>2. TypeOK'
    BY <1>1, <2>1 DEF IInv, TypeOK
  <2>3. SnapshotsWhole'
    BY <2>1 DEF IInv, TypeOK, SnapshotsWhole, WholeIn
  <2>4. Clean'
    BY <1>2, <2>1 DEF IInv, TypeOK, Clean
  <2> QED
    BY <1>1, <2>2, <2>3, <2>4 DEF IInv, WholeIn
<1>3. CASE tx[c] # "begun"
  <2>1. UNCHANGED <<tx, seen>>
    BY <1>3 DEF Select
  <2> QED
    BY <1>1, <2>1 DEF IInv, TypeOK, SnapshotsWhole, WholeIn, Clean
<1> QED
  BY <1>2, <1>3

LEMMA HeaderRead ==
  ASSUME IInv, NEW c \in Conns, NEW r \in RunIds, GetRunHeader(c, r)
  PROVE  reading' \in [Conns -> [run : RunIds, header : Headers] \cup {None}]
<1>1. ViewOf(c) \in Views
  BY DEF IInv, TypeOK, ViewOf
<1>2. ViewOf(c).runs[r] \in Headers \cup {None}
  BY <1>1 DEF Views
<1> QED
  BY <1>2 DEF GetRunHeader, IInv, TypeOK

LEMMA StepIInv == IInv /\ [Next]_vars => IInv'
<1> SUFFICES ASSUME IInv, [Next]_vars PROVE IInv'
  OBVIOUS
<1>1. ASSUME NEW c \in Conns, NEW r \in RunIds, NEW t \in Takes, StartRun(c, r, t) PROVE IInv'
  BY <1>1, StartRunIInv
<1>2. ASSUME NEW c \in Conns, NEW r \in RunIds, StartClash(c, r) PROVE IInv'
  BY <1>2, RejectIInv DEF StartClash
<1>3. ASSUME NEW c \in Conns, NEW r \in RunIds, NEW s \in Steps, AppendStep(c, r, s) PROVE IInv'
  BY <1>3, AppendStepIInv
<1>4. ASSUME NEW c \in Conns, NEW r \in RunIds, NEW s \in Steps, AppendClash(c, r, s) PROVE IInv'
  BY <1>4, RejectIInv DEF AppendClash
<1>5. ASSUME NEW c \in Conns, NEW r \in RunIds, NEW status \in {"ok", "error"},
             FinishRun(c, r, status)
      PROVE  IInv'
  BY <1>5, FinishRunIInv
<1>6. ASSUME NEW c \in Conns, NEW r \in RunIds, DeleteRun(c, r) PROVE IInv'
  BY <1>6, DeleteRunIInv
<1>7. ASSUME NEW c \in Conns, NEW r \in RunIds, GetRunHeader(c, r) PROVE IInv'
  BY <1>7, HeaderRead, ReadIInv DEF GetRunHeader
<1>8. ASSUME NEW c \in Conns, GetRunSteps(c) PROVE IInv'
  <2>1. reading' \in [Conns -> [run : RunIds, header : Headers] \cup {None}]
    BY <1>8 DEF GetRunSteps, IInv, TypeOK
  <2> QED
    BY <1>8, <2>1, ReadIInv DEF GetRunSteps
<1>9. ASSUME NEW c \in Conns, ListRuns(c) PROVE IInv'
  <2>1. reading' \in [Conns -> [run : RunIds, header : Headers] \cup {None}]
    BY <1>9 DEF ListRuns, IInv, TypeOK
  <2> QED
    BY <1>9, <2>1, ReadIInv DEF ListRuns
<1>10. ASSUME NEW c \in Conns, Locked(c) PROVE IInv'
  BY <1>10, LockedIInv
<1>11. ASSUME NEW c \in Conns, Close(c) PROVE IInv'
  BY <1>11, CloseIInv
<1>12. CASE UNCHANGED vars
  BY <1>12 DEF vars, IInv, TypeOK, Committed, SnapshotsWhole, WholeIn, Clean
<1> QED
  BY <1>1, <1>2, <1>3, <1>4, <1>5, <1>6, <1>7, <1>8, <1>9, <1>10, <1>11, <1>12 DEF Next

LEMMA Invariant == Spec => []IInv
BY InitIInv, StepIInv, PTL DEF Spec

-----------------------------------------------------------------------------
\* The tables, the snapshots and the transactions keep their types.
THEOREM TypeCorrect == Spec => []TypeOK
<1>1. IInv => TypeOK
  BY DEF IInv
<1> QED
  BY <1>1, Invariant, PTL

\* Whatever a connection sees is a consistent store, for any number of
\* processes, runs and steps (TraceStore, store.py:36-75 and 104-274).
THEOREM StoreConsistent == Spec => []Consistent
<1>1. IInv => Consistent
  BY DEF IInv, Consistent, ViewOf, SnapshotsWhole, WholeIn, Committed
<1> QED
  BY <1>1, Invariant, PTL

\* No number of well-behaved processes can lock one another out: a transaction
\* is left open only after some statement violated a constraint.
THEOREM NoLockWithoutRejection == Spec => []CleanUntilRejected
<1>1. IInv => CleanUntilRejected
  BY DEF IInv, TypeOK, Clean, CleanUntilRejected, CanLock
<1> QED
  BY <1>1, Invariant, PTL

\* No method updates a stored step (store.py:20-22).
THEOREM StepsAppendOnly == Spec => AppendOnly
<1> DEFINE Kept == \A r \in RunIds : steps[r] \subseteq steps'[r] \/ runs'[r] = None
<1>1. IInv /\ [Next]_vars => [Kept]_vars
  <2> SUFFICES ASSUME IInv, [Next]_vars PROVE Kept
    OBVIOUS
  <2>1. runs \in [RunIds -> Headers \cup {None}] /\ steps \in [RunIds -> SUBSET Steps]
    BY DEF IInv, TypeOK, Committed, Views
  <2>2. ASSUME NEW c \in Conns, NEW r \in RunIds, NEW s \in Steps, AppendStep(c, r, s)
        PROVE  Kept
    BY <2>1, <2>2 DEF AppendStep, Commit
  <2>3. ASSUME NEW c \in Conns, NEW r \in RunIds, DeleteRun(c, r) PROVE Kept
    BY <2>1, <2>3 DEF DeleteRun, Commit
  <2>4. CASE UNCHANGED steps
    BY <2>4
  <2> QED
    BY <2>2, <2>3, <2>4 DEF Next, StartRun, StartClash, AppendClash, FinishRun,
       GetRunHeader, GetRunSteps, ListRuns, Locked, Close, Reject, Commit, vars
<1> QED
  BY <1>1, Invariant, PTL DEF Spec, AppendOnly

-----------------------------------------------------------------------------
(***************************************************************************)
(* Steps in the order of their ids                                         *)
(***************************************************************************)
UniqueIds(S) == \A p, q \in S : p.id = q.id => p = q

\* The position of a step.
Rank(S, s) == Cardinality({q \in S : q.id <= s.id})

\* Steps take the positions from 1 on, one each, in the order of their ids.
LEMMA Ranks ==
  ASSUME NEW S \in SUBSET Steps, IsFiniteSet(S), UniqueIds(S)
  PROVE  /\ Cardinality(S) \in Nat
         /\ \A s \in S : Rank(S, s) \in 1 .. Cardinality(S)
         /\ \A s, t \in S : s.id < t.id => Rank(S, s) < Rank(S, t)
         /\ \A s, t \in S : Rank(S, s) = Rank(S, t) => s = t
         /\ \A n \in 1 .. Cardinality(S) : \E s \in S : Rank(S, s) = n
<1> DEFINE upTo(s) == {q \in S : q.id <= s.id}
<1>0. \A s \in S : s.id \in Nat
  BY StepsAssumption
<1>1. Cardinality(S) \in Nat
  BY FS_CardinalityType
<1>2. ASSUME NEW s \in S
      PROVE  /\ IsFiniteSet(upTo(s)) /\ Cardinality(upTo(s)) \in Nat
             /\ Cardinality(upTo(s)) <= Cardinality(S) /\ Cardinality(upTo(s)) # 0
  <2>1. upTo(s) \in SUBSET S /\ s \in upTo(s)
    BY <1>0
  <2>2. IsFiniteSet(upTo(s)) /\ Cardinality(upTo(s)) <= Cardinality(S)
    BY <2>1, FS_Subset
  <2> QED
    BY <2>1, <2>2, FS_CardinalityType, FS_EmptySet
<1>3. \A s \in S : Rank(S, s) \in 1 .. Cardinality(S)
  BY <1>1, <1>2 DEF Rank
<1>4. ASSUME NEW s \in S, NEW t \in S, s.id < t.id PROVE Rank(S, s) < Rank(S, t)
  <2>1. upTo(s) \in SUBSET upTo(t) /\ t \in upTo(t) /\ t \notin upTo(s)
    BY <1>0, <1>4
  <2>2. /\ Cardinality(upTo(s)) <= Cardinality(upTo(t))
        /\ Cardinality(upTo(t)) = Cardinality(upTo(s)) => upTo(t) = upTo(s)
    BY <1>2, <2>1, FS_Subset
  <2> QED
    BY <1>2, <2>1, <2>2 DEF Rank
<1>5. ASSUME NEW s \in S, NEW t \in S, Rank(S, s) = Rank(S, t) PROVE s = t
  <2>1. ~(s.id < t.id) /\ ~(t.id < s.id)
    BY <1>1, <1>3, <1>4, <1>5
  <2> QED
    BY <1>0, <2>1 DEF UniqueIds
<1>6. ASSUME NEW n \in 1 .. Cardinality(S) PROVE \E s \in S : Rank(S, s) = n
  <2> DEFINE rank == [s \in S |-> Rank(S, s)]
             T == 1 .. Cardinality(S)
  <2>1. IsFiniteSet(T) /\ Cardinality(T) = Cardinality(S)
    BY <1>1, FS_Interval
  <2>2. rank \in Injection(S, T)
    BY <1>3, <1>5 DEF Injection, IsInjective
  <2>3. rank \in Surjection(S, T)
    BY <2>1, <2>2, FS_Injection
  <2> QED
    BY <2>3 DEF Surjection
<1> QED
  BY <1>1, <1>3, <1>4, <1>5, <1>6

\* ById lists each step once, in the order of the ids.
LEMMA ByIdSorts ==
  ASSUME NEW S \in SUBSET Steps, IsFiniteSet(S), UniqueIds(S)
  PROVE  /\ ById(S) \in Seq(S) /\ Len(ById(S)) = Cardinality(S)
         /\ ToSet(ById(S)) = S
         /\ \A n \in DOMAIN ById(S) : Rank(S, ById(S)[n]) = n
         /\ \A s \in S : Rank(S, s) \in DOMAIN ById(S) /\ ById(S)[Rank(S, s)] = s
<1>1. Cardinality(S) \in Nat /\ DOMAIN ById(S) = 1 .. Cardinality(S)
  BY Ranks DEF ById
<1>2. ASSUME NEW n \in 1 .. Cardinality(S)
      PROVE  ById(S)[n] \in S /\ Rank(S, ById(S)[n]) = n
  <2>1. \E s \in S : Cardinality({q \in S : q.id <= s.id}) = n
    BY <1>2, Ranks DEF Rank
  <2> QED
    BY <2>1 DEF Rank, ById
<1>3. ASSUME NEW s \in S PROVE Rank(S, s) \in DOMAIN ById(S) /\ ById(S)[Rank(S, s)] = s
  BY <1>1, <1>2, Ranks
<1>4. ById(S) \in Seq(S) /\ Len(ById(S)) = Cardinality(S)
  <2>1. ById(S) \in [1 .. Cardinality(S) -> S]
    BY <1>2 DEF ById
  <2> QED
    BY <1>1, <2>1
<1>5. ToSet(ById(S)) = S
  BY <1>1, <1>2, <1>3 DEF ToSet
<1> QED
  BY <1>1, <1>2, <1>3, <1>4, <1>5

\* No id occurs twice in a sorted list.
LEMMA ByIdInjective ==
  ASSUME NEW S \in SUBSET Steps, IsFiniteSet(S), UniqueIds(S),
         NEW m \in DOMAIN ById(S), NEW n \in DOMAIN ById(S),
         ById(S)[m].id = ById(S)[n].id
  PROVE  m = n
<1>1. ById(S)[m] \in S /\ ById(S)[n] \in S
  BY ByIdSorts
<1>2. ById(S)[m] = ById(S)[n]
  BY <1>1 DEF UniqueIds
<1> QED
  BY <1>2, ByIdSorts

\* No id occurs twice in a list.
OnceEach(l) == \A m, n \in DOMAIN l : l[m].id = l[n].id => m = n

LEMMA Concatenated ==
  ASSUME NEW a \in Seq(Steps), NEW b \in Seq(Steps)
  PROVE  /\ a \o b \in Seq(Steps)
         /\ ToSet(a \o b) = ToSet(a) \cup ToSet(b)
         /\ /\ OnceEach(a) /\ OnceEach(b)
            /\ \A p \in ToSet(a), q \in ToSet(b) : p.id # q.id
            => OnceEach(a \o b)
<1>1. /\ Len(a) \in Nat /\ Len(b) \in Nat
      /\ DOMAIN a = 1 .. Len(a) /\ DOMAIN b = 1 .. Len(b)
  OBVIOUS
<1>2. /\ a \o b \in Seq(Steps) /\ DOMAIN (a \o b) = 1 .. Len(a) + Len(b)
      /\ \A n \in 1 .. Len(a) + Len(b) : (a \o b)[n] = IF n <= Len(a) THEN a[n] ELSE b[n - Len(a)]
  BY ConcatProperties
<1>3. ToSet(a \o b) = ToSet(a) \cup ToSet(b)
  <2>1. ASSUME NEW n \in DOMAIN (a \o b) PROVE (a \o b)[n] \in ToSet(a) \cup ToSet(b)
    <3>1. CASE n <= Len(a)
      BY <1>1, <1>2, <2>1, <3>1 DEF ToSet
    <3>2. CASE n > Len(a)
      <4>1. n - Len(a) \in DOMAIN b /\ (a \o b)[n] = b[n - Len(a)]
        BY <1>1, <1>2, <2>1, <3>2
      <4> QED
        BY <4>1 DEF ToSet
    <3> QED
      BY <1>1, <1>2, <2>1, <3>1, <3>2
  <2>2. ASSUME NEW n \in DOMAIN a PROVE a[n] \in ToSet(a \o b)
    BY <1>1, <1>2, <2>2 DEF ToSet
  <2>3. ASSUME NEW n \in DOMAIN b PROVE b[n] \in ToSet(a \o b)
    <3>1. n + Len(a) \in DOMAIN (a \o b) /\ (a \o b)[n + Len(a)] = b[n]
      BY <1>1, <1>2, <2>3
    <3> QED
      BY <3>1 DEF ToSet
  <2> QED
    BY <2>1, <2>2, <2>3 DEF ToSet
<1>4. ASSUME OnceEach(a), OnceEach(b), \A p \in ToSet(a), q \in ToSet(b) : p.id # q.id,
             NEW m \in DOMAIN (a \o b), NEW n \in DOMAIN (a \o b),
             (a \o b)[m].id = (a \o b)[n].id
      PROVE  m = n
  <2>1. CASE m <= Len(a) /\ n <= Len(a)
    BY <1>1, <1>2, <1>4, <2>1 DEF OnceEach
  <2>2. CASE m > Len(a) /\ n > Len(a)
    <3>1. /\ m - Len(a) \in DOMAIN b /\ n - Len(a) \in DOMAIN b
          /\ b[m - Len(a)].id = b[n - Len(a)].id
      BY <1>1, <1>2, <1>4, <2>2
    <3>2. m - Len(a) = n - Len(a)
      BY <1>4, <3>1 DEF OnceEach
    <3> QED
      BY <1>1, <1>2, <1>4, <3>2
  <2>3. ASSUME NEW i \in DOMAIN (a \o b), NEW j \in DOMAIN (a \o b), i <= Len(a), j > Len(a)
        PROVE  (a \o b)[i].id # (a \o b)[j].id
    <3>1. i \in DOMAIN a /\ (a \o b)[i] = a[i]
      BY <1>1, <1>2, <2>3
    <3>2. j - Len(a) \in DOMAIN b /\ (a \o b)[j] = b[j - Len(a)]
      BY <1>1, <1>2, <2>3
    <3> QED
      BY <1>4, <3>1, <3>2 DEF ToSet
  <2> QED
    BY <1>1, <1>2, <1>4, <2>1, <2>2, <2>3
<1> QED
  BY <1>2, <1>3, <1>4 DEF OnceEach

LEMMA EditedStep ==
  ASSUME NEW s \in Steps
  PROVE  /\ Edited(s) \in Steps
         /\ setting.edit = "payload" => Edited(s).id = s.id
<1>1. s \in [id : Nat, group : Groups \cup {None}, take : Recorders, edited : BOOLEAN]
  BY ColumnsAssumption
<1>2. [s EXCEPT !.edited = TRUE].id = s.id
  BY <1>1
<1> QED
  BY <1>2, ColumnsAssumption DEF Edited

\* A fork stores what it should hold, under different ids unless it edits one.
LEMMA PlanIsFork ==
  ASSUME NEW S \in SUBSET Steps, IsFiniteSet(S), UniqueIds(S), NEW s \in S
  PROVE  /\ Plan(S, s) \in Seq(Steps)
         /\ ToSet(Plan(S, s)) = ForkOf(S, s.id, Edited(s))
         /\ setting.edit = "payload" => OnceEach(Plan(S, s))
<1> DEFINE B == SiblingsOf(S, s)
           A == {q \in S : q.id < s.id} \ B
           e == <<Edited(s)>>
<1>0. s.id \in Nat /\ \A q \in S : q.id \in Nat
  BY StepsAssumption
<1>1. A \in SUBSET S /\ B \in SUBSET S
  BY DEF SiblingsOf
<1>2. IsFiniteSet(A) /\ IsFiniteSet(B) /\ UniqueIds(A) /\ UniqueIds(B)
  BY <1>1, FS_Subset DEF UniqueIds
<1>3. /\ ById(A) \in Seq(A) /\ ToSet(ById(A)) = A /\ OnceEach(ById(A))
      /\ ById(B) \in Seq(B) /\ ToSet(ById(B)) = B /\ OnceEach(ById(B))
  <2>1. A \in SUBSET Steps /\ B \in SUBSET Steps
    BY <1>1
  <2> QED
    BY <1>2, <2>1, ByIdSorts, ByIdInjective DEF OnceEach
<1>4. /\ e \in Seq(Steps) /\ ToSet(e) = {Edited(s)} /\ OnceEach(e)
      /\ setting.edit = "payload" => Edited(s).id = s.id
  <2>1. Edited(s) \in Steps /\ (setting.edit = "payload" => Edited(s).id = s.id)
    BY EditedStep
  <2>2. e \in Seq(Steps) /\ DOMAIN e = {1} /\ e[1] = Edited(s)
    BY <2>1
  <2> QED
    BY <2>1, <2>2 DEF ToSet, OnceEach
<1>5. ById(A) \in Seq(Steps) /\ ById(B) \in Seq(Steps)
  BY <1>1, <1>3, SeqMonotonic
<1>6. (\A p \in A, q \in B : p.id # q.id) /\ \A p \in A \cup B : p.id # s.id
  BY <1>0, <1>1 DEF UniqueIds, SiblingsOf
<1>7. Plan(S, s) = (ById(A) \o e) \o ById(B)
  BY DEF Plan
<1>8. StepAt(S, s.id) = s
  BY DEF StepAt, UniqueIds
<1>9. A \cup {Edited(s)} \cup B = ForkOf(S, s.id, Edited(s))
  BY <1>0, <1>8 DEF ForkOf, SiblingsOf, UniqueIds
<1> HIDE DEF A, B, e
<1>10. /\ ById(A) \o e \in Seq(Steps)
       /\ ToSet(ById(A) \o e) = A \cup {Edited(s)}
       /\ setting.edit = "payload" => OnceEach(ById(A) \o e)
  BY <1>3, <1>4, <1>5, <1>6, Concatenated
<1>11. /\ Plan(S, s) \in Seq(Steps)
       /\ ToSet(Plan(S, s)) = (A \cup {Edited(s)}) \cup B
       /\ setting.edit = "payload" => OnceEach(Plan(S, s))
  <2> DEFINE ae == ById(A) \o e
  <2>1. /\ ae \in Seq(Steps) /\ ToSet(ae) = A \cup {Edited(s)}
        /\ setting.edit = "payload" => OnceEach(ae)
    BY <1>10
  <2>2. setting.edit = "payload" => \A p \in A \cup {Edited(s)}, q \in B : p.id # q.id
    BY <1>4, <1>6
  <2> HIDE DEF ae
  <2>3. /\ ae \o ById(B) \in Seq(Steps)
        /\ ToSet(ae \o ById(B)) = ToSet(ae) \cup ToSet(ById(B))
        /\ /\ OnceEach(ae) /\ OnceEach(ById(B))
           /\ \A p \in ToSet(ae), q \in ToSet(ById(B)) : p.id # q.id
           => OnceEach(ae \o ById(B))
    BY <1>5, <2>1, Concatenated
  <2> QED
    BY <1>3, <1>7, <2>1, <2>2, <2>3 DEF ae
<1> QED
  BY <1>9, <1>11

-----------------------------------------------------------------------------
(***************************************************************************)
(* Recorders and forks: types                                              *)
(***************************************************************************)
Jobs == {"delete", "start", "append", "done", "failed"}
Phases == {"read", "refused", "steps", "start", "copy", "orig steps", "copied", "copy steps",
           "done", "failed"}

Forks ==
  [pc : Phases, parent : RunIds \cup {None}, doc : SUBSET Steps, at : Nat \cup {None},
   edited : Steps \cup {None}, todo : Seq(Steps),
   orig : Steps \cup {None}, copy : Steps \cup {None}]

JobInv ==
  /\ setting \in Settings
  /\ job \in [Recorders -> Jobs]
  /\ shape \in [Recorders -> Shapes]
  /\ count \in [Recorders -> Nat]
  /\ \A r \in Recorders : count[r] \in 0 .. Len(shape[r])

ForkType ==
  /\ fork \in [Forkers -> Forks]
  /\ \A f \in Forkers : fork[f].pc # "read" => fork[f].parent \in RunIds

\* What is read is finite: it was stored one by one.
FiniteIn(v) == \A r \in RunIds : IsFiniteSet(v.steps[r])
FiniteViews == FiniteIn(Committed) /\ \A c \in Conns : tx[c] = "snapshot" => FiniteIn(seen[c])

RunOf(r) == setting.writes[r]

LEMMA JobFacts ==
  ASSUME JobInv, NEW r \in Recorders
  PROVE  /\ r \in Conns /\ Api \in Conns /\ r # Api /\ r \in Takes
         /\ RunOf(r) \in RunIds
         /\ Len(shape[r]) \in Nat /\ DOMAIN shape[r] = 1 .. Len(shape[r])
         /\ \A n \in 1 .. Len(shape[r]) : StepOf(r, n) \in Steps
<1>1. shape[r] \in Shapes /\ shape[r] \in Seq(Groups \cup {None})
  BY JobsAssumption DEF JobInv
<1>2. setting.writes \in [Recorders -> RunIds]
  BY JobsAssumption DEF JobInv
<1> QED
  BY <1>1, <1>2, ColumnsAssumption, ConnsAssumption, TakesAssumption DEF StepOf, RunOf

LEMMA FiniteStep == IInv /\ FiniteViews /\ [Next]_vars => FiniteViews'
<1> SUFFICES ASSUME IInv, FiniteViews, [Next]_vars PROVE FiniteViews'
  OBVIOUS
<1>0. /\ runs \in [RunIds -> Headers \cup {None}] /\ steps \in [RunIds -> SUBSET Steps]
      /\ seen \in [Conns -> Views \cup {None}] /\ tx \in [Conns -> {"none", "begun", "snapshot", "lock"}]
  BY DEF IInv, TypeOK, Committed, Views
<1>1. ASSUME NEW c \in Conns, NEW rs, NEW ss, Commit(c, rs, ss),
             \A r \in RunIds : IsFiniteSet(ss[r])
      PROVE  FiniteViews'
  <2>1. tx' = [tx EXCEPT ![c] = "none"] /\ seen' = [seen EXCEPT ![c] = None] /\ steps' = ss
    BY <1>1 DEF Commit
  <2> QED
    BY <1>0, <1>1, <2>1 DEF FiniteViews, FiniteIn, Committed
<1>2. ASSUME NEW c \in Conns, Reject(c) PROVE FiniteViews'
  <2>1. tx' = [tx EXCEPT ![c] = "lock"] /\ seen' = [seen EXCEPT ![c] = None] /\ steps' = steps
    BY <1>2 DEF Reject
  <2> QED
    BY <1>0, <2>1 DEF FiniteViews, FiniteIn, Committed
<1>3. ASSUME NEW c \in Conns, Select(c), steps' = steps PROVE FiniteViews'
  BY <1>0, <1>3 DEF Select, FiniteViews, FiniteIn, Committed
<1>4. ASSUME NEW c \in Conns, Locked(c) PROVE FiniteViews'
  BY <1>0, <1>4 DEF Locked, FiniteViews, FiniteIn, Committed
<1>5. ASSUME NEW c \in Conns, Close(c) PROVE FiniteViews'
  BY <1>0, <1>5 DEF Close, FiniteViews, FiniteIn, Committed
<1>6. \A r \in RunIds : IsFiniteSet(steps[r])
  BY DEF FiniteViews, FiniteIn, Committed
<1>7. ASSUME NEW c \in Conns, NEW r \in RunIds, NEW s \in Steps, AppendStep(c, r, s)
      PROVE  FiniteViews'
  <2> DEFINE ss == [steps EXCEPT ![r] = @ \cup {s}]
  <2>1. \A q \in RunIds : IsFiniteSet(ss[q])
    BY <1>0, <1>6, FS_AddElement
  <2> QED
    BY <1>1, <1>7, <2>1 DEF AppendStep
<1>8. ASSUME NEW c \in Conns, NEW r \in RunIds, DeleteRun(c, r) PROVE FiniteViews'
  <2> DEFINE ss == [steps EXCEPT ![r] = {}]
  <2>1. \A q \in RunIds : IsFiniteSet(ss[q])
    BY <1>0, <1>6, FS_EmptySet
  <2> QED
    BY <1>1, <1>8, <2>1 DEF DeleteRun
<1>9. CASE UNCHANGED vars
  BY <1>9 DEF vars, FiniteViews, FiniteIn, Committed
<1>10. CASE Next
  <2>1. PICK c \in Conns :
          \/ \E r \in RunIds :
               \/ \E t \in Takes : StartRun(c, r, t)
               \/ StartClash(c, r)
               \/ \E s \in Steps : AppendStep(c, r, s) \/ AppendClash(c, r, s)
               \/ \E status \in {"ok", "error"} : FinishRun(c, r, status)
               \/ DeleteRun(c, r)
               \/ GetRunHeader(c, r)
          \/ GetRunSteps(c) \/ ListRuns(c) \/ Locked(c) \/ Close(c)
    BY <1>10 DEF Next
  <2>2. ASSUME NEW r \in RunIds, StartClash(c, r) PROVE FiniteViews'
    BY <1>2, <2>2 DEF StartClash
  <2>3. ASSUME NEW r \in RunIds, NEW s \in Steps, AppendClash(c, r, s) PROVE FiniteViews'
    BY <1>2, <2>3 DEF AppendClash
  <2>4. ASSUME NEW r \in RunIds, NEW t \in Takes, StartRun(c, r, t) PROVE FiniteViews'
    BY <1>1, <1>6, <2>4 DEF StartRun
  <2>5. ASSUME NEW r \in RunIds, NEW status, FinishRun(c, r, status) PROVE FiniteViews'
    BY <1>1, <1>6, <2>5 DEF FinishRun
  <2>6. ASSUME NEW r \in RunIds, GetRunHeader(c, r) PROVE FiniteViews'
    BY <1>3, <2>6 DEF GetRunHeader
  <2>7. CASE GetRunSteps(c) \/ ListRuns(c)
    BY <1>3, <2>7 DEF GetRunSteps, ListRuns
  <2> QED
    BY <1>4, <1>5, <1>7, <1>8, <2>1, <2>2, <2>3, <2>4, <2>5, <2>6, <2>7
<1> QED
  BY <1>9, <1>10

\* Recorders and forks are clients of the store.
LEMMA RecorderCalls ==
  ASSUME JobInv, NEW r \in Recorders, RecorderStep(r)
  PROVE  Next
<1> USE JobFacts DEF Next
<1>1. CASE Delete(r)
  BY <1>1 DEF Delete, RunOf
<1>2. CASE Start(r)
  BY <1>2 DEF Start, RunOf
<1>3. CASE Store(r)
  <2> DEFINE s == StepOf(r, count[r] + 1)
  <2>1. s \in Steps
    BY <1>3 DEF Store, JobInv
  <2>2. AppendStep(r, RunOf(r), s) \/ AppendClash(r, RunOf(r), s) \/ Locked(r)
    BY <1>3 DEF Store, RunOf
  <2> HIDE DEF s
  <2> QED
    BY <2>1, <2>2
<1>4. CASE Finish(r)
  BY <1>4 DEF Finish, RunOf
<1>5. CASE End(r)
  BY <1>5 DEF End
<1> QED
  BY <1>1, <1>2, <1>3, <1>4, <1>5 DEF RecorderStep

LEMMA ForkCalls ==
  ASSUME JobInv, ForkType, NEW f \in Forkers, ForkStep(f)
  PROVE  Next
<1>0. /\ Api \in Conns /\ ForkId[f] \in RunIds /\ f \in Takes
      /\ fork[f] \in Forks /\ (fork[f].pc # "read" => fork[f].parent \in RunIds)
  BY ConnsAssumption, JobsAssumption, TakesAssumption DEF ForkType
<1> USE <1>0 DEF Next
<1>1. CASE ForkReads(f)
  <2>1. PICK q \in Recorders : GetRunHeader(Api, RunOf(q))
    BY <1>1 DEF ForkReads, RunOf
  <2> QED
    BY <2>1, JobFacts
<1>2. CASE ForkPlans(f) \/ CompareOrig(f) \/ CompareCopy(f)
  BY <1>2 DEF ForkPlans, CompareOrig, CompareCopy
<1>3. CASE ForkStarts(f)
  BY <1>3 DEF ForkStarts
<1>4. CASE ForkCopies(f)
  <2> DEFINE s == Head(fork[f].todo)
  <2>1. s \in Steps
    BY <1>4 DEF ForkCopies, Forks
  <2>2. AppendStep(Api, ForkId[f], s) \/ AppendClash(Api, ForkId[f], s) \/ Locked(Api)
    BY <1>4 DEF ForkCopies
  <2> HIDE DEF s
  <2> QED
    BY <2>1, <2>2
<1>5. CASE CompareReads(f)
  BY <1>5 DEF CompareReads
<1> QED
  BY <1>1, <1>2, <1>3, <1>4, <1>5 DEF ForkStep

-----------------------------------------------------------------------------
(***************************************************************************)
(* Recorders and forks: the invariant                                      *)
(*                                                                         *)
(* A recorder changes only the run it writes and a fork only its own, so   *)
(* that what a fork has stored and what it has still to store are together *)
(* what it should hold (CopyInv).  The connection of the server is inside  *)
(* get_run for at most one fork (ReadInv).  If the recorders write runs of *)
(* their own and the ids of a fork are unused, a run holds exactly what    *)
(* its recorder has counted, no run is ever deleted, and what a fork read  *)
(* is still in its parent (OrdInv).                                        *)
(***************************************************************************)
Unstarted == {"read", "refused", "steps", "start"}
Inside == {"steps", "orig steps", "copy steps"}

Copying(f) ==
  /\ fork[f].pc \in Unstarted => runs[ForkId[f]] = None /\ steps[ForkId[f]] = {}
  /\ fork[f].pc \in {"copy"} \cup Forked => runs[ForkId[f]] # None
  /\ fork[f].pc \in {"start", "copy"} \cup Forked =>
       steps[ForkId[f]] \cup ToSet(fork[f].todo) = ForkOf(fork[f].doc, fork[f].at, fork[f].edited)
  /\ fork[f].pc \in Forked => fork[f].todo = <<>>

CopyInv == \A f \in Forkers : Copying(f)

Target(f) == IF fork[f].pc = "copy steps" THEN ForkId[f] ELSE fork[f].parent

ReadInv ==
  /\ \A f \in Forkers : fork[f].pc \in Inside =>
       reading[Api] # None /\ reading[Api].run = Target(f)
  /\ \A f, g \in Forkers : fork[f].pc \in Inside /\ fork[g].pc \in Inside => f = g

RecorderInv(r) ==
  /\ steps[RunOf(r)] = {StepOf(r, n) : n \in 1 .. count[r]}
  /\ job[r] \in {"delete", "start"} => runs[RunOf(r)] = None /\ count[r] = 0
  /\ job[r] = "append" => runs[RunOf(r)] = [take |-> r, status |-> None]
  /\ job[r] = "done" => runs[RunOf(r)] = [take |-> r, status |-> "ok"] /\ count[r] = Len(shape[r])

ForkInv(f) ==
  /\ fork[f].pc # "failed"
  /\ fork[f].pc \in {"start", "copy"} =>
       /\ OnceEach(fork[f].todo)
       /\ \A p \in ToSet(fork[f].todo), q \in steps[ForkId[f]] : p.id # q.id
  /\ fork[f].pc \notin {"read", "refused"} =>
       /\ \E q \in Recorders : fork[f].parent = RunOf(q)
       /\ runs[fork[f].parent] # None
  /\ fork[f].pc \in {"start", "copy"} \cup Forked =>
       /\ fork[f].doc \subseteq steps[fork[f].parent]
       /\ \E s \in fork[f].doc : s.id = fork[f].at /\ fork[f].edited = Edited(s)
  /\ fork[f].pc \in {"copied", "copy steps", "done"} =>
       fork[f].orig = StepAt(fork[f].doc, fork[f].at)
  /\ fork[f].pc = "done" => fork[f].copy = fork[f].edited

OrdInv == Ordinary =>
  ~rejected /\ (\A r \in Recorders : RecorderInv(r)) /\ \A f \in Forkers : ForkInv(f)

\* A recorder changes its own run and nothing the server is doing.
LEMMA RecorderEffect ==
  ASSUME IInv, JobInv, NEW r \in Recorders, RecorderStep(r), UNCHANGED setting
  PROVE  /\ UNCHANGED <<shape, fork>> /\ reading'[Api] = reading[Api]
         /\ \A q \in RunIds \ {RunOf(r)} : runs'[q] = runs[q] /\ steps'[q] = steps[q]
         /\ \A q \in Recorders \ {r} : job'[q] = job[q] /\ count'[q] = count[q]
         /\ JobInv'
<1>0. /\ runs \in [RunIds -> Headers \cup {None}] /\ steps \in [RunIds -> SUBSET Steps]
      /\ reading \in [Conns -> [run : RunIds, header : Headers] \cup {None}]
      /\ r \in Conns /\ Api \in Conns /\ r # Api /\ RunOf(r) \in RunIds
      /\ Len(shape[r]) \in Nat
      /\ job \in [Recorders -> Jobs] /\ count \in [Recorders -> Nat]
      /\ \A q \in Recorders : count[q] \in 0 .. Len(shape[q])
  BY JobFacts DEF IInv, TypeOK, Committed, Views, JobInv
<1> DEFINE Frame == /\ UNCHANGED <<shape, fork>> /\ reading'[Api] = reading[Api]
                    /\ \A q \in RunIds \ {RunOf(r)} : runs'[q] = runs[q] /\ steps'[q] = steps[q]
                    /\ \A q \in Recorders \ {r} : job'[q] = job[q]
<1>1. CASE Delete(r)
  <2>1. Frame /\ job' \in [Recorders -> Jobs] /\ UNCHANGED count
    BY <1>0, <1>1 DEF Delete, GoOn, Jobs, DeleteRun, Commit, Locked, RunOf
  <2> QED
    BY <2>1 DEF JobInv
<1>2. CASE Start(r)
  <2>1. Frame /\ job' \in [Recorders -> Jobs] /\ UNCHANGED count
    BY <1>0, <1>2 DEF Start, GoOn, Jobs, StartRun, StartClash, Commit, Reject, Locked, RunOf
  <2> QED
    BY <2>1 DEF JobInv
<1>3. CASE Store(r)
  <2> DEFINE s == StepOf(r, count[r] + 1)
  <2>1. UNCHANGED <<job, shape, fork>> /\ count' = [count EXCEPT ![r] = @ + 1] /\ count[r] < Len(shape[r])
    BY <1>3 DEF Store
  <2>2. AppendStep(r, RunOf(r), s) \/ AppendClash(r, RunOf(r), s) \/ Locked(r)
    BY <1>3 DEF Store, RunOf
  <2> HIDE DEF s
  <2>3. reading'[Api] = reading[Api]
        /\ \A q \in RunIds \ {RunOf(r)} : runs'[q] = runs[q] /\ steps'[q] = steps[q]
    BY <1>0, <2>2 DEF AppendStep, AppendClash, Commit, Reject, Locked
  <2>4. count' \in [Recorders -> Nat] /\ (\A q \in Recorders \ {r} : count'[q] = count[q])
        /\ \A q \in Recorders : count'[q] \in 0 .. Len(shape[q])
    BY <1>0, <2>1
  <2> QED
    BY <2>1, <2>3, <2>4 DEF JobInv
<1>4. CASE Finish(r)
  <2>1. Frame /\ job' \in [Recorders -> Jobs] /\ UNCHANGED count
    BY <1>0, <1>4 DEF Finish, GoOn, Jobs, FinishRun, Commit, Locked, RunOf
  <2> QED
    BY <2>1 DEF JobInv
<1>5. CASE End(r)
  <2>1. Frame /\ job' \in [Recorders -> Jobs] /\ UNCHANGED count
    BY <1>0, <1>5 DEF End, GoOn, Jobs, Close
  <2> QED
    BY <2>1 DEF JobInv
<1> QED
  BY <1>1, <1>2, <1>3, <1>4, <1>5 DEF RecorderStep

\* What get_run returns is well formed.
LEMMA DocumentRead ==
  ASSUME IInv, FiniteViews, NEW c \in Conns, reading[c] # None
  PROVE  LET S == Document(c).steps
         IN  S \in SUBSET Steps /\ IsFiniteSet(S) /\ UniqueIds(S) /\ reading[c].run \in RunIds
<1>1. reading[c].run \in RunIds
  BY DEF IInv, TypeOK
<1>2. ViewOf(c) \in Views /\ WholeIn(ViewOf(c)) /\ FiniteIn(ViewOf(c))
  BY DEF IInv, TypeOK, ViewOf, SnapshotsWhole, FiniteViews
<1> QED
  BY <1>1, <1>2 DEF Views, WholeIn, FiniteIn, UniqueIds, Document

\* A call of fork moves on.
LEMMA GotoType ==
  ASSUME ForkType, NEW f \in Forkers, fork[f].pc # "read", NEW pc \in Phases \ {"read"},
         fork' = [fork EXCEPT ![f].pc = pc]
  PROVE  ForkType' /\ \A g \in Forkers \ {f} : fork'[g] = fork[g]
<1>1. fork \in [Forkers -> Forks] /\ fork[f] \in Forks
  BY DEF ForkType
<1>2. fork' = [fork EXCEPT ![f] = [fork[f] EXCEPT !.pc = pc]]
  OBVIOUS
<1>3. [fork[f] EXCEPT !.pc = pc] \in Forks /\ [fork[f] EXCEPT !.pc = pc].parent = fork[f].parent
  BY <1>1 DEF Forks
<1> QED
  BY <1>1, <1>2, <1>3 DEF ForkType

\* A fork changes its own run.
LEMMA ForkEffect ==
  ASSUME IInv, JobInv, FiniteViews, ForkType, NEW f \in Forkers, ForkStep(f), UNCHANGED setting
  PROVE  /\ UNCHANGED jobVars
         /\ \A g \in Forkers \ {f} : fork'[g] = fork[g]
         /\ \A q \in RunIds \ {ForkId[f]} : runs'[q] = runs[q] /\ steps'[q] = steps[q]
         /\ ForkType'
<1>0. /\ runs \in [RunIds -> Headers \cup {None}] /\ steps \in [RunIds -> SUBSET Steps]
      /\ Api \in Conns /\ ForkId[f] \in RunIds /\ f \in Takes
      /\ fork \in [Forkers -> Forks] /\ \A g \in Forkers : fork[g].pc # "read" => fork[g].parent \in RunIds
  BY ConnsAssumption, JobsAssumption, TakesAssumption DEF ForkType, IInv, TypeOK, Committed, Views
<1>01. fork[f] \in Forks
  BY <1>0
<1> DEFINE Frame == /\ UNCHANGED jobVars
                    /\ \A g \in Forkers \ {f} : fork'[g] = fork[g]
                    /\ \A q \in RunIds \ {ForkId[f]} : runs'[q] = runs[q] /\ steps'[q] = steps[q]
           Typed == fork'[f] \in Forks /\ (fork'[f].pc # "read" => fork'[f].parent \in RunIds)
<1>1. CASE ForkReads(f)
  <2>1. PICK q \in Recorders :
          /\ fork[f].pc = "read"
          /\ GetRunHeader(Api, RunOf(q))
          /\ fork' = [fork EXCEPT ![f].pc = IF ViewOf(Api).runs[RunOf(q)] = None THEN "refused" ELSE "steps",
                                  ![f].parent = RunOf(q)]
    BY <1>1 DEF ForkReads, RunOf
  <2>2. RunOf(q) \in RunIds
    BY JobFacts
  <2>3. Frame /\ Typed /\ fork' \in [Forkers -> Forks]
    BY <1>0, <1>01, <1>1, <2>1, <2>2 DEF ForkReads, GetRunHeader, Forks, Phases, jobVars
  <2> QED
    BY <1>0, <2>3 DEF ForkType
<1>2. CASE ForkPlans(f)
  <2> DEFINE S == Document(Api).steps
  <2>1. /\ fork[f].pc = "steps" /\ GetRunSteps(Api) /\ UNCHANGED jobVars
        /\ \/ fork' = [fork EXCEPT ![f].pc = "refused"]
           \/ \E s \in S :
                fork' = [fork EXCEPT ![f].pc = "start", ![f].doc = S, ![f].at = s.id,
                                     ![f].edited = Edited(s), ![f].todo = Plan(S, s)]
    BY <1>2 DEF ForkPlans
  <2>2. reading[Api] # None
    BY <2>1 DEF GetRunSteps, Free
  <2>3. S \in SUBSET Steps /\ IsFiniteSet(S) /\ UniqueIds(S)
    BY <1>0, <2>2, DocumentRead
  <2> HIDE DEF S
  <2>4. \A s \in S : s.id \in Nat /\ Edited(s) \in Steps /\ Plan(S, s) \in Seq(Steps)
    BY <2>3, PlanIsFork, EditedStep, StepsAssumption
  <2>5. Typed /\ fork' \in [Forkers -> Forks]
    <3>1. CASE fork' = [fork EXCEPT ![f].pc = "refused"]
      BY <1>0, <2>1, <3>1, GotoType DEF Phases, ForkType
    <3>2. ASSUME NEW s \in S,
                 fork' = [fork EXCEPT ![f].pc = "start", ![f].doc = S, ![f].at = s.id,
                                      ![f].edited = Edited(s), ![f].todo = Plan(S, s)]
          PROVE  Typed /\ fork' \in [Forkers -> Forks]
      <4> DEFINE new == [fork[f] EXCEPT !.pc = "start", !.doc = S, !.at = s.id,
                                        !.edited = Edited(s), !.todo = Plan(S, s)]
      <4>1. new \in Forks /\ new.parent = fork[f].parent
        BY <1>01, <2>3, <2>4 DEF Forks, Phases
      <4>2. fork' = [fork EXCEPT ![f] = new]
        BY <3>2
      <4> HIDE DEF new
      <4> QED
        BY <1>0, <2>1, <4>1, <4>2
    <3> QED
      BY <2>1, <3>1, <3>2
  <2>6. Frame
    BY <1>0, <2>1 DEF GetRunSteps
  <2> QED
    BY <1>0, <2>5, <2>6 DEF ForkType
<1>3. CASE ForkStarts(f)
  <2>1. PICK pc \in {"copy", "failed"} : Goto(f, pc)
    BY <1>3 DEF ForkStarts
  <2>2. ForkType' /\ UNCHANGED jobVars /\ \A g \in Forkers \ {f} : fork'[g] = fork[g]
    BY <1>3, <2>1, GotoType DEF Goto, Phases, ForkStarts
  <2>3. \A q \in RunIds \ {ForkId[f]} : runs'[q] = runs[q] /\ steps'[q] = steps[q]
    BY <1>0, <1>3 DEF ForkStarts, StartRun, StartClash, Commit, Reject, Locked
  <2> QED
    BY <2>2, <2>3
<1>4. CASE ForkCopies(f)
  <2> DEFINE s == Head(fork[f].todo)
  <2>1. /\ AppendStep(Api, ForkId[f], s) \/ AppendClash(Api, ForkId[f], s) \/ Locked(Api)
        /\ UNCHANGED jobVars
        /\ fork' = [fork EXCEPT ![f].todo = Tail(@)] \/ fork' = [fork EXCEPT ![f].pc = "failed"]
        /\ fork[f].pc = "copy" /\ fork[f].todo # <<>>
    BY <1>4 DEF ForkCopies, Goto
  <2> HIDE DEF s
  <2>2. Tail(fork[f].todo) \in Seq(Steps)
    BY <1>01, <2>1 DEF Forks
  <2>3. Typed /\ fork' \in [Forkers -> Forks]
    <3>1. CASE fork' = [fork EXCEPT ![f].pc = "failed"]
      BY <1>0, <2>1, <3>1, GotoType DEF Phases, ForkType
    <3>2. CASE fork' = [fork EXCEPT ![f].todo = Tail(@)]
      <4> DEFINE new == [fork[f] EXCEPT !.todo = Tail(@)]
      <4>1. new \in Forks /\ new.parent = fork[f].parent
        BY <1>01, <2>2 DEF Forks
      <4>2. fork' = [fork EXCEPT ![f] = new]
        BY <3>2
      <4> HIDE DEF new
      <4> QED
        BY <1>0, <2>1, <4>1, <4>2
    <3> QED
      BY <2>1, <3>1, <3>2
  <2>4. Frame
    BY <1>0, <2>1 DEF AppendStep, AppendClash, Commit, Reject, Locked
  <2> QED
    BY <1>0, <2>3, <2>4 DEF ForkType
<1>5. CASE CompareReads(f)
  <2>1. PICK pc \in {"failed", "orig steps", "copy steps"} : Goto(f, pc)
    BY <1>5 DEF CompareReads
  <2>2. ForkType' /\ UNCHANGED jobVars /\ \A g \in Forkers \ {f} : fork'[g] = fork[g]
    BY <1>5, <2>1, GotoType DEF Goto, Phases, CompareReads
  <2>3. UNCHANGED <<runs, steps>>
    BY <1>5 DEF CompareReads, GetRunHeader
  <2> QED
    BY <2>2, <2>3
<1>6. CASE CompareOrig(f) \/ CompareCopy(f)
  <2> DEFINE S == Document(Api).steps
             found == StepOrNone(S, fork[f].at)
  <2>1. /\ GetRunSteps(Api) /\ UNCHANGED jobVars
        /\ \/ fork' = [fork EXCEPT ![f].pc = "copied", ![f].orig = found]
           \/ fork' = [fork EXCEPT ![f].pc = "done", ![f].copy = found]
        /\ fork[f].pc \in Inside
    BY <1>6 DEF CompareOrig, CompareCopy, Inside
  <2>2. reading[Api] # None
    BY <2>1 DEF GetRunSteps, Free
  <2>3. found \in Steps \cup {None}
    BY <1>0, <2>2, DocumentRead DEF StepOrNone, StepAt
  <2> HIDE DEF found
  <2>4. Typed /\ fork' \in [Forkers -> Forks]
    <3>1. CASE fork' = [fork EXCEPT ![f].pc = "copied", ![f].orig = found]
      <4> DEFINE new == [fork[f] EXCEPT !.pc = "copied", !.orig = found]
      <4>1. new \in Forks /\ new.parent = fork[f].parent
        BY <1>01, <2>3 DEF Forks, Phases
      <4>2. fork' = [fork EXCEPT ![f] = new]
        BY <3>1
      <4> HIDE DEF new
      <4> QED
        BY <1>0, <2>1, <4>1, <4>2 DEF Inside
    <3>2. CASE fork' = [fork EXCEPT ![f].pc = "done", ![f].copy = found]
      <4> DEFINE new == [fork[f] EXCEPT !.pc = "done", !.copy = found]
      <4>1. new \in Forks /\ new.parent = fork[f].parent
        BY <1>01, <2>3 DEF Forks, Phases
      <4>2. fork' = [fork EXCEPT ![f] = new]
        BY <3>2
      <4> HIDE DEF new
      <4> QED
        BY <1>0, <2>1, <4>1, <4>2 DEF Inside
    <3> QED
      BY <2>1, <3>1, <3>2
  <2>5. Frame
    BY <1>0, <2>1 DEF GetRunSteps
  <2> QED
    BY <1>0, <2>4, <2>5 DEF ForkType
<1> QED
  BY <1>1, <1>2, <1>3, <1>4, <1>5, <1>6 DEF ForkStep

\* What compare has found, and what fork has planned, changes nothing else.
LEMMA Found ==
  ASSUME ForkType, NEW f \in Forkers, NEW found
  PROVE  /\ fork' = [fork EXCEPT ![f].pc = "copied", ![f].orig = found] =>
              fork'[f] = [fork[f] EXCEPT !.pc = "copied", !.orig = found]
         /\ fork' = [fork EXCEPT ![f].pc = "done", ![f].copy = found] =>
              fork'[f] = [fork[f] EXCEPT !.pc = "done", !.copy = found]
BY DEF ForkType

LEMMA Planned ==
  ASSUME ForkType, NEW f \in Forkers, NEW S, NEW at, NEW edited, NEW todo,
         fork' = [fork EXCEPT ![f].pc = "start", ![f].doc = S, ![f].at = at,
                              ![f].edited = edited, ![f].todo = todo]
  PROVE  fork'[f] = [fork[f] EXCEPT !.pc = "start", !.doc = S, !.at = at,
                                    !.edited = edited, !.todo = todo]
BY DEF ForkType

\* Forks have ids of their own.
LEMMA OwnIds ==
  ASSUME JobInv
  PROVE  /\ \A f \in Forkers : ForkId[f] \in RunIds
         /\ \A f, g \in Forkers : ForkId[f] = ForkId[g] => f = g
         /\ \A f \in Forkers, r \in Recorders : ForkId[f] # RunOf(r)
BY JobsAssumption, ForkIdAssumption DEF JobInv, RunOf, IsInjective

LEMMA HeadAndTail ==
  ASSUME NEW l \in Seq(Steps), l # <<>>
  PROVE  /\ Head(l) \in Steps /\ Tail(l) \in Seq(Steps)
         /\ ToSet(l) = {Head(l)} \cup ToSet(Tail(l))
         /\ OnceEach(l) => /\ OnceEach(Tail(l))
                           /\ \A p \in ToSet(Tail(l)) : p.id # Head(l).id
<1>1. /\ Head(l) = l[1] /\ Head(l) \in Steps /\ Tail(l) \in Seq(Steps)
      /\ Len(l) \in Nat \ {0} /\ DOMAIN l = 1 .. Len(l)
      /\ DOMAIN Tail(l) = 1 .. Len(l) - 1 /\ \A n \in 1 .. Len(l) - 1 : Tail(l)[n] = l[n + 1]
  OBVIOUS
<1>2. ToSet(l) = {Head(l)} \cup ToSet(Tail(l))
  <2>1. ASSUME NEW n \in DOMAIN l PROVE l[n] \in {Head(l)} \cup ToSet(Tail(l))
    <3>1. CASE n # 1
      <4>1. n - 1 \in DOMAIN Tail(l) /\ Tail(l)[n - 1] = l[n]
        BY <1>1, <2>1, <3>1
      <4> QED
        BY <4>1 DEF ToSet
    <3> QED
      BY <1>1, <3>1
  <2>2. ASSUME NEW n \in DOMAIN Tail(l) PROVE Tail(l)[n] \in ToSet(l)
    <3>1. n + 1 \in DOMAIN l /\ Tail(l)[n] = l[n + 1]
      BY <1>1, <2>2
    <3> QED
      BY <3>1 DEF ToSet
  <2>3. Head(l) \in ToSet(l)
    BY <1>1 DEF ToSet
  <2> QED
    BY <2>1, <2>2, <2>3 DEF ToSet
<1>3. ASSUME OnceEach(l)
      PROVE  /\ OnceEach(Tail(l))
             /\ \A p \in ToSet(Tail(l)) : p.id # Head(l).id
  <2>1. ASSUME NEW m \in DOMAIN Tail(l), NEW n \in DOMAIN Tail(l), Tail(l)[m].id = Tail(l)[n].id
        PROVE  m = n
    <3>1. m + 1 \in DOMAIN l /\ n + 1 \in DOMAIN l /\ l[m + 1].id = l[n + 1].id
      BY <1>1, <2>1
    <3>2. m + 1 = n + 1
      BY <1>3, <3>1 DEF OnceEach
    <3> QED
      BY <1>1, <2>1, <3>2
  <2>2. ASSUME NEW n \in DOMAIN Tail(l) PROVE Tail(l)[n].id # Head(l).id
    <3>1. n + 1 \in DOMAIN l /\ 1 \in DOMAIN l /\ n + 1 # 1 /\ Tail(l)[n] = l[n + 1]
      BY <1>1, <2>2
    <3> QED
      BY <1>1, <1>3, <3>1 DEF OnceEach
  <2> QED
    BY <2>1, <2>2 DEF OnceEach, ToSet
<1> QED
  BY <1>1, <1>2, <1>3

LEMMA CopyRecorder ==
  ASSUME IInv, JobInv, CopyInv, NEW r \in Recorders, RecorderStep(r), UNCHANGED setting
  PROVE  CopyInv'
<1> SUFFICES ASSUME NEW f \in Forkers PROVE Copying(f)'
  BY DEF CopyInv
<1>1. ForkId[f] \in RunIds \ {RunOf(r)}
  BY OwnIds
<1>2. UNCHANGED fork /\ runs'[ForkId[f]] = runs[ForkId[f]] /\ steps'[ForkId[f]] = steps[ForkId[f]]
  BY <1>1, RecorderEffect
<1>3. Copying(f)
  BY DEF CopyInv
<1> QED
  BY <1>2, <1>3 DEF Copying, ForkOf, StepAt

\* The fork that takes the step.
LEMMA CopyOwn ==
  ASSUME IInv, JobInv, FiniteViews, ForkType, NEW f \in Forkers, Copying(f), ForkStep(f)
  PROVE  Copying(f)'
<1>0. /\ runs \in [RunIds -> Headers \cup {None}] /\ steps \in [RunIds -> SUBSET Steps]
      /\ Api \in Conns /\ ForkId[f] \in RunIds /\ f \in Takes
      /\ fork \in [Forkers -> Forks] /\ fork[f] \in Forks
  BY ConnsAssumption, JobsAssumption, TakesAssumption DEF ForkType, IInv, TypeOK, Committed, Views
<1> USE DEF Unstarted, Forked
<1>1. CASE ForkReads(f)
  <2>1. UNCHANGED <<runs, steps>> /\ fork[f].pc = "read" /\ fork'[f].pc \in {"refused", "steps"}
    BY <1>0, <1>1 DEF ForkReads, GetRunHeader, Forks
  <2> QED
    BY <2>1 DEF Copying
<1>2. CASE ForkPlans(f)
  <2> DEFINE S == Document(Api).steps
  <2>1. /\ fork[f].pc = "steps" /\ GetRunSteps(Api) /\ UNCHANGED <<runs, steps>>
        /\ \/ fork' = [fork EXCEPT ![f].pc = "refused"]
           \/ \E s \in S :
                fork' = [fork EXCEPT ![f].pc = "start", ![f].doc = S, ![f].at = s.id,
                                     ![f].edited = Edited(s), ![f].todo = Plan(S, s)]
    BY <1>2 DEF ForkPlans, GetRunSteps
  <2>2. S \in SUBSET Steps /\ IsFiniteSet(S) /\ UniqueIds(S)
    BY <1>0, <2>1, DocumentRead DEF GetRunSteps, Free
  <2> HIDE DEF S
  <2>3. CASE fork' = [fork EXCEPT ![f].pc = "refused"]
    <3>1. fork'[f].pc = "refused"
      BY <1>0, <2>3 DEF Forks
    <3> QED
      BY <2>1, <3>1 DEF Copying
  <2>4. ASSUME NEW s \in S,
               fork' = [fork EXCEPT ![f].pc = "start", ![f].doc = S, ![f].at = s.id,
                                    ![f].edited = Edited(s), ![f].todo = Plan(S, s)]
        PROVE  Copying(f)'
    <3>1. /\ fork'[f].pc = "start" /\ fork'[f].doc = S /\ fork'[f].at = s.id
          /\ fork'[f].edited = Edited(s) /\ fork'[f].todo = Plan(S, s)
      BY <1>0, <2>4 DEF Forks
    <3>2. ToSet(Plan(S, s)) = ForkOf(S, s.id, Edited(s))
      BY <2>2, PlanIsFork
    <3> QED
      BY <2>1, <3>1, <3>2 DEF Copying
  <2> QED
    BY <2>1, <2>3, <2>4
<1>3. CASE ForkStarts(f)
  <2>1. CASE StartRun(Api, ForkId[f], f) /\ Goto(f, "copy")
    <3>1. /\ fork'[f].pc = "copy" /\ fork'[f].doc = fork[f].doc /\ fork'[f].at = fork[f].at
          /\ fork'[f].edited = fork[f].edited /\ fork'[f].todo = fork[f].todo
      BY <1>0, <2>1 DEF Goto, Forks
    <3>2. steps' = steps /\ runs'[ForkId[f]] = [take |-> f, status |-> None]
      BY <1>0, <2>1 DEF StartRun, Commit
    <3>3. runs'[ForkId[f]] # None
      BY <1>0, <3>2, NoneAssumption DEF Headers
    <3>4. fork[f].pc = "start"
      BY <1>3 DEF ForkStarts
    <3> QED
      BY <3>1, <3>2, <3>3, <3>4 DEF Copying
  <2>2. CASE Goto(f, "failed")
    <3>1. fork'[f].pc = "failed"
      BY <1>0, <2>2 DEF Goto, Forks
    <3> QED
      BY <3>1 DEF Copying
  <2> QED
    BY <1>3, <2>1, <2>2 DEF ForkStarts
<1>4. CASE ForkCopies(f)
  <2> DEFINE s == Head(fork[f].todo)
  <2>0. fork[f].todo \in Seq(Steps) /\ fork[f].todo # <<>> /\ fork[f].pc = "copy"
    BY <1>0, <1>4 DEF ForkCopies, Forks
  <2>1. CASE AppendStep(Api, ForkId[f], s) /\ fork' = [fork EXCEPT ![f].todo = Tail(@)]
    <3>1. /\ fork'[f].pc = "copy" /\ fork'[f].doc = fork[f].doc /\ fork'[f].at = fork[f].at
          /\ fork'[f].edited = fork[f].edited /\ fork'[f].todo = Tail(fork[f].todo)
      BY <1>0, <2>0, <2>1 DEF Forks
    <3>2. ToSet(fork[f].todo) = {s} \cup ToSet(Tail(fork[f].todo))
      BY <2>0, HeadAndTail
    <3>3. runs' = runs /\ steps'[ForkId[f]] = steps[ForkId[f]] \cup {s}
      BY <1>0, <2>1 DEF AppendStep, Commit
    <3> QED
      BY <2>0, <3>1, <3>2, <3>3 DEF Copying
  <2>2. CASE Goto(f, "failed")
    <3>1. fork'[f].pc = "failed"
      BY <1>0, <2>2 DEF Goto, Forks
    <3> QED
      BY <3>1 DEF Copying
  <2> QED
    BY <1>4, <2>1, <2>2 DEF ForkCopies
<1>5. CASE CompareReads(f)
  <2>1. PICK pc \in {"failed", "orig steps", "copy steps"} : Goto(f, pc)
    BY <1>5 DEF CompareReads
  <2>2. /\ fork'[f].pc = pc /\ fork'[f].doc = fork[f].doc /\ fork'[f].at = fork[f].at
        /\ fork'[f].edited = fork[f].edited /\ fork'[f].todo = fork[f].todo
    BY <1>0, <2>1 DEF Goto, Forks
  <2>3. /\ UNCHANGED <<runs, steps>>
        /\ (fork[f].pc = "copy" /\ fork[f].todo = <<>>) \/ fork[f].pc = "copied"
    BY <1>5 DEF CompareReads, GetRunHeader
  <2> QED
    BY <2>2, <2>3 DEF Copying
<1>6. CASE CompareOrig(f) \/ CompareCopy(f)
  <2>1. /\ fork[f].pc \in {"orig steps", "copy steps"} /\ fork'[f].pc \in {"copied", "done"}
        /\ fork'[f].doc = fork[f].doc /\ fork'[f].at = fork[f].at
        /\ fork'[f].edited = fork[f].edited /\ fork'[f].todo = fork[f].todo
    <3> DEFINE found == StepOrNone(Document(Api).steps, fork[f].at)
    <3>1. /\ fork[f].pc \in {"orig steps", "copy steps"}
          /\ \/ fork' = [fork EXCEPT ![f].pc = "copied", ![f].orig = found]
             \/ fork' = [fork EXCEPT ![f].pc = "done", ![f].copy = found]
      BY <1>6 DEF CompareOrig, CompareCopy
    <3> HIDE DEF found
    <3>2. \/ fork'[f] = [fork[f] EXCEPT !.pc = "copied", !.orig = found]
          \/ fork'[f] = [fork[f] EXCEPT !.pc = "done", !.copy = found]
      BY <3>1, Found
    <3> QED
      BY <1>0, <3>1, <3>2 DEF Forks
  <2>2. UNCHANGED <<runs, steps>>
    BY <1>6 DEF CompareOrig, CompareCopy, GetRunSteps
  <2> QED
    BY <2>1, <2>2 DEF Copying
<1> QED
  BY <1>1, <1>2, <1>3, <1>4, <1>5, <1>6 DEF ForkStep

LEMMA CopyFork ==
  ASSUME IInv, JobInv, FiniteViews, ForkType, CopyInv, NEW f \in Forkers, ForkStep(f),
         UNCHANGED setting
  PROVE  CopyInv'
<1>1. Copying(f)'
  BY CopyOwn DEF CopyInv
<1>2. ASSUME NEW g \in Forkers \ {f} PROVE Copying(g)'
  <2>1. ForkId[g] \in RunIds \ {ForkId[f]}
    BY OwnIds
  <2>2. fork'[g] = fork[g] /\ runs'[ForkId[g]] = runs[ForkId[g]] /\ steps'[ForkId[g]] = steps[ForkId[g]]
    BY <2>1, ForkEffect
  <2>3. Copying(g)
    BY DEF CopyInv
  <2> QED
    BY <2>2, <2>3 DEF Copying
<1> QED
  BY <1>1, <1>2 DEF CopyInv

LEMMA ReadRecorder ==
  ASSUME IInv, JobInv, ReadInv, NEW r \in Recorders, RecorderStep(r), UNCHANGED setting
  PROVE  ReadInv'
<1>1. UNCHANGED fork /\ reading'[Api] = reading[Api]
  BY RecorderEffect
<1> QED
  BY <1>1 DEF ReadInv, Target

LEMMA ReadFork ==
  ASSUME IInv, JobInv, FiniteViews, ForkType, ReadInv, NEW f \in Forkers, ForkStep(f),
         UNCHANGED setting
  PROVE  ReadInv'
<1>0. /\ reading \in [Conns -> [run : RunIds, header : Headers] \cup {None}]
      /\ Api \in Conns /\ fork \in [Forkers -> Forks] /\ fork[f] \in Forks
      /\ \A g \in Forkers \ {f} : fork'[g] = fork[g]
  BY ConnsAssumption, ForkEffect DEF ForkType, IInv, TypeOK
<1> DEFINE Alone == \A g \in Forkers \ {f} : fork[g].pc \notin Inside
           Own == fork'[f].pc \in Inside => reading'[Api] # None /\ reading'[Api].run = Target(f)'
<1>1. ASSUME Alone, Own PROVE ReadInv'
  BY <1>0, <1>1 DEF ReadInv
<1>2. ASSUME Free(Api) PROVE Alone
  BY <1>2 DEF Free, ReadInv
<1>3. CASE ForkReads(f)
  <2>1. PICK q \in Recorders :
          /\ fork[f].pc = "read"
          /\ GetRunHeader(Api, RunOf(q))
          /\ fork' = [fork EXCEPT ![f].pc = IF ViewOf(Api).runs[RunOf(q)] = None THEN "refused" ELSE "steps",
                                  ![f].parent = RunOf(q)]
    BY <1>3 DEF ForkReads, RunOf
  <2> DEFINE h == ViewOf(Api).runs[RunOf(q)]
  <2>2. /\ Free(Api)
        /\ h = None => fork'[f].pc = "refused"
        /\ h # None => fork'[f].pc = "steps"
        /\ fork'[f].parent = RunOf(q)
    BY <1>0, <2>1 DEF Forks, GetRunHeader
  <2>3. RunOf(q) \in RunIds
    BY JobFacts
  <2>4. reading' \in [Conns -> [run : RunIds, header : Headers] \cup {None}]
    BY <2>1, <2>3, <1>0, HeaderRead
  <2>5. h # None => reading'[Api] # None /\ reading'[Api].run = RunOf(q)
    <3>1. h # None => reading'[Api] = [run |-> RunOf(q), header |-> h]
      BY <1>0, <2>1 DEF GetRunHeader
    <3>2. h \in Headers \cup {None}
      BY <1>0, <2>3 DEF IInv, TypeOK, ViewOf, Views
    <3>3. h # None => [run |-> RunOf(q), header |-> h] \in [run : RunIds, header : Headers]
      BY <2>3, <3>2
    <3> HIDE DEF h
    <3> QED
      BY <3>1, <3>3, NoneAssumption
  <2> HIDE DEF h
  <2> QED
    BY <1>1, <1>2, <2>2, <2>5 DEF Inside, Target
<1>4. CASE ForkPlans(f) \/ CompareOrig(f) \/ CompareCopy(f)
  <2>1. fork[f].pc \in Inside
    BY <1>4 DEF ForkPlans, CompareOrig, CompareCopy, Inside
  <2>2. Alone
    BY <2>1 DEF ReadInv
  <2>3. fork'[f].pc \in {"refused", "start", "copied", "done"}
    <3>1. CASE ForkPlans(f)
      <4> DEFINE S == Document(Api).steps
      <4>1. CASE fork' = [fork EXCEPT ![f].pc = "refused"]
        BY <1>0, <4>1 DEF Forks
      <4>2. ASSUME NEW s \in S,
                   fork' = [fork EXCEPT ![f].pc = "start", ![f].doc = S, ![f].at = s.id,
                                        ![f].edited = Edited(s), ![f].todo = Plan(S, s)]
            PROVE  fork'[f].pc = "start"
        BY <1>0, <4>2, Planned DEF Forks
      <4> QED
        BY <3>1, <4>1, <4>2 DEF ForkPlans
    <3>2. CASE CompareOrig(f)
      BY <1>0, <3>2, Found DEF CompareOrig, Forks
    <3>3. CASE CompareCopy(f)
      BY <1>0, <3>3, Found DEF CompareCopy, Forks
    <3> QED
      BY <1>4, <3>1, <3>2, <3>3
  <2> QED
    BY <1>1, <2>2, <2>3 DEF Inside
<1>5. CASE ForkStarts(f) \/ ForkCopies(f)
  <2>1. Free(Api)
    BY <1>5 DEF ForkStarts, ForkCopies, StartRun, StartClash, AppendStep, AppendClash, Locked
  <2>2. fork'[f].pc \in {"copy", "failed"}
    BY <1>0, <1>5 DEF ForkStarts, ForkCopies, Goto, Forks
  <2> QED
    BY <1>1, <1>2, <2>1, <2>2 DEF Inside
<1>6. CASE CompareReads(f)
  <2>1. PICK q \in {fork[f].parent, ForkId[f]} :
          /\ GetRunHeader(Api, q)
          /\ reading'[Api] = None => Goto(f, "failed")
          /\ reading'[Api] # None => Goto(f, IF fork[f].pc = "copy" THEN "orig steps" ELSE "copy steps")
          /\ q = IF fork[f].pc = "copy" THEN fork[f].parent ELSE ForkId[f]
    BY <1>6 DEF CompareReads
  <2>2. Free(Api) /\ fork'[f].parent = fork[f].parent
    BY <1>0, <2>1 DEF GetRunHeader, Goto, Forks
  <2>3. CASE reading'[Api] = None
    <3>1. fork'[f].pc = "failed"
      BY <1>0, <2>1, <2>3 DEF Goto, Forks
    <3> QED
      BY <1>1, <1>2, <2>2, <3>1 DEF Inside
  <2>4. CASE reading'[Api] # None
    <3>1. fork'[f].pc = IF fork[f].pc = "copy" THEN "orig steps" ELSE "copy steps"
      BY <1>0, <2>1, <2>4 DEF Goto, Forks
    <3>2. reading'[Api].run = q
      BY <1>0, <2>1, <2>4 DEF GetRunHeader
    <3> QED
      BY <1>1, <1>2, <2>1, <2>2, <2>4, <3>1, <3>2 DEF Target
  <2> QED
    BY <2>3, <2>4
<1> QED
  BY <1>3, <1>4, <1>5, <1>6 DEF ForkStep

\* No statement is ever refused before a constraint was violated.
LEMMA NeverLocked ==
  ASSUME IInv, ~rejected
  PROVE  \A c \in Conns : CanLock(c) /\ ~Locked(c) /\ tx[c] = "none" /\ ViewOf(c) = Committed
BY DEF IInv, TypeOK, Clean, CanLock, Locked, ViewOf

\* Runs and steps stay.
Grows == \A q \in RunIds : (runs[q] # None => runs'[q] # None) /\ steps[q] \subseteq steps'[q]

LEMMA OrdinaryRecorder ==
  ASSUME IInv, JobInv, Ordinary, ~rejected, NEW r \in Recorders, RecorderInv(r), RecorderStep(r),
         UNCHANGED setting
  PROVE  ~rejected' /\ RecorderInv(r)' /\ Grows
<1> DEFINE w == RunOf(r)
<1>0. /\ runs \in [RunIds -> Headers \cup {None}] /\ steps \in [RunIds -> SUBSET Steps]
      /\ r \in Conns /\ r \in Takes /\ w \in RunIds /\ w' = w
      /\ job \in [Recorders -> Jobs] /\ count \in [Recorders -> Nat]
      /\ Len(shape[r]) \in Nat /\ count[r] \in 0 .. Len(shape[r])
      /\ shape' = shape
  BY JobFacts, RecorderEffect DEF IInv, TypeOK, Committed, Views, JobInv, RunOf
<1>1. ~Locked(r)
  BY <1>0, NeverLocked
<1>2. [take |-> r, status |-> None] # None /\ [take |-> r, status |-> "ok"] # None
  BY <1>0, NoneAssumption DEF Headers
<1>3. \A n : StepOf(r, n)' = StepOf(r, n)
  BY <1>0 DEF StepOf
<1>4. \A q \in RunIds \ {w} : runs'[q] = runs[q] /\ steps'[q] = steps[q]
  BY RecorderEffect
<1>5. CASE Delete(r)
  <2>1. /\ job[r] = "delete" /\ job'[r] = "start" /\ count' = count /\ rejected' = rejected
        /\ runs'[w] = None /\ steps'[w] = {}
    BY <1>0, <1>1, <1>5 DEF Delete, GoOn, DeleteRun, Commit, RunOf
  <2>2. runs[w] = None /\ count[r] = 0 /\ {StepOf(r, n) : n \in 1 .. count[r]} = {}
    BY <2>1 DEF RecorderInv
  <2> QED
    BY <1>0, <1>3, <1>4, <2>1, <2>2 DEF RecorderInv, Grows
<1>6. CASE Start(r)
  <2>1. job[r] = "start" /\ runs[w] = None
    BY <1>6 DEF Start, RecorderInv
  <2>2. /\ StartRun(r, w, r) /\ job'[r] = "append" /\ count' = count
    BY <1>0, <1>1, <1>6, <2>1 DEF Start, GoOn, StartClash, RunOf
  <2>3. runs'[w] = [take |-> r, status |-> None] /\ steps' = steps /\ rejected' = rejected
    BY <1>0, <2>2 DEF StartRun, Commit
  <2> QED
    BY <1>0, <1>2, <1>3, <1>4, <2>1, <2>2, <2>3 DEF RecorderInv, Grows
<1>7. CASE Store(r)
  <2> DEFINE s == StepOf(r, count[r] + 1)
  <2>1. /\ job[r] = "append" /\ job' = job /\ count'[r] = count[r] + 1
    BY <1>0, <1>7 DEF Store
  <2>2. runs[w] = [take |-> r, status |-> None] /\ steps[w] = {StepOf(r, n) : n \in 1 .. count[r]}
    BY <2>1 DEF RecorderInv
  <2>3. Insertable(w, s)
    BY <1>0, <1>2, <2>2 DEF Insertable, StepOf
  <2>4. AppendStep(r, w, s)
    BY <1>1, <1>7, <2>3 DEF Store, AppendClash, RunOf
  <2> HIDE DEF s
  <2>5. runs' = runs /\ steps'[w] = steps[w] \cup {s} /\ rejected' = rejected
    BY <1>0, <2>4 DEF AppendStep, Commit
  <2>6. {StepOf(r, n) : n \in 1 .. count[r] + 1} = {StepOf(r, n) : n \in 1 .. count[r]} \cup {s}
    BY <1>0 DEF s
  <2>7. steps'[w] = {StepOf(r, n)' : n \in 1 .. count'[r]}
    BY <1>3, <2>1, <2>2, <2>5, <2>6
  <2> QED
    BY <1>0, <1>4, <2>1, <2>2, <2>5, <2>7 DEF RecorderInv, Grows
<1>8. CASE Finish(r)
  <2>1. /\ job[r] = "append" /\ count[r] = Len(shape[r]) /\ FinishRun(r, w, "ok")
        /\ job'[r] = "done" /\ count' = count
    BY <1>0, <1>1, <1>8 DEF Finish, GoOn, RunOf
  <2>2. runs[w] = [take |-> r, status |-> None]
    BY <2>1 DEF RecorderInv
  <2>3. runs'[w] = [take |-> r, status |-> "ok"] /\ steps' = steps /\ rejected' = rejected
    BY <1>0, <1>2, <2>1, <2>2 DEF FinishRun, Commit
  <2> QED
    BY <1>0, <1>2, <1>3, <1>4, <2>1, <2>3 DEF RecorderInv, Grows
<1>9. CASE End(r)
  <2>1. /\ UNCHANGED <<runs, steps, rejected>> /\ count' = count
        /\ job'[r] \in {job[r], "failed"}
    BY <1>0, <1>9 DEF End, GoOn, Close
  <2> QED
    BY <1>0, <1>3, <2>1 DEF RecorderInv, Grows
<1> QED
  BY <1>5, <1>6, <1>7, <1>8, <1>9 DEF RecorderStep

\* The runs that forks make are none that are recorded.
LEMMA OrdRecorder ==
  ASSUME IInv, JobInv, ForkType, OrdInv, NEW r \in Recorders, RecorderStep(r), UNCHANGED setting
  PROVE  OrdInv'
<1> SUFFICES ASSUME Ordinary PROVE OrdInv'
  BY DEF OrdInv, Ordinary
<1>1. ~rejected /\ (\A q \in Recorders : RecorderInv(q)) /\ \A f \in Forkers : ForkInv(f)
  BY DEF OrdInv
<1>2. ~rejected' /\ RecorderInv(r)' /\ Grows
  BY <1>1, OrdinaryRecorder
<1>3. /\ UNCHANGED <<shape, fork>>
      /\ \A q \in RunIds \ {RunOf(r)} : runs'[q] = runs[q] /\ steps'[q] = steps[q]
      /\ \A q \in Recorders \ {r} : job'[q] = job[q] /\ count'[q] = count[q]
  BY RecorderEffect
<1>4. ASSUME NEW q \in Recorders \ {r} PROVE RecorderInv(q)'
  <2>1. RunOf(q) \in RunIds \ {RunOf(r)} /\ RunOf(q)' = RunOf(q)
    BY JobFacts, JobsAssumption DEF JobInv, Ordinary, RunOf, IsInjective
  <2>2. RecorderInv(q)
    BY <1>1
  <2> QED
    BY <1>3, <2>1, <2>2 DEF RecorderInv, StepOf
<1>5. ASSUME NEW f \in Forkers PROVE ForkInv(f)'
  <2>1. ForkId[f] \in RunIds \ {RunOf(r)} /\ \A q \in Recorders : RunOf(q)' = RunOf(q)
    BY OwnIds DEF RunOf
  <2>2. ForkInv(f)
    BY <1>1
  <2>3. fork[f].pc \notin {"read", "refused"} => fork[f].parent \in RunIds
    BY DEF ForkType
  <2>4. \A s : Edited(s)' = Edited(s)
    BY DEF Edited
  <2>5. /\ fork[f].pc \notin {"read", "refused"} => runs'[fork[f].parent] # None
        /\ fork[f].pc \in {"start", "copy"} \cup Forked => fork[f].doc \subseteq steps'[fork[f].parent]
        /\ steps'[ForkId[f]] = steps[ForkId[f]]
    BY <1>2, <1>3, <2>1, <2>2, <2>3 DEF ForkInv, Grows, Forked
  <2>6. fork[f].pc \in {"start", "copy"} =>
          /\ OnceEach(fork[f].todo)
          /\ \A p \in ToSet(fork[f].todo), q \in steps'[ForkId[f]] : p.id # q.id
    BY <2>2, <2>5 DEF ForkInv
  <2>7. fork[f].pc \in {"start", "copy"} \cup Forked =>
          \E s \in fork[f].doc : s.id = fork[f].at /\ fork[f].edited = Edited(s)'
    BY <2>2, <2>4 DEF ForkInv
  <2>8. fork[f].pc \notin {"read", "refused"} => \E q \in Recorders : fork[f].parent = RunOf(q)'
    BY <2>1, <2>2 DEF ForkInv
  <2>9. /\ fork[f].pc # "failed"
        /\ fork[f].pc \in {"copied", "copy steps", "done"} =>
             fork[f].orig = StepAt(fork[f].doc, fork[f].at)
        /\ fork[f].pc = "done" => fork[f].copy = fork[f].edited
    BY <2>2 DEF ForkInv
  <2> QED
    BY <1>3, <2>5, <2>6, <2>7, <2>8, <2>9 DEF ForkInv, StepAt, OnceEach
<1> QED
  BY <1>2, <1>4, <1>5 DEF OrdInv

LEMMA OrdinaryFork ==
  ASSUME IInv, JobInv, FiniteViews, ForkType, CopyInv, ReadInv, Ordinary, ~rejected,
         NEW f \in Forkers, ForkInv(f), ForkStep(f), UNCHANGED setting
  PROVE  ~rejected' /\ Grows /\ ForkInv(f)'
<1> DEFINE k == ForkId[f]
<1>0. /\ runs \in [RunIds -> Headers \cup {None}] /\ steps \in [RunIds -> SUBSET Steps]
      /\ reading \in [Conns -> [run : RunIds, header : Headers] \cup {None}]
      /\ Api \in Conns /\ k \in RunIds /\ f \in Takes
      /\ fork \in [Forkers -> Forks] /\ fork[f] \in Forks
      /\ fork[f].pc # "read" => fork[f].parent \in RunIds
  BY ConnsAssumption, JobsAssumption, TakesAssumption DEF ForkType, IInv, TypeOK, Committed, Views
<1>1. CanLock(Api) /\ ~Locked(Api) /\ ViewOf(Api) = Committed
  BY <1>0, NeverLocked
<1>2. /\ Copying(f)
      /\ fork[f].pc \in Inside => reading[Api] # None /\ reading[Api].run = Target(f)
  BY DEF CopyInv, ReadInv
<1>3. /\ \A s : Edited(s)' = Edited(s)
      /\ \A q \in Recorders : RunOf(q)' = RunOf(q)
  BY DEF Edited, RunOf
<1>4. ASSUME NEW c \in Conns, NEW r \in RunIds, GetRunHeader(c, r), ViewOf(c) = Committed
      PROVE  runs[r] # None => reading'[c] # None
  <2>1. runs[r] # None => reading'[c] = [run |-> r, header |-> runs[r]]
    BY <1>0, <1>4 DEF GetRunHeader, Committed
  <2>2. runs[r] # None => [run |-> r, header |-> runs[r]] \in [run : RunIds, header : Headers]
    BY <1>0
  <2> QED
    BY <2>1, <2>2, NoneAssumption
<1> USE DEF Unstarted, Forked, Inside
<1>5. CASE ForkReads(f)
  <2>1. PICK q \in Recorders :
          /\ fork[f].pc = "read"
          /\ GetRunHeader(Api, RunOf(q))
          /\ fork' = [fork EXCEPT ![f].pc = IF ViewOf(Api).runs[RunOf(q)] = None THEN "refused" ELSE "steps",
                                  ![f].parent = RunOf(q)]
    BY <1>5 DEF ForkReads, RunOf
  <2>2. /\ fork'[f].pc = IF runs[RunOf(q)] = None THEN "refused" ELSE "steps"
        /\ fork'[f].parent = RunOf(q)
    BY <1>0, <1>1, <2>1 DEF Forks, Committed
  <2>3. UNCHANGED <<runs, steps, rejected>>
    BY <2>1 DEF GetRunHeader
  <2> QED
    BY <1>3, <2>2, <2>3 DEF ForkInv, Grows
<1>6. CASE ForkPlans(f)
  <2> DEFINE S == Document(Api).steps
  <2>1. /\ fork[f].pc = "steps" /\ GetRunSteps(Api)
        /\ \/ fork' = [fork EXCEPT ![f].pc = "refused"]
           \/ \E s \in S :
                fork' = [fork EXCEPT ![f].pc = "start", ![f].doc = S, ![f].at = s.id,
                                     ![f].edited = Edited(s), ![f].todo = Plan(S, s)]
    BY <1>6 DEF ForkPlans
  <2>2. UNCHANGED <<runs, steps, rejected>>
    BY <2>1 DEF GetRunSteps
  <2>3. S = steps[fork[f].parent]
    <3>1. Target(f) = fork[f].parent
      BY <2>1 DEF Target
    <3>2. reading[Api].run = Target(f)
      BY <1>2, <2>1
    <3>3. S = ViewOf(Api).steps[reading[Api].run]
      BY DEF Document
    <3> QED
      BY <1>1, <3>1, <3>2, <3>3 DEF Committed
  <2>4. S \in SUBSET Steps /\ IsFiniteSet(S) /\ UniqueIds(S)
    BY <1>0, <1>2, <2>1, DocumentRead
  <2>5. /\ \E q \in Recorders : fork[f].parent = RunOf(q)
        /\ runs[fork[f].parent] # None
    BY <2>1 DEF ForkInv
  <2> HIDE DEF S
  <2>6. CASE fork' = [fork EXCEPT ![f].pc = "refused"]
    <3>1. fork'[f].pc = "refused"
      BY <1>0, <2>6 DEF Forks
    <3> QED
      BY <2>2, <3>1 DEF ForkInv, Grows
  <2>7. ASSUME NEW s \in S,
               fork' = [fork EXCEPT ![f].pc = "start", ![f].doc = S, ![f].at = s.id,
                                    ![f].edited = Edited(s), ![f].todo = Plan(S, s)]
        PROVE  ForkInv(f)'
    <3>1. /\ fork'[f].pc = "start" /\ fork'[f].doc = S /\ fork'[f].at = s.id
          /\ fork'[f].edited = Edited(s) /\ fork'[f].todo = Plan(S, s)
          /\ fork'[f].parent = fork[f].parent
      BY <1>0, <2>7, Planned DEF Forks
    <3>2. OnceEach(Plan(S, s))
      BY <2>4, PlanIsFork DEF Ordinary
    <3>3. steps'[k] = {}
      BY <1>2, <2>1, <2>2 DEF Copying
    <3>4. \E t \in S : t.id = s.id /\ Edited(s) = Edited(t)'
      BY <1>3
    <3>5. \E q \in Recorders : fork[f].parent = RunOf(q)'
      BY <1>3, <2>5
    <3> QED
      BY <2>2, <2>3, <2>5, <3>1, <3>2, <3>3, <3>4, <3>5 DEF ForkInv, OnceEach
  <2> QED
    BY <2>1, <2>2, <2>6, <2>7 DEF Grows
<1>7. CASE ForkStarts(f)
  <2>1. fork[f].pc = "start" /\ runs[k] = None
    BY <1>2, <1>7 DEF ForkStarts, Copying
  <2>2. StartRun(Api, k, f) /\ Goto(f, "copy")
    BY <1>1, <1>7, <2>1 DEF ForkStarts, StartClash
  <2>3. fork'[f] = [fork[f] EXCEPT !.pc = "copy"]
    BY <1>0, <2>2 DEF Goto
  <2>4. runs' = [runs EXCEPT ![k] = [take |-> f, status |-> None]] /\ UNCHANGED <<steps, rejected>>
    BY <2>2 DEF StartRun, Commit
  <2>5. Grows
    BY <1>0, <2>1, <2>4 DEF Grows
  <2>6. \E q \in Recorders : fork[f].parent = RunOf(q)'
    BY <1>3, <2>1 DEF ForkInv
  <2>7. \E s \in fork[f].doc : s.id = fork[f].at /\ fork[f].edited = Edited(s)'
    BY <1>3, <2>1 DEF ForkInv
  <2>8. runs'[fork[f].parent] # None
    BY <1>0, <2>1, <2>5 DEF ForkInv, Grows
  <2>9. /\ fork'[f].pc = "copy" /\ fork'[f].todo = fork[f].todo /\ fork'[f].doc = fork[f].doc
        /\ fork'[f].at = fork[f].at /\ fork'[f].edited = fork[f].edited
        /\ fork'[f].parent = fork[f].parent
    BY <1>0, <2>3 DEF Forks
  <2>10. ForkInv(f)'
    BY <2>1, <2>4, <2>6, <2>7, <2>8, <2>9 DEF ForkInv, OnceEach
  <2> QED
    BY <2>4, <2>5, <2>10
<1>8. CASE ForkCopies(f)
  <2> DEFINE s == Head(fork[f].todo)
             rest == Tail(fork[f].todo)
  <2>1. fork[f].pc = "copy" /\ fork[f].todo \in Seq(Steps) /\ fork[f].todo # <<>>
    BY <1>0, <1>8 DEF ForkCopies, Forks
  <2>2. /\ s \in Steps /\ ToSet(fork[f].todo) = {s} \cup ToSet(rest)
        /\ OnceEach(rest) /\ \A p \in ToSet(rest) : p.id # s.id
    BY <2>1, HeadAndTail DEF ForkInv
  <2>3. Insertable(k, s)
    BY <1>2, <2>1, <2>2 DEF Insertable, ForkInv, Copying
  <2>4. AppendStep(Api, k, s) /\ fork' = [fork EXCEPT ![f].todo = Tail(@)]
    BY <1>1, <1>8, <2>3 DEF ForkCopies, AppendClash
  <2> HIDE DEF s
  <2>5. steps' = [steps EXCEPT ![k] = @ \cup {s}] /\ UNCHANGED <<runs, rejected>>
    BY <2>4 DEF AppendStep, Commit
  <2>6. Grows
    BY <1>0, <2>5 DEF Grows
  <2>7. /\ fork'[f].pc = "copy" /\ fork'[f].todo = rest /\ fork'[f].doc = fork[f].doc
        /\ fork'[f].at = fork[f].at /\ fork'[f].edited = fork[f].edited
        /\ fork'[f].parent = fork[f].parent
    BY <1>0, <2>1, <2>4 DEF Forks
  <2> HIDE DEF rest
  <2>8. \A p \in ToSet(rest), q \in steps'[k] : p.id # q.id
    BY <1>0, <2>1, <2>2, <2>5 DEF ForkInv
  <2>9. \E q \in Recorders : fork[f].parent = RunOf(q)'
    BY <1>3, <2>1 DEF ForkInv
  <2>10. \E t \in fork[f].doc : t.id = fork[f].at /\ fork[f].edited = Edited(t)'
    BY <1>3, <2>1 DEF ForkInv
  <2>11. runs'[fork[f].parent] # None /\ fork[f].doc \subseteq steps'[fork[f].parent]
    BY <1>0, <2>1, <2>5, <2>6 DEF ForkInv, Grows
  <2>12. ForkInv(f)'
    BY <2>2, <2>7, <2>8, <2>9, <2>10, <2>11 DEF ForkInv, OnceEach
  <2> QED
    BY <2>5, <2>6, <2>12
<1>9. CASE CompareReads(f)
  <2> DEFINE q == IF fork[f].pc = "copy" THEN fork[f].parent ELSE k
             next == IF fork[f].pc = "copy" THEN "orig steps" ELSE "copy steps"
  <2>1. /\ fork[f].pc \in {"copy", "copied"} /\ GetRunHeader(Api, q)
        /\ reading'[Api] # None => Goto(f, next)
    BY <1>9 DEF CompareReads
  <2>2. q \in RunIds /\ runs[q] # None
    BY <1>0, <1>2, <2>1 DEF ForkInv, Copying
  <2>3. Goto(f, next)
    BY <1>0, <1>1, <1>4, <2>1, <2>2
  <2>4. UNCHANGED <<runs, steps, rejected>>
    BY <2>1 DEF GetRunHeader
  <2>5. fork'[f] = [fork[f] EXCEPT !.pc = next]
    BY <1>0, <2>3 DEF Goto
  <2>6. /\ fork'[f].pc = next /\ fork'[f].doc = fork[f].doc
        /\ fork'[f].at = fork[f].at /\ fork'[f].edited = fork[f].edited
        /\ fork'[f].parent = fork[f].parent /\ fork'[f].orig = fork[f].orig
    BY <1>0, <2>5 DEF Forks
  <2>7. \E p \in Recorders : fork[f].parent = RunOf(p)'
    BY <1>3, <2>1 DEF ForkInv
  <2>8. \E t \in fork[f].doc : t.id = fork[f].at /\ fork[f].edited = Edited(t)'
    BY <1>3, <2>1 DEF ForkInv
  <2>9. /\ runs[fork[f].parent] # None /\ fork[f].doc \subseteq steps[fork[f].parent]
        /\ next = "copy steps" => fork[f].orig = StepAt(fork[f].doc, fork[f].at)
    BY <2>1 DEF ForkInv
  <2>10. next \in {"orig steps", "copy steps"}
    OBVIOUS
  <2> HIDE DEF next
  <2>11. ForkInv(f)'
    BY <2>4, <2>6, <2>7, <2>8, <2>9, <2>10 DEF ForkInv, StepAt
  <2> QED
    BY <2>4, <2>11 DEF Grows
<1>10. CASE CompareOrig(f) \/ CompareCopy(f)
  <2> DEFINE S == Document(Api).steps
             found == StepOrNone(S, fork[f].at)
  <2>1. UNCHANGED <<runs, steps, rejected>> /\ fork[f].pc \in {"orig steps", "copy steps"}
    BY <1>10 DEF CompareOrig, CompareCopy, GetRunSteps
  <2>2. S = steps[Target(f)] /\ UniqueIds(S) /\ S \in SUBSET Steps
    <3>1. S = ViewOf(Api).steps[reading[Api].run]
      BY DEF Document
    <3>2. reading[Api].run = Target(f)
      BY <1>2, <2>1
    <3>3. S = steps[Target(f)]
      BY <1>1, <3>1, <3>2 DEF Committed
    <3> QED
      BY <1>0, <1>2, <2>1, <3>3, DocumentRead
  <2>3. PICK s \in fork[f].doc : s.id = fork[f].at /\ fork[f].edited = Edited(s)
    BY <2>1 DEF ForkInv
  <2>4. fork[f].doc \subseteq steps[fork[f].parent] /\ UniqueIds(steps[fork[f].parent])
    BY <1>0, <2>1 DEF ForkInv, IInv, WholeIn, UniqueIds, Committed
  <2>5. StepAt(fork[f].doc, fork[f].at) = s
    BY <2>3, <2>4 DEF StepAt, UniqueIds
  <2>6. \E p \in Recorders : fork[f].parent = RunOf(p)'
    BY <1>3, <2>1 DEF ForkInv
  <2>7. \E t \in fork[f].doc : t.id = fork[f].at /\ fork[f].edited = Edited(t)'
    BY <1>3, <2>1 DEF ForkInv
  <2>8. runs[fork[f].parent] # None
    BY <2>1 DEF ForkInv
  <2>9. CASE CompareOrig(f)
    <3>1. fork[f].pc = "orig steps" /\ fork' = [fork EXCEPT ![f].pc = "copied", ![f].orig = found]
      BY <2>9 DEF CompareOrig
    <3>2. found = s
      BY <2>2, <2>3, <2>4, <3>1 DEF StepOrNone, StepAt, UniqueIds, Target
    <3> HIDE DEF found
    <3>3. /\ fork'[f].pc = "copied" /\ fork'[f].doc = fork[f].doc
          /\ fork'[f].at = fork[f].at /\ fork'[f].edited = fork[f].edited
          /\ fork'[f].parent = fork[f].parent /\ fork'[f].orig = s
      BY <1>0, <3>1, <3>2, Found DEF Forks
    <3>4. ForkInv(f)'
      BY <2>1, <2>4, <2>5, <2>6, <2>7, <2>8, <3>3 DEF ForkInv, StepAt
    <3> QED
      BY <2>1, <3>4 DEF Grows
  <2>10. CASE CompareCopy(f)
    <3>1. fork[f].pc = "copy steps" /\ fork' = [fork EXCEPT ![f].pc = "done", ![f].copy = found]
      BY <2>10 DEF CompareCopy
    <3>2. S = ForkOf(fork[f].doc, fork[f].at, fork[f].edited)
      <4>1. S = steps[k] /\ fork[f].todo = <<>> /\ ToSet(<<>>) = {}
        <5>1. S = steps[k]
          BY <2>2, <3>1 DEF Target
        <5>2. fork[f].todo = <<>>
          BY <1>2, <3>1 DEF Copying
        <5> QED
          BY <5>1, <5>2 DEF ToSet
      <4> QED
        BY <1>2, <3>1, <4>1 DEF Copying
    <3>3. fork[f].edited \in S /\ fork[f].edited.id = fork[f].at
      BY <1>0, <2>3, <3>2, EditedStep DEF ForkOf, Ordinary, Forks
    <3>4. found = fork[f].edited
      BY <2>2, <3>3 DEF StepOrNone, StepAt, UniqueIds
    <3> HIDE DEF found
    <3>5. /\ fork'[f].pc = "done" /\ fork'[f].doc = fork[f].doc
          /\ fork'[f].at = fork[f].at /\ fork'[f].edited = fork[f].edited
          /\ fork'[f].parent = fork[f].parent /\ fork'[f].orig = fork[f].orig
          /\ fork'[f].copy = fork[f].edited
      BY <1>0, <3>1, <3>4, Found DEF Forks
    <3>6. fork[f].orig = StepAt(fork[f].doc, fork[f].at)
      BY <3>1 DEF ForkInv
    <3>7. ForkInv(f)'
      BY <2>1, <2>4, <2>6, <2>7, <2>8, <3>5, <3>6 DEF ForkInv, StepAt
    <3> QED
      BY <2>1, <3>7 DEF Grows
  <2> QED
    BY <1>10, <2>9, <2>10
<1> QED
  BY <1>5, <1>6, <1>7, <1>8, <1>9, <1>10 DEF ForkStep

\* What the other forks rely on stays.
LEMMA OrdFork ==
  ASSUME IInv, JobInv, FiniteViews, ForkType, CopyInv, ReadInv, OrdInv, NEW f \in Forkers,
         ForkStep(f), UNCHANGED setting
  PROVE  OrdInv'
<1> SUFFICES ASSUME Ordinary PROVE OrdInv'
  BY DEF OrdInv, Ordinary
<1>1. ~rejected /\ (\A q \in Recorders : RecorderInv(q)) /\ \A g \in Forkers : ForkInv(g)
  BY DEF OrdInv
<1>2. ~rejected' /\ Grows /\ ForkInv(f)'
  BY <1>1, OrdinaryFork
<1>3. /\ UNCHANGED jobVars
      /\ \A g \in Forkers \ {f} : fork'[g] = fork[g]
      /\ \A q \in RunIds \ {ForkId[f]} : runs'[q] = runs[q] /\ steps'[q] = steps[q]
  BY ForkEffect
<1>4. \A q \in Recorders : RunOf(q) \in RunIds \ {ForkId[f]} /\ RunOf(q)' = RunOf(q)
  BY OwnIds, JobFacts DEF RunOf
<1>5. ASSUME NEW q \in Recorders PROVE RecorderInv(q)'
  <2>1. RecorderInv(q)
    BY <1>1
  <2> QED
    BY <1>3, <1>4, <2>1 DEF RecorderInv, StepOf, jobVars
<1>6. ASSUME NEW g \in Forkers \ {f} PROVE ForkInv(g)'
  <2>1. ForkId[g] \in RunIds \ {ForkId[f]} /\ fork'[g] = fork[g]
    BY <1>3, OwnIds
  <2>2. ForkInv(g)
    BY <1>1
  <2>3. fork[g].pc \notin {"read", "refused"} => fork[g].parent \in RunIds
    BY DEF ForkType
  <2>4. /\ fork[g].pc \notin {"read", "refused"} => runs'[fork[g].parent] # None
        /\ fork[g].pc \in {"start", "copy"} \cup Forked => fork[g].doc \subseteq steps'[fork[g].parent]
        /\ steps'[ForkId[g]] = steps[ForkId[g]]
    BY <1>2, <1>3, <2>1, <2>2, <2>3 DEF ForkInv, Grows, Forked
  <2>5. fork[g].pc \in {"start", "copy"} =>
          /\ OnceEach(fork[g].todo)
          /\ \A p \in ToSet(fork[g].todo), q \in steps'[ForkId[g]] : p.id # q.id
    BY <2>2, <2>4 DEF ForkInv
  <2>6. fork[g].pc \in {"start", "copy"} \cup Forked =>
          \E s \in fork[g].doc : s.id = fork[g].at /\ fork[g].edited = Edited(s)'
    BY <2>2 DEF ForkInv, Edited
  <2>7. fork[g].pc \notin {"read", "refused"} => \E q \in Recorders : fork[g].parent = RunOf(q)'
    BY <1>4, <2>2 DEF ForkInv
  <2>8. /\ fork[g].pc # "failed"
        /\ fork[g].pc \in {"copied", "copy steps", "done"} =>
             fork[g].orig = StepAt(fork[g].doc, fork[g].at)
        /\ fork[g].pc = "done" => fork[g].copy = fork[g].edited
    BY <2>2 DEF ForkInv
  <2> QED
    BY <2>1, <2>4, <2>5, <2>6, <2>7, <2>8 DEF ForkInv, StepAt, OnceEach
<1> QED
  BY <1>2, <1>5, <1>6 DEF OrdInv

-----------------------------------------------------------------------------
(***************************************************************************)
(* Recorders and forks: what follows                                       *)
(***************************************************************************)
AllInv ==
  /\ IInv /\ FiniteViews
  /\ JobInv /\ ForkType
  /\ CopyInv /\ ReadInv /\ OrdInv

LEMMA InitAllInv == InitAll => AllInv
<1> SUFFICES ASSUME InitAll PROVE AllInv
  OBVIOUS
<1>1. /\ setting \in Settings /\ shape \in [Recorders -> Shapes]
      /\ job = [r \in Recorders |-> IF r \in Replacing THEN "delete" ELSE "start"]
      /\ count = [r \in Recorders |-> 0] /\ fork = [f \in Forkers |-> NoFork] /\ Init
  BY DEF InitAll
<1>2. IInv
  BY <1>1, InitIInv
<1>3. FiniteViews
  BY <1>1, FS_EmptySet DEF Init, FiniteViews, FiniteIn, Committed
<1>4. JobInv
  <2>1. \A r \in Recorders : Len(shape[r]) \in Nat
    BY <1>1, JobsAssumption
  <2> QED
    BY <1>1, <2>1 DEF JobInv, Jobs
<1>5. ForkType
  <2>1. NoFork \in Forks /\ NoFork.pc = "read"
    BY DEF NoFork, Forks, Phases
  <2> QED
    BY <1>1, <2>1 DEF ForkType
<1>6. \A f \in Forkers : fork[f].pc = "read"
  BY <1>1 DEF NoFork
<1>7. CopyInv /\ ReadInv
  BY <1>1, <1>4, <1>6, OwnIds DEF CopyInv, Copying, ReadInv, Inside, Forked, Unstarted, Init
<1>8. OrdInv
  <2>1. \A f \in Forkers : ForkInv(f)
    BY <1>6 DEF ForkInv, Forked
  <2>2. ASSUME NEW r \in Recorders PROVE RecorderInv(r)
    <3>1. RunOf(r) \in RunIds
      BY <1>4, JobFacts
    <3>2. count[r] = 0 /\ job[r] \in {"delete", "start"} /\ {StepOf(r, n) : n \in 1 .. count[r]} = {}
      BY <1>1
    <3> QED
      BY <1>1, <3>1, <3>2 DEF RecorderInv, Init
  <2> QED
    BY <1>1, <2>1, <2>2 DEF OrdInv, Init
<1> QED
  BY <1>2, <1>3, <1>4, <1>5, <1>7, <1>8 DEF AllInv

LEMMA RecorderAllInv ==
  ASSUME AllInv, NEW r \in Recorders, RecorderStep(r), UNCHANGED setting
  PROVE  AllInv'
<1> USE DEF AllInv
<1>1. Next
  BY RecorderCalls
<1>2. IInv' /\ FiniteViews'
  BY <1>1, StepIInv, FiniteStep
<1>3. JobInv' /\ UNCHANGED fork
  BY RecorderEffect
<1>4. ForkType'
  BY <1>3 DEF ForkType
<1>5. CopyInv' /\ ReadInv' /\ OrdInv'
  BY CopyRecorder, ReadRecorder, OrdRecorder
<1> QED
  BY <1>2, <1>3, <1>4, <1>5

LEMMA ForkAllInv ==
  ASSUME AllInv, NEW f \in Forkers, ForkStep(f), UNCHANGED setting
  PROVE  AllInv'
<1> USE DEF AllInv
<1>1. Next
  BY ForkCalls
<1>2. IInv' /\ FiniteViews'
  BY <1>1, StepIInv, FiniteStep
<1>3. ForkType' /\ UNCHANGED jobVars
  BY ForkEffect
<1>4. JobInv'
  BY <1>3 DEF JobInv, jobVars
<1>5. CopyInv' /\ ReadInv' /\ OrdInv'
  BY CopyFork, ReadFork, OrdFork
<1> QED
  BY <1>2, <1>3, <1>4, <1>5

\* A step that leaves the tables, the recorders and the forks alone.
LEMMA KeptAllInv ==
  ASSUME AllInv, UNCHANGED <<runs, steps, rejected, setting, jobVars, fork>>
  PROVE  JobInv' /\ ForkType' /\ CopyInv' /\ OrdInv'
<1>1. JobInv' /\ ForkType'
  BY DEF AllInv, jobVars, JobInv, ForkType
<1>2. ASSUME NEW f \in Forkers PROVE Copying(f)'
  BY DEF AllInv, CopyInv, Copying, ForkOf, StepAt
<1>3. ASSUME NEW r \in Recorders, RecorderInv(r) PROVE RecorderInv(r)'
  BY <1>3 DEF jobVars, RecorderInv, RunOf, StepOf
<1>4. ASSUME NEW f \in Forkers, ForkInv(f) PROVE ForkInv(f)'
  BY <1>4 DEF ForkInv, RunOf, StepAt, OnceEach, Edited
<1>5. OrdInv'
  BY <1>3, <1>4 DEF AllInv, OrdInv, Ordinary
<1> QED
  BY <1>1, <1>2, <1>5 DEF CopyInv

LEMMA StepAllInv == AllInv /\ [NextAll]_allVars => AllInv'
<1> SUFFICES ASSUME AllInv, [NextAll]_allVars PROVE AllInv'
  OBVIOUS
<1>1. CASE NextAll
  BY <1>1, RecorderAllInv, ForkAllInv DEF NextAll
<1>2. CASE UNCHANGED allVars
  <2>1. IInv' /\ FiniteViews'
    BY <1>2, StepIInv, FiniteStep DEF AllInv, allVars, vars
  <2>2. JobInv' /\ ForkType' /\ CopyInv' /\ OrdInv'
    BY <1>2, KeptAllInv DEF allVars, vars
  <2>3. ReadInv'
    BY <1>2 DEF AllInv, allVars, vars, ReadInv, Target
  <2> QED
    BY <2>1, <2>2, <2>3 DEF AllInv
<1> QED
  BY <1>1, <1>2

LEMMA AllInvariant == SpecAll => []AllInv
BY InitAllInv, StepAllInv, PTL DEF SpecAll

\* The abstract store allows what recorders and forks do to it: whatever holds of
\* the store under any calls holds under theirs (divergence.py, run_agent.py).
THEOREM ClientsOfTheStore == SpecAll => Spec
<1>1. InitAll => Init
  BY DEF InitAll
<1>2. AllInv /\ [NextAll]_allVars => [Next]_vars
  BY RecorderCalls, ForkCalls DEF AllInv, NextAll, allVars
<1> QED
  BY <1>1, <1>2, AllInvariant, PTL DEF SpecAll, Spec

\* Recorders and forks keep their types.
THEOREM JobsTypeCorrect == SpecAll => []JobTypeOK
<1>1. AllInv => JobTypeOK
  BY DEF AllInv, IInv, JobInv, Jobs, ForkType, Forks, JobTypeOK
<1> QED
  BY <1>1, AllInvariant, PTL

\* A fork that succeeds holds one state its parent was in, with one step edited,
\* and compare shows the edit and nothing else, for any number of recorders and
\* forks and recordings of any shape (divergence.py:53-213).
THEOREM ForksFaithful == SpecAll => []ForkFaithful
<1>1. AllInv => ForkFaithful
  <2> SUFFICES ASSUME AllInv, NEW f \in Forkers
               PROVE  /\ fork[f].pc \in Forked =>
                           steps[ForkId[f]] = ForkOf(fork[f].doc, fork[f].at, fork[f].edited)
                      /\ Ordinary /\ fork[f].pc = "done" =>
                           /\ fork[f].orig = StepAt(fork[f].doc, fork[f].at)
                           /\ fork[f].copy = fork[f].edited
    BY DEF ForkFaithful
  <2>1. Copying(f) /\ (Ordinary => ForkInv(f))
    BY DEF AllInv, CopyInv, OrdInv
  <2>2. fork[f].pc \in Forked =>
          steps[ForkId[f]] = ForkOf(fork[f].doc, fork[f].at, fork[f].edited)
    <3>1. ASSUME fork[f].pc \in Forked
          PROVE  /\ fork[f].todo = <<>>
                 /\ steps[ForkId[f]] \cup ToSet(fork[f].todo)
                      = ForkOf(fork[f].doc, fork[f].at, fork[f].edited)
      BY <2>1, <3>1 DEF Copying
    <3>2. ToSet(<<>>) = {}
      BY DEF ToSet
    <3> QED
      BY <3>1, <3>2
  <2> QED
    BY <2>1, <2>2 DEF ForkInv
<1> QED
  BY <1>1, AllInvariant, PTL

\* As long as recorders write runs of their own no statement violates a
\* constraint, and no fork fails halfway.
THEOREM ForksNeverFail == SpecAll => []ForkNeverFails
<1>1. AllInv => ForkNeverFails
  BY DEF AllInv, OrdInv, ForkInv, ForkNeverFails, NeverRejected
<1> QED
  BY <1>1, AllInvariant, PTL

\* A recorder that ends well has stored all its steps and its header.
THEOREM RecordingsWhole == SpecAll => []RecordedWhole
<1>1. AllInv => RecordedWhole
  BY DEF AllInv, OrdInv, RecorderInv, RecordedWhole, Recording, RunOf
<1> QED
  BY <1>1, AllInvariant, PTL

-----------------------------------------------------------------------------
(***************************************************************************)
(* The evaluation page: the invariant                                      *)
(*                                                                         *)
(* A recorder starts once, so that a run that the page has listed as its,  *)
(* and that is its now, was never replaced in between: what any connection *)
(* sees of it has only grown (PinnedInv, ListedInv), and by steps of       *)
(* greater ids, so that what the replay reads first is a prefix of the     *)
(* tape that it reads next (DocInv).  A file holds the results of a study  *)
(* that measured something and is among those written (StudyInv), and what *)
(* the page shows was written no later than what the file holds now        *)
(* (ShownInv).                                                             *)
(***************************************************************************)
PageInside == {"count steps", "replay steps", "tape steps"}

PagePhases ==
  {"idle", "results", "rate", "checks", "next", "count", "replay", "tape", "answered"} \cup PageInside

\* What is kept of some of the runs.
OfSome(S) == UNION {[R -> S] : R \in SUBSET RunIds}

Pages ==
  [pc : PagePhases, kind : {"eval", "metrics", None},
   listed : OfSome(Headers), held : OfSome(SUBSET Steps),
   results : Processes \cup {Missing}, rate : Processes \cup {Missing},
   checks : Processes \cup {Missing},
   todo : SUBSET RunIds, run : RunIds \cup {None}, doc : Seq(Steps), deterministic : SUBSET RunIds]

PageType ==
  /\ page \in Pages
  /\ page.pc = "idle" => DOMAIN page.listed = {}
  /\ page.pc \in {"results", "rate", "checks"} => page.todo = DOMAIN page.listed
  /\ page.pc = "answered" => page.todo = {}
  /\ page.pc \in {"count", "replay", "tape"} \cup PageInside => page.run \in DOMAIN page.listed
  /\ page.todo \cup page.deterministic \subseteq DOMAIN page.listed
  /\ DOMAIN page.held = DOMAIN page.listed

PageReads == page.pc \in PageInside =>
  /\ reading[Api] # None /\ reading[Api].run = page.run
  /\ \A f \in Forkers : fork[f].pc \notin Inside

\* The recorder p has started the run r.
Began(r, p) == p \in Recorders \ Forkers /\ r = RunOf(p) /\ job[p] \notin {"delete", "start"}

OwnRun(v) == \A r \in RunIds :
  v.runs[r] # None /\ v.runs[r].take \notin Forkers => Began(r, v.runs[r].take)

\* The steps a recorder has stored.
OwnSteps == \A p \in Recorders : \A s \in steps[RunOf(p)] :
  s.take = p => s.id \in 1 .. count[p] /\ s = StepOf(p, s.id)

\* The run r is that of p, and has been since p started it.
Remains(r, p) == runs[r] # None /\ runs[r].take = p

\* The steps that D lacks have greater ids.
Later(D, r) == \A q \in D, s \in steps[r] \ D : q.id < s.id

\* A snapshot of such a run is of the past.
PinnedInv == \A r \in RunIds :
  LET v == ViewOf(Api)
      p == v.runs[r].take
  IN  v.runs[r] # None /\ p \notin Forkers /\ Remains(r, p) =>
        /\ v.steps[r] \subseteq steps[r]
        /\ (\A s \in steps[r] : s.take = p) => Later(v.steps[r], r)

TakeOf(r) == page.listed[r].take

ListedInv == \A r \in DOMAIN page.listed :
  /\ Began(r, TakeOf(r))
  /\ Remains(r, TakeOf(r)) =>
       /\ ViewOf(Api).runs[r] # None /\ ViewOf(Api).runs[r].take = TakeOf(r)
       /\ page.held[r] \subseteq ViewOf(Api).steps[r]

Unreplaced(r) == Remains(r, TakeOf(r)) /\ \A s \in steps[r] : s.take = TakeOf(r)

\* What was read of a run is a prefix of what it holds now.
Before(D, r) ==
  page.held[r] \subseteq D /\ D \subseteq ViewOf(Api).steps[r] /\ Later(D, r)

DocInv ==
  page.pc \in {"tape", "tape steps"} /\ Unreplaced(page.run) =>
    \E D \in SUBSET steps[page.run] : page.doc = ById(D) /\ Before(D, page.run)

Replayed == {r \in DOMAIN page.listed \ page.todo : page.pc \in {"next", "answered"} \/ r # page.run}

CountedInv == \A r \in DOMAIN page.listed : Unreplaced(r) =>
  /\ r \in Replayed /\ steps[r] \cap Lost = {} => r \in page.deterministic
  /\ r \in page.deterministic => page.held[r] \cap Lost = {}

PageInv ==
  /\ PageType /\ PageReads
  /\ OwnRun(Committed) /\ OwnRun(ViewOf(Api)) /\ OwnSteps
  /\ PinnedInv /\ ListedInv /\ DocInv /\ CountedInv

StudyType ==
  /\ answers \in [Processes -> Replies \cup Judgements]
  /\ \A p \in Processes : answers[p] \in IF p \in Reliability THEN Replies ELSE Judgements
  /\ stage \in [Processes -> {"asking", "writing", "done", "killed"}]
  /\ report \in [{"reliability", "results"} -> Processes \cup {Missing, Empty, Torn}]
  /\ written \in Seq(Processes)

StudyInv ==
  /\ StudyType
  /\ \A p \in Processes : stage[p] = "writing" => Writes(p)
  /\ \A f \in DOMAIN report : report[f] \in Processes =>
       FileOf(report[f]) = f /\ Writes(report[f]) /\ report[f] \in Range(written)
  /\ \A f \in DOMAIN report, p \in Processes : Undamaged(f) /\ WroteLast(f, p) => report[f] = p

Precedes(p, q) == \E i, j \in DOMAIN written : written[i] = p /\ written[j] = q /\ i <= j

ShownInv ==
  /\ page.rate # Missing =>
       /\ page.rate \in Reliability \cap Range(written) /\ Writes(page.rate)
       /\ report["reliability"] \in Processes => Precedes(page.rate, report["reliability"])
  /\ page.rate # Missing /\ page.checks # Missing => Precedes(page.rate, page.checks)
  /\ page.results # Missing => page.results \in Harness
  /\ page.pc \in {"idle", "results", "rate"} => page.checks = Missing

LEMMA SomeRuns ==
  ASSUME NEW S
  PROVE  /\ \A R \in SUBSET RunIds : [R -> S] \subseteq OfSome(S)
         /\ \A g \in OfSome(S) : DOMAIN g \in SUBSET RunIds /\ g \in [DOMAIN g -> S]
BY DEF OfSome

LEMMA PageRun ==
  ASSUME PageType
  PROVE  /\ DOMAIN page.listed \in SUBSET RunIds /\ page.listed \in [DOMAIN page.listed -> Headers]
         /\ page.held \in [DOMAIN page.listed -> SUBSET Steps]
         /\ page.pc \in {"count", "replay", "tape"} \cup PageInside =>
              page.run \in DOMAIN page.listed /\ page.run \in RunIds
<1>1. page.listed \in OfSome(Headers) /\ page.held \in OfSome(SUBSET Steps)
  BY DEF PageType, Pages
<1> QED
  BY <1>1, SomeRuns DEF PageType

LEMMA PageListed ==
  ASSUME IInv
  PROVE  /\ PrimaryRuns \in SUBSET RunIds
         /\ [r \in PrimaryRuns |-> ViewOf(Api).runs[r]] \in [PrimaryRuns -> Headers]
         /\ [r \in PrimaryRuns |-> ViewOf(Api).steps[r]] \in [PrimaryRuns -> SUBSET Steps]
<1>1. ViewOf(Api) \in Views
  BY ConnsAssumption DEF IInv, TypeOK, ViewOf
<1> QED
  BY <1>1 DEF Views, PrimaryRuns

LEMMA PageStepType ==
  ASSUME IInv, FiniteViews, PageType, EvalStep
  PROVE  PageType'
<1>0. page \in Pages
  BY DEF PageType
<1> USE DEF PagePhases, PageInside
<1>1. ASSUME NEW kind \in {"eval", "metrics"}, EvalLists(kind) PROVE PageType'
  <2> DEFINE R == PrimaryRuns
             new == [r \in R |-> ViewOf(Api).runs[r]]
             held == [r \in R |-> ViewOf(Api).steps[r]]
             pc == IF kind = "eval" THEN "results" ELSE "next"
  <2>1. R \in SUBSET RunIds /\ new \in [R -> Headers] /\ held \in [R -> SUBSET Steps]
    BY PageListed
  <2>2. page.pc = "idle" /\ page.deterministic = {}
    BY <1>1 DEF EvalLists, PageType
  <2>3. page' = [page EXCEPT !.pc = pc, !.kind = kind, !.listed = new, !.held = held, !.todo = R]
    BY <1>1 DEF EvalLists, Show
  <2>4. new \in OfSome(Headers) /\ held \in OfSome(SUBSET Steps) /\ DOMAIN new = R /\ DOMAIN held = R
    BY <2>1, SomeRuns
  <2>5. pc \in {"results", "next"}
    OBVIOUS
  <2> HIDE DEF R, new, held, pc
  <2> QED
    BY <1>0, <2>1, <2>2, <2>3, <2>4, <2>5 DEF PageType, Pages
<1>2. CASE ReadsFiles
  <2>1. \A f : ReadReport(f) \in Processes \cup {Missing}
    BY DEF ReadReport
  <2> QED
    <3> DEFINE results == ReadReport("results")
               rate == ReadReport("reliability")
    <3>1. results \in Processes \cup {Missing} /\ rate \in Processes \cup {Missing}
      BY <2>1
    <3>2. /\ page.pc \in {"results", "rate", "checks"}
          /\ \/ page' = [page EXCEPT !.pc = "rate", !.results = results]
             \/ page' = [page EXCEPT !.pc = "checks", !.rate = rate]
             \/ page' = [page EXCEPT !.pc = "next", !.checks = rate]
      BY <1>2 DEF ReadsFiles, Show
    <3> HIDE DEF results, rate
    <3>3. page' \in Pages /\ page'.pc \in {"rate", "checks", "next"}
      BY <1>0, <3>1, <3>2 DEF Pages
    <3>4. /\ page'.listed = page.listed /\ page'.held = page.held /\ page'.todo = page.todo
          /\ page'.deterministic = page.deterministic
      BY <1>0, <3>2 DEF Pages
    <3> QED
      BY <3>2, <3>3, <3>4 DEF PageType
<1>3. ASSUME NEW r \in RunIds, NextRun(r) PROVE PageType'
  BY <1>0, <1>3 DEF NextRun, Show, PageType, Pages
<1>4. CASE Answer
  BY <1>0, <1>4 DEF Answer, Show, PageType, Pages
<1>5. CASE EvalReads
  <2>1. PICK pc \in {"next", "replay"} \cup PageInside : page' = [page EXCEPT !.pc = pc]
    BY <1>5 DEF EvalReads, Show
  <2> QED
    BY <1>0, <1>5, <2>1 DEF EvalReads, PageType, Pages
<1>6. CASE CountSteps
  BY <1>0, <1>6 DEF CountSteps, Show, PageType, Pages
<1>7. CASE ReplaySteps
  <2> DEFINE S == Document(Api).steps
  <2>1. S \in SUBSET Steps /\ IsFiniteSet(S) /\ UniqueIds(S)
    BY <1>7, ConnsAssumption, DocumentRead DEF ReplaySteps, GetRunSteps, Free
  <2>2. ById(S) \in Seq(Steps)
    BY <2>1, ByIdSorts, SeqMonotonic
  <2>3. page.pc = "replay steps" /\ page' = [page EXCEPT !.pc = "tape", !.doc = ById(S)]
    BY <1>7 DEF ReplaySteps, Show
  <2> HIDE DEF S
  <2> QED
    BY <1>0, <2>2, <2>3 DEF PageType, Pages
<1>8. CASE TapeSteps
  <2>1. PICK det \in {page.deterministic, page.deterministic \cup {page.run}} :
          page' = [page EXCEPT !.pc = "next", !.run = None, !.doc = <<>>, !.deterministic = det]
    BY <1>8 DEF TapeSteps, Show
  <2>2. page.run \in DOMAIN page.listed /\ page.run \in RunIds
    BY <1>8, PageRun DEF TapeSteps
  <2>3. page' \in Pages /\ page'.pc = "next"
    <3>1. <<>> \in Seq(Steps) /\ det \in SUBSET RunIds
      <4>1. page.deterministic \in SUBSET RunIds
        BY <1>0 DEF Pages
      <4>2. det = page.deterministic \/ det = page.deterministic \cup {page.run}
        BY <2>1
      <4> QED
        BY <2>2, <4>1, <4>2
    <3> QED
      BY <1>0, <2>1, <3>1 DEF Pages
  <2>4. /\ page'.listed = page.listed /\ page'.held = page.held /\ page'.todo = page.todo
        /\ page'.deterministic = det
    BY <1>0, <2>1 DEF Pages
  <2> QED
    BY <2>1, <2>2, <2>3, <2>4 DEF PageType
<1> QED
  BY <1>1, <1>2, <1>3, <1>4, <1>5, <1>6, <1>7, <1>8 DEF EvalStep

\* What the page does to the store and to its connection.
LEMMA PageCalls ==
  ASSUME IInv, PageType, EvalStep, UNCHANGED <<setting, jobVars, fork>>
  PROVE  /\ [Next]_vars
         /\ UNCHANGED <<runs, steps, rejected>> /\ ViewOf(Api)' = ViewOf(Api)
<1>0. /\ Api \in Conns
      /\ tx \in [Conns -> {"none", "begun", "snapshot", "lock"}] /\ seen \in [Conns -> Views \cup {None}]
  BY ConnsAssumption DEF IInv, TypeOK
<1>1. ASSUME Select(Api), UNCHANGED <<runs, steps>> PROVE ViewOf(Api)' = ViewOf(Api)
  BY <1>0, <1>1 DEF Select, ViewOf, Committed
<1>2. CASE \E kind \in {"eval", "metrics"} : EvalLists(kind)
  BY <1>0, <1>1, <1>2 DEF EvalLists, ListRuns, Next
<1>3. CASE ReadsFiles \/ Answer \/ \E r \in RunIds : NextRun(r)
  BY <1>3 DEF ReadsFiles, Answer, NextRun, vars, ViewOf, Committed
<1>4. CASE EvalReads
  <2>1. page.run \in RunIds /\ GetRunHeader(Api, page.run)
    BY <1>4, PageRun DEF EvalReads
  <2> QED
    BY <1>0, <1>1, <2>1 DEF GetRunHeader, Next
<1>5. CASE CountSteps \/ ReplaySteps \/ TapeSteps
  BY <1>0, <1>1, <1>5 DEF CountSteps, ReplaySteps, TapeSteps, GetRunSteps, Next
<1> QED
  BY <1>2, <1>3, <1>4, <1>5 DEF EvalStep

LEMMA PageAllInv ==
  ASSUME AllInv, PageType, PageReads, EvalStep, UNCHANGED <<setting, jobVars, fork>>
  PROVE  AllInv' /\ PageReads'
<1>0. /\ Api \in Conns /\ page \in Pages
      /\ reading \in [Conns -> [run : RunIds, header : Headers] \cup {None}]
  BY ConnsAssumption DEF AllInv, IInv, TypeOK, PageType
<1>1. IInv' /\ FiniteViews'
  BY PageCalls, StepIInv, FiniteStep DEF AllInv
<1>2. JobInv' /\ ForkType' /\ CopyInv' /\ OrdInv'
  BY PageCalls, KeptAllInv DEF AllInv
<1>3. ASSUME UNCHANGED reading, page.pc \notin PageInside, page'.pc \notin PageInside
      PROVE  AllInv' /\ PageReads'
  BY <1>1, <1>2, <1>3 DEF AllInv, ReadInv, Target, PageReads
<1>4. ASSUME Free(Api), reading'[Api] # None => reading'[Api].run = page'.run,
             page'.pc \in PageInside => reading'[Api] # None
      PROVE  AllInv' /\ PageReads'
  BY <1>1, <1>2, <1>4 DEF AllInv, ReadInv, Target, PageReads, Free
<1>5. ASSUME page.pc \in PageInside, page'.pc \notin PageInside PROVE AllInv' /\ PageReads'
  BY <1>1, <1>2, <1>5 DEF AllInv, ReadInv, PageReads
<1>6. CASE \E kind \in {"eval", "metrics"} : EvalLists(kind)
  <2>1. PICK kind \in {"eval", "metrics"} : EvalLists(kind)
    BY <1>6
  <2>2. page'.pc \in {"results", "next"} /\ page.pc = "idle" /\ UNCHANGED reading
    BY <1>0, <2>1 DEF EvalLists, ListRuns, Show, Pages
  <2> QED
    BY <1>3, <2>2 DEF PageInside
<1>7. CASE ReadsFiles \/ Answer \/ \E r \in RunIds : NextRun(r)
  <2>1. page'.pc \notin PageInside /\ page.pc \notin PageInside /\ UNCHANGED reading
    BY <1>0, <1>7 DEF ReadsFiles, Answer, NextRun, Show, PageInside, vars, Pages
  <2> QED
    BY <1>3, <2>1
<1>8. CASE EvalReads
  <2>1. /\ page.pc \in {"count", "replay", "tape"} /\ GetRunHeader(Api, page.run)
        /\ page' = [page EXCEPT !.pc =
             IF reading'[Api] = None
               THEN IF @ = "count" THEN "replay" ELSE "next"
               ELSE CASE @ = "count" -> "count steps"
                      [] @ = "replay" -> "replay steps"
                      [] @ = "tape" -> "tape steps"]
    BY <1>8 DEF EvalReads, Show
  <2>2. /\ Free(Api)
        /\ reading'[Api] # None => reading'[Api].run = page.run
    BY <1>0, <2>1 DEF GetRunHeader
  <2>3. /\ page'.run = page.run
        /\ reading'[Api] = None => page'.pc \in {"replay", "next"}
    <3> DEFINE pc == IF reading'[Api] = None
                       THEN IF page.pc = "count" THEN "replay" ELSE "next"
                       ELSE CASE page.pc = "count" -> "count steps"
                              [] page.pc = "replay" -> "replay steps"
                              [] page.pc = "tape" -> "tape steps"
    <3>1. page' = [page EXCEPT !.pc = pc]
      BY <2>1
    <3>2. reading'[Api] = None => pc \in {"replay", "next"}
      BY <2>1
    <3> HIDE DEF pc
    <3> QED
      BY <1>0, <3>1, <3>2 DEF Pages
  <2> QED
    BY <1>4, <2>2, <2>3 DEF PageInside
<1>9. CASE CountSteps \/ ReplaySteps \/ TapeSteps
  <2>1. page.pc \in PageInside /\ page'.pc \in {"replay", "tape", "next"}
    BY <1>0, <1>9 DEF CountSteps, ReplaySteps, TapeSteps, Show, PageInside, Pages
  <2> QED
    BY <1>5, <2>1 DEF PageInside
<1> QED
  BY <1>6, <1>7, <1>8, <1>9 DEF EvalStep

\* What recorders and forks do to the runs that recorders write: a run of p that
\* is still that of p has only got steps, each of a greater id.
Advances ==
  /\ \A r \in RunIds, p \in Recorders : Began(r, p) => Began(r, p)'
  /\ OwnRun(Committed)' /\ OwnSteps'
  /\ \A r \in RunIds, p \in Recorders : Began(r, p) /\ Remains(r, p)' =>
       /\ Remains(r, p) /\ steps[r] \subseteq steps'[r]
       /\ \A s \in steps'[r] \ steps[r] : s.id = count[s.take] + 1
  /\ ViewOf(Api)' \in {ViewOf(Api), Committed'}

LEMMA ViewMoves ==
  ASSUME IInv, [Next]_vars
  PROVE  ViewOf(Api)' \in {ViewOf(Api), Committed'}
<1>0. /\ Api \in Conns
      /\ tx \in [Conns -> {"none", "begun", "snapshot", "lock"}] /\ seen \in [Conns -> Views \cup {None}]
  BY ConnsAssumption DEF IInv, TypeOK
<1>1. ASSUME NEW c \in Conns, Select(c), UNCHANGED <<runs, steps>>
      PROVE  ViewOf(Api)' \in {ViewOf(Api), Committed'}
  BY <1>0, <1>1 DEF Select, ViewOf, Committed
<1>2. ASSUME NEW c \in Conns, NEW x \in {"none", "lock"},
             tx' = [tx EXCEPT ![c] = x], seen' = [seen EXCEPT ![c] = None]
      PROVE  ViewOf(Api)' \in {ViewOf(Api), Committed'}
  <2>1. tx'[Api] = "snapshot" => tx[Api] = "snapshot" /\ seen'[Api] = seen[Api]
    BY <1>0, <1>2
  <2> QED
    BY <2>1 DEF ViewOf
<1>3. ASSUME NEW c \in Conns, Locked(c) PROVE ViewOf(Api)' \in {ViewOf(Api), Committed'}
  <2>1. tx'[Api] = "snapshot" <=> tx[Api] = "snapshot"
    BY <1>0, <1>3 DEF Locked
  <2> QED
    BY <1>3, <2>1 DEF Locked, ViewOf, Committed
<1>4. CASE UNCHANGED vars
  BY <1>4 DEF vars, ViewOf, Committed
<1>5. CASE Next
  <2>1. PICK c \in Conns :
          \/ \E r \in RunIds :
               \/ \E t \in Takes : StartRun(c, r, t)
               \/ StartClash(c, r)
               \/ \E s \in Steps : AppendStep(c, r, s) \/ AppendClash(c, r, s)
               \/ \E status \in {"ok", "error"} : FinishRun(c, r, status)
               \/ DeleteRun(c, r)
               \/ GetRunHeader(c, r)
          \/ GetRunSteps(c) \/ ListRuns(c) \/ Locked(c) \/ Close(c)
    BY <1>5 DEF Next
  <2>2. \/ \E x \in {"none", "lock"} :
             tx' = [tx EXCEPT ![c] = x] /\ seen' = [seen EXCEPT ![c] = None]
        \/ Select(c) /\ UNCHANGED <<runs, steps>>
        \/ Locked(c)
    BY <2>1 DEF StartRun, StartClash, AppendStep, AppendClash, FinishRun, DeleteRun, GetRunHeader,
       GetRunSteps, ListRuns, Close, Commit, Reject
  <2> QED
    BY <1>1, <1>2, <1>3, <2>2
<1> QED
  BY <1>4, <1>5

\* The run a recorder writes.
LEMMA OnRun ==
  ASSUME IInv, JobInv, NEW p \in Recorders, RecorderStep(p), UNCHANGED setting
  PROVE  LET w == RunOf(p)
         IN  /\ job[p] \notin {"delete", "start"} => job'[p] \notin {"delete", "start"}
             /\ count'[p] >= count[p]
             /\ \/ runs'[w] = None
                \/ /\ job[p] = "start" /\ job'[p] = "append" /\ runs'[w].take = p
                   /\ steps'[w] = steps[w] /\ count'[p] = count[p]
                \/ /\ runs'[w] # None => runs[w] # None /\ runs'[w].take = runs[w].take
                   /\ \/ steps'[w] = steps[w]
                      \/ /\ count'[p] = count[p] + 1 /\ count'[p] <= Len(shape[p])
                         /\ steps'[w] = steps[w] \cup {StepOf(p, count'[p])}
<1> DEFINE w == RunOf(p)
<1>0. /\ runs \in [RunIds -> Headers \cup {None}] /\ steps \in [RunIds -> SUBSET Steps]
      /\ p \in Conns /\ p \in Takes /\ w \in RunIds
      /\ job \in [Recorders -> Jobs] /\ count \in [Recorders -> Nat]
  BY JobFacts DEF IInv, TypeOK, Committed, Views, JobInv
<1>1. CASE Delete(p)
  BY <1>0, <1>1 DEF Delete, GoOn, DeleteRun, Locked, Commit, RunOf
<1>2. CASE Start(p)
  BY <1>0, <1>2 DEF Start, GoOn, StartRun, StartClash, Locked, Reject, Commit, RunOf
<1>3. CASE Store(p)
  <2> DEFINE s == StepOf(p, count[p] + 1)
  <2>1. /\ job[p] = "append" /\ UNCHANGED job /\ count'[p] = count[p] + 1 /\ count[p] < Len(shape[p])
        /\ AppendStep(p, w, s) \/ AppendClash(p, w, s) \/ Locked(p)
    BY <1>0, <1>3 DEF Store, RunOf
  <2> HIDE DEF s
  <2>2. runs' = runs /\ steps'[w] \in {steps[w], steps[w] \cup {s}}
    BY <1>0, <2>1 DEF AppendStep, AppendClash, Locked, Reject, Commit
  <2>3. count'[p] <= Len(shape[p]) /\ count'[p] >= count[p] /\ s = StepOf(p, count'[p])
    BY <1>0, <2>1, JobFacts DEF s
  <2> QED
    BY <2>1, <2>2, <2>3
<1>4. CASE Finish(p)
  <2>1. job'[p] \in {"done", "failed"} /\ UNCHANGED <<count, steps>>
    BY <1>0, <1>4 DEF Finish, GoOn, FinishRun, Locked, Commit
  <2>2. runs'[w] # None => runs[w] # None /\ runs'[w].take = runs[w].take
    <3>1. CASE FinishRun(p, w, "ok")
      <4>1. CASE runs[w] # None
        <5>1. runs[w] \in Headers
          BY <1>0, <4>1
        <5>2. runs' = [runs EXCEPT ![w] = [runs[w] EXCEPT !.status = "ok"]]
          BY <3>1, <4>1 DEF FinishRun, Commit
        <5> QED
          BY <1>0, <4>1, <5>1, <5>2 DEF Headers
      <4> QED
        BY <3>1, <4>1 DEF FinishRun, Commit
    <3>2. CASE Locked(p)
      BY <3>2 DEF Locked
    <3> QED
      BY <1>4, <3>1, <3>2 DEF Finish, RunOf
  <2> QED
    BY <1>0, <2>1, <2>2
<1>5. CASE End(p)
  BY <1>0, <1>5 DEF End, GoOn, Close
<1> QED
  BY <1>1, <1>2, <1>3, <1>4, <1>5 DEF RecorderStep

LEMMA RecorderAdvances ==
  ASSUME AllInv, OwnRun(Committed), OwnSteps, NEW p \in Recorders, RecorderStep(p),
         UNCHANGED setting
  PROVE  Advances
<1> DEFINE w == RunOf(p)
<1>0. /\ runs \in [RunIds -> Headers \cup {None}] /\ steps \in [RunIds -> SUBSET Steps]
      /\ count \in [Recorders -> Nat] /\ job \in [Recorders -> Jobs]
      /\ job' \in [Recorders -> Jobs] /\ count' \in [Recorders -> Nat]
      /\ \A q \in Recorders : RunOf(q) \in RunIds /\ RunOf(q)' = RunOf(q)
      /\ w \in RunIds /\ shape' = shape
      /\ \A q \in RunIds \ {w} : runs'[q] = runs[q] /\ steps'[q] = steps[q]
      /\ \A q \in Recorders \ {p} : job'[q] = job[q] /\ count'[q] = count[q]
  BY JobFacts, RecorderEffect DEF AllInv, IInv, TypeOK, Committed, Views, JobInv, RunOf
<1>1. /\ job[p] \notin {"delete", "start"} => job'[p] \notin {"delete", "start"}
      /\ count'[p] >= count[p]
      /\ \/ runs'[w] = None
         \/ /\ job[p] = "start" /\ job'[p] = "append" /\ runs'[w].take = p
            /\ steps'[w] = steps[w] /\ count'[p] = count[p]
         \/ /\ runs'[w] # None => runs[w] # None /\ runs'[w].take = runs[w].take
            /\ \/ steps'[w] = steps[w]
               \/ /\ count'[p] = count[p] + 1 /\ count'[p] <= Len(shape[p])
                  /\ steps'[w] = steps[w] \cup {StepOf(p, count'[p])}
  BY OnRun DEF AllInv
<1>2. IInv' /\ ViewOf(Api)' \in {ViewOf(Api), Committed'}
  BY RecorderCalls, StepIInv, ViewMoves DEF AllInv
<1>3. runs'[w] = None => steps'[w] = {}
  BY <1>0, <1>2 DEF IInv, WholeIn, Committed
<1>4. ASSUME NEW r \in RunIds, NEW q \in Recorders, Began(r, q) PROVE Began(r, q)'
  BY <1>0, <1>1, <1>4 DEF Began
<1>5. ASSUME NEW r \in RunIds, NEW t, runs'[r] # None, t = runs'[r].take, t \notin Forkers
      PROVE  Began(r, t)'
  <2>1. CASE r # w \/ (runs[w] # None /\ runs'[w].take = runs[w].take)
    <3>1. Began(r, t)
      BY <1>0, <1>5, <2>1 DEF OwnRun, Committed
    <3> QED
      BY <1>4, <3>1 DEF Began
  <2>2. CASE r = w /\ job'[p] = "append" /\ runs'[w].take = p
    BY <1>0, <1>5, <2>2 DEF Began
  <2> QED
    BY <1>1, <1>5, <2>1, <2>2
<1>6. OwnRun(Committed)'
  BY <1>5 DEF OwnRun, Committed
<1>7. ASSUME NEW q \in Recorders, NEW s \in steps'[RunOf(q)], s.take = q
      PROVE  s.id \in 1 .. count'[q] /\ s = StepOf(q, s.id)
  <2>1. s \in steps[RunOf(q)] => s.id \in 1 .. count[q] /\ s = StepOf(q, s.id)
    BY <1>7 DEF OwnSteps
  <2>2. count[q] \in Nat /\ count'[q] \in Nat /\ count'[q] >= count[q]
    BY <1>0, <1>1
  <2>3. CASE s \in steps[RunOf(q)]
    BY <2>1, <2>2, <2>3
  <2>4. CASE s \notin steps[RunOf(q)]
    <3>1. RunOf(q) = w /\ s = StepOf(p, count'[p]) /\ count'[p] = count[p] + 1
      BY <1>0, <1>1, <1>3, <1>7, <2>4
    <3>2. s.take = p /\ s.id = count'[p]
      BY <3>1 DEF StepOf
    <3> QED
      BY <1>0, <1>7, <3>1, <3>2
  <2> QED
    BY <2>3, <2>4
<1>8. OwnSteps'
  <2>1. \A q \in Recorders : RunOf(q)' = RunOf(q)
    BY <1>0
  <2> QED
    BY <1>0, <1>7, <2>1 DEF OwnSteps, StepOf
<1>9. ASSUME NEW r \in RunIds, NEW q \in Recorders, Began(r, q), Remains(r, q)'
      PROVE  /\ Remains(r, q) /\ steps[r] \subseteq steps'[r]
             /\ \A s \in steps'[r] \ steps[r] : s.id = count[s.take] + 1
  <2>1. CASE r # w
    BY <1>0, <1>9, <2>1 DEF Remains
  <2>2. CASE r = w
    <3>1. runs'[w] # None /\ runs'[w].take = q /\ ~(job[p] = "start" /\ runs'[w].take = p)
      BY <1>9, <2>2 DEF Remains, Began
    <3>2. /\ runs[w] # None /\ runs'[w].take = runs[w].take
          /\ \/ steps'[w] = steps[w]
             \/ steps'[w] = steps[w] \cup {StepOf(p, count'[p])} /\ count'[p] = count[p] + 1
      BY <1>1, <3>1
    <3>3. StepOf(p, count'[p]).take = p /\ StepOf(p, count'[p]).id = count'[p]
      BY DEF StepOf
    <3> QED
      BY <2>2, <3>1, <3>2, <3>3 DEF Remains
  <2> QED
    BY <2>1, <2>2
<1> QED
  BY <1>2, <1>4, <1>6, <1>8, <1>9 DEF Advances

LEMMA ForkAdvances ==
  ASSUME AllInv, OwnRun(Committed), OwnSteps, NEW f \in Forkers, ForkStep(f), UNCHANGED setting
  PROVE  Advances
<1> DEFINE k == ForkId[f]
<1>0. /\ runs \in [RunIds -> Headers \cup {None}] /\ steps \in [RunIds -> SUBSET Steps]
      /\ Api \in Conns /\ k \in RunIds /\ f \in Takes
      /\ UNCHANGED jobVars
      /\ \A q \in RunIds \ {k} : runs'[q] = runs[q] /\ steps'[q] = steps[q]
      /\ \A q \in Recorders : RunOf(q) \in RunIds \ {k} /\ RunOf(q)' = RunOf(q)
  BY ConnsAssumption, TakesAssumption, JobFacts, OwnIds, ForkEffect
     DEF AllInv, IInv, TypeOK, Committed, Views, RunOf
<1>1. ViewOf(Api)' \in {ViewOf(Api), Committed'}
  BY ForkCalls, ViewMoves DEF AllInv
<1>2. runs'[k] = runs[k] \/ runs'[k].take = f
  <2>1. CASE ForkStarts(f)
    BY <1>0, <2>1 DEF ForkStarts, StartRun, StartClash, Locked, Commit, Reject
  <2>2. CASE ForkCopies(f)
    BY <2>2 DEF ForkCopies, AppendStep, AppendClash, Locked, Commit, Reject
  <2>3. CASE ForkReads(f)
    BY <2>3 DEF ForkReads, GetRunHeader
  <2>4. CASE CompareReads(f)
    BY <2>4 DEF CompareReads, GetRunHeader
  <2>5. CASE ForkPlans(f) \/ CompareOrig(f) \/ CompareCopy(f)
    BY <2>5 DEF ForkPlans, CompareOrig, CompareCopy, GetRunSteps
  <2> QED
    BY <2>1, <2>2, <2>3, <2>4, <2>5 DEF ForkStep
<1>3. \A r \in RunIds, q \in Recorders : Began(r, q)' <=> Began(r, q)
  BY <1>0 DEF Began, jobVars
<1>4. OwnRun(Committed)'
  <2>1. ASSUME NEW r \in RunIds, NEW t, runs'[r] # None, t = runs'[r].take, t \notin Forkers
        PROVE  Began(r, t)'
    <3>1. runs'[r] = runs[r]
      BY <1>0, <1>2, <2>1
    <3>2. Began(r, t)
      BY <2>1, <3>1 DEF OwnRun, Committed
    <3> QED
      BY <1>3, <3>2 DEF Began
  <2> QED
    BY <2>1 DEF OwnRun, Committed
<1>5. OwnSteps'
  <2>1. \A q \in Recorders : steps'[RunOf(q)] = steps[RunOf(q)] /\ RunOf(q)' = RunOf(q)
    BY <1>0
  <2> QED
    BY <1>0, <2>1 DEF OwnSteps, StepOf, jobVars
<1>6. ASSUME NEW r \in RunIds, NEW q \in Recorders, Began(r, q), Remains(r, q)'
      PROVE  Remains(r, q) /\ steps'[r] = steps[r]
  BY <1>0, <1>6 DEF Began, Remains
<1> QED
  BY <1>1, <1>3, <1>4, <1>5, <1>6 DEF Advances

\* What a recorder or a fork does keeps what the page relies on.
LEMMA OthersPageInv ==
  ASSUME AllInv, PageInv, Advances, UNCHANGED page
  PROVE  /\ PageType' /\ OwnRun(ViewOf(Api))' /\ PinnedInv' /\ ListedInv' /\ DocInv' /\ CountedInv'
<1> DEFINE v == ViewOf(Api)
<1>0. /\ v' = v \/ v' = Committed'
      /\ \A r \in RunIds, p \in Recorders : Began(r, p) => Began(r, p)'
      /\ OwnRun(Committed)'
      /\ \A r \in DOMAIN page.listed : r \in RunIds /\ Began(r, TakeOf(r)) /\ TakeOf(r)' = TakeOf(r)
      /\ \A p \in Recorders : count[p] \in Nat
  BY PageRun DEF Advances, PageInv, ListedInv, AllInv, JobInv, TakeOf
<1>1. ASSUME NEW r \in RunIds, NEW p, Began(r, p), Remains(r, p)'
      PROVE  /\ Began(r, p)' /\ p \in Recorders \ Forkers
             /\ Remains(r, p) /\ steps[r] \subseteq steps'[r]
             /\ \A s \in steps'[r] \ steps[r] : s.id = count[s.take] + 1
  BY <1>1 DEF Began, Advances
<1>2. ASSUME NEW r \in RunIds, NEW p, Began(r, p), Remains(r, p)', \A s \in steps'[r] : s.take = p,
             NEW D, D \subseteq steps[r], Later(D, r)
      PROVE  Later(D, r)'
  <2>1. ASSUME NEW q \in D, NEW s \in steps'[r] \ D, s \notin steps[r] PROVE q.id < s.id
    <3>1. q.take = p /\ s.take = p /\ s.id = count[p] + 1
      BY <1>1, <1>2, <2>1
    <3>2. q.id \in 1 .. count[p]
      BY <1>2, <3>1 DEF PageInv, OwnSteps, Began
    <3> QED
      BY <1>0, <1>1, <1>2, <3>1, <3>2
  <2>2. ASSUME NEW q \in D, NEW s \in steps'[r] \ D PROVE q.id < s.id
    BY <1>2, <2>1, <2>2 DEF Later
  <2> QED
    BY <2>2 DEF Later
<1>3. PageType'
  BY DEF PageInv, PageType
<1>4. OwnRun(v)'
  <2>1. CASE v' = v
    <3>1. ASSUME NEW r \in RunIds, NEW p, v.runs[r] # None, p = v.runs[r].take, p \notin Forkers
          PROVE  Began(r, p)'
      BY <1>0, <3>1 DEF PageInv, OwnRun, Began
    <3> QED
      BY <2>1, <3>1 DEF OwnRun
  <2>2. CASE v' = Committed'
    BY <1>0, <2>2 DEF OwnRun
  <2> QED
    BY <1>0, <2>1, <2>2
<1>5. PinnedInv'
  <2>1. CASE v' = v
    <3>1. ASSUME NEW r \in RunIds, NEW p, p = v.runs[r].take, v.runs[r] # None, p \notin Forkers,
                 Remains(r, p)'
          PROVE  /\ v.steps[r] \subseteq steps'[r]
                 /\ (\A s \in steps'[r] : s.take = p) => Later(v.steps[r], r)'
      <4>1. Began(r, p)
        BY <3>1 DEF PageInv, OwnRun
      <4>2. Remains(r, p) /\ steps[r] \subseteq steps'[r]
        BY <1>1, <3>1, <4>1
      <4>3. /\ v.steps[r] \subseteq steps[r]
            /\ (\A s \in steps[r] : s.take = p) => Later(v.steps[r], r)
        BY <3>1, <4>2 DEF PageInv, PinnedInv
      <4> DEFINE D == v.steps[r]
      <4> HIDE DEF D
      <4>4. /\ D \subseteq steps'[r]
            /\ (\A s \in steps'[r] : s.take = p) => \A q \in D, s \in steps'[r] \ D : q.id < s.id
        BY <1>2, <3>1, <4>1, <4>2, <4>3 DEF D, Later
      <4> QED
        BY <2>1, <4>4 DEF D, Later
    <3> QED
      BY <2>1, <3>1 DEF PinnedInv
  <2>2. CASE v' = Committed'
    BY <2>2 DEF PinnedInv, Later, Committed
  <2> QED
    BY <1>0, <2>1, <2>2
<1>6. ASSUME NEW r \in DOMAIN page.listed, Remains(r, TakeOf(r))'
      PROVE  /\ Remains(r, TakeOf(r)) /\ steps[r] \subseteq steps'[r] /\ v.steps[r] \subseteq steps[r]
             /\ v'.runs[r] # None /\ v'.runs[r].take = TakeOf(r)
             /\ v.steps[r] \subseteq v'.steps[r]
             /\ page.held[r] \subseteq v.steps[r]
  <2> DEFINE p == TakeOf(r)
  <2>1. r \in RunIds /\ Began(r, p) /\ p' = p
    BY <1>0
  <2> HIDE DEF p
  <2>2. Remains(r, p)'
    BY <1>6, <2>1 DEF p, Remains
  <2>3. Remains(r, p) /\ steps[r] \subseteq steps'[r] /\ p \notin Forkers
    BY <1>1, <2>1, <2>2
  <2>4. v.runs[r] # None /\ v.runs[r].take = p /\ page.held[r] \subseteq v.steps[r]
    BY <2>3 DEF PageInv, ListedInv, p
  <2>5. v.steps[r] \subseteq steps[r]
    BY <2>1, <2>3, <2>4 DEF PageInv, PinnedInv
  <2>6. CASE v' = v
    BY <2>3, <2>4, <2>5, <2>6 DEF p
  <2>7. CASE v' = Committed'
    <3>1. v'.runs[r] = runs'[r] /\ v'.steps[r] = steps'[r]
      BY <2>7 DEF Committed
    <3>2. runs'[r] # None /\ runs'[r].take = p
      BY <2>1, <2>2 DEF Remains
    <3> QED
      BY <2>3, <2>4, <2>5, <3>1, <3>2 DEF p
  <2> QED
    BY <1>0, <2>6, <2>7
<1>7. ListedInv'
  <2>1. ASSUME NEW r \in DOMAIN page.listed
        PROVE  /\ Began(r, TakeOf(r))'
               /\ Remains(r, TakeOf(r))' =>
                    /\ v'.runs[r] # None /\ v'.runs[r].take = TakeOf(r)'
                    /\ page.held[r] \subseteq v'.steps[r]
    <3> DEFINE p == TakeOf(r)
    <3>1. r \in RunIds /\ Began(r, p) /\ p' = p
      BY <1>0
    <3>2. p \in Recorders
      BY <3>1 DEF Began
    <3> HIDE DEF p
    <3>3. Began(r, p)'
      BY <1>0, <3>1, <3>2
    <3> QED
      BY <1>6, <3>1, <3>3 DEF p
  <2> QED
    BY <2>1 DEF ListedInv
<1>8. ASSUME NEW r \in DOMAIN page.listed, Unreplaced(r)'
      PROVE  Unreplaced(r) /\ \A s \in steps'[r] : s.take = TakeOf(r)
  <2>1. TakeOf(r)' = TakeOf(r) /\ Remains(r, TakeOf(r))' /\ \A s \in steps'[r] : s.take = TakeOf(r)
    BY <1>0, <1>8 DEF Unreplaced
  <2> QED
    BY <1>6, <2>1 DEF Unreplaced
<1>9. DocInv'
  <2> DEFINE r == page.run
  <2> SUFFICES ASSUME page.pc \in {"tape", "tape steps"}, Unreplaced(r)'
               PROVE  \E D \in SUBSET steps'[r] : page.doc = ById(D) /\ Before(D, r)'
    BY DEF DocInv
  <2>1. r \in DOMAIN page.listed /\ r \in RunIds
    BY PageRun DEF PageInv, PageInside
  <2>2. Unreplaced(r) /\ \A s \in steps'[r] : s.take = TakeOf(r)
    BY <1>8, <2>1
  <2>3. PICK D \in SUBSET steps[r] : page.doc = ById(D) /\ Before(D, r)
    BY <2>2 DEF PageInv, DocInv
  <2>4. Remains(r, TakeOf(r))'
    BY DEF Unreplaced
  <2>5. D \subseteq steps'[r] /\ D \subseteq v'.steps[r] /\ page.held[r] \subseteq D
    BY <1>6, <2>1, <2>3, <2>4 DEF Before
  <2>6. \A q \in D, s \in steps'[r] \ D : q.id < s.id
    <3> DEFINE p == TakeOf(r)
    <3>1. Began(r, p) /\ p' = p /\ \A s \in steps'[r] : s.take = p
      BY <1>0, <2>1, <2>2
    <3> HIDE DEF p
    <3>2. Remains(r, p)'
      BY <2>4, <3>1 DEF p, Remains
    <3>3. Later(D, r)
      BY <2>3 DEF Before
    <3> QED
      BY <1>2, <2>1, <3>1, <3>2, <3>3 DEF Later
  <2> QED
    BY <2>3, <2>5, <2>6 DEF Before, Later
<1>10. CountedInv'
  <2>1. ASSUME NEW r \in DOMAIN page.listed, Unreplaced(r)'
        PROVE  /\ r \in Replayed /\ steps'[r] \cap Lost = {} => r \in page.deterministic
               /\ r \in page.deterministic => page.held[r] \cap Lost = {}
    <3>1. Unreplaced(r) /\ Remains(r, TakeOf(r))'
      BY <1>8, <2>1 DEF Unreplaced
    <3>2. steps[r] \subseteq steps'[r]
      BY <1>6, <3>1
    <3> QED
      BY <3>1, <3>2 DEF PageInv, CountedInv
  <2> QED
    BY <2>1 DEF CountedInv, Replayed
<1> QED
  BY <1>3, <1>4, <1>5, <1>7, <1>9, <1>10

\* The page is inside get_run by itself.
LEMMA OthersPageReads ==
  ASSUME AllInv, PageReads, UNCHANGED <<setting, page>>,
         \/ \E r \in Recorders : RecorderStep(r)
         \/ \E f \in Forkers : ForkStep(f)
  PROVE  PageReads'
<1>1. CASE \E r \in Recorders : RecorderStep(r)
  <2>1. UNCHANGED fork /\ reading'[Api] = reading[Api]
    BY <1>1, RecorderEffect DEF AllInv
  <2> QED
    BY <2>1 DEF PageReads
<1>2. CASE \E f \in Forkers : ForkStep(f)
  <2>1. PICK f \in Forkers : ForkStep(f)
    BY <1>2
  <2>2. Free(Api) \/ fork[f].pc \in Inside
    BY <2>1 DEF ForkStep, ForkReads, ForkPlans, ForkStarts, ForkCopies, CompareReads, CompareOrig,
       CompareCopy, GetRunHeader, StartRun, StartClash, AppendStep, AppendClash, Locked, Inside
  <2> QED
    BY <2>2 DEF PageReads, Free
<1> QED
  BY <1>1, <1>2

\* The first steps of a list sorted by id are the list of the first steps.
LEMMA PrefixById ==
  ASSUME NEW T \in SUBSET Steps, IsFiniteSet(T), UniqueIds(T), NEW D \in SUBSET T,
         \A q \in D, s \in T \ D : q.id < s.id
  PROVE  /\ ToSet(ById(D)) = D
         /\ \A n \in DOMAIN ById(D) : n \in DOMAIN ById(T) /\ ById(T)[n] = ById(D)[n]
<1>1. D \in SUBSET Steps /\ IsFiniteSet(D) /\ UniqueIds(D)
  BY FS_Subset DEF UniqueIds
<1>2. ASSUME NEW s \in D PROVE Rank(T, s) = Rank(D, s)
  <2>1. \A q \in T \ D : ~(q.id <= s.id)
    BY <1>2, StepsAssumption
  <2>2. {q \in T : q.id <= s.id} = {q \in D : q.id <= s.id}
    BY <2>1
  <2> QED
    BY <2>2 DEF Rank
<1>3. ASSUME NEW n \in DOMAIN ById(D)
      PROVE  n \in DOMAIN ById(T) /\ ById(T)[n] = ById(D)[n]
  <2> DEFINE s == ById(D)[n]
  <2>1. ToSet(ById(D)) = D /\ Rank(D, s) = n
    BY <1>1, <1>3, ByIdSorts
  <2>2. s \in D
    BY <1>3, <2>1 DEF ToSet
  <2>3. Rank(T, s) = n
    BY <1>2, <2>1, <2>2
  <2> HIDE DEF s
  <2>4. Rank(T, s) \in DOMAIN ById(T) /\ ById(T)[Rank(T, s)] = s
    BY <2>2, ByIdSorts
  <2> QED
    BY <2>3, <2>4 DEF s
<1>4. ToSet(ById(D)) = D
  BY <1>1, ByIdSorts
<1> QED
  BY <1>3, <1>4

\* The page changes nothing but itself.
LEMMA PageKeeps ==
  ASSUME AllInv, PageInv, EvalStep, UNCHANGED <<setting, jobVars, fork>>
  PROVE  /\ OwnRun(Committed)' /\ OwnRun(ViewOf(Api))' /\ OwnSteps' /\ PinnedInv'
         /\ UNCHANGED <<runs, steps>> /\ ViewOf(Api)' = ViewOf(Api)
         /\ \A r, p : Began(r, p)' <=> Began(r, p)
<1>1. UNCHANGED <<runs, steps>> /\ ViewOf(Api)' = ViewOf(Api)
  BY PageCalls DEF AllInv, PageInv
<1>2. \A r, p : Began(r, p)' <=> Began(r, p)
  BY DEF Began, RunOf, jobVars
<1>3. OwnRun(Committed)' /\ OwnRun(ViewOf(Api))'
  BY <1>1, <1>2 DEF PageInv, OwnRun, Committed
<1>4. OwnSteps'
  BY <1>1 DEF PageInv, OwnSteps, RunOf, StepOf, jobVars
<1>5. PinnedInv'
  BY <1>1 DEF PageInv, PinnedInv, Remains, Later
<1> QED
  BY <1>1, <1>2, <1>3, <1>4, <1>5

\* The same runs are listed.
LEMMA SameList ==
  ASSUME AllInv, PageInv, EvalStep, UNCHANGED <<setting, jobVars, fork>>,
         page'.listed = page.listed, page'.held = page.held
  PROVE  /\ ListedInv'
         /\ \A r \in DOMAIN page.listed : Unreplaced(r)' <=> Unreplaced(r)
         /\ \A D, r : Before(D, r)' <=> Before(D, r)
<1>1. /\ UNCHANGED <<runs, steps>> /\ ViewOf(Api)' = ViewOf(Api)
      /\ \A r, p : Began(r, p)' <=> Began(r, p)
  BY PageKeeps
<1>2. \A r : TakeOf(r)' = TakeOf(r)
  BY DEF TakeOf
<1>3. \A r, p : Remains(r, p)' <=> Remains(r, p)
  BY <1>1 DEF Remains
<1>4. ASSUME NEW r \in DOMAIN page.listed
      PROVE  /\ Began(r, TakeOf(r))'
             /\ Remains(r, TakeOf(r))' =>
                  /\ ViewOf(Api)'.runs[r] # None /\ ViewOf(Api)'.runs[r].take = TakeOf(r)'
                  /\ page.held[r] \subseteq ViewOf(Api)'.steps[r]
  <2> DEFINE p == TakeOf(r)
  <2>1. p' = p /\ (Began(r, p)' <=> Began(r, p)) /\ (Remains(r, p)' <=> Remains(r, p))
    BY <1>1, <1>2 DEF Remains, Began, RunOf, jobVars
  <2>2. /\ Began(r, p)
        /\ Remains(r, p) =>
             /\ ViewOf(Api).runs[r] # None /\ ViewOf(Api).runs[r].take = p
             /\ page.held[r] \subseteq ViewOf(Api).steps[r]
    BY DEF PageInv, ListedInv
  <2> QED
    BY <1>1, <2>1, <2>2
<1>5. ListedInv'
  BY <1>4 DEF ListedInv
<1>6. \A r \in DOMAIN page.listed : Unreplaced(r)' <=> Unreplaced(r)
  BY <1>1, <1>2 DEF Unreplaced, Remains
<1>7. \A D, r : Before(D, r)' <=> Before(D, r)
  BY <1>1 DEF Before, Later
<1> QED
  BY <1>5, <1>6, <1>7

\* What the request goes on with.
LEMMA PageMoves ==
  ASSUME AllInv, PageInv, EvalStep, UNCHANGED <<setting, jobVars, fork>>,
         page'.listed = page.listed, page'.held = page.held,
         page'.deterministic = page.deterministic, page'.doc = page.doc,
         Replayed' \subseteq Replayed,
         page'.pc \in {"tape", "tape steps"} => page.pc = "tape" /\ page'.run = page.run
  PROVE  ListedInv' /\ DocInv' /\ CountedInv'
<1>0. /\ ListedInv'
      /\ \A r \in DOMAIN page.listed : Unreplaced(r)' <=> Unreplaced(r)
      /\ \A D, r : Before(D, r)' <=> Before(D, r)
      /\ UNCHANGED steps
  BY SameList, PageKeeps
<1>1. DocInv'
  <2> SUFFICES ASSUME page'.pc \in {"tape", "tape steps"}, Unreplaced(page.run)'
               PROVE  \E D \in SUBSET steps[page.run] : page.doc = ById(D) /\ Before(D, page.run)'
    BY <1>0 DEF DocInv, Unreplaced, Remains, TakeOf, Before, Later
  <2>1. page.pc = "tape" /\ page.run \in DOMAIN page.listed
    BY PageRun DEF PageInv
  <2>2. Unreplaced(page.run)
    BY <1>0, <2>1
  <2> QED
    BY <1>0, <2>1, <2>2 DEF PageInv, DocInv
<1>2. CountedInv'
  <2>1. ASSUME NEW r \in DOMAIN page.listed, Unreplaced(r)'
        PROVE  /\ r \in Replayed' /\ steps[r] \cap Lost = {} => r \in page.deterministic
               /\ r \in page.deterministic => page.held[r] \cap Lost = {}
    BY <1>0, <2>1 DEF PageInv, CountedInv
  <2> QED
    BY <1>0, <2>1 DEF CountedInv
<1> QED
  BY <1>0, <1>1, <1>2

\* A list of runs is of runs that their recorders have begun.
LEMMA PageLists ==
  ASSUME AllInv, PageInv, UNCHANGED <<setting, jobVars, fork>>,
         NEW kind \in {"eval", "metrics"}, EvalLists(kind)
  PROVE  ListedInv' /\ DocInv' /\ CountedInv'
<1> DEFINE v == ViewOf(Api)
<1>0. EvalStep /\ page \in Pages
  BY DEF EvalStep, PageInv, PageType
<1>1. /\ UNCHANGED <<runs, steps>> /\ v' = v
      /\ \A r, p : Began(r, p)' <=> Began(r, p)
  BY <1>0, PageKeeps
<1>2. page.pc = "idle" /\ page.deterministic = {}
  BY DEF EvalLists, PageInv, PageType
<1>3. /\ page'.pc \in {"results", "next"} /\ page'.todo = PrimaryRuns
      /\ page'.listed = [r \in PrimaryRuns |-> v.runs[r]]
      /\ page'.held = [r \in PrimaryRuns |-> v.steps[r]]
      /\ page'.deterministic = {}
  BY <1>0, <1>2 DEF EvalLists, Show, Pages
<1>4. DOMAIN page'.listed = PrimaryRuns /\ PrimaryRuns \in SUBSET RunIds
  BY <1>3 DEF PrimaryRuns
<1>5. ASSUME NEW r \in PrimaryRuns
      PROVE  /\ Began(r, TakeOf(r))'
             /\ v'.runs[r] # None /\ v'.runs[r].take = TakeOf(r)'
             /\ page'.held[r] \subseteq v'.steps[r]
  <2>1. TakeOf(r)' = v.runs[r].take /\ page'.held[r] = v.steps[r]
    BY <1>3 DEF TakeOf
  <2>2. r \in RunIds /\ v.runs[r] # None /\ v.runs[r].take \notin Forkers
    BY DEF PrimaryRuns
  <2>3. Began(r, v.runs[r].take)
    BY <2>2 DEF PageInv, OwnRun
  <2>4. Began(r, TakeOf(r))'
    BY <2>1, <2>3 DEF Began, RunOf, jobVars
  <2> QED
    BY <1>1, <2>1, <2>2, <2>4
<1>6. ListedInv'
  BY <1>4, <1>5 DEF ListedInv
<1>7. DocInv'
  BY <1>3 DEF DocInv
<1>8. CountedInv'
  BY <1>3, <1>4 DEF CountedInv, Replayed
<1> QED
  BY <1>6, <1>7, <1>8

\* What is read first of a run that was not replaced.
LEMMA PageReplays ==
  ASSUME AllInv, PageInv, UNCHANGED <<setting, jobVars, fork>>, ReplaySteps
  PROVE  ListedInv' /\ DocInv' /\ CountedInv'
<1> DEFINE r == page.run
           D == ViewOf(Api).steps[r]
<1>0. EvalStep /\ page \in Pages
  BY DEF EvalStep, PageInv, PageType
<1>1. page.pc = "replay steps" /\ Document(Api).steps = D
  BY DEF ReplaySteps, Document, PageInv, PageReads, PageInside
<1>2. page' = [page EXCEPT !.pc = "tape", !.doc = ById(D)]
  BY <1>1 DEF ReplaySteps, Show
<1>3. /\ page'.listed = page.listed /\ page'.held = page.held /\ page'.todo = page.todo
      /\ page'.deterministic = page.deterministic /\ page'.run = r
      /\ page'.pc = "tape" /\ page'.doc = ById(D)
  <2> HIDE DEF D
  <2> QED
    BY <1>0, <1>2 DEF Pages
<1>4. /\ ListedInv'
      /\ \A q \in DOMAIN page.listed : Unreplaced(q)' <=> Unreplaced(q)
      /\ \A E, q : Before(E, q)' <=> Before(E, q)
      /\ UNCHANGED steps
  BY <1>0, <1>3, SameList, PageKeeps
<1>5. r \in DOMAIN page.listed /\ r \in RunIds
  BY <1>1, PageRun DEF PageInv, PageInside
<1>6. DocInv'
  <2> SUFFICES ASSUME Unreplaced(r) PROVE D \in SUBSET steps[r] /\ Before(D, r)
    <3>1. (Unreplaced(page.run))' => Unreplaced(r)
      BY <1>3, <1>4, <1>5 DEF Unreplaced, Remains, TakeOf
    <3>2. ViewOf(Api)' = ViewOf(Api)
      BY <1>0, PageKeeps
    <3>3. D \subseteq ViewOf(Api)'.steps[r]
      BY <3>2
    <3> HIDE DEF D
    <3>4. Before(D, r) => /\ page'.held[r] \subseteq D /\ D \subseteq ViewOf(Api)'.steps[r]
                          /\ \A q \in D, s \in steps'[r] \ D : q.id < s.id
      BY <1>3, <1>4, <3>3 DEF Before, Later
    <3> QED
      BY <1>3, <1>4, <3>1, <3>4 DEF DocInv, Before, Later
  <2>1. Remains(r, TakeOf(r)) /\ TakeOf(r) \notin Forkers
    BY <1>5 DEF Unreplaced, PageInv, ListedInv, Began
  <2>2. /\ ViewOf(Api).runs[r] # None /\ ViewOf(Api).runs[r].take = TakeOf(r)
        /\ page.held[r] \subseteq D
    BY <1>5, <2>1 DEF PageInv, ListedInv
  <2>3. D \subseteq steps[r] /\ Later(D, r)
    BY <1>5, <2>1, <2>2 DEF PageInv, PinnedInv, Unreplaced
  <2> QED
    BY <2>2, <2>3 DEF Before
<1>7. Replayed' = Replayed
  BY <1>1, <1>3 DEF Replayed
<1>8. CountedInv'
  <2>1. ASSUME NEW q \in DOMAIN page.listed, Unreplaced(q)'
        PROVE  /\ q \in Replayed' /\ steps[q] \cap Lost = {} => q \in page.deterministic
               /\ q \in page.deterministic => page.held[q] \cap Lost = {}
    BY <1>4, <1>7, <2>1 DEF PageInv, CountedInv
  <2> QED
    BY <1>3, <1>4, <2>1 DEF CountedInv
<1> QED
  BY <1>4, <1>6, <1>8

\* The replay of a run that was not replaced uses up a prefix of its tape.
LEMMA PrefixReplays ==
  ASSUME NEW T \in SUBSET Steps, IsFiniteSet(T), UniqueIds(T), NEW D \in SUBSET T,
         \A q \in D, s \in T \ D : q.id < s.id
  PROVE  Replays(ById(D), ById(T)) <=> D \cap Lost = {}
<1>1. ToSet(ById(D)) = D /\ \A n \in DOMAIN ById(D) : n \in DOMAIN ById(T) /\ ById(T)[n] = ById(D)[n]
  BY PrefixById
<1>2. Replays(ById(D), ById(T)) <=> \A n \in DOMAIN ById(D) : ById(D)[n] \notin Lost
  BY <1>1 DEF Replays
<1> QED
  BY <1>1, <1>2 DEF ToSet

LEMMA PageTapes ==
  ASSUME AllInv, PageInv, UNCHANGED <<setting, jobVars, fork>>, TapeSteps
  PROVE  ListedInv' /\ DocInv' /\ CountedInv'
<1> DEFINE r == page.run
           T == ViewOf(Api).steps[r]
           fine == Replays(page.doc, ById(T))
           found == IF fine THEN page.deterministic \cup {r} ELSE page.deterministic
<1>0. EvalStep /\ page \in Pages
  BY DEF EvalStep, PageInv, PageType
<1>1. /\ page.pc = "tape steps" /\ Document(Api).steps = T
      /\ T \in SUBSET Steps /\ IsFiniteSet(T) /\ UniqueIds(T)
  <2>1. page.pc = "tape steps" /\ reading[Api] # None /\ reading[Api].run = r
    BY DEF TapeSteps, PageInv, PageReads, PageInside
  <2>2. Document(Api).steps = T
    BY <2>1 DEF Document
  <2> QED
    BY <2>1, <2>2, DocumentRead, ConnsAssumption DEF AllInv
<1>2. page' = [page EXCEPT !.pc = "next", !.run = None, !.doc = <<>>, !.deterministic = found]
  BY <1>1 DEF TapeSteps, Show
<1>3. /\ page'.listed = page.listed /\ page'.held = page.held /\ page'.todo = page.todo
      /\ page'.pc = "next" /\ page'.deterministic = found
  <2> HIDE DEF found
  <2> QED
    BY <1>0, <1>2 DEF Pages
<1>4. /\ ListedInv'
      /\ \A q \in DOMAIN page.listed : Unreplaced(q)' <=> Unreplaced(q)
      /\ UNCHANGED steps
  BY <1>0, <1>3, SameList, PageKeeps
<1>5. r \in DOMAIN page.listed /\ r \in RunIds
  BY <1>1, PageRun DEF PageInv, PageInside
<1>6. ASSUME Unreplaced(r)
      PROVE  (steps[r] \cap Lost = {} => fine) /\ (fine => page.held[r] \cap Lost = {})
  <2>1. PICK D \in SUBSET steps[r] : page.doc = ById(D) /\ Before(D, r)
    BY <1>1, <1>6 DEF PageInv, DocInv
  <2>2. TakeOf(r) \notin Forkers /\ Remains(r, TakeOf(r))
    BY <1>5, <1>6 DEF Unreplaced, PageInv, ListedInv, Began
  <2>3. ViewOf(Api).runs[r] # None /\ ViewOf(Api).runs[r].take = TakeOf(r)
    BY <1>5, <2>2 DEF PageInv, ListedInv
  <2>4. T \subseteq steps[r]
    BY <1>5, <2>2, <2>3 DEF PageInv, PinnedInv
  <2>5. page.held[r] \subseteq D /\ D \in SUBSET T /\ \A q \in D, s \in T \ D : q.id < s.id
    BY <2>1, <2>4 DEF Before, Later
  <2> HIDE DEF T
  <2>6. fine <=> D \cap Lost = {}
    BY <1>1, <2>1, <2>5, PrefixReplays
  <2> QED
    BY <2>1, <2>5, <2>6
<1> HIDE DEF fine
<1>7. DocInv'
  BY <1>3 DEF DocInv
<1>8. Replayed' \subseteq Replayed \cup {r}
  BY <1>1, <1>3 DEF Replayed
<1>9. ASSUME NEW q \in DOMAIN page.listed, Unreplaced(q)
      PROVE  /\ q \in Replayed' /\ steps[q] \cap Lost = {} => q \in found
             /\ q \in found => page.held[q] \cap Lost = {}
  <2>1. /\ q \in Replayed /\ steps[q] \cap Lost = {} => q \in page.deterministic
        /\ q \in page.deterministic => page.held[q] \cap Lost = {}
    BY <1>9 DEF PageInv, CountedInv
  <2>2. CASE q = r
    BY <1>6, <1>9, <2>1, <2>2
  <2>3. CASE q # r
    BY <1>8, <2>1, <2>3
  <2> QED
    BY <2>2, <2>3
<1>10. CountedInv'
  BY <1>3, <1>4, <1>9 DEF CountedInv
<1> QED
  BY <1>4, <1>7, <1>10

\* A run that the page has begun to replay and that was not replaced is there.
LEMMA StillThere ==
  ASSUME AllInv, PageInv, EvalStep, UNCHANGED <<setting, jobVars, fork>>, EvalReads,
         reading'[Api] = None
  PROVE  ~Unreplaced(page.run)
<1> DEFINE r == page.run
           v == ViewOf(Api)
<1>1. r \in DOMAIN page.listed /\ r \in RunIds
  BY PageRun DEF EvalReads, PageInv
<1>2. v \in Views /\ Api \in Conns /\ reading \in [Conns -> [run : RunIds, header : Headers] \cup {None}]
  BY ConnsAssumption DEF AllInv, IInv, TypeOK, ViewOf
<1>3. ASSUME v.runs[r] # None PROVE FALSE
  <2>1. [run |-> r, header |-> v.runs[r]] \in [run : RunIds, header : Headers]
    BY <1>1, <1>2, <1>3 DEF Views
  <2>2. reading'[Api] = [run |-> r, header |-> v.runs[r]]
    BY <1>2, <1>3 DEF EvalReads, GetRunHeader
  <2> QED
    BY <2>1, <2>2, NoneAssumption
<1> QED
  BY <1>1, <1>3 DEF PageInv, ListedInv, Unreplaced

LEMMA PageStepInv ==
  ASSUME AllInv, PageInv, EvalStep, UNCHANGED <<setting, jobVars, fork>>
  PROVE  PageInv'
<1>0. page \in Pages
  BY DEF PageInv, PageType
<1>1. PageType' /\ PageReads'
  BY PageStepType, PageAllInv DEF PageInv, AllInv
<1> SUFFICES ListedInv' /\ DocInv' /\ CountedInv'
  BY <1>1, PageKeeps DEF PageInv
<1>2. CASE \E kind \in {"eval", "metrics"} : EvalLists(kind)
  BY <1>2, PageLists
<1>3. CASE ReadsFiles
  <2>1. /\ page.pc \in {"results", "rate", "checks"} /\ page'.pc \in {"rate", "checks", "next"}
        /\ page'.listed = page.listed /\ page'.held = page.held /\ page'.todo = page.todo
        /\ page'.deterministic = page.deterministic /\ page'.doc = page.doc
    BY <1>0, <1>3 DEF ReadsFiles, Show, Pages
  <2>2. page.todo = DOMAIN page.listed
    BY <2>1 DEF PageInv, PageType
  <2>3. Replayed' = {}
    BY <2>1, <2>2 DEF Replayed
  <2> QED
    BY <2>1, <2>3, PageMoves
<1>4. CASE \E r \in RunIds : NextRun(r)
  <2>1. /\ page.pc = "next" /\ page'.pc \in {"count", "replay"}
        /\ page'.listed = page.listed /\ page'.held = page.held
        /\ page'.deterministic = page.deterministic /\ page'.doc = page.doc
        /\ page'.todo = page.todo \ {page'.run}
    BY <1>0, <1>4 DEF NextRun, Show, Pages
  <2>2. Replayed' \subseteq Replayed
    BY <2>1 DEF Replayed
  <2> QED
    BY <2>1, <2>2, PageMoves
<1>5. CASE Answer
  <2>1. /\ page.pc = "next" /\ page'.pc = "answered"
        /\ page'.listed = page.listed /\ page'.held = page.held
        /\ page'.deterministic = page.deterministic /\ page'.doc = page.doc
        /\ page'.todo = page.todo
    BY <1>0, <1>5 DEF Answer, Show, Pages
  <2>2. Replayed' \subseteq Replayed
    BY <2>1 DEF Replayed
  <2> QED
    BY <2>1, <2>2, PageMoves
<1>6. CASE EvalReads
  <2> DEFINE pc == page'.pc
  <2>1. /\ page.pc \in {"count", "replay", "tape"}
        /\ page'.listed = page.listed /\ page'.held = page.held /\ page'.todo = page.todo
        /\ page'.deterministic = page.deterministic /\ page'.doc = page.doc /\ page'.run = page.run
    <3>1. PICK x : page' = [page EXCEPT !.pc = x]
      BY <1>6 DEF EvalReads, Show
    <3> QED
      BY <1>0, <1>6, <3>1 DEF EvalReads, Pages
  <2>2. /\ pc = "next" => reading'[Api] = None
        /\ pc \in {"replay", "next"} \cup PageInside
        /\ pc = "tape steps" => page.pc = "tape"
    <3> DEFINE x == IF reading'[Api] = None
                      THEN IF page.pc = "count" THEN "replay" ELSE "next"
                      ELSE CASE page.pc = "count" -> "count steps"
                             [] page.pc = "replay" -> "replay steps"
                             [] page.pc = "tape" -> "tape steps"
    <3>1. page' = [page EXCEPT !.pc = x]
      BY <1>6 DEF EvalReads, Show
    <3>2. /\ x = "next" => reading'[Api] = None
          /\ x \in {"replay", "next"} \cup PageInside
          /\ x = "tape steps" => page.pc = "tape"
      BY <2>1 DEF PageInside
    <3> HIDE DEF x
    <3>3. pc = x
      BY <1>0, <3>1 DEF Pages
    <3> QED
      BY <3>2, <3>3
  <2>3. CASE pc # "next"
    <3>1. Replayed' \subseteq Replayed /\ (pc \in {"tape", "tape steps"} => page.pc = "tape")
      BY <2>1, <2>2, <2>3 DEF Replayed, PageInside
    <3> QED
      BY <2>1, <3>1, PageMoves
  <2>4. CASE pc = "next"
    <3>1. ~Unreplaced(page.run)
      BY <1>6, <2>2, <2>4, StillThere
    <3>2. Replayed' \subseteq Replayed \cup {page.run}
      BY <2>1, <2>4 DEF Replayed
    <3>3. /\ ListedInv' /\ UNCHANGED steps
          /\ \A q \in DOMAIN page.listed : Unreplaced(q)' <=> Unreplaced(q)
      BY <2>1, SameList, PageKeeps
    <3>4. DocInv'
      BY <2>4 DEF DocInv
    <3>5. ASSUME NEW q \in DOMAIN page.listed, Unreplaced(q)
          PROVE  /\ q \in Replayed' /\ steps[q] \cap Lost = {} => q \in page.deterministic
                 /\ q \in page.deterministic => page.held[q] \cap Lost = {}
      BY <3>1, <3>2, <3>5 DEF PageInv, CountedInv
    <3>6. CountedInv'
      BY <2>1, <3>3, <3>5 DEF CountedInv
    <3> QED
      BY <3>3, <3>4, <3>6
  <2> QED
    BY <2>3, <2>4
<1>7. CASE CountSteps
  <2>1. /\ page.pc = "count steps" /\ page'.pc = "replay"
        /\ page'.listed = page.listed /\ page'.held = page.held
        /\ page'.deterministic = page.deterministic /\ page'.doc = page.doc
        /\ page'.todo = page.todo /\ page'.run = page.run
    BY <1>0, <1>7 DEF CountSteps, Show, Pages
  <2>2. Replayed' \subseteq Replayed
    BY <2>1 DEF Replayed
  <2> QED
    BY <2>1, <2>2, PageMoves
<1> QED
  BY <1>2, <1>3, <1>4, <1>5, <1>6, <1>7, PageReplays, PageTapes DEF EvalStep

\* What is written last comes after all that was written before.
LEMMA Appended ==
  ASSUME written \in Seq(Processes), NEW q \in Processes, written' = Append(written, q)
  PROVE  /\ written' \in Seq(Processes)
         /\ Len(written) \in Nat /\ Len(written') = Len(written) + 1
         /\ DOMAIN written = 1 .. Len(written) /\ DOMAIN written' = 1 .. Len(written) + 1
         /\ written'[Len(written) + 1] = q
         /\ \A i \in DOMAIN written : written'[i] = written[i]
         /\ Range(written') = Range(written) \cup {q}
         /\ \A p, o : Precedes(p, o) => Precedes(p, o)'
         /\ \A p \in Range(written) : Precedes(p, q)'
<1>1. /\ written' \in Seq(Processes)
      /\ Len(written) \in Nat /\ Len(written') = Len(written) + 1
      /\ DOMAIN written = 1 .. Len(written) /\ DOMAIN written' = 1 .. Len(written) + 1
      /\ written'[Len(written) + 1] = q
      /\ \A i \in DOMAIN written : written'[i] = written[i]
  BY AppendProperties
<1>2. Range(written') = Range(written) \cup {q}
  BY <1>1 DEF Range
<1>3. ASSUME NEW p, NEW o, Precedes(p, o) PROVE Precedes(p, o)'
  BY <1>1, <1>3 DEF Precedes
<1>4. ASSUME NEW p \in Range(written) PROVE Precedes(p, q)'
  <2>1. PICK i \in DOMAIN written : written[i] = p
    BY DEF Range
  <2> QED
    BY <1>1, <2>1 DEF Precedes
<1> QED
  BY <1>1, <1>2, <1>3, <1>4

LEMMA StudyStepInv ==
  ASSUME StudyInv, NEW q \in Processes, StudyStep(q)
  PROVE  StudyInv'
<1> DEFINE Newest(f, p) == Undamaged(f) /\ WroteLast(f, p) => report[f] = p
           Holds(f) == report[f] \in Processes =>
                         FileOf(report[f]) = f /\ Writes(report[f]) /\ report[f] \in Range(written)
<1>0. /\ stage \in [Processes -> {"asking", "writing", "done", "killed"}]
      /\ report \in [{"reliability", "results"} -> Processes \cup {Missing, Empty, Torn}]
      /\ written \in Seq(Processes) /\ UNCHANGED answers
      /\ \A p : FileOf(p) \in {"reliability", "results"} /\ FileOf(p)' = FileOf(p)
      /\ \A p : Writes(p)' <=> Writes(p)
      /\ {Missing, Empty, Torn} \cap Processes = {}
  BY RepliesAssumption DEF StudyInv, StudyType, FileOf, Writes, StudyStep, OpenReport, WriteReport, KillStudy
<1>1. /\ \A p \in Processes : stage[p] = "writing" => Writes(p)
      /\ \A f \in DOMAIN report : Holds(f)
      /\ \A f \in DOMAIN report, p \in Processes : Newest(f, p)
  BY DEF StudyInv
<1>2. CASE OpenReport(q) \/ KillStudy(q)
  <2>1. /\ written' = written
        /\ \A p \in Processes \ {q} : stage'[p] = stage[p]
        /\ stage' \in [Processes -> {"asking", "writing", "done", "killed"}]
        /\ \A f \in DOMAIN report \ {FileOf(q)} : report'[f] = report[f]
        /\ report'[FileOf(q)] \in {report[FileOf(q)], Empty}
        /\ report' \in [{"reliability", "results"} -> Processes \cup {Missing, Empty, Torn}]
        /\ stage'[q] = "writing" => Writes(q)
        /\ \/ stage'[q] \in {"writing", "killed"}
           \/ stage[q] = "asking" /\ stage'[q] = "done" /\ report' = report
    BY <1>0, <1>2 DEF OpenReport, KillStudy
  <2>2. StudyType'
    BY <1>0, <2>1 DEF StudyInv, StudyType
  <2>3. \A p \in Processes : stage'[p] = "writing" => Writes(p)'
    BY <1>0, <1>1, <2>1
  <2>4. ASSUME NEW f \in DOMAIN report PROVE Holds(f)'
    <3>1. report'[f] = report[f] \/ report'[f] = Empty
      BY <2>1
    <3> QED
      BY <1>0, <1>1, <2>1, <3>1
  <2>5. ASSUME NEW f \in DOMAIN report, NEW p \in Processes, (Undamaged(f) /\ WroteLast(f, p))'
        PROVE  report'[f] = p
    <3>1. WroteLast(f, p)
      BY <1>0, <2>1, <2>5 DEF WroteLast
    <3>2. \A o \in Processes : FileOf(o) = f => stage'[o] \in {"asking", "done"} /\ report'[f] # Torn
      BY <1>0, <2>5 DEF Undamaged
    <3>3. report'[f] = report[f]
      BY <2>1, <3>2
    <3>4. Undamaged(f)
      BY <2>1, <3>2, <3>3 DEF Undamaged
    <3> QED
      BY <1>1, <3>1, <3>3, <3>4
  <2> QED
    BY <1>0, <2>1, <2>2, <2>3, <2>4, <2>5 DEF StudyInv
<1>3. CASE WriteReport(q)
  <2> DEFINE n == Len(written) + 1
  <2>1. /\ written' = Append(written, q) /\ stage[q] = "writing" /\ stage'[q] = "done"
        /\ \A p \in Processes \ {q} : stage'[p] = stage[p]
        /\ stage' \in [Processes -> {"asking", "writing", "done", "killed"}]
        /\ \A f \in DOMAIN report \ {FileOf(q)} : report'[f] = report[f]
        /\ report'[FileOf(q)] \in {q, Torn}
        /\ report' \in [{"reliability", "results"} -> Processes \cup {Missing, Empty, Torn}]
    BY <1>0, <1>3 DEF WriteReport
  <2>2. /\ written' \in Seq(Processes) /\ Len(written) \in Nat
        /\ Len(written') = n /\ DOMAIN written = 1 .. Len(written) /\ DOMAIN written' = 1 .. n
        /\ written'[n] = q /\ Range(written') = Range(written) \cup {q}
        /\ \A i \in DOMAIN written : written'[i] = written[i]
    BY <1>0, <2>1, Appended
  <2>3. StudyType'
    BY <1>0, <2>1, <2>2 DEF StudyInv, StudyType
  <2>4. \A p \in Processes : stage'[p] = "writing" => Writes(p)'
    BY <1>0, <1>1, <2>1
  <2>5. ASSUME NEW f \in DOMAIN report PROVE Holds(f)'
    <3>1. CASE f = FileOf(q)
      BY <1>0, <1>1, <2>1, <2>2, <3>1
    <3>2. CASE f # FileOf(q)
      BY <1>0, <1>1, <2>1, <2>2, <3>2
    <3> QED
      BY <3>1, <3>2
  <2>6. ASSUME NEW f \in DOMAIN report, NEW p \in Processes, (Undamaged(f) /\ WroteLast(f, p))'
        PROVE  report'[f] = p
    <3>1. \A o \in Processes : FileOf(o) = f => stage'[o] \in {"asking", "done"} /\ report'[f] # Torn
      BY <1>0, <2>6 DEF Undamaged
    <3>2. PICK i \in DOMAIN written' :
            /\ FileOf(written'[i]) = f /\ written'[i] = p
            /\ \A j \in i + 1 .. Len(written') : FileOf(written'[j]) # f
      BY <1>0, <2>6 DEF WroteLast
    <3>3. CASE f = FileOf(q)
      <4>1. i = n
        BY <2>2, <3>2, <3>3
      <4> QED
        BY <2>1, <2>2, <3>1, <3>2, <3>3, <4>1
    <3>4. CASE f # FileOf(q)
      <4>1. i \in DOMAIN written
        BY <2>2, <3>2, <3>4
      <4>2. \A j \in i + 1 .. Len(written) : j \in DOMAIN written /\ FileOf(written[j]) # f
        BY <2>2, <3>2, <4>1
      <4>3. WroteLast(f, p)
        BY <2>2, <3>2, <4>1, <4>2 DEF WroteLast
      <4>4. Undamaged(f)
        BY <2>1, <3>1, <3>4 DEF Undamaged
      <4> QED
        BY <1>1, <2>1, <3>4, <4>3, <4>4
    <3> QED
      BY <3>3, <3>4
  <2> QED
    BY <1>0, <2>1, <2>3, <2>4, <2>5, <2>6 DEF StudyInv
<1> QED
  BY <1>2, <1>3 DEF StudyStep

LEMMA ShownStudyStep ==
  ASSUME StudyInv, ShownInv, NEW q \in Processes, StudyStep(q), UNCHANGED page
  PROVE  ShownInv'
<1>0. /\ written \in Seq(Processes) /\ {Missing, Empty, Torn} \cap Processes = {}
      /\ report \in [{"reliability", "results"} -> Processes \cup {Missing, Empty, Torn}]
      /\ FileOf(q) \in {"reliability", "results"} /\ UNCHANGED answers
      /\ \A p : Writes(p)' <=> Writes(p)
  BY RepliesAssumption
     DEF StudyInv, StudyType, FileOf, Writes, StudyStep, OpenReport, WriteReport, KillStudy
<1>1. CASE OpenReport(q) \/ KillStudy(q)
  <2>1. written' = written /\ report'["reliability"] \in {report["reliability"], Empty}
    BY <1>0, <1>1 DEF OpenReport, KillStudy
  <2>2. \A p, o : Precedes(p, o)' <=> Precedes(p, o)
    BY <2>1 DEF Precedes
  <2> QED
    BY <1>0, <2>1, <2>2 DEF ShownInv, Precedes
<1>2. CASE WriteReport(q)
  <2>1. written' = Append(written, q) /\ report'["reliability"] \in {report["reliability"], q, Torn}
    BY <1>0, <1>2 DEF WriteReport
  <2>2. /\ Range(written') = Range(written) \cup {q}
        /\ \A p, o : Precedes(p, o) => Precedes(p, o)'
        /\ \A p \in Range(written) : Precedes(p, q)'
    BY <1>0, <2>1, Appended
  <2>3. page.rate # Missing /\ report'["reliability"] \in Processes =>
          (Precedes(page.rate, report["reliability"]))' 
    <3> SUFFICES ASSUME page.rate # Missing, report'["reliability"] \in Processes
                 PROVE  (Precedes(page.rate, report["reliability"]))'
      OBVIOUS
    <3>1. CASE report'["reliability"] = q
      <4>1. \E i, j \in DOMAIN written' : written'[i] = page.rate /\ written'[j] = q /\ i <= j
        BY <2>2 DEF ShownInv, Precedes
      <4> QED
        BY <3>1, <4>1 DEF Precedes
    <3>2. CASE report'["reliability"] = report["reliability"]
      <4> DEFINE p == page.rate
                 o == report["reliability"]
      <4>1. Precedes(p, o)
        BY <3>2 DEF ShownInv
      <4> HIDE DEF p, o
      <4>2. \E i, j \in DOMAIN written' : written'[i] = p /\ written'[j] = o /\ i <= j
        BY <1>0, <2>1, <4>1, Appended DEF Precedes
      <4> QED
        BY <3>2, <4>2 DEF Precedes, p, o
    <3> QED
      BY <1>0, <2>1, <3>1, <3>2
  <2>4. page.rate # Missing /\ page.checks # Missing => (Precedes(page.rate, page.checks))'
    <3> DEFINE p == page.rate
               o == page.checks
    <3> SUFFICES ASSUME p # Missing, o # Missing PROVE (Precedes(page.rate, page.checks))'
      OBVIOUS
    <3>1. Precedes(p, o)
      BY DEF ShownInv
    <3> HIDE DEF p, o
    <3>2. \E i, j \in DOMAIN written' : written'[i] = p /\ written'[j] = o /\ i <= j
      BY <1>0, <2>1, <3>1, Appended DEF Precedes
    <3> QED
      BY <3>2 DEF Precedes, p, o
  <2> QED
    BY <1>0, <2>2, <2>3, <2>4 DEF ShownInv
<1> QED
  BY <1>1, <1>2 DEF StudyStep

\* What the page reads from the files.
LEMMA ShownPageStep ==
  ASSUME IInv, PageType, StudyInv, ShownInv, EvalStep, UNCHANGED studyVars
  PROVE  ShownInv'
<1>0. /\ page \in Pages /\ {Missing, Empty, Torn} \cap Processes = {}
      /\ report \in [{"reliability", "results"} -> Processes \cup {Missing, Empty, Torn}]
      /\ UNCHANGED <<report, written>>
      /\ \A p : Writes(p)' <=> Writes(p)
      /\ \A p, o : Precedes(p, o)' <=> Precedes(p, o)
  BY RepliesAssumption DEF StudyInv, StudyType, PageType, studyVars, Writes, Precedes
<1>1. CASE ReadsFiles
  <2> DEFINE results == ReadReport("results")
             rate == ReadReport("reliability")
  <2>1. results # Missing => results \in Harness
    BY <1>0 DEF ReadReport, StudyInv, FileOf, Processes
  <2>2. rate # Missing =>
          /\ rate \in Reliability \cap Range(written) /\ Writes(rate)
          /\ rate = report["reliability"] /\ Precedes(rate, rate)
    <3> SUFFICES ASSUME rate # Missing
                 PROVE  /\ rate \in Reliability \cap Range(written) /\ Writes(rate)
                        /\ rate = report["reliability"] /\ Precedes(rate, rate)
      OBVIOUS
    <3>1. rate = report["reliability"] /\ rate \in Processes
      BY DEF ReadReport
    <3>2. FileOf(rate) = "reliability" /\ Writes(rate) /\ rate \in Range(written)
      BY <1>0, <3>1 DEF StudyInv
    <3>3. PICK i \in DOMAIN written : written[i] = rate
      BY <3>2 DEF Range
    <3>4. i \in Nat
      BY DEF StudyInv, StudyType
    <3> QED
      BY <3>1, <3>2, <3>3, <3>4 DEF FileOf, Precedes
  <2> HIDE DEF results, rate
  <2>3. CASE page.pc = "results" /\ page' = [page EXCEPT !.pc = "rate", !.results = results]
    <3>1. /\ page'.pc = "rate" /\ page'.results = results
          /\ page'.rate = page.rate /\ page'.checks = page.checks /\ page.checks = Missing
      BY <1>0, <2>3 DEF Pages, ShownInv
    <3> QED
      BY <1>0, <2>1, <3>1 DEF ShownInv, Precedes
  <2>4. CASE page.pc = "rate" /\ page' = [page EXCEPT !.pc = "checks", !.rate = rate]
    <3>1. /\ page'.pc = "checks" /\ page'.rate = rate
          /\ page'.results = page.results /\ page'.checks = Missing
      BY <1>0, <2>4 DEF Pages, ShownInv
    <3> QED
      BY <1>0, <2>2, <3>1 DEF ShownInv, Precedes
  <2>5. CASE page.pc = "checks" /\ page' = [page EXCEPT !.pc = "next", !.checks = rate]
    <3>1. /\ page'.pc = "next" /\ page'.rate = page.rate
          /\ page'.results = page.results /\ page'.checks = rate
      BY <1>0, <2>5 DEF Pages
    <3>2. page.rate # Missing /\ rate # Missing => Precedes(page.rate, rate)
      BY <1>0, <2>2 DEF ShownInv, Processes
    <3> QED
      BY <1>0, <3>1, <3>2 DEF ShownInv, Precedes
  <2> QED
    BY <1>1, <2>3, <2>4, <2>5 DEF ReadsFiles, Show, results, rate
<1>2. ASSUME page'.results = page.results, page'.rate = page.rate, page'.checks = page.checks,
             page.pc = "idle" \/ page'.pc \notin {"idle", "results", "rate"}
      PROVE  ShownInv'
  BY <1>0, <1>2 DEF ShownInv, Precedes
<1>3. CASE \E kind \in {"eval", "metrics"} : EvalLists(kind)
  <2>1. page.pc = "idle" /\ page'.results = page.results /\ page'.rate = page.rate /\ page'.checks = page.checks
    BY <1>0, <1>3 DEF EvalLists, Show, Pages
  <2> QED
    BY <1>2, <2>1
<1>4. CASE Answer \/ \E r \in RunIds : NextRun(r)
  <2>1. /\ page'.results = page.results /\ page'.rate = page.rate /\ page'.checks = page.checks
        /\ page'.pc \in {"answered", "count", "replay"}
    BY <1>0, <1>4 DEF Answer, NextRun, Show, Pages
  <2> QED
    BY <1>2, <2>1
<1>5. CASE EvalReads
  <2>1. PICK x \in {"replay", "next"} \cup PageInside : page' = [page EXCEPT !.pc = x]
    BY <1>5 DEF EvalReads, Show, PageInside
  <2>2. /\ page'.results = page.results /\ page'.rate = page.rate /\ page'.checks = page.checks
        /\ page'.pc = x
    BY <1>0, <2>1 DEF Pages
  <2> QED
    BY <1>2, <2>2 DEF PageInside
<1>6. CASE CountSteps \/ ReplaySteps \/ TapeSteps
  <2>1. /\ page'.results = page.results /\ page'.rate = page.rate /\ page'.checks = page.checks
        /\ page'.pc \in {"replay", "tape", "next"}
    BY <1>0, <1>6 DEF CountSteps, ReplaySteps, TapeSteps, Show, Pages
  <2> QED
    BY <1>2, <2>1
<1> QED
  BY <1>1, <1>3, <1>4, <1>5, <1>6 DEF EvalStep

EvalInv ==
  /\ AllInv /\ PageInv /\ StudyInv /\ ShownInv
  /\ working \subseteq Recorders \cup Forkers \cup Processes

LEMMA InitEvalInv == EvalInit => EvalInv
<1> SUFFICES ASSUME EvalInit PROVE EvalInv
  OBVIOUS
<1>1. AllInv
  BY InitAllInv DEF EvalInit
<1>2. PageType
  <2>1. <<>> \in OfSome(Headers) /\ <<>> \in OfSome(SUBSET Steps)
    <3>1. ASSUME NEW S PROVE <<>> \in OfSome(S)
      <4>1. {} \in SUBSET RunIds /\ <<>> \in [{} -> S]
        OBVIOUS
      <4> QED
        BY <4>1, SomeRuns
    <3> QED
      BY <3>1
  <2>2. DOMAIN <<>> = {} /\ <<>> \in Seq(Steps)
    OBVIOUS
  <2> QED
    BY <2>1, <2>2 DEF EvalInit, NoPage, PageType, Pages, PagePhases, PageInside
<1>3. PageReads /\ DocInv /\ CountedInv /\ ListedInv /\ page.checks = Missing
  BY DEF EvalInit, NoPage, PageReads, PageInside, DocInv, CountedInv, ListedInv
<1>4. OwnRun(Committed) /\ OwnRun(ViewOf(Api)) /\ OwnSteps /\ PinnedInv
  <2>1. ViewOf(Api) = Committed /\ \A r \in RunIds : runs[r] = None
    BY ConnsAssumption DEF EvalInit, InitAll, Init, ViewOf
  <2>2. \A p \in Recorders : steps[RunOf(p)] = {}
    <3>1. \A p \in Recorders : RunOf(p) \in RunIds
      BY <1>1, JobFacts DEF AllInv
    <3> QED
      BY <3>1 DEF EvalInit, InitAll, Init
  <2> QED
    BY <2>1, <2>2 DEF Committed, OwnRun, OwnSteps, PinnedInv
<1>5. StudyInv
  <2>1. /\ StudiesInit /\ \A f \in DOMAIN report : report[f] = Missing
        /\ \A p \in Processes : stage[p] = "asking"
        /\ written = <<>> /\ DOMAIN written = {} /\ {Missing, Empty, Torn} \cap Processes = {}
    BY RepliesAssumption DEF EvalInit, StudiesInit
  <2>2. StudyType
    BY <2>1 DEF StudiesInit, StudyType
  <2> QED
    BY <2>1, <2>2 DEF StudyInv, WroteLast
<1>6. ShownInv
  BY DEF EvalInit, NoPage, ShownInv
<1>7. working \subseteq Recorders \cup Forkers \cup Processes
  BY WorkloadsAssumption DEF EvalInit
<1> QED
  BY <1>1, <1>2, <1>3, <1>4, <1>5, <1>6, <1>7 DEF EvalInv, PageInv

LEMMA StepEvalInv == EvalInv /\ [EvalNext]_evalVars => EvalInv'
<1> SUFFICES ASSUME EvalInv, [EvalNext]_evalVars PROVE EvalInv'
  OBVIOUS
<1>0. UNCHANGED working
  BY DEF EvalNext, evalVars
<1>1. ASSUME UNCHANGED <<studyVars, page>> PROVE StudyInv' /\ ShownInv'
  BY <1>1 DEF EvalInv, studyVars, StudyInv, StudyType, ShownInv, Precedes, Writes, WroteLast, Undamaged
<1>2. ASSUME AllInv', Advances, UNCHANGED <<setting, studyVars, page>>,
             \/ \E r \in Recorders : RecorderStep(r)
             \/ \E f \in Forkers : ForkStep(f)
      PROVE  EvalInv'
  <2>1. PageReads'
    BY <1>2, OthersPageReads DEF EvalInv, PageInv
  <2>2. PageType' /\ OwnRun(ViewOf(Api))' /\ PinnedInv' /\ ListedInv' /\ DocInv' /\ CountedInv'
    BY <1>2, OthersPageInv DEF EvalInv
  <2>3. OwnRun(Committed)' /\ OwnSteps'
    BY <1>2 DEF Advances
  <2> QED
    BY <1>0, <1>1, <1>2, <2>1, <2>2, <2>3 DEF EvalInv, PageInv
<1>3. ASSUME NEW r \in Recorders, RecorderStep(r), UNCHANGED <<setting, studyVars, page>> PROVE EvalInv'
  <2>1. AllInv' /\ Advances
    BY <1>3, RecorderAllInv, RecorderAdvances DEF EvalInv, PageInv
  <2> QED
    BY <1>2, <1>3, <2>1
<1>4. ASSUME NEW f \in Forkers, ForkStep(f), UNCHANGED <<setting, studyVars, page>> PROVE EvalInv'
  <2>1. AllInv' /\ Advances
    BY <1>4, ForkAllInv, ForkAdvances DEF EvalInv, PageInv
  <2> QED
    BY <1>2, <1>4, <2>1
<1>5. ASSUME UNCHANGED <<allVars, page>> PROVE AllInv' /\ PageInv'
  <2>1. AllInv'
    BY <1>5, StepAllInv DEF EvalInv
  <2>2. /\ UNCHANGED <<runs, steps, tx, seen, reading, setting, job, shape, count, fork>>
        /\ UNCHANGED <<Committed, ViewOf(Api)>>
    BY <1>5 DEF allVars, vars, jobVars, Committed, ViewOf
  <2>3. PageType' /\ PageReads'
    BY <1>5, <2>2 DEF EvalInv, PageInv, PageType, PageReads
  <2>4. OwnRun(Committed)' /\ OwnRun(ViewOf(Api))' /\ OwnSteps'
    BY <2>2 DEF EvalInv, PageInv, OwnRun, OwnSteps, Began, RunOf, StepOf
  <2>5. PinnedInv'
    BY <2>2 DEF EvalInv, PageInv, PinnedInv, Remains, Later
  <2>6. ListedInv'
    BY <1>5, <2>2 DEF EvalInv, PageInv, ListedInv, Began, RunOf, Remains, TakeOf
  <2>7. DocInv'
    BY <1>5, <2>2 DEF EvalInv, PageInv, DocInv, Unreplaced, Remains, TakeOf, Before, Later
  <2>8. CountedInv'
    BY <1>5, <2>2 DEF EvalInv, PageInv, CountedInv, Unreplaced, Remains, TakeOf, Replayed
  <2> QED
    BY <2>1, <2>3, <2>4, <2>5, <2>6, <2>7, <2>8 DEF PageInv
<1>6. ASSUME NEW p \in Processes, StudyStep(p), UNCHANGED <<allVars, page>> PROVE EvalInv'
  <2>1. StudyInv' /\ ShownInv'
    BY <1>6, StudyStepInv, ShownStudyStep DEF EvalInv
  <2> QED
    BY <1>0, <1>5, <1>6, <2>1 DEF EvalInv
<1>7. ASSUME EvalStep, UNCHANGED <<setting, jobVars, fork, studyVars>> PROVE EvalInv'
  <2>1. AllInv'
    BY <1>7, PageAllInv DEF EvalInv, PageInv
  <2>2. PageInv'
    BY <1>7, PageStepInv DEF EvalInv
  <2>3. ShownInv'
    BY <1>7, ShownPageStep DEF EvalInv, PageInv, AllInv
  <2>4. StudyInv'
    BY <1>7 DEF EvalInv, studyVars, StudyInv, StudyType, Writes, WroteLast, Undamaged
  <2> QED
    BY <1>0, <2>1, <2>2, <2>3, <2>4 DEF EvalInv
<1>8. CASE UNCHANGED evalVars
  BY <1>0, <1>1, <1>5, <1>8 DEF EvalInv, evalVars
<1> QED
  BY <1>3, <1>4, <1>6, <1>7, <1>8 DEF EvalNext

LEMMA EvalInvariant == EvalSpec => []EvalInv
BY InitEvalInv, StepEvalInv, PTL DEF EvalSpec

\* The state of the page and of everything it looks at is well formed.
THEOREM EvalTypeCorrect == EvalSpec => []EvalTypeOK
<1>1. EvalInv => EvalTypeOK
  <2> SUFFICES ASSUME EvalInv PROVE EvalTypeOK
    OBVIOUS
  <2>1. JobTypeOK
    BY DEF EvalInv, AllInv, IInv, JobInv, Jobs, ForkType, Forks, JobTypeOK
  <2> QED
    BY <2>1, PageRun DEF EvalInv, PageInv, PageType, Pages, StudyInv, StudyType, EvalTypeOK
<1> QED
  BY <1>1, EvalInvariant, PTL

\* What the page says of a run that one process records, and that was not replaced
\* meanwhile, is right however far the recording has come.
THEOREM PageCountsRuns == EvalSpec => []RunsCounted
<1>1. EvalInv => RunsCounted
  <2> SUFFICES ASSUME EvalInv, page.pc = "answered", NEW r \in DOMAIN page.listed,
                      runs[r] # None, runs[r].take = page.listed[r].take,
                      \A s \in steps[r] : s.take = runs[r].take
               PROVE  /\ steps[r] \cap Lost = {} => r \in page.deterministic
                      /\ r \in page.deterministic => page.held[r] \cap Lost = {}
    BY DEF RunsCounted
  <2>1. Unreplaced(r)
    BY DEF Unreplaced, Remains, TakeOf
  <2>2. page.todo = {}
    BY DEF EvalInv, PageInv, PageType
  <2>3. r \in Replayed
    BY <2>2 DEF Replayed
  <2> QED
    BY <2>1, <2>3 DEF EvalInv, PageInv, CountedInv
<1> QED
  BY <1>1, EvalInvariant, PTL

-----------------------------------------------------------------------------
(***************************************************************************)
(* The evaluation page: the results of the studies                         *)
(***************************************************************************)
LEMMA Least ==
  ASSUME NEW S \in SUBSET Nat, S # {}
  PROVE  \E n \in S : \A m \in S : n <= m
<1> DEFINE R == {p \in Nat \X Nat : p[1] < p[2]}
<1>1. IsWellFoundedOn(R, Nat)
  BY NatLessThanWellFounded DEF OpToRel
<1>2. \A m, n \in S : m < n => <<m, n>> \in R
  OBVIOUS
<1> HIDE DEF R
<1>3. PICK n \in S : \A m \in S : ~(<<m, n>> \in R)
  BY <1>1, WFMin
<1>4. \A m \in S : ~(m < n)
  BY <1>2, <1>3
<1> QED
  BY <1>4

\* The attempt that is not repeated.
Final(r, m) == r[m] # "transient" \/ m = Attempts

LEMMA Retries ==
  ASSUME NEW a, NEW t, a.reply[t] \in [1 .. Attempts -> Reply]
  PROVE  \E m \in 1 .. Attempts :
           /\ Final(a.reply[t], m) /\ CallWithRetry(a, t) = a.reply[t][m]
           /\ \A k \in 1 .. m - 1 : a.reply[t][k] = "transient"
<1> DEFINE r == a.reply[t]
           ends(n) == {m \in n .. Attempts : Final(r, m)}
           IsFirst(n, m) == m \in ends(n) /\ \A k \in ends(n) : m <= k
           first(n) == CHOOSE m \in ends(n) : \A k \in ends(n) : m <= k
           Solves(f) == f = [n \in 1 .. Attempts |-> IF Final(r, n) THEN r[n] ELSE f[n + 1]]
           try == CHOOSE f : Solves(f)
           g == [n \in 1 .. Attempts |-> r[first(n)]]
<1>0. Attempts \in Nat \ {0}
  BY RepliesAssumption
<1>1. CallWithRetry(a, t) = try[1]
  BY DEF CallWithRetry, Final
<1>2. ASSUME NEW n \in 1 .. Attempts PROVE IsFirst(n, first(n))
  <2>1. ends(n) \in SUBSET Nat /\ Attempts \in ends(n)
    BY <1>0 DEF Final
  <2>2. \E m \in ends(n) : \A k \in ends(n) : m <= k
    <3> HIDE DEF ends
    <3> QED
      BY <2>1, Least
  <2> QED
    BY <2>2
<1>3. ASSUME NEW n \in 1 .. Attempts
      PROVE  /\ Final(r, n) => first(n) = n
             /\ ~Final(r, n) => n + 1 \in 1 .. Attempts /\ first(n) = first(n + 1)
  <2>1. CASE Final(r, n)
    <3>1. n \in ends(n) /\ \A k \in ends(n) : k \in Nat /\ n <= k
      BY <1>0, <2>1
    <3> QED
      BY <1>0, <1>2, <2>1, <3>1
  <2>2. CASE ~Final(r, n)
    <3>1. n + 1 \in 1 .. Attempts
      BY <1>0, <2>2 DEF Final
    <3>2. ends(n) = ends(n + 1)
      BY <1>0, <2>2
    <3> QED
      BY <2>2, <3>1, <3>2
  <2> QED
    BY <2>1, <2>2
<1>4. Solves(try)
  <2>1. \A n \in 1 .. Attempts : g[n] = IF Final(r, n) THEN r[n] ELSE g[n + 1]
    <3> HIDE DEF first
    <3> QED
      BY <1>3
  <2>2. Solves(g)
    <3> HIDE DEF first
    <3> QED
      BY <2>1
  <2> HIDE DEF g, Solves
  <2> QED
    BY <2>2
<1> HIDE DEF first, try
<1>5. ASSUME NEW n \in 1 .. Attempts PROVE try[n] = g[n]
  <2> DEFINE Wrong == {d \in 0 .. Attempts - 1 : try[Attempts - d] # g[Attempts - d]}
  <2>1. ASSUME Wrong # {} PROVE FALSE
    <3>1. Wrong \in SUBSET Nat
      BY <1>0
    <3>2. PICK d \in Wrong : \A k \in Wrong : d <= k
      <4> HIDE DEF Wrong
      <4> QED
        BY <2>1, <3>1, Least
    <3> DEFINE p == Attempts - d
    <3>3. p \in 1 .. Attempts /\ try[p] # g[p] /\ d \in Nat
      BY <1>0
    <3>4. try[p] = IF Final(r, p) THEN r[p] ELSE try[p + 1]
      BY <1>4, <3>3
    <3>5. ~Final(r, p) /\ p + 1 \in 1 .. Attempts /\ g[p] = g[p + 1]
      BY <1>3, <3>3, <3>4
    <3>6. d - 1 \in 0 .. Attempts - 1 /\ Attempts - (d - 1) = p + 1
      BY <1>0, <3>3, <3>5
    <3>7. d - 1 \in Wrong
      BY <3>3, <3>4, <3>5, <3>6
    <3> QED
      BY <3>2, <3>3, <3>7
  <2>2. Attempts - n \in 0 .. Attempts - 1 /\ Attempts - (Attempts - n) = n
    BY <1>0
  <2> QED
    BY <2>1, <2>2
<1>6. 1 \in 1 .. Attempts
  BY <1>0
<1>7. CallWithRetry(a, t) = r[first(1)]
  BY <1>1, <1>5, <1>6
<1>8. IsFirst(1, first(1))
  BY <1>2, <1>6
<1>9. \A k \in 1 .. first(1) - 1 : k \notin ends(1)
  BY <1>0, <1>8
<1> QED
  BY <1>0, <1>7, <1>8, <1>9 DEF Final

\* What a call comes to, for every number of attempts.
LEMMA Comes ==
  ASSUME NEW a \in Replies, NEW t \in Tasks
  PROVE  /\ CallWithRetry(a, t) \in Reply
         /\ CallWithRetry(a, t) = "transient" <=> GivenUp(a, t)
         /\ \A x \in Reply \ {"transient"} : CallWithRetry(a, t) = x <=> Says(a, t, x)
<1> DEFINE r == a.reply[t]
<1>0. /\ r \in [1 .. Attempts -> Reply] /\ Attempts \in Nat \ {0}
  BY RepliesAssumption
<1>1. PICK m \in 1 .. Attempts :
        /\ Final(r, m) /\ CallWithRetry(a, t) = r[m]
        /\ \A k \in 1 .. m - 1 : r[k] = "transient"
  BY <1>0, Retries
<1>2. CallWithRetry(a, t) = "transient" => GivenUp(a, t)
  <2> SUFFICES ASSUME r[m] = "transient" PROVE \A n \in 1 .. Attempts : r[n] = "transient"
    BY <1>1 DEF GivenUp
  <2>1. m = Attempts
    BY <1>1 DEF Final
  <2>2. \A n \in 1 .. Attempts : n = m \/ n \in 1 .. m - 1
    BY <1>0, <2>1
  <2> QED
    BY <1>1, <2>2
<1>3. ASSUME NEW x \in Reply \ {"transient"} PROVE CallWithRetry(a, t) = x <=> Says(a, t, x)
  <2>1. CallWithRetry(a, t) = x => Says(a, t, x)
    BY <1>1 DEF Says
  <2>2. ASSUME Says(a, t, x) PROVE r[m] = x
    <3>1. PICK n \in 1 .. Attempts : r[n] = x /\ \A k \in 1 .. n - 1 : r[k] = "transient"
      BY <2>2 DEF Says
    <3>2. ~(m < n)
      <4>1. SUFFICES ASSUME m < n PROVE FALSE
        OBVIOUS
      <4>2. m \in 1 .. n - 1 /\ m # Attempts
        BY <1>0, <4>1
      <4> QED
        BY <1>1, <3>1, <4>2 DEF Final
    <3>3. ~(n < m)
      BY <1>0, <1>1, <3>1
    <3> QED
      BY <1>0, <3>1, <3>2, <3>3
  <2> QED
    BY <1>1, <2>1, <2>2
<1> QED
  BY <1>0, <1>1, <1>2, <1>3 DEF GivenUp

\* The repeats of each check among S.
Slice(S, k) == {i \in 1 .. Repeats : <<k, i>> \in S}

LEMMA Slices ==
  ASSUME NEW S \in SUBSET (Checks \X (1 .. Repeats))
  PROVE  /\ \A k \in Checks : Cardinality(Slice(S, k)) \in Nat
         /\ Cardinality(S) = OverChecks([k \in Checks |-> Cardinality(Slice(S, k))])
<1> DEFINE part(k) == {c \in S : c[1] = k}
<1>0. Repeats \in Nat
  BY RepliesAssumption
<1>1. ASSUME NEW k \in Checks
      PROVE  /\ IsFiniteSet(part(k)) /\ Cardinality(Slice(S, k)) \in Nat
             /\ Cardinality(part(k)) = Cardinality(Slice(S, k))
  <2> DEFINE f == [i \in Slice(S, k) |-> <<k, i>>]
  <2>1. IsFiniteSet(Slice(S, k)) /\ Cardinality(Slice(S, k)) \in Nat
    <3>1. IsFiniteSet(1 .. Repeats) /\ Slice(S, k) \in SUBSET (1 .. Repeats)
      BY <1>0, FS_Interval DEF Slice
    <3> QED
      BY <3>1, FS_Subset, FS_CardinalityType
  <2>2. \A c \in part(k) : c[2] \in Slice(S, k) /\ c = <<k, c[2]>>
    BY DEF Slice
  <2>3. f \in Surjection(Slice(S, k), part(k)) /\ f \in Injection(Slice(S, k), part(k))
    <3>1. f \in [Slice(S, k) -> part(k)]
      BY DEF Slice
    <3>2. \A i, j \in Slice(S, k) : f[i] = f[j] => i = j
      OBVIOUS
    <3>3. \A c \in part(k) : \E i \in Slice(S, k) : f[i] = c
      BY <2>2
    <3> HIDE DEF f, part
    <3> QED
      BY <3>1, <3>2, <3>3 DEF Surjection, Injection, IsInjective
  <2> HIDE DEF f, part
  <2> QED
    BY <2>1, <2>3, FS_Surjection
<1>2. S = ((part("debug_agent") \cup part("blame_verdict")) \cup part("counterfactual"))
            \cup part("semantic_matcher")
  BY DEF Checks
<1>3. /\ part("debug_agent") \cap part("blame_verdict") = {}
      /\ (part("debug_agent") \cup part("blame_verdict")) \cap part("counterfactual") = {}
      /\ ((part("debug_agent") \cup part("blame_verdict")) \cup part("counterfactual"))
            \cap part("semantic_matcher") = {}
  OBVIOUS
<1>4. ASSUME NEW A, NEW B, IsFiniteSet(A), IsFiniteSet(B), A \cap B = {}
      PROVE  IsFiniteSet(A \cup B) /\ Cardinality(A \cup B) = Cardinality(A) + Cardinality(B)
  <2>1. Cardinality(A \cup B) = Cardinality(A) + Cardinality(B) - 0
    BY <1>4, FS_Union, FS_EmptySet
  <2>2. Cardinality(A) \in Nat /\ Cardinality(B) \in Nat
    BY <1>4, FS_CardinalityType
  <2>3. IsFiniteSet(A \cup B)
    BY <1>4, FS_Union
  <2> QED
    BY <2>1, <2>2, <2>3
<1> HIDE DEF part
<1>5. Cardinality(S) = Cardinality(part("debug_agent")) + Cardinality(part("blame_verdict"))
                         + Cardinality(part("counterfactual")) + Cardinality(part("semantic_matcher"))
  <2> DEFINE A == part("debug_agent") \cup part("blame_verdict")
             B == A \cup part("counterfactual")
  <2>1. IsFiniteSet(A) /\ Cardinality(A) = Cardinality(part("debug_agent")) + Cardinality(part("blame_verdict"))
    BY <1>1, <1>3, <1>4 DEF Checks
  <2>2. A \cap part("counterfactual") = {} /\ B \cap part("semantic_matcher") = {}
    BY <1>3
  <2> HIDE DEF A
  <2>3. IsFiniteSet(B) /\ Cardinality(B) = Cardinality(A) + Cardinality(part("counterfactual"))
    BY <1>1, <1>4, <2>1, <2>2 DEF Checks
  <2>4. S = B \cup part("semantic_matcher")
    BY <1>2 DEF A
  <2> HIDE DEF B
  <2>5. Cardinality(S) = Cardinality(B) + Cardinality(part("semantic_matcher"))
    BY <1>1, <1>4, <2>2, <2>3, <2>4 DEF Checks
  <2> QED
    BY <2>1, <2>3, <2>5
<1> QED
  BY <1>1, <1>5 DEF OverChecks, Checks

\* One repeat of a check: correct, given up, or neither.
LEMMA Repeated ==
  ASSUME NEW a \in Replies, NEW k \in Checks, NEW i \in 1 .. Repeats
  PROVE  /\ Outcome(a, k, i) = "right" <=> <<k, i>> \in Good(a)
         /\ Outcome(a, k, i) = "transient" <=> <<k, i>> \in Excluded(a)
<1> DEFINE one == <<k, i, 1>>
           two == <<k, i, 2>>
           Fine(t) == Says(a, t, "right") \/ (t[1] \in Fallback /\ Says(a, t, "garbled"))
<1>1. /\ one \in Tasks /\ (k = "semantic_matcher" => two \in Tasks)
      /\ \A t \in Tasks : t[1] = k /\ t[2] = i =>
           t = one \/ (k = "semantic_matcher" /\ t = two)
  BY DEF Tasks
<1>2. ASSUME NEW t \in Tasks
      PROVE  /\ Hears(a, t) = "right" <=> Fine(t)
             /\ Hears(a, t) = "transient" <=> GivenUp(a, t)
             /\ t[1] = "semantic_matcher" =>
                  (Hears(a, t) \notin {"fails", "transient"} <=>
                     Says(a, t, "right") \/ Says(a, t, "wrong"))
  <2> DEFINE reply == CallWithRetry(a, t)
  <2>1. /\ reply \in Reply /\ (reply = "transient" <=> GivenUp(a, t))
        /\ reply = "right" <=> Says(a, t, "right")
        /\ reply = "wrong" <=> Says(a, t, "wrong")
        /\ reply = "garbled" <=> Says(a, t, "garbled")
    BY Comes DEF Reply
  <2>2. Hears(a, t) = IF reply = "garbled" THEN IF t[1] \in Fallback THEN "right" ELSE "fails" ELSE reply
    BY DEF Hears
  <2> HIDE DEF reply
  <2> QED
    BY <2>1, <2>2 DEF Reply, Fallback
<1>3. <<k, i>> \in Good(a) <=> Fine(one) /\ (k = "semantic_matcher" => Fine(two))
  <2>1. <<k, i>> \in Good(a) <=> \A t \in Tasks : t[1] = k /\ t[2] = i => Fine(t)
    BY DEF Good
  <2>2. one[1] = k /\ one[2] = i /\ two[1] = k /\ two[2] = i
    OBVIOUS
  <2> HIDE DEF one, two, Fine
  <2> QED
    BY <1>1, <2>1, <2>2
<1>4. <<k, i>> \in Excluded(a) <=>
        \/ GivenUp(a, one)
        \/ /\ k = "semantic_matcher" /\ GivenUp(a, two)
           /\ Says(a, one, "right") \/ Says(a, one, "wrong")
  BY DEF Excluded
<1>5. Outcome(a, k, i) =
        IF k # "semantic_matcher" \/ Hears(a, one) \in {"fails", "transient"} THEN Hears(a, one)
        ELSE IF Hears(a, two) = "right" THEN Hears(a, one) ELSE Hears(a, two)
  BY DEF Outcome
<1>6. one[1] = k /\ two[1] = k
  OBVIOUS
<1> HIDE DEF one, two, Fine
<1>7. CASE k # "semantic_matcher"
  BY <1>1, <1>2, <1>3, <1>4, <1>5, <1>7
<1>8. CASE k = "semantic_matcher"
  BY <1>1, <1>2, <1>3, <1>4, <1>5, <1>6, <1>8
<1> QED
  BY <1>7, <1>8

\* The sums over the four checks.
LEMMA Sums ==
  ASSUME NEW a \in Replies
  PROVE  /\ a.key => /\ SumCorrect(a) = Cardinality(Good(a))
                     /\ SumEffective(a) = Cardinality(Checks) * Repeats - Cardinality(Excluded(a))
         /\ ~a.key => SumEffective(a) = 0
<1>0. Repeats \in Nat
  BY RepliesAssumption
<1>1. Good(a) \in SUBSET (Checks \X (1 .. Repeats)) /\ Excluded(a) \in SUBSET (Checks \X (1 .. Repeats))
  BY DEF Good, Excluded
<1>2. ASSUME NEW k \in Checks, a.key
      PROVE  /\ Check(a, k).correct = Cardinality(Slice(Good(a), k))
             /\ Check(a, k).total - Check(a, k).errored = Repeats - Cardinality(Slice(Excluded(a), k))
  <2>1. /\ {i \in 1 .. Repeats : Outcome(a, k, i) \in {"right"}} = Slice(Good(a), k)
        /\ {i \in 1 .. Repeats : Outcome(a, k, i) \in {"transient"}} = Slice(Excluded(a), k)
    BY Repeated DEF Slice
  <2> QED
    BY <1>2, <2>1 DEF Check
<1>3. Cardinality(Checks) = 4
  <2>1. Checks = (({"debug_agent"} \cup {"blame_verdict"}) \cup {"counterfactual"}) \cup {"semantic_matcher"}
    BY DEF Checks
  <2>2. IsFiniteSet({"debug_agent"}) /\ Cardinality({"debug_agent"}) = 1
    BY FS_Singleton
  <2> DEFINE A == {"debug_agent"} \cup {"blame_verdict"}
             B == A \cup {"counterfactual"}
  <2>3. IsFiniteSet(A) /\ Cardinality(A) = 2
    BY <2>2, FS_AddElement
  <2>4. IsFiniteSet(B) /\ Cardinality(B) = 3
    <3>1. "counterfactual" \notin A
      OBVIOUS
    <3> HIDE DEF A
    <3> QED
      BY <2>3, <3>1, FS_AddElement
  <2>5. "semantic_matcher" \notin B
    OBVIOUS
  <2> HIDE DEF B
  <2>6. Cardinality(B \cup {"semantic_matcher"}) = 4
    BY <2>4, <2>5, FS_AddElement
  <2> QED
    BY <2>1, <2>6 DEF A, B
<1>4. ASSUME a.key
      PROVE  /\ SumCorrect(a) = Cardinality(Good(a))
             /\ SumEffective(a) = Cardinality(Checks) * Repeats - Cardinality(Excluded(a))
  <2>1. [k \in Checks |-> Check(a, k).correct] = [k \in Checks |-> Cardinality(Slice(Good(a), k))]
    BY <1>2, <1>4
  <2>2. SumCorrect(a) = Cardinality(Good(a))
    BY <1>1, <2>1, Slices DEF SumCorrect
  <2>3. /\ \A k \in Checks : Cardinality(Slice(Excluded(a), k)) \in Nat
        /\ Cardinality(Excluded(a)) = OverChecks([k \in Checks |-> Cardinality(Slice(Excluded(a), k))])
    BY <1>1, Slices
  <2>4. [k \in Checks |-> Check(a, k).total - Check(a, k).errored]
          = [k \in Checks |-> Repeats - Cardinality(Slice(Excluded(a), k))]
    BY <1>2, <1>4
  <2>5. SumEffective(a) = OverChecks([k \in Checks |-> Repeats - Cardinality(Slice(Excluded(a), k))])
    BY <2>4 DEF SumEffective
  <2>6. SumEffective(a) = 4 * Repeats - Cardinality(Excluded(a))
    BY <1>0, <2>3, <2>5 DEF OverChecks, Checks
  <2> QED
    BY <1>3, <2>2, <2>6
<1>5. ASSUME ~a.key PROVE SumEffective(a) = 0
  BY <1>5 DEF SumEffective, OverChecks, Check, Checks
<1> QED
  BY <1>4, <1>5

\* A matcher that is never wrong counts no pair as one of the other kind.
LEMMA NeverWrong ==
  ASSUME NEW a, \A p \in Pairs : a.reply[p] # (IF p \in Gold THEN "different" ELSE "equivalent")
  PROVE  LET scores == SemanticMatchPr(a)
         IN  scores.precision[1] = scores.precision[2] /\ scores.recall[1] = scores.recall[2]
<1>1. Gold \in SUBSET Pairs /\ IsFiniteSet(Pairs)
  BY RepliesAssumption
<1>2. Counted(a, "equivalent", Gold) \in Nat
  <2>1. {p \in Gold : a.key /\ a.reply[p] = "equivalent"} \in SUBSET Pairs
    BY <1>1
  <2> QED
    BY <1>1, <2>1, FS_Subset, FS_CardinalityType DEF Counted
<1>3. /\ {p \in Pairs \ Gold : a.key /\ a.reply[p] = "equivalent"} = {}
      /\ {p \in Gold : a.key /\ a.reply[p] = "different"} = {}
  BY <1>1
<1>4. Counted(a, "equivalent", Pairs \ Gold) = 0 /\ Counted(a, "different", Gold) = 0
  BY <1>3, FS_EmptySet DEF Counted
<1> QED
  BY <1>2, <1>4 DEF SemanticMatchPr

\* The rate that the page shows is that of a study that measured something and
\* ended, its breakdown is not older, and both are what the service said.
THEOREM PageShowsResults == EvalSpec => []HeadlineTrue
<1>1. EvalInv => HeadlineTrue
  <2> SUFFICES ASSUME EvalInv PROVE HeadlineTrue
    OBVIOUS
  <2>1. ASSUME page.rate # Missing
        PROVE  LET a == answers[page.rate]
               IN  /\ page.rate \in Range(written)
                   /\ SumCorrect(a) = Cardinality(Good(a))
                   /\ SumEffective(a) = Cardinality(Checks) * Repeats - Cardinality(Excluded(a))
                   /\ SumEffective(a) > 0
    <3>1. page.rate \in Reliability \cap Range(written) /\ Writes(page.rate)
      BY <2>1 DEF EvalInv, ShownInv
    <3>2. answers[page.rate] \in Replies
      BY <3>1 DEF EvalInv, StudyInv, StudyType, Processes
    <3>3. SumEffective(answers[page.rate]) > 0
      BY <3>1 DEF Writes
    <3>4. answers[page.rate].key
      BY <3>2, <3>3, Sums
    <3> QED
      BY <3>1, <3>2, <3>3, <3>4, Sums
  <2>2. page.rate # Missing /\ page.checks # Missing => Precedes(page.rate, page.checks)
    BY DEF EvalInv, ShownInv
  <2>3. \A f \in DOMAIN report, p \in Processes : Undamaged(f) /\ WroteLast(f, p) => report[f] = p
    BY DEF EvalInv, StudyInv
  <2> QED
    BY <2>1, <2>2, <2>3, NeverWrong DEF HeadlineTrue, Precedes
<1> QED
  BY <1>1, EvalInvariant, PTL

\* The page is one more client of the store: whatever holds of the store under any
\* calls holds while the page reads it (app.py).
THEOREM ClientsWithPage == EvalSpec => Spec
<1>1. EvalInit => Init
  BY DEF EvalInit, InitAll
<1>2. EvalInv /\ [EvalNext]_evalVars => [Next]_vars
  <2> SUFFICES ASSUME EvalInv, [EvalNext]_evalVars PROVE [Next]_vars
    OBVIOUS
  <2>1. CASE EvalStep /\ UNCHANGED <<setting, jobVars, fork, studyVars>>
    BY <2>1, PageCalls DEF EvalInv, PageInv, AllInv
  <2>2. CASE UNCHANGED allVars
    BY <2>2 DEF allVars
  <2>3. CASE \E r \in Recorders : RecorderStep(r)
    BY <2>3, RecorderCalls DEF EvalInv, AllInv
  <2>4. CASE \E f \in Forkers : ForkStep(f)
    BY <2>4, ForkCalls DEF EvalInv, AllInv
  <2> QED
    BY <2>1, <2>2, <2>3, <2>4 DEF EvalNext, evalVars
<1> QED
  BY <1>1, <1>2, EvalInvariant, PTL DEF EvalSpec, Spec

=============================================================================
