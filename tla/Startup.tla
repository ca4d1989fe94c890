------------------------------ MODULE Startup ------------------------------
(***************************************************************************)
(* The start of the API server (api/app.py, at import): it copies the      *)
(* bundled blobs into the blob directory and adds the runs of the demo to  *)
(* the trace store, unless they are there.  Several servers may start on   *)
(* one database and one directory, which recorders use as well, and any    *)
(* process may be killed at any point.                                     *)
(*                                                                         *)
(* Nobody deletes the runs of the demo, and a statement waits for a lock:  *)
(* the only process that keeps one is about to exit.                       *)
(***************************************************************************)
EXTENDS TraceStore, Sequences

CONSTANTS
  Servers,
  Recorders,        \* other processes, that store blobs of their own
  Contents,
  CarriageReturns,  \* the contents that have one
  Bundled,          \* the contents in docs/fixtures/blobs
  SeedRuns,         \* the ids of the runs to add, in this order
  Seeded            \* the status of each, and its steps in order

VARIABLES
  file, pc, arg, returned, torn,  \* the blob store
  server,      \* per server: how far its start is
  interrupted  \* history: the runs whose insertion was cut short

Blobs == INSTANCE BlobStore WITH Writers <- Servers \cup Recorders

ASSUME ProcessesAssumption == Conns = Servers /\ Servers \cap Recorders = {}
ASSUME BundledAssumption ==
  /\ Bundled \subseteq Contents
  /\ CarriageReturns \subseteq Contents
  /\ None \notin Contents
ASSUME SeedsAssumption ==
  /\ SeedRuns \in Seq(RunIds)
  /\ \A i, j \in DOMAIN SeedRuns : SeedRuns[i] = SeedRuns[j] => i = j
  /\ Seeded \in [RunIds -> [status : {"ok", "error"}, steps : Seq(Steps)]]
  /\ \A r \in RunIds : \A i, j \in DOMAIN Seeded[r].steps :
       Seeded[r].steps[i].id = Seeded[r].steps[j].id => i = j
  /\ \A s \in Steps : s.blob \in Contents
ASSUME TakesAssumption == Takes = {"seed"}

blobVars == <<file, pc, arg, returned, torn>>
allVars == <<vars, blobVars, server, interrupted>>

\* What a server knows while it starts: the blobs it has still to look at, the
\* runs it found, the next of SeedRuns, and how many statements of that run are
\* done; alone, as long as no other server was starting at the same time.
Down == [stage |-> "down", left |-> {}, known |-> {}, next |-> 1, at |-> 0, alone |-> FALSE]

InitAll ==
  /\ Init
  /\ Blobs!Init
  /\ server = [c \in Servers |-> Down]
  /\ interrupted = {}

Starting(c) == server[c].stage \in {"sync", "seed", "failed"}

-----------------------------------------------------------------------------
\* _sync_fixture_blobs

Boot(c) ==
  /\ server[c].stage = "down"
  /\ server' = [d \in Servers |->
       IF d = c
         THEN [Down EXCEPT !.stage = "sync", !.left = Bundled,
                           !.alone = \A e \in Servers : ~Starting(e)]
         ELSE [server[d] EXCEPT !.alone = FALSE]]
  /\ UNCHANGED <<vars, blobVars, interrupted>>

\* dest.exists() and copyfile are the steps of store_blob.
SyncBlob(c) ==
  /\ server[c].stage = "sync"
  /\ \/ \E x \in server[c].left :
          /\ Blobs!Call(c, x)
          /\ server' = [server EXCEPT ![c].left = @ \ {x}]
     \/ (Blobs!Exists(c) \/ Blobs!Open(c) \/ Blobs!Write(c)) /\ UNCHANGED server
  /\ UNCHANGED <<vars, interrupted>>

-----------------------------------------------------------------------------
\* seed_store

FindRuns(c) ==
  /\ server[c].stage = "sync"
  /\ server[c].left = {} /\ pc[c] = "idle"
  /\ ListRuns(c)
  /\ server' = [server EXCEPT ![c].stage = "seed",
                              ![c].known = {r \in RunIds : ViewOf(c).runs[r] # None}]
  /\ UNCHANGED <<blobVars, interrupted>>

\* The server is at its next run, that many statements of which are done.
At(c, n) ==
  /\ server[c].stage = "seed"
  /\ server[c].next \in DOMAIN SeedRuns
  /\ server[c].at = n

Current(c) == SeedRuns[server[c].next]

NextRun(c) == server' = [server EXCEPT ![c].next = @ + 1, ![c].at = 0]

SkipRun(c) ==
  /\ At(c, 0)
  /\ Current(c) \in server[c].known
  /\ NextRun(c)
  /\ UNCHANGED <<vars, blobVars, interrupted>>

\* Another server may have added the run meanwhile: the exception ends the start.
InsertRun(c) ==
  /\ At(c, 0)
  /\ Current(c) \notin server[c].known
  /\ \/ /\ StartRun(c, Current(c), "seed")
        /\ server' = [server EXCEPT ![c].at = 1]
     \/ /\ StartClash(c, Current(c))
        /\ server' = [server EXCEPT ![c].stage = "failed"]
  /\ UNCHANGED <<blobVars, interrupted>>

InsertStep(c) ==
  /\ At(c, server[c].at)
  /\ server[c].at \in DOMAIN Seeded[Current(c)].steps
  /\ AppendStep(c, Current(c), Seeded[Current(c)].steps[server[c].at])
  /\ server' = [server EXCEPT ![c].at = @ + 1]
  /\ UNCHANGED <<blobVars, interrupted>>

\* Plausible bug: the run is finished with its last step still to come.
CloseRun_Early(c) ==
  /\ server[c].at > 0
  /\ At(c, Len(Seeded[Current(c)].steps))
  /\ FinishRun(c, Current(c), Seeded[Current(c)].status)
  /\ NextRun(c)
  /\ UNCHANGED <<blobVars, interrupted>>

CloseRun(c) ==
  /\ At(c, Len(Seeded[Current(c)].steps) + 1)
  /\ FinishRun(c, Current(c), Seeded[Current(c)].status)
  /\ NextRun(c)
  /\ UNCHANGED <<blobVars, interrupted>>

Serve(c) ==
  /\ server[c].stage = "seed"
  /\ server[c].next > Len(SeedRuns)
  /\ server' = [server EXCEPT ![c] = [Down EXCEPT !.stage = "up"]]
  /\ UNCHANGED <<vars, blobVars, interrupted>>

-----------------------------------------------------------------------------
\* The end of a process

Exit(c) ==
  /\ server[c].stage = "failed"
  /\ Close(c)
  /\ server' = [server EXCEPT ![c] = Down]
  /\ UNCHANGED <<blobVars, interrupted>>

Kill(c) ==
  /\ server[c].stage \notin {"down", "failed"}
  /\ Close(c)
  /\ server' = [server EXCEPT ![c] = Down]
  /\ interrupted' = IF server[c].at > 0 THEN interrupted \cup {Current(c)} ELSE interrupted
  /\ \/ Blobs!Fail(c)
     \/ pc[c] = "idle" /\ UNCHANGED blobVars

\* A recorder stores a blob, and may be killed too.
RecorderStep(p) ==
  /\ \/ \E x \in Contents : Blobs!Call(p, x)
     \/ Blobs!Exists(p) \/ Blobs!Open(p) \/ Blobs!Write(p) \/ Blobs!Fail(p)
  /\ UNCHANGED <<vars, server, interrupted>>

ServerStep(c) ==
  \/ SyncBlob(c) \/ FindRuns(c)
  \/ SkipRun(c) \/ InsertRun(c) \/ InsertStep(c) \/ CloseRun(c)
  \/ Serve(c) \/ Exit(c)

NextAll ==
  \/ \E c \in Servers : Boot(c) \/ ServerStep(c) \/ Kill(c)
  \/ \E p \in Recorders : RecorderStep(p)

SpecAll == InitAll /\ [][NextAll]_allVars

\* A process runs until it is killed.
FairSpec == SpecAll /\ \A c \in Servers : WF_allVars(ServerStep(c))

-----------------------------------------------------------------------------
\* Properties

StageOK(s) ==
  /\ s.stage \in {"down", "sync", "seed", "up", "failed"}
  /\ s.left \subseteq Bundled
  /\ s.known \subseteq RunIds
  /\ s.next \in 1 .. Len(SeedRuns) + 1
  /\ s.at \in Nat
  /\ s.alone \in BOOLEAN

StartTypeOK ==
  /\ TypeOK
  /\ Blobs!TypeOK
  /\ DOMAIN server = Servers /\ \A c \in Servers : StageOK(server[c])
  /\ interrupted \subseteq RunIds

\* Every reference that a writer, of any process, was given can be resolved when
\* nobody is writing (blob_store.py:36), but for two kinds of content, that the
\* code loses (see BlobStore).
Resolvable == Blobs!Resolvable

\* The first n steps of a run of the demo, and all of them.
Beginning(r, n) == {Seeded[r].steps[i] : i \in 1 .. n}
Demo(r) == Beginning(r, Len(Seeded[r].steps))

Inserting(r) == \E c \in Servers : server[c].at > 0 /\ Current(c) = r

\* What a server that is up has of the demo: each run is there, with all of its
\* steps and its status, unless a server was killed in the middle of adding it
\* or one is just doing so; and the blobs of its steps have been stored
\* (seed.py:119-122, app.py:62-66 "Lets the seeded demo run resolve").
SeededWhole ==
  \A c \in Servers, i \in DOMAIN SeedRuns : server[c].stage = "up" =>
    LET r == SeedRuns[i]
    IN  /\ runs[r] # None
        /\ ~Inserting(r) /\ r \notin interrupted =>
             steps[r] = Demo(r) /\ runs[r].status = Seeded[r].status
        /\ \A s \in steps[r] : s.blob \in Bundled => s.blob \in returned

\* A start does not fail unless another server was starting at the same time, in
\* particular not on what earlier starts have left behind, wherever they were killed
\* (seed.py:4-7, "All inserts are idempotent").
AloneSucceeds == \A c \in Servers : server[c].stage = "failed" => ~server[c].alone

\* And it ends, one way or the other.
ComesUp ==
  /\ \A c \in Servers : Starting(c) ~> server[c].stage \in {"up", "down"}
  /\ []AloneSucceeds

\* Contradicted: "skips any run that already appears" (seed.py:121-122) leaves
\* a server with the runs of the demo.
DemoComplete ==
  \A c \in Servers, i \in DOMAIN SeedRuns :
    server[c].stage = "up" /\ ~Inserting(SeedRuns[i]) =>
      steps[SeedRuns[i]] = Demo(SeedRuns[i])

=============================================================================
