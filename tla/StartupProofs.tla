--------------------------- MODULE StartupProofs ---------------------------
(***************************************************************************)
(* What a server that is up has of the demo, and the blobs, for any number *)
(* of servers and recorders.  A run is added by the one server that        *)
(* inserted its row: what there is of it is the beginning that server has  *)
(* reached, so that a run nobody is adding is whole unless its insertion   *)
(* was interrupted.  A file that holds a part of its content is being      *)
(* written, or a write of it was cut short.  And a server that starts      *)
(* alone knows every run there is, so that it inserts none twice.          *)
(***************************************************************************)
EXTENDS Startup, TLAPS

ServerStates ==
  [stage : {"down", "sync", "seed", "up", "failed"}, left : SUBSET Bundled,
   known : SUBSET RunIds, next : 1 .. Len(SeedRuns) + 1, at : Nat, alone : BOOLEAN]

Typed ==
  /\ runs \in [RunIds -> Headers \cup {None}]
  /\ steps \in [RunIds -> SUBSET Steps]
  /\ tx \in [Conns -> {"none", "lock"}]
  /\ server \in [Servers -> ServerStates]

\* A server that is adding a run has stored its first steps, in order.
Adding == \A c \in Servers : server[c].at > 0 =>
  /\ server[c].stage = "seed"
  /\ server[c].next \in DOMAIN SeedRuns
  /\ runs[Current(c)] # None
  /\ server[c].at - 1 \in 0 .. Len(Seeded[Current(c)].steps)
  /\ steps[Current(c)] = Beginning(Current(c), server[c].at - 1)

OneAdds == \A c, d \in Servers :
  server[c].at > 0 /\ server[d].at > 0 /\ Current(c) = Current(d) => c = d

Added == \A r \in RunIds :
  runs[r] # None /\ ~Inserting(r) /\ r \notin interrupted =>
    steps[r] = Demo(r) /\ runs[r].status = Seeded[r].status

NoOrphans == \A r \in RunIds : runs[r] = None => steps[r] = {}

\* The runs a server is past are there.
Found == \A c \in Servers :
  /\ server[c].stage = "sync" => server[c].next = 1
  /\ server[c].stage = "seed" =>
       /\ \A r \in server[c].known : runs[r] # None
       /\ \A j \in 1 .. server[c].next - 1 : runs[SeedRuns[j]] # None
  /\ server[c].stage = "up" => \A j \in DOMAIN SeedRuns : runs[SeedRuns[j]] # None

Writers == Servers \cup Recorders

BlobsTyped ==
  /\ file \in [Contents -> {"absent", "part", "whole"}]
  /\ pc \in [Writers -> {"idle", "exists", "open", "write"}]
  /\ arg \in [Writers -> Contents \cup {None}]
  /\ \A w \in Writers : pc[w] # "idle" => arg[w] \in Contents
  /\ returned \subseteq Contents

Parts == \A x \in Contents :
  file[x] = "part" => x \in torn \/ \E w \in Writers : pc[w] = "write" /\ arg[w] = x

Kept ==
  /\ \A x \in returned : file[x] # "absent"
  /\ \A w \in Writers : pc[w] = "write" => file[arg[w]] # "absent"

Copied == \A c \in Servers :
  /\ server[c].stage \in {"seed", "up"} => Bundled \subseteq returned
  /\ server[c].stage = "sync" =>
       \A x \in Bundled \ server[c].left : x \in returned \/ (pc[c] # "idle" /\ arg[c] = x)

BInv == BlobsTyped /\ Parts /\ Kept
SInv == Typed /\ Adding /\ OneAdds /\ Added /\ NoOrphans /\ Found
IInv == SInv /\ BInv /\ Copied

-----------------------------------------------------------------------------
\* The blob store

BlobStep(w) ==
  \/ \E x \in Contents : Blobs!Call(w, x)
  \/ Blobs!Exists(w) \/ Blobs!Open(w) \/ Blobs!Write(w) \/ Blobs!Fail(w)

LEMMA CallBInv ==
  ASSUME BInv, NEW w \in Writers, NEW x \in Contents, Blobs!Call(w, x)
  PROVE  BInv'
BY DEF BInv, BlobsTyped, Parts, Kept, Blobs!Call, Blobs!Goto

LEMMA ExistsBInv ==
  ASSUME BInv, NEW w \in Writers, Blobs!Exists(w)
  PROVE  BInv'
BY DEF BInv, BlobsTyped, Parts, Kept, Blobs!Exists, Blobs!Goto, Blobs!Return

LEMMA OpenBInv ==
  ASSUME BInv, NEW w \in Writers, Blobs!Open(w)
  PROVE  BInv'
BY DEF BInv, BlobsTyped, Parts, Kept, Blobs!Open, Blobs!Goto

LEMMA WriteBInv ==
  ASSUME BInv, NEW w \in Writers, Blobs!Write(w)
  PROVE  BInv'
BY DEF BInv, BlobsTyped, Parts, Kept, Blobs!Write, Blobs!Goto, Blobs!Return

LEMMA FailBInv ==
  ASSUME BInv, NEW w \in Writers, Blobs!Fail(w)
  PROVE  BInv'
BY DEF BInv, BlobsTyped, Parts, Kept, Blobs!Fail, Blobs!Goto

LEMMA BlobStepBInv ==
  ASSUME BInv, NEW w \in Writers, BlobStep(w)
  PROVE  BInv'
BY CallBInv, ExistsBInv, OpenBInv, WriteBInv, FailBInv DEF BlobStep

\* A writer touches nobody else, and no reference is taken back.
LEMMA BlobStepOthers ==
  ASSUME BInv, NEW w \in Writers, BlobStep(w)
  PROVE  /\ returned \subseteq returned'
         /\ \A v \in Writers \ {w} : pc'[v] = pc[v] /\ arg'[v] = arg[v]
BY DEF BInv, BlobsTyped, BlobStep, Blobs!Call, Blobs!Exists, Blobs!Open, Blobs!Write,
       Blobs!Fail, Blobs!Goto, Blobs!Return

-----------------------------------------------------------------------------
\* The runs

LEMMA DownState == Down \in ServerStates
BY SeedsAssumption DEF Down, ServerStates

LEMMA InitSInv == InitAll => SInv
<1> SUFFICES ASSUME InitAll PROVE SInv
  OBVIOUS
<1>1. Typed
  BY DownState DEF InitAll, Init, Typed
<1>2. \A c \in Servers : server[c].at = 0 /\ server[c].stage = "down"
  BY DEF InitAll, Down
<1>3. Adding /\ OneAdds /\ Found
  BY <1>2 DEF Adding, OneAdds, Found
<1>4. Added /\ NoOrphans
  BY DEF InitAll, Init, Added, NoOrphans
<1> QED
  BY <1>1, <1>3, <1>4 DEF SInv

\* Only in the stage "seed" is there a run a server is adding.
LEMMA NotAdding ==
  ASSUME SInv, NEW c \in Servers
  PROVE  /\ server[c] \in ServerStates
         /\ server[c].at \in Nat
         /\ server[c].stage # "seed" => server[c].at = 0
<1>1. server[c] \in ServerStates
  BY DEF SInv, Typed
<1>2. server[c].at \in Nat
  BY <1>1 DEF ServerStates
<1> QED
  BY <1>1, <1>2 DEF SInv, Adding

\* A server goes on without touching the tables.
LEMMA OneServerMoves ==
  ASSUME SInv, NEW c \in Servers, NEW st \in ServerStates,
         server' = [server EXCEPT ![c] = st],
         UNCHANGED <<runs, steps, interrupted>>,
         tx' \in [Conns -> {"none", "lock"}],
         server[c].at = 0, st.at = 0,
         st.stage = "sync" => st.next = 1,
         st.stage = "seed" =>
           /\ \A r \in st.known : runs[r] # None
           /\ \A j \in 1 .. st.next - 1 : runs[SeedRuns[j]] # None,
         st.stage = "up" => \A j \in DOMAIN SeedRuns : runs[SeedRuns[j]] # None
  PROVE  SInv'
<1>1. Typed'
  BY DEF SInv, Typed
<1>2. server'[c] = st /\ \A d \in Servers \ {c} : server'[d] = server[d]
  BY DEF SInv, Typed
<1>3. \A d \in Servers : server'[d].at = server[d].at /\ (server[d].at > 0 => d # c)
  BY <1>2
<1>4. \A d \in Servers : server[d].at > 0 => server'[d] = server[d] /\ Current(d)' = Current(d)
  BY <1>2, <1>3 DEF Current
<1>5. Adding'
  BY <1>3, <1>4 DEF SInv, Adding
<1>6. OneAdds'
  BY <1>3, <1>4 DEF SInv, OneAdds
<1>7. \A r \in RunIds : Inserting(r)' = Inserting(r)
  BY <1>3, <1>4 DEF Inserting
<1>8. Added' /\ NoOrphans'
  BY <1>7 DEF SInv, Added, NoOrphans
<1>9. Found'
  BY <1>2 DEF SInv, Found
<1> QED
  BY <1>1, <1>5, <1>6, <1>8, <1>9 DEF SInv

LEMMA BootSInv ==
  ASSUME SInv, NEW c \in Servers, Boot(c)
  PROVE  SInv'
<1> DEFINE st(d) == IF d = c
                      THEN [Down EXCEPT !.stage = "sync", !.left = Bundled,
                                        !.alone = \A e \in Servers : ~Starting(e)]
                      ELSE [server[d] EXCEPT !.alone = FALSE]
<1>1. server' = [d \in Servers |-> st(d)] /\ UNCHANGED <<runs, steps, tx, interrupted>>
  BY DEF Boot, vars
<1>2. \A d \in Servers : st(d) \in ServerStates
  <2>1. st(c) \in ServerStates
    BY DownState DEF ServerStates
  <2>2. \A d \in Servers : server[d] \in ServerStates
    BY DEF SInv, Typed
  <2> QED
    BY <2>1, <2>2 DEF ServerStates
<1>3. Typed'
  BY <1>1, <1>2 DEF SInv, Typed
<1>4. server[c].at = 0 /\ server'[c].at = 0 /\ server'[c].stage = "sync" /\ server'[c].next = 1
  <2>1. server[c].at = 0
    BY NotAdding DEF Boot
  <2> QED
    BY <1>1, <2>1 DEF Down
<1>5. \A d \in Servers \ {c} : /\ server'[d].at = server[d].at /\ server'[d].stage = server[d].stage
                              /\ server'[d].next = server[d].next /\ server'[d].known = server[d].known
  BY <1>1 DEF SInv, Typed, ServerStates
<1>6. \A d \in Servers \ {c} : Current(d)' = Current(d)
  BY <1>5 DEF Current
<1>7. Adding'
  <2> SUFFICES ASSUME NEW d \in Servers, server'[d].at > 0
               PROVE  /\ server'[d].stage = "seed"
                      /\ server'[d].next \in DOMAIN SeedRuns
                      /\ runs'[Current(d)'] # None
                      /\ server'[d].at - 1 \in 0 .. Len(Seeded[Current(d)'].steps)
                      /\ steps'[Current(d)'] = Beginning(Current(d)', server'[d].at - 1)
    BY DEF Adding, Beginning
  <2>1. d # c
    BY <1>4
  <2>2. Current(d)' = Current(d) /\ server'[d].at = server[d].at
    BY <1>5, <1>6, <2>1
  <2> QED
    BY <1>1, <1>5, <2>1, <2>2 DEF SInv, Adding
<1>8. OneAdds'
  BY <1>4, <1>5, <1>6 DEF SInv, OneAdds
<1>9. \A r \in RunIds : Inserting(r)' = Inserting(r)
  BY <1>4, <1>5, <1>6 DEF Inserting
<1>10. Added' /\ NoOrphans'
  BY <1>1, <1>9 DEF SInv, Added, NoOrphans
<1>11. Found'
  BY <1>1, <1>4, <1>5 DEF SInv, Found
<1> QED
  BY <1>3, <1>7, <1>8, <1>10, <1>11 DEF SInv

\* What a server reads is what was committed.
LEMMA ViewIsCommitted ==
  ASSUME SInv, NEW c \in Servers
  PROVE  ViewOf(c) = Committed
BY ProcessesAssumption DEF SInv, Typed, ViewOf

LEMMA FindRunsSInv ==
  ASSUME SInv, NEW c \in Servers, FindRuns(c)
  PROVE  SInv'
<1> DEFINE st == [server[c] EXCEPT !.stage = "seed", !.known = {r \in RunIds : runs[r] # None}]
<1>1. ViewOf(c).runs = runs
  BY ViewIsCommitted DEF Committed
<1>2. server' = [server EXCEPT ![c] = st] /\ UNCHANGED <<runs, steps, interrupted>>
  BY <1>1 DEF FindRuns, ListRuns
<1>3. UNCHANGED tx
  BY ProcessesAssumption DEF FindRuns, ListRuns, Select, SInv, Typed
<1>4. server[c] \in ServerStates /\ server[c].at = 0 /\ server[c].stage = "sync"
  BY NotAdding DEF FindRuns
<1>5. server[c].next = 1
  BY <1>4 DEF SInv, Found
<1>6. /\ st \in ServerStates /\ st.at = 0 /\ st.stage = "seed"
      /\ st.next = 1 /\ st.known = {r \in RunIds : runs[r] # None}
  BY <1>4, <1>5 DEF ServerStates
<1>7. /\ \A r \in st.known : runs[r] # None
      /\ \A j \in 1 .. st.next - 1 : runs[SeedRuns[j]] # None
  BY <1>6
<1>8. tx' \in [Conns -> {"none", "lock"}]
  BY <1>3 DEF SInv, Typed
<1> HIDE DEF st
<1> QED
  BY <1>2, <1>4, <1>6, <1>7, <1>8, OneServerMoves

LEMMA NothingMoves ==
  ASSUME SInv, UNCHANGED <<vars, server, interrupted>>
  PROVE  SInv'
<1>1. UNCHANGED <<runs, steps, tx, server, interrupted>>
  BY DEF vars
<1>2. \A c \in Servers : Current(c)' = Current(c)
  BY <1>1 DEF Current
<1>3. Typed' /\ Found'
  BY <1>1 DEF SInv, Typed, Found
<1>4. Adding'
  BY <1>1, <1>2 DEF SInv, Adding, Beginning
<1>5. OneAdds'
  BY <1>1, <1>2 DEF SInv, OneAdds
<1>6. \A r \in RunIds : Inserting(r)' = Inserting(r)
  BY <1>1, <1>2 DEF Inserting
<1>7. Added' /\ NoOrphans'
  BY <1>1, <1>6 DEF SInv, Added, NoOrphans, Demo, Beginning
<1> QED
  BY <1>3, <1>4, <1>5, <1>7 DEF SInv

LEMMA SyncBlobSInv ==
  ASSUME SInv, NEW c \in Servers, SyncBlob(c)
  PROVE  SInv'
<1>1. CASE UNCHANGED server
  BY <1>1, NothingMoves DEF SyncBlob
<1>2. ASSUME NEW x \in server[c].left, server' = [server EXCEPT ![c].left = @ \ {x}]
      PROVE  SInv'
  <2> DEFINE st == [server[c] EXCEPT !.left = @ \ {x}]
  <2>1. server[c] \in ServerStates /\ server[c].at = 0 /\ server[c].stage = "sync"
    BY NotAdding DEF SyncBlob
  <2>2. server[c].next = 1
    BY <2>1 DEF SInv, Found
  <2>3. st \in ServerStates /\ st.at = 0 /\ st.stage = "sync" /\ st.next = 1
    BY <2>1, <2>2 DEF ServerStates
  <2>4. server' = [server EXCEPT ![c] = st]
    BY <1>2
  <2>5. UNCHANGED <<runs, steps, interrupted>> /\ tx' \in [Conns -> {"none", "lock"}]
    BY DEF SyncBlob, vars, SInv, Typed
  <2> HIDE DEF st
  <2> QED
    BY <2>1, <2>3, <2>4, <2>5, OneServerMoves
<1> QED
  BY <1>1, <1>2 DEF SyncBlob

LEMMA SkipRunSInv ==
  ASSUME SInv, NEW c \in Servers, SkipRun(c)
  PROVE  SInv'
<1> DEFINE st == [server[c] EXCEPT !.next = @ + 1, !.at = 0]
<1>1. server[c] \in ServerStates /\ server[c].stage = "seed" /\ server[c].at = 0
  BY NotAdding DEF SkipRun, At
<1>2. server[c].next \in 1 .. Len(SeedRuns) /\ SeedRuns[server[c].next] \in server[c].known
  BY SeedsAssumption DEF SkipRun, At, Current
<1>3. /\ \A r \in server[c].known : runs[r] # None
      /\ \A j \in 1 .. server[c].next - 1 : runs[SeedRuns[j]] # None
  BY <1>1 DEF SInv, Found
<1>4. server[c].next + 1 \in 1 .. Len(SeedRuns) + 1
  <2>1. Len(SeedRuns) \in Nat
    BY SeedsAssumption
  <2> QED
    BY <1>2, <2>1
<1>5. st \in ServerStates /\ st.at = 0 /\ st.stage = "seed" /\ st.next = server[c].next + 1 /\ st.known = server[c].known
  BY <1>1, <1>2, <1>4 DEF ServerStates
<1>6. \A j \in 1 .. st.next - 1 : runs[SeedRuns[j]] # None
  BY <1>2, <1>3, <1>5
<1>7. server' = [server EXCEPT ![c] = st]
  BY DEF SkipRun, NextRun
<1>8. UNCHANGED <<runs, steps, interrupted>> /\ tx' \in [Conns -> {"none", "lock"}]
  BY DEF SkipRun, vars, SInv, Typed
<1> HIDE DEF st
<1> QED
  BY <1>1, <1>3, <1>5, <1>6, <1>7, <1>8, OneServerMoves

LEMMA ServeSInv ==
  ASSUME SInv, NEW c \in Servers, Serve(c)
  PROVE  SInv'
<1> DEFINE st == [Down EXCEPT !.stage = "up"]
<1>1. server[c] \in ServerStates /\ server[c].stage = "seed" /\ server[c].next > Len(SeedRuns)
  BY NotAdding DEF Serve
<1>2. server[c].at = 0
  <2>1. server[c].next \notin DOMAIN SeedRuns
    BY <1>1, SeedsAssumption
  <2>2. server[c].at \in Nat
    BY NotAdding
  <2> QED
    BY <2>1, <2>2 DEF SInv, Adding
<1>3. \A j \in DOMAIN SeedRuns : runs[SeedRuns[j]] # None
  <2>1. \A j \in 1 .. server[c].next - 1 : runs[SeedRuns[j]] # None
    BY <1>1 DEF SInv, Found
  <2>2. Len(SeedRuns) \in Nat /\ DOMAIN SeedRuns = 1 .. Len(SeedRuns)
    BY SeedsAssumption
  <2>3. server[c].next \in 1 .. Len(SeedRuns) + 1
    BY <1>1 DEF ServerStates
  <2>4. server[c].next - 1 = Len(SeedRuns)
    BY <1>1, <2>2, <2>3
  <2> QED
    BY <2>1, <2>2, <2>4
<1>4. st \in ServerStates /\ st.at = 0 /\ st.stage = "up"
  BY DownState DEF Down, ServerStates
<1>5. server' = [server EXCEPT ![c] = st]
  BY DEF Serve
<1>6. UNCHANGED <<runs, steps, interrupted>> /\ tx' \in [Conns -> {"none", "lock"}]
  BY DEF Serve, vars, SInv, Typed
<1> HIDE DEF st
<1> QED
  BY <1>2, <1>3, <1>4, <1>5, <1>6, OneServerMoves

LEMMA ExitSInv ==
  ASSUME SInv, NEW c \in Servers, Exit(c)
  PROVE  SInv'
<1>1. server[c].at = 0
  BY NotAdding DEF Exit
<1>2. Down \in ServerStates /\ Down.at = 0 /\ Down.stage = "down"
  BY DownState DEF Down
<1>3. /\ server' = [server EXCEPT ![c] = Down]
      /\ UNCHANGED <<runs, steps, interrupted>> /\ tx' \in [Conns -> {"none", "lock"}]
  BY ProcessesAssumption DEF Exit, Close, SInv, Typed
<1> QED
  BY <1>1, <1>2, <1>3, OneServerMoves

\* A server that is killed leaves a beginning, and the run is known for it.
LEMMA KillSInv ==
  ASSUME SInv, NEW c \in Servers, Kill(c)
  PROVE  SInv'
<1>1. Down \in ServerStates /\ Down.at = 0 /\ Down.stage = "down"
  BY DownState DEF Down
<1>2. /\ server' = [server EXCEPT ![c] = Down]
      /\ UNCHANGED <<runs, steps>> /\ tx' \in [Conns -> {"none", "lock"}]
  BY ProcessesAssumption DEF Kill, Close, SInv, Typed
<1>3. server[c].at \in Nat
  BY NotAdding
<1>4. CASE server[c].at = 0
  <2>1. UNCHANGED interrupted
    BY <1>4 DEF Kill
  <2>2. Down.stage # "sync" /\ Down.stage # "seed" /\ Down.stage # "up"
    BY <1>1
  <2> QED
    BY <1>1, <1>2, <1>4, <2>1, <2>2, OneServerMoves
<1>5. CASE server[c].at > 0
  <2>1. interrupted' = interrupted \cup {Current(c)}
    BY <1>5 DEF Kill
  <2>2. server'[c] = Down /\ \A d \in Servers \ {c} : server'[d] = server[d] /\ Current(d)' = Current(d)
    BY <1>2 DEF SInv, Typed, Current
  <2>3. Typed'
    BY <1>1, <1>2 DEF SInv, Typed
  <2>4. Adding'
    <3> SUFFICES ASSUME NEW d \in Servers, server'[d].at > 0
                 PROVE  /\ server'[d].stage = "seed"
                        /\ server'[d].next \in DOMAIN SeedRuns
                        /\ runs'[Current(d)'] # None
                        /\ server'[d].at - 1 \in 0 .. Len(Seeded[Current(d)'].steps)
                        /\ steps'[Current(d)'] = Beginning(Current(d)', server'[d].at - 1)
      BY DEF Adding, Beginning
    <3>1. d # c
      BY <1>1, <2>2
    <3> QED
      BY <1>2, <2>2, <3>1 DEF SInv, Adding
  <2>5. OneAdds'
    BY <1>1, <2>2 DEF SInv, OneAdds
  <2>6. \A r \in RunIds : Inserting(r) => Inserting(r)' \/ r = Current(c)
    BY <2>2 DEF Inserting
  <2>7. Added' /\ NoOrphans'
    BY <1>2, <2>1, <2>6 DEF SInv, Added, NoOrphans, Demo, Beginning
  <2>8. Found'
    BY <1>1, <1>2, <2>2 DEF SInv, Found
  <2> QED
    BY <2>3, <2>4, <2>5, <2>7, <2>8 DEF SInv
<1> QED
  BY <1>3, <1>4, <1>5

\* The run a server is at.
LEMMA CurrentRun ==
  ASSUME SInv, NEW c \in Servers, At(c, server[c].at)
  PROVE  /\ server[c] \in ServerStates /\ server[c].stage = "seed" /\ server[c].at \in Nat
         /\ server[c].next \in DOMAIN SeedRuns /\ Current(c) \in RunIds
         /\ Seeded[Current(c)].steps \in Seq(Steps) /\ Seeded[Current(c)].status \in {"ok", "error"}
<1>1. server[c].stage = "seed" /\ server[c].next \in DOMAIN SeedRuns
  BY DEF At
<1>2. Current(c) \in RunIds
  BY <1>1, SeedsAssumption DEF Current
<1> QED
  BY <1>1, <1>2, NotAdding, SeedsAssumption

\* Servers other than c are at what they were at, unless it is the run of c.
LEMMA OthersAdding ==
  ASSUME SInv, NEW c \in Servers, NEW st \in ServerStates,
         server' = [server EXCEPT ![c] = st],
         \A r \in RunIds : r # Current(c) => runs'[r] = runs[r] /\ steps'[r] = steps[r],
         NEW d \in Servers, d # c, server[d].at > 0, Current(d) # Current(c)
  PROVE  /\ server'[d] = server[d] /\ Current(d)' = Current(d)
         /\ server'[d].stage = "seed"
         /\ server'[d].next \in DOMAIN SeedRuns
         /\ runs'[Current(d)'] # None
         /\ server'[d].at - 1 \in 0 .. Len(Seeded[Current(d)'].steps)
         /\ steps'[Current(d)'] = Beginning(Current(d)', server'[d].at - 1)
<1>1. server'[d] = server[d] /\ Current(d)' = Current(d)
  BY DEF SInv, Typed, Current
<1>2. server[d].next \in DOMAIN SeedRuns
  BY DEF SInv, Adding
<1>3. Current(d) \in RunIds
  BY <1>2, SeedsAssumption DEF Current
<1>4. runs'[Current(d)] = runs[Current(d)] /\ steps'[Current(d)] = steps[Current(d)]
  BY <1>3
<1> QED
  BY <1>1, <1>4 DEF SInv, Adding

LEMMA InsertRunSInv ==
  ASSUME SInv, NEW c \in Servers, InsertRun(c)
  PROVE  SInv'
<1> DEFINE r == Current(c)
<1>1. server[c].at = 0
  BY DEF InsertRun, At
<1>2. At(c, server[c].at)
  BY <1>1 DEF InsertRun
<1>3. /\ server[c] \in ServerStates /\ server[c].stage = "seed"
      /\ server[c].next \in DOMAIN SeedRuns /\ r \in RunIds
      /\ Seeded[r].steps \in Seq(Steps)
  BY <1>2, CurrentRun
<1>4. /\ \A q \in server[c].known : runs[q] # None
      /\ \A j \in 1 .. server[c].next - 1 : runs[SeedRuns[j]] # None
  BY <1>3 DEF SInv, Found
<1>5. CASE StartClash(c, r) /\ server' = [server EXCEPT ![c].stage = "failed"]
  <2> DEFINE st == [server[c] EXCEPT !.stage = "failed"]
  <2>1. st \in ServerStates /\ st.at = 0 /\ st.stage = "failed"
    BY <1>1, <1>3 DEF ServerStates
  <2>2. server' = [server EXCEPT ![c] = st]
    BY <1>5
  <2>3. UNCHANGED <<runs, steps, interrupted>> /\ tx' \in [Conns -> {"none", "lock"}]
    BY <1>5, ProcessesAssumption DEF InsertRun, StartClash, Reject, SInv, Typed
  <2> HIDE DEF st
  <2> QED
    BY <1>1, <2>1, <2>2, <2>3, OneServerMoves
<1>6. CASE StartRun(c, r, "seed") /\ server' = [server EXCEPT ![c].at = 1]
  <2> DEFINE st == [server[c] EXCEPT !.at = 1]
             h == [take |-> "seed", status |-> None]
  <2>1. /\ st \in ServerStates /\ st.at = 1 /\ st.stage = "seed"
        /\ st.next = server[c].next /\ st.known = server[c].known
    BY <1>3 DEF ServerStates
  <2>2. server' = [server EXCEPT ![c] = st] /\ UNCHANGED interrupted
    BY <1>6 DEF InsertRun
  <2>3. /\ runs[r] = None
        /\ runs' = [runs EXCEPT ![r] = h] /\ steps' = steps
        /\ tx' = [tx EXCEPT ![c] = "none"]
    BY <1>6 DEF StartRun, Commit
  <2>4. h \in Headers
    BY TakesAssumption DEF Headers
  <2>5. h # None
    BY <2>4, NoneAssumption
  <2> HIDE DEF st, h
  <2>6. Typed'
    BY <2>1, <2>2, <2>3, <2>4 DEF SInv, Typed
  <2>7. \A q \in RunIds : (q # r => runs'[q] = runs[q]) /\ (runs[q] # None => runs'[q] # None) /\ steps'[q] = steps[q]
    BY <1>3, <2>3, <2>5 DEF SInv, Typed
  <2>8. runs'[r] # None /\ steps'[r] = {}
    BY <1>3, <2>3, <2>5 DEF SInv, Typed, NoOrphans
  <2>9. server'[c] = st /\ Current(c)' = r
    BY <2>1, <2>2 DEF SInv, Typed, Current
  <2>10. \A d \in Servers \ {c} : server[d].at > 0 => Current(d) # r
    BY <2>3 DEF SInv, Adding
  <2>11. \A d \in Servers \ {c} : server'[d] = server[d] /\ Current(d)' = Current(d)
    BY <2>2 DEF SInv, Typed, Current
  <2>12. Adding'
    <3> SUFFICES ASSUME NEW d \in Servers, server'[d].at > 0
                 PROVE  /\ server'[d].stage = "seed"
                        /\ server'[d].next \in DOMAIN SeedRuns
                        /\ runs'[Current(d)'] # None
                        /\ server'[d].at - 1 \in 0 .. Len(Seeded[Current(d)'].steps)
                        /\ steps'[Current(d)'] = Beginning(Current(d)', server'[d].at - 1)
      BY DEF Adding, Beginning
    <3>1. CASE d = c
      <4>1. Beginning(r, 0) = {}
        BY DEF Beginning
      <4>2. Len(Seeded[r].steps) \in Nat
        BY <1>3
      <4>3. server'[d] = st /\ Current(d)' = r
        BY <2>9, <3>1
      <4>4. server'[d].at - 1 = 0
        BY <2>1, <4>3
      <4>5. server'[d].at - 1 \in 0 .. Len(Seeded[Current(d)'].steps)
        BY <4>2, <4>3, <4>4
      <4>6. steps'[Current(d)'] = Beginning(Current(d)', server'[d].at - 1)
        BY <2>8, <4>1, <4>3, <4>4
      <4> HIDE DEF r
      <4> QED
        BY <1>3, <2>1, <2>8, <4>3, <4>5, <4>6
    <3>2. CASE d # c
      BY <2>1, <2>2, <2>7, <2>10, <2>11, <3>2, OthersAdding
    <3> QED
      BY <3>1, <3>2
  <2>13. OneAdds'
    BY <2>9, <2>10, <2>11 DEF SInv, OneAdds
  <2>14. \A q \in RunIds : Inserting(q) => Inserting(q)'
    BY <1>1, <2>11 DEF Inserting
  <2>15. \E d \in Servers : server'[d].at > 0 /\ Current(d)' = r
    BY <2>1, <2>9
  <2>16. Added'
    <3> SUFFICES ASSUME NEW q \in RunIds, runs'[q] # None, ~Inserting(q)', q \notin interrupted'
                 PROVE  steps'[q] = Demo(q) /\ runs'[q].status = Seeded[q].status
      BY DEF Added, Demo, Beginning
    <3>1. q # r /\ ~Inserting(q) /\ q \notin interrupted
      <4>1. q # r
        BY <2>15 DEF Inserting
      <4> QED
        BY <2>2, <2>14, <4>1
    <3>2. runs'[q] = runs[q] /\ steps'[q] = steps[q]
      BY <2>7, <3>1
    <3> QED
      BY <3>1, <3>2 DEF SInv, Added
  <2>17. NoOrphans'
    BY <2>7, <2>8 DEF SInv, NoOrphans
  <2>18. Found'
    <3>1. \A j \in DOMAIN SeedRuns : SeedRuns[j] \in RunIds /\ DOMAIN SeedRuns = 1 .. Len(SeedRuns)
      BY SeedsAssumption
    <3>2. \A d \in Servers : \A q \in server[d].known : q \in RunIds
      BY DEF SInv, Typed, ServerStates
    <3>3. \A d \in Servers : \A j \in 1 .. server[d].next - 1 : j \in DOMAIN SeedRuns
      BY SeedsAssumption DEF SInv, Typed, ServerStates
    <3>4. \A d \in Servers : /\ server'[d].stage = server[d].stage /\ server'[d].next = server[d].next
                             /\ server'[d].known = server[d].known
      BY <1>3, <2>1, <2>9, <2>11
    <3> QED
      BY <2>7, <3>1, <3>2, <3>3, <3>4 DEF SInv, Found
  <2> QED
    BY <2>6, <2>12, <2>13, <2>16, <2>17, <2>18 DEF SInv
<1> QED
  BY <1>5, <1>6 DEF InsertRun

LEMMA InsertStepSInv ==
  ASSUME SInv, NEW c \in Servers, InsertStep(c)
  PROVE  SInv'
<1> DEFINE r == Current(c)
           n == server[c].at
           s == Seeded[r].steps[n]
           st == [server[c] EXCEPT !.at = n + 1]
<1>1. At(c, server[c].at)
  BY DEF InsertStep
<1>2. /\ server[c] \in ServerStates /\ server[c].stage = "seed" /\ n \in Nat
      /\ server[c].next \in DOMAIN SeedRuns /\ r \in RunIds
      /\ Seeded[r].steps \in Seq(Steps)
  BY <1>1, CurrentRun
<1>3. n \in 1 .. Len(Seeded[r].steps) /\ Len(Seeded[r].steps) \in Nat /\ s \in Steps
  BY <1>2 DEF InsertStep
<1>4. runs[r] # None /\ steps[r] = Beginning(r, n - 1)
  BY <1>2, <1>3 DEF SInv, Adding
<1>5. /\ runs' = runs /\ steps' = [steps EXCEPT ![r] = @ \cup {s}]
      /\ tx' = [tx EXCEPT ![c] = "none"] /\ interrupted' = interrupted
  BY DEF InsertStep, AppendStep, Commit
<1>6. server' = [server EXCEPT ![c] = st]
  BY DEF InsertStep
<1>7. /\ st \in ServerStates /\ st.at = n + 1 /\ st.stage = "seed"
      /\ st.next = server[c].next /\ st.known = server[c].known
  BY <1>2 DEF ServerStates
<1>8. Beginning(r, n) = Beginning(r, n - 1) \cup {s}
  BY <1>3 DEF Beginning
<1>9. steps'[r] = Beginning(r, n) /\ \A q \in RunIds : q # r => steps'[q] = steps[q]
  BY <1>2, <1>4, <1>5, <1>8 DEF SInv, Typed
<1>10. Typed'
  BY <1>3, <1>5, <1>6, <1>7 DEF SInv, Typed
<1> HIDE DEF st, s, n
<1>11. server'[c] = st /\ Current(c)' = r
  BY <1>6, <1>7 DEF SInv, Typed, Current
<1>12. \A d \in Servers \ {c} : server'[d] = server[d] /\ Current(d)' = Current(d)
  BY <1>6 DEF SInv, Typed, Current
<1>13. \A d \in Servers \ {c} : server[d].at > 0 => Current(d) # r
  BY <1>3 DEF SInv, OneAdds, n
<1>14. Adding'
  <2> SUFFICES ASSUME NEW d \in Servers, server'[d].at > 0
               PROVE  /\ server'[d].stage = "seed"
                      /\ server'[d].next \in DOMAIN SeedRuns
                      /\ runs'[Current(d)'] # None
                      /\ server'[d].at - 1 \in 0 .. Len(Seeded[Current(d)'].steps)
                      /\ steps'[Current(d)'] = Beginning(Current(d)', server'[d].at - 1)
    BY DEF Adding, Beginning
  <2>1. CASE d = c
    <3>1. server'[d] = st /\ Current(d)' = r
      BY <1>11, <2>1
    <3>2. server'[d].at - 1 = n
      BY <1>3, <1>7, <3>1
    <3>3. server'[d].at - 1 \in 0 .. Len(Seeded[Current(d)'].steps)
      BY <1>3, <3>1, <3>2
    <3>4. steps'[Current(d)'] = Beginning(Current(d)', server'[d].at - 1)
      BY <1>9, <3>1, <3>2
    <3> HIDE DEF r
    <3> QED
      BY <1>2, <1>4, <1>5, <1>7, <3>1, <3>3, <3>4
  <2>2. CASE d # c
    BY <1>5, <1>6, <1>7, <1>9, <1>12, <1>13, <2>2, OthersAdding
  <2> QED
    BY <2>1, <2>2
<1>15. OneAdds'
  BY <1>11, <1>12, <1>13 DEF SInv, OneAdds
<1>16. \E d \in Servers : server'[d].at > 0 /\ Current(d)' = r
  BY <1>3, <1>7, <1>11
<1>17. Added'
  <2> SUFFICES ASSUME NEW q \in RunIds, runs'[q] # None, ~Inserting(q)', q \notin interrupted'
               PROVE  steps'[q] = Demo(q) /\ runs'[q].status = Seeded[q].status
    BY DEF Added, Demo, Beginning
  <2>1. q # r
    BY <1>16 DEF Inserting
  <2>2. ~Inserting(q)
    BY <1>12, <2>1 DEF Inserting
  <2> QED
    BY <1>5, <1>9, <2>1, <2>2 DEF SInv, Added
<1>18. NoOrphans'
  BY <1>4, <1>5, <1>9 DEF SInv, NoOrphans
<1>19. Found'
  <2>1. \A d \in Servers : /\ server'[d].stage = server[d].stage /\ server'[d].next = server[d].next
                           /\ server'[d].known = server[d].known
    BY <1>2, <1>7, <1>11, <1>12
  <2> QED
    BY <1>5, <2>1 DEF SInv, Found
<1> QED
  BY <1>10, <1>14, <1>15, <1>17, <1>18, <1>19 DEF SInv

LEMMA CloseRunSInv ==
  ASSUME SInv, NEW c \in Servers, CloseRun(c)
  PROVE  SInv'
<1> DEFINE r == Current(c)
           status == Seeded[r].status
           st == [server[c] EXCEPT !.next = @ + 1, !.at = 0]
<1>1. At(c, server[c].at)
  BY DEF CloseRun, At
<1>2. /\ server[c] \in ServerStates /\ server[c].stage = "seed"
      /\ server[c].next \in DOMAIN SeedRuns /\ r \in RunIds
      /\ Seeded[r].steps \in Seq(Steps) /\ status \in {"ok", "error"}
  BY <1>1, CurrentRun
<1>3. server[c].at = Len(Seeded[r].steps) + 1 /\ Len(Seeded[r].steps) \in Nat
  BY <1>2 DEF CloseRun, At
<1>4. runs[r] # None /\ steps[r] = Demo(r)
  <2>1. server[c].at - 1 = Len(Seeded[r].steps) /\ server[c].at > 0
    BY <1>3
  <2> QED
    BY <2>1 DEF SInv, Adding, Demo
<1>5. runs[r] \in Headers
  BY <1>2, <1>4 DEF SInv, Typed
<1>6. /\ runs' = [runs EXCEPT ![r] = [runs[r] EXCEPT !.status = status]] /\ steps' = steps
      /\ tx' = [tx EXCEPT ![c] = "none"] /\ interrupted' = interrupted
  BY <1>4 DEF CloseRun, FinishRun, Commit
<1>7. /\ [runs[r] EXCEPT !.status = status] \in Headers
      /\ [runs[r] EXCEPT !.status = status].status = status
  BY <1>2, <1>5 DEF Headers
<1>8. server[c].next + 1 \in 1 .. Len(SeedRuns) + 1
  <2>1. Len(SeedRuns) \in Nat /\ DOMAIN SeedRuns = 1 .. Len(SeedRuns)
    BY SeedsAssumption
  <2> QED
    BY <1>2, <2>1
<1>9. /\ st \in ServerStates /\ st.at = 0 /\ st.stage = "seed"
      /\ st.next = server[c].next + 1 /\ st.known = server[c].known
  BY <1>2, <1>8 DEF ServerStates
<1>10. server' = [server EXCEPT ![c] = st]
  BY DEF CloseRun, NextRun
<1>11. /\ runs'[r] # None /\ runs'[r].status = status
       /\ \A q \in RunIds : (q # r => runs'[q] = runs[q]) /\ (runs[q] # None => runs'[q] # None)
  BY <1>2, <1>6, <1>7, NoneAssumption DEF SInv, Typed
<1>12. Typed'
  BY <1>2, <1>6, <1>7, <1>9, <1>10 DEF SInv, Typed
<1> HIDE DEF st
<1>13. server'[c] = st
  BY <1>9, <1>10 DEF SInv, Typed
<1>14. \A d \in Servers \ {c} : server'[d] = server[d] /\ Current(d)' = Current(d)
  BY <1>10 DEF SInv, Typed, Current
<1>15. \A d \in Servers \ {c} : server[d].at > 0 => Current(d) # r
  BY <1>3 DEF SInv, OneAdds
<1>16. Adding'
  <2> SUFFICES ASSUME NEW d \in Servers, server'[d].at > 0
               PROVE  /\ server'[d].stage = "seed"
                      /\ server'[d].next \in DOMAIN SeedRuns
                      /\ runs'[Current(d)'] # None
                      /\ server'[d].at - 1 \in 0 .. Len(Seeded[Current(d)'].steps)
                      /\ steps'[Current(d)'] = Beginning(Current(d)', server'[d].at - 1)
    BY DEF Adding, Beginning
  <2>1. d # c
    BY <1>9, <1>13
  <2>2. \A q \in RunIds : q # r => runs'[q] = runs[q] /\ steps'[q] = steps[q]
    BY <1>6, <1>11
  <2> QED
    BY <1>9, <1>10, <1>14, <1>15, <2>1, <2>2, OthersAdding
<1>17. OneAdds'
  BY <1>9, <1>13, <1>14 DEF SInv, OneAdds
<1>18. Added'
  <2> SUFFICES ASSUME NEW q \in RunIds, runs'[q] # None, ~Inserting(q)', q \notin interrupted'
               PROVE  steps'[q] = Demo(q) /\ runs'[q].status = Seeded[q].status
    BY DEF Added, Demo, Beginning
  <2>1. CASE q = r
    BY <1>4, <1>6, <1>11, <2>1
  <2>2. CASE q # r
    <3>1. ~Inserting(q)
      BY <1>14, <2>2 DEF Inserting
    <3> QED
      BY <1>6, <1>11, <2>2, <3>1 DEF SInv, Added
  <2> QED
    BY <2>1, <2>2
<1>19. NoOrphans'
  BY <1>6, <1>11 DEF SInv, NoOrphans
<1>20. Found'
  <2>1. \A j \in DOMAIN SeedRuns : SeedRuns[j] \in RunIds
    BY SeedsAssumption
  <2>2. \A d \in Servers : \A q \in server[d].known : q \in RunIds
    BY DEF SInv, Typed, ServerStates
  <2>3. \A d \in Servers : \A j \in 1 .. server[d].next - 1 : j \in DOMAIN SeedRuns
    BY SeedsAssumption DEF SInv, Typed, ServerStates
  <2>4. \A d \in Servers \ {c} :
          /\ server'[d].stage = server[d].stage /\ server'[d].next = server[d].next
          /\ server'[d].known = server[d].known
    BY <1>14
  <2>5. \A j \in 1 .. st.next - 1 : j \in 1 .. server[c].next - 1 \/ j = server[c].next
    <3>1. server[c].next \in Nat /\ st.next - 1 = server[c].next
      BY <1>2, <1>9 DEF ServerStates
    <3> QED
      BY <3>1
  <2>6. \A j \in 1 .. st.next - 1 : runs'[SeedRuns[j]] # None
    BY <1>2, <1>4, <1>11, <2>1, <2>3, <2>5 DEF SInv, Found, Current
  <2>7. \A q \in server[c].known : runs'[q] # None
    BY <1>2, <1>11, <2>2 DEF SInv, Found
  <2> QED
    BY <1>9, <1>11, <1>13, <2>1, <2>2, <2>3, <2>4, <2>6, <2>7 DEF SInv, Found
<1> QED
  BY <1>12, <1>16, <1>17, <1>18, <1>19, <1>20 DEF SInv

-----------------------------------------------------------------------------
\* The bundled blobs, and everything together

LEMMA InitBlobs == InitAll => BInv /\ Copied
BY BundledAssumption
   DEF InitAll, Blobs!Init, BInv, BlobsTyped, Parts, Kept, Copied, Down, Writers

\* The stage of a server is that of the blobs it has copied.
LEMMA CopiedKept ==
  ASSUME Copied, returned \subseteq returned', NEW c \in Servers,
         \A d \in Servers \ {c} :
           /\ server'[d].stage = server[d].stage /\ server'[d].left = server[d].left
           /\ pc'[d] = pc[d] /\ arg'[d] = arg[d],
         server'[c].stage \in {"seed", "up"} => Bundled \subseteq returned',
         server'[c].stage = "sync" =>
           \A x \in Bundled \ server'[c].left : x \in returned' \/ (pc'[c] # "idle" /\ arg'[c] = x)
  PROVE  Copied'
BY DEF Copied

LEMMA CallBlob ==
  ASSUME BInv, NEW c \in Servers, NEW x \in Contents, Blobs!Call(c, x)
  PROVE  pc[c] = "idle" /\ pc'[c] # "idle" /\ arg'[c] = x /\ returned' = returned
BY DEF BInv, BlobsTyped, Writers, Blobs!Call, Blobs!Goto

\* A call ends with its reference returned.
LEMMA CopyBlob ==
  ASSUME BInv, NEW c \in Servers, Blobs!Exists(c) \/ Blobs!Open(c) \/ Blobs!Write(c)
  PROVE  arg' = arg /\ pc[c] # "idle" /\ (pc'[c] # "idle" \/ arg[c] \in returned')
BY DEF BInv, BlobsTyped, Writers, Blobs!Exists, Blobs!Open, Blobs!Write, Blobs!Goto, Blobs!Return

LEMMA SyncBlobCopied ==
  ASSUME SInv, BInv, Copied, NEW c \in Servers, SyncBlob(c)
  PROVE  BInv' /\ Copied'
<1>1. c \in Writers /\ server[c].stage = "sync" /\ server[c] \in ServerStates
  BY NotAdding DEF SyncBlob, Writers
<1>2. server[c].left \subseteq Contents
  BY <1>1, BundledAssumption DEF ServerStates
<1>3. BlobStep(c)
  BY <1>2 DEF SyncBlob, BlobStep
<1>4. BInv' /\ returned \subseteq returned' /\ \A v \in Writers \ {c} : pc'[v] = pc[v] /\ arg'[v] = arg[v]
  BY <1>1, <1>3, BlobStepBInv, BlobStepOthers
<1>5. ASSUME NEW x \in server[c].left, Blobs!Call(c, x), server' = [server EXCEPT ![c].left = @ \ {x}]
      PROVE  Copied'
  <2>1. pc[c] = "idle" /\ pc'[c] # "idle" /\ arg'[c] = x /\ returned' = returned
    BY <1>2, <1>5, CallBlob
  <2>2. server'[c].stage = "sync" /\ server'[c].left = server[c].left \ {x}
    BY <1>1, <1>5 DEF SInv, Typed, ServerStates
  <2>3. \A d \in Servers \ {c} : server'[d] = server[d] /\ pc'[d] = pc[d] /\ arg'[d] = arg[d]
    BY <1>4, <1>5 DEF SInv, Typed, Writers
  <2>4. \A y \in Bundled \ server[c].left : y \in returned
    BY <1>1, <2>1 DEF Copied
  <2> QED
    BY <2>1, <2>2, <2>3, <2>4, CopiedKept
<1>6. CASE (Blobs!Exists(c) \/ Blobs!Open(c) \/ Blobs!Write(c)) /\ UNCHANGED server
  <2>1. arg' = arg /\ pc[c] # "idle" /\ (pc'[c] # "idle" \/ arg[c] \in returned')
    BY <1>6, CopyBlob
  <2>2. \A d \in Servers \ {c} : server'[d] = server[d] /\ pc'[d] = pc[d] /\ arg'[d] = arg[d]
    BY <1>4, <1>6 DEF Writers
  <2>3. \A y \in Bundled \ server[c].left : y \in returned' \/ (pc'[c] # "idle" /\ arg'[c] = y)
    BY <1>1, <1>4, <2>1 DEF Copied
  <2>4. server'[c] = server[c]
    BY <1>6
  <2> QED
    BY <1>1, <1>4, <2>2, <2>3, <2>4, CopiedKept
<1> QED
  BY <1>4, <1>5, <1>6 DEF SyncBlob

LEMMA StillBlobs ==
  ASSUME BInv, UNCHANGED blobVars
  PROVE  BInv'
BY DEF BInv, BlobsTyped, Parts, Kept, blobVars

LEMMA StepIInv == IInv /\ [NextAll]_allVars => IInv'
<1> SUFFICES ASSUME IInv, [NextAll]_allVars PROVE IInv'
  OBVIOUS
<1> USE DEF IInv
<1>1. ASSUME NEW c \in Servers, Boot(c) PROVE IInv'
  <2>1. SInv' /\ BInv'
    BY <1>1, BootSInv, StillBlobs DEF Boot
  <2>2. UNCHANGED <<pc, arg, returned>>
    BY <1>1 DEF Boot, blobVars
  <2>3. server'[c].stage = "sync" /\ server'[c].left = Bundled
    BY <1>1 DEF Boot, Down
  <2>4. \A d \in Servers \ {c} : server'[d].stage = server[d].stage /\ server'[d].left = server[d].left
    BY <1>1 DEF Boot, SInv, Typed, ServerStates
  <2> QED
    BY <2>1, <2>2, <2>3, <2>4, CopiedKept
<1>2. ASSUME NEW c \in Servers, SyncBlob(c) PROVE IInv'
  BY <1>2, SyncBlobSInv, SyncBlobCopied
<1>3. ASSUME NEW c \in Servers, UNCHANGED blobVars,
             \A d \in Servers \ {c} : server'[d] = server[d],
             server'[c].stage \in {"seed", "up"} => Bundled \subseteq returned,
             server'[c].stage # "sync"
      PROVE  BInv' /\ Copied'
  <2>1. UNCHANGED <<pc, arg, returned>>
    BY <1>3 DEF blobVars
  <2> QED
    BY <1>3, <2>1, StillBlobs, CopiedKept
<1>4. ASSUME NEW c \in Servers, FindRuns(c) PROVE IInv'
  <2>1. SInv'
    BY <1>4, FindRunsSInv
  <2>2. Bundled \subseteq returned
    BY <1>4 DEF FindRuns, Copied
  <2>3. \A d \in Servers \ {c} : server'[d] = server[d]
    BY <1>4 DEF FindRuns, SInv, Typed
  <2>4. server'[c].stage = "seed"
    BY <1>4 DEF FindRuns, SInv, Typed, ServerStates
  <2> QED
    BY <1>3, <1>4, <2>1, <2>2, <2>3, <2>4 DEF FindRuns
<1>5. ASSUME NEW c \in Servers, SkipRun(c) \/ InsertRun(c) \/ InsertStep(c) \/ CloseRun(c) PROVE IInv'
  <2>1. SInv' /\ UNCHANGED blobVars
    BY <1>5, SkipRunSInv, InsertRunSInv, InsertStepSInv, CloseRunSInv
       DEF SkipRun, InsertRun, InsertStep, CloseRun
  <2>2. server[c] \in ServerStates /\ server[c].stage = "seed"
    BY <1>5, NotAdding DEF SkipRun, InsertRun, InsertStep, CloseRun, At
  <2>3. Bundled \subseteq returned
    BY <2>2 DEF Copied
  <2>4. \A d \in Servers \ {c} : server'[d] = server[d]
    BY <1>5 DEF SkipRun, InsertRun, InsertStep, CloseRun, NextRun, SInv, Typed
  <2>5. server'[c].stage \in {"seed", "failed"}
    BY <1>5, <2>2 DEF SkipRun, InsertRun, InsertStep, CloseRun, NextRun, SInv, Typed, ServerStates
  <2> QED
    BY <1>3, <2>1, <2>3, <2>4, <2>5
<1>6. ASSUME NEW c \in Servers, Serve(c) PROVE IInv'
  <2>1. SInv' /\ UNCHANGED blobVars
    BY <1>6, ServeSInv DEF Serve
  <2>2. Bundled \subseteq returned
    BY <1>6 DEF Serve, Copied
  <2>3. \A d \in Servers \ {c} : server'[d] = server[d]
    BY <1>6 DEF Serve, SInv, Typed
  <2>4. server'[c].stage = "up"
    BY <1>6 DEF Serve, SInv, Typed, Down
  <2> QED
    BY <1>3, <2>1, <2>2, <2>3, <2>4
<1>7. ASSUME NEW c \in Servers, Exit(c) PROVE IInv'
  <2>1. SInv' /\ UNCHANGED blobVars
    BY <1>7, ExitSInv DEF Exit
  <2>2. server'[c].stage = "down" /\ \A d \in Servers \ {c} : server'[d] = server[d]
    BY <1>7 DEF Exit, SInv, Typed, Down
  <2> QED
    BY <1>3, <2>1, <2>2
<1>8. ASSUME NEW c \in Servers, Kill(c) PROVE IInv'
  <2>1. SInv'
    BY <1>8, KillSInv
  <2>2. server'[c].stage = "down" /\ \A d \in Servers \ {c} : server'[d] = server[d]
    BY <1>8 DEF Kill, SInv, Typed, Down
  <2>3. CASE UNCHANGED blobVars
    BY <1>3, <2>1, <2>2, <2>3
  <2>4. CASE Blobs!Fail(c)
    <3>1. BlobStep(c) /\ c \in Writers
      BY <2>4 DEF BlobStep, Writers
    <3>2. BInv' /\ returned \subseteq returned' /\ \A v \in Writers \ {c} : pc'[v] = pc[v] /\ arg'[v] = arg[v]
      BY <3>1, BlobStepBInv, BlobStepOthers
    <3> QED
      BY <2>1, <2>2, <3>2, CopiedKept DEF Writers
  <2> QED
    BY <1>8, <2>3, <2>4 DEF Kill
<1>9. ASSUME NEW p \in Recorders, RecorderStep(p) PROVE IInv'
  <2>1. SInv' /\ UNCHANGED server
    BY <1>9, NothingMoves DEF RecorderStep
  <2>2. BlobStep(p) /\ p \in Writers
    BY <1>9 DEF RecorderStep, BlobStep, Writers
  <2>3. BInv' /\ returned \subseteq returned' /\ \A v \in Writers \ {p} : pc'[v] = pc[v] /\ arg'[v] = arg[v]
    BY <2>2, BlobStepBInv, BlobStepOthers
  <2>4. \A d \in Servers : pc'[d] = pc[d] /\ arg'[d] = arg[d]
    BY <2>3, ProcessesAssumption DEF Writers
  <2>5. Copied'
    BY <2>1, <2>3, <2>4 DEF Copied
  <2> QED
    BY <2>1, <2>3, <2>5
<1>10. CASE UNCHANGED allVars
  <2>1. SInv' /\ BInv'
    BY <1>10, NothingMoves, StillBlobs DEF allVars
  <2>2. UNCHANGED <<pc, arg, returned, server>>
    BY <1>10 DEF allVars, blobVars
  <2>3. Copied'
    BY <2>2 DEF Copied
  <2> QED
    BY <2>1, <2>3
<1> QED
  BY <1>1, <1>2, <1>4, <1>5, <1>6, <1>7, <1>8, <1>9, <1>10 DEF NextAll, ServerStep

LEMMA Invariant == SpecAll => []IInv
<1>1. InitAll => IInv
  BY InitSInv, InitBlobs DEF IInv
<1> QED
  BY <1>1, StepIInv, PTL DEF SpecAll

-----------------------------------------------------------------------------
\* The theorems

\* A server that is up has every run of the demo, whole and with its status,
\* unless one is being added or its insertion was interrupted, and has stored
\* the blobs of its steps (SeededWhole, seed.py:119-122).
THEOREM StartSeeds == SpecAll => []SeededWhole
<1>1. IInv => SeededWhole
  <2> SUFFICES ASSUME IInv, NEW c \in Servers, NEW i \in DOMAIN SeedRuns, server[c].stage = "up"
               PROVE  LET r == SeedRuns[i]
                      IN  /\ runs[r] # None
                          /\ ~Inserting(r) /\ r \notin interrupted =>
                               steps[r] = Demo(r) /\ runs[r].status = Seeded[r].status
                          /\ \A s \in steps[r] : s.blob \in Bundled => s.blob \in returned
    BY DEF SeededWhole
  <2>1. SeedRuns[i] \in RunIds
    BY SeedsAssumption
  <2>2. runs[SeedRuns[i]] # None
    BY DEF IInv, SInv, Found
  <2>3. Bundled \subseteq returned
    BY DEF IInv, Copied
  <2> QED
    BY <2>1, <2>2, <2>3 DEF IInv, SInv, Added
<1> QED
  BY <1>1, Invariant, PTL

\* Every reference that was given out can be resolved when nobody is writing, but
\* for the two kinds of content the code loses (Resolvable, blob_store.py:36).
THEOREM BlobsResolve == SpecAll => []Resolvable
<1>1. IInv => Resolvable
  BY DEF IInv, BInv, BlobsTyped, Parts, Kept, Writers, Resolvable, Blobs!Resolvable,
         Blobs!Quiet, Blobs!Verified, Blobs!Content
<1> QED
  BY <1>1, Invariant, PTL

-----------------------------------------------------------------------------
\* A start that is alone

\* What a server that is alone may find in the table: what it has found, and what
\* it has added since.
Knows(c) == \A r \in RunIds : runs[r] # None =>
  \/ r \in server[c].known
  \/ \E j \in 1 .. server[c].next - 1 : SeedRuns[j] = r
  \/ server[c].at > 0 /\ Current(c) = r

OnlyStart == \A c, d \in Servers : server[c].alone /\ Starting(c) /\ Starting(d) => c = d

LoneInv ==
  /\ OnlyStart
  /\ \A c \in Servers : server[c].alone /\ server[c].stage = "seed" => Knows(c)
  /\ AloneSucceeds

\* A server goes on: of the others, none that is alone is starting.
LEMMA LoneMoves ==
  ASSUME SInv, LoneInv, NEW c \in Servers, NEW st \in ServerStates,
         server' = [server EXCEPT ![c] = st],
         st.alone => server[c].alone,
         st.stage \in {"sync", "seed", "failed"} => Starting(c),
         Starting(c) \/ runs' = runs,
         st.alone /\ st.stage = "seed" => Knows(c)',
         st.stage = "failed" => ~st.alone
  PROVE  LoneInv'
<1>1. server'[c] = st /\ \A d \in Servers \ {c} : server'[d] = server[d]
  BY DEF SInv, Typed
<1>2. \A d \in Servers : Starting(d)' => Starting(d)
  BY <1>1 DEF Starting
<1>3. \A d \in Servers : server'[d].alone => server[d].alone
  BY <1>1
<1>4. OnlyStart'
  BY <1>2, <1>3 DEF LoneInv, OnlyStart
<1>5. AloneSucceeds'
  BY <1>1 DEF LoneInv, AloneSucceeds
<1>6. ASSUME NEW d \in Servers, server'[d].alone, server'[d].stage = "seed" PROVE Knows(d)'
  <2>1. CASE d = c
    BY <1>1, <1>6, <2>1
  <2>2. CASE d # c
    <3>1. server'[d] = server[d] /\ Current(d)' = Current(d) /\ Starting(d)
      BY <1>1, <1>6, <2>2 DEF Current, Starting
    <3>2. ~Starting(c)
      BY <1>6, <2>2, <3>1 DEF LoneInv, OnlyStart
    <3>3. runs' = runs /\ Knows(d)
      BY <1>6, <3>1, <3>2 DEF LoneInv
    <3> QED
      BY <3>1, <3>3 DEF Knows
  <2> QED
    BY <2>1, <2>2
<1> QED
  BY <1>4, <1>5, <1>6 DEF LoneInv

LEMMA LoneStill ==
  ASSUME LoneInv, UNCHANGED <<runs, server>>
  PROVE  LoneInv'
BY DEF LoneInv, OnlyStart, AloneSucceeds, Knows, Current, Starting

LEMMA LoneBoot ==
  ASSUME SInv, LoneInv, NEW c \in Servers, Boot(c)
  PROVE  LoneInv'
<1>1. /\ server'[c].stage = "sync"
      /\ server'[c].alone => \A e \in Servers : ~Starting(e)
      /\ \A d \in Servers \ {c} : ~server'[d].alone /\ server'[d].stage = server[d].stage
  BY DEF Boot, Down, SInv, Typed, ServerStates
<1>2. OnlyStart'
  BY <1>1 DEF OnlyStart, Starting
<1> QED
  BY <1>1, <1>2 DEF LoneInv, AloneSucceeds

LEMMA LoneFindRuns ==
  ASSUME SInv, LoneInv, NEW c \in Servers, FindRuns(c)
  PROVE  LoneInv'
<1> DEFINE st == [server[c] EXCEPT !.stage = "seed", !.known = {r \in RunIds : runs[r] # None}]
<1>1. ViewOf(c).runs = runs
  BY ViewIsCommitted DEF Committed
<1>2. server' = [server EXCEPT ![c] = st] /\ runs' = runs
  BY <1>1 DEF FindRuns, ListRuns
<1>3. server[c] \in ServerStates /\ Starting(c)
  BY NotAdding DEF FindRuns, Starting
<1>4. st \in ServerStates /\ st.alone = server[c].alone /\ st.stage = "seed"
      /\ st.known = {r \in RunIds : runs[r] # None}
  BY <1>3 DEF ServerStates
<1>5. server'[c] = st
  BY <1>2 DEF SInv, Typed
<1> HIDE DEF st
<1>6. Knows(c)'
  BY <1>2, <1>4, <1>5 DEF Knows
<1> QED
  BY <1>2, <1>3, <1>4, <1>6, LoneMoves

LEMMA LoneSyncBlob ==
  ASSUME SInv, LoneInv, NEW c \in Servers, SyncBlob(c)
  PROVE  LoneInv'
<1>1. CASE UNCHANGED server
  BY <1>1, LoneStill DEF SyncBlob, vars
<1>2. ASSUME NEW x \in server[c].left, server' = [server EXCEPT ![c].left = @ \ {x}]
      PROVE  LoneInv'
  <2> DEFINE st == [server[c] EXCEPT !.left = @ \ {x}]
  <2>1. server[c] \in ServerStates /\ server[c].stage = "sync" /\ Starting(c)
    BY NotAdding DEF SyncBlob, Starting
  <2>2. st \in ServerStates /\ st.stage = "sync" /\ st.alone = server[c].alone
    BY <2>1 DEF ServerStates
  <2>3. server' = [server EXCEPT ![c] = st]
    BY <1>2
  <2> HIDE DEF st
  <2> QED
    BY <2>1, <2>2, <2>3, LoneMoves
<1> QED
  BY <1>1, <1>2 DEF SyncBlob

\* To the next run, which a server that is alone has found or has just added.
LEMMA LoneNextRun ==
  ASSUME SInv, LoneInv, NEW c \in Servers, At(c, server[c].at), NextRun(c),
         \A r \in RunIds : runs'[r] # None => runs[r] # None
  PROVE  LoneInv'
<1> DEFINE st == [server[c] EXCEPT !.next = @ + 1, !.at = 0]
<1>1. server[c] \in ServerStates /\ server[c].stage = "seed" /\ server[c].next \in DOMAIN SeedRuns
  BY CurrentRun
<1>2. server[c].next \in 1 .. Len(SeedRuns) /\ Len(SeedRuns) \in Nat
  BY <1>1, SeedsAssumption
<1>3. st \in ServerStates /\ st.stage = "seed" /\ st.alone = server[c].alone
      /\ st.next = server[c].next + 1 /\ st.known = server[c].known
  <2>1. server[c].next + 1 \in 1 .. Len(SeedRuns) + 1
    BY <1>2
  <2> QED
    BY <1>1, <2>1 DEF ServerStates
<1>4. server' = [server EXCEPT ![c] = st]
  BY DEF NextRun
<1>5. server'[c] = st
  BY <1>4 DEF SInv, Typed
<1> HIDE DEF st
<1>6. server[c].alone => Knows(c)'
  <2> SUFFICES ASSUME server[c].alone, NEW r \in RunIds, runs'[r] # None
               PROVE  r \in st.known \/ \E j \in 1 .. st.next - 1 : SeedRuns[j] = r
    BY <1>5 DEF Knows
  <2>1. Knows(c) /\ runs[r] # None
    BY <1>1 DEF LoneInv
  <2>2. CASE server[c].at > 0 /\ Current(c) = r
    <3>1. server[c].next \in 1 .. st.next - 1 /\ SeedRuns[server[c].next] = r
      BY <1>2, <1>3, <2>2 DEF Current
    <3> QED
      BY <3>1
  <2>3. ASSUME NEW j \in 1 .. server[c].next - 1, SeedRuns[j] = r
        PROVE  \E k \in 1 .. st.next - 1 : SeedRuns[k] = r
    <3>1. j \in 1 .. st.next - 1
      BY <1>2, <1>3, <2>3
    <3> QED
      BY <2>3, <3>1
  <2> QED
    BY <1>3, <2>1, <2>2, <2>3 DEF Knows
<1> QED
  BY <1>1, <1>3, <1>4, <1>6, LoneMoves DEF Starting

LEMMA LoneInsertRun ==
  ASSUME SInv, LoneInv, NEW c \in Servers, InsertRun(c)
  PROVE  LoneInv'
<1> DEFINE r == Current(c)
<1>1. server[c].at = 0 /\ At(c, server[c].at) /\ r \notin server[c].known
  BY DEF InsertRun, At
<1>2. /\ server[c] \in ServerStates /\ server[c].stage = "seed" /\ Starting(c)
      /\ server[c].next \in DOMAIN SeedRuns /\ r \in RunIds
  BY <1>1, CurrentRun DEF Starting
<1>3. server[c].next \in 1 .. Len(SeedRuns) /\ Len(SeedRuns) \in Nat
  BY <1>2, SeedsAssumption
<1>4. server[c].alone => runs[r] = None
  <2> SUFFICES ASSUME server[c].alone, runs[r] # None PROVE FALSE
    OBVIOUS
  <2>1. PICK j \in 1 .. server[c].next - 1 : SeedRuns[j] = r
    BY <1>1, <1>2 DEF LoneInv, Knows
  <2>2. j \in DOMAIN SeedRuns /\ j # server[c].next /\ SeedRuns[j] = SeedRuns[server[c].next]
    <3>1. j \in 1 .. Len(SeedRuns) /\ j < server[c].next
      BY <1>3
    <3> QED
      BY <1>3, <2>1, <3>1, SeedsAssumption DEF Current
  <2> QED
    BY <1>2, <2>2, SeedsAssumption
<1>5. CASE StartClash(c, r) /\ server' = [server EXCEPT ![c].stage = "failed"]
  <2> DEFINE st == [server[c] EXCEPT !.stage = "failed"]
  <2>1. ~server[c].alone
    BY <1>4, <1>5 DEF StartClash
  <2>2. st \in ServerStates /\ st.stage = "failed" /\ st.alone = server[c].alone
    BY <1>2 DEF ServerStates
  <2>3. server' = [server EXCEPT ![c] = st]
    BY <1>5
  <2> HIDE DEF st
  <2> QED
    BY <1>2, <2>1, <2>2, <2>3, LoneMoves
<1>6. CASE StartRun(c, r, "seed") /\ server' = [server EXCEPT ![c].at = 1]
  <2> DEFINE st == [server[c] EXCEPT !.at = 1]
  <2>1. st \in ServerStates /\ st.stage = "seed" /\ st.alone = server[c].alone
        /\ st.next = server[c].next /\ st.known = server[c].known /\ st.at = 1
    BY <1>2 DEF ServerStates
  <2>2. server' = [server EXCEPT ![c] = st]
    BY <1>6
  <2>3. server'[c] = st
    BY <2>2 DEF SInv, Typed
  <2> HIDE DEF st
  <2>4. \A q \in RunIds : q # r => runs'[q] = runs[q]
    BY <1>6 DEF StartRun, Commit, SInv, Typed
  <2>5. server[c].alone => Knows(c)'
    <3> SUFFICES ASSUME server[c].alone, NEW q \in RunIds, runs'[q] # None, q # r
                 PROVE  q \in server[c].known \/ \E j \in 1 .. server[c].next - 1 : SeedRuns[j] = q
      BY <2>1, <2>3 DEF Knows, Current
    <3> QED
      BY <1>1, <1>2, <2>4 DEF LoneInv, Knows
  <2> QED
    BY <1>2, <2>1, <2>2, <2>5, LoneMoves
<1> QED
  BY <1>5, <1>6 DEF InsertRun

LEMMA LoneInsertStep ==
  ASSUME SInv, LoneInv, NEW c \in Servers, InsertStep(c)
  PROVE  LoneInv'
<1> DEFINE st == [server[c] EXCEPT !.at = @ + 1]
<1>1. /\ server[c] \in ServerStates /\ server[c].stage = "seed" /\ Starting(c) /\ server[c].at \in Nat
  BY CurrentRun DEF InsertStep, Starting
<1>2. st \in ServerStates /\ st.stage = "seed" /\ st.alone = server[c].alone
      /\ st.next = server[c].next /\ st.known = server[c].known /\ st.at = server[c].at + 1
  BY <1>1 DEF ServerStates
<1>3. server' = [server EXCEPT ![c] = st] /\ runs' = runs
  BY DEF InsertStep, AppendStep, Commit
<1>4. server'[c] = st
  BY <1>3 DEF SInv, Typed
<1> HIDE DEF st
<1>5. server[c].alone => Knows(c)'
  BY <1>1, <1>2, <1>3, <1>4 DEF LoneInv, Knows, Current
<1> QED
  BY <1>1, <1>2, <1>3, <1>5, LoneMoves

LEMMA LoneCloseRun ==
  ASSUME SInv, LoneInv, NEW c \in Servers, CloseRun(c)
  PROVE  LoneInv'
<1>1. At(c, server[c].at) /\ NextRun(c)
  BY DEF CloseRun, At
<1>2. \A r \in RunIds : runs'[r] # None => runs[r] # None
  BY DEF CloseRun, FinishRun, Commit, SInv, Typed
<1> QED
  BY <1>1, <1>2, LoneNextRun

\* A server that comes up, exits or is killed is no longer starting.
LEMMA LoneEnds ==
  ASSUME SInv, LoneInv, NEW c \in Servers, Serve(c) \/ Exit(c) \/ Kill(c)
  PROVE  LoneInv'
<1>1. PICK st \in {Down, [Down EXCEPT !.stage = "up"]} : server' = [server EXCEPT ![c] = st]
  BY DEF Serve, Exit, Kill
<1>2. st \in ServerStates /\ st.stage \in {"down", "up"} /\ ~st.alone
  BY <1>1, DownState DEF Down, ServerStates
<1>3. runs' = runs
  BY DEF Serve, Exit, Kill, Close, vars
<1> QED
  BY <1>1, <1>2, <1>3, LoneMoves

\* AloneSucceeds: however many servers, killed wherever they were, have started on
\* the database before, a start next to which no other runs does not fail.
THEOREM LoneStartSucceeds == SpecAll => []AloneSucceeds
<1>1. InitAll => LoneInv
  BY DEF InitAll, LoneInv, OnlyStart, AloneSucceeds, Starting, Down
<1>2. SInv /\ LoneInv /\ [NextAll]_allVars => LoneInv'
  <2> SUFFICES ASSUME SInv, LoneInv, [NextAll]_allVars PROVE LoneInv'
    OBVIOUS
  <2>1. CASE UNCHANGED allVars
    BY <2>1, LoneStill DEF allVars, vars
  <2>2. ASSUME NEW p \in Recorders, RecorderStep(p) PROVE LoneInv'
    BY <2>2, LoneStill DEF RecorderStep, vars
  <2>3. ASSUME NEW c \in Servers, SkipRun(c) PROVE LoneInv'
    <3>1. At(c, server[c].at) /\ NextRun(c) /\ runs' = runs
      BY <2>3 DEF SkipRun, At, vars
    <3> QED
      BY <3>1, LoneNextRun
  <2> QED
    BY <2>1, <2>2, <2>3, LoneBoot, LoneSyncBlob, LoneFindRuns, LoneInsertRun, LoneInsertStep,
       LoneCloseRun, LoneEnds DEF NextAll, ServerStep
<1>3. IInv => SInv
  BY DEF IInv
<1> QED
  BY <1>1, <1>2, <1>3, Invariant, PTL DEF SpecAll, LoneInv

-----------------------------------------------------------------------------
\* Types, and the trace store

\* A server that starts meets no snapshot, as none is locked out.
Settled ==
  /\ seen = [c \in Conns |-> None] /\ behind = {} /\ reading = [c \in Conns |-> None]
  /\ rejected \in BOOLEAN
  /\ torn \subseteq Contents
  /\ interrupted \subseteq RunIds

\* A statement that commits, and one that is refused.
LEMMA SettledCommit ==
  ASSUME SInv, Settled, NEW c \in Conns, NEW rs, NEW ss, Commit(c, rs, ss)
  PROVE  /\ seen' = [d \in Conns |-> None] /\ behind' = {}
         /\ reading' = reading /\ rejected' = rejected
BY DEF SInv, Typed, Settled, Commit

LEMMA SettledStep == IInv /\ Settled /\ [NextAll]_allVars => Settled'
<1> SUFFICES ASSUME IInv, Settled, [NextAll]_allVars PROVE Settled'
  OBVIOUS
<1>1. SInv /\ BlobsTyped
  BY DEF IInv, BInv
<1>2. CASE UNCHANGED allVars
  BY <1>2 DEF allVars, vars, blobVars, Settled
<1>3. ASSUME NEW w \in Writers, BlobStep(w), UNCHANGED <<vars, interrupted>>
      PROVE  Settled'
  <2>1. torn' \subseteq Contents
    BY <1>1, <1>3 DEF BlobsTyped, Settled, BlobStep, Blobs!Call, Blobs!Exists, Blobs!Open,
       Blobs!Write, Blobs!Fail, Blobs!Return
  <2> QED
    BY <1>3, <2>1 DEF Settled, vars
<1>4. ASSUME NEW p \in Recorders, RecorderStep(p) PROVE Settled'
  <2>1. BlobStep(p) /\ p \in Writers /\ UNCHANGED <<vars, interrupted>>
    BY <1>4 DEF RecorderStep, BlobStep, Writers
  <2> QED
    BY <1>3, <2>1
<1>5. ASSUME NEW c \in Servers, Boot(c) \/ SkipRun(c) \/ Serve(c) PROVE Settled'
  BY <1>5 DEF Boot, SkipRun, Serve, vars, blobVars, Settled
<1>6. ASSUME NEW c \in Servers, SyncBlob(c) PROVE Settled'
  <2>1. \A x \in server[c].left : x \in Contents
    BY <1>1, BundledAssumption DEF SInv, Typed, ServerStates
  <2>2. BlobStep(c) /\ c \in Writers /\ UNCHANGED <<vars, interrupted>>
    BY <1>6, <2>1 DEF SyncBlob, BlobStep, Writers
  <2> QED
    BY <1>3, <2>2
<1>7. ASSUME NEW c \in Servers, FindRuns(c) PROVE Settled'
  BY <1>1, <1>7, ProcessesAssumption DEF FindRuns, ListRuns, Select, SInv, Typed, blobVars, Settled
<1>8. ASSUME NEW c \in Servers, InsertRun(c) \/ InsertStep(c) \/ CloseRun(c) PROVE Settled'
  <2>1. UNCHANGED <<torn, interrupted>> /\ c \in Conns
    BY <1>8, ProcessesAssumption DEF InsertRun, InsertStep, CloseRun, blobVars
  <2>2. CASE StartClash(c, Current(c))
    BY <2>1, <2>2 DEF StartClash, Reject, Settled
  <2>3. CASE \E rs, ss : Commit(c, rs, ss)
    BY <1>1, <2>1, <2>3, SettledCommit DEF Settled
  <2> QED
    BY <1>8, <2>2, <2>3 DEF InsertRun, InsertStep, CloseRun, StartRun, AppendStep, FinishRun
<1>9. ASSUME NEW c \in Servers, Exit(c) \/ Kill(c) PROVE Settled'
  <2>1. seen' = [d \in Conns |-> None] /\ behind' = {} /\ reading' = [d \in Conns |-> None]
        /\ rejected' = rejected
    BY <1>9 DEF Exit, Kill, Close, Settled
  <2>2. torn' \subseteq Contents
    BY <1>1, <1>9, ProcessesAssumption DEF Exit, Kill, Blobs!Fail, blobVars, Settled, BlobsTyped, Writers
  <2>3. server[c].at > 0 => Current(c) \in RunIds
    BY <1>1, SeedsAssumption DEF SInv, Adding, Current
  <2>4. interrupted' \subseteq RunIds
    BY <1>9, <2>3 DEF Exit, Kill, Settled
  <2> QED
    BY <2>1, <2>2, <2>4 DEF Settled
<1> QED
  BY <1>2, <1>4, <1>5, <1>6, <1>7, <1>8, <1>9 DEF NextAll, ServerStep

\* StartTypeOK: of the servers, the blob store and the trace store below them.
THEOREM StartTypeCorrect == SpecAll => []StartTypeOK
<1>1. InitAll => Settled
  BY DEF InitAll, Init, Blobs!Init, Settled
<1>2. IInv /\ Settled => StartTypeOK
  <2> SUFFICES ASSUME IInv, Settled PROVE StartTypeOK
    OBVIOUS
  <2>1. TypeOK
    BY DEF IInv, SInv, Typed, Settled, TypeOK, Committed, Views
  <2>2. Blobs!TypeOK
    BY DEF IInv, BInv, BlobsTyped, Settled, Writers, Blobs!TypeOK
  <2>3. DOMAIN server = Servers /\ \A c \in Servers : StageOK(server[c])
    BY DEF IInv, SInv, Typed, ServerStates, StageOK
  <2> QED
    BY <2>1, <2>2, <2>3 DEF StartTypeOK, Settled
<1> QED
  BY <1>1, <1>2, SettledStep, Invariant, PTL DEF SpecAll

\* A start does to the database what the methods of TraceStore do, a method at a
\* time, so that what holds of the store with any clients holds under it.
THEOREM ServersUseTheStore == SpecAll => Spec
<1>1. InitAll => Init
  BY DEF InitAll
<1>2. SInv /\ [NextAll]_allVars => [Next]_vars
  <2> SUFFICES ASSUME SInv, [NextAll]_allVars PROVE [Next]_vars
    OBVIOUS
  <2>1. CASE UNCHANGED vars
    BY <2>1
  <2>2. ASSUME NEW c \in Servers, FindRuns(c) \/ Exit(c) \/ Kill(c) PROVE Next
    BY <2>2, ProcessesAssumption DEF FindRuns, Exit, Kill, Next
  <2>3. ASSUME NEW c \in Servers, InsertRun(c) \/ InsertStep(c) \/ CloseRun(c) PROVE Next
    <3>1. At(c, server[c].at)
      BY <2>3 DEF InsertRun, InsertStep, CloseRun, At
    <3>2. c \in Conns /\ Current(c) \in RunIds /\ Seeded[Current(c)].status \in {"ok", "error"}
          /\ Seeded[Current(c)].steps \in Seq(Steps)
      BY <3>1, CurrentRun, ProcessesAssumption
    <3>3. CASE InsertRun(c)
      BY <3>2, <3>3, TakesAssumption DEF InsertRun, Next
    <3>4. CASE InsertStep(c)
      <4>1. Seeded[Current(c)].steps[server[c].at] \in Steps
        BY <3>2, <3>4 DEF InsertStep
      <4> QED
        BY <3>2, <3>4, <4>1 DEF InsertStep, Next
    <3>5. CASE CloseRun(c)
      BY <3>2, <3>5 DEF CloseRun, Next
    <3> QED
      BY <2>3, <3>3, <3>4, <3>5
  <2> QED
    BY <2>1, <2>2, <2>3
    DEF NextAll, ServerStep, Boot, SyncBlob, SkipRun, Serve, RecorderStep, allVars
<1>3. IInv => SInv
  BY DEF IInv
<1> QED
  BY <1>1, <1>2, <1>3, Invariant, PTL DEF SpecAll, Spec

=============================================================================
