------------------------------ MODULE BlobStore ------------------------------
(***************************************************************************)
(* The content-addressed store (trace_store/blob_store.py): a file per     *)
(* content, named by its digest, in a directory that the API server and    *)
(* the recorders share.  Files are written in text mode, without a lock,   *)
(* in place.                                                               *)
(***************************************************************************)
EXTENDS Naturals

CONSTANTS
  Writers,    \* threads, of any process, that store blobs
  Contents,   \* each stands for its digest as well
  CarriageReturns,  \* the contents that have one
  None

VARIABLES
  file,      \* per content: what its file holds
  pc,        \* per writer: where it is in store_blob
  arg,       \* per writer: what it stores
  returned,  \* history: the contents whose reference some call has returned
  torn       \* history: the contents some write of which was cut short

vars == <<file, pc, arg, returned, torn>>

Init ==
  /\ file = [c \in Contents |-> "absent"]
  /\ pc = [w \in Writers |-> "idle"]
  /\ arg = [w \in Writers |-> None]
  /\ returned = {}
  /\ torn = {}

Goto(w, next) == pc' = [pc EXCEPT ![w] = next]

-----------------------------------------------------------------------------
\* store_blob

Call(w, c) ==
  /\ pc[w] = "idle"
  /\ Goto(w, "exists")
  /\ arg' = [arg EXCEPT ![w] = c]
  /\ UNCHANGED <<file, returned, torn>>

Return(w) ==
  /\ returned' = returned \cup {arg[w]}
  /\ Goto(w, "idle")

\* os.path.exists: whatever the file holds.
Exists(w) ==
  /\ pc[w] = "exists"
  /\ IF file[arg[w]] = "absent"
       THEN Goto(w, "open") /\ UNCHANGED returned
       ELSE Return(w)
  /\ UNCHANGED <<file, arg, torn>>

\* open(path, "w") creates the file, or truncates what another has written.
Open(w) ==
  /\ pc[w] = "open"
  /\ file' = [file EXCEPT ![arg[w]] = "part"]
  /\ Goto(w, "write")
  /\ UNCHANGED <<arg, returned, torn>>

\* Plausible bug: the file is not closed.
Write_Unflushed(w) ==
  /\ pc[w] = "write"
  /\ Return(w)
  /\ UNCHANGED <<file, arg, torn>>

Write(w) ==
  /\ pc[w] = "write"
  /\ file' = [file EXCEPT ![arg[w]] = "whole"]
  /\ Return(w)
  /\ UNCHANGED <<arg, torn>>

\* The process dies, or the write fails: what there is of the file stays.
Fail(w) ==
  /\ pc[w] # "idle"
  /\ Goto(w, "idle")
  /\ torn' = IF pc[w] = "write" THEN torn \cup {arg[w]} ELSE torn
  /\ UNCHANGED <<file, arg, returned>>

-----------------------------------------------------------------------------
\* fetch_blob

\* What is read: in text mode every line ending comes back as "\n".
Content(c) ==
  IF file[c] = "part" THEN "beginning"
  ELSE IF c \in CarriageReturns THEN "translated"
  ELSE c

\* A content whose digest is not the one asked for is refused.
Verified(c) == IF file[c] # "absent" /\ Content(c) = c THEN c ELSE "error"

Next ==
  \/ \E w \in Writers, c \in Contents : Call(w, c)
  \/ \E w \in Writers : Exists(w) \/ Open(w) \/ Write(w) \/ Fail(w)

Spec == Init /\ [][Next]_vars

-----------------------------------------------------------------------------
\* Properties

TypeOK ==
  /\ file \in [Contents -> {"absent", "part", "whole"}]
  /\ pc \in [Writers -> {"idle", "exists", "open", "write"}]
  /\ arg \in [Writers -> Contents \cup {None}]
  /\ returned \subseteq Contents
  /\ torn \subseteq Contents

Quiet == \A w \in Writers : pc[w] = "idle"

\* When nobody is writing, every reference that was given out can be resolved,
\* however many stored the content at once (blob_store.py:36, "Resolve a sha256:...
\* reference back to its raw content").  Two kinds of content are left out, that
\* the code loses: one a write of which was ever cut short, and one with carriage
\* returns, which come back as something else.
Resolvable == Quiet => \A c \in returned \ (torn \cup CarriageReturns) : Verified(c) = c

=============================================================================
