------------------------------- MODULE Blame -------------------------------
(***************************************************************************)
(* What a blame graph asserts about a failed run (root_cause.py:1-21): of  *)
(* the steps that fed into the failed one, the earliest whose correction   *)
(* prevents the failure is why it failed, and the verdict is sure when no  *)
(* other step would do.                                                    *)
(***************************************************************************)
EXTENDS Naturals, FiniteSets

CONSTANTS
  None,
  Traces,   \* functions from step ids to causal_parents
  Failures, \* sets of step ids, those with status "error"
  Fixes,    \* sets of steps whose correction prevents the failure
  Asked     \* what the caller names as the failed step, or None

VARIABLES
  trace, failing, fixes, asked,
  verdict   \* None until it is given

vars == <<trace, failing, fixes, asked, verdict>>

Ids == DOMAIN trace
Parents(n) == IF n \in Ids THEN trace[n] ELSE {}

\* Parents that are in the trace, up to any distance: the least set of steps
\* that has the parents of n and the parents of its members.
Closed(C, n) == \A p \in Ids : (p \in Parents(n) \/ \E c \in C : p \in Parents(c)) => p \in C
Causes(n) == {p \in Ids : \A C \in SUBSET Ids : Closed(C, n) => p \in C}

IsLeast(n, S) == n \in S /\ \A m \in S : n <= m
IsGreatest(n, S) == n \in S /\ \A m \in S : m <= n

IsFailedStep(f) ==
  \/ asked # None /\ f = asked
  \/ asked = None /\ IsGreatest(f, failing)
  \/ asked = None /\ failing = {} /\ f = None

\* The steps to be blamed for f.  A run that did not fail has none.
Culprits(f) == IF failing = {} THEN {} ELSE Causes(f) \cap fixes

IsRoot(r, S) == IF S = {} THEN r = None ELSE IsLeast(r, S)

Init ==
  /\ trace \in Traces
  /\ failing \in Failures /\ failing \subseteq Ids
  /\ fixes \in Fixes
  /\ asked \in Asked
  /\ verdict = None

Judge(f, root) ==
  /\ verdict = None
  /\ IsFailedStep(f)
  /\ IF f = None THEN root = None ELSE IsRoot(root, Culprits(f))
  /\ verdict' = [failed |-> f,
                 root   |-> root,
                 sure   |-> f # None /\ \E n \in Culprits(f) : Culprits(f) = {n}]
  /\ UNCHANGED <<trace, failing, fixes, asked>>

Next == \E f \in Ids \cup {asked}, root \in Ids \cup {None} : Judge(f, root)
Spec == Init /\ [][Next]_vars

=============================================================================
