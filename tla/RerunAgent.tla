----------------------------- MODULE RerunAgent -----------------------------
(***************************************************************************)
(* A recorded agent that is run again against a Replayer.  It issues every *)
(* request of the tape exactly once, in the recorded order or, when model  *)
(* steps or parallel tools are reordered, in any order.  The protocol is   *)
(* the hook its driver uses: the blob hash, the request identity           *)
(* (record_session.replay_run, http_proxy.ReplayAddon) or the sequential   *)
(* cursor (replay_adapter.StoreReplayEngine.replay).  An agent that does   *)
(* not repeat its run, and mixes the hooks, makes any calls at all.        *)
(***************************************************************************)
EXTENDS Replayer

VARIABLES
  protocol,  \* the lookup path the agent's driver uses
  inOrder,   \* whether it repeats its requests in the recorded order
  asked      \* positions whose request has been issued again

agentVars == <<vars, protocol, inOrder, asked>>

AgentInit ==
  /\ Init
  /\ protocol \in {"hash", "ident", "next", "any"}
  /\ inOrder \in BOOLEAN
  /\ protocol = "any" => ~inOrder
  /\ asked = {}

\* The request of position p.  A step without a request blob or identity (a
\* model call recorded through the SDK hook has no identity) is not asked for.
Request(p) ==
  \/ /\ protocol = "hash"
     /\ Tape[p].key # None
     /\ GetResponseForHash(Tape[p].key, None)
  \/ /\ protocol = "ident"
     /\ Tape[p].ident # None
     /\ ResponseFor(Tape[p].ident)
  \/ /\ protocol = "next"
     /\ GetNextResponse(Tape[p].type)

Ask(p) ==
  /\ p \notin asked
  /\ inOrder => \A q \in 1 .. p - 1 : q \in asked
  /\ Counted
  /\ Request(p)
  /\ asked' = asked \cup {p}
  /\ UNCHANGED <<protocol, inOrder>>

Roam ==
  /\ protocol = "any"
  /\ Next
  /\ UNCHANGED <<protocol, inOrder, asked>>

AgentNext == Roam \/ \E p \in Positions : Ask(p)
AgentSpec == AgentInit /\ [][AgentNext]_agentVars

-----------------------------------------------------------------------------
\* Properties

\* The sequential cursor serves what was recorded to an agent that keeps its
\* order, and of a run that record_over made only the steps up to its fork point.
Faithful == protocol = "next" => inOrder /\ \A p \in Positions : ~Downstream(p)

\* Deterministic replay (README section 1): an agent that repeats its recorded
\* requests in order is handed, for each of them, the very step that it
\* produced when it was recorded.
SameTrajectory ==
  [][inOrder /\ Faithful => \A p \in Positions : Ask(p) => answer'.pos = p]_agentVars

\* Order independence (replay.py:13-14, "robust against LLM step reordering"):
\* no repeated request misses the tape, whatever the order unless the driver
\* plays the tape sequentially.
NeverMisses == asked # {} /\ Faithful => answer.pos # 0

Repeated == asked = Positions /\ Faithful

\* The replay meets exactly the failures that were recorded, whether they are
\* shown to the agent or suppressed (error_step_mode, error_step_count; by
\* identity nothing is counted).
FailuresReproduced ==
  Repeated /\ protocol # "ident" =>
    errors = Cardinality({p \in Positions : Tape[p].failed})

\* A complete repetition used up the tape and is reported as complete
\* (replay.py:406-409); by identity the report does not keep this promise.
CompleteReport ==
  Repeated => /\ \A p \in Positions : Replayed(p)
              /\ Cardinality(given) = Len(Tape)
              /\ protocol # "ident" => FinishStatus # "incomplete"

=============================================================================
