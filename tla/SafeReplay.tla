----------------------------- MODULE SafeReplay -----------------------------
(***************************************************************************)
(* What a replay promises, whatever carries it out: each recorded step is  *)
(* delivered to the agent at most once, every delivery is counted, nothing *)
(* but recorded steps is delivered, and no call of an agent that can be    *)
(* trusted reaches a live endpoint.  A call that is refused changes        *)
(* nothing here.                                                           *)
(***************************************************************************)
EXTENDS Naturals

VARIABLES
  trusted,    \* the agent keeps to what can be replayed
  recorded,   \* positions of the recorded steps
  delivered,  \* positions whose recorded response the agent has received
  served,     \* the number of responses it has received
  live        \* what was executed outside the tape

Init ==
  /\ trusted \in BOOLEAN
  /\ recorded \subseteq Nat
  /\ delivered = {}
  /\ served = 0
  /\ live = {}

Deliver(p) ==
  /\ p \in recorded \ delivered
  /\ delivered' = delivered \cup {p}
  /\ served' = served + 1
  /\ UNCHANGED <<trusted, recorded, live>>

GoLive ==
  /\ ~trusted
  /\ live \subseteq live'
  /\ UNCHANGED <<trusted, recorded, delivered, served>>

Next == GoLive \/ \E p \in recorded : Deliver(p)
Spec == Init /\ [][Next]_<<trusted, recorded, delivered, served, live>>

=============================================================================
