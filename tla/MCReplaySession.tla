-------------------------- MODULE MCReplaySession --------------------------
(***************************************************************************)
(* Tapes that mix proxied and native calls, with repeated identities, side *)
(* effects, missing blobs and steps without an identity, and the agents    *)
(* that behave differently on them.                                        *)
(***************************************************************************)
EXTENDS ReplaySession

CONSTANTS h1, h2, s1, s2, t1, t2

MCHttp    == {h1, h2}
MCSdk     == {s1, s2}
MCThreads == {t1, t2}

Agent(faithful, proxied, plain) ==
  [faithful |-> faithful, proxied |-> proxied, plain |-> plain]

MCAgents == {Agent(TRUE, TRUE, FALSE), Agent(FALSE, FALSE, FALSE), Agent(FALSE, TRUE, TRUE)}
MCCareless == {Agent(FALSE, TRUE, FALSE)}

Step(i, effect) == [ident |-> i, effect |-> effect, readable |-> TRUE]

Kinds == {Step(i, i \in {h2, s2}) : i \in HttpIdents \cup SdkIdents}

\* Tapes of three steps: one of them may be unreadable, or have no identity
\* (a model call that the SDK hook recorded).
MCTapes ==
  LET Whole == [1 .. 3 -> Kinds]
  IN Whole
     \cup {[s EXCEPT ![n].readable = FALSE] : s \in Whole, n \in 1 .. 3}
     \cup {[s EXCEPT ![n].ident = None] : s \in Whole, n \in 1 .. 3}

=============================================================================
