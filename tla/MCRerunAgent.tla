---------------------------- MODULE MCRerunAgent ----------------------------
(***************************************************************************)
(* Small tapes, by where they come from: recorded through the proxy (an    *)
(* identity on every step) or the SDK hooks (none on a model call), forked *)
(* by Divergence.fork (steps up to the fork and its parallel siblings), or *)
(* re-run live by run_agent.record_over (the whole run, marked as a fork). *)
(* Tool calls repeat, drift in a volatile field (new blob, same identity), *)
(* fail, have effects, run in parallel, or have lost their blob.           *)
(***************************************************************************)
EXTENDS RerunAgent

CONSTANTS k1, k2, k3, i1, i2, i3, g1, g2, t1, t2

MCKeys   == {k1, k2, k3}
MCIdents == {i1, i2, i3}
MCGroups == {g1, g2}
MCTools  == {t1, t2}

Step(type, key, ident, tool) ==
  [id |-> 1, type |-> type, key |-> key, ident |-> ident, group |-> None,
   tool |-> tool, effect |-> FALSE, failed |-> FALSE, payload |-> "json"]

HttpLlm  == Step("llm_call", k1, i1, None)
SdkLlm   == Step("llm_call", k1, None, None)
Get      == Step("tool_call", k2, i2, t1)
Drifted  == Step("tool_call", k3, i2, t1)
Pay      == [Step("tool_call", k2, i3, t2) EXCEPT !.effect = TRUE]
Failing  == [Get EXCEPT !.failed = TRUE, !.payload = "text"]
LostBlob == [Get EXCEPT !.payload = "missing"]
InGroup(s, g) == [s EXCEPT !.group = g]

Number(seq) == [n \in 1 .. Len(seq) |-> [seq[n] EXCEPT !.id = n]]
Recorded(seq) == [steps |-> Number(seq), recordOver |-> FALSE, fork |-> 0]
ForkAt(n, seq) == [steps |-> Number(seq), recordOver |-> TRUE, fork |-> n]

Kinds   == {HttpLlm, SdkLlm, Get, Drifted, Pay, Failing, LostBlob}
Mixing  == {HttpLlm, Get, Drifted, Failing}

MCRecorded ==
  {Recorded(s) : s \in [1 .. 2 -> Kinds]}
  \cup {Recorded(s) : s \in [1 .. 3 -> Mixing]}
  \cup {Recorded(<<Get, Get, HttpLlm, Get>>),
        Recorded(<<Pay, Get, Pay, Failing>>),
        Recorded(<<SdkLlm, InGroup(Get, g1), InGroup(Drifted, g1)>>),
        Recorded(<<InGroup(Get, g1), InGroup(Pay, g1), InGroup(Get, g2)>>)}

\* Divergence.fork: prefix, edited step, siblings of the edited step.
Batches == {<<InGroup(a, g1), InGroup(b, g1)>> : a, b \in Mixing \ {HttpLlm}}
MCForks ==
  {ForkAt(2, <<a, b>>) : a, b \in Mixing}
  \cup {ForkAt(n, <<HttpLlm>> \o batch) : n \in {2, 3}, batch \in Batches}
  \cup {ForkAt(1, <<InGroup(Get, g1), InGroup(Pay, g1)>>)}

\* run_agent.record_over: every step of the live re-run is on the tape.
MCRecordOver == {ForkAt(2, <<SdkLlm, Get, SdkLlm>>)}

MCTapes == MCRecorded \cup MCForks \cup MCRecordOver

=============================================================================
