------------------------------ MODULE MCRepair ------------------------------
(***************************************************************************)
(* Every placement of failures in a run of a batch and a model call, and   *)
(* runs that are forks, have lost a blob, or begin like another one.       *)
(***************************************************************************)
EXTENDS Repair

Step(id, type, failed, group, out) ==
  [id |-> id, type |-> type, failed |-> failed, gone |-> FALSE, group |-> group,
   parents |-> {id - 1} \ {0}, out |-> out]

\* A tool call, a batch of two, and a model call at the end.
Batch(F) ==
  [forkedAt |-> None,
   steps |-> <<Step(1, "tool_call", 1 \in F, None, "a"),
               Step(2, "tool_call", 2 \in F, "g", "b"),
               Step(3, "tool_call", 3 \in F, "g", "b"),
               Step(4, "llm_call", 4 \in F, None, "c")>>]

\* Two model calls and a tool call.
Chain(F, out) ==
  [forkedAt |-> None,
   steps |-> <<Step(1, "llm_call", 1 \in F, None, out),
               Step(2, "tool_call", 2 \in F, None, "a"),
               Step(3, "llm_call", 3 \in F, None, out)>>]

Lost(d, i) == [d EXCEPT !.steps[i].gone = TRUE]
ForkAt(d, k) == [d EXCEPT !.forkedAt = k]

Alone ==
  {Batch(F) : F \in SUBSET (1 .. 4)} \cup
  {Lost(Batch({4}), 2), ForkAt(Batch({4}), 2), ForkAt(Chain({3}, "a"), 2), Lost(ForkAt(Chain({2}, "a"), 1), 3)}
Together == {Chain({}, "a"), Chain({3}, "b"), ForkAt(Chain({2}, "a"), 1)}

MCSettings ==
  [llm : BOOLEAN, shared : {FALSE}, docs : {Alone}] \cup
  [llm : {FALSE}, shared : {TRUE}, docs : {Together}]
MCHints == {{}, {2, 3}}
MCAsked == {None, 3, 5}

=============================================================================
