------------------------- MODULE MCRecordingSession -------------------------
(***************************************************************************)
(* One branch recorded by the hooks, two branches recorded by the hooks,   *)
(* or two branches recorded by hooks and proxy at once; each model         *)
(* response asks for up to two tool calls.                                 *)
(***************************************************************************)
EXTENDS RecordingSession, TLC

CONSTANTS b1, b2, c1, c2

MCBranches == {b1, b2}
MCSlots    == {c1, c2}

Mode(proxied, readable, branches, limit) ==
  [proxied |-> proxied, readable |-> readable, branches |-> branches, limit |-> limit]

MCModes ==
  {Mode(FALSE, TRUE, {b1}, 6), Mode(FALSE, FALSE, {b1}, 3),
   Mode(FALSE, TRUE, {b1, b2}, 3), Mode(TRUE, TRUE, {b1, b2}, 3)}

\* The tool calls of one response are interchangeable.
Symmetry == Permutations(Slots)

=============================================================================
