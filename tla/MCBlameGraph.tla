---------------------------- MODULE MCBlameGraph ----------------------------
(***************************************************************************)
(* Every trace of three steps, with circular parents; those with a parent  *)
(* that is not there (4); and every recorded one of four.                  *)
(***************************************************************************)
EXTENDS BlameGraph

Three == 1 .. 3

AnyTraces == [Three -> SUBSET Three]
PartialTraces == [Three -> {{}, {4}, {1, 4}, {2, 3, 4}}]
RecordedTraces ==
  {<<{}, a, b, c>> : a \in SUBSET {1}, b \in SUBSET {1, 2}, c \in SUBSET Three}

MCTraces   == AnyTraces \cup PartialTraces \cup RecordedTraces
MCFailures == {{}, {2, 3}, {2, 4}}
MCFixes    == {{1, 2}, {3}}
MCAsked    == {None, 1}

=============================================================================
