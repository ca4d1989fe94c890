---------------------------- MODULE MCImportRuns ----------------------------
(***************************************************************************)
(* Two imports, in containers or not, at once or one after the other; or   *)
(* one of them and the built-in agent.  The variable is the task that is   *)
(* fed to the agent's stdin.                                               *)
(***************************************************************************)
EXTENDS ImportRuns

CONSTANTS i1, i2, h, task

TwoImports == {i1, i2}
OneHosted  == {h}
OneName    == {task}

SomeSettings ==
  [docker : BOOLEAN, serial : BOOLEAN, requests : {{i1, i2}, {i1, h}}]

=============================================================================
