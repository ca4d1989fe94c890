----------------------------- MODULE MCStartup -----------------------------
(***************************************************************************)
(* Two servers and a recorder that stores the content of a bundled blob;   *)
(* two runs to add, one of one step and one of two.  With a web page that  *)
(* has DOS line endings as a second content, see the README.               *)
(***************************************************************************)
EXTENDS Startup

CONSTANTS s1, s2, p, r1, r2, json, page

TwoServers  == {s1, s2}
OneRecorder == {p}
TwoRuns     == {r1, r2}
InOrder     == <<r1, r2>>
OneContent  == {json}
TwoContents == {json, page}
InPage      == {page}
OneBundled  == {json}

StepAt(n)   == [id |-> n, blob |-> json]
TwoSteps    == {StepAt(n) : n \in 1 .. 2}
TheDemo     == [r \in TwoRuns |->
  IF r = r1 THEN [status |-> "error", steps |-> <<StepAt(1)>>]
            ELSE [status |-> "ok", steps |-> <<StepAt(1), StepAt(2)>>]]

=============================================================================
