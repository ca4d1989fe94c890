----------------------------- MODULE ServerPool -----------------------------
(***************************************************************************)
(* The threads in which the API server serves its requests, one request at *)
(* a time each (api/app.py: its handlers are plain functions, run in the   *)
(* pool of Starlette).                                                     *)
(***************************************************************************)

CONSTANTS
  Threads,    \* of the server's pool
  OneAtATime, \* the clients send a request only after the last was answered
  None        \* an absent value

ASSUME OneAtATimeAssumption == OneAtATime \in BOOLEAN

=============================================================================
