---------------------------- MODULE MCRecordOver ----------------------------
(***************************************************************************)
(* The incident agent (agent/ops_incident_agent.py), cut down to a model   *)
(* call, the decision, and the final check, which reads the variable too.  *)
(***************************************************************************)
EXTENDS RecordOver

CONSTANTS t1, t2, high, low, call_model, assess_severity, verify_resolution

TwoThreads == {t1, t2}
MCValues == {high, low}
MCHooked == <<call_model, assess_severity, verify_resolution>>
MCScript == <<call_model, assess_severity, call_model, verify_resolution>>
MCReads == {assess_severity, verify_resolution}

=============================================================================
