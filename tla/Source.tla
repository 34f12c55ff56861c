------------------------------- MODULE Source -------------------------------
(***************************************************************************)
(* A URL from POST /jobs to its dashboard: Preflight refuses it or accepts *)
(* it, and an attempt of the worker describes the file it accepted.        *)
(***************************************************************************)
EXTENDS Preflight, Dashboard

vars == <<preflightVars, dashboardVars>>

Init == PreflightInit /\ DashboardInit

\* create_job: the job is stored only when validate_source_url returns Ok.
Attempt == verdict = "accepted" /\ DashboardNext

Next ==
    \/ PreflightNext /\ UNCHANGED dashboardVars
    \/ Attempt /\ UNCHANGED preflightVars

Spec == Init /\ [][Next]_vars

\* The variables of both checks have their types.
SourceTypeOK == PreflightTypeOK /\ DashboardTypeOK
=============================================================================
