------------------------------ MODULE MCP2Test ------------------------------
(***************************************************************************)
(* The model-checking instances of the test programs: the phases a run     *)
(* goes through.                                                           *)
(***************************************************************************)
EXTENDS P2Test

MCValues == [thread : Tcb] \cup {nothing, SYNCCODE}

MCPhases == <<"p2", "p4", "p6", "p7", "p8">>
MCPhaseP5 == <<"p5">>
=============================================================================
