--------------------------- MODULE MCAgentEvents ---------------------------
(***************************************************************************)
(* Both readers, two events, and up to three faults: enough for a fault    *)
(* while the effects of an earlier one are being undone, and one more on   *)
(* restart.                                                                *)
(***************************************************************************)
EXTENDS AgentEvents

CONSTANTS dns, redirect

MCReaders == {dns, redirect}
=============================================================================
