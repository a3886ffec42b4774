---------------------------- MODULE AgentEvents ----------------------------
(***************************************************************************)
(* The life of the agent (module Agent) together with what becomes of the  *)
(* redirect events: the connect hook emits them from the moment it is      *)
(* attached, before there is a reader, until its link is closed, and they  *)
(* stay in the ring buffer of this process until the reader logs them or   *)
(* the process, and the buffer with it, is gone.                           *)
(***************************************************************************)
EXTENDS Agent

CONSTANTS
    RedirectReader,     \* the goroutine of ReadRedirectEvents
    MaxEvents           \* bound: events in a behaviour

ASSUME EventsAssumption ==
    /\ RedirectReader \in Readers
    /\ MaxEvents \in Nat

VARIABLES
    emitted,    \* number of events emitted so far
    pending     \* number of events in redirect_events

ringVars   == <<emitted, pending>>
eventsVars == <<vars, ringVars>>

-----------------------------------------------------------------------------
eventsInit ==
    /\ Init
    /\ emitted = 0
    /\ pending = 0

(* A connection is diverted somewhere on the node. *)
Emit ==
    /\ link = "attached"
    /\ emitted < MaxEvents
    /\ emitted' = emitted + 1
    /\ pending' = pending + 1
    /\ UNCHANGED vars

(* One turn of the loop of ReadRedirectEvents, which goes on until its       *)
(* reader is closed.                                                         *)
LogEvent ==
    /\ rd[RedirectReader] = "reading"
    /\ pending > 0
    /\ pending' = pending - 1
    /\ UNCHANGED <<vars, emitted>>

(* A step of the agent; the ring buffer ends with the process. *)
Ends == pc # "down" /\ pc' = "down"

AgentStep ==
    /\ Next
    /\ pending' = IF Ends THEN 0 ELSE pending
    /\ UNCHANGED emitted

eventsNext == Emit \/ LogEvent \/ AgentStep

(* As in Agent, and the reader is scheduled; no connection has to come. *)
eventsFairness ==
    /\ WF_eventsVars(AgentStep /\ Main)
    /\ \A r \in Readers : WF_eventsVars(AgentStep /\ Reader(r))
    /\ WF_eventsVars(LogEvent)

eventsSpec == eventsInit /\ [][eventsNext]_eventsVars /\ eventsFairness

-----------------------------------------------------------------------------
(* Properties *)

(* A running agent is not mute: whatever is emitted, also before the reader  *)
(* goroutine has opened the buffer, is taken out of it, or the process ends. *)
(* An agent whose reader fails to open does not go on diverting connections  *)
(* in silence.                                                               *)
NeverMute == (pending > 0) ~> (pending = 0)
=============================================================================
