-------------------------------- MODULE Peek --------------------------------
(***************************************************************************)
(* How handle (testing/proxy/main.go) finds the host: the first byte of a  *)
(* connection decides whether extractSNI or extractHTTPHost gets it, and a *)
(* connection without a host is closed.  The parser that is not called     *)
(* rests on an empty input.                                                *)
(***************************************************************************)
EXTENDS ClientHello, HttpHost

VARIABLE kind       \* the branch taken

peekVars == <<kind, vars, httpVars>>

NoRecord == [len |-> 0, type |-> 0, hsLen |-> 0, tail |-> <<>>]

-----------------------------------------------------------------------------
(* The first byte is tlsRecordHandshake. *)
IsTLS ==
    /\ kind = "tls"
    /\ Init
    /\ head = <<>> /\ body = <<>> /\ n = 1 /\ st = "done" /\ host = <<>>

(* It is any other. *)
IsHTTP ==
    /\ kind = "http"
    /\ httpInit
    /\ rec = NoRecord /\ at = "done" /\ name = None
    /\ pos = 0 /\ end = 0 /\ limit = 0 /\ seen = 0

peekInit == IsTLS \/ IsHTTP

StepSNI  == Next /\ UNCHANGED <<kind, httpVars>>
StepHTTP == httpNext /\ UNCHANGED <<kind, vars>>

peekNext == StepSNI \/ StepHTTP

(* parseSNI reads what is there; extractHTTPHost waits for the client. *)
peekSpec == peekInit /\ [][peekNext]_peekVars /\ WF_peekVars(StepSNI)
=============================================================================
