------------------------------ MODULE RemoteCall ------------------------------
(***************************************************************************)
(* What a caller of McpClient::request may rely on (crates/mcp/src/lib.rs) *)
(* over any pipes and any server: a request is served once at most, and    *)
(* returns once at most, with a failure or with what was answered to it.   *)
(* One that failed may have been served, or may yet be.                    *)
(***************************************************************************)
CONSTANTS Req, Text, Failure

VARIABLES
    served,   \* what the server answered to a request: nothing yet, or a text
    outcome   \* what the request returned: nothing yet, a text or a failure

remoteVars == <<served, outcome>>

RemoteInit ==
    /\ served = [q \in Req |-> {}]
    /\ outcome = [q \in Req |-> {}]

Serve(q) ==
    /\ served[q] = {}
    /\ \E text \in Text : served' = [served EXCEPT ![q] = {text}]
    /\ UNCHANGED outcome

Answer(q) ==
    /\ outcome[q] = {} /\ served[q] # {}
    /\ outcome' = [outcome EXCEPT ![q] = served[q]]
    /\ UNCHANGED served

Fail(q) ==
    /\ outcome[q] = {}
    /\ \E f \in Failure : outcome' = [outcome EXCEPT ![q] = {f}]
    /\ UNCHANGED served

RemoteNext == \E q \in Req : Serve(q) \/ Answer(q) \/ Fail(q)

RemoteSpec == RemoteInit /\ [][RemoteNext]_remoteVars
===============================================================================
