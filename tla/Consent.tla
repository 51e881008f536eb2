-------------------------------- MODULE Consent --------------------------------
(***************************************************************************)
(* What the gate in front of a tool call promises (crates/core/src/        *)
(* adk_tool_adapter.rs, PermissionPrompter), whatever carries the question *)
(* to the user: a call asks once at most, is answered once at most, and    *)
(* executes only on the policy's yes or the user's to this very call.  The *)
(* policy learns a tool only from a call of it that the user allowed for   *)
(* the session.                                                            *)
(***************************************************************************)
CONSTANTS Call, Tool, None

VARIABLES
    gate,    \* "new", "asking", "executing" or "done"
    tool,    \* the tool of a call in flight
    answer,  \* the answer to its question
    by,      \* whose yes it has
    grants   \* tools allowed for the session

consentVars == <<gate, tool, answer, by, grants>>

ConsentInit ==
    /\ gate = [c \in Call |-> "new"] /\ tool = [c \in Call |-> None]
    /\ answer = [c \in Call |-> None] /\ by = [c \in Call |-> "nobody"]
    /\ grants = {}

\* The policy's verdict on a new call, if it is not a denial.
Pass(c, t) ==
    /\ gate[c] = "new" /\ gate' = [gate EXCEPT ![c] = "executing"]
    /\ tool' = [tool EXCEPT ![c] = t] /\ by' = [by EXCEPT ![c] = "policy"]
    /\ UNCHANGED <<answer, grants>>

Ask(c, t) ==
    /\ gate[c] = "new" /\ gate' = [gate EXCEPT ![c] = "asking"]
    /\ tool' = [tool EXCEPT ![c] = t]
    /\ UNCHANGED <<answer, by, grants>>

\* The user's answer, or a denial in the place of one.
Answered(c, g, who) ==
    /\ gate[c] = "asking" /\ answer[c] = None
    /\ answer' = [answer EXCEPT ![c] = g] /\ by' = [by EXCEPT ![c] = who]
    /\ UNCHANGED <<gate, tool, grants>>

Say(c) == Answered(c, "allow", "user") \/ Answered(c, "session", "user")
Refuse(c) == Answered(c, "deny", "nobody")

GoAhead(c) ==
    /\ gate[c] = "asking" /\ answer[c] \in {"allow", "session"}
    /\ gate' = [gate EXCEPT ![c] = "executing"]
    /\ grants' = grants \cup (IF answer[c] = "session" THEN {tool[c]} ELSE {})
    /\ UNCHANGED <<tool, answer, by>>

\* Calls return, are denied, or are dropped with the run that made them.
End(S) ==
    /\ gate' = [c \in Call |-> IF c \in S THEN "done" ELSE gate[c]]
    /\ tool' = [c \in Call |-> IF c \in S THEN None ELSE tool[c]]
    /\ answer' = [c \in Call |-> IF c \in S THEN None ELSE answer[c]]
    /\ by' = [c \in Call |-> IF c \in S THEN "nobody" ELSE by[c]]
    /\ UNCHANGED grants

ConsentNext ==
    \/ \E c \in Call : (\E t \in Tool : Pass(c, t) \/ Ask(c, t)) \/ Say(c) \/ Refuse(c) \/ GoAhead(c)
    \/ \E S \in SUBSET Call : End(S)

ConsentSpec == ConsentInit /\ [][ConsentNext]_consentVars
================================================================================
