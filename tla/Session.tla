------------------------------- MODULE Session -------------------------------
(***************************************************************************)
(* The TUI's event loop (crates/tui/src/lib.rs) with the tasks it spawns:  *)
(* one per submitted message, an agent turn or a fan-out run.  A turn's    *)
(* tool calls go through the policy (crates/core/src/adk_tool_adapter.rs)  *)
(* and, when it asks, through the turn's prompter to the permission modal. *)
(* Tasks and loop meet in two bounded channels, permission requests and    *)
(* results, and the loop takes whatever is ready in any order.  The        *)
(* transcript and the progress events that fill it are left out.           *)
(*                                                                         *)
(* An abort takes effect at once.  A task may really finish the poll it is *)
(* in, which is the same as being aborted right after it: the task reads   *)
(* nothing the loop writes meanwhile.                                      *)
(***************************************************************************)
EXTENDS Permission, Sequences, SequencesExt

CONSTANTS
    Run,        \* submitted messages
    Tool,
    TierOf,     \* the tier of a tool
    PinOf,      \* its pin, or None
    Allowlist,
    Call,       \* the tool calls there can be: max_iterations bounds a run's
    RunOf,      \* the run a call is made by
    PermCap,    \* capacity of the permission channel, 8
    ResultCap,  \* capacity of the result channel, 8
    FirstMode,  \* [permission] mode
    FanoutMode, \* [fanout] mode
    None

Kind == {"agent", "fanout"}

ASSUME SessionAssumption ==
    /\ TierOf \in [Tool -> Tier] /\ PinOf \in [Tool -> Pin \cup {None}]
    /\ Allowlist \subseteq Tool
    /\ RunOf \in [Call -> Run]
    /\ PermCap \in Nat \ {0} /\ ResultCap \in Nat \ {0}
    /\ FirstMode \in Mode /\ FanoutMode \in Mode
    /\ None \notin Run \cup Call \cup Tool \cup Pin \cup Grant

VARIABLES
    status,   \* app.status; "menu" is the config menu or the setup wizard
    mode,     \* the policy's mode
    grants,   \* the policy's session grants
    handle,   \* the run whose JoinHandle is in run_handle
    pending,  \* the call that waits on pending_permission
    permq,    \* requests in the permission channel
    resultq,  \* results in the result channel
    run,      \* where a run's task stands
    kind,
    call,     \* where a tool call stands
    tool,
    reply,    \* what its oneshot carries
    why,      \* history: who allowed it, the policy or the user
    said      \* history: tools the user allowed for the session

ui == <<status, handle, pending>>
policy == <<mode, grants>>
tasks == <<run, kind, call, tool, reply, why>>
sessionVars == <<ui, policy, permq, resultq, tasks, said>>

Free(t) == t \in Allowlist \cup grants
InFlight == {"locking", "waiting", "executing"}
CallsOf(r) == {c \in Call : RunOf[c] = r}
Busy(r) == {c \in CallsOf(r) : call[c] \in InFlight}
\* The calls of S are over: their futures have returned or are dropped.
Over(S) ==
    /\ call' = [c \in Call |-> IF c \in S THEN "done" ELSE call[c]]
    /\ tool' = [c \in Call |-> IF c \in S THEN None ELSE tool[c]]
    /\ reply' = [c \in Call |-> IF c \in S THEN None ELSE reply[c]]
    /\ why' = [c \in Call |-> IF c \in S THEN "nobody" ELSE why[c]]

SessionTypeOK ==
    /\ status \in {"idle", "working", "asking", "menu"}
    /\ mode \in Mode /\ grants \in SUBSET Tool
    /\ handle \in Run \cup {None}
    /\ pending \in Call \cup {None}
    /\ permq \in Seq(Call) /\ Len(permq) <= PermCap
    /\ resultq \in Seq(Run) /\ Len(resultq) <= ResultCap
    /\ run \in [Run -> {"new", "alive", "ending", "sent", "received", "aborted", "panicked"}]
    /\ kind \in [Run -> Kind]
    /\ call \in [Call -> InFlight \cup {"new", "done"}]
    /\ tool \in [Call -> Tool \cup {None}]
    /\ reply \in [Call -> Grant \cup {None}]
    /\ why \in [Call -> {"policy", "user", "nobody"}]
    /\ said \in SUBSET Tool

Init ==
    /\ status = "idle" /\ mode = FirstMode /\ grants = {}
    /\ handle = None /\ pending = None
    /\ permq = <<>> /\ resultq = <<>>
    /\ run = [r \in Run |-> "new"] /\ kind = [r \in Run |-> "agent"]
    /\ call = [c \in Call |-> "new"] /\ tool = [c \in Call |-> None]
    /\ reply = [c \in Call |-> None] /\ why = [c \in Call |-> "nobody"]
    /\ said = {}

-----------------------------------------------------------------------------
(* Keys and commands.                                                      *)

\* A message while idle spawns its task, of the kind that app.fanout says at
\* this moment: /fanout and the menus flip it whenever nothing runs.  A permission
\* request that is still pending stays.
Submit(r) ==
    /\ status = "idle" /\ run[r] = "new"
    /\ run' = [run EXCEPT ![r] = "alive"]
    /\ \E k \in Kind : kind' = [kind EXCEPT ![r] = k]
    /\ status' = "working" /\ handle' = r
    /\ UNCHANGED <<pending, policy, permq, resultq, call, tool, reply, why, said>>

\* /config and /setup are among the commands that are taken during a run.
OpenMenu ==
    /\ status \in {"idle", "working"} /\ status' = "menu"
    /\ UNCHANGED <<handle, pending, policy, permq, resultq, tasks, said>>

CloseMenu ==
    /\ status = "menu" /\ status' = "idle"
    /\ UNCHANGED <<handle, pending, policy, permq, resultq, tasks, said>>

\* Shift+Tab, whatever is on the screen; the menus have a cycle of their own.
MenuMode(m) == CASE m = "ask" -> "auto" [] m = "auto" -> "yolo"
                 [] m = "yolo" -> "plan" [] m = "plan" -> "ask"
SwitchMode ==
    /\ mode' \in {NextMode(mode)} \cup (IF status = "menu" THEN {MenuMode(mode)} ELSE {})
    /\ UNCHANGED <<grants, ui, permq, resultq, tasks, said>>

\* Esc twice.  Neither the permission channel nor the result channel is
\* drained, and a pending responder stays.
CancelRun ==
    /\ status = "working" /\ status' = "idle"
    /\ handle' = None
    /\ IF handle # None /\ run[handle] \in {"alive", "ending"}
       THEN run' = [run EXCEPT ![handle] = "aborted"] /\ Over(Busy(handle))
       ELSE UNCHANGED <<run, call, tool, reply, why>>
    /\ UNCHANGED <<pending, policy, permq, resultq, kind, said>>

\* y, a, or n in the modal.  An answer to a call that is over goes nowhere.
Answer(g) ==
    /\ status = "asking" /\ status' = "working" /\ pending' = None
    /\ IF pending # None /\ call[pending] = "waiting"
       THEN /\ reply' = [reply EXCEPT ![pending] = g]
            /\ why' = [why EXCEPT ![pending] = IF g = "deny" THEN "nobody" ELSE "user"]
            /\ said' = said \cup (IF g = "session" THEN {tool[pending]} ELSE {})
       ELSE UNCHANGED <<reply, why, said>>
    /\ UNCHANGED <<handle, policy, permq, resultq, run, kind, call, tool>>

-----------------------------------------------------------------------------
(* The other arms of the loop's select.                                    *)

\* A dropped responder read as a yes.
RequestArrivesAllow ==
    /\ permq # <<>> /\ permq' = Tail(permq)
    /\ pending' = Head(permq) /\ status' = "asking"
    /\ IF pending # None /\ call[pending] = "waiting"
       THEN reply' = [reply EXCEPT ![pending] = "allow"] ELSE UNCHANGED reply
    /\ UNCHANGED <<handle, policy, resultq, run, kind, call, tool, why, said>>

\* The responder of the request before is kept alive, and forgotten.
RequestArrivesLeak ==
    /\ permq # <<>> /\ permq' = Tail(permq)
    /\ pending' = Head(permq) /\ status' = "asking"
    /\ UNCHANGED <<handle, policy, resultq, tasks, said>>

\* The modal comes up over whatever is shown.  A responder still pending is
\* dropped, which its call reads as a denial.
RequestArrives ==
    /\ permq # <<>> /\ permq' = Tail(permq)
    /\ pending' = Head(permq) /\ status' = "asking"
    /\ IF pending # None /\ call[pending] = "waiting"
       THEN reply' = [reply EXCEPT ![pending] = "deny"] ELSE UNCHANGED reply
    /\ UNCHANGED <<handle, policy, resultq, run, kind, call, tool, why, said>>

\* A result clears what is pending, but not the modal.
ResultArrivesUnderModal ==
    /\ resultq # <<>> /\ resultq' = Tail(resultq)
    /\ run' = [run EXCEPT ![Head(resultq)] = "received"]
    /\ status' = (IF status = "asking" THEN status ELSE "idle")
    /\ handle' = None /\ pending' = None
    /\ UNCHANGED <<policy, permq, kind, call, tool, reply, why, said>>

\* A result ends "the" run, whichever run it is the result of.
ResultArrives ==
    /\ resultq # <<>> /\ resultq' = Tail(resultq)
    /\ run' = [run EXCEPT ![Head(resultq)] = "received"]
    /\ status' = "idle" /\ handle' = None
    /\ UNCHANGED <<pending, policy, permq, kind, call, tool, reply, why, said>>

-----------------------------------------------------------------------------
(* A run's task.                                                           *)

\* What the policy says to a call of r: a fan-out's coders have a policy of
\* their own, with a ceiling, no pins and no grants.
Verdict(r, t) ==
    IF kind[r] = "fanout" THEN UnderCeiling(TierOf[t], Ceiling(FanoutMode))
    ELSE Decide(PinOf[t], Free(t), Matrix(mode, TierOf[t]))

BeginCall(c, t) ==
    /\ run[RunOf[c]] = "alive" /\ call[c] = "new"
    /\ LET v == Verdict(RunOf[c], t) IN
       IF v = "deny" THEN Over({c})
       ELSE /\ call' = [call EXCEPT ![c] = IF v = "allow" THEN "executing" ELSE "locking"]
            /\ why' = [why EXCEPT ![c] = IF v = "allow" THEN "policy" ELSE "nobody"]
            /\ tool' = [tool EXCEPT ![c] = t]
            /\ UNCHANGED reply
    /\ UNCHANGED <<ui, policy, permq, resultq, run, kind, said>>

\* The request is queued however full the channel is.
ConfirmUnbounded(c) ==
    /\ call[c] = "locking" /\ \A d \in CallsOf(RunOf[c]) : call[d] # "waiting"
    /\ call' = [call EXCEPT ![c] = "waiting"] /\ permq' = Append(permq, c)
    /\ UNCHANGED <<ui, policy, resultq, run, kind, tool, reply, why, said>>

\* The turn's prompter is free: the request is sent, or denied when the
\* channel is full.  The policy is not asked again.
Confirm(c) ==
    /\ call[c] = "locking" /\ \A d \in CallsOf(RunOf[c]) : call[d] # "waiting"
    /\ IF Len(permq) < PermCap
       THEN /\ call' = [call EXCEPT ![c] = "waiting"] /\ permq' = Append(permq, c)
            /\ UNCHANGED <<tool, reply, why>>
       ELSE Over({c}) /\ permq' = permq
    /\ UNCHANGED <<ui, policy, resultq, run, kind, said>>

\* Any yes taken for a yes to the whole session.
ResumeGrants(c) ==
    /\ call[c] = "waiting" /\ reply[c] # None
    /\ IF reply[c] = "deny" THEN Over({c})
       ELSE /\ call' = [call EXCEPT ![c] = "executing"]
            /\ UNCHANGED <<tool, reply, why>>
    /\ grants' = grants \cup (IF reply[c] # "deny" THEN {tool[c]} ELSE {})
    /\ UNCHANGED <<mode, ui, permq, resultq, run, kind, said>>

\* The reply wakes the call; AllowSession is recorded by the call, not the loop.
Resume(c) ==
    /\ call[c] = "waiting" /\ reply[c] # None
    /\ IF reply[c] = "deny" THEN Over({c})
       ELSE /\ call' = [call EXCEPT ![c] = "executing"]
            /\ UNCHANGED <<tool, reply, why>>
    /\ grants' = grants \cup (IF reply[c] = "session" THEN {tool[c]} ELSE {})
    /\ UNCHANGED <<mode, ui, permq, resultq, run, kind, said>>

Return(c) ==
    /\ call[c] = "executing" /\ Over({c})
    /\ UNCHANGED <<ui, policy, permq, resultq, run, kind, said>>

\* The turn has its answer or its error.
Finish(r) ==
    /\ run[r] = "alive" /\ Busy(r) = {}
    /\ run' = [run EXCEPT ![r] = "ending"]
    /\ UNCHANGED <<ui, policy, permq, resultq, kind, call, tool, reply, why, said>>

\* A stream that is read without a time-out.
IdleTimeoutNever(r) == run[r] = "alive" /\ kind[r] = "agent" /\ FALSE /\ UNCHANGED sessionVars

\* Nothing came out of the agent's stream for twice the request time-out.
\* The stream, with the calls in it, is not polled again.
IdleTimeout(r) ==
    /\ run[r] = "alive" /\ kind[r] = "agent"
    /\ run' = [run EXCEPT ![r] = "ending"] /\ Over(Busy(r))
    /\ UNCHANGED <<ui, policy, permq, resultq, kind, said>>

SendResult(r) ==
    /\ run[r] = "ending" /\ Len(resultq) < ResultCap
    /\ run' = [run EXCEPT ![r] = "sent"] /\ resultq' = Append(resultq, r)
    /\ UNCHANGED <<ui, policy, permq, kind, call, tool, reply, why, said>>

\* A panic unwinds the task; the loop keeps a sender of its own, so the
\* result channel does not close.
Panic(r) ==
    /\ run[r] = "alive"
    /\ run' = [run EXCEPT ![r] = "panicked"] /\ Over(Busy(r))
    /\ UNCHANGED <<ui, policy, permq, resultq, kind, said>>

-----------------------------------------------------------------------------
Keys ==
    \/ \E r \in Run : Submit(r)
    \/ OpenMenu \/ CloseMenu \/ SwitchMode \/ CancelRun
    \/ \E g \in Grant : Answer(g)
Loop == RequestArrives \/ ResultArrives
CallStep(c) == (\E t \in Tool : BeginCall(c, t)) \/ Confirm(c) \/ Resume(c) \/ Return(c)
TaskStep(r) == Finish(r) \/ IdleTimeout(r) \/ SendResult(r) \/ Panic(r)

Next == Keys \/ Loop \/ (\E c \in Call : CallStep(c)) \/ (\E r \in Run : TaskStep(r))

Spec == Init /\ [][Next]_sessionVars

\* The loop's select picks among its ready arms at random, so no channel
\* starves.  A turn ends by its iteration limit or its idle time-out; a fan-out
\* run ends (FanoutProtocol) and so do its calls.  The user owes nothing.
FairSpec ==
    /\ Spec
    /\ WF_sessionVars(RequestArrives) /\ WF_sessionVars(ResultArrives)
    /\ \A c \in Call : WF_sessionVars(Return(c))
    /\ \A r \in Run : /\ WF_sessionVars(Finish(r) \/ IdleTimeout(r))
                      /\ WF_sessionVars(SendResult(r))

-----------------------------------------------------------------------------
(* Properties.                                                             *)

\* Gates fail closed: a call executes only if the policy allowed it when it was
\* made, or the user said yes to this very call - not because a request was
\* dropped, replaced, answered late or refused by a full channel.
ConsentedCalls == \A c \in Call : call[c] = "executing" => why[c] # "nobody"

\* A tool is granted for the session only if the user allowed that tool for the
\* session (adk_tool_adapter.rs, AllowSession).
GrantsFromUser == grants \subseteq said

\* Channel, modal and tasks are a gate as Consent promises it, however late an
\* answer is and whatever else the modal shows meanwhile.
Gate == INSTANCE Consent WITH
    gate   <- [c \in Call |-> IF call[c] \in {"locking", "waiting"} THEN "asking" ELSE call[c]],
    answer <- reply,
    by     <- why

ConsentSpec == Gate!ConsentSpec

\* A call that waits for the user is never forgotten: its request is in the
\* channel, or its responder is pending, or it has its reply.
RequestNotLost == \A c \in Call : call[c] = "waiting" =>
    \/ reply[c] # None
    \/ pending = c
    \/ Contains(permq, c)

\* While the modal is up there is a responder its keys can answer.
ModalHasResponder == status = "asking" => pending # None

\* A submitted message is settled whatever the user does or leaves undone, a
\* permission modal included: the loop takes its result, unless the run was
\* stopped or its task panicked.
RunSettles ==
    \A r \in Run : run[r] = "alive" ~> run[r] \in {"received", "aborted", "panicked"}

\* run_handle is the "handle to the in-flight run task so double-Esc can abort
\* it" (tui/src/lib.rs): whatever runs is what it holds.
HandleHoldsTheRun == \A r \in Run : run[r] = "alive" => handle = r

\* "The run task panicked; recover the UI from the stuck Working state."
PanicIsRecovered ==
    \A r \in Run : (run[r] = "panicked" /\ handle = r) ~> status # "working"
=============================================================================
