---------------------------- MODULE SessionProofs ----------------------------
(***************************************************************************)
(* Proofs about Session, for any runs, calls, tools, pins and capacities:  *)
(* a gated call executes only on a yes, grants come from the user, and a   *)
(* call that waits for the user is never forgotten.                        *)
(***************************************************************************)
EXTENDS Session, SequenceTheorems, TLAPS

\* A reply that is a yes was the user's, and a yes to the session was said of
\* the tool.
YesIsTheUsers == \A c \in Call :
    /\ reply[c] \in {"allow", "session"} => why[c] = "user"
    /\ reply[c] = "session" => tool[c] \in said

\* A call that is not yet at the prompter has no reply, so that beginning it
\* forgets no yes, and without a reply nobody's yes; a call in flight is a call
\* of some tool.
NoEarlyReply == \A c \in Call :
    /\ call[c] \in {"new", "locking"} => reply[c] = None
    /\ call[c] \in {"new", "locking", "waiting"} /\ reply[c] = None => why[c] = "nobody"
    /\ call[c] \in InFlight => tool[c] \in Tool

SessionInv ==
    /\ SessionTypeOK
    /\ YesIsTheUsers /\ NoEarlyReply /\ ConsentedCalls
    /\ GrantsFromUser
    /\ RequestNotLost /\ ModalHasResponder

LEMMA Words ==
    /\ None \notin Run /\ None \notin Call /\ None \notin Tool /\ None \notin Grant
    /\ \A c \in Call : RunOf[c] \in Run /\ RunOf[c] # None
    /\ PermCap \in Nat /\ PermCap >= 1 /\ ResultCap \in Nat /\ ResultCap >= 1
    /\ FirstMode \in Mode
    /\ \A r \in Run : CallsOf(r) \subseteq Call /\ Busy(r) \subseteq Call
  BY SessionAssumption DEF CallsOf, Busy

\* Ending calls keeps the types, and every invariant about calls: a call that
\* is over neither waits nor executes and has no reply.
LEMMA OverTypes ==
    ASSUME SessionTypeOK, NEW S \in SUBSET Call, Over(S)
    PROVE  /\ call' \in [Call -> InFlight \cup {"new", "done"}]
           /\ tool' \in [Call -> Tool \cup {None}]
           /\ reply' \in [Call -> Grant \cup {None}]
           /\ why' \in [Call -> {"policy", "user", "nobody"}]
  BY DEF Over, SessionTypeOK, InFlight

LEMMA OverKeeps ==
    ASSUME SessionInv, NEW S \in SUBSET Call, Over(S), UNCHANGED <<said, pending, permq>>
    PROVE  YesIsTheUsers' /\ NoEarlyReply' /\ ConsentedCalls' /\ RequestNotLost'
<1> USE Words
<1>0. \A c \in Call : /\ c \in S => call'[c] = "done" /\ reply'[c] = None
                      /\ c \notin S => /\ call'[c] = call[c] /\ reply'[c] = reply[c]
                                       /\ why'[c] = why[c] /\ tool'[c] = tool[c]
  BY DEF Over
<1>1. YesIsTheUsers'
  BY <1>0, SessionAssumption DEF SessionInv, YesIsTheUsers, Grant
<1>2. NoEarlyReply'
  BY <1>0 DEF SessionInv, NoEarlyReply, InFlight
<1>3. ConsentedCalls'
  BY <1>0 DEF SessionInv, ConsentedCalls
<1>4. RequestNotLost'
  BY <1>0 DEF SessionInv, RequestNotLost, Contains
<1> QED
  BY <1>1, <1>2, <1>3, <1>4

\* A call in the channel is at its head or in its tail.
LEMMA HeadOrTail ==
    ASSUME permq \in Seq(Call), permq # <<>>, NEW c, Contains(permq, c)
    PROVE  c = Head(permq) \/ Contains(Tail(permq), c)
<1>1. PICK i \in 1..Len(permq) : permq[i] = c
  BY DEF Contains
<1>2. CASE i = 1
  BY <1>1, <1>2
<1>3. CASE i # 1
  <2>1. i - 1 \in 1..Len(Tail(permq)) /\ Tail(permq)[i - 1] = c
    BY <1>1, <1>3, HeadTailProperties
  <2> QED
    BY <2>1 DEF Contains
<1> QED
  BY <1>2, <1>3

LEMMA SessionInitially == Init => SessionInv
<1> SUFFICES ASSUME Init PROVE SessionInv
  OBVIOUS
<1> USE Words DEF Init
<1>1. SessionTypeOK
  BY DEF SessionTypeOK, InFlight, Kind
<1>2. YesIsTheUsers /\ NoEarlyReply /\ ConsentedCalls /\ RequestNotLost
  BY SessionAssumption DEF YesIsTheUsers, NoEarlyReply, ConsentedCalls, RequestNotLost, Grant, InFlight
<1>3. GrantsFromUser /\ ModalHasResponder
  BY DEF GrantsFromUser, ModalHasResponder
<1> QED
  BY <1>1, <1>2, <1>3 DEF SessionInv

-------------------------------------------------------------------------------
(* The keys.                                                               *)

LEMMA SubmitKeeps == ASSUME SessionInv, NEW r \in Run, Submit(r) PROVE SessionInv'
<1> USE Words DEF Submit, SessionInv, policy
<1>1. SessionTypeOK'
  BY DEF SessionTypeOK, Kind
<1>2. YesIsTheUsers' /\ NoEarlyReply' /\ ConsentedCalls' /\ RequestNotLost'
  BY DEF YesIsTheUsers, NoEarlyReply, ConsentedCalls, RequestNotLost
<1>3. GrantsFromUser' /\ ModalHasResponder'
  BY DEF GrantsFromUser, ModalHasResponder
<1> QED
  BY <1>1, <1>2, <1>3

\* The menus and Shift+Tab touch neither a call nor a request.
LEMMA MenuKeeps ==
    ASSUME SessionInv, OpenMenu \/ CloseMenu \/ SwitchMode
    PROVE  SessionInv'
<1> USE Words DEF OpenMenu, CloseMenu, SwitchMode, SessionInv, policy, tasks, ui
<1>1. SessionTypeOK'
  BY DEF SessionTypeOK, NextMode, MenuMode, Mode
<1>2. YesIsTheUsers' /\ NoEarlyReply' /\ ConsentedCalls' /\ RequestNotLost'
  BY DEF YesIsTheUsers, NoEarlyReply, ConsentedCalls, RequestNotLost
<1>3. GrantsFromUser' /\ ModalHasResponder'
  BY DEF GrantsFromUser, ModalHasResponder
<1> QED
  BY <1>1, <1>2, <1>3

LEMMA CancelKeeps == ASSUME SessionInv, CancelRun PROVE SessionInv'
<1> USE Words DEF CancelRun, policy
<1>1. CASE handle # None /\ run[handle] \in {"alive", "ending"}
  <2>1. handle \in Run /\ Busy(handle) \in SUBSET Call /\ Over(Busy(handle))
    BY <1>1 DEF SessionInv, SessionTypeOK
  <2>2. SessionTypeOK'
    BY <1>1, <2>1, OverTypes DEF SessionInv, SessionTypeOK
  <2>3. YesIsTheUsers' /\ NoEarlyReply' /\ ConsentedCalls' /\ RequestNotLost'
    BY <2>1, OverKeeps
  <2>4. GrantsFromUser' /\ ModalHasResponder'
    BY DEF SessionInv, GrantsFromUser, ModalHasResponder
  <2> QED
    BY <2>2, <2>3, <2>4 DEF SessionInv
<1>2. CASE ~(handle # None /\ run[handle] \in {"alive", "ending"})
  <2> USE <1>2 DEF SessionInv
  <2>2. SessionTypeOK'
    BY DEF SessionTypeOK
  <2>3. YesIsTheUsers' /\ NoEarlyReply' /\ ConsentedCalls' /\ RequestNotLost'
    BY DEF YesIsTheUsers, NoEarlyReply, ConsentedCalls, RequestNotLost
  <2>4. GrantsFromUser' /\ ModalHasResponder'
    BY DEF GrantsFromUser, ModalHasResponder
  <2> QED
    BY <2>2, <2>3, <2>4
<1> QED
  BY <1>1, <1>2

\* The answer goes to the call whose responder is pending, and to no other.
LEMMA AnswerKeeps == ASSUME SessionInv, NEW g \in Grant, Answer(g) PROVE SessionInv'
<1> USE Words DEF Answer, SessionInv, policy
<1>1. CASE pending # None /\ call[pending] = "waiting"
  <2>0. pending \in Call
    BY <1>1 DEF SessionTypeOK
  <2>1. \A c \in Call : c # pending => reply'[c] = reply[c] /\ why'[c] = why[c]
    BY <1>1, <2>0 DEF SessionTypeOK
  <2>2. reply'[pending] = g /\ (g # "deny" => why'[pending] = "user")
    BY <1>1, <2>0 DEF SessionTypeOK
  <2>3. SessionTypeOK'
    <3>2. tool[pending] \in Tool
      BY <1>1, <2>0 DEF NoEarlyReply, InFlight
    <3> QED
      BY <1>1, <2>0, <3>2 DEF SessionTypeOK
  <2>4. YesIsTheUsers'
    BY <1>1, <2>0, <2>1, <2>2 DEF YesIsTheUsers
  <2>5. NoEarlyReply' /\ ConsentedCalls'
    BY <1>1, <2>0, <2>1, <2>2 DEF NoEarlyReply, ConsentedCalls
  <2>6. RequestNotLost'
    BY <1>1, <2>0, <2>1, <2>2 DEF RequestNotLost
  <2>7. GrantsFromUser' /\ ModalHasResponder'
    BY <1>1 DEF GrantsFromUser, ModalHasResponder
  <2> QED
    BY <2>3, <2>4, <2>5, <2>6, <2>7
<1>2. CASE ~(pending # None /\ call[pending] = "waiting")
  <2> USE <1>2
  <2>2. SessionTypeOK'
    BY DEF SessionTypeOK
  <2>3. YesIsTheUsers' /\ NoEarlyReply' /\ ConsentedCalls'
    BY DEF YesIsTheUsers, NoEarlyReply, ConsentedCalls
  <2>4. RequestNotLost'
    BY DEF RequestNotLost
  <2>5. GrantsFromUser' /\ ModalHasResponder'
    BY DEF GrantsFromUser, ModalHasResponder
  <2> QED
    BY <2>2, <2>3, <2>4, <2>5
<1> QED
  BY <1>1, <1>2

-------------------------------------------------------------------------------
(* The loop's other arms.                                                  *)

LEMMA RequestKeeps == ASSUME SessionInv, RequestArrives PROVE SessionInv'
<1> USE Words DEF RequestArrives, SessionInv, policy
<1>0. /\ permq \in Seq(Call) /\ Head(permq) \in Call
      /\ Tail(permq) \in Seq(Call) /\ Len(Tail(permq)) <= PermCap
  BY HeadTailProperties DEF SessionTypeOK
<1>1. \A c \in Call : \/ reply'[c] = reply[c]
                      \/ c = pending /\ call[c] = "waiting" /\ reply'[c] = "deny"
  BY DEF SessionTypeOK
<1>2. reply' \in [Call -> Grant \cup {None}]
  BY DEF SessionTypeOK, Grant
<1>3. SessionTypeOK'
  BY <1>0, <1>2 DEF SessionTypeOK
<1>4. YesIsTheUsers' /\ NoEarlyReply' /\ ConsentedCalls'
  BY <1>1 DEF YesIsTheUsers, NoEarlyReply, ConsentedCalls, Grant
<1>5. RequestNotLost'
  <2> SUFFICES ASSUME NEW c \in Call, call[c] = "waiting", reply'[c] = None
               PROVE  c = Head(permq) \/ Contains(Tail(permq), c)
    BY DEF RequestNotLost
  <2>1. reply[c] = None
    BY <1>1, SessionAssumption DEF Grant
  <2>2. c # pending
    BY SessionAssumption DEF SessionTypeOK, Grant
  <2>3. Contains(permq, c)
    BY <2>1, <2>2 DEF RequestNotLost
  <2> QED
    BY <1>0, <2>3, HeadOrTail
<1>6. GrantsFromUser' /\ ModalHasResponder'
  BY <1>0 DEF GrantsFromUser, ModalHasResponder
<1> QED
  BY <1>3, <1>4, <1>5, <1>6

LEMMA ResultKeeps == ASSUME SessionInv, ResultArrives PROVE SessionInv'
<1> USE Words DEF ResultArrives, SessionInv, policy
<1>0. /\ Head(resultq) \in Run
      /\ Tail(resultq) \in Seq(Run) /\ Len(Tail(resultq)) <= ResultCap
  BY HeadTailProperties DEF SessionTypeOK
<1>1. SessionTypeOK'
  BY <1>0 DEF SessionTypeOK
<1>2. YesIsTheUsers' /\ NoEarlyReply' /\ ConsentedCalls' /\ RequestNotLost'
  BY DEF YesIsTheUsers, NoEarlyReply, ConsentedCalls, RequestNotLost
<1>3. GrantsFromUser' /\ ModalHasResponder'
  BY DEF GrantsFromUser, ModalHasResponder
<1> QED
  BY <1>1, <1>2, <1>3

-------------------------------------------------------------------------------
(* A run's task and its calls.                                             *)

\* What a step that only ends calls keeps.
LEMMA EndingKeeps ==
    ASSUME SessionInv, NEW S \in SUBSET Call, Over(S),
           UNCHANGED <<ui, policy, permq, resultq, kind, said>>,
           run' \in [Run -> {"new", "alive", "ending", "sent", "received", "aborted", "panicked"}]
    PROVE  SessionInv'
<1>1. SessionTypeOK'
  BY OverTypes DEF SessionInv, SessionTypeOK, ui, policy
<1>2. YesIsTheUsers' /\ NoEarlyReply' /\ ConsentedCalls' /\ RequestNotLost'
  BY OverKeeps DEF ui
<1>3. GrantsFromUser' /\ ModalHasResponder'
  BY DEF SessionInv, GrantsFromUser, ModalHasResponder, ui, policy
<1> QED
  BY <1>1, <1>2, <1>3 DEF SessionInv

LEMMA BeginKeeps ==
    ASSUME SessionInv, NEW c \in Call, NEW t \in Tool, BeginCall(c, t)
    PROVE  SessionInv'
<1> DEFINE v == Verdict(RunOf[c], t)
<1>1. CASE v = "deny"
  <2>1. {c} \in SUBSET Call /\ Over({c})
    BY <1>1 DEF BeginCall
  <2> QED
    BY <2>1, EndingKeeps DEF BeginCall, SessionInv, SessionTypeOK
<1>2. CASE v # "deny"
  <2> HIDE DEF v
  <2>1. /\ call[c] = "new"
        /\ call' = [call EXCEPT ![c] = IF v = "allow" THEN "executing" ELSE "locking"]
        /\ why' = [why EXCEPT ![c] = IF v = "allow" THEN "policy" ELSE "nobody"]
        /\ tool' = [tool EXCEPT ![c] = t]
        /\ UNCHANGED <<reply, ui, policy, permq, resultq, run, kind, said>>
    BY <1>2 DEF BeginCall, v
  <2> USE <2>1, Words DEF SessionInv, ui, policy
  <2>2. SessionTypeOK'
    BY DEF SessionTypeOK, InFlight
  <2>3. reply[c] = None /\ \A d \in Call : d # c =>
             call'[d] = call[d] /\ why'[d] = why[d] /\ tool'[d] = tool[d]
    BY DEF SessionTypeOK, NoEarlyReply
  <2>4. /\ call'[c] \in {"executing", "locking"} /\ tool'[c] = t
        /\ why'[c] = IF call'[c] = "executing" THEN "policy" ELSE "nobody"
    BY DEF SessionTypeOK
  <2>5. YesIsTheUsers'
    BY <2>3, SessionAssumption DEF YesIsTheUsers, Grant
  <2>6. NoEarlyReply' /\ ConsentedCalls' /\ RequestNotLost'
    BY <2>3, <2>4 DEF NoEarlyReply, ConsentedCalls, RequestNotLost
  <2>7. GrantsFromUser' /\ ModalHasResponder'
    BY DEF GrantsFromUser, ModalHasResponder
  <2> QED
    BY <2>2, <2>5, <2>6, <2>7
<1> QED
  BY <1>1, <1>2

LEMMA ConfirmKeeps == ASSUME SessionInv, NEW c \in Call, Confirm(c) PROVE SessionInv'
<1>1. CASE Len(permq) < PermCap
  <2>1. /\ call[c] = "locking"
        /\ call' = [call EXCEPT ![c] = "waiting"] /\ permq' = Append(permq, c)
        /\ UNCHANGED <<tool, reply, why, ui, policy, resultq, run, kind, said>>
    BY <1>1 DEF Confirm
  <2> USE <2>1, Words DEF SessionInv, ui, policy
  <2>2. permq' \in Seq(Call) /\ Len(permq') = Len(permq) + 1 /\ permq'[Len(permq) + 1] = c
    BY DEF SessionTypeOK
  <2>3. SessionTypeOK'
    BY <1>1, <2>2 DEF SessionTypeOK, InFlight
  <2>4. YesIsTheUsers' /\ NoEarlyReply' /\ ConsentedCalls'
    BY DEF YesIsTheUsers, NoEarlyReply, ConsentedCalls, SessionTypeOK, InFlight
  <2>5. \A d : Contains(permq, d) \/ d = c => Contains(permq', d)
    BY <2>2 DEF Contains, SessionTypeOK
  <2>6. RequestNotLost'
    BY <2>5 DEF RequestNotLost, SessionTypeOK
  <2>7. GrantsFromUser' /\ ModalHasResponder'
    BY DEF GrantsFromUser, ModalHasResponder
  <2> QED
    BY <2>3, <2>4, <2>6, <2>7
<1>2. CASE ~(Len(permq) < PermCap)
  <2>1. Over({c}) /\ permq' = permq
    BY <1>2 DEF Confirm
  <2> QED
    BY <2>1, EndingKeeps DEF Confirm, SessionInv, SessionTypeOK
<1> QED
  BY <1>1, <1>2

\* A woken call executes only on the user's own yes, and grants the tool the
\* user said yes to.
LEMMA ResumeKeeps == ASSUME SessionInv, NEW c \in Call, Resume(c) PROVE SessionInv'
<1> USE Words DEF ui, policy
<1>0. reply[c] \in Grant /\ call[c] = "waiting" /\ tool[c] \in Tool
  BY DEF Resume, SessionInv, SessionTypeOK, NoEarlyReply, InFlight
<1>1. CASE reply[c] = "deny"
  <2>1. Over({c}) /\ grants' = grants
    BY <1>1 DEF Resume
  <2> QED
    BY <2>1, EndingKeeps DEF Resume, SessionInv, SessionTypeOK
<1>2. CASE reply[c] # "deny"
  <2>1. /\ call' = [call EXCEPT ![c] = "executing"]
        /\ grants' = grants \cup (IF reply[c] = "session" THEN {tool[c]} ELSE {})
        /\ UNCHANGED <<tool, reply, why, mode, ui, permq, resultq, run, kind, said>>
    BY <1>2 DEF Resume
  <2> USE <2>1 DEF SessionInv
  <2>2. SessionTypeOK'
    BY <1>0 DEF SessionTypeOK, InFlight
  <2>3. why[c] = "user" /\ (reply[c] = "session" => tool[c] \in said)
    BY <1>0, <1>2 DEF YesIsTheUsers, Grant
  <2>4. YesIsTheUsers'
    BY DEF YesIsTheUsers
  <2>5. NoEarlyReply' /\ ConsentedCalls' /\ RequestNotLost'
    BY <1>0, <2>3 DEF NoEarlyReply, ConsentedCalls, RequestNotLost, SessionTypeOK, InFlight
  <2>6. GrantsFromUser' /\ ModalHasResponder'
    BY <2>3 DEF GrantsFromUser, ModalHasResponder
  <2> QED
    BY <2>2, <2>4, <2>5, <2>6
<1> QED
  BY <1>1, <1>2

LEMMA ReturnKeeps == ASSUME SessionInv, NEW c \in Call, Return(c) PROVE SessionInv'
<1>1. {c} \in SUBSET Call /\ Over({c})
  BY DEF Return
<1> QED
  BY <1>1, EndingKeeps DEF Return, SessionInv, SessionTypeOK

LEMMA EndsKeeps ==
    ASSUME SessionInv, NEW r \in Run, IdleTimeout(r) \/ Panic(r)
    PROVE  SessionInv'
<1>1. Busy(r) \in SUBSET Call /\ Over(Busy(r))
  BY Words DEF IdleTimeout, Panic
<1>2. run' \in [Run -> {"new", "alive", "ending", "sent", "received", "aborted", "panicked"}]
  BY DEF IdleTimeout, Panic, SessionInv, SessionTypeOK
<1> QED
  BY <1>1, <1>2, EndingKeeps DEF IdleTimeout, Panic

LEMMA FinishKeeps ==
    ASSUME SessionInv, NEW r \in Run, Finish(r) \/ SendResult(r)
    PROVE  SessionInv'
<1> USE Words DEF Finish, SendResult, SessionInv, ui, policy
<1>0. resultq' \in Seq(Run) /\ Len(resultq') <= ResultCap
  <2>1. CASE Finish(r)
    BY <2>1 DEF SessionTypeOK
  <2>2. CASE SendResult(r)
    <3>1. resultq \in Seq(Run) /\ Len(resultq) \in Nat /\ Len(resultq) < ResultCap
      BY <2>2 DEF SessionTypeOK
    <3>2. resultq' = Append(resultq, r)
      BY <2>2
    <3> QED
      BY <3>1, <3>2, AppendProperties
  <2> QED
    BY <2>1, <2>2
<1>1. SessionTypeOK'
  BY <1>0 DEF SessionTypeOK
<1>2. YesIsTheUsers' /\ NoEarlyReply' /\ ConsentedCalls' /\ RequestNotLost'
  BY DEF YesIsTheUsers, NoEarlyReply, ConsentedCalls, RequestNotLost
<1>3. GrantsFromUser' /\ ModalHasResponder'
  BY DEF GrantsFromUser, ModalHasResponder
<1> QED
  BY <1>1, <1>2, <1>3

-------------------------------------------------------------------------------
\* The inductive invariant of the TUI's loop and its tasks, whatever the user
\* does and in whatever order the loop takes what is ready.
THEOREM SessionInvariant == Spec => []SessionInv
<1>1. SessionInv /\ [Next]_sessionVars => SessionInv'
  <2> SUFFICES ASSUME SessionInv, [Next]_sessionVars PROVE SessionInv'
    OBVIOUS
  <2>1. CASE Keys
    BY <2>1, SubmitKeeps, MenuKeeps, CancelKeeps, AnswerKeeps DEF Keys
  <2>2. CASE Loop
    BY <2>2, RequestKeeps, ResultKeeps DEF Loop
  <2>3. CASE \E c \in Call : CallStep(c)
    BY <2>3, BeginKeeps, ConfirmKeeps, ResumeKeeps, ReturnKeeps DEF CallStep
  <2>4. CASE \E r \in Run : TaskStep(r)
    BY <2>4, FinishKeeps, EndsKeeps DEF TaskStep
  <2>5. CASE UNCHANGED sessionVars
    BY <2>5 DEF SessionInv, SessionTypeOK, YesIsTheUsers, NoEarlyReply, ConsentedCalls,
                GrantsFromUser, RequestNotLost, ModalHasResponder, sessionVars, ui, policy, tasks
  <2> QED
    BY <2>1, <2>2, <2>3, <2>4, <2>5 DEF Next
<1> QED
  BY <1>1, SessionInitially, PTL DEF Spec

\* Every variable keeps its type and both channels their capacity.
THEOREM SessionTypes == Spec => []SessionTypeOK
<1>1. SessionInv => SessionTypeOK
  BY DEF SessionInv
<1> QED
  BY <1>1, SessionInvariant, PTL

\* No gated call executes without the policy's or the user's yes to it
\* (adk_tool_adapter.rs and the TUI's prompter fail closed).
THEOREM SessionConsent == Spec => []ConsentedCalls
<1>1. SessionInv => ConsentedCalls
  BY DEF SessionInv
<1> QED
  BY <1>1, SessionInvariant, PTL

\* The session grants are tools the user granted.
THEOREM SessionGrants == Spec => []GrantsFromUser
<1>1. SessionInv => GrantsFromUser
  BY DEF SessionInv
<1> QED
  BY <1>1, SessionInvariant, PTL

\* A call that waits for the user has its request or its responder somewhere.
THEOREM SessionRequests == Spec => []RequestNotLost
<1>1. SessionInv => RequestNotLost
  BY DEF SessionInv
<1> QED
  BY <1>1, SessionInvariant, PTL

\* The modal's keys always have a responder to answer.
THEOREM SessionModal == Spec => []ModalHasResponder
<1>1. SessionInv => ModalHasResponder
  BY DEF SessionInv
<1> QED
  BY <1>1, SessionInvariant, PTL
-------------------------------------------------------------------------------
(* A call is asked about once and answered once: Consent.                  *)

\* A request is in the channel once or its responder is pending, not both, and
\* its call waits without a reply or is over.
Open == {c \in Call : call[c] \in {"waiting", "done"} /\ reply[c] = None}
AskedOnce ==
    /\ \A i, j \in 1..Len(permq) : permq[i] = permq[j] => i = j
    /\ \A i \in 1..Len(permq) : permq[i] # pending /\ permq[i] \in Open
    /\ pending # None => pending \in Open

\* What leaves channel and modal alone, and no open call with a reply.
LEMMA StillAsked ==
    ASSUME AskedOnce, UNCHANGED <<permq, pending>>, Open \subseteq Open'
    PROVE  AskedOnce'
BY DEF AskedOnce

\* Calls that end are open, if only to be forgotten.
LEMMA OverIsOpen ==
    ASSUME NEW S \in SUBSET Call, Over(S)
    PROVE  Open \subseteq Open'
BY DEF Over, Open

LEMMA KeysAsk ==
    ASSUME SessionInv, AskedOnce, Keys
    PROVE  AskedOnce'
<1> USE Words
<1>1. CASE (\E r \in Run : Submit(r)) \/ OpenMenu \/ CloseMenu \/ SwitchMode
  BY <1>1, StillAsked DEF Submit, OpenMenu, CloseMenu, SwitchMode, ui, tasks, Open
<1>2. CASE CancelRun
  <2>1. CASE handle # None /\ run[handle] \in {"alive", "ending"}
    <3>1. Busy(handle) \in SUBSET Call /\ Over(Busy(handle))
      BY <1>2, <2>1 DEF CancelRun, SessionInv, SessionTypeOK
    <3> QED
      BY <1>2, <3>1, OverIsOpen, StillAsked DEF CancelRun
  <2>2. CASE ~(handle # None /\ run[handle] \in {"alive", "ending"})
    BY <1>2, <2>2, StillAsked DEF CancelRun, Open
  <2> QED
    BY <2>1, <2>2
<1>3. CASE \E g \in Grant : Answer(g)
  <2>1. /\ pending' = None /\ permq' = permq /\ call' = call
        /\ \A c \in Call \ {pending} : reply'[c] = reply[c]
    BY <1>3 DEF Answer, SessionInv, SessionTypeOK
  <2>2. \A i \in 1..Len(permq) : permq[i] \in Call \ {pending} /\ permq[i] # None
    BY DEF SessionInv, SessionTypeOK, AskedOnce
  <2>3. \A i \in 1..Len(permq) : permq[i] \in Open'
    BY <2>1, <2>2 DEF AskedOnce, Open
  <2> QED
    BY <2>1, <2>2, <2>3 DEF AskedOnce
<1> QED
  BY <1>1, <1>2, <1>3 DEF Keys

\* The head of the channel goes to the modal, and what the modal held is closed.
LEMMA LoopAsks ==
    ASSUME SessionInv, AskedOnce, Loop
    PROVE  AskedOnce'
<1>1. CASE ResultArrives
  BY <1>1, StillAsked DEF ResultArrives, Open
<1>2. CASE RequestArrives
  <2>1. /\ permq \in Seq(Call) /\ permq # <<>> /\ permq' = Tail(permq) /\ pending' = Head(permq)
        /\ call' = call /\ \A c \in Call \ {pending} : reply'[c] = reply[c]
    BY <1>2 DEF RequestArrives, SessionInv, SessionTypeOK
  <2>2. Len(permq) \in Nat \ {0}
    BY <2>1, EmptySeq
  <2>3. /\ pending' = permq[1] /\ 1 \in 1..Len(permq)
        /\ \A i \in 1..Len(permq') : /\ i \in Nat /\ i + 1 \in 1..Len(permq) /\ i + 1 # 1
                                     /\ permq'[i] = permq[i + 1]
    BY <2>1, <2>2, HeadTailProperties
  <2>4. \A i \in 1..Len(permq) : permq[i] \in Call \ {pending}
    BY <2>1 DEF AskedOnce
  <2>5. \A i \in 1..Len(permq) : permq[i] \in Open'
    BY <2>1, <2>4 DEF AskedOnce, Open
  <2>6. \A i \in 1..Len(permq') : permq'[i] # pending' /\ permq'[i] \in Open'
    BY <2>3, <2>5 DEF AskedOnce
  <2>7. \A i, j \in 1..Len(permq') : permq'[i] = permq'[j] => i = j
    <3> SUFFICES ASSUME NEW i \in 1..Len(permq'), NEW j \in 1..Len(permq'),
                        permq'[i] = permq'[j]
                 PROVE  i = j
      OBVIOUS
    <3>1. i + 1 = j + 1
      BY <2>3 DEF AskedOnce
    <3> QED
      BY <2>3, <3>1
  <2> QED
    BY <2>3, <2>5, <2>6, <2>7 DEF AskedOnce
<1> QED
  BY <1>1, <1>2 DEF Loop

\* Only the prompter sends a request, for a call it has not sent one for.
LEMMA CallAsks ==
    ASSUME SessionInv, AskedOnce, NEW c \in Call, CallStep(c)
    PROVE  AskedOnce'
<1> USE Words
<1>1. CASE UNCHANGED permq
  <2>1. UNCHANGED pending
    BY DEF CallStep, BeginCall, Confirm, Resume, Return, ui
  <2>2. CASE Over({c})
    BY <1>1, <2>1, <2>2, OverIsOpen, StillAsked
  <2>3. CASE /\ \E s : call' = [call EXCEPT ![c] = s]
             /\ reply' = reply /\ (call[c] = "new" \/ reply[c] # None)
    <3>1. Open \subseteq Open'
      BY <2>3 DEF Open, SessionInv, SessionTypeOK
    <3> QED
      BY <1>1, <2>1, <3>1, StillAsked
  <2> QED
    <3>1. permq' # Append(permq, c)
      BY <1>1, AppendProperties DEF SessionInv, SessionTypeOK
    <3> QED
      BY <2>2, <2>3, <3>1 DEF CallStep, BeginCall, Confirm, Resume, Return
<1>2. CASE /\ call[c] = "locking" /\ call' = [call EXCEPT ![c] = "waiting"]
           /\ permq' = Append(permq, c) /\ UNCHANGED <<reply, pending>>
  <2>1. reply[c] = None /\ c \notin Open /\ c \in Open' /\ Open \subseteq Open'
    BY <1>2 DEF SessionInv, SessionTypeOK, NoEarlyReply, Open
  <2>2. /\ Len(permq) \in Nat /\ Len(permq') = Len(permq) + 1 /\ permq'[Len(permq) + 1] = c
        /\ \A i \in 1..Len(permq) : permq'[i] = permq[i]
        /\ \A i \in 1..Len(permq') : i \in 1..Len(permq) \/ i = Len(permq) + 1
    BY <1>2 DEF SessionInv, SessionTypeOK
  <2>3. c # pending /\ \A i \in 1..Len(permq) : permq[i] # c
    BY <2>1 DEF AskedOnce
  <2> QED
    BY <1>2, <2>1, <2>2, <2>3 DEF AskedOnce
<1> QED
  BY <1>1, <1>2 DEF CallStep, BeginCall, Confirm, Resume, Return, ui

LEMMA TaskAsks ==
    ASSUME SessionInv, AskedOnce, NEW r \in Run, TaskStep(r)
    PROVE  AskedOnce'
<1>1. CASE IdleTimeout(r) \/ Panic(r)
  <2>1. Busy(r) \in SUBSET Call /\ Over(Busy(r)) /\ UNCHANGED <<permq, pending>>
    BY <1>1, Words DEF IdleTimeout, Panic, ui
  <2> QED
    BY <2>1, OverIsOpen, StillAsked
<1>2. CASE Finish(r) \/ SendResult(r)
  BY <1>2, StillAsked DEF Finish, SendResult, ui, Open
<1> QED
  BY <1>1, <1>2 DEF TaskStep

LEMMA AskedStep == SessionInv /\ AskedOnce /\ [Next]_sessionVars => AskedOnce'
<1> SUFFICES ASSUME SessionInv, AskedOnce, [Next]_sessionVars PROVE AskedOnce'
  OBVIOUS
<1>1. CASE UNCHANGED sessionVars
  BY <1>1, StillAsked DEF sessionVars, ui, tasks, Open
<1> QED
  BY <1>1, KeysAsk, LoopAsks, CallAsks, TaskAsks DEF Next

\* Where a call stands, as Consent is told.
Stage == [c \in Call |-> IF call[c] \in {"locking", "waiting"} THEN "asking" ELSE call[c]]

\* A step that touches nothing a call is made of is none of Consent's.
LEMMA Elsewhere ==
    ASSUME UNCHANGED <<call, tool, reply, why, grants>>
    PROVE  UNCHANGED Gate!consentVars
BY DEF Gate!consentVars

\* Calls that are over have ended.
LEMMA OverIsEnd ==
    ASSUME NEW S \in SUBSET Call, Over(S), UNCHANGED grants
    PROVE  Gate!ConsentNext
<1>1. Stage' = [c \in Call |-> IF c \in S THEN "done" ELSE Stage[c]]
  BY DEF Over, Stage
<1>2. Gate!End(S)
  BY <1>1 DEF Over, Gate!End, Stage
<1> QED
  BY <1>2 DEF Gate!ConsentNext

LEMMA KeysAreGate ==
    ASSUME SessionInv, AskedOnce, Keys
    PROVE  [Gate!ConsentNext]_Gate!consentVars
<1> USE Words DEF policy, tasks
<1>1. CASE (\E r \in Run : Submit(r)) \/ OpenMenu \/ CloseMenu \/ SwitchMode
  BY <1>1, Elsewhere DEF Submit, OpenMenu, CloseMenu, SwitchMode
<1>2. CASE CancelRun
  <2>1. CASE handle # None /\ run[handle] \in {"alive", "ending"}
    <3>1. Busy(handle) \in SUBSET Call /\ Over(Busy(handle))
      BY <1>2, <2>1 DEF CancelRun, SessionInv, SessionTypeOK
    <3> QED
      BY <1>2, <3>1, OverIsEnd DEF CancelRun
  <2>2. CASE ~(handle # None /\ run[handle] \in {"alive", "ending"})
    BY <1>2, <2>2, Elsewhere DEF CancelRun
  <2> QED
    BY <2>1, <2>2
<1>3. CASE \E g \in Grant : Answer(g)
  <2>1. PICK g \in Grant : Answer(g)
    BY <1>3
  <2>2. CASE pending # None /\ call[pending] = "waiting"
    <3>1. pending \in Call /\ reply[pending] = None /\ Stage[pending] = "asking"
      BY <2>2 DEF AskedOnce, Open, Stage
    <3>2. Gate!Answered(pending, g, IF g = "deny" THEN "nobody" ELSE "user")
      BY <2>1, <2>2, <3>1 DEF Answer, Gate!Answered, Stage
    <3>3. Gate!Say(pending) \/ Gate!Refuse(pending)
      BY <3>2 DEF Gate!Say, Gate!Refuse, Grant
    <3> QED
      BY <3>1, <3>3 DEF Gate!ConsentNext
  <2>3. CASE ~(pending # None /\ call[pending] = "waiting")
    BY <2>1, <2>3, Elsewhere DEF Answer
  <2> QED
    BY <2>2, <2>3
<1> QED
  BY <1>1, <1>2, <1>3 DEF Keys

\* A request that replaces the one in the modal denies it.
LEMMA LoopIsGate ==
    ASSUME SessionInv, AskedOnce, Loop
    PROVE  [Gate!ConsentNext]_Gate!consentVars
<1> USE Words DEF policy
<1>1. CASE ResultArrives
  BY <1>1, Elsewhere DEF ResultArrives
<1>2. CASE RequestArrives
  <2>1. CASE pending # None /\ call[pending] = "waiting"
    <3>1. pending \in Call /\ reply[pending] = None /\ Stage[pending] = "asking"
      BY <2>1 DEF AskedOnce, Open, Stage
    <3>2. why' = [why EXCEPT ![pending] = "nobody"]
      BY <1>2, <2>1, <3>1 DEF RequestArrives, SessionInv, SessionTypeOK, NoEarlyReply
    <3>3. Gate!Refuse(pending)
      BY <1>2, <2>1, <3>1, <3>2 DEF RequestArrives, Gate!Refuse, Gate!Answered, Stage
    <3> QED
      BY <3>1, <3>3 DEF Gate!ConsentNext
  <2>2. CASE ~(pending # None /\ call[pending] = "waiting")
    BY <1>2, <2>2, Elsewhere DEF RequestArrives
  <2> QED
    BY <2>1, <2>2
<1> QED
  BY <1>1, <1>2 DEF Loop

LEMMA CallIsGate ==
    ASSUME SessionInv, NEW c \in Call, CallStep(c)
    PROVE  [Gate!ConsentNext]_Gate!consentVars
<1> USE Words DEF policy
<1>1. CASE Over({c}) /\ grants' = grants
  BY <1>1, OverIsEnd
<1>2. CASE \E t \in Tool : BeginCall(c, t) /\ ~Over({c})
  <2>1. PICK t \in Tool : BeginCall(c, t) /\ ~Over({c})
    BY <1>2
  <2> DEFINE v == Verdict(RunOf[c], t)
  <2> HIDE DEF v
  <2>2. /\ call[c] = "new" /\ v # "deny"
        /\ call' = [call EXCEPT ![c] = IF v = "allow" THEN "executing" ELSE "locking"]
        /\ why' = [why EXCEPT ![c] = IF v = "allow" THEN "policy" ELSE "nobody"]
        /\ tool' = [tool EXCEPT ![c] = t] /\ UNCHANGED <<reply, grants>>
    BY <2>1 DEF BeginCall, v
  <2>3. CASE v = "allow"
    <3>1. Gate!Pass(c, t)
      BY <2>2, <2>3 DEF Gate!Pass, SessionInv, SessionTypeOK
    <3> QED
      BY <3>1 DEF Gate!ConsentNext
  <2>4. CASE v # "allow"
    <3>1. Gate!Ask(c, t)
      BY <2>2, <2>4 DEF Gate!Ask, SessionInv, SessionTypeOK, NoEarlyReply
    <3> QED
      BY <3>1 DEF Gate!ConsentNext
  <2> QED
    BY <2>3, <2>4
<1>3. CASE Confirm(c) /\ ~Over({c})
  <2>1. Stage' = Stage /\ UNCHANGED <<tool, reply, why, grants>>
    BY <1>3 DEF Confirm, Stage, SessionInv, SessionTypeOK
  <2> QED
    BY <2>1 DEF Gate!consentVars, Stage
<1>4. CASE Resume(c) /\ ~(Over({c}) /\ grants' = grants)
  <2>1. /\ reply[c] \in {"allow", "session"} /\ call[c] = "waiting"
        /\ call' = [call EXCEPT ![c] = "executing"]
        /\ grants' = grants \cup (IF reply[c] = "session" THEN {tool[c]} ELSE {})
        /\ UNCHANGED <<tool, reply, why>>
    BY <1>4 DEF Resume, SessionInv, SessionTypeOK, Grant
  <2>2. Gate!GoAhead(c)
    BY <2>1 DEF Gate!GoAhead, SessionInv, SessionTypeOK
  <2> QED
    BY <2>2 DEF Gate!ConsentNext
<1> QED
  BY <1>1, <1>2, <1>3, <1>4 DEF CallStep, BeginCall, Confirm, Return

LEMMA TaskIsGate ==
    ASSUME SessionInv, NEW r \in Run, TaskStep(r)
    PROVE  [Gate!ConsentNext]_Gate!consentVars
<1>1. CASE IdleTimeout(r) \/ Panic(r)
  <2>1. Busy(r) \in SUBSET Call /\ Over(Busy(r)) /\ UNCHANGED grants
    BY <1>1, Words DEF IdleTimeout, Panic, policy
  <2> QED
    BY <2>1, OverIsEnd
<1>2. CASE Finish(r) \/ SendResult(r)
  BY <1>2, Elsewhere DEF Finish, SendResult, policy
<1> QED
  BY <1>1, <1>2 DEF TaskStep

\* Channels, modal, runs and their ends implement the gate: a call is asked about
\* and answered at most once, a late answer reaches no other call, and a tool
\* is granted by a call of it.  The inductive invariant is needed for that: the
\* modal may hold the responder of a call that is over, or was asked before.
THEOREM SessionIsGate == Spec => ConsentSpec
<1>1. Init => AskedOnce /\ Gate!ConsentInit
  BY DEF Init, AskedOnce, Gate!ConsentInit
<1>2. SessionInv /\ AskedOnce /\ [Next]_sessionVars => [Gate!ConsentNext]_Gate!consentVars
  <2> SUFFICES ASSUME SessionInv, AskedOnce, [Next]_sessionVars
               PROVE  [Gate!ConsentNext]_Gate!consentVars
    OBVIOUS
  <2>1. CASE UNCHANGED sessionVars
    BY <2>1, Elsewhere DEF sessionVars, policy, tasks
  <2> QED
    BY <2>1, KeysAreGate, LoopIsGate, CallIsGate, TaskIsGate DEF Next
<1> QED
  BY <1>1, <1>2, AskedStep, SessionInvariant, PTL DEF Spec, ConsentSpec, Gate!ConsentSpec

\* A request is in the channel or in the modal, once, and its call waits for it.
THEOREM SessionAsksOnce == Spec => []AskedOnce
<1>1. Init => AskedOnce
  BY DEF Init, AskedOnce
<1> QED
  BY <1>1, AskedStep, SessionInvariant, PTL DEF Spec
===============================================================================
