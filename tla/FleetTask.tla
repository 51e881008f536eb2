------------------------------ MODULE FleetTask ------------------------------
(***************************************************************************)
(* What a dispatcher may rely on of the fleet (crates/federation/src/      *)
(* executor.rs, as CoderExecutor of the orchestrator), whatever is lost,   *)
(* repeated or killed on the way: a task asks for one base, is tried a     *)
(* bounded number of times, and ends once.  A result is announced only     *)
(* when it is there, and what is taken for it was made for this task, on a *)
(* commit that knows its base.  A task may be tried after it has ended.    *)
(***************************************************************************)
EXTENDS Naturals

CONSTANTS Dispatch, Commit, MaxDeliver

VARIABLES
    state,  \* "open", "promised", "taken", or how it ended
    base,   \* the commit a task asks to start from
    asked,  \* tasks the fleet knows of
    tries,  \* how often a task was given to a worker
    made,   \* its result in the store: nothing, or one bundle
    taken   \* the result its dispatcher has: nothing, or one bundle

fleetVars == <<state, base, asked, tries, made, taken>>

FleetInit ==
    /\ state = [d \in Dispatch |-> "open"] /\ base = [d \in Dispatch |-> 0]
    /\ asked = {} /\ tries = [d \in Dispatch |-> 0]
    /\ made = [d \in Dispatch |-> {}] /\ taken = [d \in Dispatch |-> {}]

\* The base is chosen, and chosen again, before the task is handed over.
Choose(d) ==
    /\ state[d] = "open" /\ d \notin asked
    /\ \E c \in Commit : base' = [base EXCEPT ![d] = c]
    /\ UNCHANGED <<state, asked, tries, made, taken>>

\* A dispatcher that is not told so takes its task for lost.
Ask(d) ==
    /\ state[d] = "open" /\ d \notin asked /\ asked' = asked \cup {d}
    /\ \E s \in {"open", "missed"} : state' = [state EXCEPT ![d] = s]
    /\ UNCHANGED <<base, tries, made, taken>>

Try(d) ==
    /\ d \in asked /\ tries[d] < MaxDeliver /\ tries' = [tries EXCEPT ![d] = @ + 1]
    /\ UNCHANGED <<state, base, asked, made, taken>>

\* A repeated try replaces what an earlier one has stored.
Make(d) ==
    /\ tries[d] > 0
    /\ \E on \in Commit : on >= base[d] /\ made' = [made EXCEPT ![d] = {[by |-> d, on |-> on]}]
    /\ UNCHANGED <<state, base, asked, tries, taken>>

Promise(d) ==
    /\ state[d] = "open" /\ made[d] # {} /\ state' = [state EXCEPT ![d] = "promised"]
    /\ UNCHANGED <<base, asked, tries, made, taken>>

Take(d) ==
    /\ state[d] = "promised" /\ made[d] # {} /\ state' = [state EXCEPT ![d] = "taken"]
    /\ taken' = [taken EXCEPT ![d] = made[d]]
    /\ UNCHANGED <<base, asked, tries, made>>

End(d) ==
    /\ \/ /\ state[d] \in {"open", "promised", "taken"}
          /\ \E s \in {"missed", "cancelled"} : state' = [state EXCEPT ![d] = s]
       \/ state[d] = "taken" /\ state' = [state EXCEPT ![d] = "applied"]
    /\ UNCHANGED <<base, asked, tries, made, taken>>

FleetNext ==
    \E d \in Dispatch : Choose(d) \/ Ask(d) \/ Try(d) \/ Make(d) \/ Promise(d) \/ Take(d) \/ End(d)

FleetSpec == FleetInit /\ [][FleetNext]_fleetVars
===============================================================================
