------------------------------ MODULE FedWorker ------------------------------
(***************************************************************************)
(* A serving worker: run_serve and process_one of                          *)
(* bin/entheai-worker/src/main.rs on top of the BaseCache.                 *)
(*                                                                         *)
(* One loop takes a permit, claims an item and spawns a task for it; the   *)
(* tasks prepare a worktree (from the cache, or by a full clone when that  *)
(* fails or takes too long), run the coder, clean up, and answer.          *)
(***************************************************************************)
EXTENDS BaseCache

CONSTANT MaxCoders   \* [federation].max_concurrent_coders

ASSUME WorkerAssumption == MaxCoders \in Nat

VARIABLES
    slots,     \* free permits of the semaphore
    loop,      \* the claim loop: holds a permit ("claim") or not ("acquire")
    pc,        \* where the task of an item stands
    source,    \* where its worktree came from
    inflight,  \* the counter behind the presence
    presence   \* what the heartbeat announces

workerVars == <<slots, loop, pc, source, inflight, presence>>
vars == <<cacheVars, workerVars>>

Slots == IF MaxCoders > 1 THEN MaxCoders ELSE 1

\* Tasks in these phases own a permit; those in Counted are in inflight.
Counted == {"announce", "prepare", "attach", "fallback", "code", "release", "uncount"}
Tasked == {"count", "idle", "ack"} \cup Counted

WorkerTypeOK ==
    /\ CacheTypeOK
    /\ slots \in 0..Slots
    /\ loop \in {"acquire", "claim"}
    /\ pc \in [Coder -> {"queued", "done"} \cup Tasked]
    /\ source \in [Coder -> {"none", "cache", "clone"}]
    /\ inflight \in Nat
    /\ presence \in {"Idle", "Working"}

Init ==
    /\ CacheInit
    /\ slots = Slots
    /\ loop = "acquire"
    /\ pc = [j \in Coder |-> "queued"]
    /\ source = [j \in Coder |-> "none"]
    /\ inflight = 0
    /\ presence = "Idle"

Move(j, s) == pc' = [pc EXCEPT ![j] = s]

-------------------------------------------------------------------------------
(* The claim loop.                                                         *)

\* A permit is taken before anything is claimed ...
AcquireSlot ==
    /\ loop = "acquire"
    /\ slots > 0
    /\ slots' = slots - 1
    /\ loop' = "claim"
    /\ UNCHANGED <<cacheVars, pc, source, inflight, presence>>

\* ... and moves into the task of the item ...
Claim(j) ==
    /\ loop = "claim"
    /\ pc[j] = "queued"
    /\ Move(j, "count")
    /\ loop' = "acquire"
    /\ UNCHANGED <<cacheVars, slots, source, inflight, presence>>

\* A loop that asks again without having dropped its permit.
ClaimNothingLeaking ==
    /\ loop = "claim"
    /\ loop' = "acquire"
    /\ UNCHANGED <<cacheVars, slots, pc, source, inflight, presence>>

\* ... or is dropped when nothing was claimed within the 20 s, or in error.
ClaimNothing ==
    /\ loop = "claim"
    /\ slots' = slots + 1
    /\ loop' = "acquire"
    /\ UNCHANGED <<cacheVars, pc, source, inflight, presence>>

-------------------------------------------------------------------------------
(* The task: presence.                                                     *)

Count(j) ==
    /\ pc[j] = "count"
    /\ inflight' = inflight + 1
    /\ Move(j, "announce")
    /\ UNCHANGED <<cacheVars, slots, loop, source, presence>>

Announce(j) ==
    /\ pc[j] = "announce"
    /\ presence' = "Working"
    /\ Move(j, "prepare")
    /\ UNCHANGED <<cacheVars, slots, loop, source, inflight>>

\* A task that goes Idle only if it ran alone from the start.
UncountOffByOne(j) ==
    /\ pc[j] = "uncount"
    /\ inflight' = inflight - 1
    /\ source' = [source EXCEPT ![j] = "none"]
    /\ Move(j, IF inflight' = 1 THEN "idle" ELSE "ack")
    /\ UNCHANGED <<cacheVars, slots, loop, presence>>

\* fetch_sub: the task that brings the counter to zero will announce Idle.
Uncount(j) ==
    /\ pc[j] = "uncount"
    /\ inflight' = inflight - 1
    /\ source' = [source EXCEPT ![j] = "none"]
    /\ Move(j, IF inflight = 1 THEN "idle" ELSE "ack")
    /\ UNCHANGED <<cacheVars, slots, loop, presence>>

AnnounceIdle(j) ==
    /\ pc[j] = "idle"
    /\ presence' = "Idle"
    /\ Move(j, "ack")
    /\ UNCHANGED <<cacheVars, slots, loop, source, inflight>>

-------------------------------------------------------------------------------
(* The task: process_one.                                                  *)

\* prepare_worktree: the cache ... (before it, no temporary directory, no
\* work: process_one ends with an error)
Prepare(j) ==
    /\ pc[j] = "prepare"
    /\ \/ Seek(j) /\ UNCHANGED pc
       \/ step[j] = "held" /\ Move(j, "attach") /\ UNCHANGED cacheVars
       \/ step[j] = "over" /\ Move(j, "fallback") /\ UNCHANGED cacheVars
       \/ step[j] = "check" /\ Move(j, "uncount") /\ UNCHANGED cacheVars
    /\ UNCHANGED <<slots, loop, source, inflight, presence>>

\* ... and `git worktree add` off the bare repository, which gives the hold
\* back when it fails.
Attach(j) ==
    /\ pc[j] = "attach"
    /\ \/ /\ bare[base[j]] = "valid"
          /\ source' = [source EXCEPT ![j] = "cache"]
          /\ Move(j, "code")
          /\ UNCHANGED cacheVars
       \/ /\ Release(j)
          /\ Move(j, "fallback")
          /\ UNCHANGED source
    /\ UNCHANGED <<slots, loop, inflight, presence>>

\* The 20 s deadline on the whole of prepare_worktree.
Deadline(j) ==
    /\ pc[j] \in {"prepare", "attach"}
    /\ Abandon(j)
    /\ Move(j, "fallback")
    /\ UNCHANGED <<slots, loop, source, inflight, presence>>

\* fallback_full_clone; its `?` ends process_one with an error.
Fallback(j) ==
    /\ pc[j] = "fallback"
    /\ \/ /\ source' = [source EXCEPT ![j] = "clone"]
          /\ Move(j, "code")
       \/ /\ Move(j, "uncount")
          /\ UNCHANGED source
    /\ UNCHANGED <<cacheVars, slots, loop, inflight, presence>>

\* The coder runs to its end or its own deadline and its delta is bundled; in
\* error or not, a worktree off the cache is then cleaned up.
RunCoder(j) ==
    /\ pc[j] = "code"
    /\ Move(j, IF source[j] = "cache" THEN "release" ELSE "uncount")
    /\ UNCHANGED <<cacheVars, slots, loop, source, inflight, presence>>

\* A coder whose error returns before the hold is released.
CleanupKeepsHold(j) ==
    /\ pc[j] = "release"
    /\ \/ Release(j)
       \/ UNCHANGED cacheVars
    /\ Move(j, "uncount")
    /\ UNCHANGED <<slots, loop, source, inflight, presence>>

\* remove_worktree, then the hold is released, whatever the coder did.
Cleanup(j) ==
    /\ pc[j] = "release"
    /\ Release(j)
    /\ Move(j, "uncount")
    /\ UNCHANGED <<slots, loop, source, inflight, presence>>

\* An end that adds a permit to the one it drops.
AckAddingPermit(j) ==
    /\ pc[j] = "ack"
    /\ slots' = slots + 2
    /\ Move(j, "done")
    /\ UNCHANGED <<cacheVars, loop, source, inflight, presence>>

\* The result is published, at best, the item is acknowledged, and the permit
\* goes with the task.
Ack(j) ==
    /\ pc[j] = "ack"
    /\ slots' = slots + 1
    /\ Move(j, "done")
    /\ UNCHANGED <<cacheVars, loop, source, inflight, presence>>

Task(j) ==
    \/ Count(j) \/ Announce(j) \/ Prepare(j) \/ Attach(j) \/ Deadline(j) \/ Fallback(j)
    \/ RunCoder(j) \/ Cleanup(j) \/ Uncount(j) \/ AnnounceIdle(j) \/ Ack(j)

Next ==
    \/ AcquireSlot \/ ClaimNothing
    \/ \E j \in Coder : Claim(j) \/ Task(j)
    \/ \E b \in Base : OrphanEnds(b) /\ UNCHANGED workerVars

\* The runtime runs the loop and every task that can take a step, JetStream
\* delivers a queued item to a worker that keeps asking for one, and a coder
\* ends, at the latest at its own deadline.
Fairness ==
    /\ WF_vars(AcquireSlot)
    /\ SF_vars(\E j \in Coder : Claim(j))
    /\ \A j \in Coder : WF_vars(Task(j))

Spec == Init /\ [][Next]_vars
FairSpec == Spec /\ Fairness

-------------------------------------------------------------------------------
\* The worker never runs more coders than it has slots, counts what it runs,
\* and gets every slot back, whether a task committed, failed or fell back.
SlotsConserved ==
    /\ slots + Cardinality({j \in Coder : pc[j] \in Tasked})
             + (IF loop = "claim" THEN 1 ELSE 0) = Slots
    /\ inflight = Cardinality({j \in Coder : pc[j] \in Counted})

\* Once the last coder is through, the heartbeat says Idle: of tasks that end
\* together, one sees the counter at one.
PresenceSettles ==
    (\A j \in Coder : pc[j] \in {"queued", "count", "ack", "done"})
        => presence = "Idle"

\* A coder at work in a worktree off the cache pins its base, and a task that is
\* past its clean-up has no hold any more (process_one: the hold is released in
\* error or not).
HoldsFollowWork ==
    \A j \in Coder :
        /\ pc[j] = "code" /\ source[j] = "cache" => j \in Holding(base[j]) /\ pins[base[j]] > 0
        /\ pc[j] \in {"uncount", "idle", "ack", "done"} => step[j] \notin Pinned

\* Every item is worked and acknowledged, whatever became of its base.
WorkDrains == <>(\A j \in Coder : pc[j] = "done")

-------------------------------------------------------------------------------
(* What the documentation says and the code does not do.                   *)

\* "Reflect Working while any coder runs; the last to finish sets Idle."
PresenceReflects ==
    (\E j \in Coder : pc[j] = "code") => presence = "Working"

\* "together with the in-use guard on BaseCache, eviction of an in-use base is
\* impossible": the repository under a live coder's worktree is there.
InUseNeverDeleted ==
    \A j \in Coder : pc[j] = "code" /\ source[j] = "cache" => bare[base[j]] = "valid"

\* "a live base is never left pinned in-use": once no task is left, no base
\* is pinned.
NoHoldLeft ==
    (\A j \in Coder : pc[j] \in {"queued", "done"}) => \A b \in Base : pins[b] = 0

===============================================================================
