------------------------------ MODULE WorkerPool ------------------------------
(***************************************************************************)
(* The tracked, cancellable, permit-bounded execution of fan-out coders:   *)
(* crates/orchestrator/src/pool.rs.                                        *)
(*                                                                         *)
(* Three parties interleave on one pool: the caller that spawns, joins and *)
(* reaps workers, the tokio task behind each worker, and whoever calls     *)
(* stop() from outside the batch.  Every critical section of the mutex     *)
(* around the worker table is one action, because a stop() can fall        *)
(* between any two of them.                                                *)
(***************************************************************************)
EXTENDS Naturals, FiniteSets

CONSTANTS
    Worker,       \* the ids handed out by next_id over the pool's life
    MaxParallel   \* the argument of WorkerPool::new

ASSUME PoolAssumption ==
    /\ IsFiniteSet(Worker)
    /\ MaxParallel \in Nat

VARIABLES
    status,    \* WorkerHandle.status of a tracked id, "absent" if untracked
    attached,  \* ids whose real join and abort handles are in the table
    outputs,   \* ids with a captured output
    permits,   \* free permits of the semaphore
    task,      \* where the spawned tokio task of an id stands
    aborting,  \* ids whose task has been told to abort
    joined     \* what the caller's join(id) has returned so far

poolVars ==
    <<status, attached, outputs, permits, task, aborting, joined>>

Capacity == IF MaxParallel > 1 THEN MaxParallel ELSE 1

FinalStatus == {"Done", "TimedOut", "Killed"}
Status == {"absent", "Queued", "Running"} \cup FinalStatus

\* The task waits for a permit, holds one while "admitted" to "recorded" or
\* "expired", and has ended in one of four ways.
Holding == {"admitted", "running", "returned", "recorded", "expired"}
Ended == {"gaveRun", "gaveNone", "cancelled", "panicked"}
TaskState == {"unborn", "waiting"} \cup Holding \cup Ended
JoinState == {"no", "waiting", "Some", "None"}

Holders == {i \in Worker : task[i] \in Holding}

PoolTypeOK ==
    /\ status \in [Worker -> Status]
    /\ attached \subseteq Worker
    /\ outputs \subseteq Worker
    /\ permits \in Nat
    /\ task \in [Worker -> TaskState]
    /\ aborting \subseteq Worker
    /\ joined \in [Worker -> JoinState]

PoolInit ==
    /\ status = [i \in Worker |-> "absent"]
    /\ attached = {}
    /\ outputs = {}
    /\ permits = Capacity
    /\ task = [i \in Worker |-> "unborn"]
    /\ aborting = {}
    /\ joined = [i \in Worker |-> "no"]

-------------------------------------------------------------------------------
(* The caller: spawn, join, reap.                                          *)

\* spawn, first critical section: the placeholder entry (whose abort handle
\* aborts nothing) is inserted, then the task starts.
SpawnInsert(i) ==
    /\ task[i] = "unborn"
    /\ status' = [status EXCEPT ![i] = "Queued"]
    /\ task' = [task EXCEPT ![i] = "waiting"]
    /\ UNCHANGED <<attached, outputs, permits, aborting, joined>>

\* The ordering the comment in spawn warns of: an entry written only after
\* the task was started overwrites whatever the task recorded meanwhile.
SpawnAttachClobbers(i) ==
    /\ task[i] # "unborn"
    /\ i \notin attached
    /\ attached' = attached \cup {i}
    /\ status' = [status EXCEPT ![i] = "Queued"]
    /\ UNCHANGED <<outputs, permits, task, aborting, joined>>

\* spawn, second critical section: the real handles replace the placeholder's.
SpawnAttach(i) ==
    /\ task[i] # "unborn"
    /\ i \notin attached
    /\ attached' = attached \cup {i}
    /\ UNCHANGED <<status, outputs, permits, task, aborting, joined>>

\* join takes the handle out of the entry; no caller joins a worker twice.
JoinTake(i) ==
    /\ i \in attached
    /\ joined[i] = "no"
    /\ joined' = [joined EXCEPT ![i] = "waiting"]
    /\ UNCHANGED <<status, attached, outputs, permits, task, aborting>>

\* A join that returns as soon as the worker was stopped.
JoinReturnEarly(i) ==
    /\ joined[i] = "waiting"
    /\ task[i] \in Ended \/ i \in aborting
    /\ joined' = [joined EXCEPT ![i] = IF task[i] = "gaveRun" THEN "Some" ELSE "None"]
    /\ UNCHANGED <<status, attached, outputs, permits, task, aborting>>

\* The await on the JoinHandle resolves only when the task has really ended;
\* a cancelled or panicked task is an Err, which .ok().flatten() makes None.
JoinReturn(i) ==
    /\ joined[i] = "waiting"
    /\ task[i] \in Ended
    /\ joined' = [joined EXCEPT ![i] = IF task[i] = "gaveRun" THEN "Some" ELSE "None"]
    /\ UNCHANGED <<status, attached, outputs, permits, task, aborting>>

\* reap drops the entry and the captured output.
Reap(i) ==
    /\ status' = [status EXCEPT ![i] = "absent"]
    /\ outputs' = outputs \ {i}
    /\ UNCHANGED <<attached, permits, task, aborting, joined>>

-------------------------------------------------------------------------------
(* The task spawned for a worker.                                          *)

Acquire(i) ==
    /\ task[i] = "waiting"
    /\ permits > 0
    /\ permits' = permits - 1
    /\ task' = [task EXCEPT ![i] = "admitted"]
    /\ UNCHANGED <<status, attached, outputs, aborting, joined>>

\* The status change every mark_* makes: a tracked worker that was not killed.
Marked(i, new) ==
    status' = IF status[i] \in {"absent", "Killed"}
              THEN status
              ELSE [status EXCEPT ![i] = new]

MarkRunning(i) ==
    /\ task[i] = "admitted"
    /\ Marked(i, "Running")
    /\ task' = [task EXCEPT ![i] = "running"]
    /\ UNCHANGED <<attached, outputs, permits, aborting, joined>>

\* The coder future completes before its timeout...
Return(i) ==
    /\ task[i] = "running"
    /\ task' = [task EXCEPT ![i] = "returned"]
    /\ UNCHANGED <<status, attached, outputs, permits, aborting, joined>>

\* ... or the timeout fires and drops it ...
Expire(i) ==
    /\ task[i] = "running"
    /\ task' = [task EXCEPT ![i] = "expired"]
    /\ UNCHANGED <<status, attached, outputs, permits, aborting, joined>>

\* ... or it panics, which unwinds the task and drops the permit.
Panic(i) ==
    /\ task[i] = "running"
    /\ task' = [task EXCEPT ![i] = "panicked"]
    /\ permits' = permits + 1
    /\ UNCHANGED <<status, attached, outputs, aborting, joined>>

\* A cancellation that forgets the permit the dropped task held.
CancelLeaks(i) ==
    /\ i \in aborting
    /\ task[i] \in {"waiting", "running"}
    /\ task' = [task EXCEPT ![i] = "cancelled"]
    /\ UNCHANGED <<status, attached, outputs, permits, aborting, joined>>

\* An abort takes effect at a point where the task is suspended: waiting for
\* the permit or inside the coder future.  Past the future the task never
\* suspends again, so an abort that arrives there is ignored.
Cancel(i) ==
    /\ i \in aborting
    /\ task[i] \in {"waiting", "running"}
    /\ task' = [task EXCEPT ![i] = "cancelled"]
    /\ permits' = IF task[i] = "running" THEN permits + 1 ELSE permits
    /\ UNCHANGED <<status, attached, outputs, aborting, joined>>

\* mark_done, its two critical sections; the permit goes with the task.
MarkDone(i) ==
    /\ task[i] = "returned"
    /\ Marked(i, "Done")
    /\ task' = [task EXCEPT ![i] = "recorded"]
    /\ UNCHANGED <<attached, outputs, permits, aborting, joined>>

RecordOutput(i) ==
    /\ task[i] = "recorded"
    /\ outputs' = outputs \cup {i}
    /\ task' = [task EXCEPT ![i] = "gaveRun"]
    /\ permits' = permits + 1
    /\ UNCHANGED <<status, attached, aborting, joined>>

MarkTimedOut(i) ==
    /\ task[i] = "expired"
    /\ Marked(i, "TimedOut")
    /\ task' = [task EXCEPT ![i] = "gaveNone"]
    /\ permits' = permits + 1
    /\ UNCHANGED <<attached, outputs, aborting, joined>>

TaskStep(i) ==
    \/ Acquire(i) \/ MarkRunning(i) \/ Return(i) \/ Expire(i) \/ Panic(i)
    \/ Cancel(i) \/ MarkDone(i) \/ RecordOutput(i) \/ MarkTimedOut(i)

-------------------------------------------------------------------------------
(* stop(id) from outside: list() shows a worker from its placeholder on.   *)

Stop(i) ==
    /\ status[i] \in {"Queued", "Running"}
    /\ status' = [status EXCEPT ![i] = "Killed"]
    /\ aborting' = IF i \in attached THEN aborting \cup {i} ELSE aborting
    /\ UNCHANGED <<attached, outputs, permits, task, joined>>

-------------------------------------------------------------------------------
\* A caller keeps to the order spawn, join, reap for each worker.
PoolNext ==
    \E i \in Worker :
        \/ SpawnInsert(i) \/ SpawnAttach(i) \/ JoinTake(i) \/ JoinReturn(i)
        \/ joined[i] \in {"Some", "None"} /\ Reap(i)
        \/ TaskStep(i)
        \/ Stop(i)

PoolSpec == PoolInit /\ [][PoolNext]_poolVars

-------------------------------------------------------------------------------
\* Every permit is either free or held by exactly one live task, whatever
\* mixture of timeouts, panics and stops ended the others: the fan-out never
\* runs more than max_parallel coders and never loses a slot.
PermitConservation == permits + Cardinality(Holders) = Capacity

\* A worker whose task has ended is not listed as Queued or Running, unless
\* the task panicked (nothing then updates its entry).
NoStaleStatus ==
    \A i \in Worker :
        task[i] \in Ended \ {"panicked"} => status[i] \in FinalStatus \cup {"absent"}

\* The pool keeps no output of a worker it no longer tracks, so what reap
\* dropped is not brought back by the task it belonged to.
OutputsTracked == \A i \in outputs : status[i] # "absent"

\* join answers Some exactly for a coder that returned, and a None that the
\* caller still finds in the table is a timeout, a stop or a panic.
JoinTruth ==
    \A i \in Worker :
        /\ joined[i] = "Some" => task[i] = "gaveRun"
        /\ joined[i] = "None" =>
              /\ task[i] \in {"gaveNone", "cancelled", "panicked"}
              /\ status[i] \in {"absent", "Killed", "TimedOut"} \/ task[i] = "panicked"

===============================================================================
