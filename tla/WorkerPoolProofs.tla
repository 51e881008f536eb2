--------------------------- MODULE WorkerPoolProofs ---------------------------
(***************************************************************************)
(* Proofs about WorkerPool, for every set of workers and every capacity.   *)
(***************************************************************************)
EXTENDS WorkerPool, FiniteSetTheorems, TLAPS

\* Which statuses a worker can show in each state of its task, and when it
\* may be untracked.
StatusInv(i) ==
    /\ task[i] = "unborn" => status[i] = "absent"
    /\ task[i] \in {"waiting", "admitted"} => status[i] \in {"Queued", "Killed"}
    /\ task[i] \in {"running", "returned", "expired"} => status[i] \in {"Running",
       "Killed"}
    /\ task[i] = "recorded" => status[i] \in {"Done", "Killed"}
    /\ task[i] = "gaveRun" => status[i] \in {"Done", "Killed", "absent"}
    /\ task[i] = "gaveNone" => status[i] \in {"TimedOut", "Killed", "absent"}
    /\ task[i] = "cancelled" => status[i] \in {"Killed", "absent"}
    /\ task[i] = "panicked" => status[i] \in {"Running", "Killed", "absent"}

\* The part of the inductive invariant that speaks of one worker at a time.
WorkerInv(i) ==
    /\ StatusInv(i)
    /\ status[i] = "absent" /\ task[i] # "unborn" => joined[i] \in {"Some", "None"}
    /\ i \in attached => task[i] # "unborn"
    /\ joined[i] # "no" => i \in attached
    /\ joined[i] = "Some" => task[i] = "gaveRun"
    /\ joined[i] = "None" => task[i] \in Ended \ {"gaveRun"}
    /\ i \in aborting => task[i] # "unborn" /\ status[i] \in {"Killed", "absent"}
    /\ i \in outputs => task[i] = "gaveRun" /\ status[i] # "absent"

PoolInv ==
    /\ PoolTypeOK
    /\ \A i \in Worker : WorkerInv(i)

-------------------------------------------------------------------------------
\* The invariant holds initially.
LEMMA PoolInitInv == PoolInit => PoolInv
BY PoolAssumption DEF PoolInit, PoolInv, PoolTypeOK, WorkerInv, StatusInv, Capacity,
   Status, TaskState, JoinState

\* Each step of the pool preserves it: one case per action.
LEMMA PoolNextInv == PoolInv /\ [PoolNext]_poolVars => PoolInv'
<1> SUFFICES ASSUME PoolInv, [PoolNext]_poolVars PROVE PoolInv'
  OBVIOUS
<1> USE DEF PoolInv, PoolTypeOK, WorkerInv, StatusInv, Status, FinalStatus,
        TaskState, Holding, Ended, JoinState
<1>1. CASE UNCHANGED poolVars
  BY <1>1 DEF poolVars
<1>2. ASSUME NEW i \in Worker, SpawnInsert(i) PROVE PoolInv'
  <2>1. PoolTypeOK'
    BY <1>2 DEF SpawnInsert
  <2>2. ASSUME NEW j \in Worker PROVE WorkerInv(j)'
    BY <1>2 DEF SpawnInsert
  <2> QED
    BY <2>1, <2>2
<1>3. ASSUME NEW i \in Worker, SpawnAttach(i) PROVE PoolInv'
  <2>1. PoolTypeOK'
    BY <1>3 DEF SpawnAttach
  <2>2. ASSUME NEW j \in Worker PROVE WorkerInv(j)'
    BY <1>3 DEF SpawnAttach
  <2> QED
    BY <2>1, <2>2
<1>4. ASSUME NEW i \in Worker, JoinTake(i) PROVE PoolInv'
  <2>1. PoolTypeOK'
    BY <1>4 DEF JoinTake
  <2>2. ASSUME NEW j \in Worker PROVE WorkerInv(j)'
    BY <1>4 DEF JoinTake
  <2> QED
    BY <2>1, <2>2
<1>5. ASSUME NEW i \in Worker, JoinReturn(i) PROVE PoolInv'
  <2>1. PoolTypeOK'
    BY <1>5 DEF JoinReturn
  <2>2. ASSUME NEW j \in Worker PROVE WorkerInv(j)'
    BY <1>5 DEF JoinReturn
  <2> QED
    BY <2>1, <2>2
<1>6. ASSUME NEW i \in Worker, Acquire(i) PROVE PoolInv'
  <2>1. PoolTypeOK'
    BY <1>6 DEF Acquire
  <2>2. ASSUME NEW j \in Worker PROVE WorkerInv(j)'
    BY <1>6 DEF Acquire
  <2> QED
    BY <2>1, <2>2
<1>7. ASSUME NEW i \in Worker, MarkRunning(i) PROVE PoolInv'
  <2>1. PoolTypeOK'
    BY <1>7 DEF MarkRunning, Marked
  <2>2. ASSUME NEW j \in Worker PROVE WorkerInv(j)'
    BY <1>7 DEF MarkRunning, Marked
  <2> QED
    BY <2>1, <2>2
<1>8. ASSUME NEW i \in Worker, Return(i) PROVE PoolInv'
  <2>1. PoolTypeOK'
    BY <1>8 DEF Return
  <2>2. ASSUME NEW j \in Worker PROVE WorkerInv(j)'
    BY <1>8 DEF Return
  <2> QED
    BY <2>1, <2>2
<1>9. ASSUME NEW i \in Worker, Expire(i) PROVE PoolInv'
  <2>1. PoolTypeOK'
    BY <1>9 DEF Expire
  <2>2. ASSUME NEW j \in Worker PROVE WorkerInv(j)'
    BY <1>9 DEF Expire
  <2> QED
    BY <2>1, <2>2
<1>10. ASSUME NEW i \in Worker, Panic(i) PROVE PoolInv'
  <2>1. PoolTypeOK'
    BY <1>10 DEF Panic
  <2>2. ASSUME NEW j \in Worker PROVE WorkerInv(j)'
    BY <1>10 DEF Panic
  <2> QED
    BY <2>1, <2>2
<1>11. ASSUME NEW i \in Worker, Cancel(i) PROVE PoolInv'
  <2>1. PoolTypeOK'
    BY <1>11 DEF Cancel
  <2>2. ASSUME NEW j \in Worker PROVE WorkerInv(j)'
    BY <1>11 DEF Cancel
  <2> QED
    BY <2>1, <2>2
<1>12. ASSUME NEW i \in Worker, MarkDone(i) PROVE PoolInv'
  <2>1. PoolTypeOK'
    BY <1>12 DEF MarkDone, Marked
  <2>2. ASSUME NEW j \in Worker PROVE WorkerInv(j)'
    BY <1>12 DEF MarkDone, Marked
  <2> QED
    BY <2>1, <2>2
<1>13. ASSUME NEW i \in Worker, RecordOutput(i) PROVE PoolInv'
  <2>1. PoolTypeOK'
    BY <1>13 DEF RecordOutput
  <2>2. ASSUME NEW j \in Worker PROVE WorkerInv(j)'
    BY <1>13 DEF RecordOutput
  <2> QED
    BY <2>1, <2>2
<1>14. ASSUME NEW i \in Worker, MarkTimedOut(i) PROVE PoolInv'
  <2>1. PoolTypeOK'
    BY <1>14 DEF MarkTimedOut, Marked
  <2>2. ASSUME NEW j \in Worker PROVE WorkerInv(j)'
    BY <1>14 DEF MarkTimedOut, Marked
  <2> QED
    BY <2>1, <2>2
<1>15. ASSUME NEW i \in Worker, Stop(i) PROVE PoolInv'
  <2>1. PoolTypeOK'
    BY <1>15 DEF Stop
  <2>2. ASSUME NEW j \in Worker PROVE WorkerInv(j)'
    BY <1>15 DEF Stop
  <2> QED
    BY <2>1, <2>2
<1>16. ASSUME NEW i \in Worker, joined[i] \in {"Some", "None"}, Reap(i) PROVE PoolInv'
  <2>1. PoolTypeOK'
    BY <1>16 DEF Reap
  <2>2. ASSUME NEW j \in Worker PROVE WorkerInv(j)'
    BY <1>16 DEF Reap
  <2> QED
    BY <2>1, <2>2
<1> QED
  BY <1>1, <1>16, <1>2, <1>3, <1>4, <1>5, <1>6, <1>7, <1>8, <1>9, <1>10, <1>11,
     <1>12, <1>13, <1>14, <1>15 DEF PoolNext, TaskStep

-------------------------------------------------------------------------------
\* Each property of WorkerPool that speaks of one worker follows.
LEMMA PoolInvImplies == PoolInv => PoolTypeOK /\ NoStaleStatus /\ OutputsTracked
   /\ JoinTruth
BY DEF PoolInv, PoolTypeOK, WorkerInv, StatusInv, NoStaleStatus, OutputsTracked,
   JoinTruth, FinalStatus, Ended, Status, TaskState, Holding, JoinState

\* The state of every worker stays well typed and consistent.
THEOREM PoolInvariant == PoolSpec => []PoolInv
BY PoolInitInv, PoolNextInv, PTL DEF PoolSpec

\* No finished worker is listed as queued or running: the placeholder entry
\* spawn inserts first keeps the task's updates from being lost.
THEOREM PoolStatus == PoolSpec => []NoStaleStatus
BY PoolInvariant, PoolInvImplies, PTL

\* A reaped worker leaves no output behind.
THEOREM PoolOutputs == PoolSpec => []OutputsTracked
BY PoolInvariant, PoolInvImplies, PTL

\* join tells a coder that returned from one that was stopped or timed out.
THEOREM PoolJoin == PoolSpec => []JoinTruth
BY PoolInvariant, PoolInvImplies, PTL

-------------------------------------------------------------------------------
(* The permits.                                                            *)

LEMMA HoldersFinite == IsFiniteSet(Holders) /\ Cardinality(Holders) \in Nat
BY PoolAssumption, FS_Subset, FS_CardinalityType DEF Holders

LEMMA NoHoldersInitially == PoolInit => PermitConservation
<1> SUFFICES ASSUME PoolInit PROVE PermitConservation
  OBVIOUS
<1>1. Holders = {}
  BY DEF PoolInit, Holders, Holding
<1> QED
  BY <1>1, FS_EmptySet, PoolAssumption DEF PoolInit, PermitConservation, Capacity

\* A task that takes up a permit adds one holder.
LEMMA HolderEnters ==
    ASSUME NEW i \in Worker, PoolTypeOK, PermitConservation,
           task[i] \notin Holding, NEW t \in Holding,
           task' = [task EXCEPT ![i] = t], permits > 0, permits' = permits - 1
    PROVE  PermitConservation'
<1>1. Holders' = Holders \cup {i} /\ i \notin Holders
  BY DEF Holders, PoolTypeOK
<1>2. Cardinality(Holders') = Cardinality(Holders) + 1
  BY <1>1, HoldersFinite, FS_AddElement
<1> QED
  BY <1>2, HoldersFinite DEF PermitConservation, Capacity, PoolTypeOK

\* A task that gives its permit back removes one.
LEMMA HolderLeaves ==
    ASSUME NEW i \in Worker, PoolTypeOK, PermitConservation,
           task[i] \in Holding, NEW t, t \notin Holding,
           task' = [task EXCEPT ![i] = t], permits' = permits + 1
    PROVE  PermitConservation'
<1>1. Holders' = Holders \ {i} /\ i \in Holders
  BY DEF Holders, PoolTypeOK
<1>2. Cardinality(Holders') = Cardinality(Holders) - 1
  BY <1>1, HoldersFinite, FS_RemoveElement
<1> QED
  BY <1>2, HoldersFinite DEF PermitConservation, PoolTypeOK

\* Any other change of one task leaves the holders alone.
LEMMA HolderStays ==
    ASSUME NEW i \in Worker, PoolTypeOK, PermitConservation, NEW t,
           task[i] \in Holding <=> t \in Holding,
           task' = [task EXCEPT ![i] = t], permits' = permits
    PROVE  PermitConservation'
<1>1. Holders' = Holders
  BY DEF Holders, PoolTypeOK
<1> QED
  BY <1>1 DEF PermitConservation, Capacity

LEMMA SameTasks ==
    ASSUME PermitConservation, task' = task, permits' = permits
    PROVE  PermitConservation'
BY DEF PermitConservation, Capacity, Holders

LEMMA PermitNext ==
    PoolTypeOK /\ PermitConservation /\ [PoolNext]_poolVars => PermitConservation'
<1> SUFFICES ASSUME PoolTypeOK, PermitConservation, [PoolNext]_poolVars
             PROVE  PermitConservation'
  OBVIOUS
<1>1. CASE UNCHANGED poolVars
  BY <1>1, SameTasks DEF poolVars
<1>2. ASSUME NEW i \in Worker,
             SpawnAttach(i) \/ JoinTake(i) \/ JoinReturn(i) \/ Reap(i) \/ Stop(i)
      PROVE  PermitConservation'
  BY <1>2, SameTasks DEF SpawnAttach, JoinTake, JoinReturn, Reap, Stop
<1>3. ASSUME NEW i \in Worker, Acquire(i) PROVE PermitConservation'
  BY <1>3, HolderEnters DEF Acquire, Holding
<1>4. ASSUME NEW i \in Worker, Panic(i) \/ RecordOutput(i) \/ MarkTimedOut(i)
      PROVE  PermitConservation'
  BY <1>4, HolderLeaves DEF Panic, RecordOutput, MarkTimedOut, Holding
<1>5. ASSUME NEW i \in Worker,
             SpawnInsert(i) \/ MarkRunning(i) \/ Return(i) \/ Expire(i) \/ MarkDone(i)
      PROVE  PermitConservation'
  BY <1>5, HolderStays DEF SpawnInsert, MarkRunning, Return, Expire, MarkDone, Holding
<1>6. ASSUME NEW i \in Worker, Cancel(i) PROVE PermitConservation'
  <2>1. CASE task[i] = "running"
    BY <1>6, <2>1, HolderLeaves DEF Cancel, Holding
  <2>2. CASE task[i] = "waiting"
    BY <1>6, <2>2, HolderStays DEF Cancel, Holding
  <2> QED
    BY <1>6, <2>1, <2>2 DEF Cancel
<1> QED
  BY <1>1, <1>2, <1>3, <1>4, <1>5, <1>6 DEF PoolNext, TaskStep

\* No permit is lost or doubled, however the workers end: at most
\* max_parallel coders hold one, and all are free when none does.
THEOREM PoolPermits == PoolSpec => []PermitConservation
<1>1. PoolInv => PoolTypeOK
  BY DEF PoolInv
<1> QED
  BY <1>1, PoolInvariant, NoHoldersInitially, PermitNext, PTL DEF PoolSpec

===============================================================================
