---------------------------- MODULE FedWorkerProofs ----------------------------
(***************************************************************************)
(* Proofs about FedWorker, for every finite set of items, every number of  *)
(* slots and every cache: how it uses the cache, its slots, its counter    *)
(* and its presence.                                                       *)
(***************************************************************************)
EXTENDS FedWorker, BaseCacheProofs

\* The items whose task is in one of the phases P.
In(P) == {j \in Coder : pc[j] \in P}

FedTypes ==
    /\ slots \in Nat
    /\ loop \in {"acquire", "claim"}
    /\ pc \in [Coder -> {"queued", "done"} \cup Tasked]
    /\ source \in [Coder -> {"none", "cache", "clone"}]
    /\ inflight \in Nat
    /\ presence \in {"Idle", "Working"}

\* A heartbeat that says Working has a task behind it that will take it back:
\* one that is counted, or the one that is about to announce Idle.
PresenceOwned == presence = "Working" => In(Counted \cup {"idle"}) # {}

FedInv == FedTypes /\ SlotsConserved /\ PresenceOwned

\* Where the call to the cache stands at each phase of the task.
CallOfPhase(j) ==
    /\ pc[j] \in {"queued", "count", "announce"} => step[j] = "check"
    /\ pc[j] \in {"attach", "release"} => step[j] = "held"
    /\ pc[j] = "fallback" => step[j] = "over"
    /\ pc[j] = "code" => \/ source[j] = "cache" /\ step[j] = "held"
                         \/ source[j] = "clone" /\ step[j] = "over"
    /\ pc[j] \in {"uncount", "idle", "ack", "done"} => step[j] \in {"over", "check"}

CallsFollowTasks == \A j \in Coder : CallOfPhase(j)

-------------------------------------------------------------------------------
\* How the number of tasks in the phases P changes when one task moves.
LEMMA OneTaskMoves ==
    ASSUME NEW CONSTANT P, NEW j \in Coder, NEW s,
           pc \in [Coder -> {"queued", "done"} \cup Tasked],
           pc' = [pc EXCEPT ![j] = s]
    PROVE  /\ Cardinality(In(P)) \in Nat /\ Cardinality(In(P)') \in Nat
           /\ pc[j] \in P => Cardinality(In(P)) > 0
           /\ (s \in P <=> pc[j] \in P) => Cardinality(In(P)') = Cardinality(In(P))
           /\ s \in P /\ pc[j] \notin P => Cardinality(In(P)') = Cardinality(In(P)) + 1
           /\ s \notin P /\ pc[j] \in P => Cardinality(In(P)') = Cardinality(In(P)) - 1
<1> DEFINE A == In(P)
           B == In(P)'
<1>1. /\ (s \in P <=> pc[j] \in P) => B = A
      /\ s \in P /\ pc[j] \notin P => B = A \cup {j} /\ j \notin A
      /\ s \notin P /\ pc[j] \in P => B = A \ {j}
      /\ pc[j] \in P => j \in A
  BY DEF In
<1>2. A \in SUBSET Coder /\ B \in SUBSET Coder
  BY DEF In
<1>3. /\ IsFiniteSet(A) /\ Cardinality(A) \in Nat
      /\ Cardinality(B) \in Nat
  BY <1>2, CodersAreFinite
<1> HIDE DEF A, B
<1>4. Cardinality(A \cup {j}) = IF j \in A THEN Cardinality(A) ELSE Cardinality(A) + 1
  BY <1>3, FS_AddElement
<1>5. Cardinality(A \ {j}) = IF j \in A THEN Cardinality(A) - 1 ELSE Cardinality(A)
  BY <1>3, FS_RemoveElement
<1>6. j \in A => Cardinality(A) > 0
  <2>1. j \in A => A # {}
    OBVIOUS
  <2> QED
    BY <1>3, <2>1, FS_EmptySet
<1>7. /\ Cardinality(A) \in Nat /\ Cardinality(B) \in Nat
      /\ pc[j] \in P => Cardinality(A) > 0
      /\ (s \in P <=> pc[j] \in P) => Cardinality(B) = Cardinality(A)
      /\ s \in P /\ pc[j] \notin P => Cardinality(B) = Cardinality(A) + 1
      /\ s \notin P /\ pc[j] \in P => Cardinality(B) = Cardinality(A) - 1
  BY <1>1, <1>3, <1>4, <1>5, <1>6
<1> QED
  BY <1>7 DEF A, B

\* What a step of a task does to the phases: it leaves them, or moves one task.
TaskMoves(j, s) == pc' = [pc EXCEPT ![j] = s]

\* A task that stays in the phases it is counted in changes nothing else that
\* the invariant speaks of.
LEMMA QuietMove ==
    ASSUME FedInv, FedTypes', NEW j \in Coder, NEW s, TaskMoves(j, s),
           s \in Tasked, pc[j] \in Tasked,
           s \in Counted <=> pc[j] \in Counted,
           pc[j] # "idle", UNCHANGED <<slots, loop, inflight, presence>>
    PROVE  SlotsConserved' /\ PresenceOwned'
<1> USE DEF FedInv, FedTypes, TaskMoves
<1>1. Cardinality(In(Tasked)') = Cardinality(In(Tasked))
  BY OneTaskMoves
<1>2. Cardinality(In(Counted)') = Cardinality(In(Counted))
  BY OneTaskMoves
<1>3. SlotsConserved'
  BY <1>1, <1>2 DEF SlotsConserved, In
<1>4. PresenceOwned'
  BY DEF PresenceOwned, In
<1> QED
  BY <1>3, <1>4

-------------------------------------------------------------------------------
\* Initially no task has started.
LEMMA FedInitInv == Init => FedInv
<1> SUFFICES ASSUME Init PROVE FedInv
  OBVIOUS
<1>1. FedTypes
  BY WorkerAssumption DEF Init, FedTypes, Slots
<1>2. In(Tasked) = {} /\ In(Counted) = {}
  BY DEF Init, In, Tasked, Counted
<1>3. SlotsConserved
  BY <1>2, FS_EmptySet, WorkerAssumption DEF Init, SlotsConserved, In, Slots
<1>4. PresenceOwned
  BY DEF Init, PresenceOwned
<1> QED
  BY <1>1, <1>3, <1>4 DEF FedInv

\* The types are preserved.
LEMMA FedNextTypes ==
    ASSUME FedInv, [Next]_vars
    PROVE  FedTypes'
<1> USE DEF FedInv, FedTypes, Tasked, Counted, Move
<1>1. CASE UNCHANGED vars
  BY <1>1 DEF vars, workerVars
<1>2. CASE AcquireSlot \/ ClaimNothing
  BY <1>2 DEF AcquireSlot, ClaimNothing
<1>3. ASSUME NEW j \in Coder, Claim(j) \/ Count(j) \/ Announce(j) PROVE FedTypes'
  BY <1>3 DEF Claim, Count, Announce
<1>4. ASSUME NEW j \in Coder, Prepare(j) \/ Attach(j) \/ Deadline(j) \/ Fallback(j)
      PROVE  FedTypes'
  BY <1>4 DEF Prepare, Attach, Deadline, Fallback
<1>5. ASSUME NEW j \in Coder, RunCoder(j) \/ Cleanup(j) \/ AnnounceIdle(j) \/ Ack(j)
      PROVE  FedTypes'
  BY <1>5 DEF RunCoder, Cleanup, AnnounceIdle, Ack
<1>6. ASSUME NEW j \in Coder, Uncount(j) PROVE FedTypes'
  <2>1. inflight > 0
    <3>1. pc[j] \in Counted /\ TaskMoves(j, pc'[j])
      BY <1>6 DEF Uncount, TaskMoves
    <3>2. Cardinality(In(Counted)) > 0
      BY <3>1, OneTaskMoves DEF TaskMoves
    <3> QED
      BY <3>2 DEF SlotsConserved, In
  <2> QED
    BY <1>6, <2>1 DEF Uncount
<1>7. ASSUME NEW b \in Base, OrphanEnds(b) /\ UNCHANGED workerVars PROVE FedTypes'
  BY <1>7 DEF workerVars
<1> QED
  BY <1>1, <1>2, <1>3, <1>4, <1>5, <1>6, <1>7 DEF Next, Task

\* What leaves the semaphore is in the hands of the loop, and the reverse.
LEMMA PermitsMove ==
    ASSUME FedInv, pc' = pc, inflight' = inflight, slots' \in Nat,
           \/ slots = slots' + 1 /\ loop = "acquire" /\ loop' = "claim"
           \/ slots' = slots + 1 /\ loop = "claim" /\ loop' = "acquire"
    PROVE  SlotsConserved'
<1> DEFINE T == Cardinality(In(Tasked))
<1>1. T \in Nat /\ slots \in Nat
  BY CodersAreFinite DEF In, FedInv, FedTypes
<1>2. In(Tasked)' = In(Tasked) /\ In(Counted)' = In(Counted)
  BY DEF In
<1>3. slots + T + (IF loop = "claim" THEN 1 ELSE 0) = Slots
  BY DEF FedInv, SlotsConserved, In
<1>4. slots' + T + (IF loop' = "claim" THEN 1 ELSE 0) = Slots
  <2> HIDE DEF T
  <2>1. CASE loop = "acquire" /\ slots = slots' + 1 /\ loop' = "claim"
    <3>1. slots' + 1 + T = Slots
      BY <1>1, <1>3, <2>1
    <3> QED
      BY <1>1, <2>1, <3>1
  <2>2. CASE loop = "claim" /\ slots' = slots + 1 /\ loop' = "acquire"
    <3>1. slots + T + 1 = Slots
      BY <1>1, <1>3, <2>2
    <3> QED
      BY <1>1, <2>2, <3>1
  <2> QED
    BY <2>1, <2>2
<1>5. Cardinality(In(Tasked)') = T /\ Cardinality(In(Counted)') = Cardinality(In(Counted))
  BY <1>2
<1>6. inflight' = Cardinality(In(Counted)')
  BY <1>5 DEF FedInv, SlotsConserved, In
<1> QED
  BY <1>4, <1>5, <1>6 DEF SlotsConserved, In

\* The loop takes, passes on and returns one permit; one case per action.
LEMMA LoopConserves ==
    ASSUME FedInv, AcquireSlot \/ ClaimNothing \/ \E j \in Coder : Claim(j)
    PROVE  SlotsConserved' /\ PresenceOwned'
<1> USE DEF FedInv, FedTypes
<1>1. CASE AcquireSlot \/ ClaimNothing
  <2>1. pc' = pc /\ inflight' = inflight /\ presence' = presence
    BY <1>1 DEF AcquireSlot, ClaimNothing
  <2>2. PresenceOwned'
    BY <2>1 DEF PresenceOwned, In
  <2>3. CASE AcquireSlot
    <3>1. slots = slots' + 1 /\ slots' \in Nat /\ loop = "acquire" /\ loop' = "claim"
      BY <2>3 DEF AcquireSlot
    <3> QED
      BY <2>1, <2>2, <3>1, PermitsMove
  <2>4. CASE ClaimNothing
    <3>1. slots' = slots + 1 /\ loop' = "acquire" /\ loop = "claim"
      BY <2>4 DEF ClaimNothing
    <3> QED
      BY <2>1, <2>2, <3>1, PermitsMove
  <2> QED
    BY <1>1, <2>3, <2>4
<1>2. ASSUME NEW j \in Coder, Claim(j) PROVE SlotsConserved' /\ PresenceOwned'
  <2>1. pc' = [pc EXCEPT ![j] = "count"] /\ pc[j] = "queued"
    BY <1>2 DEF Claim, Move
  <2>2. Cardinality(In(Tasked)') = Cardinality(In(Tasked)) + 1
    BY <2>1, OneTaskMoves DEF Tasked, Counted
  <2>3. Cardinality(In(Counted)') = Cardinality(In(Counted))
    <3>1. "queued" \notin Counted /\ "count" \notin Counted
      BY DEF Counted
    <3> QED
      BY <2>1, <3>1, OneTaskMoves
  <2>4. Cardinality(In(Tasked)) \in Nat
    BY CodersAreFinite DEF In
  <2>5. SlotsConserved'
    BY <1>2, <2>2, <2>3, <2>4 DEF Claim, SlotsConserved, In
  <2>6. PresenceOwned'
    BY <1>2, <2>1 DEF Claim, PresenceOwned, In, Counted
  <2> QED
    BY <2>5, <2>6
<1> QED
  BY <1>1, <1>2

\* The counter follows the tasks in the counted phases, and the permits those
\* that are alive; one case per action of process_one's task.
LEMMA TaskConserves ==
    ASSUME FedInv, FedTypes', NEW j \in Coder, Task(j)
    PROVE  SlotsConserved' /\ PresenceOwned'
<1> USE DEF FedInv, FedTypes
<1>1. CASE Count(j)
  <2>1. pc' = [pc EXCEPT ![j] = "announce"] /\ pc[j] = "count"
    BY <1>1 DEF Count, Move
  <2>2. Cardinality(In(Tasked)') = Cardinality(In(Tasked))
    BY <2>1, OneTaskMoves DEF Tasked, Counted
  <2>3. Cardinality(In(Counted)') = Cardinality(In(Counted)) + 1
    BY <2>1, OneTaskMoves DEF Counted
  <2>4. SlotsConserved'
    BY <1>1, <2>2, <2>3 DEF Count, SlotsConserved, In
  <2>5. PresenceOwned'
    BY <1>1, <2>1 DEF Count, PresenceOwned, In, Counted
  <2> QED
    BY <2>4, <2>5
<1>2. CASE Announce(j)
  <2>1. pc' = [pc EXCEPT ![j] = "prepare"] /\ pc[j] = "announce"
    BY <1>2 DEF Announce, Move
  <2>2. Cardinality(In(Tasked)') = Cardinality(In(Tasked))
    BY <2>1, OneTaskMoves DEF Tasked, Counted
  <2>3. Cardinality(In(Counted)') = Cardinality(In(Counted))
    BY <2>1, OneTaskMoves DEF Counted
  <2>4. SlotsConserved'
    BY <1>2, <2>2, <2>3 DEF Announce, SlotsConserved, In
  <2>5. PresenceOwned'
    BY <2>1 DEF PresenceOwned, In, Counted
  <2> QED
    BY <2>4, <2>5
<1>3. CASE Prepare(j)
  <2>1. CASE UNCHANGED pc
    BY <1>3, <2>1 DEF Prepare, SlotsConserved, PresenceOwned, In
  <2>2. CASE pc' # pc
    <3>1. PICK s \in {"attach", "fallback", "uncount"} : TaskMoves(j, s)
      BY <1>3, <2>2 DEF Prepare, Move, TaskMoves
    <3> QED
      BY <1>3, <3>1, QuietMove DEF Prepare, Tasked, Counted
  <2> QED
    BY <2>1, <2>2
<1>4. CASE Attach(j) \/ Deadline(j) \/ Fallback(j)
  <2>1. PICK s \in {"code", "fallback", "uncount"} : TaskMoves(j, s)
    BY <1>4 DEF Attach, Deadline, Fallback, Move, TaskMoves
  <2> QED
    BY <1>4, <2>1, QuietMove DEF Attach, Deadline, Fallback, Tasked, Counted
<1>5. CASE RunCoder(j) \/ Cleanup(j)
  <2>1. PICK s \in {"release", "uncount"} : TaskMoves(j, s)
    BY <1>5 DEF RunCoder, Cleanup, Move, TaskMoves
  <2> QED
    BY <1>5, <2>1, QuietMove DEF RunCoder, Cleanup, Tasked, Counted
<1>6. CASE Uncount(j)
  <2>1. PICK s \in {"idle", "ack"} : TaskMoves(j, s) /\ (s = "idle" <=> inflight = 1)
    BY <1>6 DEF Uncount, Move, TaskMoves
  <2>2. pc[j] = "uncount"
    BY <1>6 DEF Uncount
  <2>3. Cardinality(In(Tasked)') = Cardinality(In(Tasked))
    BY <2>1, <2>2, OneTaskMoves DEF TaskMoves, Tasked, Counted
  <2>4. /\ Cardinality(In(Counted)) \in Nat /\ Cardinality(In(Counted)) > 0
        /\ Cardinality(In(Counted)') = Cardinality(In(Counted)) - 1
    BY <2>1, <2>2, OneTaskMoves DEF TaskMoves, Counted
  <2>5. SlotsConserved'
    BY <1>6, <2>3, <2>4 DEF Uncount, SlotsConserved, In
  <2>6. CASE s = "idle"
    <3>1. j \in In(Counted \cup {"idle"})'
      BY <2>1, <2>6 DEF TaskMoves, In
    <3> QED
      BY <2>5, <3>1 DEF PresenceOwned
  <2>7. CASE s = "ack"
    <3>1. Cardinality(In(Counted)') # 0
      BY <2>1, <2>4, <2>7 DEF SlotsConserved, In
    <3>2. In(Counted)' # {}
      BY <3>1, FS_EmptySet
    <3>3. In(Counted \cup {"idle"})' # {}
      BY <3>2 DEF In
    <3> QED
      BY <2>5, <3>3 DEF PresenceOwned
  <2> QED
    BY <2>6, <2>7
<1>7. CASE AnnounceIdle(j)
  <2>1. pc' = [pc EXCEPT ![j] = "ack"] /\ pc[j] = "idle"
    BY <1>7 DEF AnnounceIdle, Move
  <2>2. Cardinality(In(Tasked)') = Cardinality(In(Tasked))
    BY <2>1, OneTaskMoves DEF Tasked, Counted
  <2>3. Cardinality(In(Counted)') = Cardinality(In(Counted))
    <3>1. "idle" \notin Counted /\ "ack" \notin Counted
      BY DEF Counted
    <3> QED
      BY <2>1, <3>1, OneTaskMoves
  <2>4. SlotsConserved'
    BY <1>7, <2>2, <2>3 DEF AnnounceIdle, SlotsConserved, In
  <2>5. PresenceOwned'
    BY <1>7 DEF AnnounceIdle, PresenceOwned
  <2> QED
    BY <2>4, <2>5
<1>8. CASE Ack(j)
  <2>1. pc' = [pc EXCEPT ![j] = "done"] /\ pc[j] = "ack"
    BY <1>8 DEF Ack, Move
  <2>2. /\ Cardinality(In(Tasked)) \in Nat
        /\ Cardinality(In(Tasked)') = Cardinality(In(Tasked)) - 1
    BY <2>1, OneTaskMoves DEF Tasked, Counted
  <2>3. Cardinality(In(Counted)') = Cardinality(In(Counted))
    <3>1. "ack" \notin Counted /\ "done" \notin Counted
      BY DEF Counted
    <3> QED
      BY <2>1, <3>1, OneTaskMoves
  <2>4. SlotsConserved'
    BY <1>8, <2>2, <2>3 DEF Ack, SlotsConserved, In
  <2>5. PresenceOwned'
    BY <1>8, <2>1 DEF Ack, PresenceOwned, In, Counted
  <2> QED
    BY <2>4, <2>5
<1> QED
  BY <1>1, <1>2, <1>3, <1>4, <1>5, <1>6, <1>7, <1>8 DEF Task

\* Every step of the worker preserves the invariant.
LEMMA FedNextInv == FedInv /\ [Next]_vars => FedInv'
<1> SUFFICES ASSUME FedInv, [Next]_vars PROVE FedInv'
  OBVIOUS
<1>1. FedTypes'
  BY FedNextTypes
<1>2. CASE AcquireSlot \/ ClaimNothing \/ \E j \in Coder : Claim(j)
  BY <1>1, <1>2, LoopConserves DEF FedInv
<1>3. ASSUME NEW j \in Coder, Task(j) PROVE FedInv'
  BY <1>1, <1>3, TaskConserves DEF FedInv
<1>4. ASSUME UNCHANGED workerVars PROVE FedInv'
  BY <1>1, <1>4 DEF workerVars, FedInv, SlotsConserved, PresenceOwned, In
<1> QED
  BY <1>2, <1>3, <1>4 DEF Next, vars

-------------------------------------------------------------------------------
\* A step for one task leaves the calls and phases of the others alone.
LEMMA OnlyOneTask ==
    ASSUME FedTypes, CacheTypeOK, CallsFollowTasks, NEW j \in Coder, CallOfPhase(j)',
           NEW p, pc' = [pc EXCEPT ![j] = p], NEW s, step' = [step EXCEPT ![j] = s],
           NEW o, source' = [source EXCEPT ![j] = o]
    PROVE  CallsFollowTasks'
<1> SUFFICES ASSUME NEW i \in Coder PROVE CallOfPhase(i)'
  BY DEF CallsFollowTasks
<1>1. CASE i = j
  BY <1>1
<1>2. CASE i # j
  BY <1>2 DEF FedTypes, CacheTypeOK, CallsFollowTasks, CallOfPhase
<1> QED
  BY <1>1, <1>2

\* What the calls of one coder write: its own step.
LEMMA CallMoves ==
    ASSUME CacheTypeOK, NEW j \in Coder, Seek(j) \/ Abandon(j) \/ Release(j)
    PROVE  \E s : step' = [step EXCEPT ![j] = s]
<1>1. CASE Check(j) \/ Lock(j) \/ Clear(j) \/ Fetch(j) \/ CloneDone(j) \/ Error(j)
  BY <1>1 DEF Check, Lock, Clear, Fetch, CloneDone, Error, Goto
<1>2. CASE Touch(j) \/ Pin(j) \/ Evict(j) \/ Remove(j)
  BY <1>2 DEF Touch, Pin, Evict, Remove, Goto
<1>3. CASE Abandon(j) \/ Release(j)
  BY <1>3 DEF Abandon, Release, Goto
<1> QED
  BY <1>1, <1>2, <1>3 DEF Seek

\* The call to the cache follows the task: every way out of a phase that held
\* a base gives it back or never had it.
LEMMA CallsNext ==
    ASSUME FedTypes, CacheTypeOK, CallsFollowTasks, [Next]_vars
    PROVE  CallsFollowTasks'
<1> USE DEF FedTypes, CacheTypeOK
<1>1. ASSUME UNCHANGED <<pc, step, source>> PROVE CallsFollowTasks'
  BY <1>1 DEF CallsFollowTasks, CallOfPhase
<1>2. CASE UNCHANGED vars \/ AcquireSlot \/ ClaimNothing
  BY <1>1, <1>2 DEF vars, cacheVars, workerVars, AcquireSlot, ClaimNothing
<1>3. ASSUME NEW b \in Base, OrphanEnds(b) /\ UNCHANGED workerVars PROVE CallsFollowTasks'
  BY <1>1, <1>3 DEF OrphanEnds, workerVars
<1>4. ASSUME NEW j \in Coder, Claim(j) \/ Task(j) PROVE CallsFollowTasks'
  <2> USE DEF Move
  <2>1. CallOfPhase(j)
    BY DEF CallsFollowTasks
  <2>2. step = [step EXCEPT ![j] = step[j]] /\ source = [source EXCEPT ![j] = source[j]]
        /\ pc = [pc EXCEPT ![j] = pc[j]]
    OBVIOUS
  <2>3. CASE Claim(j) \/ Count(j) \/ Announce(j) \/ AnnounceIdle(j) \/ Ack(j)
    <3>1. PICK p : pc' = [pc EXCEPT ![j] = p]
      BY <2>3 DEF Claim, Count, Announce, AnnounceIdle, Ack
    <3>2. UNCHANGED <<step, source>>
      BY <2>3 DEF Claim, Count, Announce, AnnounceIdle, Ack, cacheVars
    <3>3. CallOfPhase(j)'
      BY <2>1, <2>3, <3>2 DEF CallOfPhase, Claim, Count, Announce, AnnounceIdle, Ack
    <3> QED
      BY <2>2, <3>1, <3>2, <3>3, OnlyOneTask
  <2>4. CASE Uncount(j)
    <3>1. CallOfPhase(j)' /\ UNCHANGED step
      BY <2>1, <2>4 DEF CallOfPhase, Uncount, cacheVars
    <3> QED
      BY <2>2, <2>4, <3>1, OnlyOneTask DEF Uncount
  <2>5. CASE Prepare(j)
    <3>1. UNCHANGED source
      BY <2>5 DEF Prepare
    <3>2. CASE Seek(j) /\ UNCHANGED pc
      <4>1. PICK s : step' = [step EXCEPT ![j] = s]
        BY <3>2, CallMoves
      <4>2. CallOfPhase(j)'
        BY <2>5, <3>2 DEF Prepare, CallOfPhase
      <4> QED
        BY <2>2, <3>1, <3>2, <4>1, <4>2, OnlyOneTask
    <3>3. CASE ~(Seek(j) /\ UNCHANGED pc)
      <4>1. PICK p : pc' = [pc EXCEPT ![j] = p]
        BY <2>5, <3>3 DEF Prepare
      <4>2. CallOfPhase(j)' /\ UNCHANGED step
        BY <2>1, <2>5, <3>1, <3>3 DEF Prepare, CallOfPhase, cacheVars
      <4> QED
        BY <2>2, <3>1, <4>1, <4>2, OnlyOneTask
    <3> QED
      BY <3>2, <3>3
  <2>6. CASE Attach(j)
    <3>1. CASE Release(j)
      <4>1. step' = [step EXCEPT ![j] = "over"]
        BY <3>1 DEF Release, Goto
      <4>2. pc' = [pc EXCEPT ![j] = "fallback"] /\ UNCHANGED source
        BY <2>6, <3>1 DEF Attach, Release, Goto, cacheVars
      <4>3. CallOfPhase(j)'
        BY <4>1, <4>2 DEF CallOfPhase
      <4> QED
        BY <2>2, <4>1, <4>2, <4>3, OnlyOneTask
    <3>2. CASE ~Release(j)
      <4>1. /\ pc[j] = "attach"
            /\ source' = [source EXCEPT ![j] = "cache"]
            /\ pc' = [pc EXCEPT ![j] = "code"]
            /\ UNCHANGED step
        BY <2>6, <3>2 DEF Attach, cacheVars
      <4>2. CallOfPhase(j)'
        BY <2>1, <4>1 DEF CallOfPhase
      <4> QED
        BY <2>2, <4>1, <4>2, OnlyOneTask
    <3> QED
      BY <3>1, <3>2
  <2>7. CASE Deadline(j)
    <3>1. step' = [step EXCEPT ![j] = "over"] /\ pc' = [pc EXCEPT ![j] = "fallback"]
          /\ UNCHANGED source
      BY <2>7 DEF Deadline, Abandon, Goto
    <3>2. CallOfPhase(j)'
      BY <3>1 DEF CallOfPhase
    <3> QED
      BY <2>2, <3>1, <3>2, OnlyOneTask
  <2>8. CASE Fallback(j) \/ RunCoder(j)
    <3>1. UNCHANGED step
      BY <2>8 DEF Fallback, RunCoder, cacheVars
    <3>2. PICK p, o : pc' = [pc EXCEPT ![j] = p] /\ source' = [source EXCEPT ![j] = o]
      BY <2>2, <2>8 DEF Fallback, RunCoder
    <3>3. CallOfPhase(j)'
      BY <2>1, <2>8, <3>1 DEF CallOfPhase, Fallback, RunCoder
    <3> QED
      BY <2>2, <3>1, <3>2, <3>3, OnlyOneTask
  <2>9. CASE Cleanup(j)
    <3>1. step' = [step EXCEPT ![j] = "over"] /\ pc' = [pc EXCEPT ![j] = "uncount"]
          /\ UNCHANGED source
      BY <2>9 DEF Cleanup, Release, Goto
    <3>2. CallOfPhase(j)'
      BY <3>1 DEF CallOfPhase
    <3> QED
      BY <2>2, <3>1, <3>2, OnlyOneTask
  <2> QED
    BY <1>4, <2>3, <2>4, <2>5, <2>6, <2>7, <2>8, <2>9 DEF Task
<1> QED
  BY <1>2, <1>3, <1>4 DEF Next

\* A coder that holds its base pins it: it is one of those the count covers.
LEMMA HolderPins ==
    ASSUME CacheInv, CallsFollowTasks
    PROVE  HoldsFollowWork
<1> SUFFICES ASSUME NEW j \in Coder, pc[j] = "code", source[j] = "cache"
             PROVE  j \in Holding(base[j]) /\ pins[base[j]] > 0
  BY DEF HoldsFollowWork, CallsFollowTasks, CallOfPhase, Pinned
<1> DEFINE H == Holding(base[j])
<1>1. j \in H
  BY DEF CallsFollowTasks, CallOfPhase, Holding, Pinned
<1>2. IsFiniteSet(H) /\ Cardinality(H) \in Nat
  BY HoldersAreCoders, CodersAreFinite
<1>3. base[j] \in Base /\ pins[base[j]] \in Nat /\ pins[base[j]] >= Cardinality(H)
  BY DEF CacheInv, HoldTypes, PinsCoverHolders
<1> HIDE DEF H
<1>4. Cardinality(H) # 0
  BY <1>1, <1>2, FS_EmptySet
<1> QED
  BY <1>1, <1>2, <1>3, <1>4 DEF H

-------------------------------------------------------------------------------
\* The worker's steps are steps of the cache, or leave it alone.
LEMMA FedStepsCache == [Next]_vars => [CacheNext]_cacheVars
<1> SUFFICES ASSUME [Next]_vars PROVE [CacheNext]_cacheVars
  OBVIOUS
<1>1. CASE UNCHANGED vars
  BY <1>1 DEF vars
<1>2. CASE AcquireSlot \/ ClaimNothing
  BY <1>2 DEF AcquireSlot, ClaimNothing
<1>3. ASSUME NEW j \in Coder, Claim(j) PROVE [CacheNext]_cacheVars
  BY <1>3 DEF Claim
<1>4. ASSUME NEW j \in Coder, Prepare(j) \/ Attach(j) \/ Deadline(j) \/ Cleanup(j)
      PROVE  [CacheNext]_cacheVars
  BY <1>4 DEF Prepare, Attach, Deadline, Cleanup, CacheNext
<1>5. ASSUME NEW j \in Coder, Count(j) \/ Announce(j) \/ Fallback(j) \/ RunCoder(j)
                               \/ Uncount(j) \/ AnnounceIdle(j) \/ Ack(j)
      PROVE  [CacheNext]_cacheVars
  BY <1>5 DEF Count, Announce, Fallback, RunCoder, Uncount, AnnounceIdle, Ack
<1>6. ASSUME NEW b \in Base, OrphanEnds(b) PROVE [CacheNext]_cacheVars
  BY <1>6 DEF CacheNext
<1> QED
  BY <1>1, <1>2, <1>3, <1>4, <1>5, <1>6 DEF Next, Task

\* A serving worker uses the cache only as BaseCache allows, so that what is
\* proved of the cache holds of the worker.
THEOREM FedUsesCache == Spec => CacheSpec
<1>1. Init => CacheInit
  BY DEF Init
<1> QED
  BY <1>1, FedStepsCache, PTL DEF Spec, CacheSpec

\* No release of a coder takes away the hold of another (process_one).
THEOREM FedPins == Spec => []PinsCoverHolders
BY FedUsesCache, CachePins, PTL

\* No eviction takes a base a coder of the worker holds at that moment.
THEOREM FedEvictionSpares == Spec => EvictionSparesHolders
BY FedUsesCache, CacheEvictionSpares

\* The invariant of run_serve and its tasks.
THEOREM FedInvariant == Spec => []FedInv
BY FedInitInv, FedNextInv, PTL DEF Spec

\* Permits and the in-flight counter are never lost or doubled, whatever
\* becomes of the items.
THEOREM FedSlots == Spec => []SlotsConserved
<1>1. FedInv => SlotsConserved
  BY DEF FedInv
<1> QED
  BY <1>1, FedInvariant, PTL

\* The presence returns to Idle with the last coder.
THEOREM FedPresence == Spec => []PresenceSettles
<1>1. FedInv => PresenceSettles
  BY DEF FedInv, FedTypes, PresenceOwned, PresenceSettles, In, Counted
<1> QED
  BY <1>1, FedInvariant, PTL

\* The worker's variables, and those of its cache, keep their types; the free
\* permits are never more than the semaphore was made with.
THEOREM FedTypeCorrect == Spec => []WorkerTypeOK
<1>1. FedInv => slots \in 0..Slots
  <2> SUFFICES ASSUME FedInv PROVE slots \in 0..Slots
    OBVIOUS
  <2> DEFINE T == Cardinality({j \in Coder : pc[j] \in Tasked})
  <2>1. T \in Nat
    BY CodersAreFinite
  <2>2. slots \in Nat /\ slots + T + (IF loop = "claim" THEN 1 ELSE 0) = Slots
    BY DEF FedInv, FedTypes, SlotsConserved
  <2>3. Slots \in Nat
    BY WorkerAssumption DEF Slots
  <2> HIDE DEF T
  <2> QED
    BY <2>1, <2>2, <2>3
<1>2. FedInv /\ CacheTypeOK => WorkerTypeOK
  BY <1>1 DEF FedInv, FedTypes, WorkerTypeOK
<1> QED
  BY <1>2, FedInvariant, FedUsesCache, CacheTypes, PTL

\* The call to the cache is where the task is (process_one, prepare_worktree).
LEMMA FedCalls == Spec => []CallsFollowTasks
<1>1. Init => CallsFollowTasks
  BY DEF Init, CacheInit, CallsFollowTasks, CallOfPhase
<1>2. FedInv /\ IndexInv /\ CallsFollowTasks /\ [Next]_vars => CallsFollowTasks'
  BY CallsNext DEF FedInv, IndexInv
<1> QED
  BY <1>1, <1>2, FedInvariant, FedUsesCache, CacheIndexInvariant, PTL DEF Spec

\* The base a coder works off is pinned for as long as it works, and the hold of
\* a task that ended, however it ended, is back or was dropped with its call.
THEOREM FedHolds == Spec => []HoldsFollowWork
<1>1. CacheInv /\ CallsFollowTasks => HoldsFollowWork
  BY HolderPins
<1> QED
  BY <1>1, FedCalls, FedUsesCache, CacheInvariant, PTL

\* At most one task of the worker clears, clones or evicts at a time.
THEOREM FedLock == Spec => []OneMaterializes
BY FedUsesCache, CacheLock, PTL

===============================================================================
