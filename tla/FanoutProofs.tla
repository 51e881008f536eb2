----------------------------- MODULE FanoutProofs -----------------------------
(***************************************************************************)
(* Proofs about Fanout, for every number of coders and every capacity.     *)
(***************************************************************************)
EXTENDS Fanout, WorkerPoolProofs, WellFoundedInduction

BeforeCommit == {"create", "spawn", "attach", "join", "await", "reap"}
AfterJoin == {"commit", "verify", "oracle", "propose", "integrate", "merge",
              "diff", "cleanup", "conclude", "audit"}
BeforeMerge == BeforeCommit \cup {"commit", "verify", "oracle", "propose", "integrate"}
AtWork == BeforeCommit \cup AfterJoin
Joined(i) == joined[i] \in {"Some", "None"}

\* Where the sequential loops stand.
LoopInv ==
    /\ pc = "create" => \A i \in Worker : task[i] = "unborn"
    /\ pc = "spawn" => \A i \in Worker : i < cur => i \in attached
    /\ pc = "attach" => \A i \in Worker : i < cur => i \in attached
    /\ pc \in {"join", "await", "reap"} =>
          \A i \in Worker : i \in attached /\ (i < cur => Joined(i))
    /\ pc = "reap" => Joined(cur)
    /\ pc \in AfterJoin => \A i \in Worker : Joined(i)

\* How many CoderFinished events were sent where.
CountInv ==
    /\ pc \in BeforeCommit => finished = 0
    /\ pc \in {"commit", "verify"} => finished = cur - 1
    /\ pc = "oracle" => finished = cur
    /\ pc \in AfterJoin \ {"commit", "verify", "oracle"} => finished = NumCoders

\* What the orchestrator remembers of the joins when it starts to commit.
JoinInv ==
    /\ \A i \in timedOut : joined[i] = "None"
    /\ pc \in {"join", "await", "reap"} =>
          \A i \in Worker : i < cur /\ joined[i] = "None" => i \in timedOut
    /\ pc \in AfterJoin => \A i \in Worker : joined[i] = "None" => i \in timedOut
    /\ \A i \in committed : joined[i] = "Some"
    /\ pc \in BeforeCommit => committed = {}

\* What is on the integration branch.
MergeInv ==
    /\ \A i \in Worker : verify[i] \in Verdicts(cfg.gate) \cup {"none", "NoChanges"}
    /\ pc \in BeforeMerge => intHas = {} /\ merged = {} /\ conflicted = {}
    /\ intHas \subseteq Eligible
    /\ merged \subseteq intHas
    /\ deletable \subseteq merged

\* Which commits of its own a coder's branch may hold.
BranchInv ==
    /\ pc = "create" => made = {}
    /\ committed \subseteq made
    /\ CommitsRecoverable

\* What an exit leaves behind.
EndInv ==
    /\ pc \in AtWork <=> outcome = "running"
    /\ outcome \in {"ok", "err"} => \A i \in Worker : task[i] \in Ended \cup {"unborn"}
    /\ outcome \in {"running", "ok", "err"} => dirs = tracked
    /\ pc = "ended" => tracked = {}
    /\ pc \in BeforeMerge \cup {"conclude", "audit"} \/ outcome = "ok" => ~intDir

\* What the report of a run is drawn from.
ReportInv ==
    outcome \in {"running", "ok"} =>
        /\ intHas = merged
        /\ merged \cap conflicted = {}
        /\ conflicted \subseteq Eligible
        /\ pc \in {"diff", "cleanup", "conclude",
           "audit"} \/ outcome = "ok" => Unmerged = {}

\* Which events were sent where.
EventInv ==
    /\ \A i \in started : task[i] \notin {"unborn", "waiting", "admitted"}
    /\ finished > 0 => \A i \in Worker : task[i] \in Ended
    /\ notice # "none" => finished = NumCoders
    /\ pc \in BeforeMerge \ {"integrate"} => notice = "none"
    /\ pc \in {"integrate", "merge", "diff", "cleanup"} => notice = "Integrating"
    /\ pc \in {"propose", "integrate", "merge", "diff", "cleanup"} => Eligible # {}
    /\ pc = "conclude" => notice = (IF merged \cup conflicted = {} THEN "none" ELSE "Integrating")
    /\ pc = "audit" \/ outcome = "ok" => notice = "Done"

FanoutInv ==
    /\ TypeOK
    /\ PoolInv
    /\ LoopInv
    /\ CountInv
    /\ JoinInv
    /\ MergeInv
    /\ BranchInv
    /\ EndInv
    /\ ReportInv
    /\ EventInv

-------------------------------------------------------------------------------
(* Every step of a run is a step of the pool or leaves the pool alone.     *)

LEMMA StepIsPoolStep == TypeOK /\ LoopInv /\ [Next]_vars => [PoolNext]_poolVars
<1> SUFFICES ASSUME TypeOK, LoopInv, [Next]_vars PROVE [PoolNext]_poolVars
  OBVIOUS
<1>1. CASE UNCHANGED vars
  BY <1>1 DEF vars
<1>2. CASE SpawnCoder
  BY <1>2 DEF SpawnCoder, PoolNext, TypeOK
<1>3. CASE JoinCoder
  BY <1>3 DEF JoinCoder, PoolNext, TypeOK
<1>4. CASE ReapCoder
  BY <1>4 DEF ReapCoder, PoolNext, TypeOK, LoopInv, Joined
<1>5. ASSUME NEW i \in Worker, RuntimeStep(i) \/ CoderEnds(i)
      PROVE  [PoolNext]_poolVars
  BY <1>5 DEF RuntimeStep, BeginCoder, Progress, CoderEnds, PoolNext, TaskStep
<1>6. ASSUME NEW i \in Worker, StopWorker(i) PROVE [PoolNext]_poolVars
  BY <1>6 DEF StopWorker, PoolNext
<1>7. CASE \/ CreateWorktree \/ CommitCoder \/ SkipCoder \/ VerifyCoder \/ Adjudicate
           \/ Propose \/ OpenIntegration \/ MergeBranch \/ CloseIntegration
           \/ Conclude \/ Unwind \/ CancelRun \/ Crash
  BY <1>7 DEF CreateWorktree, CommitCoder, SkipCoder, VerifyCoder, Adjudicate, Propose,
     OpenIntegration, MergeBranch, CloseIntegration, Conclude, Unwind, CancelRun, Crash
<1>8. ASSUME NEW i \in Worker, EditTree(i) PROVE UNCHANGED poolVars
  BY <1>8 DEF EditTree
<1> QED
  BY <1>1, <1>2, <1>3, <1>4, <1>5, <1>6, <1>7, <1>8 DEF Next, Orchestrator

\* What no step of the pool undoes.
LEMMA PoolStable ==
    ASSUME PoolTypeOK, [PoolNext]_poolVars, NEW i \in Worker
    PROVE  /\ i \in attached => i \in attached'
           /\ Joined(i) => joined'[i] = joined[i]
           /\ task[i] \in Ended => task'[i] = task[i]
<1> USE DEF PoolTypeOK, Joined, Ended
<1>1. CASE UNCHANGED poolVars
  BY <1>1 DEF poolVars
<1>2. ASSUME NEW j \in Worker, SpawnInsert(j) \/ SpawnAttach(j) \/ JoinTake(j)
                               \/ JoinReturn(j) \/ Reap(j) \/ Stop(j)
      PROVE  /\ i \in attached => i \in attached'
             /\ Joined(i) => joined'[i] = joined[i]
             /\ task[i] \in Ended => task'[i] = task[i]
  BY <1>2 DEF SpawnInsert, SpawnAttach, JoinTake, JoinReturn, Reap, Stop
<1>3. ASSUME NEW j \in Worker, TaskStep(j)
      PROVE  /\ i \in attached => i \in attached'
             /\ Joined(i) => joined'[i] = joined[i]
             /\ task[i] \in Ended => task'[i] = task[i]
  BY <1>3 DEF TaskStep, Acquire, MarkRunning, Return, Expire, Panic, Cancel, MarkDone,
     RecordOutput, MarkTimedOut
<1> QED
  BY <1>1, <1>2, <1>3 DEF PoolNext

-------------------------------------------------------------------------------
(* First picks an element of the set it is given: a nonempty set of the    *)
(* intervals 1..n has a minimal one under inclusion.                       *)

LEMMA LeastElement ==
    ASSUME NEW S, S \subseteq Worker, S # {}
    PROVE  First(S) \in S
<1> DEFINE T == {1..n : n \in S}
<1> DEFINE R == StrictSubsetOrdering(1..NumCoders)
<1>1. IsWellFoundedOn(R, FiniteSubsetsOf(1..NumCoders))
  BY FS_StrictSubsetOrderingWellFounded
<1>2. ASSUME NEW n \in S PROVE 1..n \in FiniteSubsetsOf(1..NumCoders)
  <2>1. n \in Nat /\ n <= NumCoders /\ 1 \in Int /\ n \in Int
    BY FanoutAssumption
  <2>2. IsFiniteSet(1..n)
    BY <2>1, FS_Interval
  <2>3. 1..n \subseteq 1..NumCoders
    BY <2>1, FanoutAssumption
  <2> QED
    BY <2>2, <2>3 DEF FiniteSubsetsOf
<1>3. PICK x \in T : \A y \in T : ~ (<<y, x>> \in R)
  <2>1. T \subseteq FiniteSubsetsOf(1..NumCoders) /\ T # {}
    BY <1>2
  <2> HIDE DEF R, T
  <2> QED
    BY <1>1, <2>1, WFMin
<1>4. PICK m \in S : x = 1..m
  BY <1>3
<1>5. ASSUME NEW n \in S PROVE m <= n
  <2>1. ~ (<<1..n, 1..m>> \in R)
    BY <1>3, <1>4
  <2>2. n \in 1..NumCoders /\ m \in 1..NumCoders
    BY FanoutAssumption
  <2>3. ~(1..n \subseteq 1..m /\ 1..n # 1..m)
    BY <2>1, <2>2, FanoutAssumption DEF StrictSubsetOrdering
  <2> QED
    BY <2>2, <2>3, FanoutAssumption
<1> QED
  BY <1>5 DEF First

LEMMA LeastUnmerged == TypeOK /\ Unmerged # {} => First(Unmerged) \in Unmerged
   /\ First(Unmerged) \in Worker
BY LeastElement DEF TypeOK, Unmerged, Eligible

LEMMA LeastTracked == TypeOK /\ tracked # {} => First(tracked) \in tracked
   /\ First(tracked) \in Worker
BY LeastElement DEF TypeOK

-------------------------------------------------------------------------------
(* How the loops advance.                                                  *)

LEMMA AdvanceStep ==
    ASSUME cur \in Worker, NEW a, NEW b, Advance(a, b)
    PROVE  /\ cur' \in Worker
           /\ pc' \in {a, b}
           /\ pc' = a /\ a # b => cur' = cur + 1 /\ cur < NumCoders
           /\ pc' = b /\ a # b => cur' = 1 /\ cur = NumCoders
BY FanoutAssumption DEF Advance

LEMMA CurRange ==
    TypeOK => NumCoders \in Nat /\ cur \in Nat /\ 1 <= cur /\ cur <= NumCoders
BY FanoutAssumption DEF TypeOK

LEMMA WorkerRange == \A i \in Worker : i \in Nat /\ 1 <= i /\ i <= NumCoders
BY FanoutAssumption

\* Whose branch is eligible depends on three variables, and a skipped coder
\* never is.
LEMMA SameEligible == UNCHANGED <<committed, verify, rejected>> => Eligible' = Eligible
BY DEF Eligible

LEMMA SkipEligible == TypeOK /\ JoinInv /\ SkipCoder => Eligible' = Eligible
BY DEF TypeOK, JoinInv, SkipCoder, Eligible

LEMMA AdjudicateEligible ==
    TypeOK /\ Adjudicate => Eligible' = Eligible \ (rejected' \ rejected)
BY DEF TypeOK, Adjudicate, Eligible

-------------------------------------------------------------------------------
\* Every step keeps the state well typed.
LEMMA TypesNext ==
    ASSUME TypeOK, CountInv, PoolTypeOK', [Next]_vars
    PROVE  TypeOK'
<1> USE CurRange DEF TypeOK, CountInv, BeforeCommit, AfterJoin, Phase, Awaiting,
   Gate, Verify
<1>1. CASE UNCHANGED vars
  BY <1>1 DEF vars, orchVars, gitVars, poolVars
<1>2. CASE CreateWorktree
  BY <1>2, AdvanceStep DEF CreateWorktree, Fail, poolVars
<1>3. CASE SpawnCoder
  BY <1>3, AdvanceStep DEF SpawnCoder, gitVars, poolVars
<1>4. CASE JoinCoder
  BY <1>4 DEF JoinCoder, gitVars, poolVars
<1>5. CASE ReapCoder
  BY <1>5, AdvanceStep DEF ReapCoder, gitVars, poolVars
<1>6. CASE CommitCoder
  BY <1>6 DEF CommitCoder, CommitAll, poolVars
<1>7. CASE SkipCoder
  BY <1>7, AdvanceStep DEF SkipCoder, AfterVerdicts, gitVars, poolVars
<1>8. CASE VerifyCoder
  BY <1>8 DEF VerifyCoder, Verdicts, gitVars, poolVars
<1>9. CASE Adjudicate
  BY <1>9, AdvanceStep DEF Adjudicate, AfterVerdicts, gitVars, poolVars
<1>10. CASE Propose
  BY <1>10 DEF Propose, gitVars, poolVars
<1>11. CASE OpenIntegration
  BY <1>11 DEF OpenIntegration, Fail, poolVars
<1>12. CASE MergeBranch
  BY <1>12, LeastUnmerged DEF MergeBranch, Fail, poolVars
<1>13. CASE CloseIntegration
  BY <1>13 DEF CloseIntegration, Fail, poolVars
<1>14. CASE Conclude
  BY <1>14 DEF Conclude, gitVars, poolVars
<1>15. CASE Unwind
  BY <1>15, LeastTracked DEF Unwind, Removals, poolVars
<1>16. ASSUME NEW i \in Worker, RuntimeStep(i) PROVE TypeOK'
  BY <1>16 DEF RuntimeStep, BeginCoder, Progress, orchVars, gitVars, poolVars
<1>17. ASSUME NEW i \in Worker, CoderEnds(i) PROVE TypeOK'
  BY <1>17 DEF CoderEnds, orchVars, gitVars, poolVars
<1>18. ASSUME NEW i \in Worker, EditTree(i) PROVE TypeOK'
  BY <1>18 DEF EditTree, orchVars, poolVars
<1>19. ASSUME NEW i \in Worker, StopWorker(i) PROVE TypeOK'
  BY <1>19 DEF StopWorker, orchVars, gitVars, poolVars
<1>20. CASE CancelRun
  BY <1>20, LeastUnmerged DEF CancelRun, GitChild, Awaiting, gitVars, poolVars
<1>21. CASE Crash
  BY <1>21, LeastUnmerged DEF Crash, GitChild, gitVars, poolVars
<1> QED
  BY <1>1, <1>2, <1>3, <1>4, <1>5, <1>6, <1>7, <1>8, <1>9, <1>10, <1>11, <1>12,
     <1>13, <1>14, <1>15, <1>16, <1>17, <1>18, <1>19, <1>20, <1>21 DEF Next,
        Orchestrator

\* ... and counts the finished coders.
LEMMA CountNext ==
    ASSUME TypeOK, TypeOK', CountInv, [Next]_vars
    PROVE  CountInv'
<1> USE CurRange DEF CountInv, BeforeCommit, AfterJoin
<1>1. CASE UNCHANGED vars
  BY <1>1 DEF vars, orchVars, gitVars, poolVars
<1>2. CASE CreateWorktree
  BY <1>2 DEF CreateWorktree, Fail, Advance, poolVars
<1>3. CASE SpawnCoder
  BY <1>3 DEF SpawnCoder, gitVars, Advance, poolVars
<1>4. CASE JoinCoder
  BY <1>4 DEF JoinCoder, gitVars, poolVars
<1>5. CASE ReapCoder
  BY <1>5 DEF ReapCoder, gitVars, Advance, poolVars
<1>6. CASE CommitCoder
  BY <1>6 DEF CommitCoder, CommitAll, poolVars
<1>7. CASE SkipCoder
  BY <1>7 DEF SkipCoder, AfterVerdicts, gitVars, Advance, poolVars
<1>8. CASE VerifyCoder
  BY <1>8 DEF VerifyCoder, Verdicts, gitVars, poolVars
<1>9. CASE Adjudicate
  BY <1>9 DEF Adjudicate, AfterVerdicts, gitVars, Advance, poolVars
<1>10. CASE Propose
  BY <1>10 DEF Propose, gitVars, poolVars
<1>11. CASE OpenIntegration
  BY <1>11 DEF OpenIntegration, Fail, poolVars
<1>12. CASE MergeBranch
  BY <1>12, LeastUnmerged DEF MergeBranch, Fail, poolVars
<1>13. CASE CloseIntegration
  BY <1>13 DEF CloseIntegration, Fail, poolVars
<1>14. CASE Conclude
  BY <1>14 DEF Conclude, gitVars, poolVars
<1>15. CASE Unwind
  BY <1>15, LeastTracked DEF Unwind, Removals, poolVars
<1>16. ASSUME NEW i \in Worker, RuntimeStep(i) PROVE CountInv'
  BY <1>16 DEF RuntimeStep, BeginCoder, Progress, orchVars, gitVars, poolVars
<1>17. ASSUME NEW i \in Worker, CoderEnds(i) PROVE CountInv'
  BY <1>17 DEF CoderEnds, orchVars, gitVars, poolVars
<1>18. ASSUME NEW i \in Worker, EditTree(i) PROVE CountInv'
  BY <1>18 DEF EditTree, orchVars, poolVars
<1>19. ASSUME NEW i \in Worker, StopWorker(i) PROVE CountInv'
  BY <1>19 DEF StopWorker, orchVars, gitVars, poolVars
<1>20. CASE CancelRun
  BY <1>20, LeastUnmerged DEF CancelRun, GitChild, Awaiting, gitVars, poolVars
<1>21. CASE Crash
  BY <1>21, LeastUnmerged DEF Crash, GitChild, gitVars, poolVars
<1> QED
  BY <1>1, <1>2, <1>3, <1>4, <1>5, <1>6, <1>7, <1>8, <1>9, <1>10, <1>11, <1>12,
     <1>13, <1>14, <1>15, <1>16, <1>17, <1>18, <1>19, <1>20, <1>21 DEF Next,
        Orchestrator

\* The loops keep their place.
LEMMA LoopNext ==
    ASSUME TypeOK, TypeOK', LoopInv, [Next]_vars
    PROVE  LoopInv'
<1>0. \A i \in Worker :
         /\ i \in attached => i \in attached'
         /\ Joined(i) => joined'[i] = joined[i]
         /\ task[i] \in Ended => task'[i] = task[i]
  BY PoolStable, StepIsPoolStep DEF TypeOK
<1> USE CurRange, WorkerRange DEF LoopInv, AfterJoin, Joined
<1>1. CASE UNCHANGED vars
  BY <1>1 DEF vars, orchVars, gitVars, poolVars
<1>2. CASE CreateWorktree
  BY <1>2, <1>0 DEF CreateWorktree, Fail, Advance, poolVars
<1>3. CASE SpawnCoder
  BY <1>3, <1>0 DEF SpawnCoder, gitVars, Advance, poolVars, SpawnInsert, SpawnAttach
<1>4. CASE JoinCoder
  <2>1. joined \in [Worker -> JoinState] /\ cur \in Worker
    BY DEF TypeOK, PoolTypeOK
  <2>2. CASE pc = "join"
    BY <1>4, <1>0, <2>1, <2>2 DEF JoinCoder, JoinTake
  <2>3. CASE pc = "await"
    <3>1. joined'[cur] \in {"Some", "None"}
      BY <1>4, <2>1, <2>3 DEF JoinCoder, JoinReturn
    <3> QED
      BY <1>4, <1>0, <2>3, <3>1 DEF JoinCoder
  <2> QED
    BY <1>4, <2>2, <2>3 DEF JoinCoder
<1>5. CASE ReapCoder
  BY <1>5, <1>0 DEF ReapCoder, gitVars, Advance, poolVars, Reap
<1>6. CASE CommitCoder
  BY <1>6, <1>0 DEF CommitCoder, CommitAll, poolVars
<1>7. CASE SkipCoder
  BY <1>7, <1>0 DEF SkipCoder, AfterVerdicts, gitVars, Advance, poolVars
<1>8. CASE VerifyCoder
  BY <1>8, <1>0 DEF VerifyCoder, Verdicts, gitVars, poolVars
<1>9. CASE Adjudicate
  BY <1>9, <1>0 DEF Adjudicate, AfterVerdicts, gitVars, Advance, poolVars
<1>10. CASE Propose
  BY <1>10, <1>0 DEF Propose, gitVars, poolVars
<1>11. CASE OpenIntegration
  BY <1>11, <1>0 DEF OpenIntegration, Fail, poolVars
<1>12. CASE MergeBranch
  BY <1>12, <1>0, LeastUnmerged DEF MergeBranch, Fail, poolVars
<1>13. CASE CloseIntegration
  BY <1>13, <1>0 DEF CloseIntegration, Fail, poolVars
<1>14. CASE Conclude
  BY <1>14, <1>0 DEF Conclude, gitVars, poolVars
<1>15. CASE Unwind
  BY <1>15, <1>0, LeastTracked DEF Unwind, Removals, poolVars
<1>16. ASSUME NEW i \in Worker, RuntimeStep(i) PROVE LoopInv'
  BY <1>16, <1>0 DEF RuntimeStep, BeginCoder, Progress, orchVars, gitVars, poolVars,
     Acquire, MarkRunning, Expire, Cancel, MarkDone, RecordOutput, MarkTimedOut
<1>17. ASSUME NEW i \in Worker, CoderEnds(i) PROVE LoopInv'
  BY <1>17, <1>0 DEF CoderEnds, orchVars, gitVars, poolVars, Return, Panic
<1>18. ASSUME NEW i \in Worker, EditTree(i) PROVE LoopInv'
  BY <1>18, <1>0 DEF EditTree, orchVars, poolVars
<1>19. ASSUME NEW i \in Worker, StopWorker(i) PROVE LoopInv'
  BY <1>19, <1>0 DEF StopWorker, orchVars, gitVars, poolVars, Stop
<1>20. CASE CancelRun
  BY <1>20, <1>0, LeastUnmerged DEF CancelRun, GitChild, Awaiting, gitVars, poolVars
<1>21. CASE Crash
  BY <1>21, <1>0, LeastUnmerged DEF Crash, GitChild, gitVars, poolVars
<1> QED
  BY <1>1, <1>2, <1>3, <1>4, <1>5, <1>6, <1>7, <1>8, <1>9, <1>10, <1>11, <1>12,
     <1>13, <1>14, <1>15, <1>16, <1>17, <1>18, <1>19, <1>20, <1>21 DEF Next,
        Orchestrator

\* The orchestrator remembers every join that gave nothing.
LEMMA JoinNext ==
    ASSUME TypeOK, LoopInv, JoinInv, [Next]_vars
    PROVE  JoinInv'
<1>0. \A i \in Worker :
         /\ i \in attached => i \in attached'
         /\ Joined(i) => joined'[i] = joined[i]
         /\ task[i] \in Ended => task'[i] = task[i]
  BY PoolStable, StepIsPoolStep DEF TypeOK
<1> USE CurRange, WorkerRange DEF JoinInv, LoopInv, Joined, BeforeCommit, AfterJoin,
   TypeOK
<1>1. CASE UNCHANGED vars
  BY <1>1 DEF vars, orchVars, gitVars, poolVars
<1>2. CASE CreateWorktree
  BY <1>2, <1>0 DEF CreateWorktree, Fail, Advance, poolVars
<1>3. CASE SpawnCoder
  BY <1>3, <1>0 DEF SpawnCoder, gitVars, Advance, poolVars
<1>4. CASE JoinCoder
  BY <1>4, <1>0 DEF JoinCoder, gitVars, poolVars
<1>5. CASE ReapCoder
  BY <1>5, <1>0 DEF ReapCoder, gitVars, Advance, poolVars
<1>6. CASE CommitCoder
  BY <1>6, <1>0 DEF CommitCoder, CommitAll, poolVars
<1>7. CASE SkipCoder
  BY <1>7, <1>0 DEF SkipCoder, AfterVerdicts, gitVars, Advance, poolVars
<1>8. CASE VerifyCoder
  BY <1>8, <1>0 DEF VerifyCoder, Verdicts, gitVars, poolVars
<1>9. CASE Adjudicate
  BY <1>9, <1>0 DEF Adjudicate, AfterVerdicts, gitVars, Advance, poolVars
<1>10. CASE Propose
  BY <1>10, <1>0 DEF Propose, gitVars, poolVars
<1>11. CASE OpenIntegration
  BY <1>11, <1>0 DEF OpenIntegration, Fail, poolVars
<1>12. CASE MergeBranch
  BY <1>12, <1>0, LeastUnmerged DEF MergeBranch, Fail, poolVars
<1>13. CASE CloseIntegration
  BY <1>13, <1>0 DEF CloseIntegration, Fail, poolVars
<1>14. CASE Conclude
  BY <1>14, <1>0 DEF Conclude, gitVars, poolVars
<1>15. CASE Unwind
  BY <1>15, <1>0, LeastTracked DEF Unwind, Removals, poolVars
<1>16. ASSUME NEW i \in Worker, RuntimeStep(i) PROVE JoinInv'
  BY <1>16, <1>0 DEF RuntimeStep, BeginCoder, Progress, orchVars, gitVars, poolVars
<1>17. ASSUME NEW i \in Worker, CoderEnds(i) PROVE JoinInv'
  BY <1>17, <1>0 DEF CoderEnds, orchVars, gitVars, poolVars
<1>18. ASSUME NEW i \in Worker, EditTree(i) PROVE JoinInv'
  BY <1>18, <1>0 DEF EditTree, orchVars, poolVars, gitVars
<1>19. ASSUME NEW i \in Worker, StopWorker(i) PROVE JoinInv'
  BY <1>19, <1>0 DEF StopWorker, orchVars, gitVars, poolVars
<1>20. CASE CancelRun
  BY <1>20, <1>0, LeastUnmerged DEF CancelRun, GitChild, Awaiting, gitVars, poolVars
<1>21. CASE Crash
  BY <1>21, <1>0, LeastUnmerged DEF Crash, GitChild, gitVars, poolVars
<1> QED
  BY <1>1, <1>2, <1>3, <1>4, <1>5, <1>6, <1>7, <1>8, <1>9, <1>10, <1>11, <1>12,
     <1>13, <1>14, <1>15, <1>16, <1>17, <1>18, <1>19, <1>20, <1>21 DEF Next,
        Orchestrator

\* Nothing but eligible branches is merged.
LEMMA MergeNext ==
    ASSUME TypeOK, MergeInv, [Next]_vars
    PROVE  MergeInv'
<1> USE CurRange DEF MergeInv, BeforeMerge, BeforeCommit, AfterJoin, TypeOK,
   Eligible, Unmerged
<1>1. CASE UNCHANGED vars
  BY <1>1 DEF vars, orchVars, gitVars, poolVars
<1>2. CASE CreateWorktree
  BY <1>2 DEF CreateWorktree, Fail, Advance, poolVars
<1>3. CASE SpawnCoder
  BY <1>3 DEF SpawnCoder, gitVars, Advance, poolVars
<1>4. CASE JoinCoder
  BY <1>4 DEF JoinCoder, gitVars, poolVars
<1>5. CASE ReapCoder
  BY <1>5 DEF ReapCoder, gitVars, Advance, poolVars
<1>6. CASE CommitCoder
  BY <1>6 DEF CommitCoder, CommitAll, poolVars
<1>7. CASE SkipCoder
  BY <1>7 DEF SkipCoder, AfterVerdicts, gitVars, Advance, poolVars
<1>8. CASE VerifyCoder
  BY <1>8 DEF VerifyCoder, Verdicts, gitVars, poolVars
<1>9. CASE Adjudicate
  BY <1>9 DEF Adjudicate, AfterVerdicts, gitVars, Advance, poolVars
<1>10. CASE Propose
  BY <1>10 DEF Propose, gitVars, poolVars
<1>11. CASE OpenIntegration
  BY <1>11 DEF OpenIntegration, Fail, poolVars
<1>12. CASE MergeBranch
  BY <1>12, LeastUnmerged DEF MergeBranch, Fail, poolVars
<1>13. CASE CloseIntegration
  BY <1>13 DEF CloseIntegration, Fail, poolVars
<1>14. CASE Conclude
  BY <1>14 DEF Conclude, gitVars, poolVars
<1>15. CASE Unwind
  BY <1>15, LeastTracked DEF Unwind, Removals, poolVars
<1>16. ASSUME NEW i \in Worker, RuntimeStep(i) PROVE MergeInv'
  BY <1>16 DEF RuntimeStep, BeginCoder, Progress, orchVars, gitVars, poolVars
<1>17. ASSUME NEW i \in Worker, CoderEnds(i) PROVE MergeInv'
  BY <1>17 DEF CoderEnds, orchVars, gitVars, poolVars
<1>18. ASSUME NEW i \in Worker, EditTree(i) PROVE MergeInv'
  BY <1>18 DEF EditTree, orchVars, poolVars
<1>19. ASSUME NEW i \in Worker, StopWorker(i) PROVE MergeInv'
  BY <1>19 DEF StopWorker, orchVars, gitVars, poolVars
<1>20. CASE CancelRun
  BY <1>20, LeastUnmerged DEF CancelRun, GitChild, Awaiting, gitVars, poolVars
<1>21. CASE Crash
  BY <1>21, LeastUnmerged DEF Crash, GitChild, gitVars, poolVars
<1> QED
  BY <1>1, <1>2, <1>3, <1>4, <1>5, <1>6, <1>7, <1>8, <1>9, <1>10, <1>11, <1>12,
     <1>13, <1>14, <1>15, <1>16, <1>17, <1>18, <1>19, <1>20, <1>21 DEF Next,
        Orchestrator

\* No branch with a commit that is not integrated is lost.
LEMMA BranchNext ==
    ASSUME TypeOK, LoopInv, MergeInv, BranchInv, [Next]_vars
    PROVE  BranchInv'
<1> USE DEF BranchInv, CommitsRecoverable, TypeOK, MergeInv, LoopInv
<1>1. CASE UNCHANGED vars
  BY <1>1 DEF vars, orchVars, gitVars, poolVars
<1>2. CASE CreateWorktree
  BY <1>2 DEF CreateWorktree, Fail, Advance, poolVars
<1>3. CASE SpawnCoder
  BY <1>3 DEF SpawnCoder, gitVars, Advance, poolVars
<1>4. CASE JoinCoder
  BY <1>4 DEF JoinCoder, gitVars, poolVars
<1>5. CASE ReapCoder
  BY <1>5 DEF ReapCoder, gitVars, Advance, poolVars
<1>6. CASE CommitCoder
  BY <1>6 DEF CommitCoder, CommitAll, poolVars
<1>7. CASE SkipCoder
  BY <1>7 DEF SkipCoder, AfterVerdicts, gitVars, Advance, poolVars
<1>8. CASE VerifyCoder
  BY <1>8 DEF VerifyCoder, Verdicts, gitVars, poolVars
<1>9. CASE Adjudicate
  BY <1>9 DEF Adjudicate, AfterVerdicts, gitVars, Advance, poolVars
<1>10. CASE Propose
  BY <1>10 DEF Propose, gitVars, poolVars
<1>11. CASE OpenIntegration
  BY <1>11 DEF OpenIntegration, Fail, poolVars
<1>12. CASE MergeBranch
  BY <1>12, LeastUnmerged DEF MergeBranch, Fail, poolVars
<1>13. CASE CloseIntegration
  BY <1>13 DEF CloseIntegration, Fail, poolVars
<1>14. CASE Conclude
  BY <1>14 DEF Conclude, gitVars, poolVars
<1>15. CASE Unwind
  BY <1>15, LeastTracked DEF Unwind, Removals, poolVars
<1>16. ASSUME NEW i \in Worker, RuntimeStep(i) PROVE BranchInv'
  BY <1>16 DEF RuntimeStep, BeginCoder, Progress, orchVars, gitVars, poolVars
<1>17. ASSUME NEW i \in Worker, CoderEnds(i) PROVE BranchInv'
  BY <1>17 DEF CoderEnds, orchVars, gitVars, poolVars
<1>18. ASSUME NEW i \in Worker, EditTree(i) PROVE BranchInv'
  BY <1>18 DEF EditTree, orchVars, poolVars, Alive
<1>19. ASSUME NEW i \in Worker, StopWorker(i) PROVE BranchInv'
  BY <1>19 DEF StopWorker, orchVars, gitVars, poolVars
<1>20. CASE CancelRun
  BY <1>20, LeastUnmerged DEF CancelRun, GitChild, Awaiting, gitVars, poolVars
<1>21. CASE Crash
  BY <1>21, LeastUnmerged DEF Crash, GitChild, gitVars, poolVars
<1> QED
  BY <1>1, <1>2, <1>3, <1>4, <1>5, <1>6, <1>7, <1>8, <1>9, <1>10, <1>11, <1>12,
     <1>13, <1>14, <1>15, <1>16, <1>17, <1>18, <1>19, <1>20, <1>21 DEF Next,
        Orchestrator

\* Once joined, every coder's task has ended.
LEMMA JoinedEnded ==
    PoolInv /\ LoopInv /\ pc \in AfterJoin => \A i \in Worker : task[i] \in Ended
BY DEF PoolInv, WorkerInv, LoopInv, Joined, Ended

\* The guard owns what there is to remove.
LEMMA EndNext ==
    ASSUME TypeOK, PoolInv, LoopInv, EndInv, [Next]_vars
    PROVE  EndInv'
<1>0. \A i \in Worker :
         /\ i \in attached => i \in attached'
         /\ Joined(i) => joined'[i] = joined[i]
         /\ task[i] \in Ended => task'[i] = task[i]
  BY PoolStable, StepIsPoolStep DEF TypeOK
<1> USE JoinedEnded DEF EndInv, AtWork, BeforeMerge, BeforeCommit, AfterJoin, TypeOK,
   PoolTypeOK
<1>1. CASE UNCHANGED vars
  BY <1>1 DEF vars, orchVars, gitVars, poolVars
<1>2. CASE CreateWorktree
  BY <1>2, <1>0 DEF CreateWorktree, Fail, Advance, poolVars, LoopInv
<1>3. CASE SpawnCoder
  BY <1>3, <1>0 DEF SpawnCoder, gitVars, Advance, poolVars, SpawnInsert, SpawnAttach
<1>4. CASE JoinCoder
  BY <1>4, <1>0 DEF JoinCoder, gitVars, poolVars, JoinTake, JoinReturn
<1>5. CASE ReapCoder
  BY <1>5, <1>0 DEF ReapCoder, gitVars, Advance, poolVars, Reap
<1>6. CASE CommitCoder
  BY <1>6, <1>0 DEF CommitCoder, CommitAll, poolVars
<1>7. CASE SkipCoder
  BY <1>7, <1>0 DEF SkipCoder, AfterVerdicts, gitVars, Advance, poolVars
<1>8. CASE VerifyCoder
  BY <1>8, <1>0 DEF VerifyCoder, Verdicts, gitVars, poolVars
<1>9. CASE Adjudicate
  BY <1>9, <1>0 DEF Adjudicate, AfterVerdicts, gitVars, Advance, poolVars
<1>10. CASE Propose
  BY <1>10, <1>0 DEF Propose, gitVars, poolVars
<1>11. CASE OpenIntegration
  BY <1>11, <1>0 DEF OpenIntegration, Fail, poolVars
<1>12. CASE MergeBranch
  BY <1>12, <1>0, LeastUnmerged DEF MergeBranch, Fail, poolVars
<1>13. CASE CloseIntegration
  BY <1>13, <1>0 DEF CloseIntegration, Fail, poolVars
<1>14. CASE Conclude
  BY <1>14, <1>0 DEF Conclude, gitVars, poolVars
<1>15. CASE Unwind
  <2>1. CASE tracked = {}
    BY <1>15, <1>0, <2>1 DEF Unwind, poolVars
  <2>2. CASE tracked # {}
    <3>1. outcome \in {"ok", "err"} => dirs' = dirs \ {First(tracked)}
      BY <1>15, <2>2, LeastTracked DEF Unwind, Removals, Ended
    <3>2. tracked' = tracked \ {First(tracked)} /\ pc' = "unwind" /\ outcome # "running"
      BY <1>15, <2>2 DEF Unwind
    <3>3. UNCHANGED <<task, outcome, intDir>> /\ pc = "unwind"
      BY <1>15 DEF Unwind, poolVars
    <3> QED
      BY <3>1, <3>2, <3>3
  <2> QED
    BY <2>1, <2>2
<1>16. ASSUME NEW i \in Worker, RuntimeStep(i) PROVE EndInv'
  BY <1>16, <1>0 DEF RuntimeStep, BeginCoder, Progress, orchVars, gitVars, poolVars,
     Acquire, MarkRunning, Expire, Cancel, MarkDone, RecordOutput, MarkTimedOut
<1>17. ASSUME NEW i \in Worker, CoderEnds(i) PROVE EndInv'
  BY <1>17, <1>0 DEF CoderEnds, orchVars, gitVars, poolVars, Return, Panic
<1>18. ASSUME NEW i \in Worker, EditTree(i) PROVE EndInv'
  BY <1>18, <1>0 DEF EditTree, orchVars, poolVars
<1>19. ASSUME NEW i \in Worker, StopWorker(i) PROVE EndInv'
  BY <1>19, <1>0 DEF StopWorker, orchVars, gitVars, poolVars, Stop
<1>20. CASE CancelRun
  BY <1>20, <1>0, LeastUnmerged DEF CancelRun, GitChild, Awaiting, gitVars, poolVars
<1>21. CASE Crash
  BY <1>21, <1>0, LeastUnmerged DEF Crash, GitChild, gitVars, poolVars
<1> QED
  BY <1>1, <1>2, <1>3, <1>4, <1>5, <1>6, <1>7, <1>8, <1>9, <1>10, <1>11, <1>12,
     <1>13, <1>14, <1>15, <1>16, <1>17, <1>18, <1>19, <1>20, <1>21 DEF Next,
        Orchestrator

\* The lists of the report follow the integration branch.
LEMMA ReportNext ==
    ASSUME TypeOK, JoinInv, MergeInv, EndInv, ReportInv, [Next]_vars
    PROVE  ReportInv'
<1> USE CurRange DEF ReportInv, EndInv, JoinInv, MergeInv, AtWork, BeforeMerge,
   BeforeCommit, AfterJoin, TypeOK, Eligible, Unmerged
<1>1. CASE UNCHANGED vars
  BY <1>1 DEF vars, orchVars, gitVars, poolVars
<1>2. CASE CreateWorktree
  BY <1>2 DEF CreateWorktree, Fail, Advance, poolVars
<1>3. CASE SpawnCoder
  BY <1>3 DEF SpawnCoder, gitVars, Advance, poolVars
<1>4. CASE JoinCoder
  BY <1>4 DEF JoinCoder, gitVars, poolVars
<1>5. CASE ReapCoder
  BY <1>5 DEF ReapCoder, gitVars, Advance, poolVars
<1>6. CASE CommitCoder
  BY <1>6 DEF CommitCoder, CommitAll, poolVars
<1>7. CASE SkipCoder
  BY <1>7 DEF SkipCoder, AfterVerdicts, gitVars, Advance, poolVars
<1>8. CASE VerifyCoder
  BY <1>8 DEF VerifyCoder, Verdicts, gitVars, poolVars
<1>9. CASE Adjudicate
  BY <1>9 DEF Adjudicate, AfterVerdicts, gitVars, Advance, poolVars
<1>10. CASE Propose
  BY <1>10 DEF Propose, gitVars, poolVars
<1>11. CASE OpenIntegration
  BY <1>11 DEF OpenIntegration, Fail, poolVars
<1>12. CASE MergeBranch
  <2>1. UNCHANGED Eligible
    BY <1>12, SameEligible DEF MergeBranch
  <2> HIDE DEF Eligible
  <2>2. CASE Unmerged = {}
    BY <1>12, <2>1, <2>2 DEF MergeBranch
  <2>3. CASE Unmerged # {}
    <3>1. First(Unmerged) \in Eligible \ (merged \cup conflicted)
      BY <2>3, LeastUnmerged
    <3>2. CASE outcome' = "running"
      <4> DEFINE i == First(Unmerged)
      <4>1. \/ merged' = merged \cup {i} /\ intHas' = intHas \cup {i} /\ conflicted' = conflicted
            \/ merged' = merged /\ intHas' = intHas /\ conflicted' = conflicted \cup {i}
        BY <1>12, <2>3, <3>2 DEF MergeBranch, Fail
      <4>2. pc' = "merge" /\ pc = "merge" /\ outcome = "running" /\ outcome' = "running"
        BY <1>12, <2>3, <3>2 DEF MergeBranch, Fail
      <4> HIDE DEF i, Unmerged
      <4>3. i \in Eligible /\ i \notin merged /\ i \notin conflicted
        BY <3>1 DEF i
      <4>4. intHas = merged /\ merged \cap conflicted = {} /\ conflicted \subseteq Eligible
        BY <4>2 DEF ReportInv
      <4>5. intHas' = merged' /\ merged' \cap conflicted' = {}
        BY <4>1, <4>3, <4>4
      <4>6. conflicted' \subseteq Eligible'
        BY <2>1, <4>1, <4>3, <4>4
      <4> QED
        BY <4>2, <4>5, <4>6 DEF ReportInv
    <3>3. CASE outcome' # "running"
      BY <1>12, <2>3, <3>3 DEF MergeBranch, Fail
    <3> QED
      BY <3>2, <3>3
  <2> QED
    BY <2>2, <2>3
<1>13. CASE CloseIntegration
  BY <1>13 DEF CloseIntegration, Fail, poolVars
<1>14. CASE Conclude
  BY <1>14 DEF Conclude, gitVars, poolVars
<1>15. CASE Unwind
  BY <1>15, LeastTracked DEF Unwind, Removals, poolVars
<1>16. ASSUME NEW i \in Worker, RuntimeStep(i) PROVE ReportInv'
  BY <1>16 DEF RuntimeStep, BeginCoder, Progress, orchVars, gitVars, poolVars
<1>17. ASSUME NEW i \in Worker, CoderEnds(i) PROVE ReportInv'
  BY <1>17 DEF CoderEnds, orchVars, gitVars, poolVars
<1>18. ASSUME NEW i \in Worker, EditTree(i) PROVE ReportInv'
  BY <1>18 DEF EditTree, orchVars, poolVars
<1>19. ASSUME NEW i \in Worker, StopWorker(i) PROVE ReportInv'
  BY <1>19 DEF StopWorker, orchVars, gitVars, poolVars
<1>20. CASE CancelRun
  BY <1>20, LeastUnmerged DEF CancelRun, GitChild, Awaiting, gitVars, poolVars
<1>21. CASE Crash
  BY <1>21, LeastUnmerged DEF Crash, GitChild, gitVars, poolVars
<1> QED
  BY <1>1, <1>2, <1>3, <1>4, <1>5, <1>6, <1>7, <1>8, <1>9, <1>10, <1>11, <1>12,
     <1>13, <1>14, <1>15, <1>16, <1>17, <1>18, <1>19, <1>20, <1>21 DEF Next,
        Orchestrator

\* The events keep their order.
LEMMA EventNext ==
    ASSUME TypeOK, PoolInv, LoopInv, CountInv, JoinInv, MergeInv, EndInv, ReportInv,
       EventInv, [Next]_vars
    PROVE  EventInv'
<1>0. \A i \in Worker :
         /\ i \in attached => i \in attached'
         /\ Joined(i) => joined'[i] = joined[i]
         /\ task[i] \in Ended => task'[i] = task[i]
  BY PoolStable, StepIsPoolStep DEF TypeOK
<1> USE CurRange, JoinedEnded DEF EventInv, CountInv, EndInv, ReportInv, AtWork,
   BeforeMerge, BeforeCommit, AfterJoin, TypeOK, PoolTypeOK
<1>1. CASE UNCHANGED vars
  BY <1>1, SameEligible DEF vars, orchVars, gitVars, poolVars
<1>2. CASE CreateWorktree
  BY <1>2, <1>0, SameEligible DEF CreateWorktree, Fail, Advance, poolVars
<1>3. CASE SpawnCoder
  BY <1>3, <1>0, SameEligible DEF SpawnCoder, gitVars, Advance, poolVars,
     SpawnInsert, SpawnAttach
<1>4. CASE JoinCoder
  BY <1>4, <1>0, SameEligible DEF JoinCoder, gitVars, poolVars, JoinTake, JoinReturn
<1>5. CASE ReapCoder
  BY <1>5, <1>0, SameEligible DEF ReapCoder, gitVars, Advance, poolVars, Reap
<1>6. CASE CommitCoder
  BY <1>6, <1>0 DEF CommitCoder, CommitAll, poolVars
<1>7. CASE SkipCoder
  BY <1>7, <1>0, SkipEligible DEF SkipCoder, AfterVerdicts, gitVars, Advance,
     poolVars, MergeInv
<1>8. CASE VerifyCoder
  BY <1>8, <1>0 DEF VerifyCoder, Verdicts, gitVars, poolVars
<1>9. CASE Adjudicate
  BY <1>9, <1>0, AdjudicateEligible DEF Adjudicate, AfterVerdicts, gitVars, Advance,
     poolVars, MergeInv
<1>10. CASE Propose
  BY <1>10, <1>0, SameEligible DEF Propose, gitVars, poolVars
<1>11. CASE OpenIntegration
  BY <1>11, <1>0, SameEligible DEF OpenIntegration, Fail, poolVars
<1>12. CASE MergeBranch
  BY <1>12, <1>0, LeastUnmerged, SameEligible DEF MergeBranch, Fail, poolVars
<1>13. CASE CloseIntegration
  BY <1>13, <1>0, SameEligible DEF CloseIntegration, Fail, poolVars, Unmerged
<1>14. CASE Conclude
  BY <1>14, <1>0, SameEligible DEF Conclude, gitVars, poolVars
<1>15. CASE Unwind
  BY <1>15, <1>0, LeastTracked, SameEligible DEF Unwind, Removals, poolVars
<1>16. ASSUME NEW i \in Worker, RuntimeStep(i) PROVE EventInv'
  BY <1>16, <1>0, SameEligible DEF RuntimeStep, BeginCoder, Progress, orchVars,
     gitVars, poolVars, Acquire, MarkRunning, Expire, Cancel, MarkDone, RecordOutput,
        MarkTimedOut
<1>17. ASSUME NEW i \in Worker, CoderEnds(i) PROVE EventInv'
  BY <1>17, <1>0, SameEligible DEF CoderEnds, orchVars, gitVars, poolVars, Return, Panic
<1>18. ASSUME NEW i \in Worker, EditTree(i) PROVE EventInv'
  BY <1>18, <1>0, SameEligible DEF EditTree, orchVars, poolVars
<1>19. ASSUME NEW i \in Worker, StopWorker(i) PROVE EventInv'
  BY <1>19, <1>0, SameEligible DEF StopWorker, orchVars, gitVars, poolVars, Stop
<1>20. CASE CancelRun
  BY <1>20, <1>0, LeastUnmerged, SameEligible DEF CancelRun, GitChild, Awaiting,
     gitVars, poolVars
<1>21. CASE Crash
  BY <1>21, <1>0, LeastUnmerged, SameEligible DEF Crash, GitChild, gitVars, poolVars
<1> QED
  BY <1>1, <1>2, <1>3, <1>4, <1>5, <1>6, <1>7, <1>8, <1>9, <1>10, <1>11, <1>12,
     <1>13, <1>14, <1>15, <1>16, <1>17, <1>18, <1>19, <1>20, <1>21 DEF Next,
        Orchestrator

-------------------------------------------------------------------------------
(* The invariant of a run.                                                 *)

LEMMA FanoutInitInv == Init => FanoutInv
<1> SUFFICES ASSUME Init PROVE FanoutInv
  OBVIOUS
<1>1. PoolInv
  BY PoolInitInv DEF Init
<1>2. TypeOK
  <2>1. 1 \in Worker /\ 0 \in 0..NumCoders
    BY FanoutAssumption
  <2> QED
    BY <1>1, <2>1 DEF Init, TypeOK, PoolInv, Phase, Awaiting, Verify
<1>3. LoopInv /\ CountInv /\ JoinInv /\ BranchInv
  BY <1>2 DEF Init, PoolInit, LoopInv, CountInv, JoinInv, BranchInv, CommitsRecoverable,
     AfterJoin, BeforeCommit, TypeOK
<1>4. MergeInv
  BY <1>2 DEF Init, MergeInv, TypeOK
<1>5. EndInv /\ ReportInv /\ EventInv
  BY <1>2 DEF Init, PoolInit, EndInv, ReportInv, EventInv, AtWork, BeforeMerge,
     BeforeCommit, AfterJoin
<1> QED
  BY <1>1, <1>2, <1>3, <1>4, <1>5 DEF FanoutInv

LEMMA FanoutNextInv == FanoutInv /\ [Next]_vars => FanoutInv'
<1> SUFFICES ASSUME FanoutInv, [Next]_vars PROVE FanoutInv'
  OBVIOUS
<1>1. TypeOK /\ PoolInv /\ LoopInv /\ CountInv /\ JoinInv /\ MergeInv /\ BranchInv
      /\ EndInv /\ ReportInv /\ EventInv
  BY DEF FanoutInv
<1>2. PoolInv'
  BY <1>1, StepIsPoolStep, PoolNextInv
<1>3. TypeOK'
  BY <1>1, <1>2, TypesNext DEF PoolInv
<1>4. LoopInv' /\ CountInv'
  BY <1>1, <1>3, LoopNext, CountNext
<1>5. JoinInv' /\ MergeInv' /\ BranchInv'
  BY <1>1, JoinNext, MergeNext, BranchNext
<1>6. EndInv' /\ ReportInv' /\ EventInv'
  BY <1>1, EndNext, ReportNext, EventNext
<1> QED
  BY <1>2, <1>3, <1>4, <1>5, <1>6 DEF FanoutInv

\* The inductive invariant of a run.
THEOREM FanoutInvariant == Spec => []FanoutInv
BY FanoutInitInv, FanoutNextInv, PTL DEF Spec

\* The state of a run stays well typed; in particular no loop runs past the
\* last coder.
THEOREM FanoutTypes == Spec => []TypeOK
<1>1. FanoutInv => TypeOK
  BY DEF FanoutInv
<1> QED
  BY <1>1, FanoutInvariant, PTL

\* A run uses the pool as PoolSpec prescribes: it spawns, joins and reaps each
\* worker in that order, so what holds of the pool holds of its pool.
THEOREM FanoutUsesPool == Spec => PoolSpec
<1>1. Init => PoolInit
  BY DEF Init
<1>2. FanoutInv /\ [Next]_vars => [PoolNext]_poolVars
  BY StepIsPoolStep DEF FanoutInv
<1> QED
  BY <1>1, <1>2, FanoutInvariant, PTL DEF Spec, PoolSpec

\* Nothing is committed while a coder is alive, and nothing of a coder that
\* did not run to its end.
THEOREM FanoutQuiescent == Spec => []CommitIsQuiescent
<1>1. FanoutInv => CommitIsQuiescent
  <2> SUFFICES ASSUME FanoutInv PROVE CommitIsQuiescent
    OBVIOUS
  <2>1. pc \in AfterJoin => \A i \in Worker : task[i] \in Ended
    BY JoinedEnded DEF FanoutInv
  <2>2. ASSUME NEW i \in committed PROVE task[i] = "gaveRun" /\ i \notin timedOut
    BY DEF FanoutInv, TypeOK, JoinInv, PoolInv, WorkerInv
  <2> QED
    BY <2>1, <2>2 DEF CommitIsQuiescent, AfterJoin
<1> QED
  BY <1>1, FanoutInvariant, PTL

\* Nothing reaches the integration branch past the configured gate.
THEOREM FanoutGated == Spec => []IntegratedWasGated
<1>1. FanoutInv => IntegratedWasGated
  BY DEF FanoutInv, TypeOK, MergeInv, Eligible, Verdicts, IntegratedWasGated, Gate
<1> QED
  BY <1>1, FanoutInvariant, PTL

\* No commit is lost, whatever ends the run and whenever it does.
THEOREM FanoutRecoverable == Spec => []CommitsRecoverable
<1>1. FanoutInv => CommitsRecoverable
  BY DEF FanoutInv, BranchInv
<1> QED
  BY <1>1, FanoutInvariant, PTL

\* What a run reports is what the repository holds.
THEOREM FanoutReport == Spec => []ReportMatchesRepository
<1>1. FanoutInv => ReportMatchesRepository
  <2> SUFFICES ASSUME FanoutInv, outcome = "ok", NEW i \in Worker
               PROVE  /\ i \in Eligible \ conflicted <=> i \in intHas
                      /\ i \in committed \ intHas => branch[i] = "own"
                      /\ verify[i] \in {"NoChanges", "Failed",
                         "Unverifiable"} => i \notin intHas
    BY DEF ReportMatchesRepository
  <2>1. i \in Eligible \ conflicted <=> i \in intHas
    BY DEF FanoutInv, MergeInv, ReportInv, Unmerged
  <2>2. i \in committed \ intHas => branch[i] = "own"
    BY DEF FanoutInv, BranchInv, CommitsRecoverable
  <2>3. i \in intHas => verify[i] \in {"Skipped", "Passed"}
    BY DEF FanoutInv, MergeInv, Eligible
  <2> QED
    BY <2>1, <2>2, <2>3
<1> QED
  BY <1>1, FanoutInvariant, PTL

\* A run that returned leaves no coder and no worktree behind.
THEOREM FanoutLeavesNothing == Spec => []EndLeavesNothing
<1>1. FanoutInv => EndLeavesNothing
  BY DEF FanoutInv, EndInv, EndLeavesNothing
<1> QED
  BY <1>1, FanoutInvariant, PTL

-------------------------------------------------------------------------------
(* The events of a run follow FanoutProtocol.                              *)

LEMMA ProtocolInitially == Init => Protocol!ProtocolInit
BY DEF Init, Protocol!ProtocolInit, Over

LEMMA ProtocolStep == FanoutInv
   /\ [Next]_vars => [Protocol!ProtocolNext]_(Protocol!protocolVars)
<1> SUFFICES ASSUME FanoutInv, [Next]_vars
             PROVE  [Protocol!ProtocolNext]_(Protocol!protocolVars)
  OBVIOUS
<1> USE DEF Protocol!ProtocolNext, Protocol!protocolVars, Over
<1>1. TypeOK /\ CountInv /\ EndInv /\ EventInv /\ MergeInv /\ ReportInv
  BY DEF FanoutInv
<1>2. CASE UNCHANGED <<started, finished, notice, outcome, merged, conflicted>>
  BY <1>2
<1>3. ASSUME UNCHANGED <<started, finished, notice>>,
             outcome = "running" \/ outcome' = outcome,
             outcome' # "running",
             notice = "Integrating" \/ UNCHANGED <<merged, conflicted>>
      PROVE  [Protocol!ProtocolNext]_(Protocol!protocolVars)
  BY <1>3 DEF Protocol!Abandoned
<1>4. CASE CommitCoder
  <2>1. CASE UNCHANGED finished
    BY <1>4, <2>1, <1>2 DEF CommitCoder
  <2>2. CASE finished' = finished + 1
    BY <1>1, <1>4, <2>2, CurRange DEF CommitCoder, Protocol!CoderFinished, CountInv,
       EndInv,
       EventInv, BeforeMerge, BeforeCommit, AtWork, AfterJoin
  <2> QED
    BY <1>4, <2>1, <2>2 DEF CommitCoder, CommitAll
<1>5. CASE SkipCoder
  BY <1>1, <1>5, CurRange DEF SkipCoder, Protocol!CoderFinished, CountInv, EndInv,
     EventInv, BeforeMerge, BeforeCommit, AtWork, AfterJoin
<1>6. CASE VerifyCoder
  BY <1>1, <1>6, CurRange DEF VerifyCoder, Protocol!CoderFinished, CountInv, EndInv,
     EventInv, BeforeMerge, BeforeCommit, AtWork, AfterJoin
<1>7. CASE Propose
  BY <1>1, <1>7 DEF Propose, Protocol!Integrating, CountInv, EndInv, EventInv, MergeInv,
     BeforeMerge, BeforeCommit, AtWork, AfterJoin
<1>8. CASE Conclude
  BY <1>1, <1>8 DEF Conclude, Protocol!Done, CountInv, EndInv, EventInv, AtWork,
     AfterJoin
<1>9. ASSUME NEW i \in Worker, BeginCoder(i) PROVE Protocol!ProtocolNext
  <2>1. task[i] = "admitted" /\ started' = started \cup {i}
        /\ UNCHANGED <<finished, notice, outcome, merged, conflicted>>
    BY <1>9 DEF BeginCoder, MarkRunning
  <2>2. i \notin started /\ finished = 0
    BY <1>1, <2>1 DEF EventInv, TypeOK, Ended
  <2>3. notice = "none" /\ i \in 1..NumCoders
    BY <1>1, <2>2, FanoutAssumption DEF EventInv
  <2> QED
    BY <2>1, <2>2, <2>3 DEF Protocol!CoderStarted
<1>10. CASE MergeBranch
  <2>1. pc = "merge" /\ notice = "Integrating" /\ outcome = "running"
    BY <1>1, <1>10 DEF MergeBranch, EventInv, EndInv, AtWork, AfterJoin
  <2>2. UNCHANGED <<started, finished, notice>>
    BY <1>10 DEF MergeBranch
  <2>3. CASE outcome' = outcome
    BY <2>1, <2>2, <2>3
  <2>4. CASE outcome' # "running"
    BY <2>1, <2>2, <2>4, <1>3
  <2> QED
    BY <2>1, <2>3, <2>4
<1>11. CASE CreateWorktree \/ OpenIntegration \/ CloseIntegration
  <2>1. UNCHANGED <<started, finished, notice, merged, conflicted>> /\ outcome = "running"
    BY <1>1, <1>11 DEF CreateWorktree, OpenIntegration, CloseIntegration, EndInv,
       AtWork,
       BeforeCommit, AfterJoin
  <2>2. outcome' \in {"running", "err"}
    BY <1>11, <2>1 DEF CreateWorktree, OpenIntegration, CloseIntegration, Fail
  <2> QED
    BY <1>2, <1>3, <2>1, <2>2
<1>12. CASE CancelRun \/ Crash
  <2>1. UNCHANGED <<started, finished, notice, merged, conflicted>>
        /\ outcome' \in {"cancelled", "crashed"}
    BY <1>12 DEF CancelRun, Crash
  <2>2. CASE outcome = "running"
    BY <1>3, <2>1, <2>2
  <2>3. CASE outcome # "running"
    BY <2>1, <2>3
  <2> QED
    BY <2>2, <2>3
<1>13. ASSUME SpawnCoder \/ JoinCoder \/ ReapCoder \/ Adjudicate \/ Unwind \/ UNCHANGED vars
       PROVE  UNCHANGED <<started, finished, notice, outcome, merged, conflicted>>
  BY <1>13 DEF SpawnCoder, JoinCoder, ReapCoder, Adjudicate, Unwind, vars, orchVars
<1>14. ASSUME NEW i \in Worker, CoderEnds(i) \/ EditTree(i) \/ StopWorker(i)
                                \/ (RuntimeStep(i) /\ ~BeginCoder(i))
       PROVE  UNCHANGED <<started, finished, notice, outcome, merged, conflicted>>
  BY <1>14 DEF CoderEnds, EditTree, StopWorker, RuntimeStep, orchVars
<1> QED
  BY <1>2, <1>4, <1>5, <1>6, <1>7, <1>8, <1>9, <1>10, <1>11, <1>12, <1>13, <1>14
     DEF Next, Orchestrator

\* A consumer of the events sees every coder started before any is finished,
\* the coders finished in order and all of them before Integrating and Done,
\* and nothing more once the run is over.
THEOREM FanoutFollowsProtocol == Spec => ProtocolSpec
BY ProtocolInitially, ProtocolStep, FanoutInvariant, PTL DEF Spec, ProtocolSpec,
   Protocol!ProtocolSpec

===============================================================================
