------------------------------- MODULE Fanout -------------------------------
(***************************************************************************)
(* One parallel, verify-gated coding run: run_fanout_detailed of           *)
(* crates/orchestrator/src/lib.rs on top of the WorkerPool and of the git  *)
(* worktrees of crates/orchestrator/src/worktree.rs.                       *)
(*                                                                         *)
(* The orchestrator is one sequential process (pc, cur); the pool's tasks, *)
(* the user (stop a worker, cancel the run) and a crash of the process     *)
(* interleave with it at every await.  The git repository is the durable   *)
(* state: branches, worktree directories and what the integration branch   *)
(* contains survive the run, everything else is memory of the process.     *)
(***************************************************************************)
EXTENDS WorkerPool

CONSTANT NumCoders   \* sub-tasks of the decomposition; ensure_coder makes it >= 1

ASSUME FanoutAssumption ==
    /\ NumCoders \in Nat \ {0}
    /\ Worker = 1..NumCoders

VARIABLES
    cfg,          \* the configuration of the run
    pc, cur,      \* the orchestrator: phase, and the coder a loop is at
    outcome,      \* how the run future ended
    timedOut,     \* coders whose join was None
    committed,    \* coders for which commit_all answered true
    verify,       \* VerifyStatus per coder
    rejected,     \* coders the Oracle blocked at G2
    merged,       \* Integration.merged
    conflicted,   \* Integration.conflicted
    tracked,      \* worktrees the guard owns and has not removed yet
    deletable,    \* branches marked merged in the guard
    started, finished, notice,  \* FanoutEvents sent
    dirs,         \* coder worktrees registered in the repository
    tree,         \* uncommitted state of a coder's worktree
    branch,       \* what the tip of a coder's branch is
    intDir,       \* the integration worktree is registered
    intHas,       \* coders whose branch the integration branch contains
    made,         \* history: coders with a commit of their own, ever
    stopped       \* history: ids for which stop() answered true

orchVars == <<cfg, pc, cur, outcome, timedOut, committed, verify, rejected,
              merged, conflicted, tracked, deletable, started, finished, notice>>
gitVars == <<dirs, tree, branch, intDir, intHas, made>>
vars == <<poolVars, orchVars, gitVars, stopped>>

Gate == {"lax", "required", "command"}
Verify == {"none", "NoChanges", "Skipped", "Unverifiable", "Passed", "Failed"}

\* The phases in which the run future is suspended at an await, where a drop
\* of the future (TUI cancel, MCP deadline) can take effect.
Awaiting == {"create", "await", "commit", "verify", "oracle", "propose",
             "integrate", "merge", "diff", "cleanup", "audit"}
Phase == Awaiting \cup {"spawn", "attach", "join", "reap", "conclude", "unwind",
                        "ended", "crashed"}

\* An integration gate that forgets the verdict of the verify command.
EligibleUnverified == committed \ rejected

Eligible == {i \in committed : verify[i] \in {"Skipped", "Passed"} /\ i \notin rejected}
Unmerged == Eligible \ (merged \cup conflicted)
First(S) == CHOOSE i \in S : \A j \in S : i <= j

TypeOK ==
    /\ PoolTypeOK
    /\ cfg \in [gate: Gate, block: BOOLEAN, agy: BOOLEAN]
    /\ pc \in Phase
    /\ cur \in Worker
    /\ outcome \in {"running", "ok", "err", "cancelled", "crashed"}
    /\ timedOut \subseteq Worker
    /\ committed \subseteq Worker
    /\ verify \in [Worker -> Verify]
    /\ rejected \subseteq Worker
    /\ merged \subseteq Worker
    /\ conflicted \subseteq Worker
    /\ tracked \subseteq Worker
    /\ deletable \subseteq Worker
    /\ started \subseteq Worker
    /\ finished \in 0..NumCoders
    /\ notice \in {"none", "Integrating", "Done"}
    /\ dirs \subseteq Worker
    /\ tree \in [Worker -> {"clean", "dirty"}]
    /\ branch \in [Worker -> {"absent", "base", "own"}]
    /\ intDir \in BOOLEAN
    /\ intHas \subseteq Worker
    /\ made \subseteq Worker
    /\ stopped \subseteq Worker

Init ==
    /\ PoolInit
    /\ cfg \in [gate: Gate, block: BOOLEAN, agy: BOOLEAN]
    /\ pc = "create"
    /\ cur = 1
    /\ outcome = "running"
    /\ timedOut = {}
    /\ committed = {}
    /\ verify = [i \in Worker |-> "none"]
    /\ rejected = {}
    /\ merged = {}
    /\ conflicted = {}
    /\ tracked = {}
    /\ deletable = {}
    /\ started = {}
    /\ finished = 0
    /\ notice = "none"
    /\ dirs = {}
    /\ tree = [i \in Worker |-> "clean"]
    /\ branch = [i \in Worker |-> "absent"]
    /\ intDir = FALSE
    /\ intHas = {}
    /\ made = {}
    /\ stopped = {}

-------------------------------------------------------------------------------
\* A loop that runs once too often.
AdvanceOnceTooOften(again, after) ==
    IF cur <= NumCoders
    THEN pc' = again /\ cur' = cur + 1
    ELSE pc' = after /\ cur' = 1

\* The sequential loops visit the coders in index order.
Advance(again, after) ==
    IF cur < NumCoders
    THEN pc' = again /\ cur' = cur + 1
    ELSE pc' = after /\ cur' = 1

\* An error propagated by `?`: the run future ends and the guard unwinds.
Fail ==
    /\ outcome' = "err"
    /\ pc' = "unwind"
    /\ UNCHANGED cur

-------------------------------------------------------------------------------
(* Steps 2 and 3: worktrees, dispatch, join.                               *)

\* Worktrees handed to the guard only once all of them exist.
CreateThenTrack ==
    /\ pc = "create"
    /\ \/ /\ dirs' = dirs \cup {cur}
          /\ branch' = [branch EXCEPT ![cur] = "base"]
          /\ tracked' = IF cur = NumCoders THEN dirs' ELSE tracked
          /\ Advance("create", "spawn")
          /\ UNCHANGED outcome
       \/ /\ Fail
          /\ UNCHANGED <<dirs, branch, tracked>>
    /\ UNCHANGED <<poolVars, cfg, timedOut, committed, verify, rejected, merged,
                   conflicted, deletable, started, finished, notice, tree,
                   intDir, intHas, made, stopped>>

\* guard.create(cur): `git worktree add -b`, then the guard tracks it.
CreateWorktree ==
    /\ pc = "create"
    /\ \/ /\ dirs' = dirs \cup {cur}
          /\ branch' = [branch EXCEPT ![cur] = "base"]
          /\ tracked' = tracked \cup {cur}
          /\ Advance("create", "spawn")
          /\ UNCHANGED outcome
       \/ /\ Fail
          /\ UNCHANGED <<dirs, branch, tracked>>
    /\ UNCHANGED <<poolVars, cfg, timedOut, committed, verify, rejected, merged,
                   conflicted, deletable, started, finished, notice, tree,
                   intDir, intHas, made, stopped>>

\* pool.spawn for every coder, without an await in between.
SpawnCoder ==
    /\ \/ pc = "spawn" /\ SpawnInsert(cur) /\ pc' = "attach" /\ UNCHANGED cur
       \/ pc = "attach" /\ SpawnAttach(cur) /\ Advance("spawn", "join")
    /\ UNCHANGED <<cfg, outcome, timedOut, committed, verify, rejected, merged,
                   conflicted, tracked, deletable, started, finished, notice,
                   gitVars, stopped>>

\* pool.join(id).await for every coder in spawn order.
JoinCoder ==
    /\ \/ pc = "join" /\ JoinTake(cur) /\ pc' = "await"
       \/ pc = "await" /\ JoinReturn(cur) /\ pc' = "reap"
    /\ UNCHANGED <<cfg, cur, outcome, timedOut, committed, verify, rejected,
                   merged, conflicted, tracked, deletable, started, finished,
                   notice, gitVars, stopped>>

\* An orchestrator that does not remember which joins gave nothing.
ReapForgetting ==
    /\ pc = "reap"
    /\ Reap(cur)
    /\ Advance("join", "commit")
    /\ UNCHANGED <<cfg, outcome, timedOut, committed, verify, rejected, merged,
                   conflicted, tracked, deletable, started, finished, notice,
                   gitVars, stopped>>

\* A None outcome is remembered, then the worker's entry is dropped.
ReapCoder ==
    /\ pc = "reap"
    /\ timedOut' = IF joined[cur] = "None" THEN timedOut \cup {cur} ELSE timedOut
    /\ Reap(cur)
    /\ Advance("join", "commit")
    /\ UNCHANGED <<cfg, outcome, committed, verify, rejected, merged, conflicted,
                   tracked, deletable, started, finished, notice, gitVars, stopped>>

-------------------------------------------------------------------------------
(* Step 4: commit, verify, adjudicate each coder in turn.                  *)

\* commit_all answers true only if it committed a dirty tree; an error is
\* taken for "nothing committed".
CommitAll(i) ==
    \/ /\ tree[i] = "dirty"
       /\ committed' = committed \cup {i}
       /\ tree' = [tree EXCEPT ![i] = "clean"]
       /\ branch' = [branch EXCEPT ![i] = "own"]
       /\ made' = made \cup {i}
       /\ pc' = "verify"
       /\ UNCHANGED <<verify, finished>>
    \/ /\ verify' = [verify EXCEPT ![i] = "NoChanges"]
       /\ finished' = finished + 1
       /\ pc' = "oracle"
       /\ UNCHANGED <<committed, tree, branch, made>>

CommitCoder ==
    /\ pc = "commit"
    /\ cur \notin timedOut
    /\ CommitAll(cur)
    /\ UNCHANGED <<poolVars, cfg, cur, outcome, timedOut, rejected, merged,
                   conflicted, tracked, deletable, started, notice, dirs, intDir,
                   intHas, stopped>>

\* Where the loop of step 4 goes after its last coder.
AfterVerdicts(pass) == IF pass = {} THEN "conclude" ELSE "propose"

\* A timed-out coder skipped without its CoderFinished event.
SkipSilently ==
    /\ pc = "commit"
    /\ cur \in timedOut
    /\ verify' = [verify EXCEPT ![cur] = "NoChanges"]
    /\ Advance("commit", AfterVerdicts(Eligible))
    /\ UNCHANGED <<poolVars, cfg, outcome, timedOut, committed, rejected, merged,
                   conflicted, tracked, deletable, started, finished, notice,
                   gitVars, stopped>>

\* A timed-out or stopped coder is reported and skipped.
SkipCoder ==
    /\ pc = "commit"
    /\ cur \in timedOut
    /\ finished' = finished + 1
    /\ verify' = [verify EXCEPT ![cur] = "NoChanges"]
    /\ Advance("commit", AfterVerdicts(Eligible))
    /\ UNCHANGED <<poolVars, cfg, outcome, timedOut, committed, rejected, merged,
                   conflicted, tracked, deletable, started, notice, gitVars, stopped>>

\* verify_worktree, the trajectory sink and the CoderFinished event.
Verdicts(gate) ==
    IF gate = "lax" THEN {"Skipped"}
    ELSE IF gate = "required" THEN {"Unverifiable"}
    ELSE {"Passed", "Failed"}

VerifyCoder ==
    /\ pc = "verify"
    /\ \E v \in Verdicts(cfg.gate) : verify' = [verify EXCEPT ![cur] = v]
    /\ finished' = finished + 1
    /\ pc' = "oracle"
    /\ UNCHANGED <<poolVars, cfg, cur, outcome, timedOut, committed, rejected,
                   merged, conflicted, tracked, deletable, started, notice,
                   gitVars, stopped>>

\* Oracle G2; only a blocking gate excludes a coder, and it is asked about a
\* coder without a commit too.
Adjudicate ==
    /\ pc = "oracle"
    /\ \E bad \in BOOLEAN :
          /\ bad => cfg.block
          /\ rejected' = IF bad THEN rejected \cup {cur} ELSE rejected
    /\ Advance("commit", AfterVerdicts(Eligible \ (rejected' \ rejected)))
    /\ UNCHANGED <<poolVars, cfg, outcome, timedOut, committed, verify, merged,
                   conflicted, tracked, deletable, started, finished, notice,
                   gitVars, stopped>>

-------------------------------------------------------------------------------
(* Step 5: integrate the eligible branches.                                *)

\* G3 only advises; then the Integrating event.
Propose ==
    /\ pc = "propose"
    /\ notice' = "Integrating"
    /\ pc' = "integrate"
    /\ UNCHANGED <<poolVars, cfg, cur, outcome, timedOut, committed, verify,
                   rejected, merged, conflicted, tracked, deletable, started,
                   finished, gitVars, stopped>>

\* integrate: `git worktree add -b <session>/integration`.
OpenIntegration ==
    /\ pc = "integrate"
    /\ \/ intDir' = TRUE /\ pc' = "merge" /\ UNCHANGED <<cur, outcome>>
       \/ Fail /\ UNCHANGED intDir
    /\ UNCHANGED <<poolVars, cfg, timedOut, committed, verify, rejected, merged,
                   conflicted, tracked, deletable, started, finished, notice,
                   dirs, tree, branch, intHas, made, stopped>>

\* A merge loop that does not look at git's exit status.
MergeIgnoringStatus ==
    /\ pc = "merge"
    /\ IF Unmerged = {}
       THEN pc' = "diff" /\ UNCHANGED <<merged, intHas>>
       ELSE /\ merged' = merged \cup {First(Unmerged)}
            /\ intHas' \in {intHas, intHas \cup {First(Unmerged)}}
            /\ UNCHANGED pc
    /\ UNCHANGED <<poolVars, cfg, cur, outcome, timedOut, committed, verify,
                   rejected, conflicted, tracked, deletable, started, finished,
                   notice, dirs, tree, branch, intDir, made, stopped>>

\* One `git merge --no-edit` per eligible branch, in index order.  Whatever
\* makes git exit non-zero counts as a conflict; only a git that cannot be
\* spawned is an error.
MergeBranch ==
    /\ pc = "merge"
    /\ IF Unmerged = {}
       THEN pc' = "diff" /\ UNCHANGED <<cur, outcome, merged, conflicted, intHas>>
       ELSE LET i == First(Unmerged) IN
            \/ /\ merged' = merged \cup {i}
               /\ intHas' = intHas \cup {i}
               /\ UNCHANGED <<pc, cur, outcome, conflicted>>
            \/ /\ conflicted' = conflicted \cup {i}
               /\ UNCHANGED <<pc, cur, outcome, merged, intHas>>
            \/ Fail /\ UNCHANGED <<merged, conflicted, intHas>>
    /\ UNCHANGED <<poolVars, cfg, timedOut, committed, verify, rejected, tracked,
                   deletable, started, finished, notice, dirs, tree, branch,
                   intDir, made, stopped>>

\* The combined diff, then the integration worktree is removed and the merged
\* branches are marked for deletion.
CloseIntegration ==
    /\ \/ /\ pc = "diff"
          /\ \/ pc' = "cleanup" /\ UNCHANGED <<cur, outcome>>
             \/ Fail
          /\ UNCHANGED <<intDir, deletable>>
       \/ /\ pc = "cleanup"
          /\ \/ /\ intDir' = FALSE
                /\ deletable' = merged
                /\ pc' = "conclude"
                /\ UNCHANGED <<cur, outcome>>
             \/ Fail /\ UNCHANGED <<intDir, deletable>>
    /\ UNCHANGED <<poolVars, cfg, timedOut, committed, verify, rejected, merged,
                   conflicted, tracked, started, finished, notice, dirs, tree,
                   branch, intHas, made, stopped>>

\* The Done event; with the agy executor a self-audit of the integrated diff
\* is awaited before the run returns.
Conclude ==
    /\ \/ /\ pc = "conclude"
          /\ notice' = "Done"
          /\ IF cfg.agy /\ merged # {}
             THEN pc' = "audit" /\ UNCHANGED outcome
             ELSE pc' = "unwind" /\ outcome' = "ok"
       \/ /\ pc = "audit"
          /\ pc' = "unwind"
          /\ outcome' = "ok"
          /\ UNCHANGED notice
    /\ UNCHANGED <<poolVars, cfg, cur, timedOut, committed, verify, rejected,
                   merged, conflicted, tracked, deletable, started, finished,
                   gitVars, stopped>>

-------------------------------------------------------------------------------
(* The guard.                                                              *)

\* `git worktree remove --force` can fail under a coder that still writes.
Removals(i) ==
    {dirs \ {i}} \cup (IF task[i] = "running" THEN {dirs} ELSE {})

\* A guard that deletes the branch of every worktree it removes.
UnwindDeletingAll ==
    /\ pc = "unwind"
    /\ IF tracked = {}
       THEN pc' = "ended" /\ UNCHANGED <<tracked, dirs, tree, branch>>
       ELSE LET i == First(tracked) IN
            /\ tracked' = tracked \ {i}
            /\ dirs' \in Removals(i)
            /\ tree' = [tree EXCEPT ![i] = "clean"]
            /\ branch' = [branch EXCEPT ![i] = "absent"]
            /\ UNCHANGED pc
    /\ UNCHANGED <<poolVars, cfg, cur, outcome, timedOut, committed, verify,
                   rejected, merged, conflicted, deletable, started, finished,
                   notice, intDir, intHas, made, stopped>>

\* WorktreeGuard::drop, worktree by worktree: the directory goes with all that
\* was not committed in it, the branch only if it was marked merged.
Unwind ==
    /\ pc = "unwind"
    /\ IF tracked = {}
       THEN pc' = "ended" /\ UNCHANGED <<tracked, dirs, tree, branch>>
       ELSE LET i == First(tracked) IN
            /\ tracked' = tracked \ {i}
            /\ dirs' \in Removals(i)
            /\ tree' = [tree EXCEPT ![i] = "clean"]
            /\ branch' = IF i \in deletable
                         THEN [branch EXCEPT ![i] = "absent"]
                         ELSE branch
            /\ UNCHANGED pc
    /\ UNCHANGED <<poolVars, cfg, cur, outcome, timedOut, committed, verify,
                   rejected, merged, conflicted, deletable, started, finished,
                   notice, intDir, intHas, made, stopped>>

Orchestrator ==
    \/ CreateWorktree \/ SpawnCoder \/ JoinCoder \/ ReapCoder
    \/ CommitCoder \/ SkipCoder \/ VerifyCoder \/ Adjudicate
    \/ Propose \/ OpenIntegration \/ MergeBranch \/ CloseIntegration
    \/ Conclude \/ Unwind

-------------------------------------------------------------------------------
(* The coders: pool tasks that edit their worktree.                        *)

Alive == pc # "crashed"

\* The first poll of run_coder_maybe_remote announces the coder.
BeginCoder(i) ==
    /\ Alive
    /\ MarkRunning(i)
    /\ started' = started \cup {i}
    /\ UNCHANGED <<cfg, pc, cur, outcome, timedOut, committed, verify, rejected,
                   merged, conflicted, tracked, deletable, finished, notice,
                   gitVars, stopped>>

\* The agent edits files of its worktree, or commits them itself (run_shell
\* is open to it under the default fan-out mode).
EditTree(i) ==
    /\ Alive
    /\ task[i] = "running"
    /\ i \in dirs
    /\ \/ tree' = [tree EXCEPT ![i] = "dirty"] /\ UNCHANGED <<branch, made>>
       \/ /\ tree[i] = "dirty"
          /\ tree' = [tree EXCEPT ![i] = "clean"]
          /\ branch' = [branch EXCEPT ![i] = "own"]
          /\ made' = made \cup {i}
    /\ UNCHANGED <<poolVars, orchVars, dirs, intDir, intHas, stopped>>

\* A pool that never times a coder out.
ProgressNoTimeout(i) ==
    Acquire(i) \/ Cancel(i) \/ MarkDone(i) \/ RecordOutput(i)

\* What the runtime does for a task without being asked, the timer included.
Progress(i) ==
    Acquire(i) \/ Expire(i) \/ Cancel(i) \/ MarkDone(i) \/ RecordOutput(i)
        \/ MarkTimedOut(i)

RuntimeStep(i) ==
    \/ BeginCoder(i)
    \/ Alive /\ Progress(i) /\ UNCHANGED <<orchVars, gitVars, stopped>>

\* How a coder future may end by itself.
CoderEnds(i) ==
    Alive /\ (Return(i) \/ Panic(i)) /\ UNCHANGED <<orchVars, gitVars, stopped>>

-------------------------------------------------------------------------------
(* The user and the machine.                                               *)

\* `/workers stop <id>`, while the application still holds the pool.
StopWorker(i) ==
    /\ Alive
    /\ outcome # "cancelled"
    /\ Stop(i)
    /\ stopped' = stopped \cup {i}
    /\ UNCHANGED <<orchVars, gitVars>>

\* A git child in flight is not killed with the future or the process that
\* awaited it: it may still complete, and nobody sees its result.
GitChild ==
    \/ UNCHANGED gitVars
    \/ /\ pc = "create"
       /\ dirs' = dirs \cup {cur}
       /\ branch' = [branch EXCEPT ![cur] = "base"]
       /\ UNCHANGED <<tree, intDir, intHas, made>>
    \/ /\ pc = "commit" /\ cur \notin timedOut /\ tree[cur] = "dirty"
       /\ tree' = [tree EXCEPT ![cur] = "clean"]
       /\ branch' = [branch EXCEPT ![cur] = "own"]
       /\ made' = made \cup {cur}
       /\ UNCHANGED <<dirs, intDir, intHas>>
    \/ /\ pc \in {"integrate", "cleanup"}
       /\ intDir' = (pc = "integrate")
       /\ UNCHANGED <<dirs, tree, branch, intHas, made>>
    \/ /\ pc = "merge" /\ Unmerged # {}
       /\ intHas' = intHas \cup {First(Unmerged)}
       /\ UNCHANGED <<dirs, tree, branch, intDir, made>>

\* The run future is dropped at an await; the guard unwinds, but the spawned
\* workers are detached, not aborted.
CancelRun ==
    /\ pc \in Awaiting
    /\ outcome' = "cancelled"
    /\ pc' = "unwind"
    /\ GitChild
    /\ UNCHANGED <<poolVars, cfg, cur, timedOut, committed, verify, rejected,
                   merged, conflicted, tracked, deletable, started, finished,
                   notice, stopped>>

\* The process dies: no destructor runs, no task goes on.
Crash ==
    /\ pc \notin {"ended", "crashed"}
    /\ pc' = "crashed"
    /\ outcome' = "crashed"
    /\ GitChild
    /\ UNCHANGED <<poolVars, cfg, cur, timedOut, committed, verify, rejected,
                   merged, conflicted, tracked, deletable, started, finished,
                   notice, stopped>>

Next ==
    \/ Orchestrator
    \/ \E i \in Worker :
          RuntimeStep(i) \/ CoderEnds(i) \/ EditTree(i) \/ StopWorker(i)
    \/ CancelRun
    \/ Crash

\* The runtime schedules the run future and every task that can take a step,
\* and its timer fires; verify commands, git and the Oracle answer.  Nothing
\* obliges a coder to return, nor the user to act.
Fairness ==
    /\ WF_vars(Orchestrator)
    /\ \A i \in Worker : WF_vars(RuntimeStep(i))

Spec == Init /\ [][Next]_vars
FairSpec == Spec /\ Fairness

-------------------------------------------------------------------------------
(* Safety.                                                                 *)

\* By the time the orchestrator commits anything, no coder task is alive, so
\* no worktree changes under commit_all, verify or the merge; and only the
\* worktree of a coder that ran to its end is committed, never the half-
\* written one of a coder that timed out, panicked or was cancelled.
CommitIsQuiescent ==
    /\ pc \in {"commit", "verify", "oracle", "propose", "integrate", "merge",
              "diff", "cleanup", "conclude", "audit"}
          => \A i \in Worker : task[i] \in Ended
    /\ \A i \in committed : task[i] = "gaveRun" /\ i \notin timedOut

\* Everything on the integration branch went through the gate the run was
\* configured with: the command passed, or there was no command and none was
\* required, and a blocking Oracle did not reject it.
IntegratedWasGated ==
    \A i \in intHas :
        /\ i \in committed /\ i \notin rejected
        /\ cfg.gate # "required"
        /\ verify[i] = IF cfg.gate = "command" THEN "Passed" ELSE "Skipped"

\* A commit made in a coder's worktree, by the run or by the coder itself, is
\* reachable from a branch at every moment, through every early return,
\* cancellation and crash: the guard deletes only what the integration branch
\* contains.
CommitsRecoverable ==
    \A i \in made : branch[i] = "own" \/ i \in intHas

\* What a finished run reports is what the repository holds: a coder reported
\* integrated is on the integration branch, every other coder that committed
\* still has its branch, and a coder reported without changes was not merged.
ReportMatchesRepository ==
    outcome = "ok" =>
        \A i \in Worker :
            /\ i \in Eligible \ conflicted <=> i \in intHas
            /\ i \in committed \ intHas => branch[i] = "own"
            /\ verify[i] \in {"NoChanges", "Failed", "Unverifiable"} => i \notin intHas

\* A run that returned, with a report or an error, leaves no coder worktree
\* registered and no coder task alive, and one that returned a report leaves no
\* integration worktree either.
EndLeavesNothing ==
    pc = "ended" /\ outcome \in {"ok", "err"} =>
        /\ dirs = {}
        /\ \A i \in Worker : task[i] \in Ended \cup {"unborn"}
        /\ outcome = "ok" => ~intDir

\* The events a consumer sees follow FanoutProtocol.
Over ==
    IF notice = "Done" THEN "done"
    ELSE IF outcome = "running" THEN "no" ELSE "gone"

Protocol == INSTANCE FanoutProtocol WITH
    integrating <- notice = "Integrating" \/ (notice = "Done" /\ merged \cup conflicted # {}),
    over <- Over

ProtocolSpec == Protocol!ProtocolSpec

-------------------------------------------------------------------------------
(* Liveness.                                                               *)

\* One hung coder cannot hold the run: the run future ends and every worker
\* task that was started ends, unless the process dies, although no coder is
\* obliged ever to return.
RunTerminates ==
    <>(\/ pc = "crashed"
       \/ pc = "ended" /\ \A i \in Worker : task[i] \in Ended \cup {"unborn"})

-------------------------------------------------------------------------------
(* What the documentation says and the code does not do.                   *)

\* "A coder that timed out or was killed (via /workers) comes back as a None
\* join [...] it must NOT be committed or integrated": a worker for which
\* stop() answered true is never committed.
KilledNeverCommitted == stopped \cap committed = {}

\* docs/tui.md, Esc Esc: "Interrupt/stop running task": once the run has
\* ended, no coder of it is waiting to start or running.
StoppedRunHasNoCoder ==
    pc = "ended" => \A i \in Worker : task[i] \in Ended \cup {"unborn"}

\* "A scope guard owns every worktree created below and, on EVERY exit from
\* here on - normal return, a `?` early-return, or a panic - removes their
\* directories": the integration worktree is one of them.
GuardOwnsEveryWorktree ==
    pc = "ended" /\ outcome \in {"ok", "err"} => dirs = {} /\ ~intDir

===============================================================================
