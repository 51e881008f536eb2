# entheai in TLA+

A verification project kept beside the entheai repository: TLA+ modules that model its
concurrent core, TLC configurations that check them on small instances, and TLAPS proofs
that hold for every instance. `PROJECT.json` is the index: components, runs, mutants, the
map from definitions to source lines, findings, hazards and theorems.

Paths below are relative to the repository root.

## 1. The system

entheai is a terminal coding agent written in Rust. Its own core logic, as opposed to
rendering, media and model calls, is the *fan-out*: a task is decomposed, one coder agent per
sub-task works in a git worktree of its own, and what passes the gates is merged onto an
integration branch. Coders run in a local worker pool or, when workers are connected, on
other nodes through a NATS queue.

| Part | State | Operations | Interacts with |
| --- | --- | --- | --- |
| Worker pool, `crates/orchestrator/src/pool.rs` | a table of workers (status, join and abort handles) and a table of outputs, each under a mutex; a semaphore | spawn, join, reap, list, stop, output_snapshot; the task of a worker marks itself running, done or timed out | called by the fan-out and by the TUI's `/workers`, from different tasks |
| Fan-out run, `crates/orchestrator/src/lib.rs` | locals of one async function: worktrees, timed-out coders, commits, verdicts, integration; an event channel | `run_fanout_detailed`, in loops one after another | pool, worktrees, Oracle, events; dropped whole on a cancel |
| Worktrees, `worktree.rs` | the user's git repository: worktrees, branches; a guard that cleans up on drop | create, commit_all, integrate, mark_merged, drop | git child processes, which outlive a dropped future |
| Oracle, `oracle.rs` | none | G1 to G3, of which only G2 can exclude a coder | model calls |
| Base cache, `crates/federation/src/base_cache.rs` | an LRU index, a materialization lock and hold counts, under three mutexes; directories of bare repositories | get_or_materialize, release, eviction inside the former | called by every coder task of a worker, under a 20 s deadline that drops the call |
| Federation worker, `bin/entheai-worker` | a semaphore, an in-flight counter, the presence | the claim loop; one task per claimed item | queue, cache, git, the coder |
| Federation queue and executor, `crates/federation` | a JetStream work queue, an object store, a subscription per item, the executor's one base key | dispatch, claim, redelivery, publish_result, await_result, execute | fan-out on one side, workers on the other |
| TUI run loop, `crates/tui/src/lib.rs` | mode, run handle, pending permission, result and event channels | submit, cancel, permission answers, results | agent, fan-out, pool |
| Permission and tool adapter | session grants, a prompter behind a mutex | authorize a tool call | TUI |
| MCP client and server | pending requests by id; job records | request, time-out, reader; start, poll, deadline | child processes, fan-out |
| Event bus | a tee and a publisher task | send, finish, drop | fan-out events |
| Memory (`memory`, `memory-pp`) | SQLite files | ingest, recall, decay | agent |
| Repair ledger | attempts and an incumbent | record, decide | nothing drives it yet |

The rest (rendering, media, numeric kernels, launchers, configuration, tools, gateways) keeps
no shared state or is I/O only; `PROJECT.json` lists each with the reason it is left out.

### What is hard

* The pool has three parties: the caller, the task, and whoever calls `stop`. `spawn` inserts a
  placeholder, starts the task, then attaches the real handles, so a task can end before its
  own `spawn` is over. An abort acts only where the task is suspended.
* The fan-out can end by an error, by a drop at any await, or by a crash; its coders are tasks
  of their own and are not stopped with it, and a git child in flight goes on.
* The cache takes three locks one after another, looks, then pins; its caller can be dropped
  at any await, with the lock, with the hold, or with a clone or a deletion running.
* In the worker, counter and presence are two steps.
* Across the queue an item may be delivered again while its first worker is still at it, and a
  dispatcher gives up at the very moment its worker does.
* The TUI's loop and the tasks it spawns share two bounded channels; a stop drains neither, and
  what was in them meets the next run. A call in flight holds its turn's prompter while it waits.
* An MCP client has one writer for all callers, who may be dropped in the middle of a line; the
  reply to a request that timed out comes later.
* A memory search is three reads under locks of their own, and other processes with other
  embedding models write to the same file.

### What makes each part correct

| Part | Properties | Status |
| --- | --- | --- |
| Worker pool | permits are conserved; a status or an output is neither lost nor stale; a join tells the truth and only after the end | proved |
| Fan-out run | commits only what ended well, and when all is quiet; merges only what passed the gate; loses no commit; reports what the repository holds; leaves nothing behind; sends its events in order; ends | proved, the last checked |
| Base cache | holds cover holders; eviction spares holders; one call at a time clears, clones or evicts; no half-written repository is left alone; a base in use is there | proved; the last fails |
| Federation worker | slots and counter are conserved; the presence settles; who works off the cache pins its base, who is done has no hold; every item is worked; no base stays pinned | proved, the last but one checked; the last fails |
| Queue and executor | a dispatch is a task of the fleet (FleetTask): it ends once and takes only what was made for it on a commit that knows its base, and an announced result is there; an item leaves the queue only behind an answer; dispatch and item end; what was fetched is applied, on its own base | proved, the ends checked; the last two fail |
| TUI run loop | every run is settled; no request is forgotten; the modal has a responder; what runs can be stopped | proved, the first checked; the last fails |
| Permission and tool adapter | the gate is Consent's: a call asks once, is answered once, and runs only if policy, a grant or the user allowed it; grants come from the user | proved |
| MCP client and jobs | a request is a remote call (RemoteCall): served once and returned once at most, with its own reply; it comes to an end and leaves no entry; a job whose id was given out is found; its record is written in the end | proved, the ends checked |
| Memory | the two indexes follow the rows; to its callers it is a map with an honest search and lasting pointers (KeyedMemory); a vector says what its row says | proved; the last fails |
| Event bus | what was sent before `finish` arrives, or the publisher gave up | not modelled |
| Repair ledger | it stops within its budget, at an attempt no worse than any before | not modelled |

"Fails" is a statement of the repository that its code does not keep: section 3.

## 2. Modules

```
WorkerPool  <- Fanout -(Protocol)-> FanoutProtocol        BaseCache <- FedWorker <- MCFedWorker
    |             |                                           |            |
WorkerPoolProofs <- FanoutProofs                       BaseCacheProofs <- FedWorkerProofs

Permission <- Session -(Gate)-> Consent           FedQueue -(Fleet)-> FleetTask
                 |                                    |
           SessionProofs, MCSession              FedQueueProofs, MCFedQueue

Mcp -(Remote)-> RemoteCall                        Memory -(Promised)-> KeyedMemory
 |                                                  |
McpProofs, MCMcp                                  MemoryProofs, MCMemory
```

(`<-` and `|` are EXTENDS, `-(...)->` an INSTANCE under a refinement mapping.) The modules meet where
the parts do: a coder of `Fanout` may be executed by a dispatch of `FedQueue`, whose worker is
`FedWorker` seen from the queue; the run that `Session` starts, or that a job of `Mcp` waits for, is
one of `Fanout`, of which they need that it ends and that it can be dropped.

### WorkerPool

`pool.rs`, for any set of worker ids and any capacity. One action per critical section:
`SpawnInsert`, `SpawnAttach`, `JoinTake`, `JoinReturn`, `Reap` of the caller; `Acquire`,
`MarkRunning`, `Return`/`Expire`/`Panic`/`Cancel`, `MarkDone`, `RecordOutput`, `MarkTimedOut` of
the task; `Stop` of the outsider. `status` is the table ("absent" for no entry), `attached` the
entries with real handles, `task` where the spawned future stands. `Cancel` is enabled only
while the task waits for its permit or is inside the coder future: behind the future the code
has no await left.

`PoolNext` asks of a caller only that it spawns, joins and reaps a worker in that order. The
properties are `PermitConservation`, `NoStaleStatus`, `OutputsTracked`, `JoinTruth`.

### Fanout

`run_fanout_detailed`, from the first worktree to the return, extending WorkerPool by the
orchestrator (`pc`, `cur` and its locals), the repository (`dirs`, `tree`, `branch`, `intDir`,
`intHas`) and the environment. Each `pc` is the stretch of code up to the next await. Errors
propagated by `?` are `Fail`; the guard's drop is `Unwind`, one worktree a step. `CancelRun` is
enabled exactly at the awaits, `Crash` anywhere, and both let the git child in flight complete
(`GitChild`). `EditTree` is what a coder may do in its worktree, which includes committing by
itself, since `run_shell` is open to it.

The configuration is a variable chosen initially and never changed: the verification gate
(`lax`: no command, none required; `required`: no command but one is required; `command`), a
blocking Oracle or not, the agy self-audit or not.

Abstracted: the decomposition and the `Decomposed` event before the first worktree, file contents and commits (`branch` tells only absent, at the base, and with work
of its own), verdicts (a choice among those the gate allows), report text. A stop is possible as
long as the application has the pool. Branch names and sessions are unique (a UUID).

### FanoutProtocol

What a consumer of `FanoutEvent` may rely on: `CoderStarted` only before the first
`CoderFinished`; the latter in index order, one for each coder; then at most one `Integrating`;
then `Done`, after which nothing comes; or the stream ends early. Fanout implements it under the
mapping `Protocol`.

### BaseCache

`base_cache.rs`, for any coders, bases, capacity and warm content. `step` is where a coder's call
stands; `Check` (the validity check, once without and once with the lock), `Lock`, `Clear`,
`Fetch`, `CloneDone`, `Touch`, `Pin`, `Evict`, `Remove`, `Error`; `Abandon` is the deadline;
`OrphanEnds` is a clone or deletion that lost its caller; `Release`. `bare` distinguishes a
missing, a partly cloned and a valid repository.

### FedWorker

`run_serve` and `process_one`, extending BaseCache: the claim loop (`AcquireSlot`, `Claim`,
`ClaimNothing`) and the task of an item (`Count`, `Announce`, `Prepare`, `Attach`, `Deadline`,
`Fallback`, `RunCoder`, `Cleanup`, `Uncount`, `AnnounceIdle`, `Ack`). The queue is the set of items
still `queued`; redelivery is FedQueue's. A panic of a task is
not modelled: nothing in `process_one` panics on data a worker can receive.

### FedQueue

`federation/src/lib.rs`, `executor.rs`, the two dispatchers and a worker as the queue sees it, for any
coders of a run (`Coder`), calls of `entheai_dispatch` (`Single`), nodes and deliveries. A dispatch goes
`bundle`, `publish`, `await`, `fetch`, `apply` and ends `applied`, `missed` (the coder is run locally) or
`cancelled`. A delivery is a pair of an item and a count: `Claim` makes the next one, `LeaseExpires` is
`ack_wait`, `Crash` loses what a node had in hand, `Ack` of an expired delivery still counts. A result
reaches only a subscription that is open (`Listening`); `bases` and `results` are the two kinds of key of
the object store. `MoveHead` is the user committing between two runs. Every bundle call may fail.

Abstracted: a commit is its number, a bundle says for whom, from which base and with which ref it was
made. The worker's cache and slots are in FedWorker; here `cached` tells which base bundle a node has.

### FleetTask

What the dispatcher relies on, as `CoderExecutor` states it and `entheai_dispatch` uses it: the base is
chosen before the task is handed over (`Choose`, `Ask`), the task is tried up to `MaxDeliver` times (`Try`),
each try may store a bundle made for this task on a commit that knows its base (`Make`), a result is announced
(`Promise`) and taken (`Take`) only when it is there, and the dispatch ends once (`End`). There is no stream,
lease, node, crash or key in it. Tries go on after the end, as they do in the code.

### Permission and Session

Permission is `decide_tiered` with its tiers, modes, pins and ceilings as operators. Session is the
event loop of the TUI: keys (`Submit`, the menus, `SwitchMode`, `CancelRun`, `Answer`), the two other
arms of its select (`RequestArrives`, `ResultArrives`), and the tasks: a run (`Finish`, `IdleTimeout`,
`SendResult`, `Panic`) and its tool calls (`BeginCall`, `Confirm`, `Resume`, `Return`). `status` is what
the screen shows, `handle` the run that double Esc aborts, `pending` the responder of the modal. `why`
and `said` are history: who allowed a call, and for which tools the user allowed the session.

Abstracted, in Session: what a message, a tool or an answer says; the kind of a run is any, since `/fanout` and the
menus flip it whenever nothing runs. An abort takes effect at once (see the module's head).

### Consent

The gate as a tool call sees it, without channel, modal, runs and loop: a new call passes (`Pass`) or asks
(`Ask`); its question is answered once (`Say`, `Refuse`); a yes lets it go ahead, and a yes to the session
grants its tool (`GoAhead`); calls end in any number at once (`End`). A request that is replaced in the modal is
a `Refuse`. That an answer cannot reach another call, or the same one twice, is what the mapping `Gate` of
Session shows.

### Mcp

`mcp/src/lib.rs` and the server of `mcp-server` behind two pipes, for any requests and any capacity.
`request` is `Begin`, `StartWrite`, `FinishWrite`, then `TakeReply` or `TimeOut`; `Drop` is its caller
gone, at any await, which can leave half a line in the pipe (`partial`). `Route` and `ReaderEnds` are the
reader; `Connect` and `ConnectFails` the handshake. The server is sequential: it reads a line, serves it
and answers, `ServerEnds` and, for a foreign server, `Hang`. A fan-out is recorded, answered and run by a
task (`StartJob`, `RunJob`, `EndJob`, `SaveJob`) that shares only the job's file with the server; a write of
a record is a truncation and a write. `answered` is history: what the server answered to a request.

### RemoteCall

A request as its caller sees it: served once at most (`Serve`), and over once, with what was answered to it
(`Answer`) or with a failure (`Fail`), which tells nothing of whether it was or will be served. The
mapping `Remote` hides ids, map, oneshots, pipes, half lines and jobs.

### Memory

`memory/src/store.rs` with the spill of `runtime.rs`: one file, any number of processes with an embedding
model of one dimension each, or none. `Open` migrates a file of before v1 and brings its indexes up to
date; `Store`, `RecordTool` and `Delete` are one transaction each; `Search` is `VecIds`, `FtsIds`,
`LoadEntries`, with anything in between. Ids are used again after a deletion, as rowids are. `steady` is
history: the keys that matched the search from its beginning.

### KeyedMemory

A map from keys to contents; pointers to tool results, never written again; and a search in any number of
reads, which is no snapshot: its answer has every key whose content matched from beginning to end (`owed`), and
nothing that is not stored when it answers (`Honest`). The mapping `Promised` hides ids, both indexes,
dimensions, migration and processes.

Abstracted: a content matches a query if it is the same; scores and limits; namespaces, which never meet.

## 3. Runs

| Run | Instance | Question |
| --- | --- | --- |
| `fanout` | 2 coders, 2 permits, all 12 configurations | the safety of the run and its event protocol |
| `fanout_ends` | 2 coders, 1 permit | does the run end though no coder needs to? |
| `fanout_killed` | as `fanout` | can the work of a worker that `stop` reported killed be committed? It can |
| `fanout_stopped` | as `fanout` | can coders be left after a cancel? They can |
| `fed_worker` | 3 items, 2 slots, 2 bases, capacity 1, one base warm | slots, holds and who has them, presence, eviction, and that every item is worked |
| `fed_queue` | 1 coder, 2 nodes, 2 deliveries, HEAD moved once | is it a task of FleetTask, and do dispatch and item end, with crashes, lost answers and expired leases? |
| `fed_queue_unapplied` | 1 coder and 1 `entheai_dispatch`, 1 node | can a fetched result be dropped? Always, in the executor |
| `session` | 2 runs with 2 and 1 calls, 1 tool, channels of 1, mode ask | the gate of Consent, requests, the modal, and that a run is settled |
| `session_overlap` | the same | can a run be alive that no handle holds? It can |
| `mcp` | a handshake, a fan-out, its poll and a tool call; pipes of 1 line; a server that may end or hang | remote calls, entries, jobs, and that requests end |
| `memory` | 2 processes, 2 keys and a tool's, 2 contents, 2 dimensions, 3 ids | the indexes, and the map, search and pointers of KeyedMemory |
| `memory_stale` | the same | can a vector be of another content than its row's? It can |

The properties that the last column answers with "can" are claims of the documentation or of comments; the
findings in `PROJECT.json` quote them. `fed_queue_unapplied`, `session_overlap` and `memory_stale` are
plain bugs; the other two are comments that say more than the code does.

### Statements that fail, without a run of their own

Each is a definition of its module; TLC refutes it when it is put in the named configuration (for
FedWorker, with `Spec` in place of `FairSpec`).

| Statement | Where it is said | What the code does | To try |
| --- | --- | --- | --- |
| `GuardOwnsEveryWorktree` (Fanout) | `orchestrator/src/lib.rs:947`: a guard owns every worktree on every exit | `integrate` creates one that the guard does not know and leaves it on an early `?` (`worktree.rs:285`) | `MCFanout.cfg` |
| `InUseNeverDeleted` (FedWorker) | `config/src/lib.rs:1639`: eviction of an in-use base is impossible | a hit is unpinned between `valid_hit` and `mark_in_use` (`base_cache.rs:156`). Also with 2 slots and the capacity of 8 that `base_cache_count` gives them | `MCFedWorker.cfg` |
| `NoHoldLeft` (FedWorker) | `entheai-worker/src/main.rs:284`: a base is never left pinned | the 20 s deadline drops the call after its hold was taken (`:312`) | `MCFedWorker.cfg` |
| `PresenceReflects` (FedWorker) | `main.rs:238`: Working while any coder runs | `fetch_sub` and `set(Idle)` are two steps (`:253`) | `MCFedWorker.cfg` |
| `AppliedOnItsBase` (FedQueue) | `executor.rs:29`: bundle the repo base (root HEAD == the fan-out base) | HEAD is bundled when the first coder gets there, which may be after the user has committed, and the bundle's key outlives the run; a worker caches the bare repository under the item's `base_sha`, so that even an `entheai_dispatch` of that base is then worked on another | `MCFedQueueUnapplied.cfg`, as INVARIANT |
| `PanicIsRecovered` (Session) | `tui/src/lib.rs:1223`: recover the UI from the stuck Working state | the loop keeps a sender of its own, so the channel never closes and that arm is never taken | `MCSession.cfg` |
| `RequestBounded` (Mcp) | `mcp/src/lib.rs:201`: a hung server fails the call with a time-out | the write is outside the time-out, and its lock stops all later callers too (`:196`) | `MCMcp.cfg` |

Seen while reading, and not modelled: `is_denial_shape` (`core/src/event_bridge.rs:40`) takes every bare
`{"error": ..}` for a denial, so a tool that fails is recorded as denied and the "failed" of
`extract_learnings` (`memory/src/runtime.rs:290`) is out of reach; the federation design gives a crashed worker's item
to another one, but the dispatcher's only deadline equals `ack_wait`, so nobody listens any more;
`run_dispatch` takes the process id for a session, which may come again; two openers of a file of before v1 both
see the old table before either takes the write lock (`store.rs:710`), and the second one's migration fails.

**Bounds.** Two coders are enough for each interaction the code has between coders: competing for
a permit (one permit), running together (two), one ending well and one not, one merged and one
conflicting, a loop at its first and its last element. A coder is spawned once per run, so
nothing is unbounded. In the cache run, capacity 1 with two bases and three items makes every kind
of hit, miss, wait for the lock, second check, eviction and over-capacity state occur: TLC's
coverage shows every action taken. Three items on two slots are the smallest instance with a wait for a slot and a
new coder while another ends.

In the queue, two nodes and two deliveries are the least for a redelivery that overlaps its first
worker, and one base bundle and a moved HEAD for a stale one. The same instance with an `entheai_dispatch`
in place of the coder passes as well (36,630 states); dispatches share nothing but the executor's base
bundle, which the violation run has two users of. In the session, one run with two calls at once
and one run beside it, through channels of one place, reach full channels, replaced responders and
requests, results and modals of a dead run; `max_iterations` bounds the calls of a run. In Mcp, pipes of
one line make every writer wait; the four requests are the three kinds of tool the server tells apart
and the handshake. In Memory, three ids are one for each key, so that ids are used again (`IdBound`); two
dimensions and two contents tell apart each comparison the code makes. Its run has
921,043 states; it alone uses symmetry (of processes, keys and contents), and checks no liveness.

All sets are sets of model values or 1..n.

`CHECK_DEADLOCK FALSE` in every configuration: a run, a session without a
user, a closed connection and a worker whose items are all done have nothing left to do but poll.

**Fairness.** In Fanout, weak fairness of the orchestrator and of the runtime's steps of each task,
the timer among them: tokio polls a ready future, and git, verify commands and the Oracle are
assumed to answer (they have no time-out of their own in the code). No fairness for a coder's
return, for the user, for a crash: `RunTerminates` says that a run ends although no coder ever
returns. In FedWorker, weak fairness of taking a permit and of each task, and strong fairness of
claiming: the loop asks again and again, and the queue delivers to a consumer that keeps asking.
A coder ends at the latest at its own deadline; a full clone is assumed to answer.
In FedQueue, weak fairness of each dispatch (tokio, and the deadline of `await_result`), of the
expiry of a lease, of each delivery's task, and of claiming: some node keeps polling. None for a crash, the
user or a cancel. In Session, weak fairness of the two arms of the select (tokio picks at random among those
that are ready), of the return of a tool call, of a turn's end (its iteration limit or idle time-out; a fan-out
ends by `RunTerminates`) and of sending its result; none for any key, so that `RunSettles` holds with a
modal nobody answers. In Mcp, weak fairness of reader, server, each request's
steps with its timer, and each job; none for a drop, and a server that hangs does nothing at all.

## 4. Proofs

All proofs are for arbitrary constants under the named assumptions: the set of workers or
coders is finite (`PoolAssumption`, `CacheAssumption`), the capacities are naturals
(`PoolAssumption`, `WorkerAssumption`), workers are numbered 1..NumCoders with at least one
coder (`FanoutAssumption`; the decomposition always yields one), sessions differ (`SubjectsDiffer`; they are
UUIDs), and None is no value (`QueueAssumption`, `SessionAssumption`, `McpAssumption`, `MemoryAssumption`).

* **WorkerPoolProofs**. `PoolInv` adds to the types, for each worker, which statuses go with which
  state of the task (`StatusInv`), that an entry vanishes only after a join, and that an abort
  presupposes a kill. `NoStaleStatus` and `JoinTruth` are not inductive without it: that a task which
  ends is never still "Queued" depends on `SpawnInsert` having written that first. Permits are
  counted apart: each action lets one task enter, leave or stay among the holders.
* **FanoutProofs**. A step of the run is a step of the pool or leaves it alone (`FanoutUsesPool`), so
  `PoolInv` comes for free. `FanoutInv` adds what each loop has established when the next begins:
  which coders have been joined (`JoinInv`), counted (`CountInv`), judged and merged (`MergeInv`), what
  the branches are (`BranchInv`), what holds at the end (`EndInv`, `ReportInv`) and what was sent
  (`EventInv`). From it follow type correctness, all the safety properties of the run `fanout`, and
  `FanoutFollowsProtocol`: the refinement of FanoutProtocol step by step.
* **BaseCacheProofs**. `PinsCoverHolders` is inductive with the types of `base`, `pins` and `step`
  alone; what needs an argument is the count: a pin adds one holder and one hold, a release takes the
  coder's own hold because holds cover holders, and every other step lets no one in.
  `EvictionSparesHolders` follows: a count of zero means no holders. A second invariant, `IndexInv`, is
  about what the materialization lock guards: the call that is past `Lock` is the lock's holder, the index
  has no base twice (`Retain` then append), so it never outgrows the bases, and a partly cloned repository has a
  call or an orphan writing it. `CacheLock` (`OneMaterializes`) and `CachePartial` follow.
* **FedWorkerProofs**. The worker's steps are steps of the cache or leave it alone
  (`FedUsesCache`), so both properties carry over. `SlotsConserved` is proved from one lemma on how
  moving a task changes the size of a phase set. `PresenceSettles` is strengthened to
  `PresenceOwned`: a presence that says Working has a counted task, or one about to announce Idle.
  `CallsFollowTasks` says which step of its cache call goes with each phase of a task; with holds covering
  holders, `HoldsFollowWork` follows.

* **FedQueueProofs**. A result is fetched by key and a redelivered item's result overwrites the first
  one's, so `AnswerHasDelta` needs what is behind it: a worker about to answer "committed" has stored its
  bundle (`StoredBeforeAnswer`), and what is under a subject's key was made for it (`ResultsBelong`, from
  `SubjectsDiffer`), from which `QueueDeltaBelongs` follows. `AckedWasAnswered` needs that a claim overwrites no
  delivery's end (`FutureIsFresh`). `QueueIsFleet`, the refinement of FleetTask, adds `TaskInv`: an item asks for
  its dispatch's base, which is final from then on, nobody answers before there is an item, and a worker about to
  store works on a commit that knows the base - whichever bundle the executor's `OnceCell` has kept.
* **SessionProofs**. `ConsentedCalls` is not inductive alone: `YesIsTheUsers` says that a yes in a
  oneshot was the user's, and `NoEarlyReply` that no reply is there before its question, so that beginning a
  call forgets none. `RequestNotLost` is kept by `RequestArrives` because the responder it replaces reads its
  drop as a denial; `ModalHasResponder` because every way to the modal brings one. `SessionIsGate`,
  the refinement of Consent, needs `AskedOnce`: a request is in the channel once or in the modal, and its
  call waits without a reply or is over. Without it an answer could meet a call that has one.
* **McpProofs**. `IdsInv` says that ids are given once, by counting the requests that have begun;
  `PendingInv` that the map and the oneshots divide the requests in flight; `ReplyInv` that every reply in pipe,
  oneshot or result bears the id of its own request, and that what it says of a job is true and stays so
  (`Fine`); `AskedInv` that a status request is sent after its job was recorded. `McpIsRemoteCall`, the
  refinement of RemoteCall, needs that a request is in the server's input or its hands once, and in neither after it
  was answered (`OnceInv`), and that every reply on its way says what was answered (`ToldInv`).
* **MemoryProofs**. `OneRowPerKey` and `OldHasNoIndex` carry the two index invariants through
  migration and upserts; `SteadyRowsHit` says, stage by stage, that a row that matched from the beginning is
  among the hits although its neighbours' ids are used again. `MemIsKeyed`,
  the refinement of KeyedMemory, takes from it that every search is honest; `SearchFindsSteady` and
  `PointersResolve`, proved on their own, are what its `Honest` and `Record` come to in the store.

A refinement is proved as three facts: the initial states map to initial states, each action maps to one of the
abstract actions or changes nothing of it (a lemma per action or group), and the invariant it rests on holds.

Model-checked only: the liveness properties `RunTerminates`, `WorkDrains`, `DispatchEnds`, `ItemsSettle`,
`RunSettles`, `JobSettles` and `RequestEnds`, which are out of the prover's reach. Every invariant and
every refinement that a run checks is also proved.

## 5. What is not modelled, and the plan

The plan's order followed the risk: pool and fan-out; cache and worker; queue; session; MCP; memory.
All of these are done. What is left, in the order in which it is worth doing:

1. *Event bus*: tee, `finish` with its five seconds, drop, with FanoutProtocol as the promise
   downstream. The consumer of a run reads the channel behind the tee, and nothing reads the bus in turn.
2. *A step further in the modelled parts*: the seal and the report of a run (whether a diff is empty, which
   the verdicts of Fanout do not tell apart); `run_dispatch`; the one-shot callers of `run_with_events`; the race of
   two openers of a file of before v1.
3. *Pure algorithms*: `dedup_presence`, the ranks of `recall.rs`, `decide` of the repair ledger. Their scores are
   floating point; the ledger has no caller.
4. *memory-pp*: its row and full-text mirror are two statements, so a crash between them leaves a row that
   is never recalled; `current`: its budget file is read and written whole by one process.

Left out for good: rendering, media, numeric kernels, prompt texts, configuration and its
defaults (the values that matter are constants of the modules), operating-system sandboxing, tool I/O,
generators and reports, and the content of what models answer. By lines that is most of the repository;
by shared state and concurrency it is little.
