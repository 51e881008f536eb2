------------------------------- MODULE FedQueue -------------------------------
(***************************************************************************)
(* One coder task sent to the fleet: the dispatcher's side                 *)
(* (crates/federation/src/executor.rs, and entheai_dispatch of             *)
(* crates/mcp-server, which follow the same protocol but bundle and apply  *)
(* differently), the queue and the object store as                         *)
(* crates/federation/src/lib.rs configures and uses them, and the worker   *)
(* that claims, works, stores, publishes and acks                          *)
(* (bin/entheai-worker/src/main.rs).  Deliveries may be repeated, workers  *)
(* may crash, results and acks may be lost.                                *)
(*                                                                         *)
(* Commits are numbered along one history, so a bundle of commit h knows   *)
(* the commits up to h.  What a worker does with its base is abstracted    *)
(* from BaseCache to which commit the cached repository really carries.    *)
(***************************************************************************)
EXTENDS Naturals, FiniteSets

CONSTANTS
    Coder,       \* dispatches by the FederationExecutor of one application
    Single,      \* dispatches by entheai_dispatch
    Subject,     \* session and index of each dispatch
    Node,        \* serving workers
    MaxCommit,   \* the last commit of the history
    MaxDeliver,  \* max_deliver of the consumer
    None

Dispatch == Coder \cup Single
Commit == 0..MaxCommit
Delivery == Dispatch \X (1..MaxDeliver)
Key == {"executor"} \cup {Subject[d] : d \in Dispatch}

\* A WorkItem: what it asks for, and under which key its base bundle is.
Item == [base : Commit, key : Key]
\* A WorkResult's "no-change" and "error" differ in the report only.
Status == {"committed", "nothing"}
\* A result bundle: the dispatch it was made for, the commit it was made on.
Delta == [by : Dispatch, on : Commit]

ASSUME QueueAssumption ==
    /\ IsFiniteSet(Dispatch) /\ Coder \cap Single = {}
    /\ MaxCommit \in Nat /\ MaxDeliver \in Nat \ {0}
    /\ "executor" \notin {Subject[d] : d \in Dispatch}
    /\ None \notin Commit \cup Item \cup Status \cup Delta

\* A worker's session is a UUID, so no two dispatches share a subject.
ASSUME SubjectsDiffer == \A d, e \in Dispatch : Subject[d] = Subject[e] => d = e

VARIABLES
    head,      \* HEAD of the user's repository
    stage,     \* where a dispatch stands
    base,      \* its base_sha
    inbox,     \* the first message of its subscription, until it is read
    delta,     \* the result bundle it downloaded
    bases,     \* base bundles in the object store
    results,   \* result bundles in the object store
    item,      \* the work items in the stream, None when there is none
    delivered, \* how often an item was delivered
    leased,    \* items whose ack_wait runs
    acked,     \* items acked, and so gone from the stream
    run,       \* where the worker that got a delivery stands with it
    node,      \* ... which worker that is
    tree,      \* ... the commit its worktree was made from
    outcome,   \* ... and the status of its WorkResult
    cached     \* the commit in a worker's cached repository for a base

dispatcher == <<stage, base, inbox, delta>>
stream == <<item, delivered, leased, acked>>
worker == <<run, node, tree, outcome, cached>>
queueVars == <<head, dispatcher, bases, results, stream, worker>>

Waiting == {"publish", "await"}
Ended == {"missed", "applied", "cancelled"}
Stage == {"idle", "bundle", "fetch", "apply"} \cup Waiting \cup Ended
Running == {"work", "store", "publish", "ack"}

QueueTypeOK ==
    /\ head \in Commit
    /\ stage \in [Dispatch -> Stage]
    /\ base \in [Dispatch -> Commit]
    /\ inbox \in [Dispatch -> Status \cup {None}]
    /\ delta \in [Dispatch -> Delta \cup {None}]
    /\ bases \in [Key -> Commit \cup {None}]
    /\ results \in [Key -> Delta \cup {None}]
    /\ item \in [Dispatch -> Item \cup {None}]
    /\ delivered \in [Dispatch -> 0..MaxDeliver]
    /\ leased \in SUBSET Dispatch
    /\ acked \in SUBSET Dispatch
    /\ run \in [Delivery -> Running \cup {"none", "done", "dead"}]
    /\ node \in [Delivery -> Node \cup {None}]
    /\ tree \in [Delivery -> Commit]
    /\ outcome \in [Delivery -> Status]
    /\ cached \in [Node -> [Commit -> Commit \cup {None}]]

Init ==
    /\ head \in Commit
    /\ stage = [d \in Dispatch |-> "idle"]
    /\ base = [d \in Dispatch |-> 0]
    /\ inbox = [d \in Dispatch |-> None]
    /\ delta = [d \in Dispatch |-> None]
    /\ bases = [k \in Key |-> None]
    /\ results = [k \in Key |-> None]
    /\ item = [d \in Dispatch |-> None]
    /\ delivered = [d \in Dispatch |-> 0]
    /\ leased = {} /\ acked = {}
    /\ run = [k \in Delivery |-> "none"]
    /\ node = [k \in Delivery |-> None]
    /\ tree = [k \in Delivery |-> 0]
    /\ outcome = [k \in Delivery |-> "nothing"]
    /\ cached = [w \in Node |-> [c \in Commit |-> None]]

-----------------------------------------------------------------------------
(* The dispatcher.                                                         *)

Goto(d, s) == stage' = [stage EXCEPT ![d] = s]

\* Nothing came from the fleet: execute returns None and the coder runs
\* locally, entheai_dispatch says so to its caller.
Miss(d) == Goto(d, "missed")

\* run_fanout resolves its base and asks for workers; entheai_dispatch
\* connects and goes on to bundle.
Begin(d) ==
    /\ stage[d] = "idle"
    /\ \/ /\ Goto(d, "bundle")
          /\ base' = [base EXCEPT ![d] = head]
       \/ Miss(d) /\ UNCHANGED base
    /\ UNCHANGED <<head, inbox, delta, bases, results, stream, worker>>

BaseKey(d) == IF d \in Coder THEN "executor" ELSE Subject[d]

\* ensure_base_bundle: the OnceCell holds the key of the first bundle made, so
\* the bundle, of what is HEAD by then, is made only when there is none.
\* entheai_dispatch bundles for itself and takes the bundled commit as base_sha.
\* Then each subscribes: before it dispatches, so that no result is missed.
BundleBase(d) ==
    /\ stage[d] = "bundle"
    /\ \/ /\ Goto(d, "publish")
          /\ IF d \in Coder
             THEN /\ bases' = IF bases["executor"] = None
                              THEN [bases EXCEPT !["executor"] = head] ELSE bases
                  /\ UNCHANGED base
             ELSE /\ bases' = [bases EXCEPT ![BaseKey(d)] = head]
                  /\ base' = [base EXCEPT ![d] = head]
       \/ Miss(d) /\ UNCHANGED <<base, bases>>
    /\ UNCHANGED <<head, inbox, delta, results, stream, worker>>

\* dispatch waits for the stream's ack; when that fails the item may be in the
\* stream all the same.
Publish(d) ==
    /\ stage[d] = "publish"
    /\ \E arrives, acknowledged \in BOOLEAN :
          /\ acknowledged => arrives
          /\ item' = IF arrives
                     THEN [item EXCEPT ![d] = [base |-> base[d], key |-> BaseKey(d)]]
                     ELSE item
          /\ Goto(d, IF acknowledged THEN "await" ELSE "missed")
    /\ UNCHANGED <<head, base, inbox, delta, bases, results, delivered, leased, acked, worker>>

\* await_result yields the first message of the subscription.
Receive(d) ==
    /\ stage[d] = "await" /\ inbox[d] # None
    /\ Goto(d, IF inbox[d] = "committed" THEN "fetch" ELSE "missed")
    /\ inbox' = [inbox EXCEPT ![d] = None]
    /\ UNCHANGED <<head, base, delta, bases, results, stream, worker>>

\* An await_result without its time-out.
TimeOutNever(d) == FALSE /\ UNCHANGED queueVars

TimeOut(d) ==
    /\ stage[d] = "await"
    /\ Miss(d)
    /\ inbox' = [inbox EXCEPT ![d] = None]
    /\ UNCHANGED <<head, base, delta, bases, results, stream, worker>>

\* get_bundle of the key the result names: whatever is stored there by now.
FetchDelta(d) ==
    /\ stage[d] = "fetch"
    /\ \/ /\ results[Subject[d]] # None
          /\ delta' = [delta EXCEPT ![d] = results[Subject[d]]]
          /\ Goto(d, "apply")
       \/ Miss(d) /\ UNCHANGED delta
    /\ UNCHANGED <<head, base, inbox, bases, results, stream, worker>>

\* The ref a result bundle carries, and the one each dispatcher fetches.
BundledRef == "HEAD"
FetchedRef(d) == IF d \in Coder THEN "fed-work" ELSE "HEAD"

\* execute squash-merges into the worktree and resets it on any failure;
\* apply_delta_bundle fetches into a fresh branch.
Apply(d) ==
    /\ stage[d] = "apply"
    /\ Goto(d, IF FetchedRef(d) = BundledRef THEN "applied" ELSE "missed")
    /\ UNCHANGED <<head, base, inbox, delta, bases, results, stream, worker>>

\* The coder's pool time-out, a stop or a cancelled run drops execute.
Cancel(d) ==
    /\ d \in Coder /\ stage[d] \notin Ended \cup {"idle"}
    /\ Goto(d, "cancelled")
    /\ inbox' = [inbox EXCEPT ![d] = None]
    /\ UNCHANGED <<head, base, delta, bases, results, stream, worker>>

\* The user commits or checks out something else.
MoveHead ==
    /\ head' \in Commit
    /\ UNCHANGED <<dispatcher, bases, results, stream, worker>>

-----------------------------------------------------------------------------
(* The queue and the worker.                                               *)

At(k, s) == run' = [run EXCEPT ![k] = s]

\* A consumer without max_deliver, and one whose items are acked on delivery.
ClaimUnlimited(w, d) ==
    /\ item[d] # None /\ d \notin acked \cup leased
    /\ delivered' = [delivered EXCEPT ![d] = @ + 1]
    /\ leased' = leased \cup {d}
    /\ LET k == <<d, delivered[d] + 1>>
       IN At(k, "work") /\ node' = [node EXCEPT ![k] = w]
    /\ UNCHANGED <<head, dispatcher, bases, results, item, acked, tree, outcome, cached>>
ClaimAcks(w, d) ==
    /\ item[d] # None /\ d \notin acked \cup leased
    /\ delivered[d] < MaxDeliver
    /\ delivered' = [delivered EXCEPT ![d] = @ + 1]
    /\ acked' = acked \cup {d}
    /\ LET k == <<d, delivered[d] + 1>>
       IN At(k, "work") /\ node' = [node EXCEPT ![k] = w]
    /\ UNCHANGED <<head, dispatcher, bases, results, item, leased, tree, outcome, cached>>

\* claim: a pull consumer gets an item that is neither acked nor leased, at
\* most max_deliver times.
Claim(w, d) ==
    /\ item[d] # None /\ d \notin acked \cup leased
    /\ delivered[d] < MaxDeliver
    /\ delivered' = [delivered EXCEPT ![d] = @ + 1]
    /\ leased' = leased \cup {d}
    /\ LET k == <<d, delivered[d] + 1>>
       IN At(k, "work") /\ node' = [node EXCEPT ![k] = w]
    /\ UNCHANGED <<head, dispatcher, bases, results, item, acked, tree, outcome, cached>>

\* A consumer without ack_wait.
LeaseNeverExpires(d) == FALSE /\ UNCHANGED queueVars

\* ack_wait has passed: the item can be delivered again, its worker goes on.
LeaseExpires(d) ==
    /\ d \in leased
    /\ leased' = leased \ {d}
    /\ UNCHANGED <<head, dispatcher, bases, results, item, delivered, acked, worker>>

Fails(k) == At(k, "publish") /\ outcome' = [outcome EXCEPT ![k] = "nothing"]

\* The commit the worktree is made from: a repository cached for the base is
\* used as it is, else the bundle becomes that repository; the fall-back
\* clones the bundle into a directory of its own.
Prepare(k, on) ==
    LET it == item[k[1]]
        have == cached[node[k]][it.base]
    IN \/ /\ on = IF have # None THEN have ELSE bases[it.key]
          /\ cached' = [cached EXCEPT ![node[k]][it.base] = on]
       \/ on = bases[it.key] /\ UNCHANGED cached

\* The coder runs in its worktree, and what it changed is bundled as
\* base_sha..HEAD, which needs base_sha to be known there.
Work(k) ==
    /\ run[k] = "work"
    /\ \/ \E on \in Commit :
             /\ Prepare(k, on)
             /\ \/ /\ item[k[1]].base <= on
                   /\ At(k, "store") /\ tree' = [tree EXCEPT ![k] = on]
                   /\ UNCHANGED outcome
                \/ /\ At(k, "publish") /\ UNCHANGED tree
                   /\ outcome' = [outcome EXCEPT ![k] = "nothing"]
       \/ Fails(k) /\ UNCHANGED <<tree, cached>>
    /\ UNCHANGED <<head, dispatcher, bases, results, stream, node>>

ResultKey(k) == Subject[k[1]]

\* A worker that reports its commit even when the upload failed.
StoreUnchecked(k) ==
    /\ run[k] = "store"
    /\ \/ results' = [results EXCEPT ![ResultKey(k)] = [by |-> k[1], on |-> tree[k]]]
       \/ UNCHANGED results
    /\ At(k, "publish")
    /\ outcome' = [outcome EXCEPT ![k] = "committed"]
    /\ UNCHANGED <<head, dispatcher, bases, stream, node, tree, cached>>

Store(k) ==
    /\ run[k] = "store"
    /\ \/ /\ results' = [results EXCEPT ![ResultKey(k)] =
                            [by |-> k[1], on |-> tree[k]]]
          /\ At(k, "publish")
          /\ outcome' = [outcome EXCEPT ![k] = "committed"]
       \/ Fails(k) /\ UNCHANGED results
    /\ UNCHANGED <<head, dispatcher, bases, stream, node, tree, cached>>

Listening(d) == stage[d] \in Waiting /\ inbox[d] = None

\* publish_result, best effort: it reaches whoever is subscribed, or no one.
PublishResult(k) ==
    /\ run[k] = "publish"
    /\ At(k, "ack")
    /\ \/ inbox' = [d \in Dispatch |->
                       IF Subject[d] = ResultKey(k) /\ Listening(d)
                       THEN outcome[k] ELSE inbox[d]]
       \/ UNCHANGED inbox
    /\ UNCHANGED <<head, stage, base, delta, bases, results, stream, node, tree, outcome, cached>>

\* What a task held goes with it (its values no longer matter).
Forget(K) ==
    /\ node' = [k \in Delivery |-> IF k \in K THEN None ELSE node[k]]
    /\ tree' = [k \in Delivery |-> IF k \in K THEN 0 ELSE tree[k]]
    /\ outcome' = [k \in Delivery |-> IF k \in K THEN "nothing" ELSE outcome[k]]

\* ack, best effort; one for an expired delivery removes the item as well.
Ack(k) ==
    /\ run[k] = "ack"
    /\ At(k, "done") /\ Forget({k})
    /\ \/ acked' = acked \cup {k[1]} /\ leased' = leased \ {k[1]}
       \/ UNCHANGED <<acked, leased>>
    /\ UNCHANGED <<head, dispatcher, bases, results, item, delivered, cached>>

\* A worker process dies with all it was doing; its cache is on disk.
Crash(w) ==
    /\ \E k \in Delivery : node[k] = w /\ run[k] \in Running
    /\ run' = [k \in Delivery |->
                 IF node[k] = w /\ run[k] \in Running THEN "dead" ELSE run[k]]
    /\ Forget({k \in Delivery : node[k] = w})
    /\ UNCHANGED <<head, dispatcher, bases, results, stream, cached>>

-----------------------------------------------------------------------------
DispatchStep(d) ==
    Begin(d) \/ BundleBase(d) \/ Publish(d)
        \/ Receive(d) \/ TimeOut(d) \/ FetchDelta(d) \/ Apply(d)
RunStep(k) == Work(k) \/ Store(k) \/ PublishResult(k) \/ Ack(k)

Next ==
    \/ \E d \in Dispatch : DispatchStep(d) \/ Cancel(d) \/ LeaseExpires(d)
    \/ \E w \in Node : (\E d \in Dispatch : Claim(w, d)) \/ Crash(w)
    \/ \E k \in Delivery : RunStep(k)
    \/ MoveHead

Spec == Init /\ [][Next]_queueVars

\* Time-outs and the queue's timer fire; a worker asks for work again and
\* again, and its coder ends at its own deadline.
Fairness ==
    /\ \A d \in Dispatch :
          /\ WF_queueVars(DispatchStep(d))
          /\ WF_queueVars(LeaseExpires(d))
          /\ WF_queueVars(\E w \in Node : Claim(w, d))
    /\ \A k \in Delivery : WF_queueVars(RunStep(k))

FairSpec == Spec /\ Fairness

-----------------------------------------------------------------------------
(* What a dispatch may rely on, whatever is redelivered, lost or crashes.  *)

\* The bundle a dispatch takes from the store was made for it, although it is
\* fetched by a key and not from the worker that answered.
DeltaBelongs ==
    \A d \in Dispatch : delta[d] # None => delta[d].by = d

\* A result that says "committed" has its bundle in the store already, though
\* it may come from another delivery than the answer.
AnswerHasDelta ==
    \A d \in Dispatch : inbox[d] = "committed" \/ stage[d] = "fetch"
        => results[Subject[d]] # None

\* Queue, stores and workers are a fleet as FleetTask promises it.
Fleet == INSTANCE FleetTask WITH
    state <- [d \in Dispatch |->
                IF stage[d] \in Ended THEN stage[d]
                ELSE IF stage[d] = "apply" THEN "taken"
                ELSE IF stage[d] = "fetch" \/ inbox[d] = "committed" THEN "promised"
                ELSE "open"],
    asked <- {d \in Dispatch : item[d] # None},
    tries <- delivered,
    made  <- [d \in Dispatch |-> {results[Subject[d]]} \ {None}],
    taken <- [d \in Dispatch |-> {delta[d]} \ {None}]

FleetSpec == Fleet!FleetSpec

\* An item leaves the queue only behind an answer: as long as no delivery got
\* to its end, a crash costs nothing but that delivery.
AckedWasAnswered ==
    \A d \in acked : \E n \in 1..MaxDeliver : run[<<d, n>>] = "done"

\* Every dispatch ends, whatever becomes of the workers.
DispatchEnds == \A d \in Dispatch : <>(stage[d] \in Ended)

\* Every item is acked or delivered max_deliver times, and no worker stays
\* busy with it, also when its dispatcher has gone long before.
Settled(d) ==
    /\ item[d] = None \/ d \in acked \/ delivered[d] = MaxDeliver
    /\ \A n \in 1..MaxDeliver : run[<<d, n>>] \notin Running
ItemsSettle == \A d \in Dispatch : <>[]Settled(d)

\* A fetched result is applied (executor.rs: "squash-apply its delta into the
\* caller's worktree").  Fails: the executor fetches a ref no bundle carries.
FetchedIsApplied ==
    [][\A d \in Coder : stage[d] = "apply" /\ stage'[d] # "apply"
          => stage'[d] \in {"applied", "cancelled"}]_queueVars

\* What is applied starts at the commit the dispatch asked for ("root HEAD ==
\* the fan-out base").  Fails: a stale executor bundle becomes the cached
\* repository of another base, from which later dispatches are served.
AppliedOnItsBase ==
    \A d \in Dispatch : stage[d] = "applied" => delta[d].on = base[d]
=============================================================================
