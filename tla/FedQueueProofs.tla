---------------------------- MODULE FedQueueProofs ----------------------------
(***************************************************************************)
(* Proofs about FedQueue, for any dispatches, workers, history and         *)
(* max_deliver: what a dispatch takes from the store is its own, an answer *)
(* has its bundle, and an item leaves the queue only behind an answer.     *)
(***************************************************************************)
EXTENDS FedQueue, TLAPS

ResultsBelong ==
    \A d \in Dispatch : results[Subject[d]] # None => results[Subject[d]].by = d

\* A worker that is about to answer "committed" has stored its bundle.
StoredBeforeAnswer ==
    \A k \in Delivery : run[k] = "publish" /\ outcome[k] = "committed"
        => results[Subject[k[1]]] # None

\* A delivery that is still to come has no worker: a claim overwrites no end.
FutureIsFresh ==
    \A d \in Dispatch, n \in 1..MaxDeliver :
        n > delivered[d] => run[<<d, n>>] = "none"

ClaimedIsStored == \A k \in Delivery : run[k] \in Running => item[k[1]] # None

QueueInv ==
    /\ QueueTypeOK
    /\ ResultsBelong /\ DeltaBelongs
    /\ StoredBeforeAnswer /\ AnswerHasDelta
    /\ ClaimedIsStored
    /\ FutureIsFresh /\ AckedWasAnswered

-------------------------------------------------------------------------------
LEMMA Kinds ==
    /\ Delivery = {<<d, n>> : d \in Dispatch, n \in 1..MaxDeliver}
    /\ \A k \in Delivery : k = <<k[1], k[2]>> /\ k[1] \in Dispatch /\ k[2] \in 1..MaxDeliver
    /\ \A d \in Dispatch : Subject[d] \in Key /\ BaseKey(d) \in Key
    /\ MaxDeliver \in Nat /\ MaxDeliver >= 1 /\ 0 \in Commit
    /\ "executor" \in Key
    /\ \A x \in Item \cup Delta \cup Status \cup Commit : x # None
    /\ None # "committed"
  BY QueueAssumption DEF Delivery, Key, BaseKey, Commit, Dispatch, Status

LEMMA QueueInitially == Init => QueueInv
<1> SUFFICES ASSUME Init PROVE QueueInv
  OBVIOUS
<1> USE Kinds DEF Init
<1>1. QueueTypeOK
  BY DEF QueueTypeOK, Stage, Status, Running
<1>2. ResultsBelong /\ DeltaBelongs /\ AnswerHasDelta
  BY DEF ResultsBelong, DeltaBelongs, AnswerHasDelta
<1>3. StoredBeforeAnswer /\ ClaimedIsStored
  BY DEF StoredBeforeAnswer, ClaimedIsStored, Running
<1>4. FutureIsFresh
  <2>1. \A d \in Dispatch, n \in 1..MaxDeliver : <<d, n>> \in Delivery
    OBVIOUS
  <2> QED
    BY <2>1 DEF FutureIsFresh
<1>5. AckedWasAnswered
  BY DEF AckedWasAnswered
<1> QED
  BY <1>1, <1>2, <1>3, <1>4, <1>5 DEF QueueInv

\* A step of the dispatcher leaves the worker's side alone, except that it may
\* put an item into the stream.
LEMMA DispatcherKeeps ==
    ASSUME QueueInv, QueueTypeOK',
           UNCHANGED <<results, delivered, acked, run, outcome>>,
           \A d \in Dispatch : item[d] # None => item'[d] # None
    PROVE  /\ ResultsBelong' /\ StoredBeforeAnswer' /\ ClaimedIsStored'
           /\ FutureIsFresh' /\ AckedWasAnswered'
  BY Kinds DEF QueueInv, ResultsBelong, StoredBeforeAnswer, ClaimedIsStored,
               FutureIsFresh, AckedWasAnswered

LEMMA DispatchStepKeeps ==
    ASSUME QueueInv, NEW d \in Dispatch, DispatchStep(d) \/ Cancel(d)
    PROVE  QueueInv'
<1> USE Kinds DEF QueueInv, QueueTypeOK, Goto, Miss, Stage, Ended, Waiting,
                  stream, worker, dispatcher
<1>1. CASE Begin(d) \/ BundleBase(d)
  <2>1. QueueTypeOK'
    <3>1. CASE Begin(d)
      <4>1. /\ \E t \in Stage : stage' = [stage EXCEPT ![d] = t]
            /\ \E c \in Commit : base' = [base EXCEPT ![d] = c]
            /\ UNCHANGED <<head, inbox, delta, bases, results, item, delivered, leased,
                           acked, run, node, tree, outcome, cached>>
        <5>1. base = [base EXCEPT ![d] = base[d]]
          OBVIOUS
        <5> QED
          BY <3>1, <5>1 DEF Begin
      <4> QED
        BY <4>1
    <3>2. CASE BundleBase(d)
      <4>1. /\ stage' \in [Dispatch -> Stage] /\ base' \in [Dispatch -> Commit]
        BY <3>2 DEF BundleBase
      <4>2. bases' \in [Key -> Commit \cup {None}]
        <5>1. \/ bases' = bases
              \/ \E key \in Key : bases' = [bases EXCEPT ![key] = head]
          BY <3>2 DEF BundleBase
        <5> QED
          BY <5>1
      <4> QED
        BY <3>2, <4>1, <4>2 DEF BundleBase
    <3> QED
      BY <1>1, <3>1, <3>2
  <2>2. DeltaBelongs' /\ AnswerHasDelta'
    BY <1>1 DEF Begin, BundleBase, DeltaBelongs, AnswerHasDelta
  <2>3. UNCHANGED <<results, delivered, acked, run, outcome, item>>
    BY <1>1 DEF Begin, BundleBase
  <2> QED
    BY <2>1, <2>2, <2>3, DispatcherKeeps
<1>2. CASE Publish(d)
  <2>1. [base |-> base[d], key |-> BaseKey(d)] \in Item
    BY DEF Item
  <2>2. PICK arrives \in BOOLEAN :
           item' = IF arrives
                   THEN [item EXCEPT ![d] = [base |-> base[d], key |-> BaseKey(d)]]
                   ELSE item
    BY <1>2 DEF Publish
  <2>3. item' \in [Dispatch -> Item \cup {None}] /\ stage' \in [Dispatch -> Stage]
    BY <1>2, <2>1, <2>2 DEF Publish
  <2>4. QueueTypeOK'
    BY <1>2, <2>3 DEF Publish
  <2>5. DeltaBelongs' /\ AnswerHasDelta'
    BY <1>2 DEF Publish, DeltaBelongs, AnswerHasDelta
  <2>6. \A e \in Dispatch : item[e] # None => item'[e] # None
    BY <2>1, <2>2
  <2>7. UNCHANGED <<results, delivered, acked, run, outcome>>
    BY <1>2 DEF Publish
  <2> QED
    BY <2>4, <2>5, <2>6, <2>7, DispatcherKeeps
<1>3. CASE Receive(d) \/ TimeOut(d) \/ Apply(d) \/ Cancel(d)
  <2>1. QueueTypeOK'
    BY <1>3 DEF Receive, TimeOut, Apply, Cancel
  <2>2. DeltaBelongs' /\ AnswerHasDelta'
    BY <1>3 DEF Receive, TimeOut, Apply, Cancel, DeltaBelongs, AnswerHasDelta
  <2>3. UNCHANGED <<results, delivered, acked, run, outcome, item>>
    BY <1>3 DEF Receive, TimeOut, Apply, Cancel
  <2> QED
    BY <2>1, <2>2, <2>3, DispatcherKeeps
<1>4. CASE FetchDelta(d)
  <2>1. QueueTypeOK'
    BY <1>4 DEF FetchDelta
  <2>2. DeltaBelongs' /\ AnswerHasDelta'
    BY <1>4 DEF FetchDelta, DeltaBelongs, AnswerHasDelta, ResultsBelong
  <2>3. UNCHANGED <<results, delivered, acked, run, outcome, item>>
    BY <1>4 DEF FetchDelta
  <2> QED
    BY <2>1, <2>2, <2>3, DispatcherKeeps
<1> QED
  BY <1>1, <1>2, <1>3, <1>4 DEF DispatchStep

LEMMA ClaimKeeps ==
    ASSUME QueueInv, NEW w \in Node, NEW d \in Dispatch, Claim(w, d)
    PROVE  QueueInv'
<1> DEFINE k == <<d, delivered[d] + 1>>
<1> USE Kinds DEF QueueInv, QueueTypeOK
<1>1. delivered[d] + 1 \in 1..MaxDeliver /\ k \in Delivery
  BY DEF Claim
<1>2. /\ run' = [run EXCEPT ![k] = "work"]
      /\ delivered' = [delivered EXCEPT ![d] = @ + 1]
      /\ node' = [node EXCEPT ![k] = w]
      /\ item[d] # None
      /\ leased' = leased \cup {d}
      /\ UNCHANGED <<head, dispatcher, bases, results, item, acked, tree, outcome, cached>>
  BY DEF Claim, At
<1>3. QueueTypeOK'
  BY <1>1, <1>2 DEF dispatcher, Running
<1>4. ResultsBelong' /\ DeltaBelongs' /\ AnswerHasDelta'
  BY <1>2 DEF dispatcher, ResultsBelong, DeltaBelongs, AnswerHasDelta
<1>5. StoredBeforeAnswer'
  BY <1>1, <1>2 DEF StoredBeforeAnswer
<1>6. ClaimedIsStored'
  BY <1>1, <1>2 DEF ClaimedIsStored
<1>7. FutureIsFresh'
  BY <1>1, <1>2 DEF FutureIsFresh
<1>8. AckedWasAnswered'
  <2>1. run[k] = "none"
    BY <1>1 DEF FutureIsFresh
  <2>2. \A j \in Delivery : run[j] = "done" => run'[j] = "done"
    BY <1>1, <1>2, <2>1
  <2>3. \A e \in acked : \E n \in 1..MaxDeliver : run[<<e, n>>] = "done"
    BY DEF AckedWasAnswered
  <2>4. \A e \in acked, n \in 1..MaxDeliver : <<e, n>> \in Delivery
    BY DEF QueueTypeOK
  <2> HIDE DEF k
  <2>5. \A e \in acked : \E n \in 1..MaxDeliver : run'[<<e, n>>] = "done"
    BY <2>2, <2>3, <2>4
  <2> QED
    BY <1>2, <2>5 DEF AckedWasAnswered
<1> QED
  BY <1>3, <1>4, <1>5, <1>6, <1>7, <1>8
LEMMA RunStepKeeps ==
    ASSUME QueueInv, NEW k \in Delivery, RunStep(k)
    PROVE  QueueInv'
<1> USE Kinds DEF QueueInv, QueueTypeOK, Running, stream, dispatcher
<1> DEFINE d == k[1]
<1>1. d \in Dispatch /\ k = <<k[1], k[2]>> /\ k[2] \in 1..MaxDeliver
  OBVIOUS
\* The run was under way, so it is none of those to come.
<1>2. ASSUME run[k] \in Running, NEW s \in Running \cup {"done"}, run' = [run EXCEPT ![k] = s],
             delivered' = delivered
      PROVE  FutureIsFresh'
  BY <1>2 DEF FutureIsFresh
<1>3. ASSUME run[k] \in Running, NEW s \in Running \cup {"done"}, run' = [run EXCEPT ![k] = s],
             acked' \in SUBSET Dispatch, acked' \subseteq acked \cup (IF s = "done" THEN {d} ELSE {})
      PROVE  AckedWasAnswered'
  <2>1. \A j \in Delivery : run[j] = "done" => run'[j] = "done"
    BY <1>3
  <2>2. \A e \in Dispatch, n \in 1..MaxDeliver : <<e, n>> \in Delivery
    OBVIOUS
  <2>3. s = "done" => run'[<<k[1], k[2]>>] = "done"
    BY <1>1, <1>3
  <2>4. \A e \in acked : \E n \in 1..MaxDeliver : run'[<<e, n>>] = "done"
    BY <2>1, <2>2 DEF AckedWasAnswered
  <2> QED
    BY <1>1, <1>3, <2>3, <2>4 DEF AckedWasAnswered
<1>4. CASE Work(k)
  <2>1. item[d] # None /\ item[d] \in Item /\ item[d].base \in Commit /\ item[d].key \in Key
    BY <1>1, <1>4 DEF Work, ClaimedIsStored, Item
  <2>2. PICK s \in {"store", "publish"} :
           /\ run' = [run EXCEPT ![k] = s]
           /\ outcome' = IF s = "store" THEN outcome ELSE [outcome EXCEPT ![k] = "nothing"]
    BY <1>4 DEF Work, At, Fails
  <2>3. \/ cached' = cached
        \/ \E on \in Commit : cached' = [cached EXCEPT ![node[k]][item[d].base] = on]
    BY <1>4 DEF Work, Prepare
  <2>4. cached' \in [Node -> [Commit -> Commit \cup {None}]]
    <3>1. CASE \E on \in Commit : cached' = [cached EXCEPT ![node[k]][item[d].base] = on]
      <4>1. PICK on \in Commit : cached' = [cached EXCEPT ![node[k]][item[d].base] = on]
        BY <3>1
      <4>2. \A w \in Node : [cached[w] EXCEPT ![item[d].base] = on] \in [Commit -> Commit \cup {None}]
        BY <2>1
      <4>3. cached' = [w \in Node |-> IF w = node[k] THEN [cached[w] EXCEPT ![item[d].base] = on]
                                     ELSE cached[w]]
        BY <4>1
      <4> QED
        BY <4>2, <4>3
    <3> QED
      BY <2>3, <3>1
  <2>5. tree' \in [Delivery -> Commit] /\ run[k] = "work"
    BY <1>4 DEF Work
  <2>6. UNCHANGED <<head, stage, base, inbox, delta, bases, results, item, delivered, leased, acked, node>>
    BY <1>4 DEF Work
  <2>7. QueueTypeOK'
    BY <2>2, <2>4, <2>5, <2>6 DEF Status
  <2>8. ResultsBelong' /\ DeltaBelongs' /\ AnswerHasDelta'
    BY <2>6 DEF ResultsBelong, DeltaBelongs, AnswerHasDelta
  <2>9. StoredBeforeAnswer' /\ ClaimedIsStored'
    BY <2>2, <2>5, <2>6 DEF StoredBeforeAnswer, ClaimedIsStored
  <2> QED
    BY <1>2, <1>3, <2>2, <2>5, <2>6, <2>7, <2>8, <2>9
<1>5. CASE Store(k)
  <2> DEFINE new == [by |-> d, on |-> tree[k]]
  <2>1. new \in Delta /\ new # None /\ new.by = d
    BY <1>1 DEF Delta
  <2>2. \/ /\ results' = [results EXCEPT ![Subject[d]] = new]
           /\ outcome' = [outcome EXCEPT ![k] = "committed"]
        \/ results' = results /\ outcome' = [outcome EXCEPT ![k] = "nothing"]
    BY <1>5 DEF Store, Fails, ResultKey
  <2>3. run' = [run EXCEPT ![k] = "publish"] /\ run[k] = "store"
    BY <1>5 DEF Store, At, Fails
  <2>4. UNCHANGED <<head, stage, base, inbox, delta, bases, item, delivered, leased, acked, node, tree, cached>>
    BY <1>5 DEF Store
  <2> HIDE DEF new
  <2>5. QueueTypeOK'
    <3>1. results' \in [Key -> Delta \cup {None}] /\ outcome' \in [Delivery -> Status]
      BY <1>1, <2>1, <2>2 DEF Status
    <3> QED
      BY <2>3, <2>4, <3>1
  <2>6. ResultsBelong'
    BY <1>1, <2>1, <2>2, SubjectsDiffer DEF ResultsBelong
  <2>7. DeltaBelongs'
    BY <2>4 DEF DeltaBelongs
  <2>8. \A e \in Dispatch : results[Subject[e]] # None => results'[Subject[e]] # None
    BY <2>1, <2>2
  <2>9. AnswerHasDelta'
    BY <2>4, <2>8 DEF AnswerHasDelta
  <2>10. StoredBeforeAnswer'
    BY <1>1, <2>1, <2>2, <2>3, <2>8 DEF StoredBeforeAnswer
  <2>11. ClaimedIsStored'
    BY <2>3, <2>4 DEF ClaimedIsStored
  <2> QED
    BY <1>2, <1>3, <2>3, <2>4, <2>5, <2>6, <2>7, <2>9, <2>10, <2>11
<1>6. CASE PublishResult(k)
  <2>1. run' = [run EXCEPT ![k] = "ack"] /\ run[k] = "publish"
    BY <1>6 DEF PublishResult, At
  <2>2. UNCHANGED <<head, stage, base, delta, bases, results, item, delivered, leased, acked, node, tree, outcome, cached>>
    BY <1>6 DEF PublishResult
  <2>3. /\ inbox' \in [Dispatch -> Status \cup {None}]
        /\ \A e \in Dispatch : (inbox'[e] = inbox[e] \/ (inbox'[e] = outcome[k] /\ Subject[e] = Subject[d]))
    <3>1. outcome[k] \in Status /\ inbox \in [Dispatch -> Status \cup {None}]
      OBVIOUS
    <3>2. \/ inbox' = inbox
          \/ inbox' = [e \in Dispatch |-> IF Subject[e] = Subject[d] /\ Listening(e)
                                          THEN outcome[k] ELSE inbox[e]]
      BY <1>6 DEF PublishResult, ResultKey
    <3> HIDE Kinds DEF QueueInv, QueueTypeOK, d
    <3> QED
      BY <3>1, <3>2
  <2>4. QueueTypeOK'
    BY <2>1, <2>2, <2>3
  <2>5. AnswerHasDelta'
    BY <1>1, <2>1, <2>2, <2>3 DEF AnswerHasDelta, StoredBeforeAnswer
  <2>6. ResultsBelong' /\ DeltaBelongs' /\ StoredBeforeAnswer' /\ ClaimedIsStored'
    BY <2>1, <2>2 DEF ResultsBelong, DeltaBelongs, StoredBeforeAnswer, ClaimedIsStored
  <2> QED
    BY <1>2, <1>3, <2>1, <2>2, <2>4, <2>5, <2>6
<1>7. CASE Ack(k)
  <2>1. run' = [run EXCEPT ![k] = "done"] /\ run[k] = "ack"
    BY <1>7 DEF Ack, At
  <2>2. acked' \in {acked, acked \cup {d}} /\ leased' \in SUBSET Dispatch
    BY <1>7 DEF Ack
  <2>3. UNCHANGED <<head, stage, base, inbox, delta, bases, results, item, delivered, cached>>
    BY <1>7 DEF Ack
  <2>4. /\ node' \in [Delivery -> Node \cup {None}] /\ tree' \in [Delivery -> Commit]
        /\ outcome' \in [Delivery -> Status]
    BY <1>7 DEF Ack, Forget, Status
  <2>5. \A j \in Delivery : outcome'[j] = "committed" => outcome[j] = "committed"
    BY <1>7 DEF Ack, Forget
  <2>6. QueueTypeOK'
    BY <1>1, <2>1, <2>2, <2>3, <2>4
  <2>7. ResultsBelong' /\ DeltaBelongs' /\ AnswerHasDelta'
    BY <2>3 DEF ResultsBelong, DeltaBelongs, AnswerHasDelta
  <2>8. StoredBeforeAnswer' /\ ClaimedIsStored'
    BY <2>1, <2>3, <2>5 DEF StoredBeforeAnswer, ClaimedIsStored
  <2>9. acked' \in SUBSET Dispatch /\ acked' \subseteq acked \cup {d}
    BY <1>1, <2>2
  <2> QED
    BY <1>2, <1>3, <2>1, <2>3, <2>6, <2>7, <2>8, <2>9
<1> QED
  BY <1>4, <1>5, <1>6, <1>7 DEF RunStep

LEMMA OtherKeeps ==
    ASSUME QueueInv,
           \/ MoveHead
           \/ \E d \in Dispatch : LeaseExpires(d)
           \/ \E w \in Node : Crash(w)
           \/ UNCHANGED queueVars
    PROVE  QueueInv'
<1> USE Kinds DEF QueueInv, QueueTypeOK
<1>1. /\ UNCHANGED <<stage, base, inbox, delta, bases, results, item, delivered, acked, cached>>
      /\ head' \in Commit /\ leased' \in SUBSET Dispatch
  BY DEF MoveHead, LeaseExpires, Crash, queueVars, dispatcher, stream, worker
<1>2. \A j \in Delivery :
         \/ run'[j] = run[j]
         \/ run[j] \in Running /\ run'[j] = "dead"
  BY DEF MoveHead, LeaseExpires, Crash, queueVars, worker
<1>3. /\ run' \in [Delivery -> Running \cup {"none", "done", "dead"}]
      /\ node' \in [Delivery -> Node \cup {None}] /\ tree' \in [Delivery -> Commit]
      /\ outcome' \in [Delivery -> Status]
      /\ \A j \in Delivery : outcome'[j] = "committed" => outcome[j] = "committed"
  <2>1. CASE \E w \in Node : Crash(w)
    <3>1. PICK w \in Node : Crash(w)
      BY <2>1
    <3> QED
      BY <3>1 DEF Crash, Forget, Status, Running
  <2>2. CASE UNCHANGED worker
    BY <2>2 DEF worker
  <2> QED
    BY <2>1, <2>2 DEF MoveHead, LeaseExpires, queueVars
<1>5. QueueTypeOK'
  BY <1>1, <1>3
<1>6. ResultsBelong' /\ DeltaBelongs' /\ AnswerHasDelta'
  BY <1>1 DEF ResultsBelong, DeltaBelongs, AnswerHasDelta
<1>7. StoredBeforeAnswer' /\ ClaimedIsStored'
  BY <1>1, <1>2, <1>3 DEF StoredBeforeAnswer, ClaimedIsStored, Running
<1>8. FutureIsFresh'
  <2>1. \A d \in Dispatch, n \in 1..MaxDeliver : <<d, n>> \in Delivery
    OBVIOUS
  <2> QED
    BY <1>1, <1>2, <2>1 DEF FutureIsFresh, Running
<1>9. AckedWasAnswered'
  <2>1. \A d \in Dispatch, n \in 1..MaxDeliver : <<d, n>> \in Delivery
    OBVIOUS
  <2>2. \A j \in Delivery : run[j] = "done" => run'[j] = "done"
    BY <1>2 DEF Running
  <2> QED
    BY <1>1, <2>1, <2>2 DEF AckedWasAnswered
<1> QED
  BY <1>5, <1>6, <1>7, <1>8, <1>9

\* The inductive invariant of the queue.
THEOREM QueueInvariant == Spec => []QueueInv
<1>1. QueueInv /\ [Next]_queueVars => QueueInv'
  <2> SUFFICES ASSUME QueueInv, [Next]_queueVars PROVE QueueInv'
    OBVIOUS
  <2>1. CASE \E d \in Dispatch : DispatchStep(d) \/ Cancel(d)
    BY <2>1, DispatchStepKeeps
  <2>2. CASE \E w \in Node, d \in Dispatch : Claim(w, d)
    BY <2>2, ClaimKeeps
  <2>3. CASE \E k \in Delivery : RunStep(k)
    BY <2>3, RunStepKeeps
  <2>4. CASE \/ MoveHead
             \/ \E d \in Dispatch : LeaseExpires(d)
             \/ \E w \in Node : Crash(w)
             \/ UNCHANGED queueVars
    BY <2>4, OtherKeeps
  <2> QED
    BY <2>1, <2>2, <2>3, <2>4 DEF Next
<1> QED
  BY QueueInitially, <1>1, PTL DEF Spec

\* The bundle a dispatch takes from the store was made for it.
THEOREM QueueDeltaBelongs == Spec => []DeltaBelongs
<1>1. QueueInv => DeltaBelongs
  BY DEF QueueInv
<1> QED
  BY <1>1, QueueInvariant, PTL

\* An answer "committed" has its bundle in the store.
THEOREM QueueAnswerHasDelta == Spec => []AnswerHasDelta
<1>1. QueueInv => AnswerHasDelta
  BY DEF QueueInv
<1> QED
  BY <1>1, QueueInvariant, PTL

\* An item leaves the queue only behind an answer.
THEOREM QueueAcked == Spec => []AckedWasAnswered
<1>1. QueueInv => AckedWasAnswered
  BY DEF QueueInv
<1> QED
  BY <1>1, QueueInvariant, PTL

\* The types of the queue.
THEOREM QueueTypes == Spec => []QueueTypeOK
<1>1. QueueInv => QueueTypeOK
  BY DEF QueueInv
<1> QED
  BY <1>1, QueueInvariant, PTL
-------------------------------------------------------------------------------
(* A dispatch is a task of the fleet: FleetTask.                           *)

\* An item asks for the base of its dispatch, which is final once the item is in
\* the stream; before that nobody answers.
ItemAsksForBase ==
    \A d \in Dispatch :
        /\ item[d] # None => /\ stage[d] \notin {"idle", "bundle", "publish"}
                             /\ item[d].base = base[d]
        /\ item[d] = None => inbox[d] = None

\* A worker bundles only what was made on a commit that knows the base.
TreeKnowsBase ==
    \A k \in Delivery : run[k] = "store" => item[k[1]].base <= tree[k]

TaskInv == ItemAsksForBase /\ TreeKnowsBase

\* What neither publishes an item, nor works, nor answers.
LEMMA ItemsKept ==
    ASSUME TaskInv, UNCHANGED <<base, item>>,
           \A d \in Dispatch : /\ inbox'[d] = inbox[d] \/ inbox'[d] = None \/ item[d] # None
                               /\ stage'[d] = stage[d]
                                  \/ stage'[d] \notin {"idle", "bundle", "publish"}
                                  \/ item[d] = None,
           \A k \in Delivery : run'[k] = "store" => run[k] = "store" /\ tree'[k] = tree[k]
    PROVE  TaskInv'
BY DEF TaskInv, ItemAsksForBase, TreeKnowsBase

LEMMA DispatchStepOfTask ==
    ASSUME QueueInv, TaskInv, NEW d \in Dispatch, DispatchStep(d) \/ Cancel(d)
    PROVE  TaskInv'
<1> USE Kinds DEF QueueInv, QueueTypeOK, Goto, Miss, stream, worker
<1>1. CASE Begin(d) \/ BundleBase(d)
  <2>1. /\ item[d] = None /\ UNCHANGED <<inbox, item, run, tree>>
        /\ \A e \in Dispatch \ {d} : stage'[e] = stage[e] /\ base'[e] = base[e]
    BY <1>1 DEF Begin, BundleBase, TaskInv, ItemAsksForBase
  <2> QED
    BY <2>1 DEF TaskInv, ItemAsksForBase, TreeKnowsBase
<1>2. CASE Publish(d)
  <2>1. item[d] = None /\ inbox[d] = None /\ UNCHANGED <<base, inbox, run, tree>>
    BY <1>2 DEF Publish, TaskInv, ItemAsksForBase
  <2>2. PICK arrives \in BOOLEAN :
           item' = IF arrives
                   THEN [item EXCEPT ![d] = [base |-> base[d], key |-> BaseKey(d)]]
                   ELSE item
    BY <1>2 DEF Publish
  <2>3. \A e \in Dispatch : item'[e] = item[e] \/ (e = d /\ item'[e].base = base[e])
    BY <2>2
  <2>4. /\ stage'[d] \in {"await", "missed"}
        /\ \A e \in Dispatch \ {d} : stage'[e] = stage[e]
    BY <1>2 DEF Publish
  <2>5. \A k \in Delivery : run[k] = "store" => item'[k[1]] = item[k[1]]
    BY <2>1, <2>3 DEF ClaimedIsStored, Running
  <2> QED
    BY <2>1, <2>3, <2>4, <2>5 DEF TaskInv, ItemAsksForBase, TreeKnowsBase
<1>3. CASE Receive(d) \/ TimeOut(d) \/ FetchDelta(d) \/ Apply(d) \/ Cancel(d)
  <2>1. UNCHANGED <<base, item, run, tree>>
    BY <1>3 DEF Receive, TimeOut, FetchDelta, Apply, Cancel
  <2>2. \A e \in Dispatch : inbox'[e] \in {inbox[e], None}
    BY <1>3 DEF Receive, TimeOut, FetchDelta, Apply, Cancel
  <2>3. \A e \in Dispatch : stage'[e] = stage[e] \/ stage'[e] \notin {"idle", "bundle", "publish"}
    BY <1>3 DEF Receive, TimeOut, FetchDelta, Apply, Cancel
  <2> QED
    BY <2>1, <2>2, <2>3, ItemsKept
<1> QED
  BY <1>1, <1>2, <1>3 DEF DispatchStep

\* Only a dispatch whose item is in the stream is answered.
LEMMA AnswersOwn ==
    ASSUME QueueInv, NEW k \in Delivery, PublishResult(k)
    PROVE  /\ item[k[1]] # None /\ run[k] = "publish"
           /\ inbox' = inbox \/ /\ Listening(k[1])
                                /\ inbox' = [inbox EXCEPT ![k[1]] = outcome[k]]
<1> USE Kinds
<1>1. item[k[1]] # None /\ run[k] = "publish"
  BY DEF PublishResult, QueueInv, ClaimedIsStored, Running
<1>2. CASE inbox' = [d \in Dispatch |-> IF Subject[d] = Subject[k[1]] /\ Listening(d)
                                        THEN outcome[k] ELSE inbox[d]]
  <2>1. inbox' = [d \in Dispatch |-> IF d = k[1] /\ Listening(d) THEN outcome[k] ELSE inbox[d]]
    BY <1>2, SubjectsDiffer
  <2>2. inbox = [d \in Dispatch |-> inbox[d]]
    BY DEF QueueInv, QueueTypeOK
  <2> QED
    BY <1>1, <2>1, <2>2
<1> QED
  BY <1>1, <1>2 DEF PublishResult, ResultKey

LEMMA RunStepOfTask ==
    ASSUME QueueInv, TaskInv, NEW k \in Delivery, RunStep(k)
    PROVE  TaskInv'
<1> USE Kinds DEF stream, dispatcher
<1>1. UNCHANGED <<stage, base, item>>
  BY DEF RunStep, Work, Store, PublishResult, Ack
<1>2. CASE Work(k)
  <2>1. inbox' = inbox
    BY <1>2 DEF Work
  <2>2. PICK on \in Commit :
          \/ /\ item[k[1]].base <= on /\ run' = [run EXCEPT ![k] = "store"]
             /\ tree' = [tree EXCEPT ![k] = on]
          \/ run' = [run EXCEPT ![k] = "publish"] /\ tree' = tree
    BY <1>2 DEF Work, At, Fails
  <2>3. \A j \in Delivery : run'[j] = "store" =>
          (run[j] = "store" /\ tree'[j] = tree[j]) \/ item[j[1]].base <= tree'[j]
    BY <2>2 DEF QueueInv, QueueTypeOK
  <2>4. TreeKnowsBase'
    BY <1>1, <2>3 DEF TaskInv, TreeKnowsBase
  <2> QED
    BY <1>1, <2>1, <2>4 DEF TaskInv, ItemAsksForBase
<1>3. CASE Store(k) \/ PublishResult(k) \/ Ack(k)
  <2>1. \A d \in Dispatch : inbox'[d] = inbox[d] \/ item[d] # None
    BY <1>3, AnswersOwn DEF Store, Ack, QueueInv, QueueTypeOK
  <2>2. \A j \in Delivery : run'[j] = "store" => run[j] = "store" /\ j # k
    BY <1>3 DEF Store, PublishResult, Ack, At, Fails, QueueInv, QueueTypeOK
  <2>3. \A j \in Delivery \ {k} : tree'[j] = tree[j]
    BY <1>3 DEF Store, PublishResult, Ack, Forget
  <2> QED
    BY <1>1, <2>1, <2>2, <2>3, ItemsKept
<1> QED
  BY <1>2, <1>3 DEF RunStep

LEMMA OtherOfTask ==
    ASSUME QueueInv, TaskInv,
           \/ MoveHead \/ UNCHANGED queueVars
           \/ \E d \in Dispatch : LeaseExpires(d)
           \/ \E w \in Node : Crash(w) \/ \E d \in Dispatch : Claim(w, d)
    PROVE  TaskInv'
<1>1. UNCHANGED <<stage, base, inbox, item>>
  BY DEF MoveHead, LeaseExpires, Crash, Claim, queueVars, dispatcher, stream
<1>2. \A k \in Delivery : run'[k] = "store" => run[k] = "store" /\ tree'[k] = tree[k]
  <2>1. CASE \E w \in Node : Crash(w)
    BY <2>1 DEF Crash, Forget, Running
  <2>2. CASE \E w \in Node, d \in Dispatch : Claim(w, d)
    BY <2>2 DEF Claim, At, QueueInv, QueueTypeOK
  <2>3. CASE UNCHANGED worker
    BY <2>3 DEF worker
  <2> QED
    BY <2>1, <2>2, <2>3 DEF MoveHead, LeaseExpires, queueVars
<1> QED
  BY <1>1, <1>2, ItemsKept

LEMMA TaskStep == QueueInv /\ TaskInv /\ [Next]_queueVars => TaskInv'
BY DispatchStepOfTask, RunStepOfTask, OtherOfTask DEF Next

\* Where a dispatch stands, what is stored and what is taken, as FleetTask is told.
State == [d \in Dispatch |->
            IF stage[d] \in Ended THEN stage[d]
            ELSE IF stage[d] = "apply" THEN "taken"
            ELSE IF stage[d] = "fetch" \/ inbox[d] = "committed" THEN "promised"
            ELSE "open"]
Asked == {d \in Dispatch : item[d] # None}
Made == [d \in Dispatch |-> {results[Subject[d]]} \ {None}]
Taken == [d \in Dispatch |-> {delta[d]} \ {None}]

LEMMA FleetElsewhere ==
    ASSUME UNCHANGED <<stage, inbox, base, item, delivered, results, delta>>
    PROVE  UNCHANGED Fleet!fleetVars
BY DEF Fleet!fleetVars

\* A dispatch that ends.
LEMMA EndIsFleet ==
    ASSUME QueueInv, NEW d \in Dispatch, stage[d] \notin Ended,
           NEW s \in {"missed", "cancelled"}, stage' = [stage EXCEPT ![d] = s],
           inbox' \in {inbox, [inbox EXCEPT ![d] = None]},
           UNCHANGED <<base, item, delivered, results, delta>>
    PROVE  Fleet!FleetNext
<1>1. State' = [State EXCEPT ![d] = s] /\ State[d] \in {"open", "promised", "taken"}
  BY DEF State, Ended, QueueInv, QueueTypeOK
<1>2. Fleet!End(d)
  BY <1>1 DEF Fleet!End, State
<1> QED
  BY <1>2 DEF Fleet!FleetNext

LEMMA BeginIsFleet ==
    ASSUME QueueInv, TaskInv, NEW d \in Dispatch, Begin(d) \/ BundleBase(d)
    PROVE  [Fleet!FleetNext]_Fleet!fleetVars
<1> USE DEF Goto, Miss, stream, worker
<1>1. /\ stage[d] \in {"idle", "bundle"} /\ item[d] = None /\ inbox[d] = None
      /\ UNCHANGED <<inbox, item, delivered, results, delta>>
  BY DEF Begin, BundleBase, TaskInv, ItemAsksForBase
<1>2. CASE stage' = [stage EXCEPT ![d] = "missed"] /\ base' = base
  BY <1>1, <1>2, EndIsFleet DEF Ended
<1>3. CASE \E t \in {"bundle", "publish"} : stage' = [stage EXCEPT ![d] = t]
  <2>1. PICK t \in {"bundle", "publish"} : stage' = [stage EXCEPT ![d] = t]
    BY <1>3
  <2>2. State' = State /\ State[d] = "open" /\ d \notin Asked
    BY <1>1, <2>1, Kinds DEF State, Asked, Ended, QueueInv, QueueTypeOK
  <2>3. PICK c \in Commit : base' = [base EXCEPT ![d] = c]
    <3>1. base[d] \in Commit /\ base = [base EXCEPT ![d] = base[d]] /\ head \in Commit
      BY DEF QueueInv, QueueTypeOK
    <3>2. base' = base \/ base' = [base EXCEPT ![d] = head]
      BY DEF Begin, BundleBase
    <3> QED
      BY <3>1, <3>2
  <2>4. Fleet!Choose(d)
    BY <1>1, <2>2, <2>3 DEF Fleet!Choose, State, Asked
  <2> QED
    BY <2>4 DEF Fleet!FleetNext
<1> QED
  BY <1>2, <1>3 DEF Begin, BundleBase

\* A dispatch that is not acknowledged misses, whether the item arrived or not.
LEMMA PublishIsFleet ==
    ASSUME QueueInv, TaskInv, NEW d \in Dispatch, Publish(d)
    PROVE  [Fleet!FleetNext]_Fleet!fleetVars
<1> USE Kinds DEF Goto, Miss, worker
<1>1. PICK arrives \in BOOLEAN, acknowledged \in BOOLEAN :
        /\ acknowledged => arrives
        /\ item' = IF arrives
                   THEN [item EXCEPT ![d] = [base |-> base[d], key |-> BaseKey(d)]]
                   ELSE item
        /\ stage' = [stage EXCEPT ![d] = IF acknowledged THEN "await" ELSE "missed"]
  BY DEF Publish
<1>2. /\ stage[d] = "publish" /\ item[d] = None /\ inbox[d] = None
      /\ UNCHANGED <<base, inbox, delivered, results, delta>>
  BY DEF Publish, TaskInv, ItemAsksForBase
<1>3. CASE ~arrives
  BY <1>1, <1>2, <1>3, EndIsFleet DEF Ended
<1>4. CASE arrives
  <2>1. item'[d] # None /\ \A e \in Dispatch \ {d} : item'[e] = item[e]
    <3>1. [base |-> base[d], key |-> BaseKey(d)] \in Item
      BY DEF Item, QueueInv, QueueTypeOK
    <3> QED
      BY <1>1, <1>4, <3>1 DEF QueueInv, QueueTypeOK
  <2>2. Asked' = Asked \cup {d} /\ d \notin Asked
    BY <1>2, <2>1 DEF Asked
  <2>3. State[d] = "open" /\ \E s \in {"open", "missed"} : State' = [State EXCEPT ![d] = s]
    <3>1. State' = [State EXCEPT ![d] = IF acknowledged THEN "open" ELSE "missed"]
      BY <1>1, <1>2 DEF State, Ended, QueueInv, QueueTypeOK
    <3> QED
      BY <1>2, <3>1 DEF State, Ended
  <2>4. Fleet!Ask(d)
    BY <1>2, <2>2, <2>3 DEF Fleet!Ask, State, Asked
  <2> QED
    BY <2>4 DEF Fleet!FleetNext
<1> QED
  BY <1>3, <1>4

LEMMA AwaitIsFleet ==
    ASSUME QueueInv, NEW d \in Dispatch,
           Receive(d) \/ TimeOut(d) \/ FetchDelta(d) \/ Apply(d) \/ Cancel(d)
    PROVE  [Fleet!FleetNext]_Fleet!fleetVars
<1> USE Kinds DEF Goto, Miss, stream, worker
<1>1. CASE \E s \in {"missed", "cancelled"} : stage' = [stage EXCEPT ![d] = s] /\ delta' = delta
  <2>1. /\ stage[d] \notin Ended /\ inbox' \in {inbox, [inbox EXCEPT ![d] = None]}
        /\ UNCHANGED <<base, item, delivered, results>>
    BY DEF Receive, TimeOut, FetchDelta, Apply, Cancel, Ended
  <2> QED
    BY <1>1, <2>1, EndIsFleet
<1>2. CASE Receive(d) /\ inbox[d] = "committed"
  <2>1. State' = State
    BY <1>2 DEF Receive, State, Ended, QueueInv, QueueTypeOK
  <2> QED
    BY <1>2, <2>1 DEF Receive, Fleet!fleetVars, State
<1>3. CASE FetchDelta(d) /\ delta' = [delta EXCEPT ![d] = results[Subject[d]]]
           /\ results[Subject[d]] # None /\ stage' = [stage EXCEPT ![d] = "apply"]
  <2>1. State[d] = "promised" /\ State' = [State EXCEPT ![d] = "taken"]
    BY <1>3 DEF FetchDelta, State, Ended, QueueInv, QueueTypeOK
  <2>2. Made[d] # {} /\ Taken' = [Taken EXCEPT ![d] = Made[d]]
    BY <1>3 DEF Made, Taken, QueueInv, QueueTypeOK
  <2>3. Fleet!Take(d)
    BY <1>3, <2>1, <2>2 DEF FetchDelta, Fleet!Take, State, Made, Taken
  <2> QED
    BY <2>3 DEF Fleet!FleetNext
<1>4. CASE Apply(d) /\ stage' = [stage EXCEPT ![d] = "applied"]
  <2>1. State[d] = "taken" /\ State' = [State EXCEPT ![d] = "applied"]
    BY <1>4 DEF Apply, State, Ended, QueueInv, QueueTypeOK
  <2>2. Fleet!End(d)
    BY <1>4, <2>1 DEF Apply, Fleet!End, State
  <2> QED
    BY <2>2 DEF Fleet!FleetNext
<1> QED
  BY <1>1, <1>2, <1>3, <1>4 DEF Receive, TimeOut, FetchDelta, Apply, Cancel

LEMMA ClaimIsFleet ==
    ASSUME QueueInv, NEW w \in Node, NEW d \in Dispatch, Claim(w, d)
    PROVE  [Fleet!FleetNext]_Fleet!fleetVars
<1>1. Fleet!Try(d)
  BY DEF Claim, Fleet!Try, dispatcher
<1> QED
  BY <1>1 DEF Fleet!FleetNext

LEMMA RunIsFleet ==
    ASSUME QueueInv, TaskInv, NEW k \in Delivery, RunStep(k)
    PROVE  [Fleet!FleetNext]_Fleet!fleetVars
<1> DEFINE d == k[1]
<1> USE Kinds DEF stream, dispatcher
<1>1. d \in Dispatch /\ k = <<d, k[2]>> /\ k[2] \in 1..MaxDeliver
  OBVIOUS
<1>2. CASE Work(k) \/ Ack(k)
  BY <1>2, FleetElsewhere DEF Work, Ack
<1>3. CASE Store(k)
  <2> DEFINE new == [by |-> d, on |-> tree[k]]
  <2>1. results' = results \/ results' = [results EXCEPT ![Subject[d]] = new]
    BY <1>3 DEF Store, ResultKey
  <2>2. run[k] = "store" /\ UNCHANGED <<stage, inbox, base, item, delivered, delta>>
    BY <1>3 DEF Store
  <2>3. CASE results' = results
    BY <2>2, <2>3, FleetElsewhere
  <2>4. CASE results' = [results EXCEPT ![Subject[d]] = new]
    <3>1. new \in Delta /\ new # None
      BY <1>1 DEF Delta, QueueInv, QueueTypeOK
    <3> HIDE DEF new
    <3>2. Made' = [Made EXCEPT ![d] = {new}]
      <4>1. \A e \in Dispatch : results'[Subject[e]] = IF e = d THEN new ELSE results[Subject[e]]
        BY <1>1, <2>4, SubjectsDiffer DEF QueueInv, QueueTypeOK
      <4> QED
        BY <1>1, <3>1, <4>1 DEF Made
    <3>3. tree[k] \in Commit /\ base[d] <= tree[k] /\ tree[k] >= base[d]
      <4>1. item[d] # None
        BY <1>1, <2>2 DEF QueueInv, ClaimedIsStored, Running
      <4>2. tree[k] \in Commit /\ base[d] \in Commit /\ base[d] <= tree[k]
        BY <1>1, <2>2, <4>1 DEF TaskInv, ItemAsksForBase, TreeKnowsBase, QueueInv, QueueTypeOK
      <4>3. \A a, b \in Commit : a <= b => b >= a
        BY QueueAssumption DEF Commit
      <4> QED
        BY <4>2, <4>3
    <3>4. delivered[d] > 0
      <4>1. ~(k[2] > delivered[d])
        BY <1>1, <2>2 DEF QueueInv, FutureIsFresh
      <4> QED
        BY <1>1, <4>1 DEF QueueInv, QueueTypeOK
    <3>5. Fleet!Make(d)
      BY <2>2, <3>2, <3>3, <3>4 DEF Fleet!Make, Made, new
    <3> QED
      BY <1>1, <3>5 DEF Fleet!FleetNext
  <2> QED
    BY <2>1, <2>3, <2>4
<1>4. CASE PublishResult(k)
  <2>1. /\ run[k] = "publish" /\ UNCHANGED <<stage, base, item, delivered, results, delta>>
        /\ inbox' = inbox \/ (Listening(d) /\ inbox' = [inbox EXCEPT ![d] = outcome[k]])
    BY <1>4, AnswersOwn DEF PublishResult
  <2>2. CASE inbox' = inbox
    BY <2>1, <2>2, FleetElsewhere
  <2>3. CASE Listening(d) /\ inbox' = [inbox EXCEPT ![d] = outcome[k]]
    <3>1. State[d] = "open" /\ outcome[k] \in Status
      BY <1>1, <2>3 DEF Listening, Waiting, State, Ended, QueueInv, QueueTypeOK
    <3>2. CASE outcome[k] # "committed"
      <4>1. State' = State
        BY <1>1, <2>1, <2>3, <3>2 DEF Listening, State, QueueInv, QueueTypeOK
      <4> QED
        BY <2>1, <4>1 DEF Fleet!fleetVars, State
    <3>3. CASE outcome[k] = "committed"
      <4>1. State' = [State EXCEPT ![d] = "promised"]
        BY <1>1, <2>1, <2>3, <3>3 DEF Listening, Waiting, State, Ended, QueueInv, QueueTypeOK
      <4>2. Made[d] # {}
        BY <1>1, <2>1, <3>3 DEF Made, QueueInv, StoredBeforeAnswer
      <4>3. Fleet!Promise(d)
        BY <2>1, <3>1, <4>1, <4>2 DEF Fleet!Promise, State, Made
      <4> QED
        BY <1>1, <4>3 DEF Fleet!FleetNext
    <3> QED
      BY <3>2, <3>3
  <2> QED
    BY <2>1, <2>2, <2>3
<1> QED
  BY <1>2, <1>3, <1>4 DEF RunStep

LEMMA OtherIsFleet ==
    ASSUME \/ MoveHead \/ UNCHANGED queueVars
           \/ \E d \in Dispatch : LeaseExpires(d)
           \/ \E w \in Node : Crash(w)
    PROVE  [Fleet!FleetNext]_Fleet!fleetVars
BY FleetElsewhere DEF MoveHead, LeaseExpires, Crash, queueVars, dispatcher, stream

\* The queue, the stores and the workers implement FleetTask: a dispatch ends
\* once, what it is told is in the store is there, and what it takes from the
\* store was made for it by one of its own tries, on a commit that knows its
\* base - however old the bundle that the executor's OnceCell has kept.
THEOREM QueueIsFleet == Spec => FleetSpec
<1>1. Init => TaskInv /\ Fleet!FleetInit
  <2> SUFFICES ASSUME Init PROVE TaskInv /\ Fleet!FleetInit
    OBVIOUS
  <2>1. TaskInv
    BY Kinds DEF Init, TaskInv, ItemAsksForBase, TreeKnowsBase
  <2>2. Fleet!FleetInit
    BY Kinds DEF Init, Fleet!FleetInit, Ended
  <2> QED
    BY <2>1, <2>2
<1>2. QueueInv /\ TaskInv /\ [Next]_queueVars => [Fleet!FleetNext]_Fleet!fleetVars
  BY BeginIsFleet, PublishIsFleet, AwaitIsFleet, ClaimIsFleet, RunIsFleet, OtherIsFleet
     DEF Next, DispatchStep
<1> QED
  BY <1>1, <1>2, TaskStep, QueueInvariant, PTL DEF Spec, FleetSpec, Fleet!FleetSpec
===============================================================================
