---------------------------- MODULE BaseCacheProofs ----------------------------
(***************************************************************************)
(* Proofs about BaseCache, for every finite set of coders, every set of    *)
(* bases and every capacity.                                               *)
(***************************************************************************)
EXTENDS BaseCache, FiniteSetTheorems, TLAPS

\* The types the argument about holds depends on.
HoldTypes ==
    /\ base \in [Coder -> Base]
    /\ pins \in [Base -> Nat]
    /\ step \in [Coder -> CacheStep]
    /\ DOMAIN victim = Coder

\* The inductive invariant: it is inductive with those types alone, because
\* every entry to the Pinned steps and every exit from them that touches pins
\* moves one coder and one hold.
CacheInv == HoldTypes /\ PinsCoverHolders

-------------------------------------------------------------------------------
(* The index, the materialization lock and the directories.                *)

\* The index lists a base once: touch drops the entry it replaces.
IndexDistinct == \A m, n \in DOMAIN order : m # n => order[m] # order[n]

\* The steps of a call that holds the materialization lock after its clone, and
\* all the steps only a call that holds it is in.
Evicting == {"evict", "remove"}
Locked == {"recheck", "clear", "fetch", "clone"} \cup Evicting

\* The calls that clear, fetch, clone or delete a base are one call at most, and
\* it holds the lock; a call that materialized keeps it through its evictions.
LockHeld ==
    /\ \A j \in Coder : step[j] \in Locked => owner = {j}
    /\ \A j \in Coder : step[j] \in Evicting => j \in made
    /\ \A j \in Coder : j \in made
           => owner = {j} /\ step[j] \in {"touch", "pin"} \cup Evicting
    /\ \A j \in Coder : victim[j] # {} => step[j] = "remove"

\* A half-written repository has a clone that is still writing it: the call of
\* a coder, or the child a dropped call left running.
PartialIsBeingWritten ==
    \A b \in Base : bare[b] = "partial"
        => b \in clones \/ \E j \in Coder : base[j] = b /\ step[j] = "clone"

IndexInv == CacheTypeOK /\ IndexDistinct /\ LockHeld /\ PartialIsBeingWritten

\* At most one call is between clear and the end of its evictions, whichever
\* bases the calls are for.
OneMaterializes == \A i, j \in Coder : step[i] \in Locked /\ step[j] \in Locked => i = j

-------------------------------------------------------------------------------
\* A set of coders is finite, so comparing and counting it makes sense.
LEMMA CodersAreFinite ==
    ASSUME NEW S \in SUBSET Coder
    PROVE  IsFiniteSet(S) /\ Cardinality(S) \in Nat
BY CacheAssumption, FS_Subset, FS_CardinalityType

\* The holders of a base, before and after a step, are sets of coders.
LEMMA HoldersAreCoders ==
    ASSUME NEW b
    PROVE  Holding(b) \in SUBSET Coder /\ Holding(b)' \in SUBSET Coder
BY DEF Holding

\* A base whose holders are among those it had, and whose count of holds did
\* not shrink, is still covered.
LEMMA FewerHolders ==
    ASSUME NEW b \in Base, HoldTypes, HoldTypes', PinsCoverHolders,
           Holding(b)' \subseteq Holding(b), pins'[b] = pins[b]
    PROVE  pins'[b] >= Cardinality(Holding(b)')
<1> DEFINE H == Holding(b)
           G == Holding(b)'
<1>1. H \in SUBSET Coder /\ G \in SUBSET Coder
  BY HoldersAreCoders
<1>2. IsFiniteSet(H) /\ Cardinality(H) \in Nat /\ Cardinality(G) \in Nat
  BY <1>1, CodersAreFinite
<1>3. Cardinality(G) <= Cardinality(H)
  <2> HIDE DEF H, G
  <2>1. G \in SUBSET H
    BY DEF H, G
  <2> QED
    BY <1>2, <2>1, FS_Subset
<1>4. pins[b] \in Nat /\ pins[b] >= Cardinality(H)
  BY DEF HoldTypes, PinsCoverHolders
<1> HIDE DEF H
<1> QED
  BY <1>2, <1>3, <1>4

\* A step of a coder that leaves the counts alone, and brings nobody into the
\* Pinned steps, keeps every base covered.
LEMMA NobodyEnters ==
    ASSUME CacheInv, HoldTypes', NEW j \in Coder, UNCHANGED <<base, pins>>,
           NEW s, step' = [step EXCEPT ![j] = s],
           s \in Pinned => step[j] \in Pinned
    PROVE  PinsCoverHolders'
<1>1. ASSUME NEW b \in Base PROVE Holding(b)' \subseteq Holding(b)
  BY DEF Holding, CacheInv, HoldTypes
<1>2. ASSUME NEW b \in Base PROVE pins'[b] >= Cardinality(Holding(b)')
  BY <1>1, <1>2, FewerHolders DEF CacheInv
<1> QED
  BY <1>2 DEF PinsCoverHolders

\* mark_in_use: the coder and its hold arrive together.
LEMMA PinCovers ==
    ASSUME CacheInv, HoldTypes', NEW j \in Coder, Pin(j)
    PROVE  PinsCoverHolders'
<1> USE DEF CacheInv, HoldTypes
<1> SUFFICES ASSUME NEW b \in Base PROVE pins'[b] >= Cardinality(Holding(b)')
  BY DEF PinsCoverHolders
<1>1. CASE b = base[j]
  <2> DEFINE H == Holding(b)
  <2>1. Holding(b)' = H \cup {j} /\ j \notin H
    BY <1>1 DEF Pin, Goto, Holding, Pinned
  <2>2. IsFiniteSet(H) /\ Cardinality(H) \in Nat
    BY HoldersAreCoders, CodersAreFinite
  <2>3. Cardinality(H \cup {j}) = Cardinality(H) + 1
    <3> HIDE DEF H
    <3> QED
      BY <2>1, <2>2, FS_AddElement
  <2>4. pins'[b] = pins[b] + 1 /\ pins[b] \in Nat /\ pins[b] >= Cardinality(H)
    BY <1>1 DEF Pin, PinsCoverHolders
  <2> QED
    BY <2>1, <2>2, <2>3, <2>4
<1>2. CASE b # base[j]
  <2>1. Holding(b)' \subseteq Holding(b) /\ pins'[b] = pins[b]
    BY <1>2 DEF Pin, Goto, Holding
  <2> QED
    BY <2>1, FewerHolders
<1> QED
  BY <1>1, <1>2

\* release: the coder leaves with its own hold, which is there because the
\* base is covered.
LEMMA ReleaseCovers ==
    ASSUME CacheInv, HoldTypes', NEW j \in Coder, Release(j)
    PROVE  PinsCoverHolders'
<1> USE DEF CacheInv, HoldTypes
<1> SUFFICES ASSUME NEW b \in Base PROVE pins'[b] >= Cardinality(Holding(b)')
  BY DEF PinsCoverHolders
<1>1. CASE b = base[j]
  <2> DEFINE H == Holding(b)
  <2>1. Holding(b)' = H \ {j} /\ j \in H
    BY <1>1 DEF Release, Goto, Holding, Pinned
  <2>2. IsFiniteSet(H) /\ Cardinality(H) \in Nat /\ Cardinality(H \ {j}) \in Nat
    BY HoldersAreCoders, CodersAreFinite
  <2>3. Cardinality(H \ {j}) = Cardinality(H) - 1
    <3> HIDE DEF H
    <3> QED
      BY <2>1, <2>2, FS_RemoveElement
  <2>4. pins[b] \in Nat /\ pins[b] >= Cardinality(H)
    BY DEF PinsCoverHolders
  <2>5. pins[b] > 0
    <3> HIDE DEF H
    <3> QED
      BY <2>2, <2>3, <2>4
  <2>6. pins'[b] = pins[b] - 1
    BY <1>1, <2>5 DEF Release
  <2> HIDE DEF H
  <2> QED
    BY <2>1, <2>2, <2>3, <2>4, <2>6
<1>2. CASE b # base[j]
  <2>1. Holding(b)' \subseteq Holding(b) /\ pins'[b] = pins[b]
    BY <1>2 DEF Release, Goto, Holding
  <2> QED
    BY <2>1, FewerHolders
<1> QED
  BY <1>1, <1>2

-------------------------------------------------------------------------------
\* Initially nobody holds a base.
LEMMA CacheInitInv == CacheInit => CacheInv
<1> SUFFICES ASSUME CacheInit PROVE CacheInv
  OBVIOUS
<1>1. HoldTypes
  BY DEF CacheInit, HoldTypes, CacheStep, Seeking
<1>2. ASSUME NEW b \in Base PROVE Holding(b) = {}
  BY DEF CacheInit, Holding, Pinned
<1>3. PinsCoverHolders
  BY <1>2, FS_EmptySet DEF CacheInit, PinsCoverHolders
<1> QED
  BY <1>1, <1>3 DEF CacheInv

\* The types are preserved, one case per action.
LEMMA CacheNextTypes ==
    ASSUME HoldTypes, [CacheNext]_cacheVars
    PROVE  HoldTypes'
<1> USE DEF HoldTypes, Goto, CacheStep, Seeking, Pinned
<1>1. CASE UNCHANGED cacheVars
  BY <1>1 DEF cacheVars
<1>2. ASSUME NEW j \in Coder, Check(j) \/ Lock(j) \/ Clear(j) \/ Fetch(j)
      PROVE  HoldTypes'
  BY <1>2 DEF Check, Lock, Clear, Fetch
<1>3. ASSUME NEW j \in Coder, CloneDone(j) \/ Error(j) \/ Touch(j) PROVE HoldTypes'
  BY <1>3 DEF CloneDone, Error, Touch
<1>4. ASSUME NEW j \in Coder, Pin(j) PROVE HoldTypes'
  BY <1>4 DEF Pin
<1>5. ASSUME NEW j \in Coder, Evict(j) PROVE HoldTypes'
  BY <1>5 DEF Evict
<1>6. ASSUME NEW j \in Coder, Remove(j) \/ Abandon(j) PROVE HoldTypes'
  BY <1>6 DEF Remove, Abandon
<1>7. ASSUME NEW j \in Coder, Release(j) PROVE HoldTypes'
  BY <1>7 DEF Release
<1>8. ASSUME NEW b \in Base, OrphanEnds(b) PROVE HoldTypes'
  BY <1>8 DEF OrphanEnds
<1> QED
  BY <1>1, <1>2, <1>3, <1>4, <1>5, <1>6, <1>7, <1>8 DEF CacheNext, Seek

\* And so is the invariant.
LEMMA CacheNextInv == CacheInv /\ [CacheNext]_cacheVars => CacheInv'
<1> SUFFICES ASSUME CacheInv, [CacheNext]_cacheVars PROVE CacheInv'
  OBVIOUS
<1>1. HoldTypes'
  BY CacheNextTypes DEF CacheInv
<1>2. ASSUME UNCHANGED <<base, pins, step>> PROVE PinsCoverHolders'
  BY <1>2 DEF CacheInv, PinsCoverHolders, Holding
<1>3. ASSUME NEW j \in Coder, Check(j) \/ Lock(j) \/ Clear(j) \/ Fetch(j)
      PROVE  PinsCoverHolders'
  BY <1>1, <1>3, NobodyEnters DEF Check, Lock, Clear, Fetch, Goto, Pinned
<1>4. ASSUME NEW j \in Coder, CloneDone(j) \/ Error(j) \/ Touch(j)
      PROVE  PinsCoverHolders'
  BY <1>1, <1>4, NobodyEnters DEF CloneDone, Error, Touch, Goto, Pinned
<1>5. ASSUME NEW j \in Coder, Evict(j) PROVE PinsCoverHolders'
  BY <1>1, <1>5, NobodyEnters DEF Evict, Goto, Pinned
<1>6. ASSUME NEW j \in Coder, Remove(j) \/ Abandon(j) PROVE PinsCoverHolders'
  BY <1>1, <1>6, NobodyEnters DEF Remove, Abandon, Goto, Pinned
<1>7. ASSUME NEW b \in Base, OrphanEnds(b) PROVE PinsCoverHolders'
  BY <1>2, <1>7 DEF OrphanEnds
<1>8. CASE UNCHANGED cacheVars
  BY <1>1, <1>2, <1>8 DEF cacheVars, CacheInv
<1> QED
  BY <1>1, <1>3, <1>4, <1>5, <1>6, <1>7, <1>8, PinCovers, ReleaseCovers
     DEF CacheNext, Seek, CacheInv

\* What next_eviction pops is held by nobody: its count is zero, and the count
\* covers the holders.
LEMMA EvictionSpares ==
    CacheInv /\ [CacheNext]_cacheVars
        => \A j \in Coder : \A b \in victim'[j] \ victim[j] : Holding(b) = {}
<1> SUFFICES ASSUME CacheInv, [CacheNext]_cacheVars, NEW k \in Coder,
                    NEW b \in victim'[k] \ victim[k]
             PROVE  Holding(b) = {}
  OBVIOUS
<1> USE DEF CacheInv, HoldTypes
<1>1. PICK j \in Coder : Evict(j)
  <2>1. ASSUME NEW j \in Coder, Remove(j) \/ Abandon(j) PROVE FALSE
    BY <2>1 DEF Remove, Abandon
  <2>2. victim' # victim
    OBVIOUS
  <2> QED
    BY <2>1, <2>2 DEF CacheNext, Seek, Check, Lock, Clear, Fetch, CloneDone, Error,
       Touch, Pin, OrphanEnds, Release, cacheVars
<1>2. b = Head(order) /\ pins[b] = 0
  BY <1>1 DEF Evict
<1>3. CASE b \in Base
  <2> DEFINE H == Holding(b)
  <2>1. IsFiniteSet(H) /\ Cardinality(H) \in Nat
    BY HoldersAreCoders, CodersAreFinite
  <2>2. 0 >= Cardinality(H)
    BY <1>2, <1>3 DEF PinsCoverHolders
  <2> HIDE DEF H
  <2>3. H = {}
    BY <2>1, <2>2, FS_EmptySet
  <2> QED
    BY <2>3 DEF H
<1>4. CASE b \notin Base
  BY <1>4 DEF Holding
<1> QED
  BY <1>3, <1>4

-------------------------------------------------------------------------------
\* retain keeps the order of the other bases: what it returns lists those, each
\* once.
LEMMA RetainLists ==
    ASSUME order \in Seq(Base), IndexDistinct, NEW b \in Base
    PROVE  /\ Retain(b) \in Seq(Base)
           /\ \A n \in DOMAIN Retain(b) : Retain(b)[n] # b
           /\ \A m, n \in DOMAIN Retain(b) : m # n => Retain(b)[m] # Retain(b)[n]
<1> DEFINE at == {n \in 1..Len(order) : order[n] = b}
           r == Retain(b)
<1>1. Len(order) \in Nat /\ DOMAIN order = 1..Len(order)
  OBVIOUS
<1>2. CASE at = {}
  <2>1. r = order
    BY <1>2 DEF Retain
  <2>2. \A n \in 1..Len(order) : order[n] # b
    BY <1>2
  <2> QED
    BY <1>1, <2>1, <2>2 DEF IndexDistinct
<1>3. ASSUME NEW k \in 1..Len(order), order[k] = b
      PROVE  /\ r \in Seq(Base)
             /\ \A n \in DOMAIN r : r[n] # b
             /\ \A m, n \in DOMAIN r : m # n => r[m] # r[n]
  <2> DEFINE L == Len(order) - 1
             t == [n \in 1..L |-> IF k <= n THEN order[n + 1] ELSE order[n]]
  <2>1. at = {k}
    BY <1>1, <1>3 DEF IndexDistinct
  <2>2. r = t
    BY <2>1 DEF Retain
  <2>3. L \in Nat
    BY <1>1
  <2>4. \A n \in 1..L : t[n] \in Base /\ t[n] # b
    <3> SUFFICES ASSUME NEW n \in 1..L PROVE t[n] \in Base /\ t[n] # b
      OBVIOUS
    <3>1. n \in 1..Len(order) /\ n + 1 \in 1..Len(order)
      BY <1>1
    <3>2. order[n] \in Base /\ order[n + 1] \in Base
      BY <3>1
    <3>3. k <= n => order[n + 1] # order[k]
      BY <1>1, <3>1 DEF IndexDistinct
    <3>4. ~(k <= n) => order[n] # order[k]
      BY <1>1, <3>1 DEF IndexDistinct
    <3> QED
      BY <1>3, <3>2, <3>3, <3>4
  <2>5. \A m, n \in 1..L : m # n => t[m] # t[n]
    <3> SUFFICES ASSUME NEW m \in 1..L, NEW n \in 1..L, m # n PROVE t[m] # t[n]
      OBVIOUS
    <3> DEFINE up(x) == IF k <= x THEN x + 1 ELSE x
    <3>1. up(m) # up(n) /\ up(m) \in 1..Len(order) /\ up(n) \in 1..Len(order)
      BY <1>1
    <3>2. order[up(m)] # order[up(n)]
      <4> HIDE DEF up
      <4> QED
        BY <1>1, <3>1 DEF IndexDistinct
    <3>3. t[m] = order[up(m)] /\ t[n] = order[up(n)]
      OBVIOUS
    <3> QED
      BY <3>2, <3>3
  <2>6. t \in Seq(Base) /\ DOMAIN t = 1..L
    <3>1. t \in [1..L -> Base]
      BY <2>4
    <3> HIDE DEF t, L
    <3> QED
      BY <2>3, <3>1
  <2> HIDE DEF t, L
  <2> QED
    BY <2>2, <2>4, <2>5, <2>6
<1> QED
  BY <1>2, <1>3

\* touch: the base goes to the most recent end, once.
LEMMA TouchLists ==
    ASSUME order \in Seq(Base), IndexDistinct, NEW b \in Base,
           order' = Append(Retain(b), b)
    PROVE  order' \in Seq(Base) /\ IndexDistinct'
<1> DEFINE r == Retain(b)
<1>1. /\ r \in Seq(Base)
      /\ \A n \in DOMAIN r : r[n] # b
      /\ \A m, n \in DOMAIN r : m # n => r[m] # r[n]
  BY RetainLists
<1> HIDE DEF r
<1>2. order' = Append(r, b)
  BY DEF r
<1>3. /\ Len(r) \in Nat /\ DOMAIN r = 1..Len(r)
      /\ DOMAIN order' = 1..(Len(r) + 1)
      /\ \A n \in 1..Len(r) : order'[n] = r[n]
      /\ order'[Len(r) + 1] = b
  BY <1>1, <1>2
<1>4. ASSUME NEW m \in DOMAIN order', NEW n \in DOMAIN order', m # n
      PROVE  order'[m] # order'[n]
  <2>1. CASE m \in 1..Len(r) /\ n \in 1..Len(r)
    BY <1>1, <1>3, <1>4, <2>1
  <2>2. CASE m \in 1..Len(r) /\ n = Len(r) + 1
    BY <1>1, <1>3, <2>2
  <2>3. CASE n \in 1..Len(r) /\ m = Len(r) + 1
    BY <1>1, <1>3, <2>3
  <2> QED
    BY <1>3, <1>4, <2>1, <2>2, <2>3
<1> QED
  BY <1>1, <1>2, <1>4 DEF IndexDistinct

\* An eviction takes the least recent base; the others stay as they are.
LEMMA EvictLists ==
    ASSUME order \in Seq(Base), IndexDistinct, Len(order) > 0, order' = Tail(order)
    PROVE  order' \in Seq(Base) /\ IndexDistinct' /\ Head(order) \in Base
<1>1. /\ order' \in Seq(Base) /\ Head(order) \in Base
      /\ DOMAIN order' = 1..(Len(order) - 1) /\ DOMAIN order = 1..Len(order)
      /\ \A n \in 1..(Len(order) - 1) : order'[n] = order[n + 1]
  OBVIOUS
<1>2. ASSUME NEW m \in DOMAIN order', NEW n \in DOMAIN order', m # n
      PROVE  order'[m] # order'[n]
  <2>1. m + 1 \in DOMAIN order /\ n + 1 \in DOMAIN order /\ m + 1 # n + 1
    BY <1>1, <1>2
  <2>2. order[m + 1] # order[n + 1]
    BY <2>1 DEF IndexDistinct
  <2> QED
    BY <1>1, <2>2
<1> QED
  BY <1>1, <1>2 DEF IndexDistinct

-------------------------------------------------------------------------------
\* Initially no call has the lock, and what is on disk is whole.
LEMMA IndexInitInv == CacheInit => IndexInv
<1> SUFFICES ASSUME CacheInit PROVE IndexInv
  OBVIOUS
<1>1. CacheTypeOK
  BY CacheAssumption DEF CacheInit, CacheTypeOK, CacheStep, Seeking
<1>2. IndexDistinct
  BY CacheAssumption DEF CacheInit, IndexDistinct
<1>3. LockHeld /\ PartialIsBeingWritten
  BY DEF CacheInit, LockHeld, PartialIsBeingWritten, Locked, Evicting
<1> QED
  BY <1>1, <1>2, <1>3 DEF IndexInv

\* The types and the index, one case per action.
LEMMA IndexNextTypes ==
    ASSUME IndexInv, [CacheNext]_cacheVars
    PROVE  CacheTypeOK' /\ IndexDistinct'
<1> USE DEF IndexInv, CacheTypeOK, Goto, CacheStep, Seeking, Pinned
<1>1. ASSUME UNCHANGED order PROVE IndexDistinct' /\ order' \in Seq(Base)
  BY <1>1 DEF IndexDistinct
<1>2. CASE UNCHANGED cacheVars
  BY <1>1, <1>2 DEF cacheVars
<1>3. ASSUME NEW j \in Coder, Check(j) \/ Lock(j) \/ Clear(j) \/ Fetch(j)
      PROVE  CacheTypeOK' /\ IndexDistinct'
  BY <1>1, <1>3 DEF Check, Lock, Clear, Fetch
<1>4. ASSUME NEW j \in Coder, CloneDone(j) \/ Error(j)
      PROVE  CacheTypeOK' /\ IndexDistinct'
  BY <1>1, <1>4 DEF CloneDone, Error
<1>5. ASSUME NEW j \in Coder, Touch(j) PROVE CacheTypeOK' /\ IndexDistinct'
  <2>1. order' \in Seq(Base) /\ IndexDistinct'
    BY <1>5, TouchLists DEF Touch
  <2> QED
    BY <1>5, <2>1 DEF Touch
<1>6. ASSUME NEW j \in Coder, Pin(j) PROVE CacheTypeOK' /\ IndexDistinct'
  BY <1>1, <1>6 DEF Pin
<1>7. ASSUME NEW j \in Coder, Evict(j) PROVE CacheTypeOK' /\ IndexDistinct'
  <2>1. CASE Len(order) > Limit /\ pins[Head(order)] = 0
    <3>1. Len(order) > 0 /\ order' = Tail(order)
      BY <1>7, <2>1, CacheAssumption DEF Evict, Limit
    <3>2. order' \in Seq(Base) /\ IndexDistinct' /\ Head(order) \in Base
      BY <3>1, EvictLists
    <3>3. victim' = [victim EXCEPT ![j] = {Head(order)}] /\ Goto(j, "remove")
      BY <1>7, <2>1 DEF Evict
    <3>4. victim' \in [Coder -> SUBSET Base] /\ step' \in [Coder -> CacheStep]
      BY <3>2, <3>3
    <3>5. UNCHANGED <<base, pins, bare, made, owner, clones, removals>>
      BY <1>7, <2>1 DEF Evict
    <3> QED
      BY <3>2, <3>4, <3>5
  <2>2. CASE ~(Len(order) > Limit /\ pins[Head(order)] = 0)
    BY <1>1, <1>7, <2>2 DEF Evict
  <2> QED
    BY <2>1, <2>2
<1>8. ASSUME NEW j \in Coder, Remove(j) \/ Abandon(j)
      PROVE  CacheTypeOK' /\ IndexDistinct'
  BY <1>1, <1>8 DEF Remove, Abandon
<1>9. ASSUME NEW j \in Coder, Release(j) PROVE CacheTypeOK' /\ IndexDistinct'
  BY <1>1, <1>9 DEF Release
<1>10. ASSUME NEW b \in Base, OrphanEnds(b) PROVE CacheTypeOK' /\ IndexDistinct'
  BY <1>1, <1>10 DEF OrphanEnds
<1> QED
  BY <1>2, <1>3, <1>4, <1>5, <1>6, <1>7, <1>8, <1>9, <1>10 DEF CacheNext, Seek

\* Only Lock takes the lock, and only when nobody has it; whoever leaves the
\* steps under it gives it back.
LEMMA LockNext ==
    ASSUME IndexInv, CacheTypeOK', [CacheNext]_cacheVars
    PROVE  LockHeld'
<1> USE DEF IndexInv, CacheTypeOK, LockHeld, Locked, Evicting, Goto
<1>1. CASE UNCHANGED cacheVars
  BY <1>1 DEF cacheVars
<1>2. ASSUME NEW j \in Coder, Check(j) PROVE LockHeld'
  <2>1. CASE step[j] = "check"
    <3>1. PICK s \in {"touch", "wait"} : step' = [step EXCEPT ![j] = s]
      BY <1>2, <2>1 DEF Check
    <3> QED
      BY <1>2, <2>1, <3>1 DEF Check
  <2>2. CASE step[j] = "recheck"
    <3>1. PICK s \in {"touch", "clear"} : step' = [step EXCEPT ![j] = s]
      BY <1>2, <2>2 DEF Check
    <3> QED
      BY <1>2, <2>2, <3>1 DEF Check
  <2> QED
    BY <1>2, <2>1, <2>2 DEF Check
<1>3. ASSUME NEW j \in Coder, Lock(j) PROVE LockHeld'
  BY <1>3 DEF Lock
<1>4. ASSUME NEW j \in Coder, Clear(j) \/ Fetch(j) PROVE LockHeld'
  <2>1. CASE Clear(j)
    BY <2>1 DEF Clear
  <2>2. CASE Fetch(j)
    BY <2>2 DEF Fetch
  <2> QED
    BY <1>4, <2>1, <2>2
<1>5. ASSUME NEW j \in Coder, CloneDone(j) PROVE LockHeld'
  BY <1>5 DEF CloneDone
<1>6. ASSUME NEW j \in Coder, Error(j) PROVE LockHeld'
  BY <1>6 DEF Error
<1>7. ASSUME NEW j \in Coder, Touch(j) PROVE LockHeld'
  BY <1>7 DEF Touch
<1>8. ASSUME NEW j \in Coder, Pin(j) PROVE LockHeld'
  BY <1>8 DEF Pin
<1>9. ASSUME NEW j \in Coder, Evict(j) PROVE LockHeld'
  BY <1>9 DEF Evict
<1>10. ASSUME NEW j \in Coder, Remove(j) PROVE LockHeld'
  BY <1>10 DEF Remove
<1>11. ASSUME NEW j \in Coder, Abandon(j) PROVE LockHeld'
  BY <1>11 DEF Abandon
<1>12. ASSUME NEW j \in Coder, Release(j) PROVE LockHeld'
  BY <1>12 DEF Release
<1>13. ASSUME NEW b \in Base, OrphanEnds(b) PROVE LockHeld'
  BY <1>13 DEF OrphanEnds
<1> QED
  BY <1>1, <1>2, <1>3, <1>4, <1>5, <1>6, <1>7, <1>8, <1>9, <1>10, <1>11, <1>12, <1>13
     DEF CacheNext, Seek

\* Whoever ends a clone ends its half-written repository with it, and a call
\* that is dropped leaves its child behind as the writer.
LEMMA PartialNext ==
    ASSUME IndexInv, CacheTypeOK', [CacheNext]_cacheVars
    PROVE  PartialIsBeingWritten'
<1> USE DEF IndexInv, CacheTypeOK, PartialIsBeingWritten, Goto
<1>1. CASE UNCHANGED cacheVars
  BY <1>1 DEF cacheVars
<1>2. ASSUME NEW j \in Coder, Check(j) \/ Lock(j) \/ Touch(j) \/ Pin(j)
      PROVE  PartialIsBeingWritten'
  BY <1>2 DEF Check, Lock, Touch, Pin
<1>3. ASSUME NEW j \in Coder, Evict(j) \/ Release(j) PROVE PartialIsBeingWritten'
  BY <1>3 DEF Evict, Release
<1>4. ASSUME NEW j \in Coder, Clear(j) PROVE PartialIsBeingWritten'
  BY <1>4 DEF Clear
<1>5. ASSUME NEW j \in Coder, Fetch(j) PROVE PartialIsBeingWritten'
  BY <1>5 DEF Fetch
<1>6. ASSUME NEW j \in Coder, CloneDone(j) PROVE PartialIsBeingWritten'
  BY <1>6 DEF CloneDone
<1>7. ASSUME NEW j \in Coder, Error(j) PROVE PartialIsBeingWritten'
  BY <1>7 DEF Error
<1>8. ASSUME NEW j \in Coder, Remove(j) PROVE PartialIsBeingWritten'
  BY <1>8 DEF Remove
<1>9. ASSUME NEW j \in Coder, Abandon(j) PROVE PartialIsBeingWritten'
  BY <1>9 DEF Abandon
<1>10. ASSUME NEW b \in Base, OrphanEnds(b) PROVE PartialIsBeingWritten'
  <2>1. PICK s \in {"valid", "absent"} :
            bare' = [bare EXCEPT ![b] = IF bare[b] = "partial" THEN s ELSE bare[b]]
            \/ bare' = [bare EXCEPT ![b] = "absent"]
    BY <1>10 DEF OrphanEnds
  <2>2. \A c \in Base : c # b => bare'[c] = bare[c] /\ (c \in clones' <=> c \in clones)
    BY <1>10 DEF OrphanEnds
  <2>3. step' = step /\ base' = base
    BY <1>10 DEF OrphanEnds
  <2>4. bare'[b] # "partial"
    BY <2>1
  <2> SUFFICES ASSUME NEW c \in Base, bare'[c] = "partial"
               PROVE  c \in clones' \/ \E j \in Coder : base'[j] = c /\ step'[j] = "clone"
    OBVIOUS
  <2>5. c # b /\ bare[c] = "partial"
    BY <2>2, <2>4
  <2>6. c \in clones \/ \E j \in Coder : base[j] = c /\ step[j] = "clone"
    BY <2>5
  <2> QED
    BY <2>2, <2>3, <2>5, <2>6
<1> QED
  BY <1>1, <1>2, <1>3, <1>4, <1>5, <1>6, <1>7, <1>8, <1>9, <1>10 DEF CacheNext, Seek

\* The index, the lock and the directories keep their invariant.
LEMMA IndexNextInv == IndexInv /\ [CacheNext]_cacheVars => IndexInv'
BY IndexNextTypes, LockNext, PartialNext DEF IndexInv

-------------------------------------------------------------------------------
\* The invariant of the cache (base_cache.rs).
THEOREM CacheInvariant == CacheSpec => []CacheInv
BY CacheInitInv, CacheNextInv, PTL DEF CacheSpec

\* A base always has at least as many holds as coders that hold it, through
\* hits, misses, errors and calls dropped at any await.
THEOREM CachePins == CacheSpec => []PinsCoverHolders
<1>1. CacheInv => PinsCoverHolders
  BY DEF CacheInv
<1> QED
  BY <1>1, CacheInvariant, PTL

\* next_eviction never takes a base a coder holds at that moment.
THEOREM CacheEvictionSpares == CacheSpec => EvictionSparesHolders
<1>1. CacheInv /\ [CacheNext]_cacheVars
        => [\A j \in Coder : \A b \in victim'[j] \ victim[j] : Holding(b) = {}]_cacheVars
  BY EvictionSpares
<1> QED
  BY <1>1, CacheInvariant, PTL DEF CacheSpec, EvictionSparesHolders

\* The second invariant of the cache: its index, its lock and its directories.
THEOREM CacheIndexInvariant == CacheSpec => []IndexInv
BY IndexInitInv, IndexNextInv, PTL DEF CacheSpec

\* The variables of the cache keep their types, the index lists a base once.
THEOREM CacheTypes == CacheSpec => [](CacheTypeOK /\ IndexDistinct)
<1>1. IndexInv => CacheTypeOK /\ IndexDistinct
  BY DEF IndexInv
<1> QED
  BY <1>1, CacheIndexInvariant, PTL

\* The materialization lock of get_or_materialize excludes: whatever is dropped
\* at whichever await, no two calls clear, clone or evict at the same time.
THEOREM CacheLock == CacheSpec => []OneMaterializes
<1>1. IndexInv => OneMaterializes
  BY DEF IndexInv, LockHeld, OneMaterializes
<1> QED
  BY <1>1, CacheIndexInvariant, PTL

\* No half-written repository is left behind with nobody writing it.
THEOREM CachePartial == CacheSpec => []PartialIsBeingWritten
<1>1. IndexInv => PartialIsBeingWritten
  BY DEF IndexInv
<1> QED
  BY <1>1, CacheIndexInvariant, PTL

===============================================================================
