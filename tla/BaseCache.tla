------------------------------ MODULE BaseCache ------------------------------
(***************************************************************************)
(* The per-node cache of bare base repositories that the coders of a       *)
(* serving worker attach their worktrees to:                               *)
(* crates/federation/src/base_cache.rs.                                    *)
(*                                                                         *)
(* The cache has three independent async mutexes (index, materializing,    *)
(* in_use) and a directory.  Each critical section, and each file system   *)
(* operation or git child, is one action; the caller's 20 s deadline can   *)
(* drop get_or_materialize at any await between them, and the child or     *)
(* blocking file operation it was awaiting then goes on without an owner.  *)
(***************************************************************************)
EXTENDS Naturals, Sequences, FiniteSets

CONSTANTS
    Coder,   \* the claimed items, each of which calls get_or_materialize once
    Base,    \* base commits
    Cap,     \* the argument of BaseCache::new
    Warm     \* the bases cached before the first of these items, oldest first

ASSUME CacheAssumption ==
    /\ IsFiniteSet(Coder)
    /\ Cap \in Nat
    /\ Warm \in Seq(Base) /\ Len(Warm) <= (IF Cap > 1 THEN Cap ELSE 1)
    /\ \A m, n \in DOMAIN Warm : m # n => Warm[m] # Warm[n]

VARIABLES
    base,     \* the base commit of each coder's item
    order,    \* CacheIndex.order, least recent first
    pins,     \* in_use: coders holding a base
    bare,     \* the bare repository directory of a base
    step,     \* where a coder's call stands
    made,     \* the calls that materialized their base themselves
    victim,   \* the base the call popped from the index and is deleting
    owner,    \* the coder that holds the materialization lock, if any
    clones,   \* bases with a `git clone` whose awaiting call was dropped
    removals  \* bases with a remove_dir_all whose awaiting call was dropped

cacheVars == <<base, order, pins, bare, step, made, victim, owner, clones, removals>>

Limit == IF Cap > 1 THEN Cap ELSE 1

\* The call is inside get_or_materialize, before it took its hold ...
Seeking == {"check", "wait", "recheck", "clear", "fetch", "clone", "touch", "pin"}
\* ... inside it with its hold, or back with it.
Pinned == {"evict", "remove", "held"}
CacheStep == {"over"} \cup Seeking \cup Pinned

Holding(b) == {j \in Coder : base[j] = b /\ step[j] \in Pinned}

CacheTypeOK ==
    /\ base \in [Coder -> Base]
    /\ order \in Seq(Base)
    /\ pins \in [Base -> Nat]
    /\ bare \in [Base -> {"absent", "partial", "valid"}]
    /\ step \in [Coder -> CacheStep]
    /\ made \in SUBSET Coder
    /\ victim \in [Coder -> SUBSET Base]
    /\ owner \in SUBSET Coder
    /\ clones \in SUBSET Base
    /\ removals \in SUBSET Base

CacheInit ==
    /\ base \in [Coder -> Base]
    /\ order = Warm
    /\ pins = [b \in Base |-> 0]
    /\ bare = [b \in Base |-> IF \E n \in DOMAIN Warm : Warm[n] = b THEN "valid" ELSE "absent"]
    /\ step = [j \in Coder |-> "check"]
    /\ made = {}
    /\ victim = [j \in Coder |-> {}]
    /\ owner = {}
    /\ clones = {}
    /\ removals = {}

Goto(j, s) == step' = [step EXCEPT ![j] = s]

\* order.retain(|s| s != b): the index lists a base at most once, so the entry
\* that goes is the only one.
Retain(b) ==
    LET at == {n \in 1..Len(order) : order[n] = b}
    IN  IF at = {} THEN order
        ELSE [n \in 1..(Len(order) - 1) |->
                 IF \E m \in at : m <= n THEN order[n + 1] ELSE order[n]]

-------------------------------------------------------------------------------
(* get_or_materialize.                                                     *)

\* valid_hit, first without the lock, then again under it.
Check(j) ==
    /\ step[j] \in {"check", "recheck"}
    /\ IF bare[base[j]] = "valid"
       THEN Goto(j, "touch")
       ELSE Goto(j, IF step[j] = "check" THEN "wait" ELSE "clear")
    /\ UNCHANGED <<base, order, pins, bare, made, victim, owner, clones, removals>>

Lock(j) ==
    /\ step[j] = "wait"
    /\ owner = {}
    /\ owner' = {j}
    /\ Goto(j, "recheck")
    /\ UNCHANGED <<base, order, pins, bare, made, victim, clones, removals>>

\* The partial or broken directory is cleared; an ownerless clone into it
\* finds its directory gone.
Clear(j) ==
    /\ step[j] = "clear"
    /\ bare' = [bare EXCEPT ![base[j]] = "absent"]
    /\ clones' = clones \ {base[j]}
    /\ Goto(j, "fetch")
    /\ UNCHANGED <<base, order, pins, made, victim, owner, removals>>

\* The bundle is fetched and `git clone --bare` begins; git refuses a
\* directory that exists and is not empty.
Fetch(j) ==
    /\ step[j] = "fetch"
    /\ bare[base[j]] = "absent"
    /\ bare' = [bare EXCEPT ![base[j]] = "partial"]
    /\ Goto(j, "clone")
    /\ UNCHANGED <<base, order, pins, made, victim, owner, clones, removals>>

CloneDone(j) ==
    /\ step[j] = "clone"
    /\ bare[base[j]] = "partial"
    /\ bare' = [bare EXCEPT ![base[j]] = "valid"]
    /\ made' = made \cup {j}
    /\ Goto(j, "touch")
    /\ UNCHANGED <<base, order, pins, victim, owner, clones, removals>>

\* An error of the file system, the object store or git: the lock goes, and a
\* failed clone removes what it wrote.
Error(j) ==
    /\ step[j] \in {"check", "fetch", "clone"}
    /\ bare' = IF step[j] = "clone" THEN [bare EXCEPT ![base[j]] = "absent"] ELSE bare
    /\ owner' = owner \ {j}
    /\ Goto(j, "over")
    /\ UNCHANGED <<base, order, pins, made, victim, clones, removals>>

\* CacheIndex::touch: move to the most recent end, or insert there.
Touch(j) ==
    /\ step[j] = "touch"
    /\ order' = Append(Retain(base[j]), base[j])
    /\ Goto(j, "pin")
    /\ UNCHANGED <<base, pins, bare, made, victim, owner, clones, removals>>

\* mark_in_use as a flag instead of a count.
PinOnce(j) ==
    /\ step[j] = "pin"
    /\ pins' = [pins EXCEPT ![base[j]] = 1]
    /\ owner' = IF j \in made THEN owner ELSE owner \ {j}
    /\ Goto(j, IF j \in made THEN "evict" ELSE "held")
    /\ UNCHANGED <<base, order, bare, made, victim, clones, removals>>

\* mark_in_use; a hit returns, and with it goes the lock of a late hit.
Pin(j) ==
    /\ step[j] = "pin"
    /\ pins' = [pins EXCEPT ![base[j]] = pins[base[j]] + 1]
    /\ owner' = IF j \in made THEN owner ELSE owner \ {j}
    /\ Goto(j, IF j \in made THEN "evict" ELSE "held")
    /\ UNCHANGED <<base, order, bare, made, victim, clones, removals>>

\* An eviction that does not look at in_use.
EvictAny(j) ==
    /\ step[j] = "evict"
    /\ IF Len(order) > Limit
       THEN /\ victim' = [victim EXCEPT ![j] = {Head(order)}]
            /\ order' = Tail(order)
            /\ Goto(j, "remove")
            /\ UNCHANGED <<made, owner>>
       ELSE /\ Goto(j, "held")
            /\ made' = made \ {j}
            /\ owner' = owner \ {j}
            /\ UNCHANGED <<order, victim>>
    /\ UNCHANGED <<base, pins, bare, clones, removals>>

\* next_eviction: over capacity, and the least recent base is not in use.
Evict(j) ==
    /\ step[j] = "evict"
    /\ IF Len(order) > Limit /\ pins[Head(order)] = 0
       THEN /\ victim' = [victim EXCEPT ![j] = {Head(order)}]
            /\ order' = Tail(order)
            /\ Goto(j, "remove")
            /\ UNCHANGED <<made, owner>>
       ELSE /\ Goto(j, "held")
            /\ made' = made \ {j}
            /\ owner' = owner \ {j}
            /\ UNCHANGED <<order, victim>>
    /\ UNCHANGED <<base, pins, bare, clones, removals>>

\* The directory of the evicted base is deleted, after both mutexes were let go.
Remove(j) ==
    /\ step[j] = "remove"
    /\ bare' = [b \in Base |-> IF b \in victim[j] THEN "absent" ELSE bare[b]]
    /\ victim' = [victim EXCEPT ![j] = {}]
    /\ clones' = clones \ victim[j]
    /\ Goto(j, "evict")
    /\ UNCHANGED <<base, order, pins, made, owner, removals>>

-------------------------------------------------------------------------------
(* The caller's deadline, and what it leaves running.                      *)

\* The future of get_or_materialize, or of the `git worktree add` after it,
\* is dropped: the lock guard goes, a hold already taken stays.
Abandon(j) ==
    /\ step[j] \in Seeking \cup Pinned
    /\ Goto(j, "over")
    /\ owner' = owner \ {j}
    /\ clones' = IF step[j] = "clone" THEN clones \cup {base[j]} ELSE clones
    /\ removals' = removals \cup (IF step[j] = "clear" THEN {base[j]} ELSE victim[j])
    /\ victim' = [victim EXCEPT ![j] = {}]
    /\ made' = made \ {j}
    /\ UNCHANGED <<base, order, pins, bare>>

\* An ownerless clone ends, well or not; an ownerless deletion ends.
OrphanEnds(b) ==
    /\ \/ /\ b \in clones
          /\ clones' = clones \ {b}
          /\ bare' \in {[bare EXCEPT ![b] = IF bare[b] = "partial" THEN s ELSE bare[b]]
                           : s \in {"valid", "absent"}}
          /\ UNCHANGED removals
       \/ /\ b \in removals
          /\ removals' = removals \ {b}
          /\ bare' = [bare EXCEPT ![b] = "absent"]
          /\ clones' = clones \ {b}
    /\ UNCHANGED <<base, order, pins, step, made, victim, owner>>

\* release: the coder's hold is given back, if there is one to give.
Release(j) ==
    /\ step[j] = "held"
    /\ pins' = [pins EXCEPT ![base[j]] = IF @ > 0 THEN @ - 1 ELSE 0]
    /\ Goto(j, "over")
    /\ UNCHANGED <<base, order, bare, made, victim, owner, clones, removals>>

Seek(j) ==
    \/ Check(j) \/ Lock(j) \/ Clear(j) \/ Fetch(j) \/ CloneDone(j) \/ Error(j)
    \/ Touch(j) \/ Pin(j) \/ Evict(j) \/ Remove(j)

CacheNext ==
    \/ \E j \in Coder : Seek(j) \/ Abandon(j) \/ Release(j)
    \/ \E b \in Base : OrphanEnds(b)

CacheSpec == CacheInit /\ [][CacheNext]_cacheVars

-------------------------------------------------------------------------------
\* A base has at least as many holds as coders that hold it, so no release
\* takes away the pin of another coder, nor takes the count below zero.
PinsCoverHolders == \A b \in Base : pins[b] >= Cardinality(Holding(b))

\* No eviction takes a base that a coder holds at that moment, however its
\* hold came about and whoever else gave theirs back.
EvictionSparesHolders ==
    [][\A j \in Coder : \A b \in victim'[j] \ victim[j] : Holding(b) = {}]_cacheVars

===============================================================================
