-------------------------------- MODULE Memory --------------------------------
(***************************************************************************)
(* The memory store (crates/memory/src/store.rs): rows, the keyword index  *)
(* and the vector index of one SQLite file, which several processes open,  *)
(* each with the embedder of its own configuration or with none.  A write  *)
(* is one transaction over all three; a search is three reads, each under  *)
(* a lock of its own, that go by row id.                                   *)
(*                                                                         *)
(* The keys are those of one namespace and ToolKey those of tool results   *)
(* (crates/memory/src/runtime.rs).  A query matches the rows that say the  *)
(* same; limits are above the number of rows.  An embedding that fails     *)
(* ends the operation before it has touched the file.                      *)
(***************************************************************************)
EXTENDS Naturals

CONSTANTS
    Proc,
    Key, ToolKey,
    Content,
    Dim,       \* the embedding models, by dimension
    IdBound,   \* the bound on row ids
    None

Id == 1..IdBound
Embedding == [of : Content, dim : Dim]
Row == [key : Key \cup ToolKey, content : Content, emb : Embedding \cup {None}]

ASSUME MemoryAssumption ==
    /\ IdBound \in Nat \ {0} /\ Key \cap ToolKey = {}
    /\ None \notin Row \cup Embedding \cup Content \cup Dim \cup Proc

VARIABLES
    schema,    \* "old" (before v1, no indexes) or "v1"
    rows,      \* entries
    fts,       \* entries_fts: the indexed text of a row id
    vec,       \* vec_entries: the indexed vector of a row id
    dim,       \* embed_dim, and with it the vector table, or None
    embedder,  \* what each process embeds with, None without
    pointers,  \* tool results handed to a model as memory://tools/<key>
    step,      \* where the search in flight stands
    searcher, query, hits,
    steady     \* the rows that matched its query all along

file == <<schema, rows, fts, vec, dim>>
search == <<step, searcher, query, hits, steady>>
memVars == <<file, embedder, pointers, search>>

Running == {"vec", "fts", "load"}

MemTypeOK ==
    /\ schema \in {"old", "v1"}
    /\ rows \in [Id -> Row \cup {None}]
    /\ fts \in [Id -> Content \cup {None}]
    /\ vec \in [Id -> Embedding \cup {None}]
    /\ dim \in Dim \cup {None}
    /\ embedder \in [Proc -> Dim \cup {None}]
    /\ pointers \subseteq ToolKey \X Content
    /\ step \in Running \cup {"idle"}
    /\ searcher \in Proc \cup {None} /\ query \in Content \cup {None}
    /\ hits \subseteq Id /\ steady \subseteq Key \cup ToolKey

RowsOf(k) == {i \in Id : rows[i] # None /\ rows[i].key = k}

\* No file yet, or one from before v1: its rows, numbered without a gap when they
\* are copied, have embeddings of any model and no index.
Init ==
    /\ schema = "old"
    /\ rows \in [Id -> Row \cup {None}]
    /\ \A i, j \in Id : i < j /\ rows[j] # None => rows[i] # None /\ rows[i].key # rows[j].key
    /\ \A i \in Id : rows[i] # None => rows[i].key \in Key
                                       /\ (rows[i].emb # None => rows[i].emb.of = rows[i].content)
    /\ fts = [i \in Id |-> None] /\ vec = [i \in Id |-> None] /\ dim = None
    /\ embedder = [p \in Proc |-> None] /\ pointers = {}
    /\ step = "idle" /\ searcher = None /\ query = None
    /\ hits = {} /\ steady = {}

-----------------------------------------------------------------------------
\* ensure_vec_table: vectors of dimension d that the table lacks are added.
Backfill(r, v, d) ==
    [i \in Id |-> IF v[i] = None /\ r[i] # None /\ r[i].emb # None /\ r[i].emb.dim = d
                  THEN r[i].emb ELSE v[i]]

Rest == step' = "idle" /\ searcher' = None /\ query' = None /\ hits' = {} /\ steady' = {}

\* The keyword index is created but not filled.
OpenNoBackfill(p) ==
    /\ \E e \in Dim \cup {None} : embedder' = [embedder EXCEPT ![p] = e]
    /\ schema' = "v1" /\ vec' = IF dim = None THEN vec ELSE Backfill(rows, vec, dim)
    /\ IF searcher = p THEN Rest ELSE UNCHANGED search
    /\ UNCHANGED <<rows, fts, dim, pointers>>

\* A process starts, again with an embedder of any kind, and brings the file to
\* v1.  A search it had in flight is gone with it.
Open(p) ==
    /\ \E e \in Dim \cup {None} : embedder' = [embedder EXCEPT ![p] = e]
    /\ schema' = "v1" /\ vec' = IF dim = None THEN vec ELSE Backfill(rows, vec, dim)
    /\ fts' = [i \in Id |-> IF fts[i] = None /\ rows[i] # None THEN rows[i].content ELSE fts[i]]
    /\ IF searcher = p THEN Rest ELSE UNCHANGED search
    /\ UNCHANGED <<rows, dim, pointers>>

\* The row of the key, or a new one after the last: ids of deleted rows at the
\* end come back.
Place(k, i) ==
    IF RowsOf(k) # {} THEN i \in RowsOf(k)
    ELSE \A j \in Id : (rows[j] # None => j < i) /\ (j + 1 = i => rows[j] # None)

Unsettle(k, c) == IF step \in Running /\ c # query THEN steady \ {k} ELSE steady

\* An embedder is taken for granted.
EmbedAlways(p, c) == [of |-> c, dim |-> embedder[p]]

Embed(p, c) == IF embedder[p] = None THEN None ELSE [of |-> c, dim |-> embedder[p]]

\* store_inner's transaction.  The first embedding of all makes the vector table.
Upsert(i, k, c, emb) ==
    LET r == [rows EXCEPT ![i] = [key |-> k, content |-> c, emb |-> emb]]
        first == emb # None /\ dim = None
        v == IF first THEN Backfill(r, vec, emb.dim) ELSE vec
    IN /\ rows' = r /\ fts' = [fts EXCEPT ![i] = c]
       /\ dim' = IF first THEN emb.dim ELSE dim
       /\ vec' = IF emb = None THEN v
                 ELSE [v EXCEPT ![i] = IF emb.dim = dim' THEN emb ELSE None]
       /\ steady' = Unsettle(k, c)

\* A vector of another dimension leaves the table alone.
StoreKeepsVector(p, k, c) ==
    /\ schema = "v1" /\ UNCHANGED <<schema, embedder, pointers, step, searcher, query, hits>>
    /\ \E i \in Id : Place(k, i) /\ LET e == Embed(p, c) IN
         IF e # None /\ dim # None /\ e.dim # dim
         THEN /\ rows' = [rows EXCEPT ![i] = [key |-> k, content |-> c, emb |-> e]]
              /\ fts' = [fts EXCEPT ![i] = c] /\ steady' = Unsettle(k, c)
              /\ UNCHANGED <<vec, dim>>
         ELSE Upsert(i, k, c, e)

\* INSERT OR REPLACE: the old row goes, and the key gets a new id.
StoreReplaces(p, k, c) ==
    /\ schema = "v1" /\ UNCHANGED <<schema, embedder, pointers, step, searcher, query, hits>>
    /\ \E i \in Id :
         /\ \A j \in Id : (rows[j] # None => j < i) /\ (j + 1 = i => rows[j] # None)
         /\ LET without(f) == [j \in Id |-> IF j \in RowsOf(k) THEN None ELSE f[j]] IN
            /\ rows' = [without(rows) EXCEPT ![i] = [key |-> k, content |-> c, emb |-> None]]
            /\ fts' = [without(fts) EXCEPT ![i] = c] /\ vec' = without(vec)
         /\ steady' = Unsettle(k, c) /\ UNCHANGED dim

Store(p, k, c) ==
    /\ schema = "v1"
    /\ \E i \in Id : Place(k, i) /\ Upsert(i, k, c, Embed(p, c))
    /\ UNCHANGED <<schema, embedder, pointers, step, searcher, query, hits>>

\* The pointer is handed out whether or not the result could be stored.
RecordToolBlind(p, k, c) ==
    /\ schema = "v1" /\ RowsOf(k) = {} /\ pointers' = pointers \cup {<<k, c>>}
    /\ \/ \E i \in Id : Place(k, i) /\ Upsert(i, k, c, Embed(p, c))
       \/ embedder[p] # None /\ UNCHANGED <<rows, fts, vec, dim, steady>>
    /\ UNCHANGED <<schema, embedder, step, searcher, query, hits>>

\* record_tool_result: a large result is stored under an id of its own, and the
\* model gets a pointer in its place.
RecordTool(p, k, c) ==
    /\ schema = "v1" /\ RowsOf(k) = {} /\ pointers' = pointers \cup {<<k, c>>}
    /\ \E i \in Id : Place(k, i) /\ Upsert(i, k, c, Embed(p, c))
    /\ UNCHANGED <<schema, embedder, step, searcher, query, hits>>

Delete(k) ==
    /\ schema = "v1"
    /\ \E i \in RowsOf(k) : /\ rows' = [rows EXCEPT ![i] = None]
                            /\ fts' = [fts EXCEPT ![i] = None]
                            /\ vec' = [vec EXCEPT ![i] = None]
    /\ steady' = steady \ {k}
    /\ UNCHANGED <<schema, dim, embedder, pointers, step, searcher, query, hits>>

-----------------------------------------------------------------------------
(* search_hybrid.                                                          *)

Search(p, q) ==
    /\ schema = "v1" /\ step = "idle" /\ searcher' = p /\ query' = q
    /\ step' = IF embedder[p] = None THEN "fts" ELSE "vec"
    /\ steady' = {k \in Key \cup ToolKey : \E i \in RowsOf(k) : rows[i].content = q}
    /\ hits' = {}
    /\ UNCHANGED <<file, embedder, pointers>>

\* The nearest vectors, near or not; none for a query of another dimension.
VecIds ==
    /\ step = "vec" /\ step' = "fts"
    /\ hits' = IF dim = embedder[searcher] THEN {i \in Id : vec[i] # None} ELSE {}
    /\ UNCHANGED <<file, embedder, pointers, searcher, query, steady>>

FtsIds ==
    /\ step = "fts" /\ step' = "load"
    /\ hits' = hits \cup {i \in Id : rows[i] # None /\ fts[i] = query}
    /\ UNCHANGED <<file, embedder, pointers, searcher, query, steady>>

\* The rows that still have the ids are returned.
Loaded == {rows[i] : i \in hits} \ {None}
LoadEntries ==
    /\ step = "load" /\ Rest
    /\ UNCHANGED <<file, embedder, pointers>>

Next ==
    \/ \E p \in Proc :
         \/ Open(p)
         \/ \E c \in Content : \/ Search(p, c)
                               \/ \E k \in Key : Store(p, k, c)
                               \/ \E k \in ToolKey : RecordTool(p, k, c)
    \/ \E k \in Key : Delete(k)
    \/ VecIds \/ FtsIds \/ LoadEntries

Spec == Init /\ [][Next]_memVars

-----------------------------------------------------------------------------
(* Properties.                                                             *)

\* "FTS: delete-then-insert keeps the keyword row in sync on upsert": the keyword
\* index says what the rows say, whoever opened, wrote or deleted.
FtsInSync ==
    schema = "v1" => \A i \in Id : fts[i] = IF rows[i] = None THEN None ELSE rows[i].content

\* A row with an embedding of the table's dimension is in the vector index with
\* that embedding, one with another is not ("clears a stale vector when the
\* embedding dim changed"), and the index has no vector without a row.
VecFollowsEmbedding ==
    /\ dim # None => \A i \in Id : rows[i] # None /\ rows[i].emb # None =>
          vec[i] = IF rows[i].emb.dim = dim THEN rows[i].emb ELSE None
    /\ \A i \in Id : vec[i] # None => rows[i] # None /\ vec[i].dim = dim

\* A search returns every row that matched its query from its start to its end,
\* whatever other rows and their ids did in between.
SearchFindsSteady ==
    step = "load" => \A k \in steady : \E r \in Loaded : r.key = k /\ r.content = query

\* What a model was pointed to is in the store, as it was.
PointersResolve ==
    \A x \in pointers : \E i \in RowsOf(x[1]) : rows[i].content = x[2]

\* The three tables, with ids that come back, are one map from keys to contents,
\* and the three reads of a search one search of it, as KeyedMemory promises.
Promised == INSTANCE KeyedMemory WITH
    value  <- [k \in Key \cup ToolKey |-> {rows[i].content : i \in RowsOf(k)}],
    owed   <- steady,
    ready  <- step = "load",
    answer <- IF step = "load" THEN {<<r.key, r.content>> : r \in Loaded} ELSE {}

KeyedSpec == Promised!KeyedSpec

\* "Vec (ANN): ... then keep it in sync" (store.rs): a row is found by the vector
\* of what it says.
VecSaysWhatRowSays == \A i \in Id : vec[i] # None => vec[i].of = rows[i].content
=============================================================================
