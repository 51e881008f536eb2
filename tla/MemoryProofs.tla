----------------------------- MODULE MemoryProofs -----------------------------
(***************************************************************************)
(* Proofs about Memory, for any number of processes, keys, texts and       *)
(* embedding models: the keyword index agrees with the rows, the vector    *)
(* index with the embeddings of one dimension, a search finds what matched *)
(* it all along, and a model's pointers lead to what it was shown.         *)
(***************************************************************************)
EXTENDS Memory, TLAPS

\* A key has one row: UNIQUE (namespace, key).
OneRowPerKey ==
    \A i, j \in Id : rows[i] # None /\ rows[j] # None /\ rows[i].key = rows[j].key => i = j

\* Before v1 there are no indexes.
OldHasNoIndex ==
    schema = "old" => dim = None /\ (\A i \in Id : fts[i] = None /\ vec[i] = None)
                      /\ pointers = {} /\ step = "idle"

\* The row of a key that matched all along still does, and once the keyword
\* index was read its id is among the hits.
SteadyRowsHit ==
    step \in Running => \A k \in steady :
        \E i \in RowsOf(k) : rows[i].content = query /\ (step = "load" => i \in hits)

IndexInv == OneRowPerKey /\ OldHasNoIndex /\ FtsInSync /\ VecFollowsEmbedding
MemInv == MemTypeOK /\ IndexInv /\ SteadyRowsHit /\ PointersResolve

-----------------------------------------------------------------------------
(* One write.                                                              *)

\* Where a key goes is its row, or an id without one.
LEMMA PlaceFits ==
    ASSUME MemTypeOK, OneRowPerKey, NEW k \in Key \cup ToolKey, NEW i \in Id, Place(k, i)
    PROVE  /\ RowsOf(k) \subseteq {i}
           /\ rows[i] # None => i \in RowsOf(k)
  <1>1. CASE RowsOf(k) # {}
    BY <1>1 DEF Place, RowsOf, OneRowPerKey
  <1>2. CASE RowsOf(k) = {}
    <2>1. rows[i] # None => i < i
      BY <1>2 DEF Place
    <2>2. ~(i < i)
      BY DEF Id
    <2> QED BY <1>2, <2>1, <2>2
  <1> QED BY <1>1, <1>2

\* The rows and the keyword index after a write.
LEMMA UpsertRows ==
    ASSUME MemTypeOK, NEW k \in Key \cup ToolKey, NEW i \in Id, NEW c \in Content,
           NEW emb \in Embedding \cup {None}, Upsert(i, k, c, emb)
    PROVE  /\ rows' \in [Id -> Row \cup {None}] /\ fts' \in [Id -> Content \cup {None}]
           /\ rows'[i] = [key |-> k, content |-> c, emb |-> emb] /\ rows'[i] # None
           /\ fts'[i] = c
           /\ \A j \in Id \ {i} : rows'[j] = rows[j] /\ fts'[j] = fts[j]
  <1>1. [key |-> k, content |-> c, emb |-> emb] \in Row
    BY DEF Row
  <1> QED BY <1>1, MemoryAssumption DEF Upsert, MemTypeOK

\* The vector index after a write.
LEMMA UpsertVectors ==
    ASSUME MemTypeOK, VecFollowsEmbedding,
           NEW k \in Key \cup ToolKey, NEW i \in Id, NEW c \in Content,
           NEW emb \in Embedding \cup {None}, Upsert(i, k, c, emb),
           rows[i] = None => vec[i] = None
    PROVE  /\ vec' \in [Id -> Embedding \cup {None}] /\ dim' \in Dim \cup {None}
           /\ VecFollowsEmbedding'
  <1> DEFINE r == [rows EXCEPT ![i] = [key |-> k, content |-> c, emb |-> emb]]
  <1>r. /\ rows' = r /\ r \in [Id -> Row \cup {None}]
        /\ r[i] = [key |-> k, content |-> c, emb |-> emb] /\ r[i] # None /\ r[i].emb = emb
        /\ \A j \in Id \ {i} : r[j] = rows[j]
    BY UpsertRows DEF Upsert
  <1>v. None \notin Dim /\ None \notin Embedding
    BY MemoryAssumption
  <1>1. CASE emb = None
    <2>1. dim' = dim /\ vec' = vec
      BY <1>1 DEF Upsert
    <2> QED BY <1>1, <1>r, <2>1 DEF VecFollowsEmbedding, MemTypeOK
  <1>2. CASE emb # None /\ dim = None
    <2>1. \A j \in Id : vec[j] = None
      <3>1. \A j \in Id : vec[j] # None => vec[j] \in Embedding /\ vec[j].dim = None
        BY <1>2 DEF VecFollowsEmbedding, MemTypeOK
      <3> QED BY <3>1, <1>v DEF Embedding
    <2>2. emb \in Embedding /\ emb.dim \in Dim /\ dim' = emb.dim
      BY <1>2 DEF Upsert, Embedding
    <2>3. vec' = [Backfill(r, vec, emb.dim) EXCEPT ![i] = emb]
      BY <1>2, <2>2 DEF Upsert
    <2>4. \A j \in Id \ {i} : vec'[j] =
            IF rows[j] # None /\ rows[j].emb # None /\ rows[j].emb.dim = emb.dim
            THEN rows[j].emb ELSE None
      BY <1>r, <2>1, <2>3 DEF Backfill
    <2>5. vec'[i] = emb
      BY <2>3 DEF Backfill
    <2>6. \A j \in Id : rows[j] # None => rows[j].emb \in Embedding \cup {None}
      BY DEF MemTypeOK, Row
    <2>7. vec' \in [Id -> Embedding \cup {None}]
      <3>1. \A j \in Id : r[j] # None => r[j].emb \in Embedding \cup {None}
        BY <1>r DEF Row
      <3>2. Backfill(r, vec, emb.dim) \in [Id -> Embedding \cup {None}]
        BY <2>1, <3>1 DEF Backfill
      <3> QED BY <2>2, <2>3, <3>2
    <2>8. VecFollowsEmbedding'
      BY <1>r, <1>v, <2>2, <2>4, <2>5 DEF VecFollowsEmbedding
    <2> QED BY <2>2, <2>7, <2>8
  <1>3. CASE emb # None /\ dim # None
    <2>1. emb \in Embedding /\ dim' = dim
          /\ vec' = [vec EXCEPT ![i] = IF emb.dim = dim THEN emb ELSE None]
      BY <1>3 DEF Upsert
    <2>2. vec' \in [Id -> Embedding \cup {None}]
          /\ vec'[i] = (IF emb.dim = dim THEN emb ELSE None)
          /\ \A j \in Id \ {i} : vec'[j] = vec[j]
      BY <2>1 DEF MemTypeOK
    <2>3. VecFollowsEmbedding'
      BY <1>3, <1>r, <1>v, <2>1, <2>2 DEF VecFollowsEmbedding
    <2> QED BY <2>1, <2>2, <2>3 DEF MemTypeOK
  <1> QED BY <1>1, <1>2, <1>3

\* A write keeps the indexes in step, the search it happens in, and every pointer
\* to another key.
LEMMA UpsertKeeps ==
    ASSUME MemInv, schema = "v1", NEW k \in Key \cup ToolKey, NEW i \in Id, NEW c \in Content,
           NEW emb \in Embedding \cup {None}, Place(k, i), Upsert(i, k, c, emb),
           UNCHANGED <<schema, embedder, step, searcher, query, hits>>,
           pointers' \subseteq ToolKey \X Content
    PROVE  /\ MemTypeOK' /\ IndexInv' /\ SteadyRowsHit'
           /\ \A h \in (Key \cup ToolKey) \ {k} : \A j \in RowsOf(h) :
                j \in RowsOf(h)' /\ rows'[j].content = rows[j].content
  <1>1. RowsOf(k) \subseteq {i} /\ (rows[i] # None => i \in RowsOf(k))
    BY PlaceFits DEF MemInv, IndexInv
  <1>2. /\ rows' \in [Id -> Row \cup {None}] /\ fts' \in [Id -> Content \cup {None}]
        /\ rows'[i] = [key |-> k, content |-> c, emb |-> emb] /\ rows'[i] # None
        /\ fts'[i] = c
        /\ \A j \in Id \ {i} : rows'[j] = rows[j] /\ fts'[j] = fts[j]
    BY UpsertRows DEF MemInv
  <1>3. /\ vec' \in [Id -> Embedding \cup {None}] /\ dim' \in Dim \cup {None}
        /\ VecFollowsEmbedding'
    <2>1. rows[i] = None => vec[i] = None
      BY DEF MemInv, IndexInv, VecFollowsEmbedding
    <2> QED BY <2>1, UpsertVectors DEF MemInv, IndexInv
  <1>4. steady' \subseteq steady /\ (step \in Running /\ c # query => k \notin steady')
    BY DEF Upsert, Unsettle
  <1>5. MemTypeOK'
    BY <1>2, <1>3, <1>4 DEF MemInv, MemTypeOK
  <1>6. OneRowPerKey'
    BY <1>1, <1>2 DEF MemInv, IndexInv, OneRowPerKey, RowsOf
  <1>7. OldHasNoIndex' /\ FtsInSync'
    BY <1>2 DEF MemInv, IndexInv, OldHasNoIndex, FtsInSync
  <1>8. \A h \in (Key \cup ToolKey) \ {k} : \A j \in RowsOf(h) :
          j \in RowsOf(h)' /\ rows'[j].content = rows[j].content
    BY <1>1, <1>2 DEF RowsOf
  <1>9. SteadyRowsHit'
    <2> SUFFICES ASSUME step \in Running, NEW h \in steady'
                 PROVE  \E j \in RowsOf(h)' : rows'[j].content = query
                                              /\ (step = "load" => j \in hits)
      BY DEF SteadyRowsHit
    <2>1. PICK j \in RowsOf(h) : rows[j].content = query /\ (step = "load" => j \in hits)
      BY <1>4 DEF MemInv, SteadyRowsHit
    <2>2. h \in Key \cup ToolKey
      BY <1>4 DEF MemInv, MemTypeOK
    <2>3. CASE h = k
      <3>1. j = i /\ c = query
        BY <1>1, <1>4, <2>1, <2>3
      <3>2. i \in RowsOf(h)' /\ rows'[i].content = query
        BY <1>2, <2>3, <3>1 DEF RowsOf
      <3> QED BY <2>1, <3>1, <3>2
    <2>4. CASE h # k
      BY <1>8, <2>1, <2>2, <2>4
    <2> QED BY <2>3, <2>4
  <1> QED BY <1>3, <1>5, <1>6, <1>7, <1>8, <1>9 DEF IndexInv

-----------------------------------------------------------------------------
(* The steps.                                                              *)

\* The initial states satisfy the invariant.
LEMMA MemInitOK == Init => MemInv
  <1> SUFFICES ASSUME Init PROVE MemInv
    OBVIOUS
  <1>1. MemTypeOK
    BY DEF Init, MemTypeOK
  <1>2. OneRowPerKey
    <2> SUFFICES ASSUME NEW i \in Id, NEW j \in Id, rows[i] # None, rows[j] # None, i # j
                 PROVE  rows[i].key # rows[j].key
      BY DEF OneRowPerKey
    <2>1. i < j \/ j < i
      BY DEF Id
    <2> QED BY <2>1 DEF Init
  <1>3. OldHasNoIndex /\ FtsInSync /\ VecFollowsEmbedding /\ SteadyRowsHit /\ PointersResolve
    BY DEF Init, OldHasNoIndex, FtsInSync, VecFollowsEmbedding, SteadyRowsHit, PointersResolve, Running
  <1> QED BY <1>1, <1>2, <1>3 DEF MemInv, IndexInv

\* Opening the file brings the indexes up to the rows.
LEMMA OpenKeeps ==
    ASSUME MemInv, NEW p \in Proc, Open(p) PROVE MemInv'
  <1>1. rows' = rows /\ dim' = dim /\ pointers' = pointers /\ schema' = "v1"
        /\ embedder' \in [Proc -> Dim \cup {None}]
    BY DEF Open, MemInv, MemTypeOK
  <1>2. fts' \in [Id -> Content \cup {None}]
        /\ \A i \in Id : fts'[i] = IF rows[i] = None THEN None ELSE rows[i].content
    <2>1. \A i \in Id : rows[i] # None => rows[i].content \in Content
      BY DEF MemInv, MemTypeOK, Row
    <2>2. fts' = [i \in Id |-> IF fts[i] = None /\ rows[i] # None
                               THEN rows[i].content ELSE fts[i]]
      BY DEF Open
    <2>3. \A i \in Id : fts[i] # None => rows[i] # None /\ fts[i] = rows[i].content
      BY DEF MemInv, MemTypeOK, IndexInv, OldHasNoIndex, FtsInSync
    <2> QED BY <2>1, <2>2, <2>3 DEF MemInv, MemTypeOK
  <1>3. /\ vec' \in [Id -> Embedding \cup {None}]
        /\ \A i \in Id : vec'[i] # None => vec'[i] = vec[i]
              \/ (rows[i] # None /\ rows[i].emb # None /\ dim # None
                  /\ vec'[i] = rows[i].emb /\ rows[i].emb.dim = dim)
        /\ \A i \in Id : vec[i] # None => vec'[i] = vec[i]
        /\ \A i \in Id : dim # None /\ rows[i] # None /\ rows[i].emb # None /\ vec[i] = None
              => vec'[i] = IF rows[i].emb.dim = dim THEN rows[i].emb ELSE None
    <2>1. \A i \in Id : rows[i] # None => rows[i].emb \in Embedding \cup {None}
      BY DEF MemInv, MemTypeOK, Row
    <2>2. CASE dim = None
      BY <2>2 DEF Open, MemInv, MemTypeOK
    <2>3. CASE dim # None
      <3>1. vec' = [i \in Id |-> IF vec[i] = None /\ rows[i] # None /\ rows[i].emb # None
                                    /\ rows[i].emb.dim = dim
                                 THEN rows[i].emb ELSE vec[i]]
        BY <2>3 DEF Open, Backfill
      <3> QED BY <2>1, <2>3, <3>1 DEF MemInv, MemTypeOK
    <2> QED BY <2>2, <2>3
  <1>4. FtsInSync' /\ OneRowPerKey' /\ OldHasNoIndex' /\ PointersResolve'
    BY <1>1, <1>2 DEF MemInv, IndexInv, FtsInSync, OneRowPerKey, OldHasNoIndex, PointersResolve, RowsOf
  <1>5. VecFollowsEmbedding'
    <2>1. ASSUME NEW i \in Id, dim # None, rows[i] # None, rows[i].emb # None
          PROVE  vec'[i] = IF rows[i].emb.dim = dim THEN rows[i].emb ELSE None
      BY <1>3, <2>1 DEF MemInv, IndexInv, VecFollowsEmbedding
    <2>2. ASSUME NEW i \in Id, vec'[i] # None
          PROVE  rows[i] # None /\ vec'[i].dim = dim
      BY <1>3, <2>2 DEF MemInv, IndexInv, VecFollowsEmbedding
    <2> QED BY <1>1, <2>1, <2>2 DEF VecFollowsEmbedding
  <1>6. CASE searcher = p
    <2>1. Rest
      BY <1>6 DEF Open
    <2>2. SteadyRowsHit'
      BY <2>1 DEF Rest, SteadyRowsHit, Running
    <2>3. MemTypeOK'
      BY <1>1, <1>2, <1>3, <2>1 DEF MemInv, MemTypeOK, Rest
    <2> QED BY <1>4, <1>5, <2>2, <2>3 DEF MemInv, IndexInv
  <1>7. CASE searcher # p
    <2>1. UNCHANGED search
      BY <1>7 DEF Open
    <2>2. SteadyRowsHit'
      BY <1>1, <2>1 DEF MemInv, SteadyRowsHit, RowsOf, search
    <2>3. MemTypeOK'
      BY <1>1, <1>2, <1>3, <2>1 DEF MemInv, MemTypeOK, search
    <2> QED BY <1>4, <1>5, <2>2, <2>3 DEF MemInv, IndexInv
  <1> QED BY <1>6, <1>7

\* What is embedded is an embedding, or nothing.
LEMMA EmbedType ==
    ASSUME MemTypeOK, NEW p \in Proc, NEW c \in Content
    PROVE  Embed(p, c) \in Embedding \cup {None}
  BY DEF MemTypeOK, Embed, Embedding

\* A store never touches the key of a tool result.
LEMMA StoreKeeps ==
    ASSUME MemInv, NEW p \in Proc, NEW k \in Key, NEW c \in Content, Store(p, k, c)
    PROVE  MemInv'
  <1>1. PICK i \in Id : Place(k, i) /\ Upsert(i, k, c, Embed(p, c))
    BY DEF Store
  <1>2. /\ schema = "v1" /\ UNCHANGED <<schema, embedder, step, searcher, query, hits>>
        /\ pointers' = pointers
    BY DEF Store
  <1>3. pointers' \subseteq ToolKey \X Content /\ MemTypeOK
    BY <1>2 DEF MemInv, MemTypeOK
  <1>4. Embed(p, c) \in Embedding \cup {None}
    BY <1>3, EmbedType
  <1>5. /\ MemTypeOK' /\ IndexInv' /\ SteadyRowsHit'
        /\ \A h \in (Key \cup ToolKey) \ {k} : \A j \in RowsOf(h) :
             j \in RowsOf(h)' /\ rows'[j].content = rows[j].content
    BY <1>1, <1>2, <1>3, <1>4, UpsertKeeps
  <1>6. PointersResolve'
    <2> SUFFICES ASSUME NEW x \in pointers
                 PROVE  \E i_1 \in RowsOf(x[1])' : rows'[i_1].content = x[2]
      BY <1>2 DEF PointersResolve
    <2>1. x[1] \in ToolKey /\ x[1] # k
      BY <1>2, <1>3, MemoryAssumption
    <2> QED BY <1>5, <2>1 DEF MemInv, PointersResolve
  <1> QED BY <1>5, <1>6 DEF MemInv

\* A tool result gets a row of its own, and a pointer to it.
LEMMA RecordToolKeeps ==
    ASSUME MemInv, NEW p \in Proc, NEW k \in ToolKey, NEW c \in Content, RecordTool(p, k, c)
    PROVE  MemInv'
  <1>1. PICK i \in Id : Place(k, i) /\ Upsert(i, k, c, Embed(p, c))
    BY DEF RecordTool
  <1>2. /\ schema = "v1" /\ UNCHANGED <<schema, embedder, step, searcher, query, hits>>
        /\ pointers' = pointers \cup {<<k, c>>} /\ RowsOf(k) = {}
    BY DEF RecordTool
  <1>3. pointers' \subseteq ToolKey \X Content /\ MemTypeOK
    BY <1>2 DEF MemInv, MemTypeOK
  <1>4. Embed(p, c) \in Embedding \cup {None}
    BY <1>3, EmbedType
  <1>5. /\ MemTypeOK' /\ IndexInv' /\ SteadyRowsHit'
        /\ \A h \in (Key \cup ToolKey) \ {k} : \A j \in RowsOf(h) :
             j \in RowsOf(h)' /\ rows'[j].content = rows[j].content
    BY <1>1, <1>2, <1>3, <1>4, UpsertKeeps
  <1>6. PointersResolve'
    <2> SUFFICES ASSUME NEW x \in pointers'
                 PROVE  \E j \in RowsOf(x[1])' : rows'[j].content = x[2]
      BY DEF PointersResolve
    <2>1. CASE x \in pointers
      <3>1. PICK j \in RowsOf(x[1]) : rows[j].content = x[2]
        BY <2>1 DEF MemInv, PointersResolve
      <3>2. x[1] \in ToolKey /\ x[1] # k
        BY <1>2, <1>3, <3>1
      <3> QED BY <1>5, <3>1, <3>2
    <2>2. CASE x = <<k, c>>
      <3>1. rows'[i] = [key |-> k, content |-> c, emb |-> Embed(p, c)] /\ rows'[i] # None
        BY <1>1, <1>3, <1>4, UpsertRows
      <3>2. i \in RowsOf(k)' /\ rows'[i].content = c
        BY <3>1 DEF RowsOf
      <3> QED BY <2>2, <3>2
    <2> QED BY <1>2, <2>1, <2>2
  <1> QED BY <1>5, <1>6 DEF MemInv

\* A delete takes a row out of every table.
LEMMA DeleteKeeps ==
    ASSUME MemInv, NEW k \in Key, Delete(k) PROVE MemInv'
  <1>1. PICK i \in RowsOf(k) : /\ rows' = [rows EXCEPT ![i] = None]
                               /\ fts' = [fts EXCEPT ![i] = None]
                               /\ vec' = [vec EXCEPT ![i] = None]
    BY DEF Delete
  <1>2. /\ steady' = steady \ {k}
        /\ UNCHANGED <<schema, dim, embedder, pointers, step, searcher, query, hits>>
    BY DEF Delete
  <1>3. i \in Id /\ rows[i] # None /\ rows[i].key = k
    BY <1>1 DEF RowsOf
  <1>4. MemTypeOK'
    BY <1>1, <1>2, <1>3 DEF MemInv, MemTypeOK
  <1>5. /\ rows'[i] = None /\ fts'[i] = None /\ vec'[i] = None
        /\ \A j \in Id \ {i} : rows'[j] = rows[j] /\ fts'[j] = fts[j] /\ vec'[j] = vec[j]
    BY <1>1, <1>3 DEF MemInv, MemTypeOK
  <1>6. OneRowPerKey' /\ OldHasNoIndex' /\ FtsInSync'
    BY <1>2, <1>5 DEF MemInv, IndexInv, OneRowPerKey, OldHasNoIndex, FtsInSync
  <1>7. VecFollowsEmbedding'
    BY <1>2, <1>5 DEF MemInv, IndexInv, VecFollowsEmbedding
  <1>8. \A h : h # k => \A j \in RowsOf(h) : j \in RowsOf(h)' /\ rows'[j].content = rows[j].content
    BY <1>3, <1>5 DEF RowsOf
  <1>9. SteadyRowsHit'
    BY <1>2, <1>8 DEF MemInv, SteadyRowsHit
  <1>10. PointersResolve'
    <2>1. \A x \in pointers : x[1] \in ToolKey /\ x[1] # k
      BY MemoryAssumption DEF MemInv, MemTypeOK
    <2> QED BY <1>2, <1>8, <2>1 DEF MemInv, PointersResolve
  <1> QED BY <1>4, <1>6, <1>7, <1>9, <1>10 DEF MemInv, IndexInv

\* The steps of a search only read the file.
LEMMA SearchKeeps ==
    ASSUME MemInv,
           (\E p \in Proc, q \in Content : Search(p, q)) \/ VecIds \/ FtsIds \/ LoadEntries
    PROVE  MemInv'
  <1>1. UNCHANGED <<file, embedder, pointers>>
    BY DEF Search, VecIds, FtsIds, LoadEntries
  <1>2. IndexInv' /\ PointersResolve'
    <2>1. step' # step => schema = "v1" \/ step \in Running
      BY DEF Search, VecIds, FtsIds, LoadEntries, Running
    <2>2. step \in Running => schema = "v1"
      BY DEF MemInv, MemTypeOK, IndexInv, OldHasNoIndex, Running
    <2>3. OldHasNoIndex'
      BY <1>1, <2>1, <2>2 DEF MemInv, IndexInv, OldHasNoIndex, file
    <2> QED BY <1>1, <2>3 DEF MemInv, IndexInv, OneRowPerKey, FtsInSync, VecFollowsEmbedding,
                              PointersResolve, RowsOf, file
  <1>3. \A k : RowsOf(k)' = RowsOf(k)
    BY <1>1 DEF RowsOf, file
  <1>4. CASE \E p \in Proc, q \in Content : Search(p, q)
    <2>1. PICK p \in Proc, q \in Content : Search(p, q)
      BY <1>4
    <2>2. MemTypeOK'
      BY <1>1, <2>1 DEF MemInv, MemTypeOK, Search, file, Running
    <2>3. SteadyRowsHit'
      BY <1>1, <1>3, <2>1 DEF SteadyRowsHit, Search, file
    <2> QED BY <1>2, <2>2, <2>3 DEF MemInv
  <1>5. CASE VecIds
    <2>1. MemTypeOK'
      BY <1>1, <1>5 DEF MemInv, MemTypeOK, VecIds, file, Running
    <2>2. SteadyRowsHit'
      BY <1>1, <1>3, <1>5 DEF MemInv, SteadyRowsHit, VecIds, file, Running
    <2> QED BY <1>2, <2>1, <2>2 DEF MemInv
  <1>6. CASE FtsIds
    <2>1. MemTypeOK'
      BY <1>1, <1>6 DEF MemInv, MemTypeOK, FtsIds, file, Running
    <2>2. schema = "v1"
      BY <1>6 DEF FtsIds, MemInv, MemTypeOK, IndexInv, OldHasNoIndex
    <2>3. \A k : \A i \in RowsOf(k) : rows[i].content = query => i \in hits'
      BY <1>6, <2>2 DEF FtsIds, MemInv, IndexInv, FtsInSync, RowsOf
    <2>4. SteadyRowsHit'
      BY <1>1, <1>3, <1>6, <2>3 DEF MemInv, SteadyRowsHit, FtsIds, file, Running
    <2> QED BY <1>2, <2>1, <2>4 DEF MemInv
  <1>7. CASE LoadEntries
    <2>1. MemTypeOK'
      BY <1>1, <1>7 DEF MemInv, MemTypeOK, LoadEntries, Rest, file
    <2>2. SteadyRowsHit'
      BY <1>7 DEF SteadyRowsHit, LoadEntries, Rest, Running
    <2> QED BY <1>2, <2>1, <2>2 DEF MemInv
  <1> QED BY <1>4, <1>5, <1>6, <1>7

\* Every step keeps the invariant.
LEMMA MemStep == MemInv /\ [Next]_memVars => MemInv'
  <1> SUFFICES ASSUME MemInv, [Next]_memVars PROVE MemInv'
    OBVIOUS
  <1>1. CASE \E p \in Proc : Open(p)
    BY <1>1, OpenKeeps
  <1>2. CASE \E p \in Proc, c \in Content, k \in Key : Store(p, k, c)
    BY <1>2, StoreKeeps
  <1>3. CASE \E p \in Proc, c \in Content, k \in ToolKey : RecordTool(p, k, c)
    BY <1>3, RecordToolKeeps
  <1>4. CASE \E k \in Key : Delete(k)
    BY <1>4, DeleteKeeps
  <1>5. CASE (\E p \in Proc, c \in Content : Search(p, c)) \/ VecIds \/ FtsIds \/ LoadEntries
    BY <1>5, SearchKeeps
  <1>6. CASE UNCHANGED memVars
    BY <1>6 DEF memVars, file, search, MemInv, MemTypeOK, IndexInv, OneRowPerKey, OldHasNoIndex,
                FtsInSync, VecFollowsEmbedding, SteadyRowsHit, PointersResolve, RowsOf
  <1> QED BY <1>1, <1>2, <1>3, <1>4, <1>5, <1>6 DEF Next

\* The inductive invariant holds in every reachable state: the file's three
\* tables, the search in flight and the pointers together.
THEOREM MemInvariant == Spec => []MemInv
  BY MemInitOK, MemStep, PTL DEF Spec

\* MemTypeOK holds of the store for every number of processes, keys and models.
THEOREM MemTypes == Spec => []MemTypeOK
  <1>1. MemInv => MemTypeOK
    BY DEF MemInv
  <1> QED BY <1>1, MemInvariant, PTL

\* FtsInSync: after any history of opens, writes and deletes the keyword index
\* (store.rs, SYNC POINT) says what the rows say.
THEOREM MemFts == Spec => []FtsInSync
  <1>1. MemInv => FtsInSync
    BY DEF MemInv, IndexInv
  <1> QED BY <1>1, MemInvariant, PTL

\* VecFollowsEmbedding: the vector index holds the embeddings of its dimension,
\* no others and none without a row.
THEOREM MemVectors == Spec => []VecFollowsEmbedding
  <1>1. MemInv => VecFollowsEmbedding
    BY DEF MemInv, IndexInv
  <1> QED BY <1>1, MemInvariant, PTL

\* SearchFindsSteady: search_hybrid loses no row that matched it all along to the
\* writes between its three reads.
THEOREM MemSearch == Spec => []SearchFindsSteady
  <1>1. MemInv => SearchFindsSteady
    <2> SUFFICES ASSUME MemInv, step = "load", NEW k \in steady
                 PROVE  \E r \in Loaded : r.key = k /\ r.content = query
      BY DEF SearchFindsSteady
    <2>1. PICK i \in RowsOf(k) : rows[i].content = query /\ i \in hits
      BY DEF MemInv, SteadyRowsHit, Running
    <2>2. rows[i] \in Loaded /\ rows[i].key = k
      BY <2>1 DEF Loaded, RowsOf
    <2> QED BY <2>1, <2>2
  <1> QED BY <1>1, MemInvariant, PTL

\* PointersResolve: memory://tools/<key> leads to the result it stands for.
THEOREM MemPointers == Spec => []PointersResolve
  <1>1. MemInv => PointersResolve
    BY DEF MemInv
  <1> QED BY <1>1, MemInvariant, PTL
-----------------------------------------------------------------------------
(* The file is a map, and its search is one of it: KeyedMemory.            *)

\* What is stored under a key, as KeyedMemory is told.
Said(k) == {rows[i].content : i \in RowsOf(k)}

\* A search has a query as long as it runs, and owes nothing once it is over.
SearchInv ==
    /\ step = "idle" => query = None /\ steady = {}
    /\ step \in Running => query \in Content

\* Every way out of a search ends in Rest.
LEMMA SearchStep == MemInv /\ SearchInv /\ [Next]_memVars => SearchInv'
  <1> SUFFICES ASSUME MemInv, SearchInv, [Next]_memVars PROVE SearchInv'
    OBVIOUS
  <1>1. ASSUME NEW p \in Proc, Open(p) PROVE SearchInv'
    BY <1>1 DEF Open, Rest, SearchInv, Running, search
  <1>2. ASSUME UNCHANGED <<step, query>>, steady' \subseteq steady PROVE SearchInv'
    BY <1>2 DEF SearchInv
  <1>3. ASSUME NEW p \in Proc, NEW c \in Content, NEW k,
               Store(p, k, c) \/ RecordTool(p, k, c)
        PROVE  SearchInv'
    BY <1>2, <1>3 DEF Store, RecordTool, Upsert, Unsettle
  <1>4. ASSUME NEW k \in Key, Delete(k) PROVE SearchInv'
    BY <1>2, <1>4 DEF Delete
  <1>5. ASSUME NEW p \in Proc, NEW q \in Content, Search(p, q) PROVE SearchInv'
    BY <1>5 DEF Search, SearchInv, Running
  <1>6. CASE VecIds \/ FtsIds \/ LoadEntries
    BY <1>6 DEF VecIds, FtsIds, LoadEntries, Rest, SearchInv, Running
  <1>7. CASE UNCHANGED memVars
    BY <1>2, <1>7 DEF memVars, search
  <1> QED BY <1>1, <1>3, <1>4, <1>5, <1>6, <1>7 DEF Next

\* What a search would answer has all that it owes, and only what is stored.
LEMMA SearchIsHonest == MemInv => Promised!Honest
  <1> SUFFICES ASSUME MemInv, step = "load"
               PROVE  /\ {<<k, query>> : k \in steady} \subseteq {<<r.key, r.content>> : r \in Loaded}
                      /\ {<<r.key, r.content>> : r \in Loaded}
                           \subseteq UNION {{k} \X Said(k) : k \in Key \cup ToolKey}
    BY DEF Promised!Honest, Promised!AnyKey, Said
  <1>1. ASSUME NEW k \in steady
        PROVE  <<k, query>> \in {<<r.key, r.content>> : r \in Loaded}
    <2>1. PICK i \in RowsOf(k) : rows[i].content = query /\ i \in hits
      BY DEF MemInv, SteadyRowsHit, Running
    <2>2. rows[i] \in Loaded /\ rows[i].key = k
      BY <2>1 DEF Loaded, RowsOf
    <2> QED BY <2>1, <2>2
  <1>2. ASSUME NEW r \in Loaded
        PROVE  <<r.key, r.content>> \in UNION {{k} \X Said(k) : k \in Key \cup ToolKey}
    <2>1. PICK i \in hits : r = rows[i] /\ r # None
      BY DEF Loaded
    <2>2. i \in RowsOf(r.key) /\ r.key \in Key \cup ToolKey
      BY <2>1 DEF RowsOf, MemInv, MemTypeOK, Row
    <2>3. <<r.key, r.content>> \in {r.key} \X Said(r.key)
      BY <2>1, <2>2 DEF Said
    <2> QED BY <2>2, <2>3
  <1> QED BY <1>1, <1>2

\* A write of one key is a write of one key: its row says the content, and no
\* other key has got or lost a row.
LEMMA UpsertSays ==
    ASSUME MemInv, SearchInv, NEW k \in Key \cup ToolKey, NEW i \in Id, NEW c \in Content,
           NEW emb \in Embedding \cup {None}, Place(k, i), Upsert(i, k, c, emb),
           UNCHANGED <<step, query>>
    PROVE  Promised!Write(k, c)
  <1>1. RowsOf(k) \subseteq {i} /\ (rows[i] # None => i \in RowsOf(k))
    BY PlaceFits DEF MemInv, IndexInv
  <1>2. /\ rows'[i] = [key |-> k, content |-> c, emb |-> emb] /\ rows'[i] # None
        /\ \A j \in Id \ {i} : rows'[j] = rows[j]
    BY UpsertRows DEF MemInv
  <1>3. RowsOf(k)' = {i}
    BY <1>1, <1>2 DEF RowsOf
  <1>4. Said(k)' = {c}
    BY <1>2, <1>3 DEF Said
  <1>5. ASSUME NEW h \in (Key \cup ToolKey) \ {k} PROVE Said(h)' = Said(h)
    <2>1. RowsOf(h)' = RowsOf(h) /\ i \notin RowsOf(h)
      BY <1>1, <1>2 DEF RowsOf
    <2>2. \A j \in RowsOf(h) : rows'[j] = rows[j]
      BY <1>2, <2>1 DEF RowsOf
    <2> QED BY <2>1, <2>2 DEF Said
  <1>6. [h \in Key \cup ToolKey |-> Said(h)]'
          = [[h \in Key \cup ToolKey |-> Said(h)] EXCEPT ![k] = {c}]
    BY <1>4, <1>5
  <1>7. steady' = IF c = query THEN steady ELSE steady \ {k}
    <2>1. c # None /\ (step \in Running \/ step = "idle")
      BY MemoryAssumption DEF MemInv, MemTypeOK
    <2> QED BY <2>1 DEF Upsert, Unsettle, SearchInv
  <1> QED BY <1>6, <1>7 DEF Promised!Write, Said

\* A key without a row and one with: nothing is said, or one thing.
LEMMA SaidType ==
    ASSUME MemTypeOK, OneRowPerKey, NEW k \in Key \cup ToolKey
    PROVE  /\ Said(k) \in {{}} \cup {{c} : c \in Content}
           /\ Said(k) = {} <=> RowsOf(k) = {}
           /\ \A i \in RowsOf(k) : Said(k) = {rows[i].content}
  <1>1. ASSUME NEW i \in RowsOf(k) PROVE Said(k) = {rows[i].content} /\ rows[i].content \in Content
    <2>1. RowsOf(k) = {i}
      BY DEF RowsOf, OneRowPerKey
    <2>2. rows[i] \in Row
      BY DEF RowsOf, MemTypeOK
    <2> QED BY <2>1, <2>2 DEF Said, Row
  <1> QED BY <1>1 DEF Said

\* No file, or one from before v1, is a map without tool results.
LEMMA KeyedInitially == Init => Promised!KeyedInit
  <1> SUFFICES ASSUME Init PROVE Promised!KeyedInit
    OBVIOUS
  <1>1. MemTypeOK /\ OneRowPerKey
    BY MemInitOK DEF MemInv, IndexInv
  <1>2. \A k \in Key \cup ToolKey : Said(k) \in {{}} \cup {{c} : c \in Content}
    BY <1>1, SaidType
  <1>3. [k \in Key \cup ToolKey |-> Said(k)]
          \in [Key \cup ToolKey -> {{}} \cup {{c} : c \in Content}]
    BY <1>2
  <1>4. ASSUME NEW k \in ToolKey PROVE Said(k) = {}
    BY MemoryAssumption DEF Init, Said, RowsOf
  <1> QED BY <1>3, <1>4 DEF Init, Promised!KeyedInit, Promised!AnyKey, Said

\* Every step is one of KeyedMemory, or hides in the file.
LEMMA KeyedStep ==
    ASSUME MemInv, SearchInv, Promised!Honest', [Next]_memVars
    PROVE  [Promised!KeyedNext]_(Promised!keyedVars)
  <1> USE DEF Promised!KeyedNext, Promised!keyedVars
  <1>1. ASSUME UNCHANGED <<rows, pointers, step, query, hits, steady>>
        PROVE  UNCHANGED Promised!keyedVars
    BY <1>1 DEF RowsOf, Loaded
  <1>2. ASSUME UNCHANGED rows
        PROVE  \A k : Said(k)' = Said(k)
    BY <1>2 DEF RowsOf, Said
  <1>3. ASSUME NEW p \in Proc, Open(p) PROVE [Promised!KeyedNext]_(Promised!keyedVars)
    <2>1. UNCHANGED <<rows, pointers>>
      BY <1>3 DEF Open
    <2>2. CASE searcher # p
      BY <1>1, <1>3, <2>1, <2>2 DEF Open, search
    <2>3. CASE searcher = p /\ step = "idle"
      <3>1. Rest /\ query = None /\ steady = {}
        BY <1>3, <2>3 DEF Open, SearchInv
      <3> QED BY <1>2, <2>1, <2>3, <3>1 DEF Rest, Said
    <2>4. CASE searcher = p /\ step # "idle"
      <3>1. Rest /\ query # None
        BY <1>3, <2>4, MemoryAssumption DEF Open, SearchInv, MemInv, MemTypeOK
      <3>2. Promised!End
        BY <1>2, <2>1, <3>1 DEF Promised!End, Rest, Said
      <3> QED BY <3>2
    <2> QED BY <2>2, <2>3, <2>4
  <1>4. ASSUME NEW p \in Proc, NEW c \in Content, NEW k \in Key, Store(p, k, c)
        PROVE  Promised!KeyedNext
    <2>1. PICK i \in Id : Place(k, i) /\ Upsert(i, k, c, Embed(p, c))
      BY <1>4 DEF Store
    <2>2. Embed(p, c) \in Embedding \cup {None}
      BY EmbedType DEF MemInv
    <2>3. Promised!Write(k, c)
      BY <1>4, <2>1, <2>2, UpsertSays DEF Store
    <2>4. Promised!Put(k, c)
      BY <1>4, <2>3 DEF Promised!Put, Store
    <2> QED BY <2>4
  <1>5. ASSUME NEW p \in Proc, NEW c \in Content, NEW k \in ToolKey, RecordTool(p, k, c)
        PROVE  Promised!KeyedNext
    <2>1. PICK i \in Id : Place(k, i) /\ Upsert(i, k, c, Embed(p, c))
      BY <1>5 DEF RecordTool
    <2>2. Embed(p, c) \in Embedding \cup {None}
      BY EmbedType DEF MemInv
    <2>3. Promised!Write(k, c)
      BY <1>5, <2>1, <2>2, UpsertSays DEF RecordTool
    <2>4. Said(k) = {}
      BY <1>5 DEF RecordTool, Said
    <2>5. Promised!Record(k, c)
      BY <1>5, <2>3, <2>4 DEF Promised!Record, RecordTool, Said
    <2> QED BY <2>5
  <1>6. ASSUME NEW k \in Key, Delete(k) PROVE Promised!KeyedNext
    <2>1. PICK i \in RowsOf(k) : rows' = [rows EXCEPT ![i] = None]
      BY <1>6 DEF Delete
    <2>2. RowsOf(k) = {i} /\ i \in Id /\ rows[i].key = k
      BY <2>1 DEF RowsOf, MemInv, IndexInv, OneRowPerKey
    <2>3. rows'[i] = None /\ \A j \in Id \ {i} : rows'[j] = rows[j]
      BY <2>1, <2>2 DEF MemInv, MemTypeOK
    <2>4. Said(k)' = {} /\ Said(k) # {}
      BY <2>2, <2>3 DEF Said, RowsOf
    <2>5. ASSUME NEW h \in (Key \cup ToolKey) \ {k} PROVE Said(h)' = Said(h)
      <3>1. RowsOf(h)' = RowsOf(h) /\ i \notin RowsOf(h)
        BY <2>2, <2>3 DEF RowsOf
      <3>2. \A j \in RowsOf(h) : rows'[j] = rows[j]
        BY <2>3, <3>1 DEF RowsOf
      <3> QED BY <3>1, <3>2 DEF Said
    <2>6. [h \in Key \cup ToolKey |-> Said(h)]'
            = [[h \in Key \cup ToolKey |-> Said(h)] EXCEPT ![k] = {}]
      BY <2>4, <2>5
    <2>7. Promised!Remove(k)
      BY <1>6, <2>4, <2>6 DEF Promised!Remove, Delete, Said
    <2> QED BY <2>7
  <1>7. ASSUME NEW p \in Proc, NEW q \in Content, Search(p, q) PROVE Promised!KeyedNext
    <2>1. UNCHANGED <<rows, pointers>> /\ query = None /\ query' = q /\ step = "idle"
          /\ step' \in {"vec", "fts"}
      BY <1>7 DEF Search, file, SearchInv
    <2>2. steady' = {k \in Key \cup ToolKey : Said(k) = {q}}
      <3>1. \A k \in Key \cup ToolKey : Said(k) = {q} <=> \E i \in RowsOf(k) : rows[i].content = q
        BY SaidType DEF MemInv, IndexInv, Said
      <3> QED BY <1>7, <3>1 DEF Search
    <2>3. Promised!Ask(q)
      BY <1>2, <2>1, <2>2 DEF Promised!Ask, Promised!AnyKey, Said
    <2> QED BY <2>3
  <1>8. CASE VecIds
    <2>1. /\ UNCHANGED <<rows, pointers, query, steady>> /\ step = "vec" /\ step' = "fts"
      BY <1>8 DEF VecIds, file
    <2> QED BY <1>2, <2>1 DEF Said
  <1>9. CASE FtsIds
    <2>1. /\ UNCHANGED <<rows, pointers, query, steady>> /\ step = "fts" /\ step' = "load"
          /\ query # None
      BY <1>9, MemoryAssumption DEF FtsIds, file, SearchInv, Running
    <2>2. Promised!GetReady
      BY <1>2, <2>1 DEF Promised!GetReady, Said
    <2> QED BY <2>2
  <1>10. CASE LoadEntries
    <2>1. UNCHANGED <<rows, pointers>> /\ Rest /\ query # None
      BY <1>10, MemoryAssumption DEF LoadEntries, file, SearchInv, Running
    <2>2. Promised!End
      BY <1>2, <2>1 DEF Promised!End, Rest, Said
    <2> QED BY <2>2
  <1>11. CASE UNCHANGED memVars
    BY <1>1, <1>11 DEF memVars, file, search
  <1> QED BY <1>3, <1>4, <1>5, <1>6, <1>7, <1>8, <1>9, <1>10, <1>11 DEF Next

\* The store implements KeyedMemory: rows, two indexes and ids that come back
\* are one map, which a search reads in three parts without missing anything.
THEOREM MemIsKeyed == Spec => KeyedSpec
  <1>1. Init => SearchInv
    BY DEF Init, SearchInv, Running
  <1>2. MemInv' => Promised!Honest'
    BY SearchIsHonest, PTL
  <1>3. MemInv /\ MemInv' /\ SearchInv /\ [Next]_memVars
          => [Promised!KeyedNext]_(Promised!keyedVars)
    BY <1>2, KeyedStep
  <1> QED BY <1>1, <1>3, KeyedInitially, SearchStep, MemInvariant, PTL
          DEF Spec, KeyedSpec, Promised!KeyedSpec
=============================================================================
