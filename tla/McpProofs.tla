------------------------------- MODULE McpProofs -------------------------------
(***************************************************************************)
(* Proofs about Mcp, for any set of requests and any capacity of the       *)
(* pipes: ids are drawn once, a reply reaches the request it is to, a      *)
(* request that returned leaves nothing in the map, and a client that was  *)
(* given a job's id finds the job.                                         *)
(***************************************************************************)
EXTENDS Mcp, FiniteSetTheorems, SequenceTheorems, TLAPS

Begun == {q \in Req : phase[q] # "new"}

\* Ids are counted up, and each belongs to one request.
IdsInv ==
    /\ nextId = Cardinality(Begun) + 1
    /\ \A q \in Req : (phase[q] = "new" <=> id[q] = 0) /\ id[q] < nextId
    /\ \A q, r \in Req : id[q] = id[r] /\ id[q] # 0 => q = r

\* The map leads from an id to its request, until the reply is in its oneshot or
\* it returns.
PendingInv ==
    /\ \A i \in Id : pending[i] # None => id[pending[i]] = i
    /\ \A q \in Req : slot[q] # None => phase[q] # "new" /\ \A i \in Id : pending[i] # q
    /\ \A q \in Req : phase[q] \in InCall => slot[q] # None \/ pending[id[q]] = q
    /\ NothingLingers

\* A reply bears the id of the request it is to; that a fan-out was accepted is
\* said of a recorded job, and no status request is told that there is none.
Fine(m, ids, records) ==
    m \in Reply =>
      /\ ids[m.of] = m.id
      /\ What[m.of] = "fanout" /\ m.text = "ok" => records[m.of] # "none"
      /\ What[m.of] = "status" => m.text # "not_found"

ReplyInv ==
    /\ \A n \in 1..Len(stdout) : Fine(stdout[n], id, file)
    /\ \A q \in Req : /\ Fine(slot[q], id, file) /\ (slot[q] \in Reply => slot[q].of = q)
                      /\ Fine(result[q], id, file)
    /\ OwnReply

\* What the server has to read or serves was sent, and a status request after its
\* job was recorded.
AskedInv ==
    /\ \A n \in 1..Len(stdin) : stdin[n] \in Req => phase[stdin[n]] # "new"
    /\ serving \in Req => phase[serving] # "new"
    /\ server = "serving" => serving \in Req
    /\ \A q \in Req : phase[q] # "new" /\ What[q] = "status" => file[JobOf[q]] # "none"

McpInv == McpTypeOK /\ IdsInv /\ PendingInv /\ ReplyInv /\ AskedInv

-----------------------------------------------------------------------------
\* A reply that was fine stays so: ids are kept, and records do not vanish.
LEMMA FineKept ==
    ASSUME NEW m, NEW ids, NEW ids2, NEW records, NEW records2,
           \A q \in Req : ids[q] # 0 => ids2[q] = ids[q],
           \A j \in Job : records[j] # "none" => records2[j] # "none",
           Fine(m, ids, records)
    PROVE  Fine(m, ids2, records2)
  <1> SUFFICES ASSUME m \in Reply PROVE Fine(m, ids2, records2)
    BY DEF Fine
  <1>1. m.of \in Req /\ m.id \in Id /\ m.id # 0
    <2>1. m.of \in Req /\ m.id \in Id
      BY DEF Reply
    <2> QED BY <2>1, FS_CardinalityType, McpAssumption DEF Id
  <1>2. What[m.of] = "fanout" => m.of \in Job
    BY <1>1 DEF Job
  <1> QED BY <1>1, <1>2 DEF Fine

\* The parts of the invariant that a step keeps if it leaves ids and the requests
\* that have begun as they are.
LEMMA IdsKept ==
    ASSUME McpTypeOK, IdsInv, UNCHANGED <<nextId, id>>, phase' \in [Req -> InCall \cup {"new", "done", "dropped"}],
           \A q \in Req : phase'[q] = "new" <=> phase[q] = "new"
    PROVE  IdsInv'
  <1>1. Begun' = Begun
    BY DEF Begun
  <1> QED BY <1>1 DEF IdsInv

\* A step that leaves the replies and their ids alone, and no record vanish,
\* keeps what is said of them.
LEMMA RepliesKept ==
    ASSUME ReplyInv, UNCHANGED <<id, stdout, slot, result>>,
           \A j \in Job : file[j] # "none" => file'[j] # "none"
    PROVE  ReplyInv'
  <1>1. \A m : Fine(m, id, file) => Fine(m, id', file')
    BY FineKept
  <1> QED BY <1>1 DEF ReplyInv, OwnReply

-----------------------------------------------------------------------------
(* The client's steps.                                                     *)

\* The initial states satisfy the invariant.
LEMMA McpInitOK == Init => McpInv
  <1> SUFFICES ASSUME Init PROVE McpInv
    OBVIOUS
  <1>0. Cardinality(Req) \in Nat
    BY FS_CardinalityType, McpAssumption
  <1>1. McpTypeOK
    <2>1. PipeCap \in Nat /\ stdin = <<>> /\ stdout = <<>>
      BY McpAssumption DEF Init
    <2> QED BY <1>0, <2>1 DEF Init, McpTypeOK, Id
  <1>2. IdsInv
    <2>1. Begun = {}
      BY DEF Init, Begun
    <2> QED BY <2>1, FS_EmptySet DEF Init, IdsInv
  <1>3. PendingInv /\ AskedInv
    BY McpAssumption DEF Init, PendingInv, AskedInv, InCall, NothingLingers
  <1>4. None \notin Reply
    BY McpAssumption
  <1>5. ReplyInv
    BY <1>4 DEF Init, ReplyInv, Fine, OwnReply
  <1> QED BY <1>1, <1>2, <1>3, <1>5 DEF McpInv

\* A request draws an id that nobody has; it asks about a job that is recorded.
LEMMA BeginKeeps ==
    ASSUME McpInv, NEW q \in Req, Begin(q) PROVE McpInv'
  <1> USE DEF McpInv
  <1>0. Cardinality(Req) \in Nat
    BY FS_CardinalityType, McpAssumption
  <1>1. /\ phase[q] = "new" /\ Allowed(q)
        /\ phase' = [phase EXCEPT ![q] = "inserted"] /\ nextId' = nextId + 1
        /\ id' = [id EXCEPT ![q] = nextId] /\ pending' = [pending EXCEPT ![nextId] = q]
        /\ UNCHANGED <<conn, slot, result, reader, partial, stdin, stdout, server, serving, answered, job, file>>
    BY DEF Begin, Go, pipes, jobs
  <1>2. Begun' = Begun \cup {q} /\ q \notin Begun
    BY <1>1 DEF Begun, McpTypeOK
  <1>3. IsFiniteSet(Begun) /\ Cardinality(Begun') = Cardinality(Begun) + 1
        /\ Cardinality(Begun') <= Cardinality(Req) /\ Cardinality(Begun) \in Nat
    <2>1. Begun \in SUBSET Req /\ Begun' \in SUBSET Req
      BY <1>1, <1>2 DEF Begun
    <2>2. IsFiniteSet(Begun)
      BY <2>1, FS_Subset, McpAssumption
    <2>3. Cardinality(Begun') <= Cardinality(Req)
      BY <2>1, FS_Subset, McpAssumption
    <2> QED BY <1>2, <2>2, <2>3, FS_AddElement, FS_CardinalityType
  <1>4. nextId \in Id /\ nextId' \in 1..Cardinality(Req) + 1 /\ nextId # 0
    BY <1>0, <1>1, <1>3 DEF IdsInv, Id
  <1>5. /\ id' \in [Req -> Id \cup {0}] /\ id'[q] = nextId /\ id[q] = 0
        /\ \A r \in Req \ {q} : id'[r] = id[r]
        /\ phase'[q] = "inserted" /\ \A r \in Req \ {q} : phase'[r] = phase[r]
        /\ pending'[nextId] = q /\ \A i \in Id \ {nextId} : pending'[i] = pending[i]
        /\ pending' \in [Id -> Req \cup {None}]
    BY <1>1, <1>4 DEF McpTypeOK, IdsInv
  <1>6. McpTypeOK'
    BY <1>1, <1>4, <1>5 DEF McpTypeOK, InCall
  <1>7. IdsInv'
    <2>1. \A r \in Req : id[r] \in Nat /\ id[r] < nextId
      BY <1>0 DEF McpTypeOK, IdsInv, Id
    <2>2. nextId' = Cardinality(Begun') + 1
      BY <1>1, <1>3 DEF IdsInv
    <2>3. \A r \in Req : (phase'[r] = "new" <=> id'[r] = 0) /\ id'[r] < nextId'
      BY <1>1, <1>3, <1>4, <1>5, <2>1 DEF IdsInv
    <2>4. \A r, t \in Req : id'[r] = id'[t] /\ id'[r] # 0 => r = t
      <3> SUFFICES ASSUME NEW r \in Req, NEW t \in Req, id'[r] = id'[t], id'[r] # 0 PROVE r = t
        OBVIOUS
      <3>1. \A s \in Req \ {q} : id'[s] # nextId
        BY <1>3, <1>5, <2>1 DEF IdsInv
      <3>2. CASE r = q \/ t = q
        BY <1>5, <3>1, <3>2
      <3>3. CASE r # q /\ t # q
        BY <1>5, <3>3 DEF IdsInv
      <3> QED BY <3>2, <3>3
    <2> QED BY <2>2, <2>3, <2>4 DEF IdsInv
  <1>8. PendingInv'
    <2>1. slot[q] = None
      BY <1>1 DEF PendingInv
    <2>2. \A i \in Id : pending'[i] # None => id'[pending'[i]] = i
      <3>1. ASSUME NEW i \in Id, pending[i] # None
            PROVE  pending[i] \in Req /\ pending[i] # q
        <4>1. i # 0
          BY <1>0 DEF Id
        <4>2. id[pending[i]] = i
          BY <3>1 DEF PendingInv
        <4> QED BY <1>5, <3>1, <4>1, <4>2 DEF McpTypeOK
      <3> QED BY <1>5, <3>1 DEF PendingInv
    <2>3. \A r \in Req : phase[r] # "new" => id[r] \in Id \ {nextId}
      BY <1>0, <1>3 DEF McpTypeOK, IdsInv
    <2>4. \A r \in Req : slot'[r] # None => phase'[r] # "new" /\ \A i \in Id : pending'[i] # r
      BY <1>1, <1>4, <1>5, <2>1 DEF PendingInv
    <2>5. \A r \in Req : phase'[r] \in InCall => slot'[r] # None \/ pending'[id'[r]] = r
      BY <1>1, <1>5, <2>3 DEF PendingInv, InCall
    <2>6. NothingLingers'
      BY <1>1, <1>4, <1>5 DEF PendingInv, NothingLingers
    <2> QED BY <2>2, <2>4, <2>5, <2>6 DEF PendingInv
  <1>9. ReplyInv'
    <2>1. \A r \in Req : id[r] # 0 => id'[r] = id[r]
      BY <1>5
    <2>2. \A m : Fine(m, id, file) => Fine(m, id', file)
      BY <2>1, FineKept
    <2> QED BY <1>1, <2>2 DEF ReplyInv, OwnReply
  <1>10. AskedInv'
    <2>1. What[q] = "status" => file[JobOf[q]] # "none"
      <3> SUFFICES ASSUME What[q] = "status" PROVE file[JobOf[q]] # "none"
        OBVIOUS
      <3>1. JobOf[q] \in Job /\ q # Hello
        BY McpAssumption
      <3>2. JobOf[q] \in Req /\ What[JobOf[q]] = "fanout"
        BY <3>1 DEF Job
      <3>3. result[JobOf[q]] \in Reply /\ result[JobOf[q]].text = "ok"
        BY <1>1, <3>1 DEF Allowed
      <3>4. Fine(result[JobOf[q]], id, file) /\ result[JobOf[q]].of = JobOf[q]
        BY <3>2, <3>3 DEF ReplyInv, OwnReply
      <3> QED BY <3>2, <3>3, <3>4 DEF Fine
    <2>2. \A r \in Req : phase[r] # "new" => phase'[r] # "new"
      BY <1>5
    <2>3. \A n \in 1..Len(stdin) : stdin'[n] \in Req => phase'[stdin'[n]] # "new"
      BY <1>1, <2>2 DEF AskedInv
    <2> QED BY <1>1, <1>5, <2>1, <2>2, <2>3 DEF AskedInv
  <1> QED BY <1>6, <1>7, <1>8, <1>9, <1>10

\* A request that has begun only moves on, and a line it finishes is its own or
\* cannot be read.
LEMMA WriteKeeps ==
    ASSUME McpInv, NEW q \in Req, StartWrite(q) \/ FinishWrite(q) \/ Drop(q) PROVE McpInv'
  <1> USE DEF McpInv
  <1>1. /\ phase[q] \in InCall
        /\ \E p \in InCall \cup {"dropped"} : phase' = [phase EXCEPT ![q] = p]
        /\ UNCHANGED <<conn, nextId, id, pending, slot, result, reader, stdout, server, serving, answered, job, file>>
    BY DEF StartWrite, FinishWrite, Drop, Go, InCall, pipes, jobs
  <1>2. /\ phase' \in [Req -> InCall \cup {"new", "done", "dropped"}]
        /\ phase'[q] \in InCall \cup {"dropped"} /\ \A r \in Req \ {q} : phase'[r] = phase[r]
    BY <1>1 DEF McpTypeOK
  <1>3. "new" \notin InCall \cup {"dropped"} /\ "done" \notin InCall \cup {"dropped"}
    BY DEF InCall
  <1>4. \A r \in Req : phase'[r] = "new" <=> phase[r] = "new"
    BY <1>1, <1>2, <1>3
  <1>5. /\ partial' \in {"none", "own", "more"} /\ stdin' \in Seq(Line) /\ Len(stdin') <= PipeCap
        /\ \A n \in 1..Len(stdin') : stdin'[n] \in Req => phase[stdin'[n]] # "new"
    <2>1. CASE stdin' = stdin /\ partial' \in {"none", "own", "more"}
      BY <2>1 DEF McpTypeOK, AskedInv
    <2>2. CASE FinishWrite(q)
      <3>1. PICK x \in {q, "garbage"} : stdin' = Append(stdin, x)
        BY <2>2 DEF FinishWrite
      <3>2. stdin \in Seq(Line) /\ x \in Line /\ Len(stdin) < PipeCap /\ PipeCap \in Nat
        BY <2>2, McpAssumption DEF FinishWrite, McpTypeOK, Line
      <3>3. stdin' \in Seq(Line) /\ Len(stdin') = Len(stdin) + 1 /\ Len(stdin) \in Nat
            /\ stdin'[Len(stdin) + 1] = x /\ \A n \in 1..Len(stdin) : stdin'[n] = stdin[n]
        BY <3>1, <3>2
      <3>4. x \in Req => phase[x] # "new"
        BY <1>1, <1>3, <3>1, McpAssumption
      <3>5. \A n \in 1..Len(stdin') : n \in 1..Len(stdin) \/ n = Len(stdin) + 1
        BY <3>3
      <3>6. \A n \in 1..Len(stdin') : stdin'[n] \in Req => phase[stdin'[n]] # "new"
        BY <3>3, <3>4, <3>5 DEF AskedInv
      <3>7. partial' = "none"
        BY <2>2 DEF FinishWrite
      <3> QED BY <3>2, <3>3, <3>6, <3>7
    <2> QED BY <2>1, <2>2 DEF StartWrite, Drop, pipes, McpTypeOK
  <1>6. McpTypeOK'
    BY <1>1, <1>2, <1>5 DEF McpTypeOK
  <1>7. IdsInv'
    BY <1>1, <1>2, <1>4, IdsKept
  <1>8. PendingInv'
    BY <1>1, <1>2, <1>3 DEF PendingInv, NothingLingers
  <1>9. ReplyInv'
    BY <1>1, RepliesKept
  <1>10. AskedInv'
    BY <1>1, <1>4, <1>5 DEF AskedInv, McpTypeOK
  <1> QED BY <1>6, <1>7, <1>8, <1>9, <1>10

\* A request that returns has left the map, with a failure or with what its
\* oneshot carried.
LEMMA ReturnKeeps ==
    ASSUME McpInv, NEW q \in Req, WriteFails(q) \/ TakeReply(q) \/ TimeOut(q) PROVE McpInv'
  <1> USE DEF McpInv
  <1>1. PICK x : /\ phase' = [phase EXCEPT ![q] = "done"] /\ result' = [result EXCEPT ![q] = x]
                 /\ x \in Failure \/ (x = slot[q] /\ slot[q] # None)
                 /\ pending' = [pending EXCEPT ![id[q]] = None] \/ (pending' = pending /\ slot[q] # None)
    BY DEF WriteFails, TakeReply, TimeOut, Forget, Returns, Go, Failure
  <1>2. /\ phase[q] \in InCall
        /\ UNCHANGED <<conn, nextId, id, slot, reader, partial, stdin, stdout, server, serving, answered, job, file>>
    BY DEF WriteFails, TakeReply, TimeOut, Forget, Returns, Go, InCall, pipes, jobs
  <1>3. phase[q] # "new" /\ id[q] \in Id
    BY <1>2 DEF InCall, IdsInv, McpTypeOK
  <1>4. /\ phase' \in [Req -> InCall \cup {"new", "done", "dropped"}]
        /\ phase'[q] = "done" /\ \A r \in Req \ {q} : phase'[r] = phase[r]
    BY <1>1 DEF McpTypeOK
  <1>5. /\ \A i \in Id : pending'[i] = pending[i] \/ (i = id[q] /\ pending'[i] = None)
        /\ pending' \in [Id -> Req \cup {None}]
    BY <1>1, <1>3 DEF McpTypeOK
  <1>6. x \in Reply \cup Failure \cup {None} /\ (x \in Reply => x = slot[q])
    <2>1. Failure \cap Reply = {} /\ Closed \in Failure
      BY McpAssumption DEF Failure
    <2> QED BY <1>1, <2>1 DEF McpTypeOK
  <1>7. /\ result' \in [Req -> Reply \cup Failure \cup {None}] /\ result'[q] = x
        /\ \A r \in Req \ {q} : result'[r] = result[r]
    BY <1>1, <1>6 DEF McpTypeOK
  <1>8. McpTypeOK'
    BY <1>2, <1>4, <1>5, <1>7 DEF McpTypeOK
  <1>9. IdsInv'
    BY <1>2, <1>3, <1>4, IdsKept
  <1>10. PendingInv'
    <2>1. \A i \in Id : pending'[i] # q
      <3>1. CASE slot[q] # None
        BY <1>5, <3>1, McpAssumption DEF PendingInv
      <3>2. CASE slot[q] = None
        <4>1. pending' = [pending EXCEPT ![id[q]] = None]
          BY <1>1, <3>2
        <4>2. \A i \in Id : pending[i] = q => i = id[q]
          BY McpAssumption DEF PendingInv
        <4> QED BY <1>3, <4>1, <4>2, McpAssumption DEF McpTypeOK
      <3> QED BY <3>1, <3>2
    <2>2. \A r \in Req \ {q} : phase[r] \in InCall => id[r] \in Id /\ id[r] # id[q]
      BY <1>3 DEF IdsInv, InCall, McpTypeOK
    <2>3. \A r \in Req : phase'[r] \in InCall => slot'[r] # None \/ pending'[id'[r]] = r
      BY <1>2, <1>4, <1>5, <2>2 DEF PendingInv, InCall
    <2>4. NothingLingers'
      BY <1>4, <1>5, <2>1, McpAssumption DEF PendingInv, NothingLingers
    <2>5. \A i \in Id : pending'[i] # None => id'[pending'[i]] = i
      BY <1>2, <1>5 DEF PendingInv
    <2>6. \A r \in Req : slot'[r] # None => phase'[r] # "new" /\ \A i \in Id : pending'[i] # r
      BY <1>2, <1>4, <1>5, McpAssumption DEF PendingInv
    <2> QED BY <2>3, <2>4, <2>5, <2>6 DEF PendingInv
  <1>11. ReplyInv'
    <2>1. x \in Reply => Fine(x, id, file) /\ x.of = q
      BY <1>6 DEF ReplyInv
    <2>2. Fine(x, id, file)
      BY <2>1 DEF Fine
    <2> QED BY <1>2, <1>7, <2>1, <2>2 DEF ReplyInv, OwnReply
  <1>12. AskedInv'
    BY <1>2, <1>3, <1>4 DEF AskedInv, McpTypeOK
  <1> QED BY <1>8, <1>9, <1>10, <1>11, <1>12

-----------------------------------------------------------------------------
(* The connection and the reader.                                          *)

\* A record that is there stays there.
RecordsKept == \A j \in Job : file[j] # "none" => file'[j] # "none"

\* A step that only adds a line nobody answers to the server's input, or ends the
\* server, keeps the invariant.
LEMMA ConnectKeeps ==
    ASSUME McpInv, Connect \/ ConnectFails \/ ServerEnds \/ Hang PROVE McpInv'
  <1> USE DEF McpInv
  <1>1. UNCHANGED <<phase, nextId, id, pending, slot, result, reader, partial, stdout, answered, file>>
    BY DEF Connect, ConnectFails, ServerEnds, Hang, client, pipes, jobs
  <1>2. /\ stdin' \in Seq(Line) /\ Len(stdin') <= PipeCap
        /\ \A n \in 1..Len(stdin') : stdin'[n] \in Req => phase[stdin'[n]] # "new"
    <2>1. CASE stdin' = stdin
      BY <2>1 DEF McpTypeOK, AskedInv
    <2>2. CASE Connect
      <3>1. stdin' = Append(stdin, "note") /\ Len(stdin) < PipeCap
        BY <2>2 DEF Connect
      <3>2. stdin \in Seq(Line) /\ "note" \in Line /\ "note" \notin Req /\ PipeCap \in Nat
        BY McpAssumption DEF McpTypeOK, Line
      <3>3. stdin' \in Seq(Line) /\ Len(stdin') = Len(stdin) + 1 /\ Len(stdin) \in Nat
            /\ stdin'[Len(stdin) + 1] = "note" /\ \A n \in 1..Len(stdin) : stdin'[n] = stdin[n]
        BY <3>1, <3>2
      <3>4. \A n \in 1..Len(stdin') : n \in 1..Len(stdin) \/ n = Len(stdin) + 1
        BY <3>3
      <3> QED BY <3>1, <3>2, <3>3, <3>4 DEF AskedInv
    <2> QED BY <2>1, <2>2 DEF ConnectFails, ServerEnds, Hang, pipes
  <1>3. /\ conn' \in {"shaking", "open", "failed"}
        /\ server' \in {"reading", "serving", "hung", "gone"}
        /\ job' \in [Job -> {"none", "queued", "starting", "running", "saving", "ended", "dead"}]
    BY DEF Connect, ConnectFails, ServerEnds, Hang, client, jobs, McpTypeOK
  <1>4. /\ serving' = serving \/ serving' = None
        /\ server' = "serving" => serving' = serving /\ server = "serving"
    BY DEF Connect, ConnectFails, ServerEnds, Hang
  <1>5. McpTypeOK'
    BY <1>1, <1>2, <1>3, <1>4 DEF McpTypeOK
  <1>6. IdsInv'
    BY <1>1, IdsKept DEF McpTypeOK
  <1>7. PendingInv'
    BY <1>1 DEF PendingInv, NothingLingers
  <1>8. ReplyInv'
    BY <1>1, RepliesKept
  <1>9. AskedInv'
    BY <1>1, <1>2, <1>4, McpAssumption DEF AskedInv
  <1> QED BY <1>5, <1>6, <1>7, <1>8, <1>9

\* The reader hands a reply to the request under its id, which is the one it is to.
LEMMA RouteKeeps ==
    ASSUME McpInv, Route PROVE McpInv'
  <1> USE DEF McpInv
  <1> DEFINE m == Head(stdout)
  <1>1. /\ stdout # <<>> /\ stdout' = Tail(stdout)
        /\ UNCHANGED <<conn, phase, nextId, id, result, reader, partial, stdin, server, serving, answered, job, file>>
    BY DEF Route, jobs
  <1>2. /\ m \in Reply \cup {None} /\ m = stdout[1] /\ 1 \in 1..Len(stdout)
        /\ stdout' \in Seq(Reply \cup {None}) /\ Len(stdout') <= PipeCap
        /\ \A n \in 1..Len(stdout') : n + 1 \in 1..Len(stdout) /\ stdout'[n] = stdout[n + 1]
    <2>1. stdout \in Seq(Reply \cup {None}) /\ PipeCap \in Nat /\ Len(stdout) <= PipeCap
      BY McpAssumption DEF McpTypeOK
    <2>2. Len(stdout) \in Nat \ {0}
      BY <1>1, <2>1, EmptySeq
    <2> QED BY <1>1, <2>1, <2>2, HeadTailProperties
  <1>3. Fine(m, id, file)
    BY <1>2 DEF ReplyInv
  <1>4. \A n \in 1..Len(stdout') : Fine(stdout'[n], id', file')
    BY <1>1, <1>2 DEF ReplyInv
  <1>5. IdsInv'
    BY <1>1, IdsKept DEF McpTypeOK
  <1>6. AskedInv'
    BY <1>1 DEF AskedInv
  <1>7. CASE m = None \/ pending[m.id] = None
    <2>1. slot' = slot /\ pending' = pending
      BY <1>7 DEF Route
    <2>2. McpTypeOK'
      BY <1>1, <1>2, <2>1 DEF McpTypeOK
    <2>3. PendingInv' /\ ReplyInv'
      BY <1>1, <1>4, <2>1 DEF PendingInv, NothingLingers, ReplyInv, OwnReply
    <2> QED BY <1>5, <1>6, <2>2, <2>3
  <1>8. CASE m # None /\ pending[m.id] # None
    <2> DEFINE q == pending[m.id]
    <2>1. slot' = [slot EXCEPT ![q] = m] /\ pending' = [pending EXCEPT ![m.id] = None]
      BY <1>8 DEF Route
    <2>2. m \in Reply /\ m.of \in Req /\ m.id \in Id
      BY <1>2, <1>8 DEF Reply
    <2>3. q \in Req /\ id[q] = m.id /\ id[m.of] = m.id
      BY <1>3, <1>8, <2>2 DEF McpTypeOK, PendingInv, Fine
    <2>4. m.id # 0
      BY <2>2, FS_CardinalityType, McpAssumption DEF Id
    <2>5. q = m.of /\ phase[q] # "new"
      BY <2>2, <2>3, <2>4 DEF IdsInv
    <2>6. /\ slot'[q] = m /\ \A r \in Req \ {q} : slot'[r] = slot[r]
          /\ slot' \in [Req -> Reply \cup {Closed, None}]
      BY <2>1, <2>2, <2>3 DEF McpTypeOK
    <2>7. /\ pending'[m.id] = None /\ \A i \in Id \ {m.id} : pending'[i] = pending[i]
          /\ pending' \in [Id -> Req \cup {None}]
      BY <2>1, <2>2 DEF McpTypeOK
    <2>8. McpTypeOK'
      BY <1>1, <1>2, <2>6, <2>7 DEF McpTypeOK
    <2>9. PendingInv'
      <3>1. \A i \in Id \ {m.id} : pending[i] # q
        BY <2>3, <2>5, McpAssumption DEF PendingInv
      <3>2. \A i \in Id : pending'[i] # q /\ (pending'[i] # None => pending'[i] = pending[i])
        BY <2>3, <2>7, <3>1, McpAssumption
      <3>3. \A r \in Req \ {q} : phase[r] # "new" => id[r] \in Id /\ id[r] # m.id
        BY <2>3, <2>4 DEF IdsInv, McpTypeOK
      <3>4. \A r \in Req : phase'[r] \in InCall => slot'[r] # None \/ pending'[id'[r]] = r
        BY <1>1, <1>8, <2>6, <2>7, <3>3 DEF PendingInv, InCall
      <3>5. \A i \in Id : pending'[i] # None => id'[pending'[i]] = i
        BY <1>1, <3>2 DEF PendingInv
      <3>6. \A r \in Req : slot'[r] # None => phase'[r] # "new" /\ \A i \in Id : pending'[i] # r
        BY <1>1, <2>5, <2>6, <3>2, McpAssumption DEF PendingInv
      <3>7. NothingLingers'
        BY <1>1, <2>7, McpAssumption DEF PendingInv, NothingLingers
      <3> QED BY <3>4, <3>5, <3>6, <3>7 DEF PendingInv
    <2>10. ReplyInv'
      BY <1>1, <1>3, <1>4, <2>5, <2>6 DEF ReplyInv, OwnReply
    <2> QED BY <1>5, <1>6, <2>8, <2>9, <2>10
  <1> QED BY <1>7, <1>8

\* At the end of the output whoever waits is told, and the map is empty.
LEMMA ReaderEndsKeeps ==
    ASSUME McpInv, ReaderEnds PROVE McpInv'
  <1> USE DEF McpInv
  <1>1. /\ reader' = FALSE
        /\ slot' = [q \in Req |-> IF \E i \in Id : pending[i] = q THEN Closed ELSE slot[q]]
        /\ pending' = [i \in Id |-> None]
        /\ UNCHANGED <<conn, phase, nextId, id, result, partial, stdin, stdout, server, serving, answered, job, file>>
    BY DEF ReaderEnds, pipes, jobs
  <1>2. McpTypeOK'
    BY <1>1 DEF McpTypeOK
  <1>3. IdsInv' /\ AskedInv'
    BY <1>1, IdsKept DEF McpTypeOK, AskedInv
  <1>4. PendingInv'
    <2>1. \A i \in Id : pending[i] \in Req => phase[pending[i]] # "new"
      <3> SUFFICES ASSUME NEW i \in Id, pending[i] \in Req PROVE phase[pending[i]] # "new"
        OBVIOUS
      <3>1. i # 0
        BY FS_CardinalityType, McpAssumption DEF Id
      <3>2. id[pending[i]] = i
        BY McpAssumption DEF PendingInv
      <3> QED BY <3>1, <3>2 DEF IdsInv
    <2>2. Closed # None
      BY McpAssumption DEF Failure
    <2>3. \A q \in Req : phase[q] \in InCall => slot'[q] # None
      BY <1>1, <2>2 DEF PendingInv, InCall, IdsInv, McpTypeOK
    <2>4. \A q \in Req : slot'[q] # None => phase[q] # "new"
      BY <1>1, <2>1 DEF PendingInv
    <2> QED BY <1>1, <2>3, <2>4, McpAssumption DEF PendingInv, NothingLingers
  <1>5. ReplyInv'
    <2>1. Closed \notin Reply
      BY McpAssumption DEF Failure
    <2>2. Fine(Closed, id, file)
      BY <2>1 DEF Fine
    <2> QED BY <1>1, <2>1, <2>2 DEF ReplyInv, OwnReply
  <1> QED BY <1>2, <1>3, <1>4, <1>5

-----------------------------------------------------------------------------
(* The server.                                                             *)

\* A step that appends a fine reply to the output keeps what is said of replies.
LEMMA AppendFine ==
    ASSUME McpTypeOK, ReplyInv, Len(stdout) < PipeCap, NEW m \in Reply \cup {None},
           stdout' = Append(stdout, m), UNCHANGED <<id, slot, result>>, RecordsKept,
           Fine(m, id', file')
    PROVE  /\ ReplyInv'
           /\ stdout' \in Seq(Reply \cup {None}) /\ Len(stdout') <= PipeCap
  <1>1. stdout \in Seq(Reply \cup {None}) /\ PipeCap \in Nat
    BY McpAssumption DEF McpTypeOK
  <1>2. /\ stdout' \in Seq(Reply \cup {None}) /\ Len(stdout') = Len(stdout) + 1 /\ Len(stdout) \in Nat
        /\ stdout'[Len(stdout) + 1] = m /\ \A n \in 1..Len(stdout) : stdout'[n] = stdout[n]
    BY <1>1
  <1>3. \A n \in 1..Len(stdout') : n \in 1..Len(stdout) \/ n = Len(stdout) + 1
    BY <1>2
  <1>4. \A x : Fine(x, id, file) => Fine(x, id', file')
    BY FineKept DEF RecordsKept
  <1>5. \A n \in 1..Len(stdout') : Fine(stdout'[n], id', file')
    BY <1>2, <1>3, <1>4 DEF ReplyInv
  <1> QED BY <1>1, <1>2, <1>4, <1>5 DEF ReplyInv, OwnReply

\* A line is taken off the server's input.
LEMMA ReadLineKeeps ==
    ASSUME McpInv, ReadLine PROVE McpInv'
  <1> USE DEF McpInv
  <1> DEFINE line == Head(stdin)
  <1>1. /\ server = "reading" /\ stdin # <<>> /\ stdin' = Tail(stdin)
        /\ UNCHANGED <<conn, phase, nextId, id, pending, slot, result, reader, partial, answered, job, file>>
    BY DEF ReadLine, client, jobs
  <1>2. /\ line = stdin[1] /\ 1 \in 1..Len(stdin)
        /\ stdin' \in Seq(Line) /\ Len(stdin') <= PipeCap
        /\ \A n \in 1..Len(stdin') : n + 1 \in 1..Len(stdin) /\ stdin'[n] = stdin[n + 1]
    <2>1. stdin \in Seq(Line) /\ PipeCap \in Nat /\ Len(stdin) <= PipeCap
      BY McpAssumption DEF McpTypeOK
    <2>2. Len(stdin) \in Nat \ {0}
      BY <1>1, <2>1, EmptySeq
    <2> QED BY <1>1, <2>1, <2>2, HeadTailProperties
  <1>3. /\ server' \in {"reading", "serving"} /\ serving' \in Req \cup {None}
        /\ serving' = serving \/ (serving' = line /\ line \in Req)
        /\ server' = "serving" => serving' \in Req
    BY <1>1 DEF ReadLine, McpTypeOK
  <1>4. IdsInv' /\ PendingInv'
    BY <1>1, IdsKept DEF McpTypeOK, PendingInv, NothingLingers
  <1>5. AskedInv'
    BY <1>1, <1>2, <1>3 DEF AskedInv
  <1>6. ReplyInv' /\ stdout' \in Seq(Reply \cup {None}) /\ Len(stdout') <= PipeCap
    <2>1. CASE stdout' = stdout
      BY <1>1, <2>1, RepliesKept DEF McpTypeOK
    <2>2. CASE stdout' = Append(stdout, None) /\ Len(stdout) < PipeCap
      <3>1. Fine(None, id', file')
        BY McpAssumption DEF Fine
      <3> QED BY <1>1, <2>2, <3>1, AppendFine DEF RecordsKept
    <2> QED BY <2>1, <2>2 DEF ReadLine
  <1>7. McpTypeOK'
    BY <1>1, <1>2, <1>3, <1>6 DEF McpTypeOK
  <1> QED BY <1>4, <1>5, <1>6, <1>7

\* An answer is to the request being served, under its id; that a fan-out was
\* accepted is said once it is recorded.
LEMMA ServeKeeps ==
    ASSUME McpInv, Serve PROVE McpInv'
  <1> USE DEF McpInv
  <1>1. server = "serving" /\ serving \in Req /\ phase[serving] # "new"
    BY DEF Serve, ServeSimple, ServeFanout, ServeStatus, AskedInv
  <1>2. id[serving] \in Id
    BY <1>1 DEF IdsInv, McpTypeOK
  <1>3. PICK text : Respond(text) /\ text \in Text
          /\ (What[serving] = "fanout" /\ text = "ok" => file'[serving] # "none")
          /\ (What[serving] = "status" => text # "not_found")
    <2>1. CASE ServeSimple
      BY <2>1 DEF ServeSimple, Text
    <2>2. CASE ServeFanout
      <3>1. serving \in Job
        BY <1>1, <2>2 DEF ServeFanout, Job
      <3> QED BY <2>2, <3>1 DEF ServeFanout, Text, McpTypeOK
    <2>3. CASE ServeStatus
      <3> DEFINE f == file[JobOf[serving]]
      <3>1. What[serving] = "status" /\ JobOf[serving] \in Job /\ f # "none"
        BY <1>1, <2>3, McpAssumption DEF ServeStatus, AskedInv
      <3>2. f \in Record \cup {"torn"}
        BY <3>1 DEF McpTypeOK
      <3>3. Respond(IF f = "torn" THEN "failed" ELSE f)
        BY <2>3, <3>1 DEF ServeStatus
      <3>4. (IF f = "torn" THEN "failed" ELSE f) \in Text \ {"not_found"}
        BY <3>2 DEF Text, Record
      <3> QED BY <3>1, <3>3, <3>4
    <2> QED BY <2>1, <2>2, <2>3 DEF Serve
  <1> DEFINE m == [id |-> id[serving], of |-> serving, text |-> text]
  <1>4. /\ Len(stdout) < PipeCap /\ stdout' = Append(stdout, m)
        /\ server' = "reading" /\ serving' = None
        /\ UNCHANGED <<conn, phase, nextId, id, pending, slot, result, reader, partial, stdin>>
    BY <1>3 DEF Respond, client
  <1>5. /\ job' \in [Job -> {"none", "queued", "starting", "running", "saving", "ended", "dead"}]
        /\ file' \in [Job -> Record \cup {"none", "torn"}] /\ RecordsKept
    BY DEF Serve, ServeSimple, ServeFanout, ServeStatus, jobs, McpTypeOK, RecordsKept, Record
  <1>6. m \in Reply /\ Fine(m, id', file')
    BY <1>1, <1>2, <1>3, <1>4 DEF Reply, Fine
  <1>7. ReplyInv' /\ stdout' \in Seq(Reply \cup {None}) /\ Len(stdout') <= PipeCap
    BY <1>4, <1>5, <1>6, AppendFine
  <1>8. McpTypeOK'
    <2>1. answered' \in [Req -> {{}} \cup {{t} : t \in Text}]
      BY <1>1, <1>3 DEF Respond, McpTypeOK
    <2> QED BY <1>4, <1>5, <1>7, <2>1 DEF McpTypeOK
  <1>9. IdsInv' /\ PendingInv'
    BY <1>4, IdsKept DEF McpTypeOK, PendingInv, NothingLingers
  <1>10. AskedInv'
    <2>1. \A q \in Req : What[q] = "status" => JobOf[q] \in Job
      BY McpAssumption
    <2> QED BY <1>4, <1>5, <2>1, McpAssumption DEF AskedInv, RecordsKept
  <1> QED BY <1>7, <1>8, <1>9, <1>10

\* A job's task rewrites its record, and never removes it.
LEMMA JobKeeps ==
    ASSUME McpInv, NEW j \in Job, JobTask(j) PROVE McpInv'
  <1> USE DEF McpInv
  <1>1. UNCHANGED <<conn, phase, nextId, id, pending, slot, result, reader, partial, stdin, stdout,
                    server, serving, answered>>
    BY DEF JobTask, StartJob, RunJob, EndJob, SaveJob, client, pipes
  <1>2. /\ job' \in [Job -> {"none", "queued", "starting", "running", "saving", "ended", "dead"}]
        /\ file' \in [Job -> Record \cup {"none", "torn"}] /\ RecordsKept
    BY DEF JobTask, StartJob, RunJob, EndJob, SaveJob, JobStep, McpTypeOK, RecordsKept, Record
  <1>3. McpTypeOK'
    BY <1>1, <1>2 DEF McpTypeOK
  <1>4. IdsInv' /\ PendingInv'
    BY <1>1, IdsKept DEF McpTypeOK, PendingInv, NothingLingers
  <1>5. ReplyInv'
    BY <1>1, <1>2, RepliesKept DEF RecordsKept
  <1>6. AskedInv'
    BY <1>1, <1>2, McpAssumption DEF AskedInv, RecordsKept
  <1> QED BY <1>3, <1>4, <1>5, <1>6

-----------------------------------------------------------------------------
\* Every step keeps the invariant.
LEMMA McpStep == McpInv /\ [Next]_mcpVars => McpInv'
  <1> SUFFICES ASSUME McpInv, [Next]_mcpVars PROVE McpInv'
    OBVIOUS
  <1>1. CASE \E q \in Req : Begin(q)
    BY <1>1, BeginKeeps
  <1>2. CASE \E q \in Req : StartWrite(q) \/ FinishWrite(q) \/ Drop(q)
    BY <1>2, WriteKeeps
  <1>3. CASE \E q \in Req : WriteFails(q) \/ TakeReply(q) \/ TimeOut(q)
    BY <1>3, ReturnKeeps
  <1>4. CASE Connect \/ ConnectFails \/ ServerEnds \/ Hang
    BY <1>4, ConnectKeeps
  <1>5. CASE Route \/ ReaderEnds
    BY <1>5, RouteKeeps, ReaderEndsKeeps
  <1>6. CASE ReadLine \/ Serve
    BY <1>6, ReadLineKeeps, ServeKeeps
  <1>7. CASE \E j \in Job : JobTask(j)
    BY <1>7, JobKeeps
  <1>8. CASE UNCHANGED mcpVars
    BY <1>8 DEF mcpVars, client, pipes, jobs, McpInv, McpTypeOK, IdsInv, Begun, PendingInv,
                NothingLingers, ReplyInv, OwnReply, AskedInv
  <1> QED BY <1>1, <1>2, <1>3, <1>4, <1>5, <1>6, <1>7, <1>8 DEF Next, Calls

\* The inductive invariant holds in every reachable state: ids, the map, the
\* replies on their way and the jobs' records together.
THEOREM McpInvariant == Spec => []McpInv
  BY McpInitOK, McpStep, PTL DEF Spec

\* McpTypeOK holds for any requests and any capacity of the pipes.
THEOREM McpTypes == Spec => []McpTypeOK
  <1>1. McpInv => McpTypeOK
    BY DEF McpInv
  <1> QED BY <1>1, McpInvariant, PTL

\* OwnReply: whatever is late, lost, glued together or dropped, request returns
\* the reply to itself (crates/mcp/src/lib.rs, reader_loop).
THEOREM McpOwnReply == Spec => []OwnReply
  <1>1. McpInv => OwnReply
    BY DEF McpInv, ReplyInv
  <1> QED BY <1>1, McpInvariant, PTL

\* WaitingIsRoutable: a request that waits can be answered.
THEOREM McpRoutable == Spec => []WaitingIsRoutable
  <1>1. McpInv => WaitingIsRoutable
    BY DEF McpInv, PendingInv, WaitingIsRoutable, InCall
  <1> QED BY <1>1, McpInvariant, PTL

\* NothingLingers: a request that returned has no entry in the map.
THEOREM McpNothingLingers == Spec => []NothingLingers
  <1>1. McpInv => NothingLingers
    BY DEF McpInv, PendingInv
  <1> QED BY <1>1, McpInvariant, PTL

\* JobIsFound: entheai_job_status finds every job whose id it was given out.
THEOREM McpJobIsFound == Spec => []JobIsFound
  <1>1. McpInv => JobIsFound
    BY DEF McpInv, ReplyInv, Fine, OwnReply, JobIsFound
  <1> QED BY <1>1, McpInvariant, PTL
-----------------------------------------------------------------------------
(* A request is a remote call: RemoteCall.                                 *)

\* What was sent and is still to be answered.
Unanswered ==
    {q \in Req : phase[q] \in {"awaiting", "done", "dropped"} /\ answered[q] = {}}

\* A request is in the server's input or in its hands, once, or it is neither;
\* once it was answered, or before it was sent, it is neither.
OnceInv ==
    /\ \A m, n \in 1..Len(stdin) : stdin[m] \in Req /\ stdin[m] = stdin[n] => m = n
    /\ \A n \in 1..Len(stdin) : stdin[n] \in Req => stdin[n] \in Unanswered /\ stdin[n] # serving
    /\ serving \in Req => serving \in Unanswered
    /\ \A q \in Req : phase[q] \in {"new", "inserted", "writing"} => answered[q] = {}

\* A reply, wherever it is, says what the server answered to its request.
Says(m, to) == m \in Reply => to[m.of] = {m.text}

ToldInv ==
    /\ \A n \in 1..Len(stdout) : Says(stdout[n], answered)
    /\ \A q \in Req : Says(slot[q], answered) /\ Says(result[q], answered)
    /\ \A q \in Req : result[q] # None => phase[q] = "done"

CallInv == OnceInv /\ ToldInv

\* A line that is appended, taken or left keeps the requests in the input apart.
LEMMA OneLineMore ==
    ASSUME McpTypeOK, NEW x \in Line, stdin' = Append(stdin, x)
    PROVE  /\ Len(stdin) \in Nat /\ Len(stdin') = Len(stdin) + 1
           /\ stdin'[Len(stdin) + 1] = x
           /\ \A n \in 1..Len(stdin) : stdin'[n] = stdin[n]
           /\ \A n \in 1..Len(stdin') : n \in 1..Len(stdin) \/ n = Len(stdin) + 1
  <1>1. stdin \in Seq(Line)
    BY DEF McpTypeOK
  <1>2. /\ Len(stdin) \in Nat /\ Len(stdin') = Len(stdin) + 1
        /\ stdin'[Len(stdin) + 1] = x /\ \A n \in 1..Len(stdin) : stdin'[n] = stdin[n]
    BY <1>1
  <1> QED BY <1>2

\* Initially nothing was sent.
LEMMA CallInit == Init => CallInv
  <1>1. None \notin Req \cup Reply
    BY McpAssumption
  <1> QED BY <1>1 DEF Init, CallInv, OnceInv, ToldInv, Says

\* A step of a caller: only FinishWrite sends, and only what was not sent yet.
LEMMA CallsKeepOnce ==
    ASSUME McpInv, CallInv, NEW q \in Req, Calls(q)
    PROVE  CallInv'
  <1> USE DEF CallInv, McpInv
  <1>1. /\ \E p \in InCall \cup {"done", "dropped"} : phase' = [phase EXCEPT ![q] = p]
        /\ UNCHANGED <<slot, stdout, serving, answered>>
    BY DEF Calls, Begin, StartWrite, FinishWrite, WriteFails, TakeReply, TimeOut, Drop, Go,
           Returns, InCall, client, pipes
  <1>2. /\ \A r \in Req \ {q} : phase'[r] = phase[r]
        /\ phase'[q] \in InCall \cup {"done", "dropped"}
    BY <1>1 DEF McpTypeOK
  <1>3. q \in Unanswered => phase'[q] \in {"awaiting", "done", "dropped"}
    BY DEF Calls, Begin, StartWrite, FinishWrite, WriteFails, TakeReply, TimeOut, Drop, Go,
           Returns, InCall, Unanswered, McpTypeOK
  <1>4. Unanswered \subseteq Unanswered'
    BY <1>1, <1>2, <1>3 DEF Unanswered
  <1>5. \A r \in Req : phase'[r] \in {"new", "inserted", "writing"} => answered'[r] = {}
    <2>1. phase'[q] \in {"new", "inserted", "writing"}
            => phase[q] \in {"new", "inserted", "writing"}
      BY DEF Calls, Begin, StartWrite, FinishWrite, WriteFails, TakeReply, TimeOut, Drop, Go,
             Returns, McpTypeOK
    <2> QED BY <1>1, <1>2, <2>1 DEF OnceInv
  <1>6. serving' \in Req => serving' \in Unanswered'
    BY <1>1, <1>4 DEF OnceInv
  <1>7. OnceInv'
    <2>1. CASE stdin' = stdin
      BY <1>1, <1>4, <1>5, <1>6, <2>1 DEF OnceInv, McpTypeOK
    <2>2. CASE FinishWrite(q)
      <3>1. PICK x \in {q, "garbage"} : stdin' = Append(stdin, x)
        BY <2>2 DEF FinishWrite
      <3>2. phase[q] = "writing" /\ x \in Line
        BY <2>2, <3>1 DEF FinishWrite, Line
      <3>3. /\ Len(stdin) \in Nat /\ stdin'[Len(stdin) + 1] = x
            /\ \A n \in 1..Len(stdin) : stdin'[n] = stdin[n]
            /\ \A n \in 1..Len(stdin') : n \in 1..Len(stdin) \/ n = Len(stdin) + 1
        BY <3>1, <3>2, OneLineMore
      <3>4. answered[q] = {} /\ serving # q /\ \A n \in 1..Len(stdin) : stdin[n] # q
        BY <3>2, McpAssumption DEF OnceInv, Unanswered
      <3>5. q \in Unanswered'
        BY <1>1, <2>2, <3>4 DEF Unanswered, FinishWrite, Go, McpTypeOK
      <3>6. x \in Req => x = q
        BY <3>1, McpAssumption
      <3>7. \A m, n \in 1..Len(stdin') : stdin'[m] \in Req /\ stdin'[m] = stdin'[n] => m = n
        BY <3>3, <3>4, <3>6 DEF OnceInv
      <3>8. \A n \in 1..Len(stdin') : stdin'[n] \in Req => stdin'[n] \in Unanswered' /\ stdin'[n] # serving'
        BY <1>1, <1>4, <3>3, <3>4, <3>5, <3>6 DEF OnceInv
      <3> QED BY <1>5, <1>6, <3>7, <3>8 DEF OnceInv
    <2> QED BY <2>1, <2>2 DEF Calls, Begin, StartWrite, WriteFails, TakeReply, TimeOut, Drop,
                              pipes
  <1>8. ToldInv'
    <2>1. CASE UNCHANGED result
      <3>1. result[q] = None \/ phase'[q] = "done"
        BY <2>1, McpAssumption DEF ToldInv, Calls, Begin, StartWrite, FinishWrite, WriteFails,
           TakeReply, TimeOut, Drop, Go, Returns, InCall
      <3> QED BY <1>1, <1>2, <2>1, <3>1 DEF ToldInv
    <2>2. CASE WriteFails(q) \/ TakeReply(q) \/ TimeOut(q)
      <3>1. PICK x \in Failure \cup {slot[q]} : result' = [result EXCEPT ![q] = x]
        BY <2>2 DEF WriteFails, TakeReply, TimeOut, Returns, Failure
      <3>2. phase'[q] = "done"
        BY <2>2 DEF WriteFails, TakeReply, TimeOut, Returns, Go, McpTypeOK
      <3>3. Says(x, answered)
        BY <3>1, McpAssumption DEF ToldInv, Says
      <3> QED BY <1>1, <1>2, <3>1, <3>2, <3>3 DEF ToldInv, McpTypeOK
    <2> QED BY <2>1, <2>2 DEF Calls, Begin, StartWrite, FinishWrite, Drop
  <1> QED BY <1>7, <1>8

\* The connection and the reader move lines and replies on; none is sent twice.
LEMMA PipesKeepOnce ==
    ASSUME McpInv, CallInv,
           Connect \/ ConnectFails \/ ServerEnds \/ Hang \/ Route \/ ReaderEnds
               \/ \E j \in Job : JobTask(j)
    PROVE  CallInv'
  <1> USE DEF CallInv, McpInv
  <1>1. UNCHANGED <<phase, result, answered>>
    BY DEF Connect, ConnectFails, ServerEnds, Hang, Route, ReaderEnds, JobTask, StartJob,
           RunJob, EndJob, SaveJob, client
  <1>2. Unanswered' = Unanswered
    BY <1>1 DEF Unanswered
  <1>3. serving' = serving \/ serving' = None
    BY DEF Connect, ConnectFails, ServerEnds, Hang, Route, ReaderEnds, JobTask, StartJob,
           RunJob, EndJob, SaveJob
  <1>4. None \notin Req
    BY McpAssumption
  <1>5. OnceInv'
    <2>1. CASE stdin' = stdin
      BY <1>1, <1>2, <1>3, <1>4, <2>1 DEF OnceInv
    <2>2. CASE stdin' = Append(stdin, "note") /\ serving' = serving
      <3>1. "note" \in Line /\ "note" \notin Req
        BY McpAssumption DEF Line
      <3>2. /\ Len(stdin) \in Nat /\ stdin'[Len(stdin) + 1] = "note"
            /\ \A n \in 1..Len(stdin) : stdin'[n] = stdin[n]
            /\ \A n \in 1..Len(stdin') : n \in 1..Len(stdin) \/ n = Len(stdin) + 1
        BY <2>2, <3>1, OneLineMore
      <3>3. \A n \in 1..Len(stdin') : stdin'[n] \in Req => n \in 1..Len(stdin)
        BY <3>1, <3>2
      <3> QED BY <1>1, <1>2, <2>2, <3>2, <3>3 DEF OnceInv
    <2> QED BY <2>1, <2>2 DEF Connect, ConnectFails, ServerEnds, Hang, Route, ReaderEnds,
               JobTask, StartJob, RunJob, EndJob, SaveJob, pipes
  <1>6. /\ \A n \in 1..Len(stdout') : Says(stdout'[n], answered)
        /\ \A q \in Req : Says(slot'[q], answered)
    <2>1. CASE Route
      <3> DEFINE m == Head(stdout)
      <3>1. /\ m = stdout[1] /\ 1 \in 1..Len(stdout)
            /\ \A n \in 1..Len(stdout') : n + 1 \in 1..Len(stdout) /\ stdout'[n] = stdout[n + 1]
        <4>1. stdout \in Seq(Reply \cup {None}) /\ stdout # <<>> /\ stdout' = Tail(stdout)
          BY <2>1 DEF Route, McpTypeOK
        <4>2. Len(stdout) \in Nat \ {0}
          BY <4>1, EmptySeq
        <4> QED BY <4>1, <4>2, HeadTailProperties
      <3>2. Says(m, answered)
        BY <3>1 DEF ToldInv
      <3>3. \A q \in Req : slot'[q] = slot[q] \/ slot'[q] = m
        BY <2>1 DEF Route, McpTypeOK
      <3> QED BY <3>1, <3>2, <3>3 DEF ToldInv
    <2>2. CASE ReaderEnds
      <3>1. stdout' = stdout /\ \A q \in Req : slot'[q] \in {slot[q], Closed}
        BY <2>2 DEF ReaderEnds, pipes
      <3>2. Closed \notin Reply
        BY McpAssumption DEF Failure
      <3> QED BY <3>1, <3>2 DEF ToldInv, Says
    <2>3. CASE UNCHANGED <<slot, stdout>>
      BY <2>3 DEF ToldInv
    <2> QED BY <2>1, <2>2, <2>3 DEF Connect, ConnectFails, ServerEnds, Hang, JobTask,
               StartJob, RunJob, EndJob, SaveJob, client, pipes
  <1>7. ToldInv'
    BY <1>1, <1>6 DEF ToldInv
  <1> QED BY <1>5, <1>7

\* The server takes a request out of its input, and answers the one it took.
LEMMA ServerKeepsOnce ==
    ASSUME McpInv, CallInv, ReadLine \/ Serve
    PROVE  CallInv'
  <1> USE DEF CallInv, McpInv
  <1>1. UNCHANGED <<phase, slot, result>>
    BY DEF ReadLine, Serve, ServeSimple, ServeFanout, ServeStatus, Respond, client
  <1>2. CASE ReadLine
    <2> DEFINE line == Head(stdin)
    <2>1. /\ line = stdin[1] /\ 1 \in 1..Len(stdin) /\ Len(stdin) \in Nat
          /\ \A n \in 1..Len(stdin') : n + 1 \in 1..Len(stdin) /\ stdin'[n] = stdin[n + 1]
                                       /\ n + 1 # 1 /\ n \in Nat
      <3>1. stdin \in Seq(Line) /\ stdin # <<>> /\ stdin' = Tail(stdin)
        BY <1>2 DEF ReadLine, McpTypeOK
      <3>2. Len(stdin) \in Nat \ {0}
        BY <3>1, EmptySeq
      <3> QED BY <3>1, <3>2, HeadTailProperties
    <2>2. answered' = answered /\ (serving' = serving \/ (serving' = line /\ line \in Req))
      BY <1>2 DEF ReadLine
    <2>3. Unanswered' = Unanswered
      BY <1>1, <2>2 DEF Unanswered
    <2>4. \A m, n \in 1..Len(stdin') : stdin'[m] \in Req /\ stdin'[m] = stdin'[n] => m = n
      <3> SUFFICES ASSUME NEW m \in 1..Len(stdin'), NEW n \in 1..Len(stdin'),
                          stdin'[m] \in Req, stdin'[m] = stdin'[n]
                   PROVE  m = n
        OBVIOUS
      <3>1. m + 1 = n + 1
        BY <2>1 DEF OnceInv
      <3> QED BY <2>1, <3>1
    <2>5. \A n \in 1..Len(stdin') : stdin'[n] \in Req => stdin'[n] \in Unanswered /\ stdin'[n] # serving'
      BY <2>1, <2>2 DEF OnceInv
    <2>6. serving' \in Req => serving' \in Unanswered
      BY <2>1, <2>2 DEF OnceInv
    <2>7. OnceInv'
      BY <1>1, <2>2, <2>3, <2>4, <2>5, <2>6 DEF OnceInv
    <2>8. \A n \in 1..Len(stdout') : Says(stdout'[n], answered)
      <3>1. CASE stdout' = stdout
        BY <3>1 DEF ToldInv
      <3>2. CASE stdout' = Append(stdout, None)
        <4>1. stdout \in Seq(Reply \cup {None})
          BY DEF McpTypeOK
        <4>2. \A n \in 1..Len(stdout') : stdout'[n] = None
                                         \/ (n \in 1..Len(stdout) /\ stdout'[n] = stdout[n])
          BY <3>2, <4>1
        <4> QED BY <4>2, McpAssumption DEF ToldInv, Says
      <3> QED BY <1>2, <3>1, <3>2 DEF ReadLine
    <2> QED BY <1>1, <2>2, <2>7, <2>8 DEF ToldInv
  <1>3. CASE Serve
    <2>1. PICK text : Respond(text)
      BY <1>3 DEF Serve, ServeSimple, ServeFanout, ServeStatus
    <2>2. server = "serving" /\ serving \in Req /\ answered[serving] = {}
      BY <1>3 DEF Serve, ServeSimple, ServeFanout, ServeStatus, AskedInv, OnceInv, Unanswered
    <2> DEFINE m == [id |-> id[serving], of |-> serving, text |-> text]
    <2>3. /\ stdout' = Append(stdout, m) /\ stdin' = stdin /\ serving' = None
          /\ answered' = [answered EXCEPT ![serving] = {text}]
      BY <2>1 DEF Respond
    <2>4. /\ answered'[serving] = {text}
          /\ \A q \in Req \ {serving} : answered'[q] = answered[q]
      BY <2>2, <2>3 DEF McpTypeOK
    <2>5. phase[serving] \in {"awaiting", "done", "dropped"}
      BY <2>2 DEF OnceInv, Unanswered
    <2>6. OnceInv'
      <3>1. \A n \in 1..Len(stdin) : stdin[n] \in Req => stdin[n] \in Unanswered'
        BY <1>1, <2>4 DEF OnceInv, Unanswered
      <3>2. \A q \in Req : phase[q] \in {"new", "inserted", "writing"} => answered'[q] = {}
        BY <2>4, <2>5 DEF OnceInv
      <3> QED BY <1>1, <2>3, <3>1, <3>2, McpAssumption DEF OnceInv
    <2>7. \A x : Says(x, answered) => Says(x, answered')
      <3> SUFFICES ASSUME NEW x \in Reply, answered[x.of] = {x.text}
                   PROVE  answered'[x.of] = {x.text}
        BY DEF Says
      <3>1. x.of \in Req
        BY DEF Reply
      <3> QED BY <2>2, <2>4, <3>1
    <2>8. \A n \in 1..Len(stdout') : Says(stdout'[n], answered')
      <3>1. stdout \in Seq(Reply \cup {None})
        BY DEF McpTypeOK
      <3>2. \A n \in 1..Len(stdout') : stdout'[n] = m
                                       \/ (n \in 1..Len(stdout) /\ stdout'[n] = stdout[n])
        BY <2>3, <3>1
      <3>3. Says(m, answered')
        BY <2>4 DEF Says
      <3> QED BY <2>7, <3>2, <3>3 DEF ToldInv
    <2> QED BY <1>1, <2>6, <2>7, <2>8 DEF ToldInv
  <1> QED BY <1>2, <1>3

\* Every step keeps a request in one place.
LEMMA CallStep == McpInv /\ CallInv /\ [Next]_mcpVars => CallInv'
  <1> SUFFICES ASSUME McpInv, CallInv, [Next]_mcpVars PROVE CallInv'
    OBVIOUS
  <1>1. CASE UNCHANGED mcpVars
    BY <1>1 DEF mcpVars, client, pipes, CallInv, OnceInv, ToldInv, Unanswered
  <1> QED BY <1>1, CallsKeepOnce, PipesKeepOnce, ServerKeepsOnce DEF Next

\* What a request returned, as RemoteCall is told.
Returned(q) ==
    IF result[q] = None THEN {}
    ELSE IF result[q] \in Reply THEN {result[q].text} ELSE {result[q]}

\* A request that returns is a remote call that does.
LEMMA ReturnIsRemote ==
    ASSUME McpInv, CallInv, NEW q \in Req, WriteFails(q) \/ TakeReply(q) \/ TimeOut(q)
    PROVE  Remote!RemoteNext
  <1> USE DEF McpInv
  <1>1. PICK x \in Failure \cup {slot[q]} : result' = [result EXCEPT ![q] = x]
                                            /\ (x \notin Failure => x # None)
    BY DEF WriteFails, TakeReply, TimeOut, Returns, Failure
  <1>2. result[q] = None
    BY DEF CallInv, ToldInv, WriteFails, TakeReply, TimeOut
  <1>3. /\ result'[q] = x /\ \A r \in Req \ {q} : result'[r] = result[r]
        /\ UNCHANGED answered
    BY <1>1 DEF McpTypeOK, WriteFails, TakeReply, TimeOut
  <1>4. Returned(q) = {}
    BY <1>2 DEF Returned
  <1>5. CASE x \in Failure
    <2>1. x # None /\ x \notin Reply
      BY <1>5, McpAssumption
    <2>2. [r \in Req |-> Returned(r)]' = [[r \in Req |-> Returned(r)] EXCEPT ![q] = {x}]
      BY <1>3, <2>1 DEF Returned
    <2>3. Remote!Fail(q)
      BY <1>3, <1>4, <1>5, <2>2 DEF Remote!Fail, Returned
    <2> QED BY <2>3 DEF Remote!RemoteNext
  <1>6. CASE x \notin Failure
    <2>1. x = slot[q] /\ x \in Reply /\ x # None
      BY <1>1, <1>6 DEF McpTypeOK, Failure
    <2>2. x.of = q /\ answered[q] = {x.text}
      BY <2>1 DEF ReplyInv, CallInv, ToldInv, Says
    <2>3. [r \in Req |-> Returned(r)]' = [[r \in Req |-> Returned(r)] EXCEPT ![q] = answered[q]]
      BY <1>3, <2>1, <2>2 DEF Returned
    <2>4. Remote!Answer(q)
      BY <1>3, <1>4, <2>2, <2>3 DEF Remote!Answer, Returned
    <2> QED BY <2>4 DEF Remote!RemoteNext
  <1> QED BY <1>5, <1>6

\* An answer of the server is the first one to its request.
LEMMA ServeIsRemote ==
    ASSUME McpInv, CallInv, Serve
    PROVE  Remote!RemoteNext
  <1>1. serving \in Req /\ answered[serving] = {} /\ UNCHANGED result
    BY DEF McpInv, AskedInv, CallInv, OnceInv, Unanswered, Serve, ServeSimple, ServeFanout,
           ServeStatus, Respond, client
  <1>2. PICK text \in Text : answered' = [answered EXCEPT ![serving] = {text}]
    <2>1. CASE ServeSimple \/ ServeFanout
      BY <2>1 DEF ServeSimple, ServeFanout, Respond, Text
    <2>2. CASE ServeStatus
      <3> DEFINE f == file[JobOf[serving]]
      <3>1. f \in Record \cup {"none", "torn"}
        BY <1>1, <2>2, McpAssumption DEF ServeStatus, McpInv, McpTypeOK
      <3>2. Respond(IF f = "none" THEN "not_found" ELSE IF f = "torn" THEN "failed" ELSE f)
        BY <2>2, <3>1 DEF ServeStatus, Record
      <3>3. (IF f = "none" THEN "not_found" ELSE IF f = "torn" THEN "failed" ELSE f) \in Text
        BY <3>1 DEF Text, Record
      <3> QED BY <3>2, <3>3 DEF Respond
    <2> QED BY <2>1, <2>2 DEF Serve
  <1>3. Remote!Serve(serving)
    BY <1>1, <1>2 DEF Remote!Serve
  <1> QED BY <1>1, <1>3 DEF Remote!RemoteNext

\* All other steps are hidden from the callers.
LEMMA RemoteStep ==
    McpInv /\ CallInv /\ [Next]_mcpVars => [Remote!RemoteNext]_(Remote!remoteVars)
  <1> SUFFICES ASSUME McpInv, CallInv, [Next]_mcpVars
               PROVE  [Remote!RemoteNext]_(Remote!remoteVars)
    OBVIOUS
  <1>1. ASSUME UNCHANGED <<answered, result>> PROVE UNCHANGED Remote!remoteVars
    BY <1>1 DEF Remote!remoteVars
  <1>2. ASSUME NEW q \in Req, Calls(q) PROVE [Remote!RemoteNext]_(Remote!remoteVars)
    <2>1. CASE WriteFails(q) \/ TakeReply(q) \/ TimeOut(q)
      BY <2>1, ReturnIsRemote
    <2>2. CASE Begin(q) \/ StartWrite(q) \/ FinishWrite(q) \/ Drop(q)
      BY <1>1, <2>2 DEF Begin, StartWrite, FinishWrite, Drop
    <2> QED BY <1>2, <2>1, <2>2 DEF Calls
  <1>3. CASE Serve
    BY <1>3, ServeIsRemote
  <1>4. CASE Connect \/ ConnectFails \/ Route \/ ReaderEnds \/ ReadLine \/ ServerEnds \/ Hang
    BY <1>1, <1>4 DEF Connect, ConnectFails, Route, ReaderEnds, ReadLine, ServerEnds, Hang, client
  <1>5. ASSUME NEW j \in Job, JobTask(j) PROVE [Remote!RemoteNext]_(Remote!remoteVars)
    BY <1>1, <1>5 DEF JobTask, StartJob, RunJob, EndJob, SaveJob, client
  <1>6. CASE UNCHANGED mcpVars
    BY <1>1, <1>6 DEF mcpVars, client
  <1> QED BY <1>2, <1>3, <1>4, <1>5, <1>6 DEF Next

\* The client and its server implement RemoteCall: a request is served at most
\* once, though it may be dropped in the middle of its line, and returns at most
\* once, with a failure or what was answered to it.
THEOREM McpIsRemoteCall == Spec => RemoteSpec
  <1>1. Init => Remote!RemoteInit
    BY DEF Init, Remote!RemoteInit
  <1>2. Spec => []CallInv
    BY CallInit, CallStep, McpInvariant, PTL DEF Spec
  <1> QED BY <1>1, <1>2, RemoteStep, McpInvariant, PTL DEF Spec, RemoteSpec, Remote!RemoteSpec
===============================================================================
