--------------------------------- MODULE Mcp ---------------------------------
(***************************************************************************)
(* entheai's MCP client (crates/mcp/src/lib.rs) and its MCP server         *)
(* (crates/mcp-server/src/protocol.rs, fanout_tool.rs) over the two pipes  *)
(* between them.  The client has many requests in flight and one writer;   *)
(* the server serves one line at a time.  A fan-out request starts a job   *)
(* in the background, whose record on disk a status request reads.         *)
(*                                                                         *)
(* A caller may be dropped at any await, as a stopped run drops its tool   *)
(* calls: in the middle of a write that leaves part of a line behind, and  *)
(* the next line is glued to it.  Write errors of the disk are left out    *)
(* but for the first record of a job.                                      *)
(***************************************************************************)
EXTENDS Naturals, FiniteSets, Sequences

CONSTANTS
    Req,      \* requests made through one client
    Hello,    \* the initialize handshake
    What,     \* what a request asks for
    JobOf,    \* the fan-out a status request asks about
    PipeCap,  \* lines a pipe holds
    Hangs,    \* the server is a foreign one, that may stop reading
    TimedOut, Closed, Broken,  \* McpError: Timeout, Closed, Io
    None

Id == 1..Cardinality(Req)
Job == {q \in Req : What[q] = "fanout"}
Record == {"queued", "running", "done", "error"}
\* The text of a response: a success, an isError, or a job's state.
Text == {"ok", "failed", "not_found"} \cup Record
Reply == [id : Id, of : Req, text : Text]
Failure == {TimedOut, Closed, Broken}
Line == Req \cup {"note", "garbage"}

ASSUME McpAssumption ==
    /\ IsFiniteSet(Req) /\ Hello \in Req /\ PipeCap \in Nat \ {0} /\ Hangs \in BOOLEAN
    /\ What \in [Req -> {"initialize", "fanout", "status", "work"}]
    /\ What[Hello] = "initialize"
    /\ \A q \in Req : What[q] = "status" => JobOf[q] \in Job
    /\ None \notin Req \cup Failure /\ (Failure \cup {None}) \cap Reply = {}
    /\ Req \cap {"note", "garbage"} = {}

VARIABLES
    conn,     \* the connection: "shaking", "open" or "failed"
    phase,    \* where a request stands
    nextId,
    id,       \* the id it drew
    pending,  \* the pending map, from ids to the request that waits
    slot,     \* what its oneshot carries
    result,   \* what it returned
    partial,  \* the unfinished line in the server's stdin: its writer's own, or more
    stdin,    \* lines the server has not read
    stdout,   \* replies the client's reader has not read, None for one under no id
    reader,   \* the client's reader task runs
    server,   \* "reading", "serving", "hung" or "gone"
    serving,  \* the request it serves
    answered, \* what it answered to a request: nothing yet, or a text (history)
    job,      \* where a job's task stands
    file      \* its record on disk, "torn" while it is being rewritten

client == <<conn, phase, nextId, id, pending, slot, result, reader>>
pipes == <<partial, stdin, stdout>>
jobs == <<job, file>>
mcpVars == <<client, pipes, server, serving, answered, jobs>>

InCall == {"inserted", "writing", "awaiting"}

McpTypeOK ==
    /\ conn \in {"shaking", "open", "failed"}
    /\ phase \in [Req -> InCall \cup {"new", "done", "dropped"}]
    /\ nextId \in 1..Cardinality(Req) + 1 /\ id \in [Req -> Id \cup {0}]
    /\ pending \in [Id -> Req \cup {None}]
    /\ slot \in [Req -> Reply \cup {Closed, None}]
    /\ result \in [Req -> Reply \cup Failure \cup {None}]
    /\ partial \in {"none", "own", "more"}
    /\ stdin \in Seq(Line) /\ Len(stdin) <= PipeCap
    /\ stdout \in Seq(Reply \cup {None}) /\ Len(stdout) <= PipeCap
    /\ reader \in BOOLEAN
    /\ server \in {"reading", "serving", "hung", "gone"}
    /\ serving \in Req \cup {None}
    /\ answered \in [Req -> {{}} \cup {{text} : text \in Text}]
    /\ job \in [Job -> {"none", "queued", "starting", "running", "saving", "ended", "dead"}]
    /\ file \in [Job -> Record \cup {"none", "torn"}]

Init ==
    /\ conn = "shaking" /\ nextId = 1 /\ reader = TRUE
    /\ phase = [q \in Req |-> "new"] /\ id = [q \in Req |-> 0]
    /\ pending = [i \in Id |-> None]
    /\ slot = [q \in Req |-> None] /\ result = [q \in Req |-> None]
    /\ partial = "none" /\ stdin = <<>> /\ stdout = <<>>
    /\ server = "reading" /\ serving = None
    /\ answered = [q \in Req |-> {}]
    /\ job = [j \in Job |-> "none"] /\ file = [j \in Job |-> "none"]

-----------------------------------------------------------------------------
(* A request of the client.                                                *)

Go(q, p) == phase' = [phase EXCEPT ![q] = p]
Forget(q) == pending' = [pending EXCEPT ![id[q]] = None]
Returns(q, x) == Go(q, "done") /\ result' = [result EXCEPT ![q] = x]

\* The handshake first; a job can be asked about once its id is known.
Allowed(q) ==
    IF q = Hello THEN conn = "shaking"
    ELSE /\ conn = "open"
         /\ What[q] = "status" => result[JobOf[q]] \in Reply /\ result[JobOf[q]].text = "ok"

\* Ids counted from what is pending.
BeginReusesIds(q) ==
    /\ phase[q] = "new" /\ Allowed(q) /\ Go(q, "inserted")
    /\ LET i == Cardinality({j \in Id : pending[j] # None}) + 1 IN
       id' = [id EXCEPT ![q] = i] /\ pending' = [pending EXCEPT ![i] = q]
    /\ UNCHANGED <<conn, nextId, slot, result, reader, pipes, server, serving, answered, jobs>>

Begin(q) ==
    /\ phase[q] = "new" /\ Allowed(q) /\ Go(q, "inserted")
    /\ nextId' = nextId + 1 /\ id' = [id EXCEPT ![q] = nextId]
    /\ pending' = [pending EXCEPT ![nextId] = q]
    /\ UNCHANGED <<conn, slot, result, reader, pipes, server, serving, answered, jobs>>

\* The writer's lock is taken and the first bytes go out.
WriterFree == \A q \in Req : phase[q] # "writing"
StartWrite(q) ==
    /\ phase[q] = "inserted" /\ WriterFree /\ server # "gone" /\ Go(q, "writing")
    /\ partial' = IF partial = "none" THEN "own" ELSE "more"
    /\ UNCHANGED <<conn, nextId, id, pending, slot, result, reader, stdin, stdout,
                   server, serving, answered, jobs>>

\* No time-out covers the wait for room in the pipe.
FinishWriteBlind(q) ==
    /\ phase[q] = "writing" /\ server # "gone" /\ Go(q, "awaiting")
    /\ stdin' = Append(stdin, IF partial = "own" THEN q ELSE "garbage") /\ partial' = "none"
    /\ UNCHANGED <<conn, nextId, id, pending, slot, result, reader, stdout,
                   server, serving, answered, jobs>>

FinishWrite(q) ==
    /\ phase[q] = "writing" /\ server # "gone" /\ Len(stdin) < PipeCap /\ Go(q, "awaiting")
    /\ stdin' = Append(stdin, IF partial = "own" THEN q ELSE "garbage") /\ partial' = "none"
    /\ UNCHANGED <<conn, nextId, id, pending, slot, result, reader, stdout,
                   server, serving, answered, jobs>>

WriteFails(q) ==
    /\ server = "gone" /\ (phase[q] = "writing" \/ (phase[q] = "inserted" /\ WriterFree))
    /\ Forget(q) /\ Returns(q, Broken)
    /\ UNCHANGED <<conn, nextId, id, slot, reader, pipes, server, serving, answered, jobs>>

TakeReply(q) ==
    /\ phase[q] = "awaiting" /\ slot[q] # None /\ Returns(q, slot[q])
    /\ UNCHANGED <<conn, nextId, id, pending, slot, reader, pipes, server, serving, answered, jobs>>

\* The map keeps the entry of a request that timed out.
TimeOutLingers(q) ==
    /\ phase[q] = "awaiting" /\ slot[q] = None /\ Returns(q, TimedOut)
    /\ UNCHANGED <<conn, nextId, id, pending, slot, reader, pipes, server, serving, answered, jobs>>

\* Every request waits for as long as it takes.
TimeOutNever(q) == phase[q] = "awaiting" /\ slot[q] = None /\ FALSE /\ UNCHANGED mcpVars

TimeOut(q) ==
    /\ phase[q] = "awaiting" /\ slot[q] = None /\ Forget(q) /\ Returns(q, TimedOut)
    /\ UNCHANGED <<conn, nextId, id, slot, reader, pipes, server, serving, answered, jobs>>

\* The caller is dropped: its entry stays, and what it wrote.
Drop(q) ==
    /\ phase[q] \in InCall /\ q # Hello /\ Go(q, "dropped")
    /\ UNCHANGED <<conn, nextId, id, pending, slot, result, reader, pipes, server, serving, answered, jobs>>

\* connect: with the handshake's reply the client notifies and is ready, or it
\* is dropped and its guard kills the server.
Connect ==
    /\ conn = "shaking" /\ result[Hello] \in Reply /\ server # "gone" /\ Len(stdin) < PipeCap
    /\ conn' = "open" /\ stdin' = Append(stdin, "note")
    /\ UNCHANGED <<phase, nextId, id, pending, slot, result, reader, partial, stdout,
                   server, serving, answered, jobs>>

ConnectFails ==
    /\ conn = "shaking" /\ \/ result[Hello] \in Failure
                           \/ result[Hello] \in Reply /\ server = "gone"
    /\ conn' = "failed" /\ server' = "gone" /\ serving' = None
    /\ job' = [j \in Job |-> IF job[j] \in {"none", "ended"} THEN job[j] ELSE "dead"]
    /\ UNCHANGED <<phase, nextId, id, pending, slot, result, reader, pipes, answered, file>>

-----------------------------------------------------------------------------
(* The client's reader task.                                               *)

\* A reply goes to whoever waits under its id; a late one, or one without an
\* id, goes nowhere.
Route ==
    /\ reader /\ stdout # <<>> /\ stdout' = Tail(stdout)
    /\ LET m == Head(stdout) IN
       IF m = None \/ pending[m.id] = None THEN UNCHANGED <<slot, pending>>
       ELSE /\ slot' = [slot EXCEPT ![pending[m.id]] = m]
            /\ pending' = [pending EXCEPT ![m.id] = None]
    /\ UNCHANGED <<conn, phase, nextId, id, result, reader, partial, stdin, server, serving, answered, jobs>>

\* End of the server's output: who waits is told.  A request registered after
\* this is told by nobody.
ReaderEnds ==
    /\ reader /\ stdout = <<>> /\ server = "gone" /\ reader' = FALSE
    /\ slot' = [q \in Req |-> IF \E i \in Id : pending[i] = q THEN Closed ELSE slot[q]]
    /\ pending' = [i \in Id |-> None]
    /\ UNCHANGED <<conn, phase, nextId, id, result, pipes, server, serving, answered, jobs>>

-----------------------------------------------------------------------------
(* The server.                                                             *)

\* One line at a time.  A notification has no answer; what cannot be parsed is
\* answered under no id.
ReadLine ==
    /\ server = "reading" /\ stdin # <<>> /\ stdin' = Tail(stdin)
    /\ LET line == Head(stdin) IN
       \/ /\ line \in Req /\ server' = "serving" /\ serving' = line /\ UNCHANGED stdout
       \/ line = "note" /\ UNCHANGED <<server, serving, stdout>>
       \/ /\ line = "garbage" /\ Len(stdout) < PipeCap /\ stdout' = Append(stdout, None)
          /\ UNCHANGED <<server, serving>>
    /\ UNCHANGED <<client, partial, answered, jobs>>

Respond(text) ==
    /\ Len(stdout) < PipeCap
    /\ stdout' = Append(stdout, [id |-> id[serving], of |-> serving, text |-> text])
    /\ answered' = [answered EXCEPT ![serving] = {text}]
    /\ server' = "reading" /\ serving' = None
    /\ UNCHANGED <<client, partial, stdin>>

ServeSimple ==
    /\ server = "serving" /\ What[serving] \in {"initialize", "work"}
    /\ \E text \in {"ok", "failed"} : (What[serving] = "work" \/ text = "ok") /\ Respond(text)
    /\ UNCHANGED jobs

\* The job's id is handed out before the job is recorded.
ServeFanoutUnrecorded ==
    /\ server = "serving" /\ What[serving] = "fanout"
    /\ \/ Respond("ok") /\ job' = [job EXCEPT ![serving] = "queued"]
       \/ Respond("failed") /\ UNCHANGED job
    /\ UNCHANGED file

\* entheai_fanout: the record first, then the task, then the answer.
ServeFanout ==
    /\ server = "serving" /\ What[serving] = "fanout"
    /\ \/ /\ Respond("ok")
          /\ job' = [job EXCEPT ![serving] = "queued"]
          /\ file' = [file EXCEPT ![serving] = "queued"]
       \/ Respond("failed") /\ UNCHANGED jobs

\* entheai_job_status: a record that cannot be parsed is an error of the tool.
ServeStatus ==
    /\ server = "serving" /\ What[serving] = "status"
    /\ LET f == file[JobOf[serving]] IN
       Respond(CASE f = "none" -> "not_found" [] f = "torn" -> "failed" [] OTHER -> f)
    /\ UNCHANGED jobs

\* The process ends: killed with the client's guard, or a crash.
ServerEnds ==
    /\ server # "gone" /\ server' = "gone" /\ serving' = None
    /\ job' = [j \in Job |-> IF job[j] \in {"none", "ended"} THEN job[j] ELSE "dead"]
    /\ UNCHANGED <<client, pipes, answered, file>>

Hang ==
    /\ Hangs /\ server \in {"reading", "serving"} /\ server' = "hung"
    /\ UNCHANGED <<client, pipes, serving, answered, jobs>>

-----------------------------------------------------------------------------
(* A job's task: each save truncates the record and then writes it.        *)

JobStep(j, from, to) == job[j] = from /\ job' = [job EXCEPT ![j] = to]

StartJob(j) ==
    /\ JobStep(j, "queued", "starting") /\ file' = [file EXCEPT ![j] = "torn"]
    /\ UNCHANGED <<client, pipes, server, serving, answered>>
RunJob(j) ==
    /\ JobStep(j, "starting", "running") /\ file' = [file EXCEPT ![j] = "running"]
    /\ UNCHANGED <<client, pipes, server, serving, answered>>
EndJob(j) ==
    /\ JobStep(j, "running", "saving") /\ file' = [file EXCEPT ![j] = "torn"]
    /\ UNCHANGED <<client, pipes, server, serving, answered>>
\* A failed run that is not recorded.
SaveJobUnrecorded(j) ==
    /\ JobStep(j, "saving", "ended")
    /\ \/ file' = [file EXCEPT ![j] = "done"]
       \/ file' = [file EXCEPT ![j] = "running"]
    /\ UNCHANGED <<client, pipes, server, serving, answered>>

\* Done, or error: the run failed or passed its deadline.
SaveJob(j) ==
    /\ JobStep(j, "saving", "ended")
    /\ \E s \in {"done", "error"} : file' = [file EXCEPT ![j] = s]
    /\ UNCHANGED <<client, pipes, server, serving, answered>>

-----------------------------------------------------------------------------
Calls(q) == Begin(q) \/ StartWrite(q) \/ FinishWrite(q) \/ WriteFails(q)
            \/ TakeReply(q) \/ TimeOut(q) \/ Drop(q)
Serve == ServeSimple \/ ServeFanout \/ ServeStatus
JobTask(j) == StartJob(j) \/ RunJob(j) \/ EndJob(j) \/ SaveJob(j)

Next == \/ \E q \in Req : Calls(q)
        \/ Connect \/ ConnectFails \/ Route \/ ReaderEnds
        \/ ReadLine \/ Serve \/ ServerEnds \/ Hang
        \/ \E j \in Job : JobTask(j)

Spec == Init /\ [][Next]_mcpVars

\* Tasks run, timers fire, and the server's tools end (an agent's idle time-out,
\* a dispatch's and a fan-out's deadlines).
FairSpec ==
    /\ Spec
    /\ WF_mcpVars(Route \/ ReaderEnds) /\ WF_mcpVars(ReadLine \/ Serve)
    /\ \A q \in Req : WF_mcpVars(StartWrite(q) \/ FinishWrite(q) \/ WriteFails(q)
                                   \/ TakeReply(q) \/ TimeOut(q))
    /\ \A j \in Job : WF_mcpVars(JobTask(j))

-----------------------------------------------------------------------------
(* Properties.                                                             *)

\* A request gets the reply to itself: not a late reply to an earlier one, nor
\* one meant for a request in flight with it.
OwnReply == \A q \in Req : result[q] \in Reply => result[q].of = q

\* However lines are glued together and replies are late, pipes, map and oneshots
\* are a remote call as RemoteCall promises it.
Remote == INSTANCE RemoteCall WITH
    served  <- answered,
    outcome <- [q \in Req |-> IF result[q] = None THEN {}
                              ELSE IF result[q] \in Reply THEN {result[q].text} ELSE {result[q]}]

RemoteSpec == Remote!RemoteSpec

\* A request that waits can be answered: its oneshot is filled, or the map
\* leads from its id to it.
WaitingIsRoutable ==
    \A q \in Req : phase[q] = "awaiting" => slot[q] # None \/ pending[id[q]] = q

\* "The pending entry is removed on timeout so it can't linger or be resolved
\* later" (crates/mcp/src/lib.rs), and so it is however a request returns.
NothingLingers == \A q \in Req : phase[q] = "done" => \A i \in Id : pending[i] # q

\* A client that was given a job's id never finds the job missing
\* (fanout_tool.rs: "so entheai_job_status can find the job the moment this
\* tool call returns").
JobIsFound ==
    \A q \in Req : What[q] = "status" /\ result[q] \in Reply => result[q].text # "not_found"

\* A job's record tells how it ended, unless its process died first.
JobSettles ==
    \A j \in Job : job[j] = "queued" ~> file[j] \in {"done", "error"} \/ job[j] = "dead"

\* A request comes to an end, whatever is lost or late, while the server reads
\* its input; one that waits for its reply does in any case.
RequestEnds ==
    \A q \in Req : phase[q] \in InCall ~> \/ phase[q] \in {"done", "dropped"}
                                          \/ server = "hung" /\ phase[q] # "awaiting"

\* "Send a JSON-RPC request and await its response, bounded by self.timeout. A
\* server that never replies (hung, ...) fails this call ... instead of hanging
\* forever" (crates/mcp/src/lib.rs): so for every server.
RequestBounded == \A q \in Req : phase[q] \in InCall ~> phase[q] \in {"done", "dropped"}
=============================================================================
