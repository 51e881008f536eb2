--------------------------- MODULE FanoutProtocol ---------------------------
(***************************************************************************)
(* What a consumer of FanoutEvent may rely on, whatever happens to the run *)
(* behind the channel: crates/orchestrator/src/lib.rs, the enum and the    *)
(* places of run_fanout_detailed that send.  The TUI and the bus publisher *)
(* are written against this order of events.                               *)
(***************************************************************************)
EXTENDS Naturals

CONSTANT NumCoders

VARIABLES
    started,      \* coders announced by CoderStarted
    finished,     \* how many CoderFinished were sent; they come in index order
    integrating,  \* Integrating was sent
    over          \* "no", "done" after Done, "gone" when no Done will come

protocolVars == <<started, finished, integrating, over>>

ProtocolInit ==
    /\ started = {}
    /\ finished = 0
    /\ integrating = FALSE
    /\ over = "no"

\* No coder is announced once the first one has been reported finished.
CoderStarted(i) ==
    /\ i \notin started
    /\ finished = 0
    /\ over # "done"
    /\ started' = started \cup {i}
    /\ UNCHANGED <<finished, integrating, over>>

CoderFinished ==
    /\ over = "no"
    /\ finished < NumCoders
    /\ ~integrating
    /\ finished' = finished + 1
    /\ UNCHANGED <<started, integrating, over>>

Integrating ==
    /\ over = "no"
    /\ finished = NumCoders
    /\ ~integrating
    /\ integrating' = TRUE
    /\ UNCHANGED <<started, finished, over>>

Done ==
    /\ over = "no"
    /\ finished = NumCoders
    /\ over' = "done"
    /\ UNCHANGED <<started, finished, integrating>>

Abandoned ==
    /\ over = "no"
    /\ over' = "gone"
    /\ UNCHANGED <<started, finished, integrating>>

ProtocolNext ==
    \/ \E i \in 1..NumCoders : CoderStarted(i)
    \/ CoderFinished \/ Integrating \/ Done \/ Abandoned

ProtocolSpec == ProtocolInit /\ [][ProtocolNext]_protocolVars

=============================================================================
