-------------------------------- MODULE MCMcp --------------------------------
\* Mcp with the handshake, a fan-out, a poll of its job and a longer tool call.
EXTENDS Mcp

CONSTANTS hello, fanout, poll, run

MCWhat == [q \in {hello, fanout, poll, run} |->
    CASE q = hello -> "initialize" [] q = fanout -> "fanout"
      [] q = poll -> "status" [] q = run -> "work"]
MCJobOf == [q \in {poll} |-> fanout]
=============================================================================
