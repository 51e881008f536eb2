SPECIFICATION FairSpec
CONSTANTS
    None = None
    TimedOut = TimedOut
    Closed = Closed
    Broken = Broken
    hello = hello
    fanout = fanout
    poll = poll
    run = run
    Req = {hello, fanout, poll, run}
    Hello = hello
    What <- MCWhat
    JobOf <- MCJobOf
    PipeCap = 1
    Hangs = TRUE
INVARIANTS McpTypeOK NothingLingers JobIsFound
PROPERTIES RemoteSpec JobSettles RequestEnds
CHECK_DEADLOCK FALSE
