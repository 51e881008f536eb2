SPECIFICATION Spec
CONSTANTS
    None = None
    first = first
    second = second
    shell = shell
    a = a
    b = b
    c = c
    Run = {first, second}
    Tool = {shell}
    Call = {a, b, c}
    RunOf <- MCRunOf
    TierOf <- MCTier
    PinOf <- MCPin
    Allowlist = {}
    PermCap = 1
    ResultCap = 1
    FirstMode = "ask"
    FanoutMode = "auto"
INVARIANT HandleHoldsTheRun
CHECK_DEADLOCK FALSE
