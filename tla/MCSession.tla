------------------------------ MODULE MCSession ------------------------------
\* Session with a run that can have two calls in flight and one with a single
\* call, and one tool: a shell, which a mode may allow, deny or ask about.
EXTENDS Session

CONSTANTS first, second, shell, a, b, c

MCRunOf == [x \in {a, b, c} |-> IF x = c THEN second ELSE first]
MCTier == [t \in {shell} |-> Exec]
MCPin == [t \in {shell} |-> None]
=============================================================================
