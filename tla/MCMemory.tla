------------------------------- MODULE MCMemory -------------------------------
\* Memory with two processes, two keys and a tool result.
EXTENDS Memory, TLC

CONSTANTS p, q, a, b, t, c, d

Symmetry == Permutations({p, q}) \cup Permutations({a, b}) \cup Permutations({c, d})
=============================================================================
