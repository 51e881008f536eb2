------------------------------ MODULE MCFedQueue ------------------------------
(***************************************************************************)
(* FedQueue for TLC.                                                       *)
(***************************************************************************)
EXTENDS FedQueue

CONSTANTS c1, s1, n1, n2

\* Sessions are UUIDs: each dispatch has a subject of its own.
OwnSubject == [d \in Dispatch |-> d]

===============================================================================
