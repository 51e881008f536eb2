----------------------------- MODULE MCFedWorker -----------------------------
(***************************************************************************)
(* FedWorker for TLC.                                                      *)
(***************************************************************************)
EXTENDS FedWorker

CONSTANTS b1, b2

\* A worker that has been serving b1.
Served == <<b1>>

===============================================================================
