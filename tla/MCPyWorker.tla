----------------------------- MODULE MCPyWorker -----------------------------
(***************************************************************************)
(* A small instance of PyWorker.  The callers are interchangeable, but     *)
(* symmetry is not used because liveness is checked.                       *)
(***************************************************************************)
EXTENDS PyWorker

CONSTANTS c1, c2
=============================================================================
