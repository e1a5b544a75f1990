------------------------ MODULE MCCommandTransaction ------------------------
(***************************************************************************)
(* A small instance of CommandTransaction.  A prompt network leaves nothing *)
(* behind between two calls, so a third call is cheap there.                *)
(***************************************************************************)
EXTENDS CommandTransaction

MCMaxCalls == [prompt |-> 3, slow |-> 2]

\* The code treats all ids alike except when it looks for one, so a connection
\* may start with any.
MCInit == Init /\ (setup.prog = "connection" => device.id = 1)

MCSpec == MCInit /\ [][Next]_vars /\ Fairness
=============================================================================
