--------------------------- MODULE MCPulserTest ---------------------------
(***************************************************************************)
(* Two small instances of PulserTest: one device in two tests, so that the *)
(* first can be late for the second, with all the edits; and two devices   *)
(* side by side in one test, with one test behind them and without edits.  *)
(***************************************************************************)
EXTENDS PulserTest, TLC

CONSTANTS d1, d2, t1, t2

\* Which device has which target does not matter, so one assignment will do.
MCInit ==
    /\ Init
    /\ target = (d1 :> t1 @@ d2 :> t2)
    /\ \/ setup = {d1} /\ generation = 0 /\ edits = 0
       \/ setup = {d1, d2} /\ generation = MaxTests - 1 /\ edits = MaxEdits

MCSpec == MCInit /\ [][Next]_vars /\ Fairness
=============================================================================
