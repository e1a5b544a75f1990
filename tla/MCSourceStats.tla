--------------------------- MODULE MCSourceStats ---------------------------
(***************************************************************************)
(* SourceStats on a small range of buffer numbers, so that they wrap: one  *)
(* busy source, and a quiet one that comes in between.                     *)
(***************************************************************************)
EXTENDS SourceStats

CONSTANTS busy, quiet

MCSources == {busy, quiet}

MCMaxSent == [s \in MCSources |-> IF s = busy THEN 8 ELSE 2]

MCMaxReceived == [s \in MCSources |-> IF s = busy THEN 5 ELSE 2]

\* One source only, long enough for a restart in the middle of the range.
LoneSource == {busy}

LoneMaxSent == [s \in LoneSource |-> 8]
=============================================================================
