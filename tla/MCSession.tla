----------------------------- MODULE MCSession -----------------------------
(***************************************************************************)
(* Instances of SessionSystem for TLC.                                     *)
(***************************************************************************)
EXTENDS SessionSystem

CONSTANTS d1

OneDc == [s \in Sessions |-> d1]
NoSkew == {0}
ClockMoves == {-2, 0}
AnyState == {"unconnected", "connecting", "connected", "closing"}
=============================================================================
