---------------------------- MODULE MCDcProvider ----------------------------
(***************************************************************************)
(* Instances of DcProvider for TLC: three DCs, first at home (one address  *)
(* each); then DC 2 moves to another address.                              *)
(***************************************************************************)
EXTENDS DcProvider

CONSTANTS boot, home, away

AtHome == [i \in Ids |-> home]
Moved  == [i \in Ids |-> IF i = 2 THEN away ELSE home]
MovesAway == <<AtHome, Moved>>
=============================================================================
