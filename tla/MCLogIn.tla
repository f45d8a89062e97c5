------------------------------ MODULE MCLogIn -------------------------------
(***************************************************************************)
(* An instance of LogIn for TLC: an account at the first DC and one at     *)
(* another DC.                                                             *)
(***************************************************************************)
EXTENDS LogIn

CONSTANTS near, far
HomeOf == [p \in Phones |-> IF p = near THEN 1 ELSE 2]
=============================================================================
