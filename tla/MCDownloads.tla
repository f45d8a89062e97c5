----------------------------- MODULE MCDownloads -----------------------------
(***************************************************************************)
(* Instances of Downloads for TLC: a photo that fits in one part, and the  *)
(* account's, which takes a full part and a short one.                     *)
(***************************************************************************)
EXTENDS Downloads, TLC

CONSTANTS d1, p1, p2

OneDc == p1 :> d1 @@ p2 :> d1
Sizes == p1 :> 1 @@ p2 :> 3
=============================================================================
