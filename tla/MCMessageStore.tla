--------------------------- MODULE MCMessageStore ---------------------------
(***************************************************************************)
(* An instance of MessageStore for TLC.                                    *)
(***************************************************************************)
EXTENDS MessageStore
=============================================================================
