---------------------------- MODULE MCConnection ----------------------------
(***************************************************************************)
(* Connection with bytes 0..3, Escape 2 and words of two bytes: a message  *)
(* of one word has a header of one byte, one of three words a header of    *)
(* four.  The bytes of the payloads include 0, Escape and the digits of a  *)
(* header, so that a reader out of step takes them for lengths.            *)
(***************************************************************************)
EXTENDS Connection

SmallPayloads == {<<2, 1>>, <<0, 3, 1, 2, 2, 0>>}
=============================================================================
