----------------------------- MODULE MCCharDev -----------------------------
(***************************************************************************)
(* A client and another user, and texts from the empty one to one longer   *)
(* than the buffer, with a zero inside and with a negative byte.           *)
(***************************************************************************)
EXTENDS CharDev

CONSTANTS p1, p2

SomeTexts == {<<>>, <<1>>, <<2, 1>>, <<1, 0, 2>>, <<1, 2, 1>>, <<2, 1, 2, 1>>, <<1, -1>>}
=============================================================================
