---------------------------- MODULE MCArrayView ----------------------------
(***************************************************************************)
(* A small instance of ArrayView: the host starts with two items, none, or *)
(* no list, and may put back any of these.                                 *)
(***************************************************************************)
EXTENDS ArrayView, TLC

MCHostLists == {<<1, 2>>, <<2>>, <<>>, None}
=============================================================================
