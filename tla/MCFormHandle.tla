---------------------------- MODULE MCFormHandle ----------------------------
(***************************************************************************)
(* A form of one list of at most two items, one of which a component       *)
(* outside the list may watch.                                             *)
(***************************************************************************)
EXTENDS FormHandle

CONSTANTS list, i1, i2, watcher

MCWatches == [w \in Watcher |-> i1]
=============================================================================
