----------------------------- MODULE MCNetPlay -----------------------------
(***************************************************************************)
(* NetPlay for TLC.  One kind of input is enough: whose it is and in which *)
(* frame it is executed are what can go wrong.                             *)
(***************************************************************************)
EXTENDS NetPlay

CONSTANT key

Keys     == {key}
BothKeys == [p \in Peers |-> Keys]
============================================================================
