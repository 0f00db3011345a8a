----------------------------- MODULE MCAhiRing -----------------------------
(***************************************************************************)
(* AhiRing for TLC.  Two tags are enough to tell an order of fragments     *)
(* from another one; one tag is enough for what depends on sizes only.     *)
(***************************************************************************)
EXTENDS AhiRing, TLC

CONSTANTS a, b

OneTag  == {a}
TwoTags == {a, b}
============================================================================
