----------------------------- MODULE MCPickInHand -----------------------------
(***************************************************************************)
(* A draft of two members and one place each, seen by one of them, who may *)
(* also pick for the other.                                                *)
(***************************************************************************)
EXTENDS PickInHand

CONSTANTS ann, ben

MCOrder == <<ann, ben>>
=============================================================================
