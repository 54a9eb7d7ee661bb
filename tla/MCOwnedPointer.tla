---------------------------- MODULE MCOwnedPointer ----------------------------
(***************************************************************************)
(* Two owned values and an ALTREP vector, over a cleanup stack of two.      *)
(***************************************************************************)
EXTENDS OwnedPointer, TLC

CONSTANTS p, q, v

MCObjects == {p, q, v}
MCKind == p :> "owned" @@ q :> "owned" @@ v :> "altrep"
=============================================================================
