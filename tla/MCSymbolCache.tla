---------------------------- MODULE MCSymbolCache ----------------------------
(***************************************************************************)
(* Five names over four slots: two with one hash, two more with its home    *)
(* slot, one whose probe sequence wraps around, and one that is refused.    *)
(***************************************************************************)
EXTENDS SymbolCache, TLC

CONSTANTS a, b, c, d, e, long

MCNames == {a, b, c, d, e, long}
MCValid == {a, b, c, d, e}
MCHash == a :> 1 @@ b :> 1 @@ c :> 5 @@ d :> 9 @@ e :> 3 @@ long :> 3
=============================================================================
