---------------------------- MODULE MCConversion ----------------------------
(***************************************************************************)
(* Small instances of Conversion for TLC.                                  *)
(***************************************************************************)
EXTENDS Conversion, TLC

AllAllocators == {"heap", "unwind", "two_tier"}
ShortAndLong == {1, 3}
WithEmpty == {0, 1}
ViewSymmetry == Permutations(Views)
=============================================================================
