------------------------------- MODULE MCAltrep -------------------------------
(***************************************************************************)
(* A small instance of Altrep for TLC.                                      *)
(***************************************************************************)
EXTENDS Altrep, TLC

TwoKinds == {"logical", "complex"}
SmallCells == "logical" :> {<<1>>, <<7>>} @@ "complex" :> {<<3, 4>>}
SmallValues == "logical" :> {<<>>, <<<<1>>>>, <<<<7>>>>} @@
               "complex" :> {<<<<3, 4>>, <<3, 4>>>>}
=============================================================================
