--------------------------- MODULE MCResultBuilder ---------------------------
(***************************************************************************)
(* A small instance of ResultBuilder for TLC.                               *)
(***************************************************************************)
EXTENDS ResultBuilder, TLC

\* A struct with a struct inside, and one whose fields need no builder.
NestedSchemas == "Outer" :> <<"scalar", "Inner", "null">> @@ "Inner" :> <<"strings">>
EveryKind == {"user", "scalar", "copy", "Outer"}
=============================================================================
