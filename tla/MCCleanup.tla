------------------------------ MODULE MCCleanup ------------------------------
(***************************************************************************)
(* Small instances of Cleanup for TLC.                                     *)
(***************************************************************************)
EXTENDS Cleanup

NativeOnly == {"native"}
AllKinds == {"native", "result"}
=============================================================================
