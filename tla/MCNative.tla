------------------------------ MODULE MCNative ------------------------------
(***************************************************************************)
(* A few calls through the native backends, each of which may end early.   *)
(***************************************************************************)
EXTENDS Native
=============================================================================
