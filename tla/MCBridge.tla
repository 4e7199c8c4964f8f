------------------------------ MODULE MCBridge ------------------------------
(***************************************************************************)
(* A colour light with a button, behind a connection that breaks.          *)
(***************************************************************************)
EXTENDS BridgeProperties
=============================================================================
