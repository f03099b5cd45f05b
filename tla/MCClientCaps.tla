----------------------------- MODULE MCClientCaps -----------------------------
(***************************************************************************)
(* Instances of ClientCaps.                                                *)
(***************************************************************************)
EXTENDS ClientCaps

==============================================================================
