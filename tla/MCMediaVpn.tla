----------------------------- MODULE MCMediaVpn -----------------------------
(* Instances of MediaVpn for TLC.                                          *)
EXTENDS MediaVpn
=============================================================================
