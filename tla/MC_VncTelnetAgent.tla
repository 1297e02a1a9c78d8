------------------------- MODULE MC_VncTelnetAgent -------------------------
(* The bounds are given in the configuration.                              *)
EXTENDS VncTelnetAgent
=============================================================================
