------------------------- MODULE MC_VncLogcatAgent -------------------------
(* The bounds are given in the configurations.                            *)
EXTENDS VncLogcatAgent
=============================================================================
