--------------------------- MODULE MC_VncWorkers ---------------------------
(* Any two commands, of one kind or of two, with stop requests at any time *)
(* and the session's end.                                                  *)
EXTENDS VncWorkers
=============================================================================
