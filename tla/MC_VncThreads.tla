--------------------------- MODULE MC_VncThreads ---------------------------
(* The command processor; a worker that takes screenshots again and again  *)
(* and one that takes a single one, which obeys no flag but puts down that *)
(* of the former; and the reader of logcat, whose flag the processor puts  *)
(* down.                                                                   *)
EXTENDS VncThreads

CONSTANTS proc, multi, photo, logcat, fproc, fscreen, flog

MCFlagOf ==
  [t \in Threads |-> CASE t = proc -> fproc
                       [] t = multi -> fscreen
                       [] t = photo -> NoFlag
                       [] t = logcat -> flog]

MCResets ==
  [t \in Threads |-> CASE t = proc -> {fproc}
                       [] t \in {multi, photo} -> {fscreen}
                       [] t = logcat -> {}]

MCLowers == [t \in Threads |-> IF t = proc THEN {flog} ELSE {}]
=============================================================================
