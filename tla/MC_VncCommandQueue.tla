------------------------ MODULE MC_VncCommandQueue ------------------------
(* Two producers, as the command processor and a worker share the outbound *)
(* queue, its writer, the alarm, and a clock on both sides of the missing  *)
(* carry.                                                                  *)
EXTENDS AlarmQueue

MCUsecs == {799999, 800000}
=============================================================================
