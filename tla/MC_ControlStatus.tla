-------------------------- MODULE MC_ControlStatus --------------------------
(* Two decisions are enough for a take-over and for a decision that        *)
(* overtakes another.  The bounds are given in the configurations.         *)
EXTENDS ControlStatus

AllFaults == {"select", "alarm", "create"}

(* Half-made reports that cross void what the properties promise.  A first *)
(* decision that is secret goes on like a yes, and is not looked at; the   *)
(* alarm is armed in the first session, to come in it or in the second.    *)
NotYetCrossed ==
  /\ ~crossed
  /\ decided # << >> => decided[1] # "secret"
  /\ Contains(inbox, "TELLME_SRV_ID") => session = 1
=============================================================================
