--------------------------- MODULE MC_VncSession ---------------------------
(* Two PCs, one after the other or at once.                               *)
EXTENDS VncSession

CONSTANTS s1, s2
MC_Sessions == {s1, s2}
OneSession == {s1}
Armed == {s1}
NoneHangs == {}

(* What happens once two outsiders have been inside at once is not what    *)
(* the properties are about.  While the alarm of s1 is armed or what it    *)
(* has started goes on, the second PC comes when the first has hung up and *)
(* its threads have left.                                                  *)
AlarmAround ==
  \/ alarm # NoSession
  \/ handler # Idle
  \/ clean[<<"alarm", s1>>][1] # "idle"

OneAfterTheOther ==
  /\ cpc[s1] = "done" => \A r \in Roles : pc[<<r, s1>>] # "none"
  /\ cpc[s2] # "none" =>
       /\ cpc[s1] = "done"
       /\ s1 \notin peer
       /\ \A r \in Roles : ~Alive(<<r, s1>>)

(* Of the cleanup_threads only that of s1's reader is ever refused.        *)
OneDenied == \A k \in Cleaners : clean[k] = Denied => k = <<"reader", s1>>

NotYetOverlapped ==
  ~overlap /\ (AlarmAround => OneAfterTheOther) /\ OneDenied
=============================================================================
