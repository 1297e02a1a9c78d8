--------------------------- MODULE PackageStream ---------------------------
(***************************************************************************)
(* What the framing layer promises: the peer's byte stream is cut at the   *)
(* package boundaries and nowhere else.  Bytes arrive in arbitrary pieces; *)
(* package k is handed over whole, once, after package k-1, and not before *)
(* its last byte has arrived.  VncBufferReader implements this.            *)
(***************************************************************************)
EXTENDS Integers

CONSTANTS NumPkgs,   \* number of packages in the peer's stream
          Start,     \* Start[k]: stream offset just after package k
          MaxRead    \* largest piece one recv() can return

VARIABLES received,  \* bytes of the stream that have arrived
          handed     \* packages handed over

streamVars == <<received, handed>>

Init == received = 0 /\ handed = 0

Arrive ==
  /\ \E n \in 1..MaxRead : received' = received + n
  /\ received' <= Start[NumPkgs]
  /\ UNCHANGED handed

HandOver ==
  /\ handed < NumPkgs
  /\ Start[handed + 1] <= received
  /\ handed' = handed + 1
  /\ UNCHANGED received

Next == Arrive \/ HandOver

Spec == Init /\ [][Next]_streamVars /\ WF_streamVars(HandOver)
=============================================================================
