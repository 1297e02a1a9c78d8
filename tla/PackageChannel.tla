-------------------------- MODULE PackageChannel --------------------------
(***************************************************************************)
(* What a VncCommandQueue promises its users: packages come out in the     *)
(* order in which they went in, each exactly once, and a package that went *)
(* in does come out as long as somebody keeps asking.                      *)
(***************************************************************************)
EXTENDS Sequences, Integers

CONSTANT Package

VARIABLES pushed,   \* the packages put in, in order
          taken     \* the packages taken out, in order

channelVars == <<pushed, taken>>

Init == pushed = << >> /\ taken = << >>

Put ==
  /\ \E p \in Package : pushed' = Append(pushed, p)
  /\ UNCHANGED taken

Take ==
  /\ Len(taken) < Len(pushed)
  /\ taken' = Append(taken, pushed[Len(taken) + 1])
  /\ UNCHANGED pushed

Next == Put \/ Take

Spec == Init /\ [][Next]_channelVars /\ WF_channelVars(Take)
=============================================================================
