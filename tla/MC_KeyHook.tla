----------------------------- MODULE MC_KeyHook -----------------------------
(* A gap of 2 is just quick, one of 7 is slow, and 14 (over a press) is    *)
(* negative in an int of sixteen values.                                   *)
EXTENDS KeyHook

MCGaps == {2, 7}

(* Two hooks that live count every release twice, and nothing is claimed.  *)
NotTwice == ~twice
=============================================================================
