----------------------------- MODULE ThreadGroup -----------------------------
(***************************************************************************)
(* What a VncThreads promises: a group that threads join and leave in one  *)
(* step each, that asks the threads it has at that moment to stop when it  *)
(* is frozen, and that is destroyed when they have all left, after which   *)
(* nobody joins.                                                           *)
(***************************************************************************)
CONSTANTS Threads, Flags, NoFlag,
          FlagOf,   \* FlagOf[t]: the flag that asks t to stop
          Resets,   \* Resets[t]: the flags t puts down when it begins to run
          Lowers    \* Lowers[t]: the flags t may put down later

VARIABLES stage,      \* stage[t]: "none", "created", "running" or "gone"
          flag,       \* flag[f]: 1 asks the threads of that kind to stop
          frozen,     \* the group has asked its threads to stop
          destroyed   \* the group is no more

groupVars == <<stage, flag, frozen, destroyed>>

Init ==
  /\ stage = [t \in Threads |-> "none"]
  /\ flag = [f \in Flags |-> 0]
  /\ frozen = FALSE
  /\ destroyed = FALSE

Moves(t, from, to) ==
  /\ ~destroyed
  /\ stage[t] = from
  /\ stage' = [stage EXCEPT ![t] = to]
  /\ UNCHANGED <<frozen, destroyed>>

Joins(t) == Moves(t, "none", "created") /\ UNCHANGED flag

Begins(t) ==
  /\ Moves(t, "created", "running")
  /\ flag' = [f \in Flags |-> IF f \in Resets[t] THEN 0 ELSE flag[f]]

(* A running member asks for a stop.                                       *)
Asks(f) ==
  /\ \E t \in Threads : stage[t] = "running"
  /\ flag' = [flag EXCEPT ![f] = 1]
  /\ UNCHANGED <<stage, frozen, destroyed>>

(* A running member takes a request back.                                  *)
TakesBack(t, f) ==
  /\ stage[t] = "running"
  /\ f \in Lowers[t]
  /\ flag' = [flag EXCEPT ![f] = 0]
  /\ UNCHANGED <<stage, frozen, destroyed>>

Leaves(t) == Moves(t, "running", "gone") /\ UNCHANGED flag

Members == {t \in Threads : stage[t] \in {"created", "running"}}

Freeze ==
  /\ ~frozen
  /\ frozen' = TRUE
  /\ flag' = [f \in Flags |-> IF \E t \in Members : FlagOf[t] = f
                                THEN 1 ELSE flag[f]]
  /\ UNCHANGED <<stage, destroyed>>

Destroy ==
  /\ frozen
  /\ ~destroyed
  /\ Members = {}
  /\ destroyed' = TRUE
  /\ UNCHANGED <<stage, flag, frozen>>

Next ==
  \/ \E t \in Threads : Joins(t) \/ Begins(t) \/ Leaves(t)
  \/ \E f \in Flags : Asks(f) \/ \E t \in Threads : TakesBack(t, f)
  \/ Freeze
  \/ Destroy

Spec == Init /\ [][Next]_groupVars
=============================================================================
