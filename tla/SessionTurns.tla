---------------------------- MODULE SessionTurns ----------------------------
(***************************************************************************)
(* What the sessions of a TV promise their PCs: they take turns.  One at a *)
(* time holds the TV, only its own threads start, each once, and only      *)
(* while its turn is open; a turn closes when every thread that started    *)
(* has left, ends after that, and never comes again.                       *)
(***************************************************************************)
CONSTANTS Sessions, NoSession, Roles

VARIABLES holder,     \* whose turn it is, or NoSession
          open,       \* threads may start
          started,    \* the threads that have started
          left,       \* the threads that have left
          over        \* the sessions that have had their turn

turnVars == <<holder, open, started, left, over>>

Init ==
  /\ holder = NoSession
  /\ open = FALSE
  /\ started = {}
  /\ left = {}
  /\ over = {}

Begin(s) ==
  /\ holder = NoSession
  /\ s \notin over
  /\ holder' = s
  /\ open' = TRUE
  /\ UNCHANGED <<started, left, over>>

Starts(r) ==
  /\ open
  /\ <<r, holder>> \notin started
  /\ started' = started \cup {<<r, holder>>}
  /\ UNCHANGED <<holder, open, left, over>>

Leaves(t) ==
  /\ t \in started \ left
  /\ left' = left \cup {t}
  /\ UNCHANGED <<holder, open, started, over>>

Close ==
  /\ open
  /\ started \subseteq left
  /\ open' = FALSE
  /\ UNCHANGED <<holder, started, left, over>>

End ==
  /\ holder # NoSession
  /\ ~open
  /\ holder' = NoSession
  /\ over' = over \cup {holder}
  /\ UNCHANGED <<open, started, left>>

Next ==
  \/ \E s \in Sessions : Begin(s)
  \/ \E r \in Roles : Starts(r)
  \/ \E t \in Roles \X Sessions : Leaves(t)
  \/ Close
  \/ End

Spec == Init /\ [][Next]_turnVars
=============================================================================
