--------------------------- MODULE KeyHook_proofs ---------------------------
(***************************************************************************)
(* For any number of hooks, events and gaps: with one hook at a time and   *)
(* no gap that an int does not hold, control ends exactly when it is due.  *)
(*                                                                         *)
(* The statics of is_cancel_control must agree, after every event handled, *)
(* with what the log says of the events up to that one.                    *)
(***************************************************************************)
EXTENDS KeyHook, TLAPS

Opened(h) == Listens(h) \/ hook[h] = "dead"

(* One hook at a time; without one there are no events.                    *)
Single ==
  ~twice =>
    /\ \A h \in Hooks : Opened(h) <=> (device_fd = h)
    /\ \A h \in Hooks : hook[h] = "starting" => device_fd = None
    /\ \A h, g \in Hooks :
         hook[h] = "starting" /\ hook[g] = "starting" => h = g
    /\ device_fd = None => log = << >>

(* What a hook has read and handled.                                       *)
Places ==
  \A h \in Hooks :
    /\ read[h] <= Len(log)
    /\ (~twice /\ device_fd = h) =>
         /\ handled[h] <= read[h]
         /\ hook[h] = "waiting" => handled[h] = read[h]

(* What an event adds to the one before it, by the clock of the events.    *)
Follows(p, e) ==
  /\ e.key = "back" =>
       /\ e.row = IF p.row > 0 /\ Minus(e.at, p.back) <= Limit
                  THEN p.row + 1 ELSE 1
       /\ e.back = e.at
       /\ e.due = IF e.row % 3 = 0 THEN p.due + 1 ELSE p.due
  /\ e.key = "other" => e.row = 0 /\ e.back = p.back /\ e.due = p.due
  /\ e.key = "press" => e.row = p.row /\ e.back = p.back /\ e.due = p.due

Chain == ~wrapped => \A i \in 1 .. Len(log) : Follows(Event(i - 1), log[i])

DueGrows == \A i \in 0 .. Len(log) : Event(i).due <= Last.due

(* The events' clock and the time that has passed agree.                   *)
ClockAgrees ==
  (~wrapped /\ Last.row > 0) =>
    since < Half /\ Last.at = Wrap(Last.back + since)

(* The last event handled, by the one hook there is.                       *)
Done == IF device_fd = None THEN 0 ELSE handled[device_fd]

StaticsAgree ==
  (~twice /\ ~wrapped) =>
    /\ idx = Event(Done).row % 3
    /\ Event(Done).row > 0 => t = Event(Done).back
    /\ exits = Event(Done).due

IInv == TypeOK /\ Single /\ Places /\ Chain /\ DueGrows /\ ClockAgrees
               /\ StaticsAgree

USE HookAssumption DEF Hooks, None, Keys

Integral == 0 .. 2 * Half - 1

-----------------------------------------------------------------------------
(* The arithmetic *)

(* Counting modulo three.                                                  *)
LEMMA Thirds ==
  ASSUME NEW r \in Nat
  PROVE  /\ r % 3 \in 0 .. 2
         /\ (r + 1) % 3 = ((r % 3) + 1) % 3
         /\ (r + 1) % 3 = 0 <=> r % 3 = 2
         /\ r % 3 # 0 => r > 0
  OBVIOUS

(* Wrap stays within the int's values.                                     *)
LEMMA WrapInRange ==
  ASSUME NEW a \in Integral, NEW g \in Integral
  PROVE  Wrap(a + g) \in Integral
  BY DEF Wrap, Integral

(* Adding in two steps, and taking off what was added.                     *)
LEMMA WrapAdds ==
  ASSUME NEW a \in Integral, NEW x \in Nat, NEW y \in Nat, x + y < Half
  PROVE  /\ Wrap(Wrap(a + x) + y) = Wrap(a + (x + y))
         /\ Minus(Wrap(a + (x + y)), a) = x + y
  BY DEF Wrap, Minus, Integral

(* The fields of an event, or of the origin.                               *)
LEMMA EventFields ==
  ASSUME TypeOK, NEW i \in 0 .. Len(log)
  PROVE  /\ Event(i).row \in Nat /\ Event(i).due \in Nat
         /\ Event(i).at \in Integral /\ Event(i).back \in Integral
         /\ i # 0 => Event(i).key \in Keys
<1>1. CASE i = 0
  BY <1>1 DEF Event, Origin, Integral
<1>2. CASE i # 0
  <2>1. log[i] \in Entry
    BY <1>2 DEF TypeOK
  <2> QED
    BY <1>2, <2>1 DEF Event, Entry, Integral
<1> QED
  BY <1>1, <1>2

-----------------------------------------------------------------------------
(* Initially *)

LEMMA InitIInv == Init => IInv
<1> SUFFICES ASSUME Init
             PROVE  IInv
  OBVIOUS
<1>1. ~twice /\ ~wrapped /\ twice \in BOOLEAN /\ wrapped \in BOOLEAN
  BY Zenon DEF Init
<1>2. TypeOK
  BY <1>1 DEF Init, TypeOK
<1>3. Single /\ Places /\ Chain
  BY DEF Init, Single, Places, Chain, Opened, Listens
<1>4. DueGrows /\ ClockAgrees /\ StaticsAgree
  BY DEF Init, DueGrows, ClockAgrees, StaticsAgree, Done, Event, Last, Origin
<1> QED
  BY <1>2, <1>3, <1>4 DEF IInv

-----------------------------------------------------------------------------
(* Type correctness *)

(* An event added to the log is one.                                       *)
LEMMA NewEntry ==
  ASSUME TypeOK, NEW key \in Keys, NEW gap \in Gaps, KeyEvent(key, gap)
  PROVE  /\ log' \in Seq(Entry) /\ since' \in Nat
         /\ \E e \in Entry :
              /\ log' = Append(log, e)
              /\ e.key = key
              /\ e.at = Wrap(Last.at + gap)
              /\ e.row = Row(key, gap)
              /\ e.back = IF key = "back" THEN e.at ELSE Last.back
              /\ e.due = IF key = "back" /\ e.row % 3 = 0 THEN Last.due + 1
                                                          ELSE Last.due
<1> DEFINE at == Wrap(Last.at + gap)
           row == Row(key, gap)
           e == [key |-> key, at |-> at, row |-> row,
                 back |-> IF key = "back" THEN at ELSE Last.back,
                 due |-> IF key = "back" /\ row % 3 = 0 THEN Last.due + 1
                                                        ELSE Last.due]
<1>1. Len(log) \in Nat /\ gap \in Integral /\ since \in Nat
  BY DEF TypeOK, Integral
<1>2. /\ Last.row \in Nat /\ Last.due \in Nat
      /\ Last.at \in Integral /\ Last.back \in Integral
  BY <1>1, EventFields DEF Last
<1>3. at \in Integral
  BY <1>1, <1>2, WrapInRange
<1>4. row \in Nat
  BY <1>2 DEF Row
<1>5. log' = Append(log, e) /\ since' \in Nat
  BY <1>1 DEF KeyEvent, Integral
<1> HIDE DEF at, row
<1>6. e \in Entry
  BY <1>2, <1>3, <1>4 DEF Entry, Integral
<1>7. log' \in Seq(Entry)
  BY <1>5, <1>6 DEF TypeOK
<1>8. /\ e.key = key /\ e.at = at /\ e.row = row
      /\ e.back = IF key = "back" THEN e.at ELSE Last.back
      /\ e.due = IF key = "back" /\ e.row % 3 = 0 THEN Last.due + 1
                                                  ELSE Last.due
  OBVIOUS
<1> HIDE DEF e
<1> QED
  BY <1>5, <1>6, <1>7, <1>8 DEF at, row

(* The event that a hook handles next has been read.                       *)
LEMMA TypeStep ==
  ASSUME TypeOK, Places, [Next]_vars
  PROVE  TypeOK'
<1> USE DEF TypeOK
<1>0. (twice' \in BOOLEAN) /\ (wrapped' \in BOOLEAN)
  <2>1. UNCHANGED twice \/ InitHook
    BY Zenon DEF Next, vars, KeyEvent, Open, OpenFails, ReadFails, Loops,
       Read, Handle, Rearm
  <2>2. UNCHANGED wrapped \/ \E key \in Keys, gap \in Gaps : KeyEvent(key, gap)
    BY Zenon DEF Next, vars, user, InitHook, Open, OpenFails, ReadFails,
       Loops, Read, Handle, Rearm
  <2> QED
    BY <2>1, <2>2, Zenon DEF InitHook, KeyEvent
<1>1. CASE UNCHANGED vars
  BY <1>0, <1>1 DEF vars, places, statics, user
<1>2. CASE InitHook
  BY <1>0, <1>2 DEF InitHook, places, statics, user
<1>3. ASSUME NEW key \in Keys, NEW gap \in Gaps, KeyEvent(key, gap)
      PROVE  TypeOK'
  BY <1>0, <1>3, NewEntry DEF KeyEvent, places, statics
<1>4. ASSUME NEW h \in Hooks, Open(h)
      PROVE  TypeOK'
  BY <1>0, <1>4 DEF Open, statics, user
<1>4a. ASSUME NEW h \in Hooks, OpenFails(h) \/ ReadFails(h)
      PROVE  TypeOK'
  BY <1>0, <1>4a DEF OpenFails, ReadFails, places, statics, user
<1>5. ASSUME NEW h \in Hooks, Read(h)
      PROVE  TypeOK'
  BY <1>0, <1>5 DEF Read, statics, user
<1>5a. ASSUME NEW h \in Hooks, Rearm(h)
      PROVE  TypeOK'
  BY <1>0, <1>5a DEF Rearm, places, statics, user
<1>6. ASSUME NEW h \in Hooks, Handle(h)
      PROVE  TypeOK'
  <2> DEFINE e == log[handled[h] + 1]
  <2>0. e \in Entry
    <3>1. handled[h] < read[h]
      BY <1>6, Zenon DEF Handle
    <3>2. /\ handled[h] \in Nat /\ read[h] \in Nat /\ read[h] <= Len(log)
          /\ Len(log) \in Nat
      BY DEF Places
    <3> QED
      BY <3>1, <3>2
  <2> HIDE DEF e
  <2>0a. e.at \in 0 .. 2 * Half - 1
    BY <2>0 DEF Entry
  <2>1. CASE e.key = "back" /\ Cancel(e)
    <3>1. /\ handled' = [handled EXCEPT ![h] = @ + 1]
          /\ UNCHANGED <<device_fd, hook, read, armed, hooks, user, twice>>
      BY <1>6, Zenon DEF Handle
    <3>2. idx' \in 0 .. 2 /\ t' \in 0 .. 2 * Half - 1 /\ exits' \in Nat
      BY <2>0a, <2>1 DEF Cancel
    <3> QED
      BY <1>0, <3>1, <3>2 DEF user
  <2>2. CASE e.key # "back"
    <3>1. /\ idx' = 0 \/ UNCHANGED idx
          /\ UNCHANGED <<t, exits>>
      BY <1>6, <2>2, Zenon DEF Handle, e, statics
    <3> QED
      BY <1>0, <1>6, <3>1 DEF Handle, user
  <2> QED
    BY <1>6, <2>1, <2>2 DEF Handle, e
<1> QED
  BY <1>1, <1>2, <1>3, <1>4, <1>4a, <1>5, <1>5a, <1>6
     DEF Next, Loops

-----------------------------------------------------------------------------
(* One hook *)

(* What a history once says it says for ever.                              *)
LEMMA HistoriesStay ==
  ASSUME [Next]_vars
  PROVE  (~twice' => ~twice) /\ (~wrapped' => ~wrapped)
<1>1. UNCHANGED twice \/ InitHook
  BY Zenon DEF Next, vars, KeyEvent, Open, OpenFails, ReadFails, Loops,
     Read, Handle, Rearm
<1>2. UNCHANGED wrapped \/ \E key \in Keys, gap \in Gaps : KeyEvent(key, gap)
  BY Zenon DEF Next, vars, user, InitHook, Open, OpenFails, ReadFails,
     Loops, Read, Handle, Rearm
<1> QED
  <2>1. InitHook => (twice => twice')
    BY Zenon DEF InitHook
  <2>2. (\E key \in Keys, gap \in Gaps : KeyEvent(key, gap))
          => (wrapped => wrapped')
    BY Zenon DEF KeyEvent
  <2>3. ~twice' => ~twice
    BY <1>1, <2>1, Zenon
  <2>4. ~wrapped' => ~wrapped
    BY <1>2, <2>2, Zenon
  <2> QED
    BY <2>3, <2>4, Zenon

LEMMA SingleStep ==
  ASSUME IInv, [Next]_vars, ~twice'
  PROVE  Single'
<1> USE DEF IInv, TypeOK, Single, Opened, Listens
<1>0. ~twice
  BY HistoriesStay
<1>0a. /\ \A h \in Hooks : Opened(h) <=> (device_fd = h)
       /\ \A h \in Hooks : hook[h] = "starting" => device_fd = None
       /\ \A h, g \in Hooks :
            hook[h] = "starting" /\ hook[g] = "starting" => h = g
  BY <1>0, Zenon DEF IInv, Single
<1>1. CASE UNCHANGED vars
  BY <1>0, <1>1 DEF vars, user
<1>2. CASE InitHook
  <2>1. \A h \in Hooks : hook[h] # "starting" /\ ~Listens(h)
    BY <1>2, Zenon DEF InitHook
  <2>2. hooks' \in Hooks /\ hook' = [hook EXCEPT ![hooks'] = "starting"]
        /\ device_fd = None /\ device_fd' = None /\ log' = log
    BY <1>2 DEF InitHook, user
  <2>3. \A h \in Hooks : ~Opened(h) /\ ~Opened(h)'
    BY <1>0, <2>1, <2>2
  <2> QED
    BY <1>0, <2>1, <2>2, <2>3
<1>3. ASSUME NEW key \in Keys, NEW gap \in Gaps, KeyEvent(key, gap)
      PROVE  Single'
  <2>1. UNCHANGED <<device_fd, hook>> /\ \E h \in Hooks : Listens(h)
    BY <1>3, Zenon DEF KeyEvent
  <2>2. device_fd # None
    <3>1. PICK h \in Hooks : Listens(h)
      BY <2>1
    <3>2. device_fd = h
      BY <1>0a, <3>1, Zenon DEF Opened
    <3> QED
      BY <3>2
  <2> QED
    BY <1>0, <2>1, <2>2
<1>4. ASSUME NEW h \in Hooks, Open(h)
      PROVE  Single'
  <2>1. /\ hook[h] = "starting" /\ device_fd' = h
        /\ hook' = [hook EXCEPT ![h] = "waiting"]
    BY <1>4 DEF Open
  <2>2. \A g \in Hooks : g # h => hook'[g] = hook[g] /\ ~Opened(g)
                                 /\ hook[g] # "starting"
    <3>1. device_fd = None
      BY <1>0a, <2>1, Zenon
    <3>2. \A g \in Hooks : ~Opened(g)
      BY <1>0a, <3>1
    <3>3. \A g \in Hooks : g # h => hook[g] # "starting"
      BY <1>0a, <2>1, Zenon
    <3> QED
      BY <2>1, <3>2, <3>3
  <2> QED
    BY <1>0, <2>1, <2>2
<1>5. ASSUME NEW h \in Hooks, OpenFails(h)
      PROVE  Single'
  BY <1>0, <1>5 DEF OpenFails, user
<1>6. ASSUME NEW h \in Hooks, ReadFails(h) \/ Read(h) \/ Rearm(h)
      PROVE  Single'
  <2>1. Listens(h) /\ device_fd' = device_fd /\ log' = log
    BY <1>6 DEF ReadFails, Read, Rearm, user
  <2>2. \E pc \in {"waiting", "handling", "dead"} :
          hook' = [hook EXCEPT ![h] = pc]
    BY <1>6 DEF ReadFails, Read, Rearm
  <2> QED
    BY <1>0, <2>1, <2>2
<1>7. ASSUME NEW h \in Hooks, Handle(h)
      PROVE  Single'
  BY <1>0, <1>7 DEF Handle, user
<1> QED
  BY <1>1, <1>2, <1>3, <1>4, <1>5, <1>6, <1>7 DEF Next, Loops

LEMMA PlacesStep ==
  ASSUME IInv, [Next]_vars
  PROVE  Places'
<1> USE DEF IInv, TypeOK, Single, Opened, Listens, Places
<1>0. ~twice' => ~twice
  BY HistoriesStay
<1>1. CASE UNCHANGED vars
  BY <1>0, <1>1 DEF vars, user, places
<1>2. CASE InitHook
  BY <1>0, <1>2 DEF InitHook, user, places
<1>3. ASSUME NEW key \in Keys, NEW gap \in Gaps, KeyEvent(key, gap)
      PROVE  Places'
  <2>1. Len(log') = Len(log) + 1
    BY <1>3, NewEntry
  <2> QED
    BY <1>0, <1>3, <2>1 DEF KeyEvent, places
<1>4. ASSUME NEW h \in Hooks, Open(h)
      PROVE  Places'
  BY <1>0, <1>4 DEF Open, user
<1>5. ASSUME NEW h \in Hooks, OpenFails(h) \/ ReadFails(h)
      PROVE  Places'
  BY <1>0, <1>5 DEF OpenFails, ReadFails, user, places
<1>6. ASSUME NEW h \in Hooks, Read(h)
      PROVE  Places'
  BY <1>0, <1>6 DEF Read, user
<1>7. ASSUME NEW h \in Hooks, Rearm(h)
      PROVE  Places'
  BY <1>0, <1>7 DEF Rearm, user, places
<1>8. ASSUME NEW h \in Hooks, Handle(h)
      PROVE  Places'
  BY <1>0, <1>8 DEF Handle, user
<1> QED
  BY <1>1, <1>2, <1>3, <1>4, <1>5, <1>6, <1>7, <1>8 DEF Next, Loops

-----------------------------------------------------------------------------
(* The log *)

(* The log grows by a key event only, and keeps the events it has.         *)
LEMMA LogGrows ==
  ASSUME TypeOK, NEW e \in Entry, log' = Append(log, e)
  PROVE  /\ Len(log') = Len(log) + 1 /\ Last' = e
         /\ \A i \in 0 .. Len(log) : Event(i)' = Event(i)
         /\ \A i \in 1 .. Len(log) : log'[i] = log[i]
         /\ log'[Len(log) + 1] = e
<1>1. /\ Len(log') = Len(log) + 1 /\ Len(log) \in Nat
      /\ \A i \in 1 .. Len(log) : log'[i] = log[i]
      /\ log'[Len(log) + 1] = e
  BY DEF TypeOK
<1> QED
  BY <1>1 DEF Event, Last

LEMMA LogStays ==
  ASSUME [Next]_vars
  PROVE  \/ UNCHANGED <<log, since, wrapped>>
         \/ \E key \in Keys, gap \in Gaps : KeyEvent(key, gap)
  BY Zenon DEF Next, vars, user, InitHook, Open, OpenFails, ReadFails,
     Loops, Read, Handle, Rearm

(* A key event's row is what is_cancel_control can tell from the clock.    *)
LEMMA LogStep ==
  ASSUME IInv, [Next]_vars
  PROVE  Chain' /\ DueGrows' /\ ClockAgrees'
<1>1. CASE UNCHANGED <<log, since, wrapped>>
  <2>1. \A i : Event(i)' = Event(i)
    BY <1>1 DEF Event
  <2>2. Last' = Last
    BY <1>1, <2>1 DEF Last
  <2> QED
    BY <1>1, <2>1, <2>2 DEF IInv, Chain, DueGrows, ClockAgrees
<1>2. ASSUME NEW key \in Keys, NEW gap \in Gaps, KeyEvent(key, gap)
      PROVE  Chain' /\ DueGrows' /\ ClockAgrees'
  <2>1. TypeOK
    BY DEF IInv
  <2>2. PICK e \in Entry :
          /\ log' = Append(log, e)
          /\ e.key = key
          /\ e.at = Wrap(Last.at + gap)
          /\ e.row = Row(key, gap)
          /\ e.back = IF key = "back" THEN e.at ELSE Last.back
          /\ e.due = IF key = "back" /\ e.row % 3 = 0 THEN Last.due + 1
                                                      ELSE Last.due
    BY <1>2, <2>1, NewEntry
  <2>3. /\ Last.row \in Nat /\ Last.due \in Nat
        /\ Last.at \in Integral /\ Last.back \in Integral
        /\ since \in Nat /\ gap \in Integral /\ Len(log) \in Nat
    BY <2>1, EventFields DEF Last, TypeOK, Integral
  <2>4. /\ Len(log') = Len(log) + 1 /\ Last' = e
        /\ \A i \in 0 .. Len(log) : Event(i)' = Event(i)
        /\ \A i \in 1 .. Len(log) : log'[i] = log[i]
        /\ log'[Len(log) + 1] = e
    BY <2>1, <2>2, LogGrows
  <2>5. since' = IF key = "back" THEN 0 ELSE since + gap
    BY <1>2 DEF KeyEvent
  <2>6. ~wrapped' => ~wrapped /\ (Last.row > 0 => since + gap < Half)
    <3>1. ~wrapped' => ~wrapped /\ ~(Last.row > 0 /\ since + gap >= Half)
      BY <1>2, Zenon DEF KeyEvent
    <3>2. ~(Last.row > 0 /\ since + gap >= Half)
            => (Last.row > 0 => since + gap < Half)
      BY <2>3 DEF Integral
    <3> QED
      BY <3>1, <3>2, Zenon
  <2>7. ~wrapped' => (Last.row > 0 =>
                       /\ e.at = Wrap(Last.back + (since + gap))
                       /\ Minus(e.at, Last.back) = since + gap)
    <3> SUFFICES ASSUME ~wrapped', Last.row > 0
                 PROVE  /\ e.at = Wrap(Last.back + (since + gap))
                        /\ Minus(e.at, Last.back) = since + gap
      OBVIOUS
    <3>1. since + gap < Half /\ Last.at = Wrap(Last.back + since)
      BY <2>6 DEF IInv, ClockAgrees
    <3>2. gap \in Nat
      BY <2>3 DEF Integral
    <3>3. Last.back \in Integral /\ since \in Nat
      BY <2>3
    <3>4. /\ Wrap(Wrap(Last.back + since) + gap)
               = Wrap(Last.back + (since + gap))
          /\ Minus(Wrap(Last.back + (since + gap)), Last.back) = since + gap
      BY <3>1, <3>2, <3>3, WrapAdds
    <3>5. e.at = Wrap(Wrap(Last.back + since) + gap)
      BY <2>2, <3>1
    <3> QED
      BY <3>4, <3>5
  <2>8. ~wrapped' => Follows(Last, e)
    <3> SUFFICES ASSUME ~wrapped'
                 PROVE  Follows(Last, e)
      OBVIOUS
    <3>1. CASE key = "back"
      <4>1. e.row = IF Last.row > 0 /\ since + gap <= Limit
                    THEN Last.row + 1 ELSE 1
        BY <2>2, <3>1 DEF Row
      <4>2. e.row = IF Last.row > 0 /\ Minus(e.at, Last.back) <= Limit
                    THEN Last.row + 1 ELSE 1
        BY <2>7, <4>1
      <4> QED
        BY <2>2, <3>1, <4>2 DEF Follows
    <3>2. CASE key = "other"
      BY <2>2, <3>2 DEF Follows, Row
    <3>3. CASE key = "press"
      BY <2>2, <3>3 DEF Follows, Row
    <3> QED
      BY <3>1, <3>2, <3>3
  <2>9. Chain'
    <3> SUFFICES ASSUME ~wrapped', NEW i \in 1 .. Len(log')
                 PROVE  Follows(Event(i - 1), log[i])'
      BY DEF Chain
    <3>1. CASE i = Len(log) + 1
      <4>1. Event(i - 1)' = Last /\ log'[i] = e
        BY <2>3, <2>4, <3>1 DEF Last
      <4> QED
        BY <2>8, <4>1 DEF Follows
    <3>2. CASE i # Len(log) + 1
      <4>1. i \in 1 .. Len(log) /\ i - 1 \in 0 .. Len(log)
        BY <2>3, <2>4, <3>2
      <4>2. Event(i - 1)' = Event(i - 1) /\ log'[i] = log[i]
        BY <2>4, <4>1
      <4>3. Follows(Event(i - 1), log[i])
        BY <2>6, <4>1 DEF IInv, Chain
      <4> QED
        BY <4>2, <4>3 DEF Follows
    <3> QED
      BY <3>1, <3>2
  <2>10. DueGrows'
    <3>1. e.due \in Nat /\ Last.due <= e.due
      BY <2>2, <2>3
    <3> SUFFICES ASSUME NEW i \in 0 .. Len(log')
                 PROVE  Event(i)'.due <= Last'.due
      BY DEF DueGrows
    <3>2. CASE i = Len(log) + 1
      <4>1. Event(i)' = Last'
        BY <2>4, <3>2 DEF Last
      <4> QED
        BY <2>4, <3>1, <4>1
    <3>3. CASE i # Len(log) + 1
      <4>1. i \in 0 .. Len(log)
        BY <2>3, <2>4, <3>3
      <4>2. Event(i).due <= Last.due /\ Event(i).due \in Nat
        BY <2>1, <4>1, EventFields DEF IInv, DueGrows
      <4> QED
        BY <2>3, <2>4, <3>1, <4>1, <4>2
    <3> QED
      BY <3>2, <3>3
  <2>11. ClockAgrees'
    <3> SUFFICES ASSUME ~wrapped', Last'.row > 0
                 PROVE  since' < Half /\ Last'.at = Wrap(Last'.back + since')
      BY DEF ClockAgrees, Wrap
    <3>1. CASE key = "back"
      <4>1. e.at \in Integral
        BY <2>2, <2>3, WrapInRange
      <4> QED
        BY <2>2, <2>4, <2>5, <3>1, <4>1 DEF Wrap, Integral
    <3>2. CASE key = "press"
      <4>1. e.row = Last.row /\ e.back = Last.back
        BY <2>2, <3>2 DEF Row
      <4> QED
        BY <2>4, <2>5, <2>6, <2>7, <3>2, <4>1
    <3>3. CASE key = "other"
      BY <2>2, <2>4, <3>3 DEF Row
    <3> QED
      BY <3>1, <3>2, <3>3
  <2> QED
    BY <2>9, <2>10, <2>11
<1> QED
  BY <1>1, <1>2, LogStays

-----------------------------------------------------------------------------
(* The statics *)

(* An event handled, or Origin, is in the log.                             *)
LEMMA DoneInLog ==
  ASSUME IInv, ~twice
  PROVE  /\ Done \in 0 .. Len(log)
         /\ device_fd \in Hooks => Done = handled[device_fd]
         /\ device_fd = None => Done = 0
<1>1. Len(log) \in Nat /\ device_fd \in Hooks \cup {None}
  BY DEF IInv, TypeOK
<1>2. CASE device_fd = None
  BY <1>1, <1>2 DEF Done
<1>3. CASE device_fd \in Hooks
  <2>1. /\ handled[device_fd] <= read[device_fd]
        /\ read[device_fd] <= Len(log)
        /\ handled[device_fd] \in Nat /\ read[device_fd] \in Nat
    BY <1>3 DEF IInv, TypeOK, Places
  <2>2. Done = handled[device_fd]
    BY <1>3 DEF Done
  <2> QED
    BY <1>1, <1>3, <2>1, <2>2
<1> QED
  BY <1>1, <1>2, <1>3

(* is_cancel_control moves the statics as the log says it should.          *)
LEMMA CancelAgrees ==
  ASSUME NEW p, NEW e \in Entry, NEW idx0, NEW t0, NEW from,
         p.row \in Nat, p.due \in Nat, e.at \in Nat,
         e.key = "back", Follows(p, e),
         idx0 = p.row % 3, p.row > 0 => t0 = p.back,
         from = IF idx0 > 0 /\ Minus(e.at, t0) > Limit THEN 0 ELSE idx0,
         Minus(e.at, t0) \in Int
  PROVE  /\ (from + 1) % 3 = e.row % 3
         /\ e.row > 0 /\ e.at = e.back
         /\ e.due = IF from = 2 THEN p.due + 1 ELSE p.due
<1>1. /\ e.row = IF p.row > 0 /\ Minus(e.at, p.back) <= Limit
                 THEN p.row + 1 ELSE 1
      /\ e.back = e.at
      /\ e.due = IF e.row % 3 = 0 THEN p.due + 1 ELSE p.due
  BY DEF Follows
<1>2. /\ p.row % 3 \in 0 .. 2
      /\ (p.row + 1) % 3 = ((p.row % 3) + 1) % 3
      /\ (p.row + 1) % 3 = 0 <=> p.row % 3 = 2
      /\ p.row % 3 # 0 => p.row > 0
  BY Thirds
<1>3. CASE p.row > 0 /\ Minus(e.at, p.back) <= Limit
  <2>1. from = p.row % 3 /\ e.row = p.row + 1
    BY <1>1, <1>2, <1>3
  <2> QED
    BY <1>1, <1>2, <2>1
<1>4. CASE ~(p.row > 0 /\ Minus(e.at, p.back) <= Limit)
  <2>1. e.row = 1
    BY <1>1, <1>4
  <2>2. from = 0
    BY <1>2, <1>4
  <2> QED
    BY <1>1, <2>1, <2>2
<1> QED
  BY <1>3, <1>4

LEMMA StaticsStep ==
  ASSUME IInv, [Next]_vars, ~twice', ~wrapped'
  PROVE  StaticsAgree'
<1>0. /\ ~twice /\ ~wrapped /\ TypeOK
      /\ idx = Event(Done).row % 3
      /\ Event(Done).row > 0 => t = Event(Done).back
      /\ exits = Event(Done).due
  BY HistoriesStay DEF IInv, StaticsAgree
<1>0a. /\ \A h \in Hooks : Opened(h) <=> (device_fd = h)
       /\ \A h \in Hooks : hook[h] = "starting" => device_fd = None
       /\ device_fd = None => log = << >>
       /\ device_fd \in Hooks \cup {None}
  BY <1>0 DEF IInv, Single, TypeOK
<1>1. ASSUME UNCHANGED <<log, statics>>, Done' = Done
      PROVE  StaticsAgree'
  <2>1. Event(Done)' = Event(Done)
    BY <1>1 DEF Event
  <2> QED
    BY <1>0, <1>1, <2>1 DEF StaticsAgree, statics
<1>2. CASE UNCHANGED vars
  BY <1>1, <1>2 DEF vars, places, statics, user, Done
<1>3. CASE InitHook
  BY <1>1, <1>3 DEF InitHook, places, statics, user, Done
<1>4. ASSUME NEW key \in Keys, NEW gap \in Gaps, KeyEvent(key, gap)
      PROVE  StaticsAgree'
  <2>1. PICK e \in Entry : log' = Append(log, e)
    BY <1>0, <1>4, NewEntry
  <2>2. Done' = Done /\ UNCHANGED statics
    BY <1>4 DEF KeyEvent, places, Done
  <2>3. Event(Done)' = Event(Done)
    BY <1>0, <2>1, <2>2, DoneInLog, LogGrows DEF Event
  <2> QED
    BY <1>0, <2>2, <2>3 DEF StaticsAgree, statics
<1>5. ASSUME NEW h \in Hooks, Open(h)
      PROVE  StaticsAgree'
  <2>1. device_fd = None /\ log = << >> /\ Done = 0
    BY <1>0a, <1>5 DEF Open, Done
  <2>2. handled'[h] = Len(log) /\ device_fd' = h
    BY <1>0, <1>5 DEF Open, TypeOK
  <2>3. Done' = Done
    BY <2>1, <2>2 DEF Done
  <2> QED
    BY <1>1, <1>5, <2>3 DEF Open, user
<1>6. ASSUME NEW h \in Hooks, OpenFails(h)
      PROVE  StaticsAgree'
  BY <1>0a, <1>1, <1>6 DEF OpenFails, places, user, Done
<1>7. ASSUME NEW h \in Hooks, ReadFails(h) \/ Read(h) \/ Rearm(h)
      PROVE  StaticsAgree'
  BY <1>1, <1>7 DEF ReadFails, Read, Rearm, places, user, Done
<1>8. ASSUME NEW h \in Hooks, Handle(h)
      PROVE  StaticsAgree'
  <2> DEFINE p == Event(Done)
             e == log[handled[h] + 1]
             n == handled[h]
  <2>1. device_fd = h /\ device_fd' = h /\ Done = n
    BY <1>0, <1>0a, <1>8, DoneInLog DEF Handle, Opened, Listens
  <2>2. n \in Nat /\ n + 1 \in 1 .. Len(log)
    BY <1>0, <1>8 DEF Handle, TypeOK, IInv, Places
  <2>3. e \in Entry /\ Follows(p, e)
    <3>1. Follows(Event((n + 1) - 1), log[n + 1])
      BY <1>0, <2>2 DEF IInv, Chain
    <3> QED
      BY <1>0, <2>1, <2>2, <3>1 DEF TypeOK
  <2>4. Done' = n + 1 /\ log' = log
    BY <1>0, <1>8, <2>1 DEF Handle, Done, TypeOK, user
  <2>5. Event(Done)' = e
    BY <2>2, <2>4 DEF Event
  <2>6. p.row \in Nat /\ p.due \in Nat /\ e.at \in Integral
    BY <1>0, <2>3, DoneInLog, EventFields DEF Entry, Integral
  <2> HIDE DEF e, p, n
  <2>7. CASE e.key = "back" /\ Cancel(e)
    <3> DEFINE from == IF idx > 0 /\ Minus(e.at, t) > Limit THEN 0 ELSE idx
    <3>1. /\ idx' = (from + 1) % 3 /\ t' = e.at
          /\ exits' = IF from = 2 THEN exits + 1 ELSE exits
      BY <2>7 DEF Cancel
    <3>2. Minus(e.at, t) \in Int /\ e.at \in Nat
      BY <1>0, <2>6 DEF TypeOK, Minus, Integral
    <3>3. idx = p.row % 3 /\ (p.row > 0 => t = p.back) /\ exits = p.due
      BY <1>0 DEF p
    <3>4. /\ (from + 1) % 3 = e.row % 3
          /\ e.row > 0 /\ e.at = e.back
          /\ e.due = IF from = 2 THEN p.due + 1 ELSE p.due
      BY <2>3, <2>6, <2>7, <3>2, <3>3, CancelAgrees
    <3> QED
      BY <2>5, <3>1, <3>3, <3>4 DEF StaticsAgree
  <2>8. CASE e.key = "other" /\ idx' = 0 /\ UNCHANGED <<t, exits>>
    <3>1. e.row = 0 /\ e.due = p.due
      BY <2>3, <2>8 DEF Follows
    <3> QED
      BY <1>0, <2>5, <2>8, <3>1 DEF StaticsAgree, p
  <2>9. CASE e.key = "press" /\ UNCHANGED statics
    <3>1. e.row = p.row /\ e.due = p.due /\ e.back = p.back
      BY <2>3, <2>9 DEF Follows
    <3> QED
      BY <1>0, <2>5, <2>9, <3>1 DEF StaticsAgree, statics, p
  <2> QED
    BY <1>8, <2>7, <2>8, <2>9 DEF Handle, e
<1> QED
  BY <1>2, <1>3, <1>4, <1>5, <1>6, <1>7, <1>8 DEF Next, Loops

-----------------------------------------------------------------------------
LEMMA Invariance == Spec => []IInv
<1>1. IInv /\ [Next]_vars => IInv'
  <2> SUFFICES ASSUME IInv, [Next]_vars
               PROVE  IInv'
    OBVIOUS
  <2>1. TypeOK' /\ Places' /\ Chain' /\ DueGrows' /\ ClockAgrees'
    BY TypeStep, PlacesStep, LogStep DEF IInv
  <2>2. Single'
    BY SingleStep DEF Single
  <2>3. StaticsAgree'
    BY StaticsStep DEF StaticsAgree
  <2> QED
    BY <2>1, <2>2, <2>3 DEF IInv
<1> QED
  BY InitIInv, <1>1, PTL DEF Spec

(* The hook's variables keep their types: the row counter of               *)
(* is_cancel_control indexes codes[] within its bounds between two events. *)
THEOREM TypeCorrect == Spec => []TypeOK
<1>1. IInv => TypeOK
  BY DEF IInv
<1> QED
  BY Invariance, <1>1, PTL

(* For any Limit and width of the int: the control ends when back was      *)
(* released three times quickly, and never before or otherwise.            *)
THEOREM EndsWhenDue == Spec => []ExitsAsDue
<1>1. ASSUME IInv
      PROVE  ExitsAsDue
  <2> SUFFICES ASSUME ~twice, ~wrapped
               PROVE  /\ exits <= Last.due
                      /\ (\A h \in Hooks : hook[h] # "dead" /\ ~Unhandled(h))
                           => exits = Last.due
    BY DEF ExitsAsDue
  <2>1. exits = Event(Done).due /\ Done \in 0 .. Len(log)
    BY <1>1, DoneInLog DEF IInv, StaticsAgree
  <2>2. exits <= Last.due
    BY <1>1, <2>1 DEF IInv, DueGrows
  <2>3. ASSUME \A h \in Hooks : hook[h] # "dead" /\ ~Unhandled(h)
        PROVE  exits = Last.due
    <3>1. device_fd \in Hooks \cup {None}
      BY <1>1 DEF IInv, TypeOK
    <3>2. CASE device_fd = None
      <4>1. Len(log) = 0 /\ Done = 0
        BY <1>1, <3>2, DoneInLog DEF IInv, Single
      <4> QED
        BY <2>1, <4>1 DEF Last
    <3>3. CASE device_fd \in Hooks
      <4>1. Opened(device_fd)
        BY <1>1, <3>3 DEF IInv, Single
      <4>2. Listens(device_fd) /\ ~Unhandled(device_fd)
        BY <2>3, <3>3, <4>1 DEF Opened
      <4>3. Done = handled[device_fd] /\ handled[device_fd] \in Nat
        BY <1>1, <3>3, DoneInLog DEF IInv, TypeOK
      <4>4. ~(handled[device_fd] < Len(log)) /\ Len(log) \in Nat
        BY <1>1, <4>2 DEF Unhandled, IInv, TypeOK
      <4>5. Done = Len(log)
        BY <2>1, <4>3, <4>4
      <4> QED
        BY <2>1, <4>5 DEF Last
    <3> QED
      BY <3>1, <3>2, <3>3
  <2> QED
    BY <2>2, <2>3
<1> QED
  BY Invariance, <1>1, PTL
=============================================================================
