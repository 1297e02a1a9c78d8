------------------------------ MODULE KeyHook ------------------------------
(***************************************************************************)
(* The key hook (KeyDispatchManager.cpp).  A thread of its own reads the   *)
(* remote control's key events from an input device and counts the         *)
(* releases of the back key; the third in a row, each within two seconds   *)
(* of the one before, ends the PC's control.  init is called whenever the  *)
(* native library or a session is set up, and starts a hook if device_fd   *)
(* is still -1.                                                            *)
(*                                                                         *)
(* The kernel queues the events for every hook's descriptor; what a hook   *)
(* has read and handled of them is a place in the log of all events.  The  *)
(* counter idx and the time t of the last release are shared by all hooks. *)
(* Times are in milliseconds, kept in an int.                              *)
(***************************************************************************)
EXTENDS Integers, Sequences

CONSTANTS MaxHooks,     \* bound: hooks that are started
          MaxEvents,    \* bound: key events
          Gaps,         \* times between key events
          Limit,        \* 2000: "quickly"
          Half,         \* 2^31: one more than the largest int
          PerRead       \* 2: events that one read has room for

ASSUME HookAssumption ==
  /\ MaxHooks \in Nat /\ MaxEvents \in Nat
  /\ Half \in Nat /\ Limit \in 0 .. Half - 1
  /\ Gaps \subseteq 0 .. 2 * Half - 1
  /\ PerRead \in Nat \ {0}

Hooks == 1 .. MaxHooks
None == 0               \* a device_fd of -1

VARIABLES device_fd,    \* the hook whose descriptor it is, or None
          hook,         \* hook[h]: see TypeOK
          log,          \* the key events so far, see Entry
          read,         \* read[h]: the last event h has read
          handled,      \* handled[h]: the last event h has handled
          armed,        \* the hooks for which epoll has an event to report
          idx, t,       \* the statics of is_cancel_control
          exits,        \* how often it has ended the PC's control
          hooks,        \* hooks that have been started
          since,        \* history: the time since the last back release
          twice,        \* history: a hook was started beside another
          wrapped       \* history: a gap that an int does not hold

statics == <<idx, t, exits>>
places == <<read, handled>>
user == <<log, since, wrapped>>
vars == <<device_fd, hook, places, armed, statics, hooks, user, twice>>

(* An event's key and time, and what should have come of it and of those   *)
(* before it: the quick back releases in a row, the time of the last, and  *)
(* how often control should have ended.                                    *)
Keys == {"back", "other", "press"}
Entry == [key : Keys, at : 0 .. 2 * Half - 1, row : Nat,
          back : 0 .. 2 * Half - 1, due : Nat]
Origin == [key |-> "press", at |-> 0, row |-> 0, back |-> 0, due |-> 0]
Event(i) == IF i = 0 THEN Origin ELSE log[i]
Last == Event(Len(log))

Init ==
  /\ device_fd = None
  /\ hook = [h \in Hooks |-> "none"]
  /\ log = << >>
  /\ read = [h \in Hooks |-> 0] /\ handled = [h \in Hooks |-> 0]
  /\ armed = {}
  /\ idx = 0 /\ t = 0 /\ exits = 0
  /\ hooks = 0
  /\ since = 0
  /\ twice = FALSE /\ wrapped = FALSE

Listens(h) == hook[h] \in {"waiting", "handling"}

(* The values of an int, as 0 .. 2 * Half - 1, and their difference.       *)
Wrap(n) == IF n >= 2 * Half THEN n - 2 * Half ELSE n
Minus(a, b) ==
  LET d == IF a >= b THEN a - b ELSE a - b + 2 * Half
  IN  IF d < Half THEN d ELSE d - 2 * Half

-----------------------------------------------------------------------------
(* The start of a hook *)

(* device_fd stays -1 until the new thread has opened the device.          *)
InitHook ==
  /\ device_fd = None
  /\ hooks < MaxHooks
  /\ hooks' = hooks + 1
  /\ hook' = [hook EXCEPT ![hooks'] = "starting"]
  /\ twice' = (twice \/ \E h \in Hooks : hook[h] = "starting" \/ Listens(h))
  /\ UNCHANGED <<device_fd, places, armed, statics, user>>

Open(h) ==
  /\ hook[h] = "starting"
  /\ hook' = [hook EXCEPT ![h] = "waiting"]
  /\ device_fd' = h
  /\ read' = [read EXCEPT ![h] = Len(log)]
  /\ handled' = [handled EXCEPT ![h] = Len(log)]
  /\ UNCHANGED <<armed, statics, hooks, user, twice>>

(* The thread waits for ever for the events of descriptor -1.              *)
OpenFails(h) ==
  /\ hook[h] = "starting"
  /\ hook' = [hook EXCEPT ![h] = "blind"]
  /\ device_fd' = None
  /\ UNCHANGED <<places, armed, statics, hooks, user, twice>>

-----------------------------------------------------------------------------
(* The user *)

(* What should come of an event: a release of the back key continues a row *)
(* or begins one, any other key's release ends it.                         *)
Row(key, gap) ==
  CASE key = "back" ->
         IF Last.row > 0 /\ since + gap <= Limit THEN Last.row + 1 ELSE 1
    [] key = "other" -> 0
    [] key = "press" -> Last.row

(* A key is released, or ("press") pressed or held, gap after the last.    *)
KeyEvent(key, gap) ==
  LET at == Wrap(Last.at + gap)
      row == Row(key, gap)
  IN  /\ Len(log) < MaxEvents
      /\ \E h \in Hooks : Listens(h)
      /\ log' = Append(log,
                  [key |-> key, at |-> at, row |-> row,
                   back |-> IF key = "back" THEN at ELSE Last.back,
                   due |-> IF key = "back" /\ row % 3 = 0 THEN Last.due + 1
                                                          ELSE Last.due])
      /\ since' = IF key = "back" THEN 0 ELSE since + gap
      /\ wrapped' = (wrapped \/ (Last.row > 0 /\ since + gap >= Half))
      /\ armed' = armed \cup {h \in Hooks : Listens(h)}
      /\ UNCHANGED <<device_fd, hook, places, statics, hooks, twice>>

-----------------------------------------------------------------------------
(* ir_hook_proc's loop *)

(* epoll reports a change once; one read takes what it has room for.       *)
Read(h) ==
  /\ hook[h] = "waiting" /\ h \in armed
  /\ hook' = [hook EXCEPT ![h] = "handling"]
  /\ armed' = armed \ {h}
  /\ read' = [read EXCEPT ![h] =
                IF @ + PerRead < Len(log) THEN @ + PerRead ELSE Len(log)]
  /\ UNCHANGED <<device_fd, handled, statics, hooks, user, twice>>

(* The device is gone: device_fd keeps the number of the closed descriptor *)
(* and no other hook is ever started.                                      *)
ReadFails(h) ==
  /\ hook[h] = "waiting"
  /\ hook' = [hook EXCEPT ![h] = "dead"]
  /\ armed' = armed \ {h}
  /\ UNCHANGED <<device_fd, places, statics, hooks, user, twice>>

(* Faulty: the counter is not reset by the third release.                  *)
CancelUnreset(e) ==
  LET from == IF idx > 0 /\ Minus(e.at, t) > Limit THEN 0 ELSE idx
  IN  /\ idx' = from + 1
      /\ t' = e.at
      /\ exits' = IF from = 2 THEN exits + 1 ELSE exits

(* Faulty: the time of the last release is that of the first in a row.     *)
CancelFromFirst(e) ==
  LET from == IF idx > 0 /\ Minus(e.at, t) > Limit THEN 0 ELSE idx
  IN  /\ idx' = (from + 1) % 3
      /\ t' = IF from = 0 THEN e.at ELSE t
      /\ exits' = IF from = 2 THEN exits + 1 ELSE exits

(* is_cancel_control for a back release, and what its success does.        *)
Cancel(e) ==
  LET from == IF idx > 0 /\ Minus(e.at, t) > Limit THEN 0 ELSE idx
  IN  /\ idx' = (from + 1) % 3
      /\ t' = e.at
      /\ exits' = IF from = 2 THEN exits + 1 ELSE exits

(* handle_ir_event; only releases reach is_cancel_control.                 *)
Handle(h) ==
  LET e == log[handled[h] + 1]
  IN  /\ hook[h] = "handling" /\ handled[h] < read[h]
      /\ \/ e.key = "back" /\ Cancel(e)
         \/ e.key = "other" /\ idx' = 0 /\ UNCHANGED <<t, exits>>
         \/ e.key = "press" /\ UNCHANGED statics
      /\ handled' = [handled EXCEPT ![h] = @ + 1]
      /\ UNCHANGED <<device_fd, hook, read, armed, hooks, user, twice>>

(* Faulty: epoll is not asked again for what was left unread.              *)
RearmNothing(h) ==
  /\ hook[h] = "handling" /\ handled[h] = read[h]
  /\ hook' = [hook EXCEPT ![h] = "waiting"]
  /\ UNCHANGED <<device_fd, places, armed, statics, hooks, user, twice>>

(* EPOLL_CTL_MOD: what was left unread is reported again.                  *)
Rearm(h) ==
  /\ hook[h] = "handling" /\ handled[h] = read[h]
  /\ hook' = [hook EXCEPT ![h] = "waiting"]
  /\ armed' = IF read[h] < Len(log) THEN armed \cup {h} ELSE armed
  /\ UNCHANGED <<device_fd, places, statics, hooks, user, twice>>

Loops(h) == Read(h) \/ Handle(h) \/ Rearm(h)

-----------------------------------------------------------------------------
Next ==
  \/ InitHook
  \/ \E key \in Keys, gap \in Gaps : KeyEvent(key, gap)
  \/ \E h \in Hooks : Open(h) \/ OpenFails(h) \/ ReadFails(h) \/ Loops(h)

(* The hook runs; nobody makes the user press keys or the device open.     *)
Spec == Init /\ [][Next]_vars /\ \A h \in Hooks : WF_vars(Loops(h))
-----------------------------------------------------------------------------
TypeOK ==
  /\ device_fd \in Hooks \cup {None}
  /\ hook \in [Hooks -> {"none", "starting", "waiting", "handling", "blind",
                         "dead"}]
  /\ log \in Seq(Entry)
  /\ read \in [Hooks -> Nat] /\ handled \in [Hooks -> Nat]
  /\ armed \subseteq Hooks
  /\ idx \in 0 .. 2 /\ t \in 0 .. 2 * Half - 1 /\ exits \in Nat
  /\ hooks \in 0 .. MaxHooks
  /\ since \in Nat
  /\ twice \in BOOLEAN /\ wrapped \in BOOLEAN

Unhandled(h) == Listens(h) /\ handled[h] < Len(log)

(* With one hook at a time, and as long as no row has a gap of 2^31 ms,    *)
(* control ends when back was pressed three times quickly and not          *)
(* otherwise: never before the user's third release, and as often as due   *)
(* once all events have been handled, however they were split into reads.  *)
ExitsAsDue ==
  (~twice /\ ~wrapped) =>
    /\ exits <= Last.due
    /\ (\A h \in Hooks : hook[h] # "dead" /\ ~Unhandled(h))
         => exits = Last.due

(* A hook that lives handles every event, although one read has not room   *)
(* for all of them and epoll reports a change only once.                   *)
EventsAreHandled ==
  \A h \in Hooks : Unhandled(h) ~> ~Unhandled(h)
=============================================================================
