----------------------------- MODULE VncThreads -----------------------------
(***************************************************************************)
(* A session's thread group (VncThreads.cpp).  addThread starts a thread   *)
(* and lists it; a thread's last act is exitThread, which unlists it; the  *)
(* destructor asks the listed threads to stop (stopAll), freezes the group *)
(* and polls until the list is empty.                                      *)
(*                                                                         *)
(* A thread is asked to stop through a flag of its kind, which its         *)
(* notify_exit function sets to 1.  Flags are put down again by threads    *)
(* that begin to run (VncCtrl.cpp:242, 294 and 383,                        *)
(* VncCommandProcessor.cpp:331 and 489, VncTelnetAgent.cpp:122), not only  *)
(* by those that obey them: a single screenshot, which nobody can stop,    *)
(* puts down the flag of the repeated ones (VncCommandProcessor.cpp:208    *)
(* and 290).  And a running member does so too: the processor before it    *)
(* adds a reader of the telnet daemon (VncTelnetAgent.cpp:76) or of logcat *)
(* (VncLogcatAgent.cpp:221), which itself puts nothing down; the former    *)
(* once more at its end (VncTelnetAgent.cpp:165).                          *)
(*                                                                         *)
(* Threads are added by the thread that created the group, before it is    *)
(* done, and by running members (the command processor starts workers).    *)
(* What an alarm's handler does to a member is in AlarmQueue.              *)
(***************************************************************************)
EXTENDS Integers, FiniteSets

CONSTANTS Threads,      \* the threads that may be started in the group
          Creator,      \* the thread that ran new VncThreads
          NoThread,     \* nobody holds the mutex
          Flags,        \* the exit flags
          NoFlag,       \* of a thread added with a null notify_exit
          FlagOf,       \* FlagOf[t]: the flag t obeys and is stopped by
          Resets,       \* Resets[t]: the flags t puts down when it begins
          Lowers,       \* Lowers[t]: those it may put down later
          Finite        \* threads whose work ends of itself

ASSUME ThreadAssumption ==
  /\ Creator \notin Threads
  /\ NoThread \notin Threads \cup {Creator}
  /\ NoFlag \notin Flags
  /\ FlagOf \in [Threads -> Flags \cup {NoFlag}]
  /\ Resets \in [Threads -> SUBSET Flags]
  /\ Lowers \in [Threads -> SUBSET Flags]
  /\ Finite \subseteq Threads

Adders == Threads \cup {Creator}

VARIABLES m_freeze,    \* set by stopAll
          m_pthreads,  \* the listed threads
          m_mutex,     \* the holder, or NoThread
          life,        \* life[t]: how far thread t is
          apc,         \* apc[a]: where adder a is in addThread
          adding,      \* adding[a]: the thread a is adding
          flag,        \* flag[f]: 1 asks the threads of that kind to stop
          dpc,         \* the destructor: "alive", "stop", "poll", "done"
          lateReset,   \* history: the flags put down after stopAll
          lateAdded    \* history: the threads created after stopAll

vars == <<m_freeze, m_pthreads, m_mutex, life, apc, adding, flag, dpc,
          lateReset, lateAdded>>

Init ==
  /\ m_freeze = FALSE
  /\ m_pthreads = {}
  /\ m_mutex = NoThread
  /\ life = [t \in Threads |-> "none"]
  /\ apc = [a \in Adders |-> "idle"]
  /\ adding = [a \in Adders |-> NoThread]
  /\ flag = [f \in Flags |-> 0]
  /\ dpc = "alive"
  /\ lateReset = {}
  /\ lateAdded = {}

Lock(t) == m_mutex = NoThread /\ m_mutex' = t
Unlock == m_mutex' = NoThread

AddStep(a, from, to) == apc[a] = from /\ apc' = [apc EXCEPT ![a] = to]
Lives(t, from, to) == life[t] = from /\ life' = [life EXCEPT ![t] = to]

-----------------------------------------------------------------------------
(* addThread.  A member adds only while it runs.                           *)

(* A frozen group refuses; this look at m_freeze is outside the mutex.     *)
AddCheck(a, t) ==
  /\ a \in Threads => life[a] = "running"
  /\ life[t] = "none"
  /\ \A b \in Adders : adding[b] # t
  /\ ~m_freeze
  /\ AddStep(a, "idle", "lock")
  /\ adding' = [adding EXCEPT ![a] = t]
  /\ UNCHANGED <<m_freeze, m_pthreads, m_mutex, life, flag, dpc, lateReset,
                 lateAdded>>

AddLock(a) ==
  /\ AddStep(a, "lock", "create")
  /\ Lock(a)
  /\ UNCHANGED <<m_freeze, m_pthreads, life, adding, flag, dpc, lateReset,
                 lateAdded>>

Creates(a) ==
  /\ Lives(adding[a], "none", "created")
  /\ lateAdded' = IF m_freeze THEN lateAdded \cup {adding[a]} ELSE lateAdded

(* Faulty: the mutex released between pthread_create and push_back.        *)
AddCreateUnlocked(a) ==
  /\ AddStep(a, "create", "push_back")
  /\ Creates(a)
  /\ Unlock
  /\ UNCHANGED <<m_freeze, m_pthreads, adding, flag, dpc, lateReset>>

(* pthread_create succeeded: the thread may run at once.                   *)
AddCreate(a) ==
  /\ AddStep(a, "create", "push_back")
  /\ Creates(a)
  /\ UNCHANGED <<m_freeze, m_pthreads, m_mutex, adding, flag, dpc, lateReset>>

(* pthread_create failed: nothing is listed.                               *)
AddFail(a) ==
  /\ AddStep(a, "create", "idle")
  /\ adding' = [adding EXCEPT ![a] = NoThread]
  /\ Unlock
  /\ UNCHANGED <<m_freeze, m_pthreads, life, flag, dpc, lateReset, lateAdded>>

AddList(a) ==
  /\ AddStep(a, "push_back", "idle")
  /\ m_pthreads' = m_pthreads \cup {adding[a]}
  /\ adding' = [adding EXCEPT ![a] = NoThread]
  /\ Unlock
  /\ UNCHANGED <<m_freeze, life, flag, dpc, lateReset, lateAdded>>

(* The creator has added what it wanted to.                                *)
CreatorDone ==
  /\ AddStep(Creator, "idle", "done")
  /\ UNCHANGED <<m_freeze, m_pthreads, m_mutex, life, adding, flag, dpc,
                 lateReset, lateAdded>>

-----------------------------------------------------------------------------
(* The threads *)

Lower(flags) ==
  /\ flag' = [f \in Flags |-> IF f \in flags THEN 0 ELSE flag[f]]
  /\ lateReset' = IF m_freeze THEN lateReset \cup flags ELSE lateReset

(* The thread function begins by putting its flags down.                   *)
ThreadStart(t) ==
  /\ Lives(t, "created", "running")
  /\ Lower(Resets[t])
  /\ UNCHANGED <<m_freeze, m_pthreads, m_mutex, apc, adding, dpc, lateAdded>>

LowersFlag(t, f) ==
  /\ life[t] = "running"
  /\ f \in Lowers[t]
  /\ Lower({f})
  /\ UNCHANGED <<m_freeze, m_pthreads, m_mutex, life, apc, adding, dpc,
                 lateAdded>>

(* A running member sets a flag outside stopAll: stopVncSession, a STOP_   *)
(* command.                                                                *)
StopCommand(t, f) ==
  /\ life[t] = "running"
  /\ flag' = [flag EXCEPT ![f] = 1]
  /\ UNCHANGED <<m_freeze, m_pthreads, m_mutex, life, apc, adding, dpc,
                 lateReset, lateAdded>>

(* Between two turns of its loop the thread looks at its flag ...          *)
SeesStop(t) ==
  /\ apc[t] = "idle"
  /\ FlagOf[t] # NoFlag
  /\ flag[FlagOf[t]] = 1
  /\ Lives(t, "running", "exitThread")
  /\ UNCHANGED <<m_freeze, m_pthreads, m_mutex, apc, adding, flag, dpc,
                 lateReset, lateAdded>>

(* ... unless its connection keeps it for ever: writeback tries again as   *)
(* long as the socket takes nothing (VncCtrl.cpp:215), and so does         *)
(* simpleFtpFile (VncCommandProcessor.cpp:746-784), its looks at the flag  *)
(* commented out.  (A wait that ends is only time between two steps.)      *)
Blocks(t) ==
  /\ apc[t] = "idle"
  /\ Lives(t, "running", "busy")
  /\ UNCHANGED <<m_freeze, m_pthreads, m_mutex, apc, adding, flag, dpc,
                 lateReset, lateAdded>>

(* Or it ends of itself: its work is done, its connection has failed.      *)
Ends(t) ==
  /\ apc[t] = "idle"
  /\ Lives(t, "running", "exitThread")
  /\ UNCHANGED <<m_freeze, m_pthreads, m_mutex, apc, adding, flag, dpc,
                 lateReset, lateAdded>>

ExitLock(t) ==
  /\ Lives(t, "exitThread", "erase")
  /\ Lock(t)
  /\ UNCHANGED <<m_freeze, m_pthreads, apc, adding, flag, dpc, lateReset,
                 lateAdded>>

(* Found or not, the thread is gone once it has released the mutex.        *)
ExitErase(t) ==
  /\ Lives(t, "erase", "gone")
  /\ m_pthreads' = m_pthreads \ {t}
  /\ Unlock
  /\ UNCHANGED <<m_freeze, apc, adding, flag, dpc, lateReset, lateAdded>>

-----------------------------------------------------------------------------
(* The destructor *)

Delete ==
  /\ dpc = "alive"
  /\ apc[Creator] = "done"
  /\ dpc' = "stop"
  /\ UNCHANGED <<m_freeze, m_pthreads, m_mutex, life, apc, adding, flag,
                 lateReset, lateAdded>>

Notified == {FlagOf[t] : t \in m_pthreads} \ {NoFlag}

(* Faulty: the group is frozen, but the listed threads are not told.       *)
FreezeOnly ==
  /\ dpc = "stop"
  /\ m_mutex = NoThread
  /\ m_freeze' = TRUE
  /\ dpc' = "poll"
  /\ UNCHANGED <<m_pthreads, m_mutex, life, apc, adding, flag, lateReset,
                 lateAdded>>

(* Faulty: stopAll walks the list without the mutex.                       *)
StopAllUnlocked ==
  /\ dpc = "stop"
  /\ flag' = [f \in Flags |-> IF f \in Notified THEN 1 ELSE flag[f]]
  /\ m_freeze' = TRUE
  /\ dpc' = "poll"
  /\ UNCHANGED <<m_pthreads, m_mutex, life, apc, adding, lateReset, lateAdded>>

(* stopAll, in one step: it holds the mutex, so the list does not change;  *)
(* a thread that looks at m_freeze or resets a flag in the middle of it    *)
(* might as well have done so before or after.                             *)
StopAll ==
  /\ dpc = "stop"
  /\ m_mutex = NoThread
  /\ flag' = [f \in Flags |-> IF f \in Notified THEN 1 ELSE flag[f]]
  /\ m_freeze' = TRUE
  /\ dpc' = "poll"
  /\ UNCHANGED <<m_pthreads, m_mutex, life, apc, adding, lateReset, lateAdded>>

(* Faulty: the destructor does not wait.                                   *)
DestroyedAtOnce ==
  /\ dpc = "poll"
  /\ m_mutex = NoThread
  /\ dpc' = "done"
  /\ UNCHANGED <<m_freeze, m_pthreads, m_mutex, life, apc, adding, flag,
                 lateReset, lateAdded>>

(* The poll that finds the list empty; any other sleeps and polls again.   *)
Destroyed ==
  /\ dpc = "poll"
  /\ m_mutex = NoThread
  /\ m_pthreads = {}
  /\ dpc' = "done"
  /\ UNCHANGED <<m_freeze, m_pthreads, m_mutex, life, apc, adding, flag,
                 lateReset, lateAdded>>

-----------------------------------------------------------------------------
AddThread(a) ==
  \/ \E t \in Threads : AddCheck(a, t)
  \/ AddLock(a) \/ AddCreate(a) \/ AddFail(a) \/ AddList(a)

Run(t) ==
  \/ ThreadStart(t) \/ SeesStop(t) \/ Ends(t) \/ ExitLock(t) \/ ExitErase(t)
  \/ Blocks(t)
  \/ \E f \in Flags : StopCommand(t, f) \/ LowersFlag(t, f)

Destructor == Delete \/ StopAll \/ Destroyed

Next ==
  \/ \E a \in Adders : AddThread(a)
  \/ CreatorDone
  \/ \E t \in Threads : Run(t)
  \/ Destructor

(* Threads run: a call that has begun goes on; a loop that no connection   *)
(* keeps for ever looks at its flag again, and finite work gets to its     *)
(* end.  Each thread takes the mutex a bounded number of times, so a lock  *)
(* need be given no more than weak fairness.                               *)
Fairness ==
  /\ \A a \in Adders :
       WF_vars(AddLock(a) \/ AddCreate(a) \/ AddFail(a) \/ AddList(a))
  /\ \A t \in Threads :
       WF_vars(ThreadStart(t) \/ SeesStop(t) \/ ExitLock(t) \/ ExitErase(t))
  /\ \A t \in Finite : WF_vars(Ends(t))
  /\ WF_vars(StopAll \/ Destroyed)

Spec == Init /\ [][Next]_vars /\ Fairness
-----------------------------------------------------------------------------
Lifetimes ==
  {"none", "created", "running", "busy", "exitThread", "erase", "gone"}

TypeOK ==
  /\ m_freeze \in BOOLEAN
  /\ m_pthreads \subseteq Threads
  /\ m_mutex \in Adders \cup {NoThread}
  /\ life \in [Threads -> Lifetimes]
  /\ apc \in [Adders -> {"idle", "lock", "create", "push_back", "done"}]
  /\ adding \in [Adders -> Threads \cup {NoThread}]
  /\ flag \in [Flags -> {0, 1}]
  /\ dpc \in {"alive", "stop", "poll", "done"}
  /\ lateReset \subseteq Flags
  /\ lateAdded \subseteq Threads

Alive(t) == life[t] \in {"created", "running", "busy", "exitThread", "erase"}

(* The list is right whenever the mutex is free: it names the threads that *)
(* live, all of them and no other.  An entry of a thread that is gone      *)
(* would keep the destructor polling for ever; a living thread without an  *)
(* entry would outlive the group (lines 42-53, 61-76).                     *)
ListIsRight ==
  m_mutex = NoThread => m_pthreads = {t \in Threads : Alive(t)}

(* When the destructor has returned nobody is left who could touch the     *)
(* group: no thread of it lives and no call is under way.                  *)
DestroyedIsQuiet ==
  dpc = "done" =>
    /\ m_mutex = NoThread
    /\ \A t \in Threads : ~Alive(t)
    /\ \A a \in Adders : apc[a] \in {"idle", "done"}

(* Once stopAll has run, a thread that runs can find its flag down for two *)
(* reasons only: after stopAll somebody put the flag down, by beginning to *)
(* run late or on the way to adding a thread; or the thread itself was     *)
(* added after stopAll, by a member that had looked at m_freeze before.    *)
(* Every other running thread has been told to stop.                       *)
StopLostOnlyLate ==
  m_freeze =>
    \A t \in Threads :
      life[t] \in {"running", "busy"} /\ FlagOf[t] # NoFlag
        /\ flag[FlagOf[t]] = 0
        => FlagOf[t] \in lateReset \/ t \in lateAdded

(* To those who use it the group is a ThreadGroup, although addThread and  *)
(* exitThread take several steps each and stopAll, the destructor's poll   *)
(* and other members' calls come between them.  VncSession's group is one. *)
Group == INSTANCE ThreadGroup
  WITH stage <- [t \in Threads |->
                   IF life[t] \in {"busy", "exitThread", "erase"}
                   THEN "running" ELSE life[t]],
       frozen <- m_freeze,
       destroyed <- (dpc = "done")

IsThreadGroup == Group!Spec

(* Nothing ends the thread: its connection keeps it; or its work does not  *)
(* end of itself and its stop request is lost, or it was never to get one. *)
Deaf(t) ==
  \/ life[t] = "busy"
  \/ /\ t \notin Finite
     /\ life[t] = "running"
     /\ FlagOf[t] = NoFlag \/ flag[FlagOf[t]] = 0

(* The destructor returns, unless there is a thread that nothing ends, for *)
(* ever or again and again (when its flag goes up and down).               *)
DestructorReturns ==
  \/ (dpc = "poll") ~> (dpc = "done")
  \/ \E t \in Threads : []<>Deaf(t)
=============================================================================
