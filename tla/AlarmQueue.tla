----------------------------- MODULE AlarmQueue -----------------------------
(***************************************************************************)
(* The outbound queue with SIGALRM.  my_alarm_handler                      *)
(* (VncCommandProcessor.cpp:41) runs on whichever thread takes the signal, *)
(* on top of what that thread is doing.  It calls sendPackage, and so      *)
(* addPackage, sleeps, creates a cleanup_thread and calls exitThread for   *)
(* the thread it runs on: a thread of the session's group ends there, in   *)
(* the middle of what it did; any other goes on.                           *)
(*                                                                         *)
(* Two mutexes that are not recursive lie on that way, the queue's and the *)
(* group's: a handler on a thread that holds one waits for that thread,    *)
(* which waits for it.  (The locks of the heap and of the log, which the   *)
(* handler takes as well, are left out.)                                   *)
(*                                                                         *)
(* The handler's sendPackage is one more producer.  Of the group there is  *)
(* its mutex only; VncThreads has the rest, VncSession the cleanup_thread. *)
(***************************************************************************)
EXTENDS VncCommandQueue

CONSTANTS Handler,   \* the producer that is the handler's sendPackage
          Members    \* the threads of the session's group

ASSUME HandlerAssumption ==
  /\ Handler \in Producers
  /\ Members \subseteq Threads \ {Handler}

VARIABLES interrupted,  \* the thread the handler runs on, or NoThread
          stage,        \* the handler is to "send" or to "exit"
          group,        \* the thread that holds the group's mutex
          left          \* the threads that run no more

alarmVars == <<queueVars, interrupted, stage, group, left>>

AlarmInit ==
  /\ QueueInit
  /\ interrupted = NoThread
  /\ stage = "send"
  /\ group = NoThread
  /\ left = {}

(* The bound on the packages is one on the alarms as well.                 *)
AlarmFires(t) ==
  /\ interrupted = NoThread
  /\ added[Handler] < MaxPackages
  /\ t \notin left
  /\ interrupted' = t
  /\ UNCHANGED <<queueVars, stage, group, left>>

(* The handler's sendPackage, to its end.                                  *)
HandlerSends ==
  /\ interrupted # NoThread
  /\ stage = "send"
  /\ \/ (AddLock(Handler) \/ Push(Handler)) /\ UNCHANGED stage
     \/ Signal(Handler) /\ stage' = "exit"
  /\ UNCHANGED <<interrupted, group, left>>

(* The handler's exitThread.  It takes and releases the group's mutex; a   *)
(* member ends, out of its getPackage too if it waits there.               *)
HandlerExits ==
  /\ interrupted # NoThread
  /\ stage = "exit"
  /\ group = NoThread
  /\ left' = left \cup ({interrupted} \cap Members)
  /\ IF interrupted \in Members \cap waiting
     THEN Timeout(interrupted)
     ELSE UNCHANGED queueVars
  /\ interrupted' = NoThread
  /\ stage' = "send"
  /\ UNCHANGED group

(* The others go on, except the one beneath the handler.                   *)
Runs(t) == t # interrupted /\ t \notin left

InQueue(t, step) ==
  Runs(t) /\ group # t /\ step /\ UNCHANGED <<interrupted, stage, group, left>>

Adds(p) == InQueue(p, AddPackage(p))
Gets(c) == InQueue(c, GetPackage(c))

(* addThread or exitThread of a thread that is in no call of the queue.    *)
LocksGroup(t) ==
  /\ Runs(t)
  /\ t \in Members \cup Producers
  /\ place[t] = "idle"
  /\ group = NoThread
  /\ group' = t
  /\ UNCHANGED <<queueVars, interrupted, stage, left>>

(* The thread goes on after addThread; a member ends after exitThread, the *)
(* only one of the two a consumer calls.                                   *)
UnlocksGroup(t) ==
  /\ Runs(t)
  /\ group = t
  /\ group' = NoThread
  /\ \/ t \in Members /\ left' = left \cup {t}
     \/ t \in Producers /\ UNCHANGED left
  /\ UNCHANGED <<queueVars, interrupted, stage>>

(* writeback (VncCtrl.cpp:215) tries again as long as the socket takes     *)
(* nothing: a writer there for ever asks no more.                          *)
WritesForEver(c) ==
  /\ Runs(c)
  /\ place[c] = "idle"
  /\ group # c
  /\ left' = left \cup {c}
  /\ UNCHANGED <<queueVars, interrupted, stage, group>>

AlarmNext ==
  \/ \E t \in Threads \ {Handler} :
       AlarmFires(t) \/ LocksGroup(t) \/ UnlocksGroup(t)
  \/ HandlerSends \/ HandlerExits
  \/ \E p \in Producers \ {Handler} : Adds(p)
  \/ \E c \in Consumers : Gets(c) \/ WritesForEver(c)

(* As in VncCommandQueue.  The handler waits for a mutex that the writer   *)
(* takes again and again, but leaves alone for 200 ms at a time, and for   *)
(* one that is held for a few lines now and then: it gets both at last.    *)
AlarmFairness ==
  /\ SF_alarmVars(HandlerSends)
  /\ SF_alarmVars(HandlerExits)
  /\ \A t \in Threads \ {Handler} : WF_alarmVars(UnlocksGroup(t))
  /\ \A p \in Producers \ {Handler} :
       /\ WF_alarmVars(InQueue(p, Push(p)))
       /\ WF_alarmVars(InQueue(p, Signal(p)))
  /\ \A c \in Consumers : WF_alarmVars(Gets(c))

AlarmSpec == AlarmInit /\ [][AlarmNext]_alarmVars /\ AlarmFairness
-----------------------------------------------------------------------------
(* The handler waits, or will, for a mutex that the thread beneath it      *)
(* holds: the queue's or the group's.                                      *)
StuckInQueue == interrupted # NoThread /\ m_mutex = interrupted
StuckInGroup == interrupted # NoThread /\ group = interrupted

(* A consumer that neither ended nor is about to.                          *)
Served == \E c \in Consumers : c \notin left /\ group # c

(* The queue is a PackageChannel although any of its threads may be        *)
(* interrupted, and ended, at any place: in order, exactly once, and with  *)
(* nothing left inside (because of the time-out) as long as its writer has *)
(* not ended, by itself or by an alarm, and no alarm is stuck on top of a  *)
(* thread that holds the mutex.                                            *)
ChannelWhileServed ==
  /\ Channel!Init
  /\ [][Channel!Next]_<<pushed, taken>>
  /\ WF_<<pushed, taken>>(~StuckInQueue /\ Served /\ Channel!Take)

(* An alarm's handler gets its package into the queue and ends, unless it  *)
(* came between lock and unlock of its own thread's addPackage or          *)
(* getPackage, or of its addThread or exitThread.                          *)
HandlerEnds ==
  interrupted # NoThread
    ~> (interrupted = NoThread \/ StuckInQueue \/ StuckInGroup)
=============================================================================
