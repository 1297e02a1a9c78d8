-------------------------- MODULE VncCommandQueue --------------------------
(***************************************************************************)
(* The queue between the threads of a session (VncCommandQueue.cpp): a     *)
(* std::queue, a mutex and a condition variable.  addPackage pushes under  *)
(* the mutex and signals after releasing it.  getPackage takes the front   *)
(* under the mutex if there is one; otherwise it releases the mutex, reads *)
(* the clock, takes the mutex again and waits on the condition variable    *)
(* without looking at the queue once more, for 200 ms at most, and returns *)
(* -1 whatever woke it.  Its callers (vnc_write_channel and                *)
(* vnc_command_processor, VncCtrl.cpp) call it again in a loop.            *)
(*                                                                         *)
(* A signal sent between the check and the wait is lost: only the time-out *)
(* makes the package come out.                                             *)
(***************************************************************************)
EXTENDS Integers, Sequences

CONSTANTS Producers,    \* threads that call addPackage
          Consumers,    \* threads that call getPackage
          NoThread,     \* nobody holds the mutex
          Usecs,        \* the values gettimeofday may put in tv_usec
          MaxPackages   \* bound on the packages each producer adds

ASSUME ThreadAssumption ==
  /\ Producers \cap Consumers = {}
  /\ NoThread \notin Producers \cup Consumers

ASSUME ClockAssumption ==
  \A usec \in Usecs : usec \in Nat /\ usec < 1000 * 1000

ASSUME BoundAssumption == MaxPackages \in Nat

Threads == Producers \cup Consumers
Packages == [from : Producers, num : 1..MaxPackages]

VARIABLES m_data,     \* the std::queue
          m_mutex,    \* the thread that holds m_mutex, or NoThread
          waiting,    \* consumers blocked on m_condvar
          place,      \* where each thread is
          added,      \* added[p]: the packages p has pushed
          front,      \* front[c]: the package getPackage has read
          waittime,   \* waittime[c]: the tv_nsec of the deadline
          pushed,     \* history: packages in the order pushed
          taken       \* history: packages in the order popped

queueVars == <<m_data, m_mutex, waiting, place, added, front, waittime,
               pushed, taken>>

NoPackage == [from |-> NoThread, num |-> 0]

QueueInit ==
  /\ m_data = << >>
  /\ m_mutex = NoThread
  /\ waiting = {}
  /\ place = [t \in Threads |-> "idle"]
  /\ added = [p \in Producers |-> 0]
  /\ front = [c \in Consumers |-> NoPackage]
  /\ waittime = [c \in Consumers |-> 0]
  /\ pushed = << >>
  /\ taken = << >>

Goto(t, from, to) == place[t] = from /\ place' = [place EXCEPT ![t] = to]

Lock(t) == m_mutex = NoThread /\ m_mutex' = t
Unlock == m_mutex' = NoThread

-----------------------------------------------------------------------------
(* addPackage *)

AddLock(p) ==
  /\ added[p] < MaxPackages
  /\ Goto(p, "idle", "push")
  /\ Lock(p)
  /\ UNCHANGED <<added, m_data, waiting, front, waittime, pushed, taken>>

Push(p) ==
  LET package == [from |-> p, num |-> added[p] + 1]
  IN  /\ Goto(p, "push", "signal")
      /\ m_data' = Append(m_data, package)
      /\ pushed' = Append(pushed, package)
      /\ added' = [added EXCEPT ![p] = @ + 1]
      /\ Unlock
      /\ UNCHANGED <<waiting, front, waittime, taken>>

(* pthread_cond_signal wakes one of the waiters, if there is one.          *)
Signal(p) ==
  /\ Goto(p, "signal", "idle")
  /\ IF waiting = {}
     THEN UNCHANGED waiting
     ELSE \E c \in waiting : waiting' = waiting \ {c}
  /\ UNCHANGED <<added, m_data, m_mutex, front, waittime, pushed, taken>>

-----------------------------------------------------------------------------
(* getPackage *)

GetLock(c) ==
  /\ Goto(c, "idle", "front")
  /\ Lock(c)
  /\ UNCHANGED <<added, m_data, waiting, front, waittime, pushed, taken>>

(* Faulty: back() for front().                                             *)
BackForFront(c) ==
  /\ m_data # << >>
  /\ Goto(c, "front", "pop")
  /\ front' = [front EXCEPT ![c] = m_data[Len(m_data)]]
  /\ UNCHANGED <<added, m_data, m_mutex, waiting, waittime, pushed, taken>>

ReadFront(c) ==
  /\ m_data # << >>
  /\ Goto(c, "front", "pop")
  /\ front' = [front EXCEPT ![c] = Head(m_data)]
  /\ UNCHANGED <<added, m_data, m_mutex, waiting, waittime, pushed, taken>>

(* The mutex is released and the package returned.  (pop() of an empty     *)
(* queue, undefined in C++, removes nothing here.)                         *)
Pop(c) ==
  /\ Goto(c, "pop", "idle")
  /\ m_data' = IF m_data = << >> THEN << >> ELSE Tail(m_data)
  /\ taken' = Append(taken, front[c])
  /\ front' = [front EXCEPT ![c] = NoPackage]
  /\ Unlock
  /\ UNCHANGED <<added, waiting, waittime, pushed>>

(* Faulty: the mutex is kept when there is nothing to take.                *)
EmptyLocked(c) ==
  /\ m_data = << >>
  /\ Goto(c, "front", "clock")
  /\ UNCHANGED <<added, m_data, m_mutex, waiting, front, waittime, pushed,
                 taken>>

Empty(c) ==
  /\ m_data = << >>
  /\ Goto(c, "front", "clock")
  /\ Unlock
  /\ UNCHANGED <<added, m_data, waiting, front, waittime, pushed, taken>>

(* The deadline's tv_nsec, without a carry into tv_sec.                    *)
Deadline(usec) == usec * 1000 + 200 * 1000 * 1000

Clock(c) ==
  /\ Goto(c, "clock", "timedwait")
  /\ \E usec \in Usecs :
       waittime' = [waittime EXCEPT ![c] = Deadline(usec)]
  /\ UNCHANGED <<added, m_data, m_mutex, waiting, front, pushed, taken>>

DeadlineValid(c) == waittime[c] < 1000 * 1000 * 1000

(* pthread_cond_timedwait releases the mutex and blocks in one step.       *)
TimedWait(c) ==
  /\ m_mutex = NoThread
  /\ DeadlineValid(c)
  /\ Goto(c, "timedwait", "wait")
  /\ waiting' = waiting \cup {c}
  /\ UNCHANGED <<added, m_data, m_mutex, front, waittime, pushed, taken>>

(* EINVAL: it returns at once and so does getPackage.                      *)
WaitRefused(c) ==
  /\ m_mutex = NoThread
  /\ ~DeadlineValid(c)
  /\ Goto(c, "timedwait", "idle")
  /\ UNCHANGED <<added, m_data, m_mutex, waiting, front, waittime, pushed,
                 taken>>

(* Faulty: pthread_cond_wait, which no time-out ends.                      *)
NoTimeout(c) == FALSE /\ UNCHANGED queueVars

(* The 200 ms are over (or the wait ends for no reason at all).            *)
Timeout(c) ==
  /\ place[c] = "wait"
  /\ c \in waiting
  /\ waiting' = waiting \ {c}
  /\ UNCHANGED <<added, m_data, m_mutex, place, front, waittime, pushed,
                 taken>>

(* Awake: the mutex is taken back and released, and -1 returned.           *)
WaitOver(c) ==
  /\ c \notin waiting
  /\ m_mutex = NoThread
  /\ Goto(c, "wait", "idle")
  /\ UNCHANGED <<added, m_data, m_mutex, waiting, front, waittime, pushed,
                 taken>>

-----------------------------------------------------------------------------
AddPackage(p) == AddLock(p) \/ Push(p) \/ Signal(p)

GetPackage(c) ==
  \/ GetLock(c) \/ ReadFront(c) \/ Pop(c) \/ Empty(c) \/ Clock(c)
  \/ TimedWait(c) \/ WaitRefused(c) \/ Timeout(c) \/ WaitOver(c)

QueueNext ==
  \/ \E p \in Producers : AddPackage(p)
  \/ \E c \in Consumers : GetPackage(c)

(* Threads run: a call that has begun goes on, and consumers call again.   *)
(* Nothing makes a producer begin.  The mutex is not fair, so weak         *)
(* fairness is all a thread at a lock is given.                            *)
QueueFairness ==
  /\ \A p \in Producers : WF_queueVars(Push(p)) /\ WF_queueVars(Signal(p))
  /\ \A c \in Consumers : WF_queueVars(GetPackage(c))

QueueSpec == QueueInit /\ [][QueueNext]_queueVars /\ QueueFairness
-----------------------------------------------------------------------------
QueueTypeOK ==
  /\ m_data \in Seq(Packages)
  /\ m_mutex \in Threads \cup {NoThread}
  /\ waiting \subseteq Consumers
  /\ place \in [Threads -> {"idle", "push", "signal", "front", "pop", "clock",
                            "timedwait", "wait"}]
  /\ added \in [Producers -> 0..MaxPackages]
  /\ front \in [Consumers -> Packages \cup {NoPackage}]
  /\ waittime \in [Consumers -> Nat]
  /\ pushed \in Seq(Packages)
  /\ taken \in Seq(Packages)

(* What has been popped and what is still queued are, in this order,       *)
(* exactly what was pushed: no package is lost, doubled or overtaken.      *)
ExactlyOnceInOrder == taken \o m_data = pushed

(* Between front() and pop() of one getPackage call no other thread        *)
(* changes the front: the package returned is the one removed.             *)
FrontStays ==
  \A c \in Consumers :
    place[c] = "pop" => m_data # << >> /\ Head(m_data) = front[c]

(* What a queue implements; AlarmQueue says when.                          *)
Channel == INSTANCE PackageChannel WITH Package <- Packages
=============================================================================
