------------------------- MODULE VncThreads_proofs -------------------------
(***************************************************************************)
(* For any set of threads, flags and kinds: the list of a thread group is  *)
(* right, its destructor leaves nobody behind, a stop request gets lost    *)
(* only to what happens after stopAll, and the group is a ThreadGroup.     *)
(***************************************************************************)
EXTENDS VncThreads, TLAPS

(* Who holds the mutex: an adder in its critical section or an exiting     *)
(* thread in its own.                                                      *)
Holds(a) ==
  \/ apc[a] \in {"create", "push_back"}
  \/ a \in Threads /\ life[a] = "erase"

MutexHeld == \A a \in Adders : Holds(a) <=> m_mutex = a

(* Each call of addThread is for a thread of its own, which has not been   *)
(* started before pthread_create and cannot be unlisted before it is       *)
(* listed.                                                                 *)
AddingOK ==
  /\ \A a \in Adders :
       /\ apc[a] \in {"lock", "create"} =>
            adding[a] \in Threads /\ life[adding[a]] = "none"
       /\ apc[a] = "push_back" =>
            adding[a] \in Threads
            /\ life[adding[a]] \in {"created", "running", "busy", "exitThread"}
       /\ apc[a] \in {"idle", "done"} => adding[a] = NoThread
  /\ \A a, b \in Adders :
       a # b /\ adding[a] # NoThread => adding[a] # adding[b]

(* Members add only while they run; only the creator is ever done adding.  *)
MembersAdd ==
  \A t \in Threads :
    /\ apc[t] # "done"
    /\ apc[t] # "idle" => life[t] = "running"

(* The list at every moment, not only when the mutex is free.              *)
Unlisted(t) == \E a \in Adders : apc[a] = "push_back" /\ adding[a] = t

ListExact ==
  \A t \in Threads : t \in m_pthreads <=> Alive(t) /\ ~Unlisted(t)

(* A thread that is created after stopAll was not told, nor does it reset  *)
(* its flag before it runs.                                                *)
LateOK ==
  m_freeze =>
    \A t \in Threads :
      life[t] = "created" /\ FlagOf[t] # NoFlag /\ flag[FlagOf[t]] = 0
        => FlagOf[t] \in lateReset \/ t \in lateAdded

DestructorOK ==
  /\ dpc # "alive" => apc[Creator] = "done"
  /\ m_freeze <=> dpc \in {"poll", "done"}

IInv ==
  /\ TypeOK
  /\ MutexHeld
  /\ AddingOK
  /\ MembersAdd
  /\ ListExact
  /\ DestructorOK
  /\ DestroyedIsQuiet
  /\ StopLostOnlyLate
  /\ LateOK

USE ThreadAssumption

LEMMA InitIInv == Init => IInv
<1> SUFFICES ASSUME Init
             PROVE  IInv
  OBVIOUS
<1> USE DEF Init
<1>1. TypeOK
  BY DEF TypeOK, Adders, Lifetimes
<1>2. MutexHeld /\ AddingOK /\ MembersAdd
  BY DEF MutexHeld, Holds, AddingOK, MembersAdd, Adders
<1>3. /\ ListExact /\ DestructorOK /\ DestroyedIsQuiet
      /\ StopLostOnlyLate /\ LateOK
  BY DEF ListExact, Unlisted, Alive, DestructorOK, DestroyedIsQuiet,
         StopLostOnlyLate, LateOK, Adders
<1> QED
  BY <1>1, <1>2, <1>3 DEF IInv

(* With the mutex free the list names the living threads exactly.          *)
LEMMA ListWhenFree == IInv => ListIsRight
<1> SUFFICES ASSUME IInv, m_mutex = NoThread
             PROVE  m_pthreads = {t \in Threads : Alive(t)}
  BY DEF ListIsRight
<1>1. \A t \in Threads : ~Unlisted(t)
  BY DEF IInv, MutexHeld, Holds, Unlisted, Adders
<1> QED
  BY <1>1 DEF IInv, TypeOK, ListExact

-----------------------------------------------------------------------------
LEMMA AddCheckIInv ==
  ASSUME IInv, NEW a \in Adders, NEW t \in Threads, AddCheck(a, t)
  PROVE  IInv'
<1> USE DEF AddCheck, AddStep
<1>1. TypeOK'
  BY DEF IInv, TypeOK
<1>2. MutexHeld'
  BY DEF IInv, TypeOK, MutexHeld, Holds
<1>3. AddingOK'
  BY DEF IInv, TypeOK, AddingOK
<1>4. MembersAdd'
  BY DEF IInv, TypeOK, MembersAdd, Adders
<1>5. ListExact'
  BY DEF IInv, TypeOK, AddingOK, ListExact, Unlisted, Alive
<1>6. DestructorOK' /\ DestroyedIsQuiet' /\ StopLostOnlyLate' /\ LateOK'
  BY DEF IInv, TypeOK, DestructorOK, DestroyedIsQuiet, StopLostOnlyLate,
         LateOK, Adders, Alive
<1> QED
  BY <1>1, <1>2, <1>3, <1>4, <1>5, <1>6 DEF IInv

LEMMA AddLockIInv ==
  ASSUME IInv, NEW a \in Adders, AddLock(a)
  PROVE  IInv'
<1> USE DEF AddLock, AddStep, Lock
<1>1. TypeOK'
  BY DEF IInv, TypeOK, Adders, Lifetimes
<1>2. MutexHeld'
  BY DEF IInv, TypeOK, MutexHeld, Holds, MembersAdd, Adders
<1>3. AddingOK'
  BY DEF IInv, TypeOK, MutexHeld, Holds, AddingOK, MembersAdd, Adders
<1>4. MembersAdd'
  BY DEF IInv, TypeOK, AddingOK, MembersAdd, Adders
<1>5. ListExact'
  BY DEF IInv, TypeOK, MutexHeld, Holds, AddingOK, MembersAdd, ListExact,
         Unlisted, Alive, Adders
<1>6. DestructorOK'
  BY DEF IInv, TypeOK, MembersAdd, DestructorOK, Adders
<1>7. DestroyedIsQuiet'
  BY DEF IInv, TypeOK, AddingOK, MembersAdd, DestructorOK,
         DestroyedIsQuiet, Alive, Adders
<1>8. StopLostOnlyLate' /\ LateOK'
  BY DEF IInv, TypeOK, AddingOK, StopLostOnlyLate, LateOK, Adders
<1> QED
  BY <1>1, <1>2, <1>3, <1>4, <1>5, <1>6, <1>7, <1>8 DEF IInv

LEMMA AddCreateIInv ==
  ASSUME IInv, NEW a \in Adders, AddCreate(a)
  PROVE  IInv'
<1> USE DEF AddCreate, AddStep, Creates, Lives
<1>1. TypeOK'
  BY DEF IInv, TypeOK, AddingOK, Adders, Lifetimes
<1>2. MutexHeld'
  BY DEF IInv, TypeOK, MutexHeld, Holds, MembersAdd, Adders
<1>3. AddingOK'
  BY DEF IInv, TypeOK, MutexHeld, Holds, AddingOK, MembersAdd, Adders
<1>4. MembersAdd'
  BY DEF IInv, TypeOK, AddingOK, MembersAdd, Adders
<1>5. ListExact'
  BY DEF IInv, TypeOK, MutexHeld, Holds, AddingOK, MembersAdd, ListExact,
         Unlisted, Alive, Adders
<1>6. DestructorOK'
  BY DEF IInv, TypeOK, MembersAdd, DestructorOK, Adders
<1>7. DestroyedIsQuiet'
  BY DEF IInv, TypeOK, AddingOK, MembersAdd, DestructorOK,
         DestroyedIsQuiet, Alive, Adders
<1>8. StopLostOnlyLate' /\ LateOK'
  BY DEF IInv, TypeOK, AddingOK, StopLostOnlyLate, LateOK, Adders
<1> QED
  BY <1>1, <1>2, <1>3, <1>4, <1>5, <1>6, <1>7, <1>8 DEF IInv

LEMMA AddFailIInv ==
  ASSUME IInv, NEW a \in Adders, AddFail(a)
  PROVE  IInv'
<1> USE DEF AddFail, AddStep, Unlock
<1>1. TypeOK'
  BY DEF IInv, TypeOK, Adders, Lifetimes
<1>2. MutexHeld'
  BY DEF IInv, TypeOK, MutexHeld, Holds, MembersAdd, Adders
<1>3. AddingOK'
  BY DEF IInv, TypeOK, MutexHeld, Holds, AddingOK, MembersAdd, Adders
<1>4. MembersAdd'
  BY DEF IInv, TypeOK, AddingOK, MembersAdd, Adders
<1>5. ListExact'
  BY DEF IInv, TypeOK, MutexHeld, Holds, AddingOK, MembersAdd, ListExact,
         Unlisted, Alive, Adders
<1>6. DestructorOK'
  BY DEF IInv, TypeOK, MembersAdd, DestructorOK, Adders
<1>7. DestroyedIsQuiet'
  BY DEF IInv, TypeOK, AddingOK, MembersAdd, DestructorOK,
         DestroyedIsQuiet, Alive, Adders
<1>8. StopLostOnlyLate' /\ LateOK'
  BY DEF IInv, TypeOK, AddingOK, StopLostOnlyLate, LateOK, Adders
<1> QED
  BY <1>1, <1>2, <1>3, <1>4, <1>5, <1>6, <1>7, <1>8 DEF IInv

LEMMA AddListIInv ==
  ASSUME IInv, NEW a \in Adders, AddList(a)
  PROVE  IInv'
<1> USE DEF AddList, AddStep, Unlock
<1>1. TypeOK'
  BY DEF IInv, TypeOK, AddingOK, Adders, Lifetimes
<1>2. MutexHeld'
  BY DEF IInv, TypeOK, MutexHeld, Holds, MembersAdd, Adders
<1>3. AddingOK'
  BY DEF IInv, TypeOK, MutexHeld, Holds, AddingOK, MembersAdd, Adders
<1>4. MembersAdd'
  BY DEF IInv, TypeOK, AddingOK, MembersAdd, Adders
<1>5. ListExact'
  BY DEF IInv, TypeOK, MutexHeld, Holds, AddingOK, MembersAdd, ListExact,
         Unlisted, Alive, Adders
<1>6. DestructorOK'
  BY DEF IInv, TypeOK, MembersAdd, DestructorOK, Adders
<1>7. DestroyedIsQuiet'
  BY DEF IInv, TypeOK, AddingOK, MembersAdd, DestructorOK,
         DestroyedIsQuiet, Alive, Adders
<1>8. StopLostOnlyLate' /\ LateOK'
  BY DEF IInv, TypeOK, AddingOK, StopLostOnlyLate, LateOK, Adders
<1> QED
  BY <1>1, <1>2, <1>3, <1>4, <1>5, <1>6, <1>7, <1>8 DEF IInv

LEMMA CreatorDoneIInv ==
  ASSUME IInv, CreatorDone
  PROVE  IInv'
<1> USE DEF CreatorDone, AddStep
<1>1. TypeOK'
  BY DEF IInv, TypeOK, Adders, Lifetimes
<1>2. MutexHeld'
  BY DEF IInv, TypeOK, MutexHeld, Holds, MembersAdd, Adders
<1>3. AddingOK'
  BY DEF IInv, TypeOK, MutexHeld, Holds, AddingOK, MembersAdd, Adders
<1>4. MembersAdd'
  BY DEF IInv, TypeOK, AddingOK, MembersAdd, Adders
<1>5. ListExact'
  BY DEF IInv, TypeOK, MutexHeld, Holds, AddingOK, MembersAdd, ListExact,
         Unlisted, Alive, Adders
<1>6. DestructorOK'
  BY DEF IInv, TypeOK, MembersAdd, DestructorOK, Adders
<1>7. DestroyedIsQuiet'
  BY DEF IInv, TypeOK, AddingOK, MembersAdd, DestructorOK,
         DestroyedIsQuiet, Alive, Adders
<1>8. StopLostOnlyLate' /\ LateOK'
  BY DEF IInv, TypeOK, AddingOK, StopLostOnlyLate, LateOK, Adders
<1> QED
  BY <1>1, <1>2, <1>3, <1>4, <1>5, <1>6, <1>7, <1>8 DEF IInv

LEMMA ThreadStartIInv ==
  ASSUME IInv, NEW t \in Threads, ThreadStart(t)
  PROVE  IInv'
<1> USE DEF ThreadStart, Lives, Lower
<1>1. TypeOK'
  BY DEF IInv, TypeOK, Adders, Lifetimes
<1>2. MutexHeld'
  BY DEF IInv, TypeOK, MutexHeld, Holds, MembersAdd, Adders
<1>3. AddingOK'
  BY DEF IInv, TypeOK, MutexHeld, Holds, AddingOK, MembersAdd, Adders
<1>4. MembersAdd'
  BY DEF IInv, TypeOK, AddingOK, MembersAdd, Adders
<1>5. ListExact'
  BY DEF IInv, TypeOK, MutexHeld, Holds, AddingOK, MembersAdd, ListExact,
         Unlisted, Alive, Adders
<1>6. DestructorOK'
  BY DEF IInv, TypeOK, MembersAdd, DestructorOK, Adders
<1>7. DestroyedIsQuiet'
  BY DEF IInv, TypeOK, AddingOK, MembersAdd, DestructorOK,
         DestroyedIsQuiet, Alive, Adders
<1>8. StopLostOnlyLate' /\ LateOK'
  BY DEF IInv, TypeOK, AddingOK, StopLostOnlyLate, LateOK, Adders
<1> QED
  BY <1>1, <1>2, <1>3, <1>4, <1>5, <1>6, <1>7, <1>8 DEF IInv

LEMMA StopCommandIInv ==
  ASSUME IInv, NEW t \in Threads, NEW f \in Flags, StopCommand(t, f)
  PROVE  IInv'
<1> USE DEF StopCommand
<1>1. TypeOK'
  BY DEF IInv, TypeOK, Adders, Lifetimes
<1>2. MutexHeld'
  BY DEF IInv, TypeOK, MutexHeld, Holds, MembersAdd, Adders
<1>3. AddingOK'
  BY DEF IInv, TypeOK, MutexHeld, Holds, AddingOK, MembersAdd, Adders
<1>4. MembersAdd'
  BY DEF IInv, TypeOK, AddingOK, MembersAdd, Adders
<1>5. ListExact'
  BY DEF IInv, TypeOK, MutexHeld, Holds, AddingOK, MembersAdd, ListExact,
         Unlisted, Alive, Adders
<1>6. DestructorOK'
  BY DEF IInv, TypeOK, MembersAdd, DestructorOK, Adders
<1>7. DestroyedIsQuiet'
  BY DEF IInv, TypeOK, AddingOK, MembersAdd, DestructorOK,
         DestroyedIsQuiet, Alive, Adders
<1>8. StopLostOnlyLate' /\ LateOK'
  BY DEF IInv, TypeOK, AddingOK, StopLostOnlyLate, LateOK, Adders
<1> QED
  BY <1>1, <1>2, <1>3, <1>4, <1>5, <1>6, <1>7, <1>8 DEF IInv

LEMMA LowersFlagIInv ==
  ASSUME IInv, NEW t \in Threads, NEW f \in Flags, LowersFlag(t, f)
  PROVE  IInv'
<1> USE DEF LowersFlag, Lower
<1>1. TypeOK'
  BY DEF IInv, TypeOK, Adders, Lifetimes
<1>2. MutexHeld'
  BY DEF IInv, TypeOK, MutexHeld, Holds, MembersAdd, Adders
<1>3. AddingOK'
  BY DEF IInv, TypeOK, MutexHeld, Holds, AddingOK, MembersAdd, Adders
<1>4. MembersAdd'
  BY DEF IInv, TypeOK, AddingOK, MembersAdd, Adders
<1>5. ListExact'
  BY DEF IInv, TypeOK, MutexHeld, Holds, AddingOK, MembersAdd, ListExact,
         Unlisted, Alive, Adders
<1>6. DestructorOK'
  BY DEF IInv, TypeOK, MembersAdd, DestructorOK, Adders
<1>7. DestroyedIsQuiet'
  BY DEF IInv, TypeOK, AddingOK, MembersAdd, DestructorOK,
         DestroyedIsQuiet, Alive, Adders
<1>8. StopLostOnlyLate' /\ LateOK'
  BY DEF IInv, TypeOK, AddingOK, StopLostOnlyLate, LateOK, Adders
<1> QED
  BY <1>1, <1>2, <1>3, <1>4, <1>5, <1>6, <1>7, <1>8 DEF IInv

LEMMA ExitingIInv ==
  ASSUME IInv, NEW t \in Threads, SeesStop(t) \/ Ends(t)
  PROVE  IInv'
<1> USE DEF SeesStop, Ends, Lives
<1>1. TypeOK'
  BY DEF IInv, TypeOK, Adders, Lifetimes
<1>2. MutexHeld'
  BY DEF IInv, TypeOK, MutexHeld, Holds, MembersAdd, Adders
<1>3. AddingOK'
  BY DEF IInv, TypeOK, MutexHeld, Holds, AddingOK, MembersAdd, Adders
<1>4. MembersAdd'
  BY DEF IInv, TypeOK, AddingOK, MembersAdd, Adders
<1>5. ListExact'
  BY DEF IInv, TypeOK, MutexHeld, Holds, AddingOK, MembersAdd, ListExact,
         Unlisted, Alive, Adders
<1>6. DestructorOK'
  BY DEF IInv, TypeOK, MembersAdd, DestructorOK, Adders
<1>7. DestroyedIsQuiet'
  BY DEF IInv, TypeOK, AddingOK, MembersAdd, DestructorOK,
         DestroyedIsQuiet, Alive, Adders
<1>8. StopLostOnlyLate' /\ LateOK'
  BY DEF IInv, TypeOK, AddingOK, StopLostOnlyLate, LateOK, Adders
<1> QED
  BY <1>1, <1>2, <1>3, <1>4, <1>5, <1>6, <1>7, <1>8 DEF IInv

LEMMA BlockingIInv ==
  ASSUME IInv, NEW t \in Threads, Blocks(t)
  PROVE  IInv'
<1> USE DEF Blocks, Lives
<1>1. TypeOK'
  BY DEF IInv, TypeOK, Adders, Lifetimes
<1>2. MutexHeld'
  BY DEF IInv, TypeOK, MutexHeld, Holds, MembersAdd, Adders
<1>3. AddingOK'
  BY DEF IInv, TypeOK, MutexHeld, Holds, AddingOK, MembersAdd, Adders
<1>4. MembersAdd'
  BY DEF IInv, TypeOK, AddingOK, MembersAdd, Adders
<1>5. ListExact'
  BY DEF IInv, TypeOK, MutexHeld, Holds, AddingOK, MembersAdd, ListExact,
         Unlisted, Alive, Adders
<1>6. DestructorOK'
  BY DEF IInv, TypeOK, MembersAdd, DestructorOK, Adders
<1>7. DestroyedIsQuiet'
  BY DEF IInv, TypeOK, AddingOK, MembersAdd, DestructorOK,
         DestroyedIsQuiet, Alive, Adders
<1>8. StopLostOnlyLate' /\ LateOK'
  BY DEF IInv, TypeOK, AddingOK, StopLostOnlyLate, LateOK, Adders
<1> QED
  BY <1>1, <1>2, <1>3, <1>4, <1>5, <1>6, <1>7, <1>8 DEF IInv

LEMMA ExitLockIInv ==
  ASSUME IInv, NEW t \in Threads, ExitLock(t)
  PROVE  IInv'
<1> USE DEF ExitLock, Lives, Lock
<1>1. TypeOK'
  BY DEF IInv, TypeOK, Adders, Lifetimes
<1>2. MutexHeld'
  BY DEF IInv, TypeOK, MutexHeld, Holds, MembersAdd, Adders
<1>3. AddingOK'
  BY DEF IInv, TypeOK, MutexHeld, Holds, AddingOK, MembersAdd, Adders
<1>4. MembersAdd'
  BY DEF IInv, TypeOK, AddingOK, MembersAdd, Adders
<1>5. ListExact'
  BY DEF IInv, TypeOK, MutexHeld, Holds, AddingOK, MembersAdd, ListExact,
         Unlisted, Alive, Adders
<1>6. DestructorOK'
  BY DEF IInv, TypeOK, MembersAdd, DestructorOK, Adders
<1>7. DestroyedIsQuiet'
  BY DEF IInv, TypeOK, AddingOK, MembersAdd, DestructorOK,
         DestroyedIsQuiet, Alive, Adders
<1>8. StopLostOnlyLate' /\ LateOK'
  BY DEF IInv, TypeOK, AddingOK, StopLostOnlyLate, LateOK, Adders
<1> QED
  BY <1>1, <1>2, <1>3, <1>4, <1>5, <1>6, <1>7, <1>8 DEF IInv

LEMMA ExitEraseIInv ==
  ASSUME IInv, NEW t \in Threads, ExitErase(t)
  PROVE  IInv'
<1> USE DEF ExitErase, Lives, Unlock
<1>1. TypeOK'
  BY DEF IInv, TypeOK, Adders, Lifetimes
<1>2. MutexHeld'
  BY DEF IInv, TypeOK, MutexHeld, Holds, MembersAdd, Adders
<1>3. AddingOK'
  BY DEF IInv, TypeOK, MutexHeld, Holds, AddingOK, MembersAdd, Adders
<1>4. MembersAdd'
  BY DEF IInv, TypeOK, AddingOK, MembersAdd, Adders
<1>5. ListExact'
  BY DEF IInv, TypeOK, MutexHeld, Holds, AddingOK, MembersAdd, ListExact,
         Unlisted, Alive, Adders
<1>6. DestructorOK'
  BY DEF IInv, TypeOK, MembersAdd, DestructorOK, Adders
<1>7. DestroyedIsQuiet'
  BY DEF IInv, TypeOK, AddingOK, MembersAdd, DestructorOK,
         DestroyedIsQuiet, Alive, Adders
<1>8. StopLostOnlyLate' /\ LateOK'
  BY DEF IInv, TypeOK, AddingOK, StopLostOnlyLate, LateOK, Adders
<1> QED
  BY <1>1, <1>2, <1>3, <1>4, <1>5, <1>6, <1>7, <1>8 DEF IInv

LEMMA DeleteIInv ==
  ASSUME IInv, Delete
  PROVE  IInv'
<1> USE DEF Delete
<1>1. TypeOK'
  BY DEF IInv, TypeOK, Adders, Lifetimes
<1>2. MutexHeld'
  BY DEF IInv, TypeOK, MutexHeld, Holds, MembersAdd, Adders
<1>3. AddingOK'
  BY DEF IInv, TypeOK, MutexHeld, Holds, AddingOK, MembersAdd, Adders
<1>4. MembersAdd'
  BY DEF IInv, TypeOK, AddingOK, MembersAdd, Adders
<1>5. ListExact'
  BY DEF IInv, TypeOK, MutexHeld, Holds, AddingOK, MembersAdd, ListExact,
         Unlisted, Alive, Adders
<1>6. DestructorOK'
  BY DEF IInv, TypeOK, MembersAdd, DestructorOK, Adders
<1>7. DestroyedIsQuiet'
  BY DEF IInv, TypeOK, AddingOK, MembersAdd, DestructorOK,
         DestroyedIsQuiet, Alive, Adders
<1>8. StopLostOnlyLate' /\ LateOK'
  BY DEF IInv, TypeOK, AddingOK, StopLostOnlyLate, LateOK, Adders
<1> QED
  BY <1>1, <1>2, <1>3, <1>4, <1>5, <1>6, <1>7, <1>8 DEF IInv

LEMMA StopAllIInv ==
  ASSUME IInv, StopAll
  PROVE  IInv'
<1> USE DEF StopAll, Notified
<1>1. TypeOK'
  BY DEF IInv, TypeOK, Adders, Lifetimes
<1>2. MutexHeld'
  BY DEF IInv, TypeOK, MutexHeld, Holds, MembersAdd, Adders
<1>3. AddingOK'
  BY DEF IInv, TypeOK, MutexHeld, Holds, AddingOK, MembersAdd, Adders
<1>4. MembersAdd'
  BY DEF IInv, TypeOK, AddingOK, MembersAdd, Adders
<1>5. ListExact'
  BY DEF IInv, TypeOK, MutexHeld, Holds, AddingOK, MembersAdd, ListExact,
         Unlisted, Alive, Adders
<1>6. DestructorOK'
  BY DEF IInv, TypeOK, MembersAdd, DestructorOK, Adders
<1>7. DestroyedIsQuiet'
  BY DEF IInv, TypeOK, AddingOK, MembersAdd, DestructorOK,
         DestroyedIsQuiet, Alive, Adders
<1>8. StopLostOnlyLate' /\ LateOK'
  <2>1. m_pthreads = {t \in Threads : Alive(t)}
    BY ListWhenFree DEF ListIsRight
  <2>2. ASSUME NEW t \in Threads, life[t] \in {"created", "running", "busy"},
               FlagOf[t] # NoFlag
        PROVE  flag'[FlagOf[t]] = 1
    <3>1. FlagOf[t] \in Flags /\ FlagOf[t] \in Notified
      BY <2>1, <2>2 DEF Alive
    <3> QED
      BY <3>1
  <2>3. life' = life
    OBVIOUS
  <2> HIDE DEF StopAll
  <2> QED
    BY <2>2, <2>3 DEF StopLostOnlyLate, LateOK
<1> QED
  BY <1>1, <1>2, <1>3, <1>4, <1>5, <1>6, <1>7, <1>8 DEF IInv

LEMMA DestroyedIInv ==
  ASSUME IInv, Destroyed
  PROVE  IInv'
<1> USE DEF Destroyed
<1>1. TypeOK'
  BY DEF IInv, TypeOK, Adders, Lifetimes
<1>2. MutexHeld'
  BY DEF IInv, TypeOK, MutexHeld, Holds, MembersAdd, Adders
<1>3. AddingOK'
  BY DEF IInv, TypeOK, MutexHeld, Holds, AddingOK, MembersAdd, Adders
<1>4. MembersAdd'
  BY DEF IInv, TypeOK, AddingOK, MembersAdd, Adders
<1>5. ListExact'
  BY DEF IInv, TypeOK, MutexHeld, Holds, AddingOK, MembersAdd, ListExact,
         Unlisted, Alive, Adders
<1>6. DestructorOK'
  BY DEF IInv, TypeOK, MembersAdd, DestructorOK, Adders
<1>7. DestroyedIsQuiet'
  <2>1. \A t \in Threads : ~Alive(t)
    BY ListWhenFree DEF ListIsRight
  <2>2. \A t \in Threads : apc[t] = "idle"
    BY <2>1 DEF IInv, MembersAdd, Alive
  <2>3. apc[Creator] = "done"
    BY DEF IInv, DestructorOK
  <2> QED
    BY <2>1, <2>2, <2>3 DEF DestroyedIsQuiet, Alive, Adders
<1>8. StopLostOnlyLate' /\ LateOK'
  BY DEF IInv, TypeOK, AddingOK, StopLostOnlyLate, LateOK, Adders
<1> QED
  BY <1>1, <1>2, <1>3, <1>4, <1>5, <1>6, <1>7, <1>8 DEF IInv

LEMMA NextIInv == IInv /\ [Next]_vars => IInv'
<1> SUFFICES ASSUME IInv, [Next]_vars
             PROVE  IInv'
  OBVIOUS
<1>1. ASSUME NEW a \in Adders, AddThread(a)
      PROVE  IInv'
  BY <1>1, AddCheckIInv, AddLockIInv, AddCreateIInv, AddFailIInv, AddListIInv
  DEF AddThread
<1>2. CASE CreatorDone
  BY <1>2, CreatorDoneIInv
<1>3. ASSUME NEW t \in Threads, Run(t)
      PROVE  IInv'
  BY <1>3, ThreadStartIInv, StopCommandIInv, LowersFlagIInv, ExitingIInv,
     BlockingIInv, ExitLockIInv, ExitEraseIInv
  DEF Run
<1>4. CASE Destructor
  BY <1>4, DeleteIInv, StopAllIInv, DestroyedIInv DEF Destructor
<1>5. CASE UNCHANGED vars
  BY <1>5 DEF vars, IInv, TypeOK, MutexHeld, Holds, AddingOK, MembersAdd,
              ListExact, Unlisted, Alive, DestructorOK, DestroyedIsQuiet,
              StopLostOnlyLate, LateOK
<1> QED
  BY <1>1, <1>2, <1>3, <1>4, <1>5 DEF Next

LEMMA InvariantHolds == Spec => []IInv
  BY InitIInv, NextIInv, PTL DEF Spec

-----------------------------------------------------------------------------
(* The types of the variables.                                             *)
THEOREM TypeCorrect == Spec => []TypeOK
<1>1. IInv => TypeOK
  BY DEF IInv
<1> QED
  BY <1>1, InvariantHolds, PTL

(* The list names the living threads whenever the mutex is free.           *)
THEOREM ListStaysRight == Spec => []ListIsRight
  BY ListWhenFree, InvariantHolds, PTL

(* The destructor returns to a group nobody can touch any more.            *)
THEOREM DestructorLeavesNobody == Spec => []DestroyedIsQuiet
<1>1. IInv => DestroyedIsQuiet
  BY DEF IInv
<1> QED
  BY <1>1, InvariantHolds, PTL

(* A stop request of stopAll is lost only where its flag is put down, or   *)
(* the thread added, later.                                                *)
THEOREM StopLossCause == Spec => []StopLostOnlyLate
<1>1. IInv => StopLostOnlyLate
  BY DEF IInv
<1> QED
  BY <1>1, InvariantHolds, PTL

-----------------------------------------------------------------------------
(* The group is a ThreadGroup: addThread takes effect when pthread_create  *)
(* returns, exitThread when it has erased the entry, stopAll and the last  *)
(* poll at once.                                                           *)

Stage == [t \in Threads |->
            IF life[t] \in {"busy", "exitThread", "erase"}
            THEN "running" ELSE life[t]]

LEMMA StepMoves ==
  ASSUME NEW t \in Threads, NEW to \in Lifetimes,
         life \in [Threads -> Lifetimes],
         life' = [life EXCEPT ![t] = to]
  PROVE  Stage' = [Stage EXCEPT ![t] =
                     IF to \in {"busy", "exitThread", "erase"}
                     THEN "running" ELSE to]
  BY DEF Stage

(* With the mutex free, whoever is listed is a member and the reverse.     *)
LEMMA NotifiedAreMembers ==
  ASSUME IInv, m_mutex = NoThread, NEW f \in Flags
  PROVE  f \in Notified <=> \E t \in Group!Members : FlagOf[t] = f
<1>1. m_pthreads = {t \in Threads : Alive(t)}
  BY ListWhenFree DEF ListIsRight
<1>2. Group!Members = {t \in Threads : Alive(t)}
  BY DEF Group!Members, Alive, IInv, TypeOK, Lifetimes
<1>3. f # NoFlag
  OBVIOUS
<1> QED
  BY <1>1, <1>2, <1>3 DEF Notified

LEMMA StepsOfGroup ==
  IInv /\ [Next]_vars => [Group!Next]_(Group!groupVars)
<1> SUFFICES ASSUME IInv, [Next]_vars
             PROVE  [Group!Next]_(Group!groupVars)
  OBVIOUS
<1>t. /\ life \in [Threads -> Lifetimes]
      /\ flag \in [Flags -> {0, 1}]
      /\ dpc \in {"alive", "stop", "poll", "done"}
  BY DEF IInv, TypeOK
<1>s. Stage = [t \in Threads |->
                 IF life[t] \in {"busy", "exitThread", "erase"}
                 THEN "running" ELSE life[t]]
  BY DEF Stage
<1>u. ASSUME life' = life, flag' = flag, m_freeze' = m_freeze, dpc' = dpc
      PROVE  UNCHANGED Group!groupVars
  BY <1>u DEF Group!groupVars
<1>d. ASSUME NEW t \in Threads, Alive(t) \/ \E a \in Adders : apc[a] = "create"
      PROVE  dpc # "done"
  BY <1>d DEF IInv, DestroyedIsQuiet
<1>1. ASSUME NEW a \in Adders, NEW t \in Threads, AddCheck(a, t)
      PROVE  UNCHANGED Group!groupVars
  BY <1>1, <1>u DEF AddCheck
<1>2. ASSUME NEW a \in Adders, AddLock(a) \/ AddFail(a) \/ AddList(a)
      PROVE  UNCHANGED Group!groupVars
  BY <1>2, <1>u DEF AddLock, AddFail, AddList
<1>3. ASSUME NEW a \in Adders, AddCreate(a)
      PROVE  Group!Next
  <2>1. apc[a] = "create" /\ adding[a] \in Threads
    BY <1>3 DEF AddCreate, AddStep, IInv, AddingOK
  <2>2. PICK t \in Threads : t = adding[a]
    BY <2>1
  <2>3. /\ life[t] = "none" /\ life' = [life EXCEPT ![t] = "created"]
        /\ UNCHANGED <<flag, m_freeze, dpc>>
    BY <1>3, <2>2 DEF AddCreate, Creates, Lives
  <2>4. dpc # "done"
    BY <2>1, <2>2, <1>d
  <2>5. Stage' = [Stage EXCEPT ![t] = "created"]
    BY <1>t, <2>3, StepMoves DEF Lifetimes
  <2>6. Stage[t] = "none"
    BY <2>3 DEF Stage
  <2>7. Group!Joins(t)
    BY <2>3, <2>4, <2>5, <2>6 DEF Group!Joins, Group!Moves, Stage
  <2> QED
    BY <2>7 DEF Group!Next
<1>4. CASE CreatorDone
  BY <1>4, <1>u DEF CreatorDone
<1>5. ASSUME NEW t \in Threads, ThreadStart(t)
      PROVE  Group!Next
  <2>1. /\ life[t] = "created" /\ life' = [life EXCEPT ![t] = "running"]
        /\ UNCHANGED <<m_freeze, dpc>>
        /\ flag' = [f \in Flags |-> IF f \in Resets[t] THEN 0 ELSE flag[f]]
    BY <1>5 DEF ThreadStart, Lives, Lower
  <2>2. dpc # "done"
    BY <2>1, <1>d DEF Alive
  <2>3. Stage' = [Stage EXCEPT ![t] = "running"]
    BY <1>t, <2>1, StepMoves DEF Lifetimes
  <2>4. Stage[t] = "created"
    BY <2>1 DEF Stage
  <2>5. Group!Begins(t)
    BY <2>1, <2>2, <2>3, <2>4 DEF Group!Begins, Group!Moves, Stage
  <2> QED
    BY <2>5 DEF Group!Next
<1>6. ASSUME NEW t \in Threads, NEW f \in Flags, StopCommand(t, f)
      PROVE  Group!Next
  <2>1. /\ life[t] = "running" /\ flag' = [flag EXCEPT ![f] = 1]
        /\ UNCHANGED <<life, m_freeze, dpc>>
    BY <1>6 DEF StopCommand
  <2>2. Group!Asks(f)
    BY <2>1 DEF Group!Asks
  <2> QED
    BY <2>2 DEF Group!Next
<1>6a. ASSUME NEW t \in Threads, NEW f \in Flags, LowersFlag(t, f)
      PROVE  Group!Next
  <2>1. /\ life[t] = "running" /\ f \in Lowers[t]
        /\ flag' = [g \in Flags |-> IF g \in {f} THEN 0 ELSE flag[g]]
        /\ UNCHANGED <<life, m_freeze, dpc>>
    BY <1>6a DEF LowersFlag, Lower
  <2>2. flag' = [flag EXCEPT ![f] = 0]
    BY <1>t, <2>1
  <2>3. Group!TakesBack(t, f)
    BY <2>1, <2>2 DEF Group!TakesBack
  <2> QED
    BY <2>3 DEF Group!Next
<1>7. ASSUME NEW t \in Threads,
             \/ SeesStop(t) \/ Ends(t) \/ ExitLock(t)
             \/ Blocks(t)
      PROVE  UNCHANGED Group!groupVars
  <2>1. /\ life[t] \in {"running", "busy", "exitThread"}
        /\ \E to \in {"busy", "exitThread", "erase"} :
             life' = [life EXCEPT ![t] = to]
        /\ UNCHANGED <<flag, m_freeze, dpc>>
    BY <1>7 DEF SeesStop, Ends, ExitLock, Blocks, Lives
  <2>2. Stage' = Stage
    BY <1>t, <2>1 DEF Stage
  <2> QED
    BY <2>1, <2>2 DEF Group!groupVars, Stage
<1>8. ASSUME NEW t \in Threads, ExitErase(t)
      PROVE  Group!Next
  <2>1. /\ life[t] = "erase" /\ life' = [life EXCEPT ![t] = "gone"]
        /\ UNCHANGED <<flag, m_freeze, dpc>>
    BY <1>8 DEF ExitErase, Lives
  <2>2. dpc # "done"
    BY <2>1, <1>d DEF Alive
  <2>3. Stage' = [Stage EXCEPT ![t] = "gone"]
    BY <1>t, <2>1, StepMoves DEF Lifetimes
  <2>4. Stage[t] = "running"
    BY <2>1 DEF Stage
  <2>5. Group!Leaves(t)
    BY <2>1, <2>2, <2>3, <2>4 DEF Group!Leaves, Group!Moves, Stage
  <2> QED
    BY <2>5 DEF Group!Next
<1>9. CASE Delete
  BY <1>9, <1>t DEF Delete, Group!groupVars
<1>10. CASE StopAll
  <2>1. /\ dpc = "stop" /\ m_mutex = NoThread /\ m_freeze' = TRUE
        /\ dpc' = "poll" /\ life' = life
        /\ flag' = [f \in Flags |-> IF f \in Notified THEN 1 ELSE flag[f]]
    BY <1>10 DEF StopAll
  <2>2. m_freeze = FALSE
    BY <2>1 DEF IInv, DestructorOK, TypeOK
  <2>3. flag' = [f \in Flags |->
                   IF \E t \in Group!Members : FlagOf[t] = f
                     THEN 1 ELSE flag[f]]
    BY <2>1, NotifiedAreMembers
  <2>4. Group!Freeze
    BY <2>1, <2>2, <2>3 DEF Group!Freeze
  <2> QED
    BY <2>4 DEF Group!Next
<1>11. CASE Destroyed
  <2>1. /\ dpc = "poll" /\ m_mutex = NoThread /\ m_pthreads = {}
        /\ dpc' = "done" /\ UNCHANGED <<m_freeze, life, flag>>
    BY <1>11 DEF Destroyed
  <2>2. \A t \in Threads : ~Alive(t)
    BY <2>1, ListWhenFree DEF ListIsRight
  <2>3. Group!Members = {}
    BY <1>t, <2>2 DEF Group!Members, Alive, Lifetimes
  <2>4. m_freeze
    BY <2>1 DEF IInv, DestructorOK
  <2>5. Group!Destroy
    BY <2>1, <2>3, <2>4 DEF Group!Destroy
  <2> QED
    BY <2>5 DEF Group!Next
<1>12. CASE UNCHANGED vars
  BY <1>12, <1>u DEF vars
<1> QED
  BY <1>1, <1>2, <1>3, <1>4, <1>5, <1>6, <1>6a, <1>7, <1>8, <1>9, <1>10,
     <1>11, <1>12, Zenon DEF Next, AddThread, Run, Destructor

LEMMA InitGroup == Init => Group!Init
<1> SUFFICES ASSUME Init
             PROVE  Group!Init
  OBVIOUS
<1> QED
  BY DEF Init, Group!Init

(* A group of any threads, flags and kinds is a ThreadGroup: what happens  *)
(* inside addThread, exitThread, stopAll and the destructor cannot be told *)
(* from single steps, at which VncSession takes them.                      *)
THEOREM ImplementsGroup == Spec => IsThreadGroup
  BY InitGroup, StepsOfGroup, InvariantHolds, PTL
     DEF Spec, IsThreadGroup, Group!Spec
=============================================================================
