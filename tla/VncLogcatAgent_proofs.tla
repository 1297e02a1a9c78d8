----------------------- MODULE VncLogcatAgent_proofs -----------------------
(***************************************************************************)
(* For any number of commands and connections: as long as no command has   *)
(* missed a thread, one thread at most is at work and no child and no pipe *)
(* is forgotten.                                                           *)
(***************************************************************************)
EXTENDS VncLogcatAgent, TLAPS

(* Runs that have not come yet have left nothing.                          *)
RunsToCome ==
  /\ \A i \in Runs : i > runs => thread[i] = "none" /\ child[i] = "none"
  /\ logcat_pid <= runs /\ logcat_pipe <= runs
  /\ ppc = "add" => runs \in Runs /\ thread[runs] = "none"

(* The places of a thread that has set threadExist.                        *)
Begun == {"loop", "send", "send_error", "pipe_fail", "pipe", "socket_fail",
          "socket_pipe", "socket", "exist"}

(* threadExist speaks of the thread at work, but for one that has yet to   *)
(* set it or leaves without.                                               *)
ExistIsRight ==
  /\ \A i \in Runs : thread[i] \in Begun => threadExist = 1
  /\ threadExist = 1 => \E i \in Runs : thread[i] \in Begun \cup {"end"}

(* Behind closeCurrCommandSession's wait the processor is alone, up to the *)
(* thread that it adds itself.                                             *)
ClosedAlone ==
  \/ ppc \in {"pipe", "kill", "shutdown", "fork", "add"}
  \/ ppc = "wait" /\ threadExist = 0

AloneWhenClosed == ClosedAlone => \A i \in Runs : ~Working(i)

(* And what the last command left is gone, step by step.                   *)
ClosedInOrder ==
  /\ ppc \in {"kill", "shutdown", "fork"} => logcat_pipe = None
  /\ ppc \in {"shutdown", "fork"} => logcat_pid = None

Sound ==
  /\ OneThread
  /\ ExistIsRight
  /\ AloneWhenClosed
  /\ ClosedInOrder
  /\ NothingForgotten

IInv == TypeOK /\ RunsToCome /\ (~missed => Sound)

USE BoundAssumption DEF Runs, Conns, None

LEMMA InitIInv == Init => IInv
<1> SUFFICES ASSUME Init
             PROVE  IInv
  OBVIOUS
<1>1. frozen \in BOOLEAN /\ missed \in BOOLEAN
  BY Zenon DEF Init
<1>2. TypeOK
  BY <1>1 DEF Init, TypeOK, Children
<1>3. RunsToCome
  BY DEF Init, RunsToCome
<1>4. Sound
  BY DEF Init, Sound, OneThread, ExistIsRight, AloneWhenClosed, ClosedInOrder,
         NothingForgotten, ClosedAlone, Working, Begun
<1> QED
  BY <1>2, <1>3, <1>4 DEF IInv

-----------------------------------------------------------------------------
(* Type correctness, and that runs come one after the other *)

Goal == TypeOK' /\ RunsToCome'

LEMMA ProcessorTypes ==
  ASSUME TypeOK, RunsToCome,
         Processor \/ \E c \in {"start", "stop", "pause", "run"} : Receive(c)
  PROVE  Goal
<1> USE DEF Goal, TypeOK, RunsToCome, Proc, agentVars, flagVars, countVars,
            history, Children
<1>1. ASSUME NEW c \in {"start", "stop", "pause", "run"}, Receive(c)
      PROVE  Goal
  BY <1>1 DEF Receive
<1>2. CASE Connect
  BY <1>2 DEF Connect, AfterConnect
<1>3. CASE ConnectFails \/ ThreadWentAway \/ StopSocket \/ PipeFails
  <2>1. CASE ConnectFails
    BY <2>1 DEF ConnectFails
  <2>2. CASE ThreadWentAway
    BY <2>2 DEF ThreadWentAway
  <2>3. CASE StopSocket
    BY <2>3 DEF StopSocket
  <2>4. CASE PipeFails
    BY <2>4 DEF PipeFails
  <2> QED
    BY <1>3, <2>1, <2>2, <2>3, <2>4
<1>4. CASE CloseThread
  <2>1. missed' \in BOOLEAN
    BY <1>4, Zenon DEF CloseThread
  <2> QED
    BY <1>4, <2>1 DEF CloseThread
<1>5. CASE ClosePipe
  BY <1>5 DEF ClosePipe, ShutdownPipe
<1>6. CASE CloseProcess
  BY <1>6 DEF CloseProcess, AfterClose, KillLogcatProcess, Target
<1>7. CASE Fork
  BY <1>7 DEF Fork
<1>8. CASE ForkFails
  BY <1>8 DEF ForkFails
<1>9. CASE AddThread
  BY <1>9 DEF AddThread
<1> QED
  BY <1>1, <1>2, <1>3, <1>4, <1>5, <1>6, <1>7, <1>8, <1>9 DEF Processor

Places == {"none", "created", "loop", "send", "send_error", "pipe_fail",
           "pipe", "socket_fail", "socket_pipe", "socket", "exist", "end",
           "exit", "gone"}

(* Where a thread's step leads.                                            *)
LEMMA ThreadMove ==
  ASSUME NEW i \in Runs, Thread(i)
  PROVE  \E to \in Places \ {"none", "created"} :
           /\ thread' = [thread EXCEPT ![i] = to]
           /\ thread[i] \notin {"none", "gone"}
<1> USE DEF Moves, Places
<1>1. CASE Begin(i)
  BY <1>1 DEF Begin
<1>2. CASE LoopEnds(i) \/ Reads(i) \/ ReadFails(i)
  BY <1>2 DEF LoopEnds, Reads, ReadFails
<1>3. CASE Sends(i) \/ SendFails(i)
  BY <1>3 DEF Sends, SendFails
<1>4. CASE ShutdownFailed(i)
  BY <1>4 DEF ShutdownFailed
<1>5. CASE ThreadKills(i)
  BY <1>5 DEF ThreadKills
<1>6. CASE ThreadClosesPipe(i)
  BY <1>6 DEF ThreadClosesPipe
<1>7. CASE NoLongerExists(i) \/ Exits(i)
  BY <1>7 DEF NoLongerExists, Exits
<1> QED
  BY <1>1, <1>2, <1>3, <1>4, <1>5, <1>6, <1>7 DEF Thread

LEMMA ThreadTypes ==
  ASSUME TypeOK, RunsToCome, NEW i \in Runs, Thread(i)
  PROVE  Goal
<1> USE DEF TypeOK, ThreadRest, agentVars, flagVars, procVars, countVars
<1>1. PICK to \in Places \ {"none", "created"} :
        thread' = [thread EXCEPT ![i] = to] /\ thread[i] # "none"
  BY ThreadMove
<1>2. thread' \in [Runs -> Places]
  BY <1>1 DEF Places
<1>3. UNCHANGED <<frozen, broken, ppc, cmd, runs, conns, missed, forkFailed>>
  BY Zenon DEF Thread, Begin, LoopEnds, Reads, ReadFails, Sends, SendFails,
     ShutdownFailed, ThreadKills, ThreadClosesPipe, NoLongerExists, Exits
<1>4. /\ logcat_socket' \in Conns \cup {None}
      /\ exitLogcatFlag' \in {0, 1} /\ threadExist' \in {0, 1}
  BY DEF Thread, Begin, LoopEnds, Reads, ReadFails, Sends, SendFails,
     ShutdownFailed, ThreadKills, ThreadClosesPipe, NoLongerExists, Exits
<1>5. pipes' \subseteq Runs /\ logcat_pipe' \in {logcat_pipe, None}
  BY DEF Thread, Begin, LoopEnds, Reads, ReadFails, Sends, SendFails,
     ShutdownFailed, ThreadKills, ThreadClosesPipe, NoLongerExists, Exits,
     ShutdownPipe
<1>6. \/ UNCHANGED <<logcat_pid, child, signalled>>
      \/ KillLogcatProcess
  BY DEF Thread, Begin, LoopEnds, Reads, ReadFails, Sends, SendFails,
     ShutdownFailed, ThreadKills, ThreadClosesPipe, NoLongerExists, Exits
<1>7. /\ logcat_pid' \in {logcat_pid, None}
      /\ child' \in [Runs -> Children]
      /\ \A j \in Runs : child[j] = "none" => child'[j] = "none"
      /\ signalled' \subseteq {"logcat", "program", "init"}
  BY <1>6 DEF KillLogcatProcess, Target, Children
<1>8. TypeOK'
  BY <1>2, <1>3, <1>4, <1>5, <1>7 DEF Places
<1>9. RunsToCome'
  <2>1. \A j \in Runs : j > runs => j # i /\ thread'[j] = "none"
    BY <1>1 DEF RunsToCome
  <2>2. ppc = "add" => runs # i /\ thread'[runs] = "none"
    BY <1>1 DEF RunsToCome
  <2> QED
    BY <1>3, <1>5, <1>7, <2>1, <2>2 DEF RunsToCome
<1> QED
  BY <1>8, <1>9 DEF Goal

LEMMA AroundTypes ==
  ASSUME TypeOK, RunsToCome,
         \/ \E i \in Runs : ChildStep(i)
         \/ ServerDrops \/ StopAll \/ NewSession
         \/ UNCHANGED vars
  PROVE  Goal
<1> USE DEF Goal, TypeOK, RunsToCome, EnvRest, agentVars, flagVars,
            procVars, countVars, history, Children
<1>1. ASSUME NEW i \in Runs, ChildStep(i)
      PROVE  Goal
  BY <1>1 DEF ChildStep
<1>2. CASE ServerDrops
  BY <1>2 DEF ServerDrops
<1>3. CASE StopAll \/ NewSession
  <2>1. CASE StopAll
    BY <2>1 DEF StopAll
  <2>2. CASE NewSession
    BY <2>2 DEF NewSession
  <2> QED
    BY <1>3, <2>1, <2>2
<1>4. CASE UNCHANGED vars
  BY <1>4 DEF vars
<1> QED
  BY <1>1, <1>2, <1>3, <1>4

LEMMA NextTypes == TypeOK /\ RunsToCome /\ [Next]_vars => Goal
  BY ProcessorTypes, ThreadTypes, AroundTypes, Zenon DEF Next

-----------------------------------------------------------------------------
(* One thread, and what a run leaves, as long as no thread is missed *)

(* Sound without the exception that each of its parts makes.               *)
OneAtWork == \A i, j \in Runs : Working(i) /\ Working(j) => i = j

NothingLeft ==
  /\ \A i \in Runs : child[i] \in {"forked", "leads"}
                      => i = logcat_pid \/ Dead
  /\ pipes \subseteq {logcat_pipe} \cup forkFailed

Plain == /\ OneAtWork /\ ExistIsRight /\ AloneWhenClosed /\ ClosedInOrder
         /\ NothingLeft

LEMMA SoundIsPlain == ~missed => (Sound <=> Plain)
  BY DEF Sound, Plain, OneThread, OneAtWork, NothingForgotten, NothingLeft

(* missed is never taken back.                                             *)
LEMMA MissedStays == [Next]_vars /\ ~missed' => ~missed
<1> SUFFICES ASSUME [Next]_vars, ~missed'
             PROVE  ~missed
  OBVIOUS
<1> USE DEF history
<1>1. CASE \/ Processor
           \/ \E c \in {"start", "stop", "pause", "run"} : Receive(c)
  BY <1>1, Zenon DEF Processor, Receive, Connect, ConnectFails, CloseThread,
     ThreadWentAway, ClosePipe, CloseProcess, StopSocket, Fork, PipeFails,
     ForkFails, AddThread
<1>2. ASSUME NEW i \in Runs, Thread(i)
      PROVE  ~missed
  BY <1>2, Zenon DEF Thread, Begin, LoopEnds, Reads, ReadFails, Sends,
     SendFails, ShutdownFailed, ThreadKills, ThreadClosesPipe,
     NoLongerExists, Exits, ThreadRest
<1>3. CASE \/ \E i \in Runs : ChildStep(i)
           \/ ServerDrops \/ StopAll \/ NewSession
           \/ UNCHANGED vars
  BY <1>3, Zenon DEF ChildStep, ServerDrops, StopAll, NewSession, vars,
     EnvRest
<1> QED
  BY <1>1, <1>2, <1>3, Zenon DEF Next

LEMMA ProcessorPlain ==
  ASSUME TypeOK, RunsToCome, Plain, ~missed',
         Processor \/ \E c \in {"start", "stop", "pause", "run"} : Receive(c)
  PROVE  Plain'
<1> USE DEF TypeOK, RunsToCome, Plain, OneAtWork, ExistIsRight,
            AloneWhenClosed, ClosedAlone, ClosedInOrder, NothingLeft, Dead,
            Working, Begun, Proc, agentVars, flagVars, countVars, history
<1>1. ASSUME NEW c \in {"start", "stop", "pause", "run"}, Receive(c)
      PROVE  Plain'
  BY <1>1 DEF Receive
<1>2. CASE Connect
  BY <1>2 DEF Connect, AfterConnect
<1>3. CASE ConnectFails \/ ThreadWentAway \/ StopSocket \/ PipeFails
  BY <1>3 DEF ConnectFails, ThreadWentAway, StopSocket, PipeFails
<1>4. CASE CloseThread
  <2>1. threadExist = 0 => \A i \in Runs : ~Working(i)
    BY <1>4, Zenon DEF CloseThread
  <2>2. /\ ppc = "close" /\ ppc' = IF threadExist = 1 THEN "wait" ELSE "pipe"
        /\ UNCHANGED <<agentVars, threadExist, child, pipes, thread,
                       signalled, forkFailed>>
    BY <1>4 DEF CloseThread
  <2> QED
    BY <2>1, <2>2
<1>5. CASE ClosePipe
  BY <1>5 DEF ClosePipe, ShutdownPipe
<1>6. CASE CloseProcess
  BY <1>6 DEF CloseProcess, AfterClose, KillLogcatProcess, Target
<1>7. CASE Fork
  BY <1>7 DEF Fork
<1>8. CASE ForkFails
  BY <1>8 DEF ForkFails
<1>9. CASE AddThread
  BY <1>9 DEF AddThread
<1> QED
  BY <1>1, <1>2, <1>3, <1>4, <1>5, <1>6, <1>7, <1>8, <1>9 DEF Processor

(* A thread's step, the processor being behind its wait or not.            *)
LEMMA ThreadPlain ==
  ASSUME TypeOK, RunsToCome, Plain, NEW i \in Runs, Thread(i)
  PROVE  Plain'
<1> USE DEF TypeOK, Plain, OneAtWork, ExistIsRight, AloneWhenClosed,
            ClosedAlone, ClosedInOrder, NothingLeft, Dead, Working, Begun,
            Moves, ThreadRest, agentVars, flagVars, procVars
<1>1. CASE Begin(i)
  BY <1>1 DEF Begin
<1>2. CASE LoopEnds(i) \/ Reads(i) \/ ReadFails(i)
  <2>1. CASE LoopEnds(i)
    BY <2>1 DEF LoopEnds
  <2>2. CASE Reads(i)
    BY <2>2 DEF Reads
  <2>3. CASE ReadFails(i)
    BY <2>3 DEF ReadFails
  <2> QED
    BY <1>2, <2>1, <2>2, <2>3
<1>3. CASE Sends(i) \/ SendFails(i) \/ Exits(i)
  <2>1. CASE Sends(i)
    BY <2>1 DEF Sends
  <2>2. CASE SendFails(i)
    BY <2>2 DEF SendFails
  <2>3. CASE Exits(i)
    BY <2>3 DEF Exits
  <2> QED
    BY <1>3, <2>1, <2>2, <2>3
<1>4. CASE ShutdownFailed(i)
  BY <1>4 DEF ShutdownFailed
<1>5. CASE ThreadKills(i)
  <2>1. CASE logcat_pid = None
    BY <1>5, <2>1 DEF ThreadKills, KillLogcatProcess
  <2>2. CASE logcat_pid # None
    BY <1>5, <2>2, SMTT(30) DEF ThreadKills, KillLogcatProcess, Target
  <2> QED
    BY <2>1, <2>2
<1>6. CASE ThreadClosesPipe(i)
  BY <1>6 DEF ThreadClosesPipe, ShutdownPipe
<1>7. CASE NoLongerExists(i)
  BY <1>7 DEF NoLongerExists
<1> QED
  BY <1>1, <1>2, <1>3, <1>4, <1>5, <1>6, <1>7 DEF Thread

LEMMA AroundPlain ==
  ASSUME TypeOK, RunsToCome, Plain,
         \/ \E i \in Runs : ChildStep(i)
         \/ ServerDrops \/ StopAll \/ NewSession
         \/ UNCHANGED vars
  PROVE  Plain'
<1> USE DEF TypeOK, RunsToCome, Plain, OneAtWork, ExistIsRight,
            AloneWhenClosed, ClosedAlone, ClosedInOrder, NothingLeft, Dead,
            Working, EnvRest, agentVars, flagVars, procVars, countVars,
            history
<1>1. ASSUME NEW i \in Runs, ChildStep(i)
      PROVE  Plain'
  BY <1>1 DEF ChildStep
<1>2. CASE ServerDrops
  BY <1>2 DEF ServerDrops
<1>3. CASE StopAll \/ NewSession
  BY <1>3 DEF StopAll, NewSession
<1>4. CASE UNCHANGED vars
  BY <1>4 DEF vars
<1> QED
  BY <1>1, <1>2, <1>3, <1>4

LEMMA NextIInv == IInv /\ [Next]_vars => IInv'
<1> SUFFICES ASSUME IInv, [Next]_vars
             PROVE  IInv'
  OBVIOUS
<1>1. TypeOK' /\ RunsToCome'
  BY NextTypes DEF IInv, Goal
<1>2. ASSUME ~missed'
      PROVE  Plain'
  <2>1. Plain
    BY <1>2, MissedStays, SoundIsPlain DEF IInv
  <2> QED
    BY <1>2, <2>1, ProcessorPlain, ThreadPlain, AroundPlain, Zenon
    DEF IInv, Next
<1>3. ~missed' => Sound'
  BY <1>2, Zenon DEF Sound, Plain, OneThread, OneAtWork, NothingForgotten,
                     NothingLeft
<1> QED
  BY <1>1, <1>3 DEF IInv

LEMMA Invariance == Spec => []IInv
  BY InitIInv, NextIInv, PTL DEF Spec

-----------------------------------------------------------------------------
(* The variables keep their types, for any number of commands and          *)
(* connections.                                                            *)
THEOREM TypeCorrect == Spec => []TypeOK
<1>1. IInv => TypeOK
  BY DEF IInv
<1> QED
  BY <1>1, Invariance, PTL

(* Up to the first command that misses a thread (VncLogcatAgent.cpp:129),  *)
(* one thread at most copies a logcat's output.                            *)
THEOREM OneCopies == Spec => []OneThread
<1>1. IInv => OneThread
  BY DEF IInv, Sound, OneThread
<1> QED
  BY <1>1, Invariance, PTL

(* And every running child and every open pipe is one that the agent knows *)
(* and will end, whichever of the two sides ends a run and however.        *)
THEOREM NoneForgotten == Spec => []NothingForgotten
<1>1. IInv => NothingForgotten
  BY DEF IInv, Sound, NothingForgotten
<1> QED
  BY <1>1, Invariance, PTL
=============================================================================
