----------------------- MODULE VncTelnetAgent_proofs -----------------------
(***************************************************************************)
(* For any number of sockets and attempts: the telnet socket belongs to    *)
(* one thread as long as no start meets an earlier one's remains.          *)
(***************************************************************************)
EXTENDS VncTelnetAgent, TLAPS

(* Socket and thread of the start in progress, and those yet to come.      *)
StartInProgress ==
  /\ \A s \in Sockets :
       s > sockets => sock[s] = "none" /\ thread[s] = "none"
  /\ ppc \in {"connect", "clear", "add"} =>
       sockets \in Sockets /\ thread[sockets] = "none"
  /\ telnetfd <= sockets
  /\ ppc = "connect" => /\ tries > 0 /\ sock[sockets] = "connecting"
                        /\ telnetfd # sockets

(* Up to its last use of the socket a thread's socket is the current one.  *)
OwnsSocket ==
  ~restarted =>
    \A s \in Sockets :
      /\ thread[s] \in {"created", "loop", "close", "forget"} => s = telnetfd
      /\ thread[s] \in {"created", "loop", "close"} => sock[s] = "open"
      /\ thread[s] = "forget" => sock[s] = "closed"
      /\ sock[s] = "open" => s = telnetfd

(* A socket that has just been connected has no thread beside it.          *)
StartsAlone ==
  (~restarted /\ ppc \in {"clear", "add"}) =>
    /\ telnetfd = sockets /\ sock[sockets] = "open"
    /\ \A s \in Sockets : ~Alive(s)

NotWild == ~restarted => ~wild

IInv ==
  /\ TypeOK
  /\ StartInProgress
  /\ OwnsSocket
  /\ StartsAlone
  /\ NotWild

USE TelnetAssumption DEF Sockets, None

LEMMA InitIInv == Init => IInv
<1> SUFFICES ASSUME Init
             PROVE  IInv
  OBVIOUS
<1>1. ~wild /\ wild \in BOOLEAN /\ frozen \in BOOLEAN
        /\ restarted \in BOOLEAN
  BY Zenon DEF Init
<1>2. TypeOK
  BY <1>1 DEF Init, TypeOK
<1>3. StartInProgress /\ OwnsSocket /\ StartsAlone
  BY DEF Init, StartInProgress, OwnsSocket, StartsAlone, Alive
<1> QED
  BY <1>1, <1>2, <1>3 DEF IInv, NotWild

-----------------------------------------------------------------------------
(* Type correctness, action by action *)

LEMMA TypeStep ==
  ASSUME TypeOK, StartInProgress, [Next]_vars
  PROVE  TypeOK'
<1> USE DEF TypeOK
<1>1. CASE UNCHANGED vars
  BY <1>1 DEF vars, procVars
<1>2. ASSUME NEW n \in 1 .. MaxSize, SendData(n)
      PROVE  TypeOK'
  <2>1. sockets' \in 0 .. MaxSockets /\ size' \in 0 .. MaxInt
    BY <1>2 DEF SendData, OpenSocket
  <2>2. tries' \in 0 .. MaxTries
    BY <1>2 DEF SendData, OpenSocket
  <2>3. QED
    BY <1>2, <2>1, <2>2 DEF SendData, OpenSocket
<1>2a. CASE StartTelnet
  <2>1. sockets' \in 0 .. MaxSockets /\ tries' \in 0 .. MaxTries
    BY <1>2a DEF StartTelnet, OpenSocket
  <2>2. QED
    BY <1>2a, <2>1 DEF StartTelnet, OpenSocket
<1>3. CASE ConnectFails
  <2>1. tries' \in 0 .. MaxTries
    BY <1>3 DEF ConnectFails, StartInProgress
  <2>2. QED
    BY <1>3, <2>1 DEF ConnectFails, StartInProgress
<1>4. CASE Connects
  BY <1>4 DEF Connects, StartInProgress
<1>5. CASE ClearExit \/ StopTelnet
  BY <1>5 DEF ClearExit, StopTelnet, procVars
<1>6. CASE AddThread
  BY <1>6 DEF AddThread, StartInProgress, Moves
<1>7. CASE Write \/ WriteFails
  <2>1. size' \in 0 .. MaxInt
    BY <1>7 DEF Write, WriteFails
  <2>2. QED
    BY <1>7, <2>1 DEF Write, WriteFails, Turns
<1>8. ASSUME NEW s \in Sockets, RecvData(s)
      PROVE  TypeOK'
  BY <1>8 DEF RecvData, Runs, Begin, SeesExit, ReadFails, SelectsNothing,
         Close, Forget, Reset, Exit, Moves, ThreadRest, procVars
<1>9. ASSUME NEW s \in Sockets, TelnetdGoes(s)
      PROVE  TypeOK'
  BY <1>9 DEF TelnetdGoes, procVars
<1>10. CASE StopAll \/ NewSession
  BY <1>10 DEF StopAll, NewSession, procVars
<1> QED
  BY <1>1, <1>2, <1>2a, <1>3, <1>4, <1>5, <1>6, <1>7, <1>8, <1>9,
     <1>10
     DEF Next, Processor, Continues

-----------------------------------------------------------------------------
(* The socket and its thread, action by action *)

LEMMA ProcessorStep ==
  ASSUME IInv, Processor
  PROVE  StartInProgress' /\ OwnsSocket' /\ StartsAlone' /\ NotWild'
<1> USE DEF IInv, TypeOK, StartInProgress, OwnsSocket, StartsAlone, NotWild,
            Alive
<1> DEFINE Goal == StartInProgress' /\ OwnsSocket' /\ StartsAlone' /\ NotWild'
<1>1. CASE StartTelnet
  BY <1>1 DEF StartTelnet, OpenSocket
<1>2. ASSUME NEW n \in 1 .. MaxSize, SendData(n)
      PROVE  Goal
  BY <1>2 DEF SendData, OpenSocket
<1>3. CASE ConnectFails
  BY <1>3 DEF ConnectFails
<1>4. CASE Connects
  <2>1. restarted' <=> restarted \/ telnetfd # None
                                \/ \E s \in Sockets : Alive(s)
    BY <1>4, Zenon DEF Connects
  <2>2. /\ telnetfd' = sockets /\ sock' = [sock EXCEPT ![sockets] = "open"]
        /\ ppc = "connect" /\ ppc' = "clear"
        /\ UNCHANGED <<thread, sockets>>
    BY <1>4 DEF Connects
  <2>3. wild' <=> wild
    BY <1>4, Zenon DEF Connects
  <2>4. QED
    BY <2>1, <2>2, <2>3
<1>5. CASE ClearExit
  BY <1>5 DEF ClearExit
<1>6. CASE AddThread
  BY <1>6 DEF AddThread, Moves
<1>7. CASE Write \/ WriteFails
  BY <1>7 DEF Write, WriteFails, Turns
<1>8. CASE StopTelnet
  BY <1>8 DEF StopTelnet, procVars
<1> QED
  BY <1>1, <1>2, <1>3, <1>4, <1>5, <1>6, <1>7, <1>8 DEF Processor, Continues

LEMMA ThreadStep ==
  ASSUME IInv, NEW t \in Sockets, RecvData(t)
  PROVE  StartInProgress' /\ OwnsSocket' /\ StartsAlone' /\ NotWild'
<1> USE DEF IInv, TypeOK, StartInProgress, OwnsSocket, StartsAlone, NotWild,
            Alive, ThreadRest, procVars
<1> DEFINE Goal == StartInProgress' /\ OwnsSocket' /\ StartsAlone' /\ NotWild'
<1>1. CASE Begin(t) \/ SeesExit(t) \/ ReadFails(t) \/ Reset(t) \/ Exit(t)
  BY <1>1 DEF Begin, SeesExit, ReadFails, Reset, Exit, Moves
<1>2. CASE SelectsNothing(t)
  BY <1>2 DEF SelectsNothing
<1>3. CASE Close(t)
  <2>1. (restarted' <=> restarted) /\ (wild' <=> wild)
    BY <1>3, Zenon DEF Close, ThreadRest
  <2>2. CASE telnetfd = None
    BY <1>3, <2>1, <2>2 DEF Close, Moves
  <2>3. CASE telnetfd # None
    BY <1>3, <2>1, <2>3 DEF Close, Moves
  <2>4. QED
    BY <2>2, <2>3
<1>4. CASE Forget(t)
  <2>1. (restarted' <=> restarted) /\ (wild' <=> wild)
    BY <1>4, Zenon DEF Forget, ThreadRest
  <2>2. /\ thread[t] = "forget" /\ thread' = [thread EXCEPT ![t] = "reset"]
        /\ telnetfd' = None /\ UNCHANGED <<sock, ppc, tries, sockets>>
    BY <1>4 DEF Forget, Moves
  <2>3. QED
    BY <2>1, <2>2
<1> QED
  BY <1>1, <1>2, <1>3, <1>4 DEF RecvData, Runs

LEMMA StepIInv == IInv /\ [Next]_vars => IInv'
<1> SUFFICES ASSUME IInv, [Next]_vars
             PROVE  IInv'
  OBVIOUS
<1> DEFINE Goal == StartInProgress' /\ OwnsSocket' /\ StartsAlone' /\ NotWild'
<1>1. TypeOK'
  BY TypeStep DEF IInv
<1>2. CASE UNCHANGED vars
  BY <1>1, <1>2 DEF IInv, vars, procVars, TypeOK, StartInProgress,
     OwnsSocket, StartsAlone, NotWild, Alive
<1>3. CASE Processor
  BY <1>1, <1>3, ProcessorStep DEF IInv
<1>4. ASSUME NEW s \in Sockets, RecvData(s)
      PROVE  IInv'
  BY <1>1, <1>4, ThreadStep DEF IInv
<1>5. ASSUME (\E s \in Sockets : TelnetdGoes(s)) \/ StopAll \/ NewSession
      PROVE  IInv'
  BY <1>1, <1>5 DEF IInv, TelnetdGoes, StopAll, NewSession, procVars, TypeOK,
     StartInProgress, OwnsSocket, StartsAlone, NotWild, Alive
<1> QED
  BY <1>2, <1>3, <1>4, <1>5 DEF Next

LEMMA Invariance == Spec => []IInv
<1> QED
  BY InitIInv, StepIInv, PTL DEF Spec

-----------------------------------------------------------------------------
(* The variables keep their types; in particular the counters of attempts  *)
(* and of bytes left stay within their limits.                             *)
THEOREM TypeCorrect == Spec => []TypeOK
<1>1. IInv => TypeOK
  BY DEF IInv
<1> QED
  BY <1>1, Invariance, PTL

(* Whoever stops it and however it ends, recvData works on a socket of its *)
(* own that is open, and leaves none open (VncTelnetAgent.cpp:115-171), as *)
(* long as no start comes before the last one's thread has left.           *)
THEOREM ReaderHasItsSocket == Spec => []SocketHasItsReader
<1>1. IInv => SocketHasItsReader
  BY DEF IInv, TypeOK, OwnsSocket, NotWild, SocketHasItsReader
<1> QED
  BY <1>1, Invariance, PTL
=============================================================================
