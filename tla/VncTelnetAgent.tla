--------------------------- MODULE VncTelnetAgent ---------------------------
(***************************************************************************)
(* The telnet agent (VncTelnetAgent.cpp).  The PC's commands make the      *)
(* command processor connect to the TV's telnetd, write to it and tell it  *)
(* to stop; a thread of the session's group copies what telnetd sends to   *)
(* the PC.  Both sides use telnetfd and exitRecv without a lock.           *)
(*                                                                         *)
(* Socket s is the s-th that is made, thread s the one that is started for *)
(* it.  The thread group's own steps are in VncThreads.                    *)
(***************************************************************************)
EXTENDS Integers

CONSTANTS MaxSockets,   \* bound: sockets that are made
          MaxTries,     \* 7: attempts to connect
          MaxSize,      \* bound: bytes of one T2P_CMD_TELNET_DATA
          MaxInt        \* 2^31 - 1: the largest int

ASSUME TelnetAssumption ==
  /\ MaxSockets \in Nat
  /\ MaxTries \in Nat \ {0}
  /\ MaxSize \in Nat
  /\ MaxInt \in Nat
  /\ MaxSize <= MaxInt

Sockets == 1 .. MaxSockets
None == 0               \* a telnetfd of -1

VARIABLES telnetfd,     \* a socket or None
          exitRecv,
          sock,         \* sock[s]: see TypeOK
          broken,       \* the sockets on which read and write fail
          thread,       \* thread[s]: where recvData is
          ppc,          \* where the command processor is
          cmd,          \* what it is doing: "start" or "send"
          tries,        \* attempts to connect that are left
          size,         \* sendData: the bytes that are left
          sockets,      \* how many have been made
          frozen,       \* the session's group takes no more threads
          wild,         \* FD_SET(-1): the behaviour is undefined from here
          restarted     \* history: a start met an earlier one's remains

procVars == <<ppc, cmd, tries, size, sockets>>
vars == <<telnetfd, exitRecv, sock, broken, thread, procVars, frozen, wild,
          restarted>>

Init ==
  /\ telnetfd = None
  /\ exitRecv = 0
  /\ sock = [s \in Sockets |-> "none"]
  /\ broken = {}
  /\ thread = [s \in Sockets |-> "none"]
  /\ ppc = "idle" /\ cmd = "start" /\ tries = 0 /\ size = 0
  /\ sockets = 0
  /\ frozen = FALSE
  /\ wild = FALSE
  /\ restarted = FALSE

Alive(s) == thread[s] \notin {"none", "gone"}
Works(fd) == fd # None /\ sock[fd] = "open" /\ fd \notin broken
Moves(s, from, to) == thread[s] = from /\ thread' = [thread EXCEPT ![s] = to]

-----------------------------------------------------------------------------
(* The command processor *)

(* telnetd has been started and a socket made; when either fails nothing   *)
(* changes.                                                                *)
OpenSocket(c) ==
  /\ sockets < MaxSockets
  /\ sockets' = sockets + 1
  /\ sock' = [sock EXCEPT ![sockets'] = "connecting"]
  /\ cmd' = c
  /\ tries' = MaxTries
  /\ ppc' = "connect"

StartTelnet ==
  /\ ppc = "idle"
  /\ OpenSocket("start")
  /\ UNCHANGED <<telnetfd, exitRecv, broken, thread, size, frozen, wild,
                 restarted>>

(* sendData starts the service itself when there is no socket.             *)
SendData(n) ==
  /\ ppc = "idle"
  /\ size' = n
  /\ IF telnetfd = None
       THEN OpenSocket("send")
       ELSE ppc' = "write" /\ UNCHANGED <<cmd, tries, sockets, sock>>
  /\ UNCHANGED <<telnetfd, exitRecv, broken, thread, frozen, wild, restarted>>

(* Faulty: an attempt that failed is not counted.                          *)
ConnectFailsUncounted == ppc = "connect" /\ UNCHANGED vars

(* The last failure returns from the loop itself: the socket stays open.   *)
ConnectFails ==
  /\ ppc = "connect"
  /\ tries' = tries - 1
  /\ IF tries' > 0
       THEN UNCHANGED <<ppc, sock>>
       ELSE ppc' = "idle" /\ sock' = [sock EXCEPT ![sockets] = "given_up"]
  /\ UNCHANGED <<telnetfd, exitRecv, broken, thread, cmd, size, sockets,
                 frozen, wild, restarted>>

Connects ==
  /\ ppc = "connect"
  /\ ppc' = "clear"
  /\ sock' = [sock EXCEPT ![sockets] = "open"]
  /\ telnetfd' = sockets
  /\ restarted' = (restarted \/ telnetfd # None \/ \E s \in Sockets : Alive(s))
  /\ UNCHANGED <<exitRecv, broken, thread, cmd, tries, size, sockets, frozen,
                 wild>>

ClearExit ==
  /\ ppc = "clear"
  /\ ppc' = "add"
  /\ exitRecv' = 0
  /\ UNCHANGED <<telnetfd, sock, broken, thread, cmd, tries, size, sockets,
                 frozen, wild, restarted>>

(* A frozen group takes no thread, and pthread_create may fail; nobody     *)
(* looks at the result.                                                    *)
AddThread ==
  /\ ppc = "add"
  /\ ppc' = IF cmd = "send" THEN "write" ELSE "idle"
  /\ \/ UNCHANGED thread
     \/ ~frozen /\ Moves(sockets, "none", "created")
  /\ UNCHANGED <<telnetfd, exitRecv, sock, broken, cmd, tries, size, sockets,
                 frozen, wild, restarted>>

(* A turn of the loop.                                                     *)
Turns ==
  /\ ppc = "write"
  /\ ppc' = IF size' = 0 THEN "idle" ELSE "write"
  /\ UNCHANGED <<telnetfd, exitRecv, sock, broken, thread, cmd, tries,
                 sockets, frozen, wild, restarted>>

(* write returns when telnetd has made room.                               *)
Write ==
  /\ Works(telnetfd)
  /\ \E n \in 1 .. size : size' = size - n
  /\ Turns

(* A write that fails returns -1, so that one byte more is left.  What     *)
(* becomes of an int that overflows is undefined: the loop takes it for    *)
(* done, or goes on.                                                       *)
WriteFails ==
  /\ ~Works(telnetfd)
  /\ IF size < MaxInt THEN size' = size + 1 ELSE size' \in {0, MaxInt}
  /\ Turns

StopTelnet ==
  /\ ppc = "idle"
  /\ exitRecv' = 1
  /\ UNCHANGED <<telnetfd, sock, broken, thread, procVars, frozen, wild,
                 restarted>>

Continues == ConnectFails \/ ClearExit \/ AddThread \/ WriteFails

Processor ==
  \/ StartTelnet \/ StopTelnet \/ (\E n \in 1 .. MaxSize : SendData(n))
  \/ Connects \/ Continues \/ Write

-----------------------------------------------------------------------------
(* recvData *)

ThreadRest == <<broken, procVars, frozen, restarted>>

(* A stop that came since the thread was created is forgotten.             *)
Begin(s) ==
  /\ Moves(s, "created", "loop")
  /\ exitRecv' = 0
  /\ UNCHANGED <<ThreadRest, telnetfd, sock, wild>>

(* Faulty: the flag is looked at only when a turn has failed.              *)
SeesExitInFailure(s) ==
  /\ exitRecv = 1 /\ ~Works(telnetfd)
  /\ Moves(s, "loop", "close")
  /\ UNCHANGED <<ThreadRest, telnetfd, exitRecv, sock, wild>>

(* The end of a turn; one that goes on changes nothing.                    *)
SeesExit(s) ==
  /\ exitRecv = 1
  /\ Moves(s, "loop", "close")
  /\ UNCHANGED <<ThreadRest, telnetfd, exitRecv, sock, wild>>

(* select or read fails on the socket of now; select also on one that      *)
(* works, when a signal's handler (SIGALRM, SIGCHLD) has interrupted it.   *)
ReadFails(s) ==
  /\ telnetfd # None
  /\ Moves(s, "loop", "close")
  /\ UNCHANGED <<ThreadRest, telnetfd, exitRecv, sock, wild>>

(* FD_SET(-1) writes outside the set.                                      *)
SelectsNothing(s) ==
  /\ thread[s] = "loop"
  /\ telnetfd = None
  /\ wild' = TRUE
  /\ UNCHANGED <<ThreadRest, telnetfd, exitRecv, sock, thread>>

(* Faulty: the descriptor is forgotten, not closed.                        *)
CloseNothing(s) ==
  /\ Moves(s, "close", IF telnetfd = None THEN "exit" ELSE "forget")
  /\ UNCHANGED <<ThreadRest, telnetfd, exitRecv, sock, wild>>

(* The socket of now is closed, ...                                        *)
Close(s) ==
  /\ Moves(s, "close", IF telnetfd = None THEN "exit" ELSE "forget")
  /\ sock' = IF telnetfd = None THEN sock
                                ELSE [sock EXCEPT ![telnetfd] = "closed"]
  /\ UNCHANGED <<ThreadRest, telnetfd, exitRecv, wild>>

(* ... telnetfd forgets it, ...                                            *)
Forget(s) ==
  /\ Moves(s, "forget", "reset")
  /\ telnetfd' = None
  /\ UNCHANGED <<ThreadRest, exitRecv, sock, wild>>

(* ... and the flag is lowered, then exitThread.                           *)
Reset(s) ==
  /\ Moves(s, "reset", "exit")
  /\ exitRecv' = 0
  /\ UNCHANGED <<ThreadRest, telnetfd, sock, wild>>

Exit(s) ==
  /\ Moves(s, "exit", "gone")
  /\ UNCHANGED <<ThreadRest, telnetfd, exitRecv, sock, wild>>

Runs(s) ==
  \/ Begin(s) \/ SeesExit(s) \/ SelectsNothing(s) \/ Close(s) \/ Forget(s)
  \/ Reset(s) \/ Exit(s)

RecvData(s) == Runs(s) \/ ReadFails(s)

-----------------------------------------------------------------------------
(* Around them *)

(* telnetd has gone, of itself or because of "stop_telnetd", and the       *)
(* kernel knows: until then reads return 0 and writes succeed.             *)
TelnetdGoes(s) ==
  /\ sock[s] = "open"
  /\ broken' = broken \cup {s}
  /\ UNCHANGED <<telnetfd, exitRecv, sock, thread, procVars, frozen, wild,
                 restarted>>

(* The session's group is destroyed: stopAll tells the listed thread ...   *)
StopAll ==
  /\ ~frozen
  /\ frozen' = TRUE
  /\ exitRecv' = IF \E s \in Sockets : Alive(s) THEN 1 ELSE exitRecv
  /\ UNCHANGED <<telnetfd, sock, broken, thread, procVars, wild, restarted>>

(* ... and a session begins when the last one's threads are gone.          *)
NewSession ==
  /\ frozen
  /\ ppc = "idle"
  /\ \A s \in Sockets : ~Alive(s)
  /\ frozen' = FALSE
  /\ UNCHANGED <<telnetfd, exitRecv, sock, broken, thread, procVars, wild,
                 restarted>>

Next ==
  /\ ~wild
  /\ \/ Processor
     \/ \E s \in Sockets : RecvData(s) \/ TelnetdGoes(s)
     \/ StopAll \/ NewSession

Spec == Init /\ [][Next]_vars

(* A command in progress goes on and the thread runs.  Nobody makes        *)
(* commands come, telnetd listen or read what it is sent, or a read fail.  *)
FairSpec ==
  /\ Spec
  /\ WF_vars(~wild /\ Continues)
  /\ \A s \in Sockets : WF_vars(~wild /\ Runs(s))
-----------------------------------------------------------------------------
TypeOK ==
  /\ telnetfd \in Sockets \cup {None}
  /\ exitRecv \in {0, 1}
  /\ sock \in [Sockets -> {"none", "connecting", "given_up", "open",
                           "closed"}]
  /\ broken \subseteq Sockets
  /\ thread \in [Sockets -> {"none", "created", "loop", "close", "forget",
                             "reset", "exit", "gone"}]
  /\ ppc \in {"idle", "connect", "clear", "add", "write"}
  /\ cmd \in {"start", "send"}
  /\ tries \in 0 .. MaxTries
  /\ size \in 0 .. MaxInt
  /\ sockets \in 0 .. MaxSockets
  /\ frozen \in BOOLEAN /\ wild \in BOOLEAN /\ restarted \in BOOLEAN

(* As long as no start meets what an earlier one left (its socket, or its  *)
(* thread up to the last step), the socket belongs to one thread, whoever  *)
(* stops it and however it ends: that thread never selects on a socket     *)
(* that is closed or forgotten, and no connection stays open that telnetfd *)
(* does not name.                                                          *)
SocketHasItsReader ==
  ~restarted =>
    /\ ~wild
    /\ \A s \in Sockets :
         /\ thread[s] \in {"created", "loop", "close"}
              => s = telnetfd /\ sock[s] = "open"
         /\ sock[s] = "open" => s = telnetfd

(* With that exception a stop that finds the thread in its loop ends it,   *)
(* closes the connection and so lets the session's group be destroyed.     *)
StopIsHeard ==
  \A s \in Sockets :
    (exitRecv = 1 /\ thread[s] = "loop")
      ~> ((thread[s] = "gone" /\ sock[s] = "closed") \/ restarted)

Blocked == ppc = "write" /\ Works(telnetfd)
Lost == ppc = "write" /\ ~Works(telnetfd)

(* Every command comes to its end, however often connect fails, but        *)
(* sendData's: telnetd may never read what it is sent, and a connection    *)
(* that is lost under it, to telnetd or to the thread that was told to     *)
(* stop, keeps the processor in the loop until the counter has grown to    *)
(* the largest int, at the least.                                          *)
CommandsEnd ==
  /\ ppc # "idle" ~> (ppc = "idle" \/ wild \/ Lost \/ []Blocked)
  /\ [][Lost => Lost' \/ size = MaxInt]_vars
=============================================================================
