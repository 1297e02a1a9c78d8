--------------------------- MODULE VncLogcatAgent ---------------------------
(***************************************************************************)
(* The logcat agent (VncLogcatAgent.cpp).  The command processor runs one  *)
(* logcat command at a time: it forks a child, which becomes the leader of *)
(* a process group and writes into a pipe, and starts a thread that copies *)
(* the pipe to a connection of its own.  Before the next command, and when *)
(* told to stop, it ends what is left of the current one.  logcat_socket,  *)
(* logcat_pid, logcat_pipe and the two flags are shared without a lock.    *)
(*                                                                         *)
(* Run i is the i-th command that forks: child i, pipe i and thread i.     *)
(* Connection c is the c-th that is made.                                  *)
(***************************************************************************)
EXTENDS Integers, FiniteSets

CONSTANTS MaxRuns,      \* bound: commands that fork
          MaxConns      \* bound: connections

ASSUME BoundAssumption == MaxRuns \in Nat \ {0} /\ MaxConns \in Nat \ {0}

Runs == 1 .. MaxRuns
Conns == 1 .. MaxConns
None == 0               \* a socket, pid or pipe of -1

VARIABLES logcat_socket,  \* a connection or None
          logcat_pid,     \* the run whose child is current, or None
          logcat_pipe,    \* the run whose pipe is current, or None
          exitLogcatFlag, threadExist,
          frozen,         \* the session's group takes no more threads
          child,          \* child[i], see Children
          pipes,          \* the runs whose read end is open
          broken,         \* the connections that the server has dropped
          thread,         \* thread[i]: where thread i is
          ppc,            \* where the command processor is
          cmd,            \* what it is doing: "start", "stop", "pause", "run"
          runs, conns,    \* how many there have been
          signalled,      \* history: whom kill() has signalled
          missed,         \* history: threadExist was 0 with a thread alive
          forkFailed      \* history: the runs whose fork failed

agentVars == <<logcat_socket, logcat_pid, logcat_pipe>>
flagVars == <<exitLogcatFlag, threadExist>>
procVars == <<ppc, cmd>>
countVars == <<runs, conns>>
history == <<signalled, missed, forkFailed>>
vars == <<agentVars, flagVars, frozen, child, pipes, broken, thread,
          procVars, countVars, history>>

Children == {"none", "forked", "leads", "ended", "reaped"}

Init ==
  /\ logcat_socket = None /\ logcat_pid = None /\ logcat_pipe = None
  /\ exitLogcatFlag = 0 /\ threadExist = 0
  /\ frozen = FALSE
  /\ child = [i \in Runs |-> "none"]
  /\ pipes = {}
  /\ broken = {}
  /\ thread = [i \in Runs |-> "none"]
  /\ ppc = "idle" /\ cmd = "stop"
  /\ runs = 0 /\ conns = 0
  /\ signalled = {} /\ missed = FALSE /\ forkFailed = {}

Working(i) == thread[i] \notin {"none", "exit", "gone"}
Proc(from, to) == ppc = from /\ ppc' = to
Moves(i, from, to) == thread[i] = from /\ thread' = [thread EXCEPT ![i] = to]

-----------------------------------------------------------------------------
(* What both sides call *)

(* getpgid names the child's group once the child has made one, the        *)
(* program's own before that, and is -1 for a child that has been waited   *)
(* for; kill of -(-1) signals process 1.                                   *)
Target(i) == CASE child[i] = "forked" -> "program"
               [] child[i] \in {"leads", "ended"} -> "logcat"
               [] OTHER -> "init"

KillLogcatProcess ==
  IF logcat_pid = None
    THEN UNCHANGED <<logcat_pid, child, signalled>>
    ELSE /\ signalled' = signalled \cup {Target(logcat_pid)}
         /\ child' = IF child[logcat_pid] = "leads"
                       THEN [child EXCEPT ![logcat_pid] = "ended"] ELSE child
         /\ logcat_pid' = None

ShutdownPipe ==
  /\ pipes' = pipes \ {logcat_pipe}
  /\ logcat_pipe' = None

-----------------------------------------------------------------------------
(* The command processor *)

Receive(c) ==
  /\ Proc("idle", CASE c = "start" -> "connect"
                    [] c = "stop" -> "close"
                    [] OTHER -> IF logcat_socket = None THEN "connect"
                                                        ELSE "close")
  /\ cmd' = c
  /\ logcat_socket' = IF c = "start" THEN None ELSE logcat_socket
  /\ UNCHANGED <<logcat_pid, logcat_pipe, flagVars, frozen, child, pipes,
                 broken, thread, countVars, history>>

AfterConnect == IF cmd = "start" THEN "idle" ELSE "close"

Connect ==
  /\ Proc("connect", AfterConnect)
  /\ conns < MaxConns
  /\ conns' = conns + 1
  /\ logcat_socket' = conns'
  /\ UNCHANGED <<logcat_pid, logcat_pipe, flagVars, frozen, child, pipes,
                 broken, thread, cmd, runs, history>>

(* Two attempts have failed: the command is given up.                      *)
ConnectFails ==
  /\ Proc("connect", "idle")
  /\ logcat_socket' = None
  /\ UNCHANGED <<logcat_pid, logcat_pipe, flagVars, frozen, child, pipes,
                 broken, thread, cmd, countVars, history>>

(* Faulty: the thread is told to go and not waited for.                    *)
CloseThreadNoWait ==
  /\ Proc("close", "pipe")
  /\ exitLogcatFlag' = IF threadExist = 1 THEN 1 ELSE exitLogcatFlag
  /\ missed' = (missed \/ (threadExist = 0 /\ \E i \in Runs : Working(i)))
  /\ UNCHANGED <<agentVars, threadExist, frozen, child, pipes, broken, thread,
                 cmd, countVars, signalled, forkFailed>>

(* closeCurrCommandSession: if there is a thread it is told to go ...      *)
CloseThread ==
  /\ Proc("close", IF threadExist = 1 THEN "wait" ELSE "pipe")
  /\ exitLogcatFlag' = IF threadExist = 1 THEN 1 ELSE exitLogcatFlag
  /\ missed' = (missed \/ (threadExist = 0 /\ \E i \in Runs : Working(i)))
  /\ UNCHANGED <<agentVars, threadExist, frozen, child, pipes, broken, thread,
                 cmd, countVars, signalled, forkFailed>>

(* ... and waited for; ...                                                 *)
ThreadWentAway ==
  /\ Proc("wait", "pipe")
  /\ threadExist = 0
  /\ UNCHANGED <<agentVars, flagVars, frozen, child, pipes, broken, thread,
                 cmd, countVars, history>>

(* Faulty: the descriptor of the pipe is forgotten, not closed.            *)
ForgetPipe ==
  /\ Proc("pipe", "kill")
  /\ logcat_pipe' = None
  /\ UNCHANGED <<logcat_socket, logcat_pid, flagVars, frozen, child, pipes,
                 broken, thread, cmd, countVars, history>>

(* ... then the pipe is closed and the process is killed.                  *)
ClosePipe ==
  /\ Proc("pipe", "kill")
  /\ ShutdownPipe
  /\ UNCHANGED <<logcat_socket, logcat_pid, flagVars, frozen, child, broken,
                 thread, cmd, countVars, history>>

AfterClose == CASE cmd = "stop" -> "shutdown"
                [] cmd = "pause" -> "idle"
                [] OTHER -> "fork"

CloseProcess ==
  /\ Proc("kill", AfterClose)
  /\ KillLogcatProcess
  /\ UNCHANGED <<logcat_socket, logcat_pipe, flagVars, frozen, pipes, broken,
                 thread, cmd, countVars, missed, forkFailed>>

(* stopConnect ends with the connection.                                   *)
StopSocket ==
  /\ Proc("shutdown", "idle")
  /\ logcat_socket' = None
  /\ UNCHANGED <<logcat_pid, logcat_pipe, flagVars, frozen, child, pipes,
                 broken, thread, cmd, countVars, history>>

Fork ==
  /\ Proc("fork", "add")
  /\ runs < MaxRuns
  /\ runs' = runs + 1
  /\ child' = [child EXCEPT ![runs'] = "forked"]
  /\ pipes' = pipes \cup {runs'}
  /\ logcat_pid' = runs'
  /\ logcat_pipe' = runs'
  /\ exitLogcatFlag' = 0
  /\ UNCHANGED <<logcat_socket, threadExist, frozen, broken, thread, cmd,
                 conns, history>>

PipeFails ==
  /\ Proc("fork", "idle")
  /\ UNCHANGED <<agentVars, flagVars, frozen, child, pipes, broken, thread,
                 cmd, countVars, history>>

(* fork has failed: both ends of the pipe stay open.                       *)
ForkFails ==
  /\ Proc("fork", "idle")
  /\ runs < MaxRuns
  /\ runs' = runs + 1
  /\ pipes' = pipes \cup {runs'}
  /\ forkFailed' = forkFailed \cup {runs'}
  /\ UNCHANGED <<agentVars, flagVars, frozen, child, broken, thread, cmd,
                 conns, signalled, missed>>

(* addThread; a frozen group takes no thread.                              *)
AddThread ==
  /\ Proc("add", "idle")
  /\ thread' = IF frozen THEN thread ELSE [thread EXCEPT ![runs] = "created"]
  /\ UNCHANGED <<agentVars, flagVars, frozen, child, pipes, broken, cmd,
                 countVars, history>>

-----------------------------------------------------------------------------
(* logcatThread *)

ThreadRest == <<frozen, broken, procVars, countVars, missed, forkFailed>>

(* threadExist says 1 only from here on.                                   *)
Begin(i) ==
  /\ thread[i] = "created"
  /\ IF logcat_pipe = None \/ logcat_pid = None
       THEN Moves(i, "created", "end") /\ UNCHANGED threadExist
       ELSE Moves(i, "created", "loop") /\ threadExist' = 1
  /\ UNCHANGED <<ThreadRest, agentVars, exitLogcatFlag, child, pipes,
                 signalled>>

(* Faulty: the loop ends only when there is nothing to read any more.      *)
LoopEndsUntold(i) ==
  /\ logcat_pipe = None \/ logcat_pid = None
  /\ Moves(i, "loop", "end")
  /\ UNCHANGED <<ThreadRest, agentVars, flagVars, child, pipes, signalled>>

(* The loop's first lines: told to stop, or nothing to read any more.      *)
LoopEnds(i) ==
  /\ exitLogcatFlag = 1 \/ logcat_pipe = None \/ logcat_pid = None
  /\ Moves(i, "loop", "end")
  /\ UNCHANGED <<ThreadRest, agentVars, flagVars, child, pipes, signalled>>

(* Data, now or earlier, has left a buffer to send.  A turn that reads     *)
(* nothing and sends nothing changes nothing.                              *)
Reads(i) ==
  /\ exitLogcatFlag = 0
  /\ logcat_pipe # None /\ logcat_pid # None
  /\ logcat_socket # None
  /\ Moves(i, "loop", "send")
  /\ UNCHANGED <<ThreadRest, agentVars, flagVars, child, pipes, signalled>>

(* End of file, or the descriptor was closed meanwhile.                    *)
ReadFails(i) ==
  /\ logcat_pipe # None => child[logcat_pipe] \in {"ended", "reaped"}
  /\ Moves(i, "loop", "pipe_fail")
  /\ UNCHANGED <<ThreadRest, agentVars, flagVars, child, pipes, signalled>>

(* send, to the connection of now ...                                      *)
Sends(i) ==
  /\ logcat_socket \notin broken \cup {None}
  /\ Moves(i, "send", "loop")
  /\ UNCHANGED <<ThreadRest, agentVars, flagVars, child, pipes, signalled>>

SendFails(i) ==
  /\ logcat_socket \in broken \cup {None}
  /\ Moves(i, "send", "send_error")
  /\ UNCHANGED <<ThreadRest, agentVars, flagVars, child, pipes, signalled>>

(* ... and on an error, the connection of now is shut down.                *)
ShutdownFailed(i) ==
  /\ \/ Moves(i, "send_error", "socket_fail")
     \/ Moves(i, "socket", "exist")
  /\ logcat_socket' = None
  /\ UNCHANGED <<ThreadRest, logcat_pid, logcat_pipe, flagVars, child, pipes,
                 signalled>>

(* The two error exits: the process, the pipe, then perhaps the socket.    *)
ThreadKills(i) ==
  /\ \/ Moves(i, "pipe_fail", "pipe")
     \/ Moves(i, "socket_fail", "socket_pipe")
  /\ KillLogcatProcess
  /\ UNCHANGED <<ThreadRest, logcat_socket, logcat_pipe, flagVars, pipes>>

ThreadClosesPipe(i) ==
  /\ Moves(i, "pipe", "exist") \/ Moves(i, "socket_pipe", "socket")
  /\ ShutdownPipe
  /\ UNCHANGED <<ThreadRest, logcat_socket, logcat_pid, flagVars, child,
                 signalled>>

(* Faulty: after an error the thread leaves without setThreadExist(0).     *)
ExistsAfterError(i) ==
  /\ \/ Moves(i, "end", "exit") /\ threadExist' = 0
     \/ Moves(i, "exist", "exit") /\ UNCHANGED threadExist
  /\ UNCHANGED <<ThreadRest, agentVars, exitLogcatFlag, child, pipes,
                 signalled>>

(* All three exits: setThreadExist(0), exitThread.                         *)
NoLongerExists(i) ==
  /\ Moves(i, "end", "exit") \/ Moves(i, "exist", "exit")
  /\ threadExist' = 0
  /\ UNCHANGED <<ThreadRest, agentVars, exitLogcatFlag, child, pipes,
                 signalled>>

Exits(i) ==
  /\ Moves(i, "exit", "gone")
  /\ UNCHANGED <<ThreadRest, agentVars, flagVars, child, pipes, signalled>>

-----------------------------------------------------------------------------
(* Around them *)

EnvRest == <<agentVars, threadExist, pipes, thread, procVars,
             countVars, history>>

(* The child makes itself a group leader and becomes logcat; it ends, of   *)
(* itself or because it was killed; handle_sig_child waits for it.         *)
ChildStep(i) ==
  /\ \/ child[i] = "forked" /\ child' = [child EXCEPT ![i] = "leads"]
     \/ child[i] = "leads" /\ child' = [child EXCEPT ![i] = "ended"]
     \/ child[i] = "ended" /\ child' = [child EXCEPT ![i] = "reaped"]
  /\ UNCHANGED <<EnvRest, exitLogcatFlag, frozen, broken>>

ServerDrops ==
  /\ logcat_socket \notin broken \cup {None}
  /\ broken' = broken \cup {logcat_socket}
  /\ UNCHANGED <<EnvRest, exitLogcatFlag, frozen, child>>

(* The session's group is destroyed: stopAll tells the listed threads ...  *)
StopAll ==
  /\ ~frozen
  /\ frozen' = TRUE
  /\ exitLogcatFlag' =
       IF \E i \in Runs : Working(i) \/ thread[i] = "exit" THEN 1
                                                           ELSE exitLogcatFlag
  /\ UNCHANGED <<EnvRest, child, broken>>

(* ... and a session begins when the last one's threads are gone.          *)
NewSession ==
  /\ frozen
  /\ ppc = "idle"
  /\ \A i \in Runs : thread[i] \in {"none", "gone"}
  /\ frozen' = FALSE
  /\ UNCHANGED <<EnvRest, exitLogcatFlag, child, broken>>

Processor ==
  \/ Connect \/ ConnectFails \/ CloseThread \/ ThreadWentAway \/ ClosePipe
  \/ CloseProcess \/ StopSocket \/ Fork \/ PipeFails \/ ForkFails
  \/ AddThread

Thread(i) ==
  \/ Begin(i) \/ LoopEnds(i) \/ Reads(i) \/ ReadFails(i)
  \/ Sends(i) \/ SendFails(i) \/ ShutdownFailed(i)
  \/ ThreadKills(i) \/ ThreadClosesPipe(i) \/ NoLongerExists(i) \/ Exits(i)

(* SIGTERM to the program's own group ends the program.                    *)
Next ==
  /\ "program" \notin signalled
  /\ \/ \E c \in {"start", "stop", "pause", "run"} : Receive(c)
     \/ Processor
     \/ \E i \in Runs : Thread(i) \/ ChildStep(i)
     \/ ServerDrops \/ StopAll \/ NewSession

Spec == Init /\ [][Next]_vars

(* The processor and the threads run; nobody makes commands or sessions    *)
(* come, a server drop a connection or a child end.                        *)
FairSpec ==
  /\ Spec
  /\ WF_vars("program" \notin signalled /\ Processor)
  /\ \A i \in Runs : WF_vars("program" \notin signalled /\ Thread(i))
-----------------------------------------------------------------------------
TypeOK ==
  /\ logcat_socket \in Conns \cup {None}
  /\ logcat_pid \in Runs \cup {None}
  /\ logcat_pipe \in Runs \cup {None}
  /\ exitLogcatFlag \in {0, 1} /\ threadExist \in {0, 1}
  /\ frozen \in BOOLEAN
  /\ child \in [Runs -> Children]
  /\ pipes \subseteq Runs
  /\ broken \subseteq Conns
  /\ thread \in [Runs -> {"none", "created", "loop", "send", "send_error",
                          "pipe_fail", "pipe", "socket_fail", "socket_pipe",
                          "socket", "exist", "end", "exit", "gone"}]
  /\ ppc \in {"idle", "connect", "close", "wait", "pipe", "kill", "shutdown",
              "fork", "add"}
  /\ cmd \in {"start", "stop", "pause", "run"}
  /\ runs \in 0 .. MaxRuns /\ conns \in 0 .. MaxConns
  /\ signalled \subseteq {"logcat", "program", "init"}
  /\ missed \in BOOLEAN
  /\ forkFailed \subseteq Runs

Dead == "program" \in signalled

(* One thread at most copies a logcat's output, unless a command looked at *)
(* threadExist before the last command's thread had set it.                *)
OneThread ==
  ~missed => \A i, j \in Runs : Working(i) /\ Working(j) => i = j

(* With that exception, whatever ends a run, and whoever does it, nothing  *)
(* is forgotten: a child that runs is the current one and can still be     *)
(* killed, and a pipe that is open is the current one and can still be     *)
(* closed, but for the pipes that a failed fork leaves open.               *)
NothingForgotten ==
  ~missed =>
    /\ \A i \in Runs : child[i] \in {"forked", "leads"}
                        => i = logcat_pid \/ Dead
    /\ pipes \subseteq {logcat_pipe} \cup forkFailed

(* The comments at VncLogcatAgent.cpp:142 and 379: killLogcatProcess stops *)
(* the logcat process, and so signals nobody else.                         *)
KillsOnlyLogcat == signalled \subseteq {"logcat"}

(* closeCurrCommandSession does not wait for ever.                         *)
SessionCloses == (ppc = "wait") ~> (ppc = "pipe" \/ Dead)

(* The comment at VncLogcatAgent.h:28, the flag makes the thread exit, is  *)
(* right with the same exception.                                          *)
FlagEndsThread ==
  \A i \in Runs : (exitLogcatFlag = 1 /\ Working(i))
                     ~> (~Working(i) \/ missed \/ Dead)
=============================================================================
