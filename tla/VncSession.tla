----------------------------- MODULE VncSession -----------------------------
(***************************************************************************)
(* A remote-control session's life (VncCtrl.cpp): a connector thread sets  *)
(* it up or takes it over from another PC, three threads serve it, and     *)
(* cleanup() tears it down.  The session's thread group, its two queues    *)
(* and its socket are global variables that nothing guards.  cleanup() is  *)
(* called by a connector and by cleanup_thread, which a reader starts when *)
(* it leaves, and so does the alarm handler of VncCommandProcessor.cpp.    *)
(*                                                                         *)
(* Session s is the one that connector thread s sets up.  addThread,       *)
(* exitThread and stopAll are single steps here (VncThreads looks inside   *)
(* them) and a queue may or may not hold a package (VncCommandQueue looks  *)
(* inside).  Of the workers that commands start only those are seen that   *)
(* never end, because their upload turns for ever (VncWorkers): the group  *)
(* waits for them.  The others are more threads of the group that end.     *)
(*                                                                         *)
(* A behaviour ends with the first misuse, the use of a freed or null      *)
(* object: what the program does from there on is undefined.               *)
(***************************************************************************)
EXTENDS FiniteSets

CONSTANTS Sessions,     \* the connector threads that may run
          NoSession,    \* a null pointer, a socket of -1
          Outsider,     \* a thread of no session that may take a signal
          SrvIds,       \* the sessions whose server sends TELLME_SRV_ID
          Hanging       \* the sessions in which a worker may never end

Objects == {"threads", "cmdin", "cmdout", "socket"}
Roles == {"reader", "writer", "processor"}
Threads == Roles \X Sessions
Workers == {"worker"} \X Sessions
Members == Threads \cup Workers
Cleaners == {"connector", "reader", "alarm"} \X Sessions

ASSUME SessionAssumption ==
  /\ NoSession \notin Sessions
  /\ Outsider \notin Members
  /\ SrvIds \subseteq Sessions
  /\ Hanging \subseteq Sessions

VARIABLES ptr,          \* ptr[o]: whose object o is, or NoSession
          freed,        \* freed[o]: the sessions whose object o is gone
          list,         \* list[s]: the threads listed in the group of s
          frozen,       \* the sessions whose group is frozen
          flag,         \* flag[r]: 1 asks a thread of role r to leave
          peer,         \* the sessions whose server is still connected
          pc,           \* pc[t]: where thread t is in its loop
          inCall,       \* inCall[t]: whose queue thread t has hold of
          bufreader,    \* bufreader[s]: whose cmdin reader s fills
          cpc,          \* cpc[s]: where connector s is in try_to_connect
          notice,       \* notice[s]: whose cmdout connector s has hold of
          clean,        \* clean[k]: where cleaner k is in cleanup
          del,          \* del[k]: whose object cleaner k is deleting
          alarm,        \* the session that armed SIGALRM, or NoSession
          is_rev_pcid,
          handler,      \* the alarm handler's progress, see Idle
          misuse,       \* history: a freed or null object has been used
          overlap,      \* history: two actors have been inside at once
          early         \* history: sessions that began before all was quiet

threadVars == <<pc, inCall, bufreader>>
groupVars == <<list, frozen, flag>>
alarmVars == <<alarm, is_rev_pcid, handler>>
vars == <<ptr, freed, list, frozen, flag, peer, pc, inCall, bufreader, cpc,
          notice, clean, del, alarm, is_rev_pcid, handler, misuse, overlap,
          early>>

Nothing == [o \in Objects |-> NoSession]

(* The handler: its next step, the thread that runs it, the session that   *)
(* armed the alarm, whose cmdout it has hold of.                           *)
Idle == [at |-> "idle", in |-> Outsider, for |-> NoSession, q |-> NoSession]

Init ==
  /\ ptr = Nothing
  /\ freed = [o \in Objects |-> {}]
  /\ list = [s \in Sessions |-> {}]
  /\ frozen = {}
  /\ flag = [r \in Roles |-> 0]
  /\ peer = {}
  /\ pc = [t \in Threads |-> "none"]
  /\ inCall = [t \in Threads |-> NoSession]
  /\ bufreader = [s \in Sessions |-> NoSession]
  /\ cpc = [s \in Sessions |-> "none"]
  /\ notice = [s \in Sessions |-> NoSession]
  /\ clean = [k \in Cleaners |-> <<"idle", "threads">>]
  /\ del = [k \in Cleaners |-> NoSession]
  /\ alarm = NoSession
  /\ is_rev_pcid = FALSE
  /\ handler = Idle
  /\ misuse = FALSE
  /\ overlap = FALSE
  /\ early = {}

(* Using object o through a pointer that was read as s.                    *)
Uses(o, s) == misuse' = (s = NoSession \/ s \in freed[o])
Safe == misuse' = FALSE

Goes(t, from, to) == pc[t] = from /\ pc' = [pc EXCEPT ![t] = to]
Connects(s, from, to) == cpc[s] = from /\ cpc' = [cpc EXCEPT ![s] = to]

-----------------------------------------------------------------------------
(* The connector, from the moment connect() has succeeded and the user's   *)
(* decision is known to be yes.                                            *)

Arrive(s) ==
  /\ Connects(s, "none", "notify")
  /\ peer' = peer \cup {s}
  /\ Safe
  /\ UNCHANGED <<ptr, freed, groupVars, threadVars, notice, clean, del,
                 alarmVars>>

(* With a socket there, the server is sent ANOTHER_PC_CTRL: sendPackage    *)
(* looks at cmdout and, if it is not null, will use what it saw.           *)
Notify(s) ==
  /\ Connects(s, "notify", "sendPackage")
  /\ notice' = [notice EXCEPT ![s] =
                  IF ptr["socket"] = NoSession THEN NoSession
                                               ELSE ptr["cmdout"]]
  /\ Safe
  /\ UNCHANGED <<ptr, freed, groupVars, peer, threadVars, clean, del,
                 alarmVars>>

(* Faulty: the new session is set up over the one that is there.           *)
NotifyAddOnly(s) ==
  /\ Connects(s, "sendPackage", "socket")
  /\ IF notice[s] = NoSession THEN Safe ELSE Uses("cmdout", notice[s])
  /\ notice' = [notice EXCEPT ![s] = NoSession]
  /\ clean' = [clean EXCEPT ![<<"connector", s>>] = <<"done", "socket">>]
  /\ UNCHANGED <<ptr, freed, groupVars, peer, threadVars, del, alarmVars>>

(* addPackage, 500 ms, then the call of cleanup.                           *)
NotifyAdd(s) ==
  /\ Connects(s, "sendPackage", "socket")
  /\ IF notice[s] = NoSession THEN Safe ELSE Uses("cmdout", notice[s])
  /\ notice' = [notice EXCEPT ![s] = NoSession]
  /\ clean' = [clean EXCEPT ![<<"connector", s>>] = <<"look", "threads">>]
  /\ UNCHANGED <<ptr, freed, groupVars, peer, threadVars, del, alarmVars>>

AfterSetUp == [socket |-> "cmdin", cmdin |-> "cmdout", cmdout |-> "threads",
               threads |-> "reader"]
AfterAdd == [reader |-> "writer", writer |-> "processor",
             processor |-> "done"]

(* After cleanup: message_socket_id = newsocketid, new VncCommandQueue     *)
(* twice, new VncThreads.                                                  *)
SetUp(s, o) ==
  /\ clean[<<"connector", s>>][1] = "done"
  /\ Connects(s, o, AfterSetUp[o])
  /\ ptr' = [ptr EXCEPT ![o] = s]
  /\ Safe
  /\ UNCHANGED <<freed, groupVars, peer, threadVars, notice, clean, del,
                 alarmVars>>

(* addThread: the group that threads points at lists the thread, unless    *)
(* there is none, it is frozen, or pthread_create fails.                   *)
Added(s, r) ==
  /\ Connects(s, r, AfterAdd[r])
  /\ ptr["threads"] # NoSession
  /\ ptr["threads"] \notin frozen
  /\ Uses("threads", ptr["threads"])
  /\ list' = [list EXCEPT ![ptr["threads"]] = @ \cup {<<r, s>>}]
  /\ pc' = [pc EXCEPT ![<<r, s>>] = "created"]
  /\ UNCHANGED <<ptr, freed, frozen, flag, peer, inCall, bufreader, notice,
                 clean, del, alarmVars>>

NotAdded(s, r) ==
  /\ Connects(s, r, AfterAdd[r])
  /\ IF ptr["threads"] = NoSession THEN Safe
                                   ELSE Uses("threads", ptr["threads"])
  /\ UNCHANGED <<ptr, freed, groupVars, peer, threadVars, notice, clean, del,
                 alarmVars>>

-----------------------------------------------------------------------------
(* The session's threads *)

Others == <<freed, ptr, frozen, peer, cpc, notice, del, alarmVars>>

(* The reader and the writer reset their flag first; the reader takes a    *)
(* copy of cmdin.                                                          *)
Start(t) ==
  /\ t[1] \in {"reader", "writer"}
  /\ Goes(t, "created", "top")
  /\ flag' = [flag EXCEPT ![t[1]] = 0]
  /\ bufreader' = IF t[1] = "reader"
                    THEN [bufreader EXCEPT ![t[2]] = ptr["cmdin"]]
                    ELSE bufreader
  /\ Safe
  /\ UNCHANGED <<Others, list, inCall, clean>>

(* sendPackage, the look at cmdout: by the processor for REG_TV and for a  *)
(* reply, by the reader for a heartbeat.                                   *)
SendPackage(t, from, to) ==
  /\ Goes(t, from, to)
  /\ inCall' = [inCall EXCEPT ![t] = ptr["cmdout"]]
  /\ Safe
  /\ UNCHANGED <<Others, list, flag, bufreader, clean>>

(* sendPackage, the use of what it saw.                                    *)
AddsPackage(t) ==
  /\ IF inCall[t] = NoSession THEN Safe ELSE Uses("cmdout", inCall[t])
  /\ inCall' = [inCall EXCEPT ![t] = NoSession]

(* The processor resets its flag after REG_TV has been queued.             *)
Registered(t) ==
  /\ Goes(t, "register", "top")
  /\ AddsPackage(t)
  /\ flag' = [flag EXCEPT !["processor"] = 0]
  /\ UNCHANGED <<Others, list, bufreader, clean>>

Sent(t) ==
  /\ Goes(t, "add", "check")
  /\ AddsPackage(t)
  /\ UNCHANGED <<Others, list, flag, bufreader, clean>>

(* TELLME_SRV_ID: once its reply is queued the alarm is set, for 40 s.     *)
SrvIdSent(t) ==
  /\ Goes(t, "addSrv", "check")
  /\ AddsPackage(t)
  /\ is_rev_pcid' = FALSE
  /\ alarm' = t[2]
  /\ UNCHANGED <<freed, ptr, frozen, peer, cpc, notice, del, handler, list,
                 flag, bufreader, clean>>

(* A turn of the reader: select times out or finds data, which goes into   *)
(* the queue the reader has a copy of; a heartbeat may be due; ...         *)
ReadTurn(t) ==
  /\ t[1] = "reader"
  /\ Goes(t, "top", "check") \/ Goes(t, "top", "beat")
  /\ \/ Safe
     \/ ptr["socket"] \in peer /\ Uses("cmdin", bufreader[t[2]])
  /\ UNCHANGED <<Others, groupVars, inCall, bufreader, clean>>

(* ... or finds the connection ended or the descriptor closed.  FD_SET of  *)
(* descriptor -1 writes outside the set.                                   *)
ReadFails(t) ==
  /\ t[1] = "reader"
  /\ Goes(t, "top", "spawn")
  /\ ptr["socket"] \notin peer \/ ptr["socket"] \in freed["socket"]
  /\ misuse' = (ptr["socket"] = NoSession)
  /\ UNCHANGED <<Others, groupVars, inCall, bufreader, clean>>

(* Faulty: the reader starts cleanup_thread when it has left the group.    *)
SpawnAfterExit(t) ==
  /\ t[1] = "reader"
  /\ \/ Goes(t, "spawn", "exit") /\ UNCHANGED clean
     \/ /\ pc[t] = "gone" /\ UNCHANGED pc
        /\ clean[<<"reader", t[2]>>][1] = "idle"
        /\ clean' = [clean EXCEPT ![<<"reader", t[2]>>] =
                       <<"sleep", "threads">>]
  /\ Safe
  /\ UNCHANGED <<Others, groupVars, inCall, bufreader>>

(* Faulty: the reader leaves and nobody cleans up.                         *)
SpawnNothing(t) ==
  /\ Goes(t, "spawn", "exit")
  /\ Safe
  /\ UNCHANGED <<Others, groupVars, inCall, bufreader, clean>>

(* The reader leaves: cleanup_thread is started first, unless there is no  *)
(* room for one more thread: nobody looks at what pthread_create returns.  *)
Denied == <<"done", "threads">>
Created == {<<"sleep", "threads">>, Denied}

Spawn(t) ==
  /\ Goes(t, "spawn", "exit")
  /\ \E to \in Created :
       clean' = [clean EXCEPT ![<<"reader", t[2]>>] = to]
  /\ Safe
  /\ UNCHANGED <<Others, groupVars, inCall, bufreader>>

(* The writer and the processor call getPackage on what they see now ...   *)
QueueOf(t) == IF t[1] = "writer" THEN "cmdout" ELSE "cmdin"

GetPackage(t) ==
  /\ t[1] \in {"writer", "processor"}
  /\ Goes(t, "top", "get")
  /\ inCall' = [inCall EXCEPT ![t] = ptr[QueueOf(t)]]
  /\ misuse' = (ptr[QueueOf(t)] = NoSession)
  /\ UNCHANGED <<Others, groupVars, bufreader, clean>>

(* ... which returns with nothing ...                                      *)
GotNothing(t) ==
  /\ Goes(t, "get", "check")
  /\ Uses(QueueOf(t), inCall[t])
  /\ inCall' = [inCall EXCEPT ![t] = NoSession]
  /\ UNCHANGED <<Others, groupVars, bufreader, clean>>

(* ... or with a package; the writer remembers which queue it came from.   *)
GotPackage(t) ==
  /\ Goes(t, "get", IF t[1] = "writer" THEN "send" ELSE "command")
  /\ Uses(QueueOf(t), inCall[t])
  /\ inCall' = IF t[1] = "writer" THEN inCall
                                  ELSE [inCall EXCEPT ![t] = NoSession]
  /\ UNCHANGED <<Others, groupVars, bufreader, clean>>

(* writeback, on the socket of now.  A server that does not read makes it  *)
(* wait; an error ends the thread.                                         *)
Writes(t) ==
  /\ ptr["socket"] \in peer \ freed["socket"]
  /\ Goes(t, "send", "check")
  /\ inCall' = [inCall EXCEPT ![t] = NoSession]
  /\ Safe
  /\ UNCHANGED <<Others, groupVars, bufreader, clean>>

WriteFails(t) ==
  /\ ptr["socket"] \notin peer \ freed["socket"]
  /\ Goes(t, "send", "exit")
  /\ inCall' = [inCall EXCEPT ![t] = NoSession]
  /\ Safe
  /\ UNCHANGED <<Others, groupVars, bufreader, clean>>

(* processDataPackage, as far as the session goes: a command may need no   *)
(* reply, TELLME_PC_ID puts the alarm out of action and has a reply,       *)
(* NOTIFY_PC_OFFLINE asks every thread to leave (stopVncSession), ...      *)
NoReply(t) ==
  /\ Goes(t, "command", "check")
  /\ Safe
  /\ UNCHANGED <<Others, groupVars, inCall, bufreader, clean>>

TellMePcId(t) ==
  /\ Goes(t, "command", "add")
  /\ inCall' = [inCall EXCEPT ![t] = ptr["cmdout"]]
  /\ is_rev_pcid' = TRUE
  /\ Safe
  /\ UNCHANGED <<freed, ptr, frozen, peer, cpc, notice, del, alarm, handler,
                 list, flag, bufreader, clean>>

(* ... or starts a worker whose upload is going to turn for ever.          *)
StartsWorker(t) ==
  /\ t[2] \in Hanging
  /\ Goes(t, "command", "check")
  /\ ptr["threads"] # NoSession
  /\ ptr["threads"] \notin frozen
  /\ Uses("threads", ptr["threads"])
  /\ list' = [list EXCEPT ![ptr["threads"]] = @ \cup {<<"worker", t[2]>>}]
  /\ UNCHANGED <<Others, flag, inCall, bufreader, clean>>

StopVncSession(t) ==
  /\ Goes(t, "command", "check")
  /\ flag' = [r \in Roles |-> 1]
  /\ Safe
  /\ UNCHANGED <<Others, list, inCall, bufreader, clean>>

(* The end of a turn.                                                      *)
SeesStop(t) ==
  /\ pc[t] = "check"
  /\ flag[t[1]] = 1
  /\ pc' = [pc EXCEPT ![t] = IF t[1] = "reader" THEN "spawn" ELSE "exit"]
  /\ Safe
  /\ UNCHANGED <<Others, groupVars, inCall, bufreader, clean>>

LoopAgain(t) ==
  /\ flag[t[1]] = 0
  /\ Goes(t, "check", "top")
  /\ Safe
  /\ UNCHANGED <<Others, groupVars, inCall, bufreader, clean>>

(* exitThread, on the group of now: a thread it does not list stays where  *)
(* it is listed.                                                           *)
Unlisted(t) ==
  IF ptr["threads"] = NoSession
    THEN Safe /\ list' = list
    ELSE /\ Uses("threads", ptr["threads"])
         /\ list' = [list EXCEPT ![ptr["threads"]] = @ \ {t}]

ExitThread(t) ==
  /\ Goes(t, "exit", "gone")
  /\ Unlisted(t)
  /\ UNCHANGED <<Others, flag, inCall, bufreader, clean>>

-----------------------------------------------------------------------------
(* cleanup(): the four objects in turn.  A cleaner looks at the variable,  *)
(* deletes what it found there, sets the variable to null.                 *)

AfterClean == [threads |-> <<"look", "cmdin">>, cmdin |-> <<"look", "cmdout">>,
               cmdout |-> <<"look", "socket">>,
               socket |-> <<"done", "socket">>]

CleanStep(k, from, to) == clean[k] = from /\ clean' = [clean EXCEPT ![k] = to]

CleanRest == <<peer, threadVars, cpc, notice, alarmVars>>

(* cleanup_thread begins after its 100 ms.                                 *)
Wakes(k) ==
  /\ CleanStep(k, <<"sleep", "threads">>, <<"look", "threads">>)
  /\ Safe
  /\ UNCHANGED <<CleanRest, ptr, freed, groupVars, del>>

FindsNull(k, o) ==
  /\ ptr[o] = NoSession
  /\ CleanStep(k, <<"look", o>>, AfterClean[o])
  /\ Safe
  /\ UNCHANGED <<CleanRest, ptr, freed, groupVars, del>>

(* Faulty: only threads is looked at before it is deleted.                 *)
FindsUnchecked(k, o) ==
  /\ o = "threads" => ptr[o] # NoSession
  /\ CleanStep(k, <<"look", o>>,
               <<IF o = "threads" THEN "stopAll" ELSE "delete", o>>)
  /\ del' = [del EXCEPT ![k] = ptr[o]]
  /\ Safe
  /\ UNCHANGED <<CleanRest, ptr, freed, groupVars>>

Finds(k, o) ==
  /\ ptr[o] # NoSession
  /\ CleanStep(k, <<"look", o>>,
               <<IF o = "threads" THEN "stopAll" ELSE "delete", o>>)
  /\ del' = [del EXCEPT ![k] = ptr[o]]
  /\ Safe
  /\ UNCHANGED <<CleanRest, ptr, freed, groupVars>>

(* The group's destructor tells the listed threads and freezes the group,  *)
(* then waits for the list to be empty (see Delete).                       *)
StopAll(k) ==
  /\ CleanStep(k, <<"stopAll", "threads">>, <<"delete", "threads">>)
  /\ Uses("threads", del[k])
  /\ flag' = [r \in Roles |->
                IF \E t \in list[del[k]] : t[1] = r THEN 1 ELSE flag[r]]
  /\ frozen' = frozen \cup {del[k]}
  /\ UNCHANGED <<CleanRest, ptr, freed, list, del>>

(* Faulty: the destructor does not wait for the list to be empty.          *)
DeleteAtOnce(k, o) ==
  /\ CleanStep(k, <<"delete", o>>, <<"null", o>>)
  /\ Uses(o, del[k])
  /\ freed' = [freed EXCEPT ![o] = @ \cup {del[k]}]
  /\ UNCHANGED <<CleanRest, ptr, groupVars, del>>

(* Closing a closed descriptor counts as misuse: by then it may be         *)
(* anybody's.                                                              *)
Delete(k, o) ==
  /\ CleanStep(k, <<"delete", o>>, <<"null", o>>)
  /\ o = "threads" /\ del[k] \notin freed[o] => list[del[k]] = {}
  /\ Uses(o, del[k])
  /\ freed' = [freed EXCEPT ![o] = @ \cup {del[k]}]
  /\ UNCHANGED <<CleanRest, ptr, groupVars, del>>

(* Faulty: cmdout is deleted and keeps its value.                          *)
SetsNullButCmdout(k, o) ==
  /\ CleanStep(k, <<"null", o>>, AfterClean[o])
  /\ ptr' = IF o = "cmdout" THEN ptr ELSE [ptr EXCEPT ![o] = NoSession]
  /\ del' = [del EXCEPT ![k] = NoSession]
  /\ Safe
  /\ UNCHANGED <<CleanRest, freed, groupVars>>

SetsNull(k, o) ==
  /\ CleanStep(k, <<"null", o>>, AfterClean[o])
  /\ ptr' = [ptr EXCEPT ![o] = NoSession]
  /\ del' = [del EXCEPT ![k] = NoSession]
  /\ Safe
  /\ UNCHANGED <<CleanRest, freed, groupVars>>

-----------------------------------------------------------------------------
(* SIGALRM.  The kernel gives it to any thread of the process; a session's *)
(* thread takes it between two calls.  An alarm fires at most once for     *)
(* each session that arms it (a bound of the model).                       *)

HandlerRest == <<ptr, freed, frozen, flag, peer, inCall, bufreader, cpc,
                 notice, del, is_rev_pcid>>

AlarmFires(t) ==
  /\ alarm # NoSession
  /\ handler = Idle
  /\ t # Outsider => pc[t] \in {"top", "check"}
  /\ clean[<<"alarm", alarm>>] = <<"idle", "threads">>
  /\ alarm' = NoSession
  /\ handler' = IF is_rev_pcid THEN Idle
                ELSE [at |-> "look", in |-> t, for |-> alarm, q |-> NoSession]
  /\ Safe
  /\ UNCHANGED <<HandlerRest, list, pc, clean>>

HandlerStep(from, to) ==
  /\ handler.at = from
  /\ handler' = [handler EXCEPT !.at = to]

(* TV_EXIT_CTRL is sent with sendPackage.                                  *)
HandlerLooks ==
  /\ handler.at = "look"
  /\ handler' = [handler EXCEPT !.at = "add", !.q = ptr["cmdout"]]
  /\ Safe
  /\ UNCHANGED <<HandlerRest, list, pc, clean, alarm>>

HandlerAdds ==
  /\ HandlerStep("add", "spawn")
  /\ IF handler.q = NoSession THEN Safe ELSE Uses("cmdout", handler.q)
  /\ UNCHANGED <<HandlerRest, list, pc, clean, alarm>>

HandlerSpawns ==
  /\ HandlerStep("spawn", "exit")
  /\ \E to \in Created :
       clean' = [clean EXCEPT ![<<"alarm", handler.for>>] = to]
  /\ Safe
  /\ UNCHANGED <<HandlerRest, list, pc, alarm>>

(* exitThread ends the thread that took the signal if the group of now     *)
(* lists it; otherwise the thread goes on where it was.                    *)
HandlerExits ==
  /\ handler.at = "exit"
  /\ handler' = Idle
  /\ Unlisted(handler.in)
  /\ pc' = IF list' # list THEN [pc EXCEPT ![handler.in] = "gone"] ELSE pc
  /\ UNCHANGED <<HandlerRest, clean, alarm>>

(* The server hangs up, or the network does.                               *)
PeerLeaves(s) ==
  /\ s \in peer
  /\ peer' = peer \ {s}
  /\ Safe
  /\ UNCHANGED <<ptr, freed, groupVars, threadVars, cpc, notice, clean, del,
                 alarmVars>>

-----------------------------------------------------------------------------
(* Who is inside: the threads that are not members of a session and are at *)
(* work on its objects.                                                    *)
Inside ==
  {k \in Cleaners : IF k[1] = "connector"
                      THEN cpc[k[2]] \notin {"none", "done"}
                      ELSE clean[k][1] \notin {"idle", "sleep", "done"}}
    \cup {k \in {<<"handler">>} : handler # Idle /\ handler.in = Outsider}

Quiet ==
  /\ ptr = Nothing
  /\ Inside = {}
  /\ \A k \in Cleaners : clean[k][1] # "sleep"
  /\ alarm = NoSession
  /\ handler = Idle

History ==
  /\ overlap' = (overlap \/ \E x, y \in Inside' : x # y)
  /\ early' = IF Quiet THEN early
              ELSE early \cup {s \in Sessions : /\ cpc[s] = "none"
                                                /\ cpc'[s] # "none"}

Connector(s) ==
  \/ Arrive(s) \/ Notify(s) \/ NotifyAdd(s)
  \/ \E o \in Objects : SetUp(s, o)
  \/ \E r \in Roles : Added(s, r) \/ NotAdded(s, r)

Steps(t) ==
  \/ Start(t)
  \/ t[1] = "processor" /\ SendPackage(t, "created", "register")
  \/ Registered(t)
  \/ ReadTurn(t) \/ ReadFails(t)
  \/ SendPackage(t, "beat", "add")
  \/ GetPackage(t) \/ GotNothing(t) \/ GotPackage(t)
  \/ WriteFails(t)
  \/ NoReply(t) \/ TellMePcId(t) \/ StopVncSession(t) \/ StartsWorker(t)
  \/ SendPackage(t, "command", "add")
  \/ t[2] \in SrvIds /\ SendPackage(t, "command", "addSrv")
  \/ SrvIdSent(t) \/ Sent(t)
  \/ SeesStop(t) \/ LoopAgain(t) \/ Spawn(t) \/ ExitThread(t)

(* A thread that runs the alarm handler does not move.                     *)
Free(t) == handler = Idle \/ handler.in # t

Serves(t) == Free(t) /\ (Steps(t) \/ Writes(t))

Cleanup(k) ==
  \/ Wakes(k) \/ StopAll(k)
  \/ \E o \in Objects : \/ FindsNull(k, o) \/ Finds(k, o)
                        \/ Delete(k, o) \/ SetsNull(k, o)

Handler == HandlerLooks \/ HandlerAdds \/ HandlerSpawns \/ HandlerExits

Next ==
  /\ ~misuse
  /\ \/ \E s \in Sessions : Connector(s) \/ PeerLeaves(s)
     \/ \E t \in Threads : Serves(t) \/ AlarmFires(t)
     \/ \E k \in Cleaners : Cleanup(k)
     \/ AlarmFires(Outsider) \/ Handler
  /\ History

Spec == Init /\ [][Next]_vars

(* Threads run.  Nothing makes the server read, so a write may wait for    *)
(* ever; nothing makes pthread_create succeed, and nothing ends a worker   *)
(* whose upload turns for ever.  What a server sent before it hung up is   *)
(* finite, so a reader meets the end of the connection.                    *)
Do(A) == ~misuse /\ A /\ History

Fairness ==
  /\ \A s \in Sessions : WF_vars(Do(cpc[s] # "none" /\ Connector(s)))
  /\ \A t \in Threads : /\ WF_vars(Do(Free(t) /\ Steps(t)))
                        /\ SF_vars(Do(Free(t) /\ ReadFails(t)))
  /\ \A k \in Cleaners : WF_vars(Do(Cleanup(k)))
  /\ WF_vars(Do(Handler))

FairSpec == Spec /\ Fairness
-----------------------------------------------------------------------------
Pointers == Sessions \cup {NoSession}

TypeOK ==
  /\ ptr \in [Objects -> Pointers]
  /\ freed \in [Objects -> SUBSET Sessions]
  /\ list \in [Sessions -> SUBSET Members]
  /\ frozen \subseteq Sessions
  /\ flag \in [Roles -> {0, 1}]
  /\ peer \subseteq Sessions
  /\ pc \in [Threads -> {"none", "created", "register", "top", "beat", "get",
                         "send", "command", "add", "addSrv", "check", "spawn",
                         "exit", "gone"}]
  /\ inCall \in [Threads -> Pointers]
  /\ bufreader \in [Sessions -> Pointers]
  /\ cpc \in [Sessions -> {"none", "notify", "sendPackage", "done"}
                            \cup Objects \cup Roles]
  /\ notice \in [Sessions -> Pointers]
  /\ clean \in [Cleaners -> {"idle", "sleep", "look", "stopAll", "delete",
                            "null", "done"} \X Objects]
  /\ del \in [Cleaners -> Pointers]
  /\ alarm \in Pointers
  /\ is_rev_pcid \in BOOLEAN
  /\ handler \in [at : {"idle", "look", "add", "spawn", "exit"},
                  in : Threads \cup {Outsider}, for : Pointers, q : Pointers]
  /\ misuse \in BOOLEAN
  /\ overlap \in BOOLEAN
  /\ early \subseteq Sessions

Alive(t) == pc[t] \notin {"none", "gone"}

(* Nothing guards the session's globals, and yet no freed or null object   *)
(* is used as long as no two outsiders are inside at once: the destructor  *)
(* of the group is what keeps the members' unguarded uses right.           *)
MisuseOnlyByOverlap == misuse => overlap

(* As long as no two outsiders have been inside at once, a living thread   *)
(* is listed in its own group and finds its own session whole: the four    *)
(* globals are its session's and none of them is gone, so what it sends,   *)
(* receives and serves is its own PC's (the order of cleanup).             *)
LiveSessionIsWhole ==
  ~overlap =>
    \A t \in Threads : Alive(t) =>
      /\ t \in list[t[2]]
      /\ \A o \in Objects : ptr[o] = t[2] /\ t[2] \notin freed[o]
      /\ inCall[t] \in {t[2], NoSession}

(* A session that began when nothing of an earlier one was left (no object,*)
(* no sleeping cleanup_thread, no armed alarm) is torn down by its own     *)
(* reader's cleanup_thread, by its own alarm or by a connector that takes  *)
(* over; a leftover of another session never does.                         *)
TornDownWhenDue ==
  [][\A k \in Cleaners, s \in Sessions :
       clean[k][1] = "look" /\ clean'[k] = <<"stopAll", "threads">>
         /\ del'[k] = s /\ s \notin early /\ ~overlap
       => k[1] = "connector" \/ k[2] = s]_vars

(* The sessions take turns: a session's turn lasts as long as its socket,  *)
(* and is open until its group has been deleted.                           *)
Turns == INSTANCE SessionTurns
  WITH holder <- ptr["socket"],
       open <- ptr["socket"] \notin freed["threads"] \cup {NoSession},
       started <- {t \in Threads : pc[t] # "none"},
       left <- {t \in Threads : pc[t] = "gone"},
       over <- freed["socket"] \ {ptr["socket"]}

(* Until two outsiders have been inside at once, connectors, cleanup and   *)
(* the alarm's handler do with their unguarded globals what SessionTurns   *)
(* promises: each step is one of a turn, or none.                          *)
TakesTurns ==
  Turns!Init /\ [][~overlap => [Turns!Next]_(Turns!turnVars)]_vars

(* Once the group is frozen a thread that still works and whose flag is    *)
(* down has lost its stop request (VncThreads says why it can).            *)
Deaf(t) ==
  /\ t[2] \in frozen
  /\ pc[t] \notin {"none", "created", "spawn", "exit", "gone"}
  /\ flag[t[1]] = 0

(* Nobody is left to give session s back: its reader's cleanup_thread      *)
(* could not be created, or an alarm ended the reader before it came to    *)
(* that and its own could not be.                                          *)
NoCleaner(s) ==
  LET reader == clean[<<"reader", s>>] IN
  \/ reader = Denied
  \/ /\ reader[1] = "idle" /\ pc[<<"reader", s>>] = "gone"
     /\ \E x \in Sessions : clean[<<"alarm", x>>] = Denied

Held(s) == \E w \in Workers : w \in list[s]

(* A session whose server has hung up and whose reader is there gives all  *)
(* it had back, but for what nothing in the code prevents: a stop request  *)
(* that was lost, a cleanup_thread that could not be created, a worker     *)
(* whose upload turns for ever, the misuse of an object.                   *)
EventuallyReleased ==
  \A s \in Sessions :
    (s \notin peer /\ cpc[s] = "done" /\ Alive(<<"reader", s>>))
      ~> \/ \A o \in Objects : ptr[o] # s
         \/ (\E t \in Threads : Deaf(t)) \/ NoCleaner(s) \/ Held(s)
         \/ misuse
=============================================================================
