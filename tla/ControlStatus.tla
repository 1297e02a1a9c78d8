--------------------------- MODULE ControlStatus ---------------------------
(***************************************************************************)
(* Consent and control status.  On the main thread MainService takes a     *)
(* request, AuthorizedDialog asks the user, startVnc hands the decision    *)
(* over in a static block to a connector thread, and the status bar is     *)
(* shown and hidden by messages to a Handler.  The native threads (a       *)
(* session's processor and reader, the key hook) report what happens with  *)
(* execJCommand, on threads of their own: a message to the Handler first,  *)
(* then the control status, which MainService asks for before it lets the  *)
(* next request in.                                                        *)
(*                                                                         *)
(* Decision i is the i-th call of startVnc, and so is connector i.  Of a   *)
(* session only what ends it and what it reports is left; VncSession has   *)
(* the rest, and says what happens when two outsiders are inside at once.  *)
(* Here one is at a time (OneInside).                                      *)
(***************************************************************************)
EXTENDS Integers, Sequences, SequencesExt

CONSTANTS MaxDecisions,     \* bound: calls of startVnc
          MaxMessages,      \* bound: no message is caused while there are
                            \* as many in the Handler's queue
          MaxSleeping,      \* bound: no alarm comes while as many
                            \* cleanup_threads have not begun
          Faults            \* what may go wrong: select, the server's not
                            \* naming a PC in time, pthread_create

ASSUME BoundAssumption ==
  /\ MaxDecisions \in Nat /\ MaxMessages \in Nat \ {0}
  /\ MaxSleeping \in Nat
  /\ Faults \subseteq {"select", "alarm", "create"}

Decisions == 1 .. MaxDecisions
None == 0                   \* no session
Threads == {"reader", "processor", "hook"}
Commands == {"TELLME_SRV_ID", "TELLME_PC_ID", "NOTIFY_PC_OFFLINE"}

VARIABLES msgs,         \* the Handler's queue: msg.what
          dialog,       \* the AuthorizedDialog is shown, its timer runs
          bar,          \* the StatusBarDialog is shown
          mCurrentCtl,  \* the control status
          decided,      \* decided[i]: what the user said, "yes" or "no", or
                        \* "secret": a request that asks nobody
          threaddata,   \* the decision in startVnc's static block
          conn,         \* conn[i]: where connector i is
          pdata,        \* pdata[i]: the decision connector i has copied
          session,      \* the connector whose session it is, or None
          peer,         \* the session's server is connected
          inbox,        \* what it has sent: the commands that matter here
          stop,         \* the session's threads have been told to leave
          at,           \* at[w]: where thread w is
          sleeping,     \* how many cleanup_threads have not begun
          cleaning,     \* one has
          alarm,        \* SIGALRM is to come and is_rev_pcid is false
          acked,        \* history: the PC of the session is known
          dismissed,    \* history: the user has left the session
          crossed,      \* history: two reports have been half made at once,
                        \* or the alarm has cut one in half
          stale         \* history: the reader's report of the end is missing
                        \* or has been overtaken

mainVars == <<msgs, dialog, bar>>
connVars == <<decided, threaddata, conn, pdata>>
sessionVars == <<session, peer, inbox, stop, sleeping, cleaning, alarm>>
history == <<acked, dismissed, crossed, stale>>
vars == <<mainVars, mCurrentCtl, connVars, sessionVars, at, history>>

Init ==
  /\ msgs = << >> /\ dialog = FALSE /\ bar = FALSE
  /\ mCurrentCtl = FALSE
  /\ decided = << >>
  /\ threaddata = None
  /\ conn = << >>
  /\ pdata = << >>
  /\ session = None /\ peer = FALSE /\ inbox = << >> /\ stop = FALSE
  /\ at = [w \in Threads |-> IF w = "hook" THEN "loop" ELSE "gone"]
  /\ sleeping = 0 /\ cleaning = FALSE /\ alarm = FALSE
  /\ acked = FALSE /\ dismissed = FALSE /\ crossed = FALSE /\ stale = FALSE

Room == Len(msgs) < MaxMessages
Moves(w, from, to) == at[w] = from /\ at' = [at EXCEPT ![w] = to]
Connects(i, from, to) ==
  /\ i \in DOMAIN conn
  /\ conn[i] = from
  /\ conn' = [conn EXCEPT ![i] = to]

-----------------------------------------------------------------------------
(* The main thread *)

MainRest == <<mCurrentCtl, sessionVars, at, history>>

(* onStartCommand: a request is let in unless the TV is under control; a   *)
(* "secret" one always, and it asks nobody.                                *)
ConnectIntent ==
  /\ ~mCurrentCtl
  /\ Room
  /\ msgs' = Append(msgs, 3)
  /\ UNCHANGED <<MainRest, dialog, bar, connVars>>

SecretIntent ==
  /\ Room
  /\ msgs' = Append(msgs, 5)
  /\ UNCHANGED <<MainRest, dialog, bar, connVars>>

(* Faulty: a refusal leaves the last decision in the block.                *)
KeepsBlock(answer) ==
  /\ Len(conn) < MaxDecisions
  /\ decided' = Append(decided, answer)
  /\ threaddata' = IF answer # "no" \/ threaddata = None
                     THEN Len(conn) + 1 ELSE threaddata
  /\ conn' = Append(conn, "created")
  /\ pdata' = Append(pdata, None)

(* startVnc: the block is written, then the connector is created.          *)
StartVnc(answer) ==
  /\ Len(conn) < MaxDecisions
  /\ decided' = Append(decided, answer)
  /\ threaddata' = Len(conn) + 1
  /\ conn' = Append(conn, "created")
  /\ pdata' = Append(pdata, None)

(* A decision is dropped if the address or the identifier that it needs is *)
(* still null.                                                             *)
Decide(answer) == StartVnc(answer) \/ UNCHANGED connVars

(* handleMessage *)
HandleMessage ==
  /\ msgs # << >>
  /\ msgs' = Tail(msgs)
  /\ \/ Head(msgs) = 1 /\ bar' = TRUE /\ UNCHANGED <<dialog, connVars>>
     \/ Head(msgs) = 2 /\ bar' = FALSE /\ UNCHANGED <<dialog, connVars>>
     \/ Head(msgs) = 3 /\ dialog' = TRUE /\ UNCHANGED <<bar, connVars>>
     \/ Head(msgs) = 5 /\ Decide("secret") /\ UNCHANGED <<dialog, bar>>
  /\ UNCHANGED MainRest

(* The dialog's OK.                                                        *)
Accept ==
  /\ dialog
  /\ dialog' = FALSE
  /\ Decide("yes")
  /\ UNCHANGED <<MainRest, msgs, bar>>

(* The other button, pressed by the user or by the timer.                  *)
Refuse ==
  /\ dialog
  /\ dialog' = FALSE
  /\ Decide("no")
  /\ UNCHANGED <<MainRest, msgs, bar>>

(* The back key cancels the dialog and its timer; nobody is told.          *)
Cancel ==
  /\ dialog
  /\ dialog' = FALSE
  /\ UNCHANGED <<MainRest, msgs, bar, connVars>>

-----------------------------------------------------------------------------
(* try_to_connect *)

ConnRest == <<mainVars, mCurrentCtl, decided, threaddata>>

(* The block is copied by the connector, when it runs.                     *)
Copies(i) ==
  /\ Connects(i, "created", "connecting")
  /\ pdata' = [pdata EXCEPT ![i] = threaddata]
  /\ UNCHANGED <<ConnRest, sessionVars, at, history>>

(* Five attempts, or three to tell the server of a refusal.                *)
GivesUp(i) ==
  /\ Connects(i, "connecting", "done")
  /\ UNCHANGED <<ConnRest, pdata, sessionVars, at, history>>

Refuses(i) ==
  /\ Connects(i, "connecting", "done")
  /\ decided[pdata[i]] = "no"
  /\ UNCHANGED <<ConnRest, pdata, sessionVars, at, history>>

OneInside == ~cleaning /\ \A j \in DOMAIN conn : conn[j] # "cleanup"

(* cleanup() tells the session's threads ...                               *)
Connected(i) ==
  /\ OneInside
  /\ Connects(i, "connecting", "cleanup")
  /\ decided[pdata[i]] # "no"
  /\ stop' = (session # None)
  /\ UNCHANGED <<ConnRest, pdata, session, peer, inbox, sleeping, cleaning,
                 alarm, at, history>>

(* ... and waits for them; then the new session is set up.                 *)
MembersGone == at["reader"] = "gone" /\ at["processor"] = "gone"

SetUp(i) ==
  /\ MembersGone
  /\ Connects(i, "cleanup", "done")
  /\ session' = i
  /\ peer' = TRUE
  /\ inbox' = << >>
  /\ stop' = FALSE
  /\ at' = [at EXCEPT !["reader"] = "loop", !["processor"] = "loop"]
  /\ acked' = FALSE
  /\ dismissed' = (at["hook"] # "loop")
  /\ UNCHANGED <<ConnRest, pdata, sleeping, cleaning, alarm, crossed, stale>>

-----------------------------------------------------------------------------
(* Reports: execJCommand, a message and then the control status.           *)

ReportRest == <<dialog, bar, connVars, sessionVars>>

(* history: crossed, after a step of at.                                   *)
Crosses ==
  crossed' = (crossed \/ \E v, w \in Threads :
                v # w /\ at'[v] \in {"exitSet", "successSet"}
                      /\ at'[w] \in {"exitSet", "successSet"})

ControlExit(w) ==
  /\ Moves(w, "exit", "exitSet")
  /\ msgs' = Append(msgs, 2)
  /\ Crosses
  /\ UNCHANGED <<ReportRest, mCurrentCtl, acked, dismissed, stale>>

(* Faulty: the reader goes on after its report.                            *)
ExitAndGoOn(w) ==
  /\ Moves(w, "exitSet", "loop")
  /\ mCurrentCtl' = FALSE
  /\ stale' = FALSE
  /\ UNCHANGED <<ReportRest, msgs, acked, dismissed, crossed>>

ControlExitSet(w) ==
  /\ Moves(w, "exitSet", IF w = "reader" THEN "leave" ELSE "loop")
  /\ mCurrentCtl' = FALSE
  /\ stale' = FALSE
  /\ UNCHANGED <<ReportRest, msgs, acked, dismissed, crossed>>

(* Faulty: only the status is set.                                         *)
SuccessUnposted ==
  /\ Moves("processor", "success", "successSet")
  /\ Crosses
  /\ UNCHANGED <<ReportRest, msgs, mCurrentCtl, acked, dismissed, stale>>

ControlSuccess ==
  /\ Moves("processor", "success", "successSet")
  /\ msgs' = Append(msgs, 1)
  /\ Crosses
  /\ UNCHANGED <<ReportRest, mCurrentCtl, acked, dismissed, stale>>

(* stale: the reader has already reported the end of the session.          *)
ControlSuccessSet ==
  /\ Moves("processor", "successSet", "loop")
  /\ mCurrentCtl' = TRUE
  /\ stale' = (stale \/ at["reader"] # "loop")
  /\ acked' = TRUE
  /\ UNCHANGED <<ReportRest, msgs, dismissed, crossed>>

(* handle_ir_event: three times back.                                      *)
UserExits ==
  /\ Room
  /\ Moves("hook", "loop", "exit")
  /\ dismissed' = TRUE
  /\ UNCHANGED <<ReportRest, msgs, mCurrentCtl, acked, crossed, stale>>

-----------------------------------------------------------------------------
(* The session's threads *)

ServeRest == <<mainVars, mCurrentCtl, connVars>>

(* Faulty: the end of the connection is not reported.                      *)
EndUnreported ==
  /\ ~peer
  /\ Moves("reader", "loop", "leave")
  /\ UNCHANGED <<ServeRest, sessionVars, history>>

(* recv says that the connection has ended.                                *)
ReaderSeesEnd ==
  /\ ~peer
  /\ Moves("reader", "loop", "exit")
  /\ UNCHANGED <<ServeRest, sessionVars, history>>

(* select fails, with what it is not called again for: no report.          *)
SelectFails ==
  /\ "select" \in Faults
  /\ Moves("reader", "loop", "leave")
  /\ stale' = TRUE
  /\ UNCHANGED <<ServeRest, sessionVars, acked, dismissed, crossed>>

(* Asked to leave, it leaves without a report, too.                        *)
ReaderStops ==
  /\ stop
  /\ Moves("reader", "loop", "leave")
  /\ stale' = TRUE
  /\ UNCHANGED <<ServeRest, sessionVars, acked, dismissed, crossed>>

(* cleanup_thread is started, to begin 100 ms later, if it can be.         *)
CreatesCleanup ==
  \/ sleeping' = sleeping + 1
  \/ "create" \in Faults /\ sleeping' = sleeping

ReaderLeaves ==
  /\ Moves("reader", "leave", "gone")
  /\ CreatesCleanup
  /\ UNCHANGED <<ServeRest, session, peer, inbox, stop, cleaning, alarm,
                 history>>

(* TELLME_SRV_ID arms the alarm for 40 s.  TELLME_PC_ID disarms its handler*)
(* and is reported; NOTIFY_PC_OFFLINE is not, it ends the session's threads*)
(* (stopVncSession).                                                       *)
TellMeSrvId ==
  /\ inbox # << >> /\ Head(inbox) = "TELLME_SRV_ID"
  /\ at["processor"] = "loop"
  /\ inbox' = Tail(inbox)
  /\ alarm' = TRUE
  /\ UNCHANGED <<ServeRest, at, session, peer, stop, sleeping, cleaning,
                 history>>

TellMePcId ==
  /\ inbox # << >> /\ Head(inbox) = "TELLME_PC_ID"
  /\ Moves("processor", "loop", "success")
  /\ inbox' = Tail(inbox)
  /\ alarm' = FALSE
  /\ UNCHANGED <<ServeRest, session, peer, stop, sleeping, cleaning, history>>

NotifyPcOffline ==
  /\ inbox # << >> /\ Head(inbox) = "NOTIFY_PC_OFFLINE"
  /\ at["processor"] = "loop"
  /\ inbox' = Tail(inbox)
  /\ stop' = TRUE
  /\ UNCHANGED <<ServeRest, at, session, peer, sleeping, cleaning, alarm,
                 history>>

ProcessorStops ==
  /\ stop
  /\ Moves("processor", "loop", "gone")
  /\ UNCHANGED <<ServeRest, sessionVars, history>>

(* my_alarm_handler starts a cleanup_thread, too, and ends the thread that *)
(* it runs on, whatever that is doing, if it is one of the session's.  The *)
(* alarm may be an earlier session's.                                      *)
AlarmRest == <<ServeRest, session, peer, inbox, stop, cleaning>>

AlarmComes ==
  /\ "alarm" \in Faults
  /\ alarm /\ alarm' = FALSE
  /\ sleeping < MaxSleeping
  /\ CreatesCleanup

AlarmEnds(w) ==
  /\ AlarmComes
  /\ at[w] # "gone"
  /\ at' = [at EXCEPT ![w] = "gone"]
  /\ crossed' = (crossed \/ at[w] \in {"exitSet", "successSet"})
  /\ stale' = (stale \/ (w = "reader" /\ at[w] # "leave"))
  /\ UNCHANGED <<AlarmRest, acked, dismissed>>

AlarmElsewhere == AlarmComes /\ UNCHANGED <<AlarmRest, at, history>>

(* cleanup_thread, on whatever session there is by now.                    *)
CleanupBegins ==
  /\ sleeping > 0
  /\ OneInside
  /\ sleeping' = sleeping - 1
  /\ cleaning' = (session # None)
  /\ stop' = (session # None)
  /\ UNCHANGED <<ServeRest, at, session, peer, inbox, alarm, history>>

CleanupEnds ==
  /\ cleaning
  /\ MembersGone
  /\ cleaning' = FALSE
  /\ session' = None
  /\ peer' = FALSE
  /\ stop' = FALSE
  /\ UNCHANGED <<ServeRest, at, inbox, sleeping, alarm, history>>

(* The server's commands reach the reader while it reads.                  *)
PeerSends(c) ==
  /\ peer /\ at["reader"] = "loop"
  /\ inbox = << >> /\ Room
  /\ inbox' = Append(inbox, c)
  /\ UNCHANGED <<ServeRest, at, session, peer, stop, sleeping, cleaning,
                 alarm, history>>

PeerLeaves ==
  /\ peer
  /\ peer' = FALSE
  /\ UNCHANGED <<ServeRest, at, session, inbox, stop, sleeping, cleaning,
                 alarm, history>>

-----------------------------------------------------------------------------
Connector(i) ==
  Copies(i) \/ GivesUp(i) \/ Refuses(i) \/ Connected(i) \/ SetUp(i)

Reporting(w) == ControlExit(w) \/ ControlExitSet(w)
Reader ==
  ReaderSeesEnd \/ SelectFails \/ ReaderStops \/ ReaderLeaves
    \/ Reporting("reader")
Processor ==
  TellMeSrvId \/ TellMePcId \/ NotifyPcOffline \/ ProcessorStops
    \/ ControlSuccess \/ ControlSuccessSet
Alarm == AlarmEnds("reader") \/ AlarmEnds("processor") \/ AlarmElsewhere
Cleanup == CleanupBegins \/ CleanupEnds

Next ==
  \/ ConnectIntent \/ SecretIntent \/ HandleMessage
  \/ Accept \/ Refuse \/ Cancel
  \/ \E i \in Decisions : Connector(i)
  \/ Reader \/ Processor \/ Alarm \/ Cleanup
  \/ UserExits \/ Reporting("hook")
  \/ \E c \in Commands : PeerSends(c)
  \/ PeerLeaves

Spec == Init /\ [][Next]_vars
-----------------------------------------------------------------------------
MainType ==
  /\ msgs \in Seq({1, 2, 3, 5})
  /\ dialog \in BOOLEAN /\ bar \in BOOLEAN /\ mCurrentCtl \in BOOLEAN

ConnType ==
  /\ conn \in Seq({"created", "connecting", "cleanup", "done"})
  /\ decided \in Seq({"yes", "no", "secret"}) /\ Len(decided) = Len(conn)
  /\ pdata \in Seq(Nat) /\ Len(pdata) = Len(conn)
  /\ \A i \in DOMAIN conn :
       IF conn[i] = "created" THEN pdata[i] = None
                              ELSE pdata[i] \in DOMAIN conn
  /\ threaddata \in 0 .. Len(conn)

SessionType ==
  /\ session \in 0 .. Len(conn)
  /\ peer \in BOOLEAN /\ stop \in BOOLEAN
  /\ inbox \in Seq(Commands)
  /\ sleeping \in Nat /\ cleaning \in BOOLEAN /\ alarm \in BOOLEAN

ThreadType ==
  /\ at \in [Threads -> {"loop", "exit", "exitSet", "success", "successSet",
                         "leave", "gone"}]
  /\ acked \in BOOLEAN /\ dismissed \in BOOLEAN
  /\ crossed \in BOOLEAN /\ stale \in BOOLEAN

TypeOK == MainType /\ ConnType /\ SessionType /\ ThreadType

(* No report is being made and the main thread has handled the last one.   *)
AtRest ==
  /\ ~Contains(msgs, 1) /\ ~Contains(msgs, 2)
  /\ \A w \in Threads : at[w] \in {"loop", "leave", "gone"}

(* A session exists because the user said yes or a secret request asked    *)
(* nobody: the decision it was started on is its connector's own or a      *)
(* later one, and no refusal, whatever the static block was overwritten    *)
(* with in between.                                                        *)
SessionGranted ==
  session # None =>
    pdata[session] >= session /\ decided[pdata[session]] \in {"yes", "secret"}

(* Nothing keeps the status bar and the control status together but the    *)
(* order in which each thread reports: when all is said they agree, unless *)
(* two threads were half way through a report at the same time or the      *)
(* alarm ended one that was.                                               *)
BarFollowsStatus == AtRest /\ ~crossed => (bar = mCurrentCtl)

(* A PC that has control is seen to have it: the bar is shown for as long  *)
(* as its session's reader reads, although the reader of the session it    *)
(* has taken over reported an end (unless the user has left).              *)
ControlIsSeen ==
  AtRest /\ ~crossed /\ acked /\ ~dismissed /\ at["reader"] = "loop"
    => bar /\ mCurrentCtl

(* With no session left the status lets the next request in, unless the    *)
(* reader left without its report (it was asked to leave, select failed,   *)
(* the alarm ended it) or its report of the end overtook the processor's   *)
(* report of the beginning, and nobody has reported an end since.          *)
StatusIsFree ==
  session = None /\ ~stale => ~mCurrentCtl

(* StatusBarDialog.java:77 says on the screen that the TV is remotely      *)
(* connected: when all is at rest, with the bar shown, it is.              *)
BarTellsTheTruth == AtRest /\ bar => session # None
=============================================================================
