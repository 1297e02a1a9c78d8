------------------------ MODULE ControlStatus_proofs ------------------------
(***************************************************************************)
(* For any number of decisions and messages: there is no session that was  *)
(* refused, the status bar follows the control status, a PC in control is  *)
(* seen to be, and a session's end frees the status.                       *)
(***************************************************************************)
EXTENDS ControlStatus, TLAPS

Answers == {"yes", "no", "secret"}

(* What each of the reporting threads can be at.                           *)
ThreadsOK ==
  /\ at["reader"] \in {"loop", "exit", "exitSet", "leave", "gone"}
  /\ at["processor"] \in {"loop", "success", "successSet", "gone"}
  /\ at["hook"] \in {"loop", "exit", "exitSet"}

(* The block holds the last decision, so a connector copies its own or a   *)
(* later one, and only a granted one gets as far as cleanup.               *)
BlockIsLast == threaddata = Len(conn)

CopiesOK ==
  \A i \in DOMAIN conn :
    conn[i] # "created" =>
      /\ pdata[i] >= i
      /\ conn[i] = "cleanup" => decided[pdata[i]] # "no"

SessionOK ==
  session # None =>
    conn[session] = "done" /\ decided[pdata[session]] # "no"

ConsentInv == BlockIsLast /\ CopiesOK /\ SessionOK

(* Without a session nobody reports but the user.                          *)
NobodyLeft == session = None => MembersGone

(* A control status that is set has a reader that will withdraw it.        *)
StatusHasReader ==
  mCurrentCtl /\ ~stale => at["reader"] \in {"loop", "exit", "exitSet"}

(* The status of an acknowledged PC is set until somebody withdraws it.    *)
StatusOfAcked ==
  /\ ~dismissed => at["hook"] = "loop"
  /\ acked /\ ~dismissed /\ at["reader"] \in {"loop", "exit", "exitSet"}
       => mCurrentCtl

(* What the bar will be when queue q has been handled.                     *)
WillBe(q, shown, v) ==
  /\ \A n \in 1 .. Len(q) :
       q[n] \in {1, 2} /\ (\A m \in 1 .. Len(q) : m > n => q[m] \notin {1, 2})
         => (v <=> q[n] = 1)
  /\ (\A n \in 1 .. Len(q) : q[n] \notin {1, 2}) => (v <=> shown)

HalfMade(w) == at[w] \in {"exitSet", "successSet"}

OneHalfMade ==
  ~crossed => \A v, w \in Threads : HalfMade(v) /\ HalfMade(w) => v = w

(* What the status will be when the half-made report is finished.          *)
StatusToBe ==
  /\ ~\E w \in Threads : at[w] = "exitSet"
  /\ at["processor"] = "successSet" \/ mCurrentCtl

BarToCome == ~crossed => WillBe(msgs, bar, StatusToBe)

StatusInv ==
  /\ ThreadsOK /\ NobodyLeft /\ StatusHasReader /\ StatusOfAcked
  /\ OneHalfMade /\ BarToCome

IInv == TypeOK /\ ConsentInv /\ StatusInv

-----------------------------------------------------------------------------
(* Queues *)

LEMMA WillBeAfterReport ==
  ASSUME NEW q \in Seq({1, 2, 3, 5}), NEW shown \in BOOLEAN,
         NEW e \in {1, 2}
  PROVE  WillBe(Append(q, e), shown, e = 1)
<1> DEFINE r == Append(q, e)
<1>1. /\ Len(r) = Len(q) + 1
      /\ r[Len(r)] = e
      /\ Len(q) \in Nat
  OBVIOUS
<1>2. \A n \in 1 .. Len(r) :
        (\A m \in 1 .. Len(r) : m > n => r[m] \notin {1, 2}) => n = Len(r)
  BY <1>1
<1>3. ~\A n \in 1 .. Len(r) : r[n] \notin {1, 2}
  BY <1>1
<1> HIDE DEF r
<1>4. WillBe(r, shown, e = 1)
  BY <1>1, <1>2, <1>3 DEF WillBe
<1> QED
  BY <1>4 DEF r

LEMMA WillBeAfterRequest ==
  ASSUME NEW q \in Seq({1, 2, 3, 5}), NEW shown \in BOOLEAN,
         NEW v \in BOOLEAN, NEW e \in {3, 5}, WillBe(q, shown, v)
  PROVE  WillBe(Append(q, e), shown, v)
<1> DEFINE r == Append(q, e)
<1>1. /\ Len(r) = Len(q) + 1
      /\ r[Len(r)] \notin {1, 2}
      /\ Len(q) \in Nat
      /\ \A n \in 1 .. Len(q) : r[n] = q[n]
  OBVIOUS
<1> HIDE DEF r
<1>2. WillBe(r, shown, v)
  BY <1>1 DEF WillBe
<1> QED
  BY <1>2 DEF r

LEMMA WillBeAfterHandling ==
  ASSUME NEW q \in Seq({1, 2, 3, 5}), q # << >>, NEW shown \in BOOLEAN,
         NEW v \in BOOLEAN, NEW later \in BOOLEAN, WillBe(q, shown, v),
         later = IF Head(q) \in {1, 2} THEN Head(q) = 1 ELSE shown
  PROVE  WillBe(Tail(q), later, v)
<1> DEFINE r == Tail(q)
<1>1. /\ Len(q) \in Nat /\ Len(q) >= 1
      /\ Len(r) = Len(q) - 1
      /\ \A n \in 1 .. Len(r) : r[n] = q[n + 1]
      /\ Head(q) = q[1]
  OBVIOUS
<1> HIDE DEF r
<1>2. ASSUME NEW n \in 1 .. Len(r), r[n] \in {1, 2},
             \A m \in 1 .. Len(r) : m > n => r[m] \notin {1, 2}
      PROVE  v <=> r[n] = 1
  <2>1. /\ n + 1 \in 1 .. Len(q)
        /\ q[n + 1] = r[n]
    BY <1>1, <1>2
  <2>2. ASSUME NEW m \in 1 .. Len(q), m > n + 1
        PROVE  q[m] \notin {1, 2}
    <3>1. m - 1 \in 1 .. Len(r) /\ m - 1 > n /\ q[m] = r[m - 1]
      BY <1>1, <2>2
    <3> QED
      BY <3>1, <1>2
  <2> QED
    BY <2>1, <2>2, <1>2 DEF WillBe
<1>3. ASSUME \A n \in 1 .. Len(r) : r[n] \notin {1, 2}
      PROVE  v <=> later
  <2>1. ASSUME NEW m \in 1 .. Len(q), m > 1
        PROVE  q[m] \notin {1, 2}
    <3>1. m - 1 \in 1 .. Len(r) /\ q[m] = r[m - 1]
      BY <1>1, <2>1
    <3> QED
      BY <3>1, <1>3
  <2>2. CASE q[1] \in {1, 2}
    BY <1>1, <2>1, <2>2 DEF WillBe
  <2>3. CASE q[1] \notin {1, 2}
    <3>1. \A m \in 1 .. Len(q) : q[m] \notin {1, 2}
      BY <1>1, <2>1, <2>3
    <3> QED
      BY <1>1, <3>1, <2>3 DEF WillBe
  <2> QED
    BY <2>2, <2>3
<1>4. WillBe(r, later, v)
  BY <1>2, <1>3 DEF WillBe
<1> QED
  BY <1>4 DEF r

-----------------------------------------------------------------------------
(* Types *)

LEMMA TypeInit == Init => TypeOK
<1> SUFFICES ASSUME Init
             PROVE  TypeOK
  OBVIOUS
<1> USE DEF Init
<1>1. MainType
  <2>1. msgs \in Seq({1, 2, 3, 5})
    OBVIOUS
  <2>2. dialog \in BOOLEAN /\ bar \in BOOLEAN /\ mCurrentCtl \in BOOLEAN
    BY Zenon
  <2> QED
    BY <2>1, <2>2 DEF MainType
<1>2. ConnType
  <2>1. Len(conn) = 0 /\ DOMAIN conn = {}
    OBVIOUS
  <2> QED
    BY <2>1 DEF ConnType, None
<1>3. SessionType
  <2>1. /\ session \in 0 .. Len(conn)
        /\ inbox \in Seq(Commands)
        /\ sleeping \in Nat
    BY DEF None
  <2>2. /\ peer \in BOOLEAN /\ stop \in BOOLEAN /\ cleaning \in BOOLEAN
        /\ alarm \in BOOLEAN
    BY Zenon
  <2> QED
    BY <2>1, <2>2 DEF SessionType
<1>4. ThreadType
  BY DEF ThreadType, Threads
<1> QED
  BY <1>1, <1>2, <1>3, <1>4 DEF TypeOK

LEMMA DecideType ==
  ASSUME ConnType, BlockIsLast, NEW answer \in Answers, Decide(answer)
  PROVE  ConnType' /\ Len(conn') >= Len(conn)
<1>1. CASE UNCHANGED connVars
  BY <1>1 DEF ConnType, connVars
<1>2. CASE StartVnc(answer)
  <2> DEFINE n == Len(conn)
  <2>1. /\ n \in Nat
        /\ decided' = Append(decided, answer)
        /\ threaddata' = n + 1
        /\ conn' = Append(conn, "created")
        /\ pdata' = Append(pdata, None)
    BY <1>2 DEF StartVnc, ConnType
  <2>2. /\ conn' \in Seq({"created", "connecting", "cleanup", "done"})
        /\ Len(conn') = n + 1
        /\ decided' \in Seq(Answers) /\ Len(decided') = n + 1
        /\ pdata' \in Seq(Nat) /\ Len(pdata') = n + 1
        /\ threaddata' \in 0 .. Len(conn')
    BY <2>1 DEF ConnType, None, Answers
  <2>3. ASSUME NEW i \in DOMAIN conn'
        PROVE  IF conn'[i] = "created" THEN pdata'[i] = None
                                       ELSE pdata'[i] \in DOMAIN conn'
    <3>1. CASE i = n + 1
      BY <2>1, <3>1 DEF ConnType
    <3>2. CASE i # n + 1
      <4>1. i \in DOMAIN conn /\ conn'[i] = conn[i] /\ pdata'[i] = pdata[i]
        BY <2>1, <2>2, <2>3, <3>2 DEF ConnType
      <4> QED
        BY <4>1, <2>1, <2>2 DEF ConnType
    <3> QED
      BY <3>1, <3>2
  <2> QED
    BY <2>1, <2>2, <2>3 DEF ConnType, Answers
<1> QED
  BY <1>1, <1>2 DEF Decide

(* Whatever a connector does, it does to its own place and copy.           *)
LEMMA ConnectorType ==
  ASSUME ConnType, BlockIsLast, NEW i \in Decisions, Connector(i)
  PROVE  ConnType' /\ Len(conn') = Len(conn)
<1>1. PICK to \in {"connecting", "cleanup", "done"} :
        /\ i \in DOMAIN conn
        /\ conn' = [conn EXCEPT ![i] = to]
        /\ UNCHANGED <<decided, threaddata>>
        /\ \/ pdata' = [pdata EXCEPT ![i] = threaddata]
           \/ conn[i] # "created" /\ UNCHANGED pdata
  BY DEF Connector, Copies, GivesUp, Refuses, Connected, SetUp, Connects,
         ConnRest
<1>2. /\ conn' \in Seq({"created", "connecting", "cleanup", "done"})
      /\ DOMAIN conn' = DOMAIN conn
      /\ Len(conn') = Len(conn)
      /\ Len(conn) \in DOMAIN conn
  BY <1>1 DEF ConnType
<1>3. /\ pdata' \in Seq(Nat)
      /\ Len(pdata') = Len(pdata)
      /\ threaddata' \in 0 .. Len(conn')
  BY <1>1, <1>2 DEF ConnType
<1>4. ASSUME NEW j \in DOMAIN conn'
      PROVE  IF conn'[j] = "created" THEN pdata'[j] = None
                                     ELSE pdata'[j] \in DOMAIN conn'
  BY <1>1, <1>2 DEF ConnType, BlockIsLast
<1> QED
  BY <1>1, <1>2, <1>3, <1>4 DEF ConnType

(* Who writes what.                                                        *)
LEMMA ConnWriters ==
  [Next]_vars =>
    \/ UNCHANGED connVars
    \/ \E answer \in Answers : Decide(answer)
    \/ \E i \in Decisions : Connector(i)
<1> SUFFICES ASSUME [Next]_vars
             PROVE  \/ UNCHANGED connVars
                    \/ \E answer \in Answers : Decide(answer)
                    \/ \E i \in Decisions : Connector(i)
  OBVIOUS
<1> USE DEF connVars
<1>1. CASE ConnectIntent \/ SecretIntent \/ Cancel
  BY <1>1 DEF ConnectIntent, SecretIntent, Cancel
<1>2. CASE HandleMessage
  BY <1>2 DEF HandleMessage, Answers
<1>3. CASE Accept \/ Refuse
  BY <1>3 DEF Accept, Refuse, Answers
<1>4. CASE Reader \/ UserExits \/ Reporting("hook")
  BY <1>4 DEF Reader, ReaderSeesEnd, SelectFails, ReaderStops, ReaderLeaves,
              Reporting, ControlExit, ControlExitSet, UserExits, ReportRest,
              ServeRest
<1>5. CASE Processor
  BY <1>5 DEF Processor, TellMeSrvId, TellMePcId, NotifyPcOffline,
              ProcessorStops, ControlSuccess, ControlSuccessSet, ReportRest,
              ServeRest
<1>6. CASE Cleanup \/ PeerLeaves
  BY <1>6 DEF Cleanup, CleanupBegins, CleanupEnds, PeerLeaves, ServeRest
<1>7. CASE \E c \in Commands : PeerSends(c)
  BY <1>7 DEF PeerSends, ServeRest
<1>8. CASE Alarm
  BY <1>8 DEF Alarm, AlarmEnds, AlarmElsewhere, AlarmRest, ServeRest
<1>9. CASE UNCHANGED vars
  BY <1>9 DEF vars
<1> QED
  BY <1>1, <1>2, <1>3, <1>4, <1>5, <1>6, <1>7, <1>8, <1>9 DEF Next

LEMMA ConnStep ==
  ASSUME ConnType, BlockIsLast, [Next]_vars
  PROVE  ConnType' /\ Len(conn') \in Nat /\ Len(conn') >= Len(conn)
<1>1. CASE UNCHANGED connVars
  BY <1>1 DEF ConnType, connVars
<1>2. CASE \E answer \in Answers : Decide(answer)
  BY <1>2, DecideType DEF ConnType
<1>3. CASE \E i \in Decisions : Connector(i)
  BY <1>3, ConnectorType DEF ConnType
<1> QED
  BY <1>1, <1>2, <1>3, ConnWriters

LEMMA MainStep ==
  ASSUME MainType, ThreadType, [Next]_vars
  PROVE  MainType'
<1> USE DEF MainType, mainVars
<1>1. CASE ConnectIntent \/ SecretIntent \/ Cancel
  <2>1. msgs' \in Seq({1, 2, 3, 5})
    BY <1>1 DEF ConnectIntent, SecretIntent, Cancel
  <2>2. dialog' \in BOOLEAN /\ bar' \in BOOLEAN /\ mCurrentCtl' \in BOOLEAN
    BY <1>1, Zenon DEF ConnectIntent, SecretIntent, Cancel, MainRest
  <2> QED
    BY <2>1, <2>2
<1>2. CASE HandleMessage
  <2>1. msgs' \in Seq({1, 2, 3, 5})
    BY <1>2 DEF HandleMessage
  <2>2. dialog' \in BOOLEAN /\ bar' \in BOOLEAN
    BY <1>2 DEF HandleMessage
  <2> QED
    BY <1>2, <2>1, <2>2 DEF HandleMessage, MainRest
<1>3. CASE Accept \/ Refuse
  BY <1>3 DEF Accept, Refuse, MainRest
<1>4. CASE UserExits \/ ReaderSeesEnd \/ SelectFails \/ ReaderStops
             \/ ReaderLeaves \/ Alarm
  BY <1>4 DEF ReaderSeesEnd, SelectFails, ReaderStops, ReaderLeaves,
              UserExits, ReportRest, Alarm, AlarmEnds, AlarmElsewhere,
              AlarmRest, ServeRest
<1>5. CASE Reporting("reader") \/ Reporting("hook")
  <2>1. msgs' \in Seq({1, 2, 3, 5})
    BY <1>5 DEF Reporting, ControlExit, ControlExitSet, ReportRest
  <2>2. dialog' \in BOOLEAN /\ bar' \in BOOLEAN /\ mCurrentCtl' \in BOOLEAN
    BY <1>5, Zenon DEF Reporting, ControlExit, ControlExitSet, ReportRest
  <2> QED
    BY <2>1, <2>2
<1>6. CASE Processor
  <2> USE DEF Processor, TellMeSrvId, TellMePcId, NotifyPcOffline,
              ProcessorStops, ControlSuccess, ControlSuccessSet, ReportRest,
              ServeRest
  <2>1. msgs' \in Seq({1, 2, 3, 5})
    BY <1>6
  <2>2. dialog' \in BOOLEAN /\ bar' \in BOOLEAN /\ mCurrentCtl' \in BOOLEAN
    BY <1>6, Zenon
  <2> QED
    BY <2>1, <2>2
<1>7. CASE Cleanup \/ PeerLeaves
  BY <1>7 DEF Cleanup, CleanupBegins, CleanupEnds, PeerLeaves, ServeRest
<1>8. CASE \E c \in Commands : PeerSends(c)
  BY <1>8 DEF PeerSends, ServeRest
<1>9. CASE \E i \in Decisions : Connector(i)
  BY <1>9 DEF Connector, Copies, GivesUp, Refuses, Connected, SetUp, ConnRest
<1>10. CASE UNCHANGED vars
  BY <1>10 DEF vars
<1> QED
  BY <1>1, <1>2, <1>3, <1>4, <1>5, <1>6, <1>7, <1>8, <1>9, <1>10
     DEF Next, Reader

LEMMA SessionStep ==
  ASSUME ConnType, SessionType, BlockIsLast, [Next]_vars
  PROVE  SessionType'
<1>a. ConnType' /\ Len(conn') \in Nat /\ Len(conn') >= Len(conn)
  BY ConnStep
<1>b. UNCHANGED sessionVars => SessionType'
  BY <1>a DEF SessionType, sessionVars, ConnType
<1>1. CASE ConnectIntent \/ SecretIntent \/ Cancel
  BY <1>1, <1>b DEF ConnectIntent, SecretIntent, Cancel, MainRest
<1>2. CASE HandleMessage \/ Accept \/ Refuse
  BY <1>2, <1>b DEF HandleMessage, Accept, Refuse, MainRest
<1>3. CASE Reporting("reader") \/ Reporting("hook") \/ UserExits
  BY <1>3, <1>b DEF Reporting, ControlExit, ControlExitSet, UserExits,
                    ReportRest
<1>4. CASE ReaderSeesEnd \/ SelectFails \/ ReaderStops \/ ProcessorStops
  BY <1>4, <1>b DEF ReaderSeesEnd, SelectFails, ReaderStops, ProcessorStops
<1>5. CASE ControlSuccess \/ ControlSuccessSet
  BY <1>5, <1>b DEF ControlSuccess, ControlSuccessSet, ReportRest
<1>6. CASE UNCHANGED vars
  BY <1>6, <1>b DEF vars
<1>7. CASE TellMeSrvId \/ TellMePcId \/ NotifyPcOffline
  <2> USE DEF TellMeSrvId, TellMePcId, NotifyPcOffline
  <2>1. stop' \in BOOLEAN /\ alarm' \in BOOLEAN
    BY <1>7, Zenon DEF SessionType
  <2>2. inbox' = Tail(inbox) /\ inbox # << >>
    BY <1>7
  <2> QED
    BY <1>7, <2>1, <2>2 DEF SessionType, ServeRest, connVars
<1>8. CASE ReaderLeaves \/ PeerLeaves
  <2>1. peer' \in BOOLEAN
    BY <1>8, Zenon DEF ReaderLeaves, PeerLeaves, SessionType
  <2> QED
    BY <1>8, <2>1
       DEF ReaderLeaves, CreatesCleanup, PeerLeaves, SessionType, ServeRest,
           connVars
<1>9. CASE CleanupBegins
  <2>1. stop' \in BOOLEAN /\ cleaning' \in BOOLEAN
    BY <1>9, Zenon DEF CleanupBegins
  <2>2. UNCHANGED <<session, peer, inbox, conn, alarm>> /\ sleeping' \in Nat
    BY <1>9 DEF CleanupBegins, SessionType, ServeRest, connVars
  <2> QED
    BY <2>1, <2>2 DEF SessionType
<1>10. CASE CleanupEnds
  <2>1. stop' \in BOOLEAN /\ cleaning' \in BOOLEAN /\ peer' \in BOOLEAN
    BY <1>10, Zenon DEF CleanupEnds
  <2>2. session' = None /\ UNCHANGED <<inbox, sleeping, alarm>>
    BY <1>10 DEF CleanupEnds
  <2> QED
    BY <2>1, <2>2, <1>a DEF SessionType, None
<1>11. CASE \E c \in Commands : PeerSends(c)
  BY <1>11, <1>a DEF PeerSends, SessionType, ServeRest, connVars
<1>12. ASSUME NEW i \in Decisions, Connector(i)
       PROVE  SessionType'
  <2>1. CASE Copies(i) \/ GivesUp(i) \/ Refuses(i)
    BY <2>1, <1>b DEF Copies, GivesUp, Refuses
  <2>2. CASE Connected(i)
    <3>1. stop' \in BOOLEAN
      BY <2>2, Zenon DEF Connected
    <3> QED
      BY <2>2, <3>1, <1>a DEF Connected, SessionType
  <2>3. CASE SetUp(i)
    <3>1. i \in 0 .. Len(conn')
      BY <2>3, <1>a DEF SetUp, Connects, ConnType
    <3>2. stop' \in BOOLEAN /\ peer' \in BOOLEAN
      BY <2>3, Zenon DEF SetUp
    <3> QED
      BY <2>3, <3>1, <3>2 DEF SetUp, SessionType
  <2> QED
    BY <1>12, <2>1, <2>2, <2>3 DEF Connector
<1>13. CASE Alarm
  <2>1. alarm' \in BOOLEAN
    BY <1>13, Zenon DEF Alarm, AlarmEnds, AlarmElsewhere, AlarmComes
  <2> QED
    BY <1>13, <2>1
       DEF Alarm, AlarmEnds, AlarmElsewhere, AlarmComes, CreatesCleanup,
           AlarmRest, SessionType, ServeRest, connVars
<1> QED
  BY <1>1, <1>2, <1>3, <1>4, <1>5, <1>6, <1>7, <1>8, <1>9, <1>10, <1>11,
     <1>12, <1>13 DEF Next, Reader, Processor, Cleanup

(* Each thread goes its own way.                                           *)
LEMMA ThreadStep ==
  ASSUME ThreadType, ThreadsOK, [Next]_vars
  PROVE  ThreadType' /\ ThreadsOK'
<1> DEFINE Places == {"loop", "exit", "exitSet", "success", "successSet",
                      "leave", "gone"}
           AtOK == at' \in [Threads -> Places] /\ ThreadsOK'
           FlagsOK == /\ acked' \in BOOLEAN /\ dismissed' \in BOOLEAN
                      /\ crossed' \in BOOLEAN /\ stale' \in BOOLEAN
<1>a. ASSUME NEW w \in Threads, NEW from \in Places, NEW to \in Places,
             Moves(w, from, to),
             w = "reader" => to \in {"exit", "exitSet", "leave", "gone"},
             w = "processor" => to \in {"loop", "success", "successSet",
                                        "gone"},
             w = "hook" => to \in {"loop", "exit", "exitSet"}
      PROVE  AtOK
  BY <1>a DEF Moves, ThreadType, ThreadsOK, Threads
<1>b. UNCHANGED at => AtOK
  BY DEF ThreadType, ThreadsOK
<1>c. UNCHANGED history => FlagsOK
  BY DEF ThreadType, history
<1> USE DEF Threads
<1>1. CASE ConnectIntent \/ SecretIntent \/ Cancel
  BY <1>1, <1>b, <1>c DEF ConnectIntent, SecretIntent, Cancel, MainRest,
                          ThreadType
<1>2. CASE HandleMessage \/ Accept \/ Refuse
  BY <1>2, <1>b, <1>c DEF HandleMessage, Accept, Refuse, MainRest, ThreadType
<1>3. CASE \E w \in {"reader", "hook"} : ControlExit(w)
  <2>1. AtOK
    BY <1>3, <1>a DEF ControlExit
  <2>2. FlagsOK
    BY <1>3, Zenon DEF ControlExit, Crosses, ThreadType
  <2> QED
    BY <2>1, <2>2 DEF ThreadType
<1>4. CASE \E w \in {"reader", "hook"} : ControlExitSet(w)
  <2>1. AtOK
    BY <1>4, <1>a DEF ControlExitSet
  <2>2. FlagsOK
    BY <1>4, Zenon DEF ControlExitSet, ThreadType
  <2> QED
    BY <2>1, <2>2 DEF ThreadType
<1>5. CASE UserExits
  <2>1. AtOK
    BY <1>5, <1>a DEF UserExits
  <2>2. FlagsOK
    BY <1>5, Zenon DEF UserExits, ThreadType
  <2> QED
    BY <2>1, <2>2 DEF ThreadType
<1>6. CASE ControlSuccess \/ ControlSuccessSet
  <2>1. AtOK
    BY <1>6, <1>a DEF ControlSuccess, ControlSuccessSet
  <2>2. FlagsOK
    BY <1>6, Zenon DEF ControlSuccess, ControlSuccessSet, Crosses, ThreadType
  <2> QED
    BY <2>1, <2>2 DEF ThreadType
<1>7. CASE SelectFails \/ ReaderStops
  <2>1. AtOK
    BY <1>7, <1>a DEF SelectFails, ReaderStops
  <2>2. FlagsOK
    BY <1>7, Zenon DEF SelectFails, ReaderStops, ThreadType
  <2> QED
    BY <2>1, <2>2 DEF ThreadType
<1>8. CASE ReaderSeesEnd \/ ReaderLeaves \/ TellMePcId \/ ProcessorStops
  <2>1. AtOK
    BY <1>8, <1>a DEF ReaderSeesEnd, ReaderLeaves, TellMePcId, ProcessorStops
  <2> QED
    BY <1>8, <2>1, <1>c DEF ReaderSeesEnd, ReaderLeaves, TellMePcId,
                            ProcessorStops, ThreadType
<1>9. CASE \/ TellMeSrvId \/ NotifyPcOffline \/ CleanupBegins \/ CleanupEnds
           \/ PeerLeaves \/ AlarmElsewhere
  BY <1>9, <1>b, <1>c
     DEF TellMeSrvId, NotifyPcOffline, CleanupBegins, CleanupEnds,
         PeerLeaves, AlarmElsewhere, ThreadType
<1>10. CASE \E c \in Commands : PeerSends(c)
  BY <1>10, <1>b, <1>c DEF PeerSends, ThreadType
<1>11. ASSUME NEW i \in Decisions, Connector(i)
       PROVE  ThreadType' /\ ThreadsOK'
  <2>1. CASE Copies(i) \/ GivesUp(i) \/ Refuses(i) \/ Connected(i)
    BY <2>1, <1>b, <1>c DEF Copies, GivesUp, Refuses, Connected, ThreadType
  <2>2. CASE SetUp(i)
    <3>1. AtOK
      BY <2>2 DEF SetUp, ThreadType, ThreadsOK
    <3>2. FlagsOK
      BY <2>2, Zenon DEF SetUp, ThreadType
    <3> QED
      BY <3>1, <3>2 DEF ThreadType
  <2> QED
    BY <1>11, <2>1, <2>2 DEF Connector
<1>12. CASE UNCHANGED vars
  BY <1>12, <1>b, <1>c DEF vars, ThreadType
<1>13. CASE AlarmEnds("reader") \/ AlarmEnds("processor")
  <2>1. AtOK
    BY <1>13 DEF AlarmEnds, ThreadType, ThreadsOK
  <2>2. FlagsOK
    BY <1>13, Zenon DEF AlarmEnds, ThreadType
  <2> QED
    BY <2>1, <2>2 DEF ThreadType
<1> QED
  BY <1>1, <1>2, <1>3, <1>4, <1>5, <1>6, <1>7, <1>8, <1>9, <1>10, <1>11,
     <1>12, <1>13 DEF Next, Reader, Processor, Alarm, Cleanup, Reporting

LEMMA TypeStep ==
  ASSUME TypeOK, BlockIsLast, ThreadsOK, [Next]_vars
  PROVE  TypeOK' /\ ThreadsOK'
BY MainStep, ConnStep, SessionStep, ThreadStep DEF TypeOK

-----------------------------------------------------------------------------
(* Consent *)

LEMMA ConsentInit == Init => ConsentInv
<1> SUFFICES ASSUME Init
             PROVE  ConsentInv
  OBVIOUS
<1>1. /\ conn = << >> /\ Len(conn) = 0 /\ threaddata = 0
      /\ session = None
  BY DEF Init, None
<1> QED
  BY <1>1 DEF ConsentInv, BlockIsLast, CopiesOK, SessionOK

(* The session is the one that a connector has set up last.                *)
LEMMA SessionWriters ==
  ASSUME ConnType, [Next]_vars
  PROVE  \/ session' = None
         \/ session' = session
         \/ \E i \in Decisions : SetUp(i)
<1> DEFINE Goal == session' = None \/ session' = session
<1>1. CASE ConnectIntent \/ SecretIntent \/ Cancel
  BY <1>1 DEF ConnectIntent, SecretIntent, Cancel, MainRest, sessionVars
<1>2. CASE HandleMessage \/ Accept \/ Refuse
  BY <1>2 DEF HandleMessage, Accept, Refuse, MainRest, sessionVars
<1>3. CASE Reader \/ UserExits \/ Reporting("hook")
  BY <1>3 DEF Reader, ReaderSeesEnd, SelectFails, ReaderStops, ReaderLeaves,
              Reporting, ControlExit, ControlExitSet, UserExits, ReportRest,
              sessionVars, ServeRest
<1>4. CASE Processor
  BY <1>4 DEF Processor, TellMeSrvId, TellMePcId, NotifyPcOffline,
              ProcessorStops, ControlSuccess, ControlSuccessSet, ReportRest,
              sessionVars
<1>5. CASE Cleanup \/ PeerLeaves
  BY <1>5 DEF Cleanup, CleanupBegins, CleanupEnds, PeerLeaves
<1>6. CASE \E c \in Commands : PeerSends(c)
  BY <1>6 DEF PeerSends
<1>7. CASE \E i \in Decisions : Connector(i)
  BY <1>7 DEF Connector, Copies, GivesUp, Refuses, Connected, sessionVars
<1>8. CASE Alarm
  BY <1>8 DEF Alarm, AlarmEnds, AlarmElsewhere, AlarmRest
<1>9. CASE UNCHANGED vars
  BY <1>9 DEF vars, sessionVars
<1> QED
  BY <1>1, <1>2, <1>3, <1>4, <1>5, <1>6, <1>7, <1>8, <1>9 DEF Next

LEMMA ConsentStep ==
  ASSUME TypeOK, ConsentInv, [Next]_vars
  PROVE  ConsentInv'
<1> USE DEF ConsentInv
<1>a. ConnType /\ SessionType /\ ConnType' /\ SessionType'
  BY ConnStep, SessionStep DEF TypeOK
<1>1. CASE UNCHANGED connVars
  <2>1. BlockIsLast' /\ CopiesOK'
    BY <1>1 DEF connVars, BlockIsLast, CopiesOK
  <2>2. session' = session \/ session' = None
    <3>1. ASSUME NEW i \in Decisions, SetUp(i)
          PROVE  FALSE
      BY <3>1, <1>1, <1>a DEF SetUp, Connects, connVars, ConnType
    <3> QED
      BY <3>1, <1>a, SessionWriters
  <2> QED
    BY <1>1, <2>1, <2>2 DEF SessionOK, connVars
<1>2. ASSUME NEW answer \in Answers, StartVnc(answer)
      PROVE  ConsentInv'
  <2> DEFINE n == Len(conn)
  <2>1. /\ n \in Nat
        /\ threaddata' = n + 1
        /\ conn' = Append(conn, "created") /\ Len(conn') = n + 1
        /\ pdata' = Append(pdata, None) /\ Len(pdata) = n
        /\ decided' = Append(decided, answer) /\ Len(decided) = n
    BY <1>2, <1>a DEF StartVnc, ConnType
  <2>2. ASSUME NEW i \in 1 .. n
        PROVE  /\ i \in DOMAIN conn
               /\ conn'[i] = conn[i] /\ pdata'[i] = pdata[i]
               /\ decided'[i] = decided[i]
    BY <2>1, <1>a DEF ConnType
  <2>3. CopiesOK'
    <3> SUFFICES ASSUME NEW i \in DOMAIN conn', conn'[i] # "created"
                 PROVE  /\ pdata'[i] >= i
                        /\ conn'[i] = "cleanup" => decided'[pdata'[i]] # "no"
      BY DEF CopiesOK
    <3>1. i \in 1 .. n
      BY <2>1, <1>a DEF ConnType
    <3>2. pdata[i] \in 1 .. n
      BY <3>1, <2>2, <1>a DEF ConnType
    <3> QED
      BY <3>1, <3>2, <2>2 DEF CopiesOK
  <2>4. SessionOK'
    <3>1. ASSUME NEW i \in Decisions, SetUp(i)
          PROVE  FALSE
      BY <3>1, <1>a, <2>1 DEF SetUp, Connects, ConnType
    <3>2. session' = session \/ session' = None
      BY <3>1, <1>a, SessionWriters
    <3> SUFFICES ASSUME session' # None
                 PROVE  /\ conn'[session'] = "done"
                        /\ decided'[pdata'[session']] # "no"
      BY DEF SessionOK
    <3>3. session' = session /\ session \in 1 .. n
      BY <3>2, <2>1, <1>a DEF SessionType, None
    <3>4. conn[session] = "done" /\ decided[pdata[session]] # "no"
      BY <3>3 DEF SessionOK, None
    <3>5. DOMAIN conn = 1 .. n
      BY <1>a DEF ConnType
    <3>6. IF conn[session] = "created" THEN pdata[session] = None
                                       ELSE pdata[session] \in DOMAIN conn
      BY <3>3, <3>5, <1>a DEF ConnType
    <3>7. pdata[session] \in 1 .. n
      BY <3>4, <3>5, <3>6
    <3> QED
      BY <3>3, <3>4, <3>7, <2>2
  <2> QED
    BY <2>1, <2>3, <2>4 DEF BlockIsLast
<1>3. ASSUME NEW i \in Decisions, Connector(i)
      PROVE  ConsentInv'
  <2>1. /\ i \in DOMAIN conn /\ DOMAIN conn' = DOMAIN conn
        /\ Len(conn') = Len(conn)
        /\ UNCHANGED <<threaddata, decided>>
        /\ \A j \in DOMAIN conn : j # i =>
             conn'[j] = conn[j] /\ pdata'[j] = pdata[j]
    BY <1>3, <1>a DEF Connector, Copies, GivesUp, Refuses, Connected, SetUp,
                      Connects, ConnRest, ConnType
  <2>2. conn'[i] # "created" /\ pdata'[i] >= i
    BY <1>3, <1>a, <2>1
       DEF Connector, Copies, GivesUp, Refuses, Connected, SetUp,
           Connects, ConnRest, ConnType, BlockIsLast, CopiesOK
  <2>3. conn'[i] = "cleanup" => decided'[pdata'[i]] # "no"
    BY <1>3, <1>a, <2>1
       DEF Connector, Copies, GivesUp, Refuses, Connected, SetUp,
           Connects, ConnRest, ConnType
  <2>4. CopiesOK'
    BY <2>1, <2>2, <2>3 DEF CopiesOK
  <2>5. CASE SetUp(i)
    <3>1. /\ session' = i /\ conn'[i] = "done" /\ pdata' = pdata
          /\ decided[pdata[i]] # "no"
      BY <2>5, <2>1, <1>a DEF SetUp, Connects, ConnRest, ConnType, CopiesOK
    <3> QED
      BY <3>1, <2>1, <2>4 DEF SessionOK, BlockIsLast
  <2>6. CASE session' = None
    BY <2>6, <2>1, <2>4 DEF SessionOK, BlockIsLast
  <2>7. CASE /\ session' = session
             /\ Copies(i) \/ GivesUp(i) \/ Refuses(i) \/ Connected(i)
    <3>1. conn[i] \in {"created", "connecting"}
      BY <2>7 DEF Copies, GivesUp, Refuses, Connected, Connects
    <3>2. session # None => session # i
      BY <3>1 DEF SessionOK
    <3>3. session # None => session \in DOMAIN conn
      BY <1>a DEF SessionType, ConnType, None
    <3> QED
      BY <2>7, <3>2, <3>3, <2>1, <2>4 DEF SessionOK, BlockIsLast
  <2>8. session' = session \/ SetUp(i)
    BY <1>3 DEF Connector, Copies, GivesUp, Refuses, Connected, sessionVars
  <2> QED
    BY <1>3, <2>5, <2>7, <2>8 DEF Connector
<1> QED
  BY <1>1, <1>2, <1>3, ConnWriters DEF Decide

-----------------------------------------------------------------------------
(* The status and the reports *)

Ctl == <<mCurrentCtl, acked, dismissed, crossed, stale>>

(* What a step does with the threads and the status, when it reports       *)
(* nothing itself.                                                         *)
Quietly ==
  \/ UNCHANGED <<at, Ctl, session>>
  \/ /\ UNCHANGED <<at, Ctl>>
     /\ session' = None /\ MembersGone
  \/ /\ \E i \in Decisions : session' = i
     /\ MembersGone
     /\ at' = [at EXCEPT !["reader"] = "loop", !["processor"] = "loop"]
     /\ acked' = FALSE
     /\ dismissed' = (at["hook"] # "loop")
     /\ UNCHANGED <<mCurrentCtl, crossed, stale>>
  \/ /\ \/ Moves("reader", "loop", "exit")
        \/ Moves("reader", "leave", "gone")
        \/ Moves("processor", "loop", "success")
        \/ Moves("processor", "loop", "gone")
     /\ UNCHANGED <<Ctl, session>>
  \/ /\ Moves("reader", "loop", "leave")
     /\ stale' = TRUE
     /\ UNCHANGED <<mCurrentCtl, acked, dismissed, crossed, session>>
  \/ \E w \in {"reader", "processor"} :
       /\ at[w] # "gone"
       /\ at' = [at EXCEPT ![w] = "gone"]
       /\ crossed' = (crossed \/ HalfMade(w))
       /\ stale' = (stale \/ (w = "reader" /\ at[w] # "leave"))
       /\ UNCHANGED <<mCurrentCtl, acked, dismissed, session>>
  \/ /\ Moves("hook", "loop", "exit")
     /\ dismissed' = TRUE
     /\ UNCHANGED <<mCurrentCtl, acked, crossed, stale, session>>

Reports ==
  ControlSuccess \/ ControlSuccessSet
    \/ \E w \in {"reader", "hook"} : ControlExit(w) \/ ControlExitSet(w)

LEMMA StatusWriters == [Next]_vars => Reports \/ Quietly
<1> SUFFICES ASSUME [Next]_vars
             PROVE  Reports \/ Quietly
  OBVIOUS
<1>a. UNCHANGED <<at, mCurrentCtl, history, session>> => Quietly
  BY DEF Quietly, Ctl, history
<1>1. CASE ConnectIntent \/ SecretIntent \/ Cancel
  BY <1>1, <1>a DEF ConnectIntent, SecretIntent, Cancel, MainRest,
                    sessionVars
<1>2. CASE HandleMessage \/ Accept \/ Refuse
  BY <1>2, <1>a DEF HandleMessage, Accept, Refuse, MainRest, sessionVars
<1>3. CASE ReaderSeesEnd \/ ReaderLeaves \/ TellMePcId \/ ProcessorStops
  BY <1>3 DEF ReaderSeesEnd, ReaderLeaves, TellMePcId, ProcessorStops,
              Quietly, ServeRest, sessionVars, Ctl, history
<1>4. CASE SelectFails \/ ReaderStops
  BY <1>4 DEF SelectFails, ReaderStops, Quietly, ServeRest, sessionVars
<1>5. CASE UserExits
  BY <1>5 DEF UserExits, Quietly, ReportRest, sessionVars
<1>6. CASE \/ TellMeSrvId \/ NotifyPcOffline \/ PeerLeaves \/ CleanupBegins
           \/ AlarmElsewhere
  BY <1>6, <1>a DEF TellMeSrvId, NotifyPcOffline, PeerLeaves, CleanupBegins,
                    AlarmElsewhere, AlarmRest, ServeRest
<1>7. CASE CleanupEnds
  BY <1>7 DEF CleanupEnds, Quietly, ServeRest, Ctl, history
<1>8. CASE \E c \in Commands : PeerSends(c)
  BY <1>8, <1>a DEF PeerSends, ServeRest
<1>9. ASSUME NEW i \in Decisions, Connector(i)
      PROVE  Quietly
  <2>1. CASE Copies(i) \/ GivesUp(i) \/ Refuses(i) \/ Connected(i)
    BY <2>1, <1>a DEF Copies, GivesUp, Refuses, Connected, ConnRest,
                      sessionVars
  <2>2. CASE SetUp(i)
    BY <2>2 DEF SetUp, Quietly, ConnRest
  <2> QED
    BY <1>9, <2>1, <2>2 DEF Connector
<1>10. CASE UNCHANGED vars
  BY <1>10, <1>a DEF vars, sessionVars
<1>11. CASE AlarmEnds("reader") \/ AlarmEnds("processor")
  BY <1>11 DEF AlarmEnds, AlarmRest, ServeRest, Quietly, HalfMade
<1> QED
  BY <1>1, <1>2, <1>3, <1>4, <1>5, <1>6, <1>7, <1>8, <1>9, <1>10, <1>11
     DEF Next, Reader, Processor, Alarm, Cleanup, Reporting, Reports

LEMMA HolderStep ==
  ASSUME ThreadType, ThreadsOK, NobodyLeft, StatusHasReader, StatusOfAcked,
         OneHalfMade, [Next]_vars
  PROVE  NobodyLeft' /\ StatusHasReader' /\ StatusOfAcked' /\ OneHalfMade'
<1> USE DEF ThreadType, Threads, NobodyLeft, MembersGone
<1>1. CASE Quietly
  <2>1. NobodyLeft'
    BY <1>1 DEF Quietly, Moves, Decisions, None
  <2>2. StatusHasReader'
    BY <1>1 DEF Quietly, Moves, Ctl, StatusHasReader
  <2>3. StatusOfAcked'
    BY <1>1 DEF Quietly, Moves, Ctl, StatusOfAcked
  <2>4. OneHalfMade'
    BY <1>1 DEF Quietly, Moves, Ctl, OneHalfMade, HalfMade
  <2> QED
    BY <2>1, <2>2, <2>3, <2>4
<1>2. ASSUME NEW w \in {"reader", "hook"}, ControlExit(w)
      PROVE  NobodyLeft' /\ StatusHasReader' /\ StatusOfAcked' /\ OneHalfMade'
  <2>1. /\ Moves(w, "exit", "exitSet")
        /\ UNCHANGED <<session, mCurrentCtl, acked, dismissed, stale>>
    BY <1>2 DEF ControlExit, ReportRest, sessionVars
  <2>2. OneHalfMade'
    BY <1>2 DEF ControlExit, Crosses, OneHalfMade, HalfMade
  <2> QED
    BY <2>1, <2>2 DEF Moves, StatusHasReader, StatusOfAcked
<1>3. CASE ControlSuccess
  <2>1. /\ Moves("processor", "success", "successSet")
        /\ UNCHANGED <<session, mCurrentCtl, acked, dismissed, stale>>
    BY <1>3 DEF ControlSuccess, ReportRest, sessionVars
  <2>2. OneHalfMade'
    BY <1>3 DEF ControlSuccess, Crosses, OneHalfMade, HalfMade
  <2> QED
    BY <2>1, <2>2 DEF Moves, StatusHasReader, StatusOfAcked
<1>4. CASE ControlSuccessSet
  <2>1. /\ Moves("processor", "successSet", "loop")
        /\ mCurrentCtl'
        /\ stale' = (stale \/ at["reader"] # "loop")
        /\ UNCHANGED <<session, dismissed, crossed>>
    BY <1>4 DEF ControlSuccessSet, ReportRest, sessionVars
  <2> QED
    BY <2>1 DEF Moves, StatusHasReader, StatusOfAcked, OneHalfMade, HalfMade
<1>5. ASSUME NEW w \in {"reader", "hook"}, ControlExitSet(w)
      PROVE  NobodyLeft' /\ StatusHasReader' /\ StatusOfAcked' /\ OneHalfMade'
  <2>1. /\ Moves(w, "exitSet", IF w = "reader" THEN "leave" ELSE "loop")
        /\ ~mCurrentCtl'
        /\ UNCHANGED <<session, acked, dismissed, crossed>>
    BY <1>5 DEF ControlExitSet, ReportRest, sessionVars
  <2> QED
    BY <2>1 DEF Moves, StatusHasReader, StatusOfAcked, OneHalfMade, HalfMade
<1> QED
  BY <1>1, <1>2, <1>3, <1>4, <1>5, StatusWriters DEF Reports

LEMMA BarStep ==
  ASSUME TypeOK, ThreadsOK, OneHalfMade, OneHalfMade', BarToCome,
         [Next]_vars, ~crossed'
  PROVE  WillBe(msgs', bar', StatusToBe')
<1> USE DEF Threads
<1>a. /\ msgs \in Seq({1, 2, 3, 5}) /\ bar \in BOOLEAN
      /\ at \in [Threads -> {"loop", "exit", "exitSet", "success",
                             "successSet", "leave", "gone"}]
  BY DEF TypeOK, MainType, ThreadType
<1>b. StatusToBe \in BOOLEAN
  BY DEF StatusToBe
<1>1. ASSUME NEW w \in {"reader", "hook"}, ControlExit(w)
      PROVE  WillBe(msgs', bar', StatusToBe')
  <2>1. msgs' = Append(msgs, 2) /\ bar' = bar /\ at'[w] = "exitSet"
    BY <1>1, <1>a DEF ControlExit, Moves, ReportRest
  <2>2. 2 # 1
    OBVIOUS
  <2>3. StatusToBe' = (2 = 1)
    BY <2>1, <2>2, Zenon DEF StatusToBe
  <2> QED
    BY <2>1, <2>3, <1>a, WillBeAfterReport
<1>2. CASE ControlSuccess
  <2>1. /\ msgs' = Append(msgs, 1) /\ bar' = bar
        /\ at'["processor"] = "successSet"
    BY <1>2, <1>a DEF ControlSuccess, Moves, ReportRest
  <2>2. StatusToBe' = (1 = 1)
    BY <2>1 DEF StatusToBe, OneHalfMade, HalfMade
  <2> QED
    BY <2>1, <2>2, <1>a, WillBeAfterReport
<1>3. ASSUME NEW w \in {"reader", "hook"}, ControlExitSet(w)
      PROVE  WillBe(msgs', bar', StatusToBe')
  <2>1. /\ UNCHANGED <<msgs, bar, crossed>>
        /\ at[w] = "exitSet"
        /\ ~mCurrentCtl'
        /\ at' = [at EXCEPT ![w] = IF w = "reader" THEN "leave" ELSE "loop"]
    BY <1>3 DEF ControlExitSet, Moves, ReportRest
  <2>2. ~StatusToBe
    BY <2>1 DEF StatusToBe
  <2>3. ~StatusToBe'
    BY <2>1, <1>a DEF StatusToBe, OneHalfMade, HalfMade
  <2> QED
    BY <2>1, <2>2, <2>3 DEF BarToCome, WillBe
<1>4. CASE ControlSuccessSet
  <2>1. /\ UNCHANGED <<msgs, bar, crossed>>
        /\ at["processor"] = "successSet"
        /\ mCurrentCtl'
        /\ at' = [at EXCEPT !["processor"] = "loop"]
    BY <1>4 DEF ControlSuccessSet, Moves, ReportRest
  <2>2. StatusToBe
    BY <2>1 DEF StatusToBe, OneHalfMade, HalfMade
  <2>3. StatusToBe'
    BY <2>1, <1>a DEF StatusToBe, OneHalfMade, HalfMade
  <2> QED
    BY <2>1, <2>2, <2>3 DEF BarToCome, WillBe
<1>5. CASE Quietly
  <2>1. /\ ~crossed /\ UNCHANGED mCurrentCtl
        /\ \A w \in Threads :
             /\ at'[w] = "exitSet" <=> at[w] = "exitSet"
             /\ at'[w] = "successSet" <=> at[w] = "successSet"
    <3>1. ~crossed
      BY <1>5, Zenon DEF Quietly, Ctl
    <3>2. CASE \E w \in {"reader", "processor"} :
                 /\ at' = [at EXCEPT ![w] = "gone"]
                 /\ crossed' = (crossed \/ HalfMade(w))
                 /\ mCurrentCtl' = mCurrentCtl
      <4>1. PICK w \in {"reader", "processor"} :
                   /\ at' = [at EXCEPT ![w] = "gone"] /\ ~HalfMade(w)
                   /\ mCurrentCtl' = mCurrentCtl
        BY <3>2, Zenon
      <4> QED
        BY <4>1, <3>1, <1>a DEF HalfMade
    <3> QED
      BY <1>5, <1>a, <3>1, <3>2 DEF Quietly, Moves, Ctl, MembersGone
  <2>2. (StatusToBe' <=> StatusToBe) /\ WillBe(msgs, bar, StatusToBe)
    BY <2>1 DEF StatusToBe, BarToCome
  <2>3. UNCHANGED <<msgs, bar>> => WillBe(msgs', bar', StatusToBe')
    BY <2>2 DEF WillBe
  <2>4. CASE ConnectIntent \/ SecretIntent
    <3>1. PICK e \in {3, 5} : msgs' = Append(msgs, e) /\ bar' = bar
      BY <2>4 DEF ConnectIntent, SecretIntent
    <3>2. WillBe(msgs', bar', StatusToBe)
      BY <3>1, <2>2, <1>a, <1>b, WillBeAfterRequest
    <3> QED
      BY <3>2, <2>2 DEF WillBe
  <2>5. CASE HandleMessage
    <3>1. /\ msgs # << >> /\ msgs' = Tail(msgs)
          /\ Head(msgs) \in {1, 2, 3, 5}
      BY <2>5, <1>a DEF HandleMessage
    <3>4. bar' = IF Head(msgs) \in {1, 2} THEN Head(msgs) = 1 ELSE bar
      <4>1. 1 # 2 /\ 3 # 1 /\ 3 # 2 /\ 5 # 1 /\ 5 # 2
        OBVIOUS
      <4>2. \/ Head(msgs) = 1 /\ bar' = TRUE
            \/ Head(msgs) = 2 /\ bar' = FALSE
            \/ Head(msgs) \in {3, 5} /\ bar' = bar
        BY <2>5, Zenon DEF HandleMessage
      <4> QED
        BY <4>1, <4>2, Zenon
    <3>2. bar' \in BOOLEAN
      BY MainStep DEF TypeOK, MainType
    <3>3. WillBe(msgs', bar', StatusToBe)
      BY <3>1, <3>2, <3>4, <2>2, <1>a, <1>b, WillBeAfterHandling
    <3> QED
      BY <3>3, <2>2 DEF WillBe
  <2>6. CASE Cancel \/ Accept \/ Refuse
    BY <2>6, <2>3 DEF Cancel, Accept, Refuse
  <2>7. CASE \/ ReaderSeesEnd \/ SelectFails \/ ReaderStops \/ ReaderLeaves
             \/ TellMeSrvId \/ TellMePcId \/ NotifyPcOffline
             \/ ProcessorStops \/ Alarm \/ Cleanup \/ PeerLeaves
    BY <2>7, <2>3
       DEF ReaderSeesEnd, SelectFails, ReaderStops, ReaderLeaves,
           TellMeSrvId, TellMePcId, NotifyPcOffline, ProcessorStops, Alarm,
           AlarmEnds, AlarmElsewhere, AlarmRest, Cleanup, CleanupBegins,
           CleanupEnds, PeerLeaves, ServeRest, mainVars
  <2>8. CASE UserExits
    BY <2>8, <2>3 DEF UserExits, ReportRest
  <2>9. CASE \E c \in Commands : PeerSends(c)
    BY <2>9, <2>3 DEF PeerSends, ServeRest, mainVars
  <2>10. CASE \E i \in Decisions : Connector(i)
    BY <2>10, <2>3 DEF Connector, Copies, GivesUp, Refuses, Connected, SetUp,
                       ConnRest, mainVars
  <2>11. CASE UNCHANGED vars
    BY <2>11, <2>3 DEF vars, mainVars
  <2> QED
    BY <1>1, <1>2, <1>3, <1>4, <2>4, <2>5, <2>6, <2>7, <2>8, <2>9, <2>10,
       <2>11 DEF Next, Reader, Processor, Reporting
<1> QED
  BY <1>1, <1>2, <1>3, <1>4, <1>5, StatusWriters DEF Reports

-----------------------------------------------------------------------------
LEMMA StatusInit == Init => StatusInv
<1> SUFFICES ASSUME Init
             PROVE  StatusInv
  OBVIOUS
<1>1. /\ at["reader"] = "gone" /\ at["processor"] = "gone"
      /\ at["hook"] = "loop"
      /\ ~mCurrentCtl /\ ~bar /\ ~dismissed
      /\ msgs = << >>
  BY Zenon DEF Init, Threads
<1>2. \A w \in Threads : at[w] \in {"gone", "loop"}
  BY <1>1 DEF Threads
<1>3. BarToCome
  BY <1>1, <1>2 DEF BarToCome, WillBe, StatusToBe
<1> QED
  BY <1>1, <1>2, <1>3 DEF StatusInv, ThreadsOK, NobodyLeft, MembersGone,
     StatusHasReader, StatusOfAcked, OneHalfMade, HalfMade

LEMMA Inductive ==
  /\ Init => IInv
  /\ IInv /\ [Next]_vars => IInv'
<1>1. Init => IInv
  BY TypeInit, ConsentInit, StatusInit DEF IInv
<1>2. ASSUME IInv, [Next]_vars
      PROVE  IInv'
  <2>1. TypeOK' /\ ThreadsOK'
    BY <1>2, TypeStep DEF IInv, ConsentInv, StatusInv
  <2>2. ConsentInv'
    BY <1>2, ConsentStep DEF IInv
  <2>3. NobodyLeft' /\ StatusHasReader' /\ StatusOfAcked' /\ OneHalfMade'
    BY <1>2, HolderStep DEF IInv, StatusInv, TypeOK
  <2>4. BarToCome'
    BY <1>2, <2>3, BarStep DEF IInv, StatusInv, BarToCome
  <2> QED
    BY <2>1, <2>2, <2>3, <2>4 DEF IInv, StatusInv
<1> QED
  BY <1>1, <1>2

(* The types, whatever the bounds: every copied decision is one that was   *)
(* taken and the Handler's messages are those it knows.                    *)
THEOREM TypeCorrect == Spec => []TypeOK
<1>1. IInv => TypeOK
  BY DEF IInv
<1> QED
  BY <1>1, Inductive, PTL DEF Spec

(* startVnc's static block never lets a connector start a session that was *)
(* refused: a yes or a secret request that came no earlier is behind it.   *)
THEOREM Granted == Spec => []SessionGranted
<1>1. IInv => SessionGranted
  <2> SUFFICES ASSUME IInv, session # None
               PROVE  /\ pdata[session] >= session
                      /\ decided[pdata[session]] \in {"yes", "secret"}
    BY DEF SessionGranted
  <2>1. conn[session] = "done" /\ decided[pdata[session]] # "no"
    BY DEF IInv, ConsentInv, SessionOK
  <2>2. session \in DOMAIN conn
    BY DEF IInv, TypeOK, SessionType, ConnType, None
  <2>3. pdata[session] \in DOMAIN decided
    BY <2>1, <2>2 DEF IInv, TypeOK, ConnType
  <2>4. decided[pdata[session]] \in {"yes", "no", "secret"}
    BY <2>3 DEF IInv, TypeOK, ConnType
  <2> QED
    BY <2>1, <2>2, <2>4 DEF IInv, ConsentInv, CopiesOK
<1> QED
  BY <1>1, Inductive, PTL DEF Spec

LEMMA RestIsSettled == IInv => BarFollowsStatus
<1> SUFFICES ASSUME IInv, AtRest, ~crossed
             PROVE  bar = mCurrentCtl
  BY DEF BarFollowsStatus
<1>1. bar \in BOOLEAN /\ mCurrentCtl \in BOOLEAN
  BY DEF IInv, TypeOK, MainType
<1>2. StatusToBe <=> mCurrentCtl
  BY DEF AtRest, StatusToBe, Threads
<1>3. \A n \in 1 .. Len(msgs) : msgs[n] \notin {1, 2}
  BY DEF AtRest, Contains
<1>4. StatusToBe <=> bar
  BY <1>3 DEF IInv, StatusInv, BarToCome, WillBe
<1> QED
  BY <1>1, <1>2, <1>4

(* The order of the reports keeps the bar to the status.                   *)
THEOREM BarFollows == Spec => []BarFollowsStatus
BY RestIsSettled, Inductive, PTL DEF Spec

(* Control is seen for as long as it lasts.                                *)
THEOREM SeenWhenInControl == Spec => []ControlIsSeen
<1>1. IInv => ControlIsSeen
  <2> SUFFICES ASSUME IInv, AtRest, ~crossed, acked, ~dismissed,
                      at["reader"] = "loop"
               PROVE  bar /\ mCurrentCtl
    BY DEF ControlIsSeen
  <2>1. mCurrentCtl
    BY DEF IInv, StatusInv, StatusOfAcked
  <2>2. bar = mCurrentCtl
    BY RestIsSettled DEF BarFollowsStatus
  <2> QED
    BY <2>1, <2>2
<1> QED
  BY <1>1, Inductive, PTL DEF Spec

(* The end of the session lets the next request in.                        *)
THEOREM StatusFreed == Spec => []StatusIsFree
<1>1. IInv => StatusIsFree
  BY DEF IInv, StatusInv, StatusIsFree, NobodyLeft, MembersGone,
         StatusHasReader
<1> QED
  BY <1>1, Inductive, PTL DEF Spec
=============================================================================
