-------------------------- MODULE VncSession_proofs --------------------------
(***************************************************************************)
(* For any number of sessions: until two outsiders have been inside at     *)
(* once, nothing freed or null is used, a living session is whole, it is   *)
(* torn down by what is its own or by a connector, and the sessions take   *)
(* turns as SessionTurns says.                                             *)
(***************************************************************************)
EXTENDS VncSession, TLAPS

-----------------------------------------------------------------------------
(* The inductive invariant *)

SetUpStates == {"cmdin", "cmdout", "threads"} \cup Roles

(* Where a connector, its cleanup, a reader, its cleanup_thread and the    *)
(* alarm handler are fits together, whatever else has happened.            *)
ConnectorOK(s) ==
  /\ cpc[s] \in {"none", "notify", "sendPackage"}
       => clean[<<"connector", s>>] = <<"idle", "threads">>
  /\ cpc[s] = "socket"
       => clean[<<"connector", s>>][1] \notin {"idle", "sleep"}
  /\ cpc[s] \in SetUpStates \cup {"done"}
       => clean[<<"connector", s>>][1] = "done"

NotYet(r) ==
  {"none", "notify", "sendPackage"} \cup Objects
    \cup IF r = "reader" THEN {"reader"} ELSE
         IF r = "writer" THEN {"reader", "writer"} ELSE Roles

ReaderOK(s) ==
  /\ \A r \in Roles : cpc[s] \in NotYet(r) => pc[<<r, s>>] = "none"
  /\ clean[<<"reader", s>>] # <<"idle", "threads">>
       => pc[<<"reader", s>>] \in {"exit", "gone"}

HandlerOK ==
  /\ handler = Idle \/ handler.at # "idle"
  /\ handler.at \in {"look", "add", "spawn"} =>
       /\ handler.for \in Sessions
       /\ clean[<<"alarm", handler.for>>] = <<"idle", "threads">>
  /\ handler.at # "idle" /\ handler.in # Outsider
       => pc[handler.in] \in {"top", "check"}

Fits ==
  /\ \A s \in Sessions : ConnectorOK(s) /\ ReaderOK(s)
  /\ \A t \in Threads : pc[t] = "spawn" => t[1] = "reader"
  /\ \A k \in Cleaners : clean[k][1] \in {"stopAll", "delete", "null"}
                            => del[k] # NoSession
  /\ HandlerOK

Alone == \A x, y \in Inside : x = y

(* The rest holds until two outsiders have been inside at once.            *)
CleansNow(k) == clean[k][1] \in {"look", "stopAll", "delete", "null"}

SetsUp(s) ==
  cpc[s] \in Objects /\ clean[<<"connector", s>>][1] = "done"

Current(s) == \A o \in Objects : ptr[o] = s /\ s \notin freed[o]

Whole == ptr = Nothing \/ \E s \in Sessions : Current(s)

(* What cleanup has done when it is at an object, and the connector.       *)
Deleted(o) ==
  IF o = "threads" THEN {} ELSE
  IF o = "cmdin" THEN {"threads"} ELSE
  IF o = "cmdout" THEN {"threads", "cmdin"} ELSE {"threads", "cmdin", "cmdout"}

Made(o) ==
  IF o = "socket" THEN {} ELSE
  IF o = "cmdin" THEN {"socket"} ELSE
  IF o = "cmdout" THEN {"socket", "cmdin"} ELSE {"socket", "cmdin", "cmdout"}

(* From object o on everything is session s's and not freed, but for o     *)
(* itself when it has been deleted and is not yet null.                    *)
LeftOf(k, a, o, s) ==
  /\ \A p \in Objects \ Deleted(o) : ptr[p] = s
  /\ \A p \in Objects \ Deleted(o) : p # o => s \notin freed[p]
  /\ s \in freed[o] <=> a = "null"
  /\ a # "look" => del[k] = s

CleanShape(k, a, o) ==
  /\ \A p \in Deleted(o) : ptr[p] = NoSession
  /\ \/ a = "look" /\ ptr = Nothing
     \/ \E s \in Sessions : LeftOf(k, a, o, s)
  /\ a = "stopAll" => o = "threads"

SetUpShape(s) ==
  \A p \in Objects : ptr[p] = IF p \in Made(cpc[s]) THEN s ELSE NoSession

Orderly ==
  /\ (\A k \in Cleaners : ~CleansNow(k)) /\ (\A s \in Sessions : ~SetsUp(s))
       => Whole
  /\ \A k \in Cleaners :
       CleansNow(k) => CleanShape(k, clean[k][1], clean[k][2])
  /\ \A s \in Sessions : SetsUp(s) => SetUpShape(s)
  /\ \A s \in Sessions : cpc[s] \in Roles => Current(s)

Kept ==
  /\ \A o \in Objects : \A s \in freed[o] : cpc[s] = "done"
  /\ \A o \in Objects : ptr[o] # NoSession
                          => cpc[ptr[o]] \in SetUpStates \cup {"done"}
  /\ \A s \in Sessions : cpc[s] = "sendPackage"
                           => notice[s] \in {NoSession, ptr["cmdout"]}

(* A session's threads and the handler.                                    *)
ThreadOK(t) ==
  /\ Alive(t) => t \in list[t[2]] /\ Current(t[2])
  /\ inCall[t] \in {t[2], NoSession}
  /\ pc[t] = "get" => inCall[t] = t[2] /\ t[1] \in {"writer", "processor"}
  /\ t[1] = "reader" /\ pc[t] \notin {"none", "created", "gone"}
       => bufreader[t[2]] = t[2]

HandlerSees == handler.at = "add" => handler.q = ptr["cmdout"]

Sound ==
  /\ ~misuse /\ Alone /\ Orderly /\ Kept
  /\ \A t \in Threads : ThreadOK(t)
  /\ HandlerSees

IInv == TypeOK /\ Fits /\ (~overlap => Sound)

USE SessionAssumption DEF Roles, Objects

-----------------------------------------------------------------------------
(* Pairs, and the initial states *)

LEMMA ThreadPair ==
  ASSUME NEW t \in Threads
  PROVE  t[1] \in Roles /\ t[2] \in Sessions /\ t = <<t[1], t[2]>>
  BY DEF Threads

LEMMA CleanerPair ==
  ASSUME NEW k \in Cleaners
  PROVE  /\ k[1] \in {"connector", "reader", "alarm"} /\ k[2] \in Sessions
         /\ k = <<k[1], k[2]>>
  BY DEF Cleaners

LEMMA IsThread ==
  ASSUME NEW r \in Roles, NEW s \in Sessions
  PROVE  /\ <<r, s>> \in Threads /\ <<r, s>>[1] = r /\ <<r, s>>[2] = s
         /\ <<r, s>> # Outsider
  BY DEF Threads, Members

LEMMA IsCleaner ==
  ASSUME NEW c \in {"connector", "reader", "alarm"}, NEW s \in Sessions
  PROVE  <<c, s>> \in Cleaners /\ <<c, s>>[1] = c /\ <<c, s>>[2] = s
  BY DEF Cleaners

CleanStates == {"idle", "sleep", "look", "stopAll", "delete", "null", "done"}

PcStates == {"none", "created", "register", "top", "beat", "get", "send",
             "command", "add", "addSrv", "check", "spawn", "exit", "gone"}

CpcStates == {"none", "notify", "sendPackage", "done"} \cup Objects \cup Roles

Handlers == [at : {"idle", "look", "add", "spawn", "exit"},
             in : Threads \cup {Outsider}, for : Pointers, q : Pointers]

(* TypeOK without its Boolean variables.                                   *)
Types ==
  /\ ptr \in [Objects -> Pointers]
  /\ freed \in [Objects -> SUBSET Sessions]
  /\ list \in [Sessions -> SUBSET Members]
  /\ frozen \subseteq Sessions
  /\ flag \in [Roles -> {0, 1}]
  /\ peer \subseteq Sessions
  /\ pc \in [Threads -> PcStates]
  /\ inCall \in [Threads -> Pointers]
  /\ bufreader \in [Sessions -> Pointers]
  /\ cpc \in [Sessions -> CpcStates]
  /\ notice \in [Sessions -> Pointers]
  /\ clean \in [Cleaners -> CleanStates \X Objects]
  /\ del \in [Cleaners -> Pointers]
  /\ alarm \in Pointers
  /\ handler \in Handlers
  /\ early \subseteq Sessions

LEMMA TypeParts ==
  TypeOK <=> /\ Types
             /\ is_rev_pcid \in BOOLEAN /\ misuse \in BOOLEAN
             /\ overlap \in BOOLEAN
  BY Zenon DEF TypeOK, Types, PcStates, CpcStates, CleanStates, Handlers

LEMMA InitIInv == Init => IInv
<1> SUFFICES ASSUME Init
             PROVE  IInv
  OBVIOUS
<1>1. ~misuse /\ ~overlap /\ ~is_rev_pcid
  BY Zenon DEF Init
<1>2. is_rev_pcid \in BOOLEAN /\ misuse \in BOOLEAN /\ overlap \in BOOLEAN
  BY Zenon DEF Init
<1>3. /\ ptr = Nothing /\ freed = [o \in Objects |-> {}]
      /\ list = [s \in Sessions |-> {}] /\ frozen = {}
      /\ flag = [r \in Roles |-> 0] /\ peer = {}
      /\ pc = [t \in Threads |-> "none"]
      /\ inCall = [t \in Threads |-> NoSession]
      /\ bufreader = [s \in Sessions |-> NoSession]
      /\ cpc = [s \in Sessions |-> "none"]
      /\ notice = [s \in Sessions |-> NoSession]
      /\ clean = [k \in Cleaners |-> <<"idle", "threads">>]
      /\ del = [k \in Cleaners |-> NoSession]
      /\ alarm = NoSession /\ handler = Idle /\ early = {}
  BY Zenon DEF Init
<1>4. Types
  <2>1. handler \in Handlers
    BY <1>3 DEF Handlers, Idle, Pointers
  <2>2. clean \in [Cleaners -> CleanStates \X Objects]
    BY <1>3 DEF CleanStates
  <2>3. /\ ptr \in [Objects -> Pointers]
        /\ freed \in [Objects -> SUBSET Sessions]
        /\ list \in [Sessions -> SUBSET Members]
    BY <1>3 DEF Nothing, Pointers
  <2> QED
    BY <1>3, <2>1, <2>2, <2>3 DEF Types, PcStates, CpcStates, Pointers
<1>5. Fits
  <2>1. \A s \in Sessions : ConnectorOK(s) /\ ReaderOK(s)
    BY <1>3, IsCleaner, IsThread DEF ConnectorOK, ReaderOK, SetUpStates
  <2>2. \A t \in Threads : pc[t] # "spawn"
    BY <1>3
  <2>3. HandlerOK
    BY <1>3 DEF HandlerOK, Idle
  <2>4. \A k \in Cleaners : clean[k][1] = "idle"
    BY <1>3
  <2> QED
    BY <2>1, <2>2, <2>3, <2>4 DEF Fits
<1>6. Alone
  BY <1>3, CleanerPair DEF Alone, Inside
<1>7. Orderly /\ Kept
  BY <1>3, IsCleaner DEF Orderly, Kept, CleansNow, SetsUp, Whole, Nothing
<1>8. (\A t \in Threads : ThreadOK(t)) /\ HandlerSees
  BY <1>3 DEF ThreadOK, Alive, HandlerSees, Idle
<1> QED
  BY <1>1, <1>2, <1>4, <1>5, <1>6, <1>7, <1>8, TypeParts, Zenon
     DEF IInv, Sound

-----------------------------------------------------------------------------
(* What steps do.  The processor of a session, its reader and its writer.  *)

Serving == {"created", "register", "top", "beat", "get", "send", "command",
            "add", "addSrv", "check", "spawn", "exit"}

ThreadMoves(t) ==
  \E to \in PcStates \ {"none", "created"} :
    /\ pc' = [pc EXCEPT ![t] = to]
    /\ pc[t] \in Serving
    /\ to = "spawn" => t[1] = "reader"
    /\ to = "get" => t[1] \in {"writer", "processor"}
    /\ t[1] = "reader" /\ pc[t] = "spawn" => to = "exit"
    /\ to = "gone" => pc[t] = "exit"
    /\ pc[t] = "exit" => to = "gone"

(* The steps of the threads, but for sendPackage with its parameters.      *)
Plain(t) ==
  \/ Start(t) \/ Registered(t) \/ ReadTurn(t) \/ ReadFails(t)
  \/ GetPackage(t) \/ GotNothing(t) \/ GotPackage(t)
  \/ Writes(t) \/ WriteFails(t)
  \/ NoReply(t) \/ TellMePcId(t) \/ StopVncSession(t) \/ StartsWorker(t)
  \/ SrvIdSent(t) \/ Sent(t)
  \/ SeesStop(t) \/ LoopAgain(t) \/ Spawn(t) \/ ExitThread(t)

SendStep(t) ==
  \/ t[1] = "processor" /\ SendPackage(t, "created", "register")
  \/ SendPackage(t, "beat", "add")
  \/ SendPackage(t, "command", "add")
  \/ SendPackage(t, "command", "addSrv")

LEMMA ServesCases ==
  ASSUME NEW t \in Threads, Serves(t)
  PROVE  Free(t) /\ (Plain(t) \/ SendStep(t))
  BY Zenon DEF Serves, Steps, Plain, SendStep

LEMMA ThreadMove ==
  ASSUME Types, Fits, NEW t \in Threads, Plain(t) \/ SendStep(t)
  PROVE  ThreadMoves(t)
<1>t. pc \in [Threads -> PcStates] /\ t[1] \in Roles
  BY ThreadPair DEF Types
<1>s. pc[t] = "spawn" => t[1] = "reader"
  BY DEF Fits
<1> USE DEF ThreadMoves, Goes, PcStates, Serving
<1>1. CASE SendStep(t)
  BY <1>1, <1>t DEF SendStep, SendPackage
<1>2. CASE Start(t) \/ Registered(t) \/ GotNothing(t) \/ LoopAgain(t)
  BY <1>2, <1>t DEF Start, Registered, GotNothing, LoopAgain
<1>3. CASE ReadTurn(t) \/ ReadFails(t) \/ GetPackage(t) \/ GotPackage(t)
  BY <1>3, <1>t DEF ReadTurn, ReadFails, GetPackage, GotPackage
<1>4. CASE Writes(t) \/ WriteFails(t) \/ NoReply(t) \/ TellMePcId(t)
             \/ StopVncSession(t) \/ StartsWorker(t)
  BY <1>4, <1>t DEF Writes, WriteFails, NoReply, TellMePcId, StopVncSession,
     StartsWorker
<1>5. CASE SrvIdSent(t) \/ Sent(t) \/ Spawn(t) \/ ExitThread(t)
  BY <1>5, <1>t DEF SrvIdSent, Sent, Spawn, ExitThread
<1>6. CASE SeesStop(t)
  <2>1. pc[t] = "check"
        /\ pc' = [pc EXCEPT ![t] = IF t[1] = "reader" THEN "spawn" ELSE "exit"]
    BY <1>6, Zenon DEF SeesStop
  <2>2. CASE t[1] = "reader"
    BY <2>1, <2>2
  <2>3. CASE t[1] # "reader"
    BY <2>1, <2>3
  <2> QED
    BY <2>2, <2>3
<1> QED
  BY <1>1, <1>2, <1>3, <1>4, <1>5, <1>6 DEF Plain

LEMMA ThreadFrame ==
  ASSUME NEW t \in Threads, Plain(t) \/ SendStep(t)
  PROVE  UNCHANGED <<freed, ptr, frozen, peer, cpc, notice, del, handler>>
  BY Zenon DEF Plain, SendStep, SendPackage, Start, Registered, ReadTurn,
     ReadFails, GetPackage, GotNothing, GotPackage, Writes, WriteFails,
     NoReply, TellMePcId, StopVncSession, SrvIdSent, Sent, SeesStop,
     StartsWorker,
     LoopAgain, Spawn, ExitThread, Others, groupVars, alarmVars

LEMMA ThreadClean ==
  ASSUME NEW t \in Threads, Plain(t) \/ SendStep(t)
  PROVE  clean' = clean \/ Spawn(t)
  BY Zenon DEF Plain, SendStep, SendPackage, Start, Registered, ReadTurn,
     ReadFails, GetPackage, GotNothing, GotPackage, Writes, WriteFails,
     NoReply, TellMePcId, StopVncSession, SrvIdSent, Sent, SeesStop,
     StartsWorker,
     LoopAgain, ExitThread

LEMMA ThreadList ==
  ASSUME NEW t \in Threads, Plain(t) \/ SendStep(t)
  PROVE  \/ list' = list
         \/ /\ ExitThread(t) /\ ptr["threads"] # NoSession
            /\ list' = [list EXCEPT ![ptr["threads"]] = @ \ {t}]
         \/ /\ ptr["threads"] # NoSession
            /\ list' = [list EXCEPT ![ptr["threads"]] =
                          @ \cup {<<"worker", t[2]>>}]
<1>1. CASE ExitThread(t)
  BY <1>1, Zenon DEF ExitThread, Unlisted
<1>4. CASE StartsWorker(t)
  BY <1>4, Zenon DEF StartsWorker
<1>2. CASE SendStep(t)
  BY <1>2, Zenon DEF SendStep, SendPackage
<1>3. CASE Plain(t) /\ ~ExitThread(t) /\ ~StartsWorker(t)
  BY <1>3, Zenon DEF Plain, Start, Registered, ReadTurn,
     ReadFails, GetPackage, GotNothing, GotPackage, Writes, WriteFails,
     NoReply, TellMePcId, StopVncSession, SrvIdSent, Sent, SeesStop,
     StartsWorker,
     LoopAgain, Spawn, groupVars
<1> QED
  BY <1>1, <1>2, <1>3, <1>4

(* What a thread that is in a call has hold of, and the reader's copy.     *)
LEMMA ThreadCalls ==
  ASSUME Types, NEW t \in Threads, Plain(t) \/ SendStep(t)
  PROVE  /\ \/ inCall' = inCall /\ (pc'[t] = "get" => pc[t] = "get")
            \/ inCall' = [inCall EXCEPT ![t] = NoSession] /\ pc'[t] # "get"
            \/ inCall' = [inCall EXCEPT ![t] = ptr["cmdout"]] /\ pc'[t] # "get"
            \/ inCall' = [inCall EXCEPT ![t] = ptr[QueueOf(t)]]
         /\ \/ bufreader' = bufreader /\ (pc[t] = "created" => t[1] # "reader")
            \/ /\ t[1] = "reader" /\ pc[t] = "created"
               /\ bufreader' = [bufreader EXCEPT ![t[2]] = ptr["cmdin"]]
<1>t. pc \in [Threads -> PcStates]
  BY DEF Types
<1> USE DEF Goes
<1>1. CASE SendStep(t)
  BY <1>1, <1>t DEF SendStep, SendPackage
<1>2. CASE Start(t)
  BY <1>2, <1>t DEF Start, Others
<1>3. CASE Registered(t) \/ Sent(t) \/ SrvIdSent(t)
  BY <1>3, <1>t DEF Registered, Sent, SrvIdSent, AddsPackage
<1>4. CASE ReadTurn(t) \/ ReadFails(t)
  BY <1>4, <1>t DEF ReadTurn, ReadFails
<1>5. CASE GetPackage(t)
  BY <1>5, <1>t DEF GetPackage
<1>6. CASE GotNothing(t)
  BY <1>6, <1>t DEF GotNothing
<1>7. CASE GotPackage(t)
  <2>1. /\ pc[t] = "get" /\ pc'[t] # "get" /\ bufreader' = bufreader
    BY <1>7, <1>t DEF GotPackage
  <2>2. inCall' = inCall \/ inCall' = [inCall EXCEPT ![t] = NoSession]
    BY <1>7 DEF GotPackage
  <2> QED
    BY <2>1, <2>2
<1>8. CASE Writes(t) \/ WriteFails(t)
  BY <1>8, <1>t DEF Writes, WriteFails
<1>9. CASE TellMePcId(t)
  BY <1>9, <1>t DEF TellMePcId
<1>10. CASE NoReply(t) \/ StopVncSession(t) \/ LoopAgain(t) \/ Spawn(t)
             \/ ExitThread(t) \/ StartsWorker(t)
  BY <1>10, <1>t DEF NoReply, StopVncSession, LoopAgain, Spawn, ExitThread,
     StartsWorker
<1>11. CASE SeesStop(t)
  BY <1>11, <1>t DEF SeesStop
<1> QED
  BY <1>1, <1>2, <1>3, <1>4, <1>5, <1>6, <1>7, <1>8, <1>9, <1>10, <1>11
     DEF Plain

-----------------------------------------------------------------------------
(* Type correctness *)

LEMMA CleanTyped ==
  ASSUME Types, NEW k \in Cleaners, NEW a \in CleanStates, NEW o \in Objects
  PROVE  [clean EXCEPT ![k] = <<a, o>>]
           \in [Cleaners -> CleanStates \X Objects]
<1>1. clean \in [Cleaners -> CleanStates \X Objects]
  BY DEF Types
<1>2. <<a, o>> \in CleanStates \X Objects
  OBVIOUS
<1> QED
  BY <1>1, <1>2

LEMMA ThreadTypes ==
  ASSUME Types, Fits, NEW t \in Threads, Plain(t) \/ SendStep(t)
  PROVE  /\ pc' \in [Threads -> PcStates]
         /\ list' \in [Sessions -> SUBSET Members]
         /\ flag' \in [Roles -> {0, 1}]
         /\ inCall' \in [Threads -> Pointers]
         /\ bufreader' \in [Sessions -> Pointers]
         /\ clean' \in [Cleaners -> CleanStates \X Objects]
         /\ alarm' \in Pointers
<1>t. /\ pc \in [Threads -> PcStates] /\ list \in [Sessions -> SUBSET Members]
      /\ flag \in [Roles -> {0, 1}] /\ inCall \in [Threads -> Pointers]
      /\ bufreader \in [Sessions -> Pointers]
      /\ clean \in [Cleaners -> CleanStates \X Objects]
      /\ alarm \in Pointers /\ ptr \in [Objects -> Pointers]
      /\ t[1] \in Roles /\ t[2] \in Sessions
  BY ThreadPair DEF Types
<1>1. pc' \in [Threads -> PcStates]
  BY <1>t, ThreadMove DEF ThreadMoves
<1>2. list' \in [Sessions -> SUBSET Members]
  <2>1. CASE list' = list
    BY <1>t, <2>1
  <2>2. CASE /\ ptr["threads"] # NoSession
             /\ list' = [list EXCEPT ![ptr["threads"]] = @ \ {t}]
    <3>1. ptr["threads"] \in Sessions
      BY <1>t, <2>2 DEF Pointers
    <3>2. list[ptr["threads"]] \ {t} \subseteq Members
      BY <1>t, <3>1
    <3> QED
      BY <1>t, <2>2, <3>1, <3>2
  <2>3. CASE /\ ptr["threads"] # NoSession
             /\ list' = [list EXCEPT ![ptr["threads"]] =
                           @ \cup {<<"worker", t[2]>>}]
    <3>1. ptr["threads"] \in Sessions
      BY <1>t, <2>3 DEF Pointers
    <3>2. <<"worker", t[2]>> \in Members
      BY <1>t DEF Members, Workers
    <3>3. list[ptr["threads"]] \cup {<<"worker", t[2]>>} \subseteq Members
      BY <1>t, <3>1, <3>2
    <3> QED
      BY <1>t, <2>3, <3>1, <3>3
  <2> QED
    BY <2>1, <2>2, <2>3, ThreadList
<1>3. inCall' \in [Threads -> Pointers]
  <2>1. QueueOf(t) \in Objects
    BY DEF QueueOf
  <2>2. ptr["cmdout"] \in Pointers /\ ptr[QueueOf(t)] \in Pointers
        /\ NoSession \in Pointers
    BY <1>t, <2>1 DEF Pointers
  <2> QED
    BY <1>t, <2>2, ThreadCalls
<1>4. bufreader' \in [Sessions -> Pointers]
  BY <1>t, ThreadCalls
<1>5. clean' \in [Cleaners -> CleanStates \X Objects]
  <2>1. CASE clean' = clean
    BY <1>t, <2>1
  <2>2. CASE Spawn(t)
    <3>1. <<"reader", t[2]>> \in Cleaners
      BY <1>t, IsCleaner
    <3>2. \E to \in Created :
            clean' = [clean EXCEPT ![<<"reader", t[2]>>] = to]
      BY <2>2, Zenon DEF Spawn
    <3> QED
      BY <3>1, <3>2, CleanTyped DEF CleanStates, Created, Denied
  <2> QED
    BY <2>1, <2>2, ThreadClean
<1>6. alarm' \in Pointers
  <2>1. alarm' = alarm \/ alarm' = t[2]
    BY Zenon DEF Plain, SendStep, SendPackage, Start, Registered, ReadTurn,
       ReadFails, GetPackage, GotNothing, GotPackage, Writes, WriteFails,
       NoReply, TellMePcId, StopVncSession, SrvIdSent, Sent, SeesStop,
     StartsWorker,
       LoopAgain, Spawn, ExitThread, Others, alarmVars
  <2> QED
    BY <1>t, <2>1 DEF Pointers
<1>7. flag' \in [Roles -> {0, 1}]
  <2>1. \/ flag' = flag
        \/ flag' = [flag EXCEPT ![t[1]] = 0]
        \/ flag' = [flag EXCEPT !["processor"] = 0]
        \/ flag' = [r \in Roles |-> 1]
    BY Zenon DEF Plain, SendStep, SendPackage, Start, Registered, ReadTurn,
       ReadFails, GetPackage, GotNothing, GotPackage, Writes, WriteFails,
       NoReply, TellMePcId, StopVncSession, SrvIdSent, Sent, SeesStop,
     StartsWorker,
       LoopAgain, Spawn, ExitThread, groupVars
  <2> QED
    BY <1>t, <2>1
<1> QED
  BY <1>1, <1>2, <1>3, <1>4, <1>5, <1>6, <1>7

(* The connectors.                                                         *)
ConnectorStep(s) ==
  \/ Arrive(s) \/ Notify(s) \/ NotifyAdd(s)
  \/ \E o \in Objects : SetUp(s, o)
  \/ \E r \in Roles : Added(s, r) \/ NotAdded(s, r)

LEMMA ConnectorFrame ==
  ASSUME NEW s \in Sessions, ConnectorStep(s)
  PROVE  UNCHANGED <<freed, frozen, flag, inCall, bufreader, del, alarm,
                     is_rev_pcid, handler>>
  BY Zenon DEF ConnectorStep, Arrive, Notify, NotifyAdd, SetUp, Added,
     NotAdded, groupVars, threadVars, alarmVars

LEMMA ConnectorTypes ==
  ASSUME Types, NEW s \in Sessions, ConnectorStep(s)
  PROVE  /\ ptr' \in [Objects -> Pointers]
         /\ list' \in [Sessions -> SUBSET Members]
         /\ peer' \subseteq Sessions
         /\ pc' \in [Threads -> PcStates]
         /\ cpc' \in [Sessions -> CpcStates]
         /\ notice' \in [Sessions -> Pointers]
         /\ clean' \in [Cleaners -> CleanStates \X Objects]
<1>t. /\ pc \in [Threads -> PcStates] /\ list \in [Sessions -> SUBSET Members]
      /\ cpc \in [Sessions -> CpcStates] /\ notice \in [Sessions -> Pointers]
      /\ clean \in [Cleaners -> CleanStates \X Objects]
      /\ ptr \in [Objects -> Pointers] /\ peer \subseteq Sessions
  BY DEF Types
<1> USE DEF Connects, groupVars, threadVars, CpcStates
<1>1. CASE Arrive(s)
  BY <1>1, <1>t DEF Arrive
<1>2. CASE Notify(s)
  <2>1. ptr["cmdout"] \in Pointers /\ NoSession \in Pointers
    BY <1>t DEF Pointers
  <2> QED
    BY <1>2, <1>t, <2>1 DEF Notify
<1>3. CASE NotifyAdd(s)
  <2>1. NoSession \in Pointers
    BY DEF Pointers
  <2>2. clean' \in [Cleaners -> CleanStates \X Objects]
    <3>1. <<"connector", s>> \in Cleaners
      BY IsCleaner
    <3>2. clean' = [clean EXCEPT ![<<"connector", s>>] = <<"look", "threads">>]
      BY <1>3, Zenon DEF NotifyAdd
    <3> QED
      BY <3>1, <3>2, CleanTyped DEF CleanStates
  <2> QED
    BY <1>3, <1>t, <2>1, <2>2 DEF NotifyAdd
<1>4. ASSUME NEW o \in Objects, SetUp(s, o)
      PROVE  /\ ptr' \in [Objects -> Pointers]
             /\ cpc' \in [Sessions -> CpcStates]
             /\ UNCHANGED <<list, peer, pc, notice, clean>>
  <2>1. AfterSetUp[o] \in CpcStates
    BY DEF AfterSetUp
  <2>2. s \in Pointers
    BY DEF Pointers
  <2> QED
    BY <1>4, <1>t, <2>1, <2>2 DEF SetUp
<1>5. ASSUME NEW r \in Roles, Added(s, r)
      PROVE  /\ list' \in [Sessions -> SUBSET Members]
             /\ pc' \in [Threads -> PcStates]
             /\ cpc' \in [Sessions -> CpcStates]
             /\ UNCHANGED <<ptr, peer, notice, clean>>
  <2>1. AfterAdd[r] \in CpcStates
    BY DEF AfterAdd
  <2>2. ptr["threads"] \in Sessions /\ <<r, s>> \in Threads
    BY <1>5, <1>t, IsThread DEF Added, Pointers
  <2>3. list[ptr["threads"]] \cup {<<r, s>>} \subseteq Members
    BY <1>t, <2>2 DEF Members
  <2>4. /\ list' = [list EXCEPT ![ptr["threads"]] = @ \cup {<<r, s>>}]
        /\ pc' = [pc EXCEPT ![<<r, s>>] = "created"]
        /\ cpc' = [cpc EXCEPT ![s] = AfterAdd[r]]
        /\ UNCHANGED <<ptr, peer, notice, clean>>
    BY <1>5, Zenon DEF Added
  <2> QED
    BY <1>t, <2>1, <2>2, <2>3, <2>4 DEF PcStates
<1>6. ASSUME NEW r \in Roles, NotAdded(s, r)
      PROVE  /\ cpc' \in [Sessions -> CpcStates]
             /\ UNCHANGED <<ptr, list, peer, pc, notice, clean>>
  <2>1. AfterAdd[r] \in CpcStates
    BY DEF AfterAdd
  <2> QED
    BY <1>6, <1>t, <2>1 DEF NotAdded
<1> QED
  BY <1>1, <1>2, <1>3, <1>4, <1>5, <1>6, <1>t DEF ConnectorStep

(* The cleaners.                                                           *)
CleanerStep(k, o) == FindsNull(k, o) \/ Finds(k, o) \/ Delete(k, o)
                        \/ SetsNull(k, o)

LEMMA CleanerFrame ==
  ASSUME NEW k \in Cleaners,
         Wakes(k) \/ StopAll(k) \/ \E o \in Objects : CleanerStep(k, o)
  PROVE  UNCHANGED <<list, peer, pc, inCall, bufreader, cpc, notice, alarm,
                     is_rev_pcid, handler>>
  BY Zenon DEF CleanerStep, Wakes, StopAll, FindsNull, Finds, Delete,
     SetsNull, CleanRest, threadVars, alarmVars, groupVars

LEMMA CleanerTypes ==
  ASSUME Types, Fits, NEW k \in Cleaners,
         Wakes(k) \/ StopAll(k) \/ \E o \in Objects : CleanerStep(k, o)
  PROVE  /\ ptr' \in [Objects -> Pointers]
         /\ freed' \in [Objects -> SUBSET Sessions]
         /\ frozen' \subseteq Sessions
         /\ flag' \in [Roles -> {0, 1}]
         /\ clean' \in [Cleaners -> CleanStates \X Objects]
         /\ del' \in [Cleaners -> Pointers]
<1>t. /\ ptr \in [Objects -> Pointers]
      /\ freed \in [Objects -> SUBSET Sessions]
      /\ frozen \subseteq Sessions /\ flag \in [Roles -> {0, 1}]
      /\ del \in [Cleaners -> Pointers]
      /\ clean \in [Cleaners -> CleanStates \X Objects]
  BY DEF Types
<1> USE DEF groupVars
<1>c. \A a \in CleanStates, o \in Objects :
        [clean EXCEPT ![k] = <<a, o>>] \in [Cleaners -> CleanStates \X Objects]
  BY CleanTyped
<1>n. ASSUME NEW o \in Objects
      PROVE  [clean EXCEPT ![k] = AfterClean[o]]
               \in [Cleaners -> CleanStates \X Objects]
  <2>1. AfterClean[o] \in CleanStates \X Objects
    BY DEF AfterClean, CleanStates
  <2> QED
    BY <1>t, <2>1
<1>1. CASE Wakes(k)
  <2>1. clean' = [clean EXCEPT ![k] = <<"look", "threads">>]
        /\ UNCHANGED <<ptr, freed, groupVars, del>>
    BY <1>1, Zenon DEF Wakes, CleanStep
  <2> QED
    BY <1>t, <1>c, <2>1 DEF CleanStates
<1>d. clean[k][1] \in {"stopAll", "delete"} => del[k] \in Sessions
  BY <1>t DEF Fits, Pointers
<1>2. CASE StopAll(k)
  <2>1. /\ clean[k] = <<"stopAll", "threads">>
        /\ clean' = [clean EXCEPT ![k] = <<"delete", "threads">>]
        /\ UNCHANGED <<ptr, freed, del>>
        /\ frozen' = frozen \cup {del[k]}
        /\ flag' = [r \in Roles |->
                IF \E t \in list[del[k]] : t[1] = r THEN 1 ELSE flag[r]]
    BY <1>2, Zenon DEF StopAll, CleanStep
  <2>2. flag' \in [Roles -> {0, 1}]
    BY <1>t, <2>1
  <2> QED
    BY <1>t, <1>c, <1>d, <2>1, <2>2 DEF CleanStates
<1>3. ASSUME NEW o \in Objects, FindsNull(k, o)
      PROVE  /\ UNCHANGED <<ptr, freed, groupVars, del>>
             /\ clean' \in [Cleaners -> CleanStates \X Objects]
  BY <1>3, <1>t, <1>n DEF FindsNull, CleanStep
<1>4. ASSUME NEW o \in Objects, Finds(k, o)
      PROVE  /\ UNCHANGED <<ptr, freed, groupVars>>
             /\ clean' \in [Cleaners -> CleanStates \X Objects]
             /\ del' \in [Cleaners -> Pointers]
  <2>1. /\ clean' = [clean EXCEPT ![k] =
                      <<IF o = "threads" THEN "stopAll" ELSE "delete", o>>]
        /\ del' = [del EXCEPT ![k] = ptr[o]]
        /\ UNCHANGED <<ptr, freed, groupVars>>
    BY <1>4, Zenon DEF Finds, CleanStep
  <2>2. (IF o = "threads" THEN "stopAll" ELSE "delete") \in CleanStates
    BY DEF CleanStates
  <2> QED
    BY <1>t, <1>c, <2>1, <2>2
<1>5. ASSUME NEW o \in Objects, Delete(k, o)
      PROVE  /\ UNCHANGED <<ptr, groupVars, del>>
             /\ clean' \in [Cleaners -> CleanStates \X Objects]
             /\ freed' \in [Objects -> SUBSET Sessions]
  <2>1. /\ clean[k] = <<"delete", o>>
        /\ clean' = [clean EXCEPT ![k] = <<"null", o>>]
        /\ freed' = [freed EXCEPT ![o] = @ \cup {del[k]}]
        /\ UNCHANGED <<ptr, groupVars, del>>
    BY <1>5, Zenon DEF Delete, CleanStep
  <2>2. freed[o] \cup {del[k]} \subseteq Sessions
    BY <1>t, <1>d, <2>1
  <2> QED
    BY <1>t, <1>c, <2>1, <2>2 DEF CleanStates
<1>6. ASSUME NEW o \in Objects, SetsNull(k, o)
      PROVE  /\ UNCHANGED <<freed, groupVars>>
             /\ ptr' \in [Objects -> Pointers]
             /\ clean' \in [Cleaners -> CleanStates \X Objects]
             /\ del' \in [Cleaners -> Pointers]
  <2>1. NoSession \in Pointers
    BY DEF Pointers
  <2> QED
    BY <1>6, <1>t, <1>n, <2>1 DEF SetsNull, CleanStep
<1> QED
  BY <1>1, <1>2, <1>3, <1>4, <1>5, <1>6, <1>t DEF CleanerStep

(* The handler and the rest.                                               *)
HandlerActs == Handler \/ \E t \in Threads \cup {Outsider} : AlarmFires(t)

LEMMA HandlerFrame ==
  ASSUME HandlerActs
  PROVE  UNCHANGED <<ptr, freed, frozen, flag, peer, inCall, bufreader, cpc,
                     notice, del, is_rev_pcid>>
  BY Zenon DEF HandlerActs, Handler, AlarmFires, HandlerLooks, HandlerAdds,
     HandlerSpawns, HandlerExits, HandlerRest

LEMMA HandlerTypes ==
  ASSUME Types, Fits, HandlerActs
  PROVE  /\ list' \in [Sessions -> SUBSET Members]
         /\ pc' \in [Threads -> PcStates]
         /\ clean' \in [Cleaners -> CleanStates \X Objects]
         /\ alarm' \in Pointers /\ handler' \in Handlers
<1>t. /\ pc \in [Threads -> PcStates] /\ list \in [Sessions -> SUBSET Members]
      /\ clean \in [Cleaners -> CleanStates \X Objects]
      /\ ptr \in [Objects -> Pointers] /\ alarm \in Pointers
      /\ handler \in Handlers /\ NoSession \in Pointers
  BY DEF Types, Pointers
<1>1. ASSUME NEW t \in Threads \cup {Outsider}, AlarmFires(t)
      PROVE  /\ list' \in [Sessions -> SUBSET Members]
             /\ pc' \in [Threads -> PcStates]
             /\ clean' \in [Cleaners -> CleanStates \X Objects]
             /\ alarm' \in Pointers /\ handler' \in Handlers
  <2>1. /\ UNCHANGED <<list, pc, clean>> /\ alarm' = NoSession
        /\ handler' \in {Idle, [at |-> "look", in |-> t, for |-> alarm,
                                q |-> NoSession]}
    BY <1>1 DEF AlarmFires
  <2>2. Idle \in Handlers
    BY <1>t DEF Idle, Handlers
  <2>3. [at |-> "look", in |-> t, for |-> alarm, q |-> NoSession] \in Handlers
    BY <1>t DEF Handlers
  <2> QED
    BY <1>t, <2>1, <2>2, <2>3
<1>2. CASE HandlerLooks
  <2>1. ptr["cmdout"] \in Pointers
    BY <1>t
  <2>2. handler' = [at |-> "add", in |-> handler.in, for |-> handler.for,
                    q |-> ptr["cmdout"]]
    BY <1>2, <1>t DEF HandlerLooks, Handlers
  <2>3. handler' \in Handlers
    BY <1>t, <2>1, <2>2 DEF Handlers
  <2>4. UNCHANGED <<list, pc, clean, alarm>>
    BY <1>2, Zenon DEF HandlerLooks
  <2> QED
    BY <1>t, <2>3, <2>4
<1>3. CASE HandlerAdds \/ HandlerSpawns
  <2>1. /\ handler.at \in {"add", "spawn"}
        /\ \E to \in {"spawn", "exit"} : handler' = [handler EXCEPT !.at = to]
    BY <1>3 DEF HandlerAdds, HandlerSpawns, HandlerStep
  <2>2. handler' \in Handlers
    BY <1>t, <2>1 DEF Handlers
  <2>3. UNCHANGED <<list, pc, alarm>>
    BY <1>3, Zenon DEF HandlerAdds, HandlerSpawns
  <2>4. clean' \in [Cleaners -> CleanStates \X Objects]
    <3>1. CASE HandlerAdds
      BY <3>1, <1>t DEF HandlerAdds
    <3>2. CASE HandlerSpawns
      <4>1. handler.for \in Sessions
        BY <3>2 DEF HandlerSpawns, HandlerStep, Fits, HandlerOK
      <4>2. <<"alarm", handler.for>> \in Cleaners
        BY <4>1, IsCleaner
      <4>3. \E to \in Created :
              clean' = [clean EXCEPT ![<<"alarm", handler.for>>] = to]
        BY <3>2, Zenon DEF HandlerSpawns
      <4> QED
        BY <4>2, <4>3, CleanTyped DEF CleanStates, Created, Denied
    <3> QED
      BY <1>3, <3>1, <3>2
  <2> QED
    BY <1>t, <2>2, <2>3, <2>4
<1>4. CASE HandlerExits
  <2>1. handler' = Idle /\ UNCHANGED <<clean, alarm>>
    BY <1>4, Zenon DEF HandlerExits
  <2>2. Idle \in Handlers
    BY <1>t DEF Idle, Handlers
  <2>3. list' \in [Sessions -> SUBSET Members]
    <3>1. \/ list' = list
          \/ /\ ptr["threads"] # NoSession
             /\ list' = [list EXCEPT ![ptr["threads"]] = @ \ {handler.in}]
      BY <1>4, Zenon DEF HandlerExits, Unlisted
    <3>2. CASE ptr["threads"] # NoSession
      <4>1. ptr["threads"] \in Sessions
        BY <1>t, <3>2 DEF Pointers
      <4>2. list[ptr["threads"]] \ {handler.in} \subseteq Members
        BY <1>t, <4>1
      <4> QED
        BY <1>t, <3>1, <4>1, <4>2
    <3> QED
      BY <1>t, <3>1, <3>2
  <2>4. pc' \in [Threads -> PcStates]
    <3>1. pc' = pc \/ pc' = [pc EXCEPT ![handler.in] = "gone"]
      BY <1>4, Zenon DEF HandlerExits
    <3> QED
      BY <1>t, <3>1 DEF PcStates
  <2> QED
    BY <1>t, <2>1, <2>2, <2>3, <2>4
<1> QED
  BY <1>1, <1>2, <1>3, <1>4, Zenon DEF HandlerActs, Handler

(* The next state, in these parts.                                         *)
LEMMA StepCases ==
  ASSUME Next
  PROVE  /\ ~misuse /\ History
         /\ \/ \E s \in Sessions : ConnectorStep(s)
            \/ \E s \in Sessions : PeerLeaves(s)
            \/ \E t \in Threads : Free(t) /\ (Plain(t) \/ SendStep(t))
            \/ \E k \in Cleaners :
                 Wakes(k) \/ StopAll(k) \/ \E o \in Objects : CleanerStep(k, o)
            \/ HandlerActs
<1>1. \/ \E s \in Sessions : ConnectorStep(s)
      \/ \E s \in Sessions : PeerLeaves(s)
      \/ \E t \in Threads : Serves(t)
      \/ \E k \in Cleaners :
           Wakes(k) \/ StopAll(k) \/ \E o \in Objects : CleanerStep(k, o)
      \/ HandlerActs
  BY Zenon DEF Next, Connector, ConnectorStep, Cleanup, CleanerStep,
     HandlerActs
<1> QED
  BY <1>1, ServesCases, Zenon DEF Next

(* History, and what becomes of overlap.                                   *)
LEMMA EarlyTypes ==
  ASSUME Types, History
  PROVE  early' \subseteq Sessions /\ overlap' \in BOOLEAN
<1>1. early' \subseteq Sessions
  <2>1. \/ early' = early
        \/ early' = early \cup {s \in Sessions : /\ cpc[s] = "none"
                                                 /\ cpc'[s] # "none"}
    BY Zenon DEF History
  <2> QED
    BY <2>1 DEF Types
<1>2. overlap' \in BOOLEAN
  BY Zenon DEF History
<1> QED
  BY <1>1, <1>2

LEMMA AloneAfter ==
  ASSUME History, overlap \in BOOLEAN, ~overlap'
  PROVE  ~overlap /\ Alone'
  BY Zenon DEF History, Alone

LEMMA MisuseTyped ==
  ASSUME Next
  PROVE  misuse' \in BOOLEAN
<1>1. ASSUME NEW s \in Sessions, ConnectorStep(s)
      PROVE  misuse' \in BOOLEAN
  BY <1>1, Zenon DEF ConnectorStep, Arrive, Notify, NotifyAdd, SetUp, Added,
     NotAdded, Safe, Uses
<1>2. ASSUME NEW s \in Sessions, PeerLeaves(s)
      PROVE  misuse' \in BOOLEAN
  BY <1>2, Zenon DEF PeerLeaves, Safe
<1>3. ASSUME NEW t \in Threads, Plain(t) \/ SendStep(t)
      PROVE  misuse' \in BOOLEAN
  <2>1. CASE SendStep(t)
    BY <2>1, Zenon DEF SendStep, SendPackage, Safe
  <2>2. CASE Plain(t)
    BY <2>2, Zenon DEF Plain, Start, Registered, ReadTurn,
     ReadFails, GetPackage, GotNothing, GotPackage, Writes, WriteFails,
     NoReply, TellMePcId, StopVncSession, SrvIdSent, Sent, SeesStop,
     StartsWorker,
     LoopAgain, Spawn, ExitThread, Unlisted, AddsPackage, Safe, Uses
  <2> QED
    BY <1>3, <2>1, <2>2
<1>4. ASSUME NEW k \in Cleaners,
             Wakes(k) \/ StopAll(k) \/ \E o \in Objects : CleanerStep(k, o)
      PROVE  misuse' \in BOOLEAN
  BY <1>4, Zenon DEF CleanerStep, Wakes, StopAll, FindsNull, Finds, Delete,
     SetsNull, Safe, Uses
<1>5. ASSUME HandlerActs
      PROVE  misuse' \in BOOLEAN
  BY <1>5, Zenon DEF HandlerActs, Handler, AlarmFires, HandlerLooks,
     HandlerAdds, HandlerSpawns, HandlerExits, Unlisted, Safe, Uses
<1> QED
  BY <1>1, <1>2, <1>3, <1>4, <1>5, StepCases, Zenon

LEMMA RevTyped ==
  ASSUME is_rev_pcid \in BOOLEAN, Next
  PROVE  is_rev_pcid' \in BOOLEAN
<1>1. ASSUME NEW s \in Sessions, PeerLeaves(s)
      PROVE  is_rev_pcid' = is_rev_pcid
  BY <1>1, Zenon DEF PeerLeaves, alarmVars
<1>3. ASSUME NEW t \in Threads, Plain(t) \/ SendStep(t)
      PROVE  is_rev_pcid' \in {is_rev_pcid, TRUE, FALSE}
  BY <1>3, Zenon DEF Plain, SendStep, SendPackage, Start, Registered,
     ReadTurn, ReadFails, GetPackage, GotNothing, GotPackage, Writes,
     WriteFails, NoReply, TellMePcId, StopVncSession, SrvIdSent, Sent,
     StartsWorker,
     SeesStop, LoopAgain, Spawn, ExitThread, Others, alarmVars
<1> QED
  BY <1>1, <1>3, ConnectorFrame, CleanerFrame, HandlerFrame, StepCases, Zenon

LEMMA TypeStep ==
  ASSUME TypeOK, Fits, Next
  PROVE  TypeOK'
<1>t. Types /\ is_rev_pcid \in BOOLEAN
  BY TypeParts, Zenon
<1>b. /\ is_rev_pcid' \in BOOLEAN /\ misuse' \in BOOLEAN
      /\ overlap' \in BOOLEAN /\ early' \subseteq Sessions
  BY <1>t, StepCases, EarlyTypes, MisuseTyped, RevTyped, Zenon
<1>1. ASSUME NEW s \in Sessions, ConnectorStep(s)
      PROVE  Types'
  BY <1>1, <1>t, <1>b, ConnectorFrame, ConnectorTypes DEF Types
<1>2. ASSUME NEW s \in Sessions, PeerLeaves(s)
      PROVE  Types'
  <2>1. /\ peer' = peer \ {s}
        /\ UNCHANGED <<ptr, freed, groupVars, threadVars, cpc, notice, clean,
                       del, alarm, handler>>
    BY <1>2, Zenon DEF PeerLeaves, alarmVars
  <2> QED
    BY <1>t, <1>b, <2>1 DEF Types, groupVars, threadVars
<1>3. ASSUME NEW t \in Threads, Plain(t) \/ SendStep(t)
      PROVE  Types'
  BY <1>3, <1>t, <1>b, ThreadFrame, ThreadTypes DEF Types
<1>4. ASSUME NEW k \in Cleaners,
             Wakes(k) \/ StopAll(k) \/ \E o \in Objects : CleanerStep(k, o)
      PROVE  Types'
  BY <1>4, <1>t, <1>b, CleanerFrame, CleanerTypes DEF Types
<1>5. ASSUME HandlerActs
      PROVE  Types'
  BY <1>5, <1>t, <1>b, HandlerFrame, HandlerTypes DEF Types
<1>6. Types'
  BY <1>1, <1>2, <1>3, <1>4, <1>5, StepCases, Zenon
<1> QED
  BY <1>6, <1>b, Zenon DEF TypeOK, Types, PcStates, CpcStates, CleanStates,
     Handlers

-----------------------------------------------------------------------------
(* Where everybody is fits together after a step, too.                     *)

LEMMA FitsConnector ==
  ASSUME Types, Fits, NEW s \in Sessions, ConnectorStep(s)
  PROVE  Fits'
<1>t. /\ pc \in [Threads -> PcStates] /\ cpc \in [Sessions -> CpcStates]
      /\ clean \in [Cleaners -> CleanStates \X Objects]
  BY DEF Types
<1>f. UNCHANGED <<del, handler>>
  BY ConnectorFrame
<1>o. \A x \in Sessions : ConnectorOK(x) /\ ReaderOK(x)
  BY DEF Fits
<1>p. \A t \in Threads : pc[t] = "spawn" => t[1] = "reader"
  BY DEF Fits
<1>c. <<"connector", s>> \in Cleaners
  BY IsCleaner
<1>r. \A r \in Roles, x \in Sessions :
        <<r, x>> \in Threads /\ <<"reader", x>> \in Cleaners
          /\ <<"connector", x>> \in Cleaners
  BY IsThread, IsCleaner
<1> DEFINE Moves ==
      \/ /\ UNCHANGED <<pc, clean>>
         /\ \/ cpc[s] = "none" /\ cpc' = [cpc EXCEPT ![s] = "notify"]
            \/ cpc[s] = "notify" /\ cpc' = [cpc EXCEPT ![s] = "sendPackage"]
            \/ \E o \in Objects : /\ cpc[s] = o
                                  /\ clean[<<"connector", s>>][1] = "done"
                                  /\ cpc' = [cpc EXCEPT ![s] = AfterSetUp[o]]
            \/ \E r \in Roles : /\ cpc[s] = r
                                /\ cpc' = [cpc EXCEPT ![s] = AfterAdd[r]]
      \/ /\ UNCHANGED pc /\ cpc[s] = "sendPackage"
         /\ cpc' = [cpc EXCEPT ![s] = "socket"]
         /\ clean' = [clean EXCEPT ![<<"connector", s>>] =
                        <<"look", "threads">>]
      \/ \E r \in Roles : /\ UNCHANGED clean /\ cpc[s] = r
                          /\ cpc' = [cpc EXCEPT ![s] = AfterAdd[r]]
                          /\ pc' = [pc EXCEPT ![<<r, s>>] = "created"]
<1>m. Moves
  BY Zenon DEF ConnectorStep, Arrive, Notify, NotifyAdd, SetUp, Added,
     NotAdded, Connects, threadVars
<1>1. \A x \in Sessions : ConnectorOK(x)'
  <2> SUFFICES ASSUME NEW x \in Sessions
               PROVE  ConnectorOK(x)'
    OBVIOUS
  <2>1. CASE x = s
    <3>1. ConnectorOK(s)
      BY <1>o
    <3>2. CASE cpc[s] = "sendPackage"
      <4>1. /\ cpc'[s] = "socket"
            /\ clean'[<<"connector", s>>] = <<"look", "threads">>
        BY <1>m, <1>t, <1>c, <3>2 DEF CpcStates
      <4> QED
        BY <2>1, <4>1 DEF ConnectorOK, SetUpStates
    <3>3. CASE cpc[s] # "sendPackage"
      <4>1. clean' = clean
        BY <1>m, <3>3
      <4>2. CASE cpc[s] \in {"none", "notify"}
        <5>1. cpc'[s] \in {"notify", "sendPackage"}
          BY <1>m, <1>t, <3>3, <4>2
        <5> QED
          BY <2>1, <3>1, <4>1, <4>2, <5>1 DEF ConnectorOK, SetUpStates
      <4>3. CASE cpc[s] \in Objects \cup Roles
        <5>1. cpc'[s] \in {"cmdin", "cmdout", "threads", "done"} \cup Roles
          BY <1>m, <1>t, <3>3, <4>3 DEF AfterSetUp, AfterAdd
        <5>2. clean[<<"connector", s>>][1] = "done"
          BY <1>m, <3>1, <3>3, <4>3 DEF ConnectorOK, SetUpStates
        <5> QED
          BY <2>1, <4>1, <5>1, <5>2 DEF ConnectorOK, SetUpStates
      <4> QED
        BY <1>m, <3>3, <4>2, <4>3
    <3> QED
      BY <3>2, <3>3
  <2>2. CASE x # s
    <3>1. cpc'[x] = cpc[x] /\ clean'[<<"connector", x>>]
                                = clean[<<"connector", x>>]
      BY <1>m, <1>t, <1>r, <2>2
    <3>2. ConnectorOK(x)
      BY <1>o
    <3> QED
      BY <3>1, <3>2 DEF ConnectorOK
  <2> QED
    BY <2>1, <2>2
<1>2. \A x \in Sessions : ReaderOK(x)'
  <2> SUFFICES ASSUME NEW x \in Sessions
               PROVE  ReaderOK(x)'
    OBVIOUS
  <2>0. clean'[<<"reader", x>>] = clean[<<"reader", x>>]
    BY <1>m, <1>t, <1>r, IsCleaner
  <2>1. CASE x = s
    <3>1. ReaderOK(s)
      BY <1>o
    <3>2. ASSUME NEW r \in Roles, cpc'[s] \in NotYet(r)
          PROVE  pc'[<<r, s>>] = "none" /\ cpc[s] \in NotYet(r)
      <4>1. cpc[s] \in NotYet(r)
        <5>1. CASE r = "reader"
          BY <5>1, <1>m, <1>t, <3>2 DEF NotYet, AfterSetUp, AfterAdd
        <5>2. CASE r = "writer"
          BY <5>2, <1>m, <1>t, <3>2 DEF NotYet, AfterSetUp, AfterAdd
        <5>3. CASE r = "processor"
          BY <5>3, <1>m, <1>t, <3>2 DEF NotYet, AfterSetUp, AfterAdd
        <5> QED
          BY <5>1, <5>2, <5>3
      <4>2. pc[<<r, s>>] = "none"
        BY <3>1, <4>1 DEF ReaderOK
      <4>3. \A q \in Roles :
              cpc[s] = q /\ cpc' = [cpc EXCEPT ![s] = AfterAdd[q]] => q # r
        <5>1. CASE r = "reader"
          BY <5>1, <1>t, <3>2 DEF NotYet, AfterAdd
        <5>2. CASE r = "writer"
          BY <5>2, <1>t, <3>2 DEF NotYet, AfterAdd
        <5>3. CASE r = "processor"
          BY <5>3, <1>t, <3>2 DEF NotYet, AfterAdd
        <5> QED
          BY <5>1, <5>2, <5>3
      <4>4. pc'[<<r, s>>] = pc[<<r, s>>]
        BY <1>m, <1>t, <1>r, <4>3
      <4> QED
        BY <4>1, <4>2, <4>4
    <3>3. clean[<<"reader", s>>] # <<"idle", "threads">>
            => pc'[<<"reader", s>>] \in {"exit", "gone"}
      BY <1>m, <1>t, <1>r, <3>1 DEF ReaderOK, NotYet
    <3> QED
      BY <2>0, <2>1, <3>2, <3>3 DEF ReaderOK, NotYet
  <2>2. CASE x # s
    <3>1. cpc'[x] = cpc[x] /\ \A r \in Roles : pc'[<<r, x>>] = pc[<<r, x>>]
      BY <1>m, <1>t, <1>r, <2>2
    <3>2. ReaderOK(x)
      BY <1>o
    <3> QED
      BY <2>0, <3>1, <3>2 DEF ReaderOK, NotYet
  <2> QED
    BY <2>1, <2>2
<1>3. \A t \in Threads : pc'[t] = "spawn" => t[1] = "reader"
  BY <1>m, <1>t, <1>p
<1>4. \A k \in Cleaners : clean'[k][1] \in {"stopAll", "delete", "null"}
                            => del[k] # NoSession
  BY <1>m, <1>t, <1>c DEF Fits
<1>5. HandlerOK'
  <2>1. HandlerOK
    BY DEF Fits
  <2>2. ASSUME NEW x \in Sessions
        PROVE  clean'[<<"alarm", x>>] = clean[<<"alarm", x>>]
    BY <1>m, <1>t, IsCleaner
  <2>3. ASSUME NEW t \in Threads, pc[t] \in {"top", "check"}
        PROVE  pc'[t] = pc[t]
    <3>1. ASSUME NEW r \in Roles, cpc[s] = r
          PROVE  pc[<<r, s>>] = "none"
      BY <1>o, <3>1 DEF ReaderOK, NotYet
    <3> QED
      BY <1>m, <1>t, <1>r, <2>3, <3>1
  <2>4. handler \in Handlers
    BY DEF Types
  <2> QED
    BY <1>f, <2>1, <2>2, <2>3, <2>4 DEF HandlerOK, Handlers
<1> QED
  BY <1>1, <1>2, <1>3, <1>4, <1>5, <1>f DEF Fits

LEMMA FitsThread ==
  ASSUME Types, Fits, NEW t \in Threads, Free(t), Plain(t) \/ SendStep(t)
  PROVE  Fits'
<1>t. /\ pc \in [Threads -> PcStates] /\ t[1] \in Roles /\ t[2] \in Sessions
      /\ clean \in [Cleaners -> CleanStates \X Objects]
      /\ handler \in Handlers
  BY ThreadPair DEF Types
<1>f. UNCHANGED <<cpc, del, handler>>
  BY ThreadFrame
<1>o. \A x \in Sessions : ConnectorOK(x) /\ ReaderOK(x)
  BY DEF Fits
<1>p. \A u \in Threads : pc[u] = "spawn" => u[1] = "reader"
  BY DEF Fits
<1>r. \A r \in Roles, x \in Sessions :
        /\ <<r, x>> \in Threads /\ <<"reader", x>> \in Cleaners
        /\ <<"connector", x>> \in Cleaners /\ <<"alarm", x>> \in Cleaners
  BY IsThread, IsCleaner
<1>m. ThreadMoves(t)
  BY ThreadMove
<1>c. \/ clean' = clean
      \/ /\ t[1] = "reader" /\ pc'[t] = "exit"
         /\ \E to \in Created :
              clean' = [clean EXCEPT ![<<"reader", t[2]>>] = to]
  <2>1. CASE Spawn(t)
    <3>1. /\ pc[t] = "spawn" /\ pc' = [pc EXCEPT ![t] = "exit"]
          /\ \E to \in Created :
               clean' = [clean EXCEPT ![<<"reader", t[2]>>] = to]
      BY <2>1, Zenon DEF Spawn, Goes
    <3> QED
      BY <3>1, <1>t, <1>p
  <2> QED
    BY <2>1, ThreadClean
<1>1. \A x \in Sessions : ConnectorOK(x)'
  <2>1. \A x \in Sessions :
          clean'[<<"connector", x>>] = clean[<<"connector", x>>]
    BY <1>c, <1>t, <1>r
  <2> QED
    BY <1>o, <1>f, <2>1 DEF ConnectorOK
<1>2. \A x \in Sessions : ReaderOK(x)'
  <2> SUFFICES ASSUME NEW x \in Sessions
               PROVE  ReaderOK(x)'
    OBVIOUS
  <2>0. ReaderOK(x)
    BY <1>o
  <2>1. ASSUME NEW u \in Threads, pc[u] = "none"
        PROVE  pc'[u] = "none"
    BY <2>1, <1>m, <1>t DEF ThreadMoves, Serving
  <2>2. ASSUME NEW u \in Threads, pc[u] \in {"exit", "gone"}
        PROVE  pc'[u] \in {"exit", "gone"}
    BY <2>2, <1>m, <1>t DEF ThreadMoves, Serving
  <2>3. \A r \in Roles : cpc'[x] \in NotYet(r) => pc'[<<r, x>>] = "none"
    BY <1>f, <1>r, <2>0, <2>1 DEF ReaderOK
  <2>4. clean'[<<"reader", x>>] # <<"idle", "threads">>
          => pc'[<<"reader", x>>] \in {"exit", "gone"}
    <3>1. CASE clean'[<<"reader", x>>] = clean[<<"reader", x>>]
      BY <3>1, <1>r, <2>0, <2>2 DEF ReaderOK
    <3>2. CASE clean'[<<"reader", x>>] # clean[<<"reader", x>>]
      <4>1. t[1] = "reader" /\ t[2] = x /\ pc'[t] = "exit"
        BY <3>2, <1>c, <1>t, <1>r
      <4>2. t = <<"reader", x>>
        BY <4>1, ThreadPair
      <4> QED
        BY <4>1, <4>2
    <3> QED
      BY <3>1, <3>2
  <2> QED
    BY <2>3, <2>4 DEF ReaderOK, NotYet
<1>3. \A u \in Threads : pc'[u] = "spawn" => u[1] = "reader"
  BY <1>m, <1>t, <1>p DEF ThreadMoves
<1>4. \A k \in Cleaners : clean'[k][1] \in {"stopAll", "delete", "null"}
                            => del[k] # NoSession
  <2> SUFFICES ASSUME NEW k \in Cleaners,
                      clean'[k][1] \in {"stopAll", "delete", "null"}
               PROVE  del[k] # NoSession
    OBVIOUS
  <2>1. clean'[k] = clean[k] \/ clean'[k] \in Created
    BY <1>c, <1>t, <1>r
  <2>2. clean[k][1] \in {"stopAll", "delete", "null"}
    BY <2>1 DEF Created, Denied
  <2> QED
    BY <2>2 DEF Fits
<1>5. HandlerOK'
  <2>1. HandlerOK
    BY DEF Fits
  <2>2. \A x \in Sessions : clean'[<<"alarm", x>>] = clean[<<"alarm", x>>]
    BY <1>c, <1>t, <1>r
  <2>3. handler.at # "idle" => handler.in # t
    BY DEF Free, Idle
  <2>4. ASSUME NEW u \in Threads, u # t
        PROVE  pc'[u] = pc[u]
    BY <2>4, <1>m, <1>t DEF ThreadMoves
  <2>5. handler.in \in Threads \cup {Outsider}
    BY <1>t DEF Handlers
  <2> QED
    BY <1>f, <2>1, <2>2, <2>3, <2>4, <2>5 DEF HandlerOK
<1> QED
  BY <1>1, <1>2, <1>3, <1>4, <1>5, <1>f DEF Fits

LEMMA FitsCleaner ==
  ASSUME Types, Fits, NEW k \in Cleaners,
         Wakes(k) \/ StopAll(k) \/ \E o \in Objects : CleanerStep(k, o)
  PROVE  Fits'
<1>t. /\ clean \in [Cleaners -> CleanStates \X Objects]
      /\ del \in [Cleaners -> Pointers]
  BY DEF Types
<1>f. UNCHANGED <<pc, cpc, handler>>
  BY CleanerFrame
<1>o. \A x \in Sessions : ConnectorOK(x) /\ ReaderOK(x)
  BY DEF Fits
<1>r. \A x \in Sessions :
        /\ <<"reader", x>> \in Cleaners /\ <<"connector", x>> \in Cleaners
        /\ <<"alarm", x>> \in Cleaners
  BY IsCleaner
<1> DEFINE Busy == {"stopAll", "delete", "null"}
           GoesTo(to) ==
              /\ clean[k][1] \in {"sleep", "look"} \cup Busy
              /\ clean' = [clean EXCEPT ![k] = to]
              /\ \/ /\ del' = del
                    /\ to[1] \in Busy => clean[k][1] \in Busy
                 \/ /\ del' = [del EXCEPT ![k] = NoSession]
                    /\ to[1] \notin Busy
                 \/ \E p \in Pointers : /\ p # NoSession
                                        /\ del' = [del EXCEPT ![k] = p]
<1>m. \E to \in (CleanStates \ {"idle", "sleep"}) \X Objects : GoesTo(to)
  <2>1. CASE Wakes(k)
    <3>1. /\ clean[k] = <<"sleep", "threads">> /\ del' = del
          /\ clean' = [clean EXCEPT ![k] = <<"look", "threads">>]
      BY <2>1, Zenon DEF Wakes, CleanStep
    <3>2. <<"look", "threads">>
            \in (CleanStates \ {"idle", "sleep"}) \X Objects
      BY DEF CleanStates
    <3>3. GoesTo(<<"look", "threads">>)
      BY <3>1
    <3> QED
      BY <3>2, <3>3, Zenon
  <2>2. CASE StopAll(k)
    <3>1. /\ clean[k] = <<"stopAll", "threads">> /\ del' = del
          /\ clean' = [clean EXCEPT ![k] = <<"delete", "threads">>]
      BY <2>2, Zenon DEF StopAll, CleanStep
    <3>2. <<"delete", "threads">>
            \in (CleanStates \ {"idle", "sleep"}) \X Objects
      BY DEF CleanStates
    <3>3. GoesTo(<<"delete", "threads">>)
      BY <3>1
    <3> QED
      BY <3>2, <3>3, Zenon
  <2>n. \A o \in Objects :
          /\ AfterClean[o] \in (CleanStates \ {"idle", "sleep"}) \X Objects
          /\ AfterClean[o][1] \notin {"stopAll", "delete", "null"}
    BY DEF AfterClean, CleanStates
  <2>3. ASSUME NEW o \in Objects, FindsNull(k, o)
        PROVE  /\ clean[k] = <<"look", o>> /\ del' = del
               /\ clean' = [clean EXCEPT ![k] = AfterClean[o]]
    BY <2>3, Zenon DEF FindsNull, CleanStep
  <2>4. ASSUME NEW o \in Objects, Finds(k, o)
        PROVE  /\ clean[k] = <<"look", o>> /\ ptr[o] # NoSession
               /\ clean' = [clean EXCEPT ![k] =
                    <<IF o = "threads" THEN "stopAll" ELSE "delete", o>>]
               /\ del' = [del EXCEPT ![k] = ptr[o]]
    BY <2>4, Zenon DEF Finds, CleanStep
  <2>5. ASSUME NEW o \in Objects, Delete(k, o)
        PROVE  /\ clean[k] = <<"delete", o>> /\ del' = del
               /\ clean' = [clean EXCEPT ![k] = <<"null", o>>]
    BY <2>5, Zenon DEF Delete, CleanStep
  <2>6. ASSUME NEW o \in Objects, SetsNull(k, o)
        PROVE  /\ clean[k] = <<"null", o>>
               /\ clean' = [clean EXCEPT ![k] = AfterClean[o]]
               /\ del' = [del EXCEPT ![k] = NoSession]
    BY <2>6, Zenon DEF SetsNull, CleanStep
  <2>7. ASSUME NEW o \in Objects, CleanerStep(k, o)
        PROVE  \E to \in (CleanStates \ {"idle", "sleep"}) \X Objects :
                 GoesTo(to)
    <3>1. CASE FindsNull(k, o)
      BY <2>3, <2>n, <3>1
    <3>2. CASE Finds(k, o)
      <4>1. ptr[o] \in Pointers
        BY DEF Types
      <4>2. <<IF o = "threads" THEN "stopAll" ELSE "delete", o>>
              \in (CleanStates \ {"idle", "sleep"}) \X Objects
        BY DEF CleanStates
      <4> QED
        BY <2>4, <3>2, <4>1, <4>2
    <3>3. CASE Delete(k, o)
      BY <2>5, <3>3 DEF CleanStates
    <3>4. CASE SetsNull(k, o)
      BY <2>6, <2>n, <3>4
    <3> QED
      BY <2>7, <3>1, <3>2, <3>3, <3>4 DEF CleanerStep
  <2> QED
    BY <2>1, <2>2, <2>7
<1>1. \A x \in Sessions : ConnectorOK(x)'
  <2> SUFFICES ASSUME NEW x \in Sessions
               PROVE  ConnectorOK(x)'
    OBVIOUS
  <2>1. ConnectorOK(x)
    BY <1>o
  <2>2. CASE k = <<"connector", x>>
    <3>1. cpc[x] = "socket"
      BY <1>m, <1>t, <2>1, <2>2, <1>f DEF ConnectorOK, SetUpStates,
         Types, CpcStates
    <3>2. clean'[k][1] \notin {"idle", "sleep"}
      BY <1>m, <1>t
    <3> QED
      BY <1>f, <2>2, <3>1, <3>2 DEF ConnectorOK, SetUpStates
  <2>3. CASE k # <<"connector", x>>
    <3>1. clean'[<<"connector", x>>] = clean[<<"connector", x>>]
      BY <1>m, <1>t, <1>r, <2>3
    <3> QED
      BY <1>f, <2>1, <3>1 DEF ConnectorOK
  <2> QED
    BY <2>2, <2>3
<1>2. \A x \in Sessions : ReaderOK(x)'
  <2> SUFFICES ASSUME NEW x \in Sessions
               PROVE  ReaderOK(x)'
    OBVIOUS
  <2>1. ReaderOK(x)
    BY <1>o
  <2>2. clean'[<<"reader", x>>] # <<"idle", "threads">>
          => clean[<<"reader", x>>] # <<"idle", "threads">>
    <3>1. PICK to \in (CleanStates \ {"idle", "sleep"}) \X Objects : GoesTo(to)
      BY <1>m, Zenon
    <3>2. CASE k = <<"reader", x>>
      BY <3>1, <3>2
    <3>3. CASE k # <<"reader", x>>
      <4>1. clean' = [clean EXCEPT ![k] = to]
        BY <3>1
      <4> QED
        BY <4>1, <3>3, <1>t, <1>r
    <3> QED
      BY <3>2, <3>3
  <2> QED
    BY <1>f, <2>1, <2>2 DEF ReaderOK, NotYet
<1>3. \A u \in Threads : pc'[u] = "spawn" => u[1] = "reader"
  BY <1>f DEF Fits
<1>4. \A x \in Cleaners : clean'[x][1] \in {"stopAll", "delete", "null"}
                            => del'[x] # NoSession
  <2> SUFFICES ASSUME NEW x \in Cleaners,
                      clean'[x][1] \in {"stopAll", "delete", "null"}
               PROVE  del'[x] # NoSession
    OBVIOUS
  <2>1. clean[x][1] \in {"stopAll", "delete", "null"} => del[x] # NoSession
    BY DEF Fits
  <2> QED
    BY <1>m, <1>t, <2>1
<1>5. HandlerOK'
  <2>1. HandlerOK
    BY DEF Fits
  <2>2. ASSUME NEW x \in Sessions,
               clean[<<"alarm", x>>] = <<"idle", "threads">>
        PROVE  clean'[<<"alarm", x>>] = <<"idle", "threads">>
    <3>1. PICK to \in (CleanStates \ {"idle", "sleep"}) \X Objects : GoesTo(to)
      BY <1>m, Zenon
    <3>2. k # <<"alarm", x>>
      BY <3>1, <2>2
    <3>3. clean' = [clean EXCEPT ![k] = to]
      BY <3>1
    <3> QED
      BY <3>2, <3>3, <2>2, <1>t, <1>r
  <2> QED
    BY <1>f, <2>1, <2>2 DEF HandlerOK
<1> QED
  BY <1>1, <1>2, <1>3, <1>4, <1>5 DEF Fits

LEMMA FitsHandler ==
  ASSUME Types, Fits, HandlerActs
  PROVE  Fits'
<1>t. /\ pc \in [Threads -> PcStates]
      /\ clean \in [Cleaners -> CleanStates \X Objects]
      /\ handler \in Handlers /\ alarm \in Pointers
  BY DEF Types
<1>f. UNCHANGED <<cpc, del>>
  BY HandlerFrame
<1>o. \A x \in Sessions : ConnectorOK(x) /\ ReaderOK(x)
  BY DEF Fits
<1>p. \A u \in Threads : pc[u] = "spawn" => u[1] = "reader"
  BY DEF Fits
<1>h. HandlerOK
  BY DEF Fits
<1>k. \A k \in Cleaners : clean[k][1] \in {"stopAll", "delete", "null"}
                            => del[k] # NoSession
  BY DEF Fits
<1>r. \A x \in Sessions :
        /\ <<"reader", x>> \in Cleaners /\ <<"connector", x>> \in Cleaners
        /\ <<"alarm", x>> \in Cleaners
  BY IsCleaner
<1>a. ASSUME UNCHANGED <<pc, clean>>, HandlerOK'
      PROVE  Fits'
  BY <1>a, <1>f, <1>o, <1>p, <1>k DEF Fits, ConnectorOK, ReaderOK, NotYet
<1>1. ASSUME NEW t \in Threads \cup {Outsider}, AlarmFires(t)
      PROVE  Fits'
  <2>1. /\ UNCHANGED <<pc, clean>> /\ alarm # NoSession
        /\ t # Outsider => pc[t] \in {"top", "check"}
        /\ clean[<<"alarm", alarm>>] = <<"idle", "threads">>
        /\ handler' \in {Idle, [at |-> "look", in |-> t, for |-> alarm,
                                q |-> NoSession]}
    BY <1>1 DEF AlarmFires
  <2>2. alarm \in Sessions
    BY <1>t, <2>1 DEF Pointers
  <2>3. HandlerOK'
    BY <2>1, <2>2 DEF HandlerOK, Idle
  <2> QED
    BY <1>a, <2>1, <2>3
<1>2. CASE HandlerLooks
  <2>1. /\ UNCHANGED <<pc, clean>> /\ handler.at = "look"
        /\ handler' = [handler EXCEPT !.at = "add", !.q = ptr["cmdout"]]
    BY <1>2, Zenon DEF HandlerLooks
  <2>2. HandlerOK'
    BY <1>t, <1>h, <2>1 DEF HandlerOK, Handlers
  <2> QED
    BY <1>a, <2>1, <2>2
<1>3. CASE HandlerAdds
  <2>1. /\ UNCHANGED <<pc, clean>> /\ handler.at = "add"
        /\ handler' = [handler EXCEPT !.at = "spawn"]
    BY <1>3, Zenon DEF HandlerAdds, HandlerStep
  <2>2. HandlerOK'
    BY <1>t, <1>h, <2>1 DEF HandlerOK, Handlers
  <2> QED
    BY <1>a, <2>1, <2>2
<1>4. CASE HandlerSpawns
  <2>1. /\ pc' = pc /\ handler.at = "spawn"
        /\ handler' = [handler EXCEPT !.at = "exit"]
        /\ \E to \in Created :
             clean' = [clean EXCEPT ![<<"alarm", handler.for>>] = to]
    BY <1>4, Zenon DEF HandlerSpawns, HandlerStep
  <2>2. HandlerOK'
    BY <1>t, <1>h, <2>1 DEF HandlerOK, Handlers
  <2>3. handler.for \in Sessions
    BY <1>h, <2>1 DEF HandlerOK
  <2>4. \A x \in Sessions :
          /\ clean'[<<"connector", x>>] = clean[<<"connector", x>>]
          /\ clean'[<<"reader", x>>] = clean[<<"reader", x>>]
    BY <1>t, <1>r, <2>1, <2>3
  <2>5. \A x \in Sessions : ConnectorOK(x)' /\ ReaderOK(x)'
    <3>1. \A x \in Sessions : ConnectorOK(x)'
      BY <1>f, <1>o, <2>1, <2>4 DEF ConnectorOK
    <3>2. \A x \in Sessions : ReaderOK(x)'
      BY <1>f, <1>o, <2>1, <2>4 DEF ReaderOK, NotYet
    <3> QED
      BY <3>1, <3>2
  <2>6. \A k \in Cleaners : clean'[k][1] \in {"stopAll", "delete", "null"}
                            => del[k] # NoSession
    BY <1>t, <1>k, <2>1 DEF Created, Denied
  <2> QED
    BY <1>f, <1>p, <2>1, <2>2, <2>5, <2>6 DEF Fits
<1>5. CASE HandlerExits
  <2>1. /\ handler' = Idle /\ handler.at = "exit" /\ clean' = clean
        /\ pc' = pc \/ pc' = [pc EXCEPT ![handler.in] = "gone"]
    BY <1>5, Zenon DEF HandlerExits
  <2>2. HandlerOK'
    BY <2>1 DEF HandlerOK, Idle
  <2>3. ASSUME NEW u \in Threads
        PROVE  \/ pc'[u] = pc[u]
               \/ pc'[u] = "gone" /\ pc[u] \in {"top", "check"}
    <3>1. u # Outsider
      BY DEF Members
    <3>2. CASE handler.in = u
      <4>1. pc[u] \in {"top", "check"}
        BY <1>h, <2>1, <3>1, <3>2 DEF HandlerOK
      <4> QED
        BY <1>t, <2>1, <3>2, <4>1
    <3>3. CASE handler.in # u
      <4>1. pc \in [Threads -> PcStates]
        BY <1>t
      <4>2. pc' = pc \/ pc' = [pc EXCEPT ![handler.in] = "gone"]
        BY <2>1
      <4>3. pc'[u] = pc[u]
        BY <3>3, <4>1, <4>2
      <4> QED
        BY <4>3
    <3> QED
      BY <3>2, <3>3
  <2>4. \A x \in Sessions, r \in Roles : <<r, x>> \in Threads
    BY IsThread
  <2>5. \A x \in Sessions : ConnectorOK(x)'
    BY <1>f, <1>o, <2>1 DEF ConnectorOK
  <2>6. ASSUME NEW x \in Sessions
        PROVE  ReaderOK(x)'
    <3>1. ReaderOK(x)
      BY <1>o
    <3>2. \A r \in Roles : pc[<<r, x>>] = "none" => pc'[<<r, x>>] = "none"
      BY <2>3, <2>4
    <3>3. pc[<<"reader", x>>] \in {"exit", "gone"}
             => pc'[<<"reader", x>>] \in {"exit", "gone"}
      BY <2>3, <2>4
    <3> QED
      BY <1>f, <2>1, <3>1, <3>2, <3>3 DEF ReaderOK, NotYet
  <2>7. \A u \in Threads : pc'[u] = "spawn" => u[1] = "reader"
    BY <1>p, <2>3
  <2> QED
    BY <1>f, <1>k, <2>1, <2>2, <2>5, <2>6, <2>7 DEF Fits
<1> QED
  BY <1>1, <1>2, <1>3, <1>4, <1>5, Zenon DEF HandlerActs, Handler

LEMMA FitsStep ==
  ASSUME TypeOK, Fits, Next
  PROVE  Fits'
<1>t. Types
  BY TypeParts, Zenon
<1>1. ASSUME NEW s \in Sessions, PeerLeaves(s)
      PROVE  Fits'
  <2>1. UNCHANGED <<cpc, pc, clean, del, handler>>
    BY <1>1, Zenon DEF PeerLeaves, threadVars, alarmVars
  <2> QED
    BY <2>1 DEF Fits, ConnectorOK, ReaderOK, NotYet, HandlerOK
<1> QED
  BY <1>t, <1>1, FitsConnector, FitsThread, FitsCleaner, FitsHandler,
     StepCases, Zenon

-----------------------------------------------------------------------------
(* What being alone means, and what follows from it.                       *)

LEMMA InsideIs ==
  ASSUME Types, Fits, NEW k \in Cleaners
  PROVE  /\ CleansNow(k) => k \in Inside
         /\ CleansNow(k) /\ k[1] = "connector" => cpc[k[2]] = "socket"
         /\ k[1] = "connector" => clean[k][1] # "sleep"
<1>1. k[2] \in Sessions /\ k = <<k[1], k[2]>>
  BY CleanerPair
<1>2. CASE k[1] = "connector"
  <2>1. ConnectorOK(k[2]) /\ cpc[k[2]] \in CpcStates
    BY <1>1 DEF Fits, Types
  <2>2. k = <<"connector", k[2]>>
    BY <1>1, <1>2
  <2> QED
    BY <1>2, <2>1, <2>2
       DEF ConnectorOK, CpcStates, SetUpStates, CleansNow, Inside
<1>3. CASE k[1] # "connector"
  BY <1>3 DEF Inside, CleansNow
<1> QED
  BY <1>2, <1>3

LEMMA Solo ==
  ASSUME Types, Fits, Alone
  PROVE  /\ \A k, c \in Cleaners : CleansNow(k) /\ CleansNow(c) => k = c
         /\ \A k \in Cleaners, s \in Sessions :
              CleansNow(k) /\ cpc[s] \notin {"none", "done"}
                => k = <<"connector", s>> /\ cpc[s] = "socket"
         /\ \A s, x \in Sessions :
              cpc[s] \notin {"none", "done"} /\ cpc[x] \notin {"none", "done"}
                => s = x
         /\ handler # Idle /\ handler.in = Outsider =>
              /\ \A k \in Cleaners : ~CleansNow(k)
              /\ \A s \in Sessions : cpc[s] \in {"none", "done"}
<1>1. \A k, c \in Cleaners : CleansNow(k) /\ CleansNow(c) => k = c
  BY InsideIs, Zenon DEF Alone
<1>c. ASSUME NEW s \in Sessions, cpc[s] \notin {"none", "done"}
      PROVE  <<"connector", s>> \in Inside
  BY <1>c, IsCleaner DEF Inside
<1>2. ASSUME NEW k \in Cleaners, NEW s \in Sessions,
             CleansNow(k), cpc[s] \notin {"none", "done"}
      PROVE  k = <<"connector", s>> /\ cpc[s] = "socket"
  <2>1. k = <<"connector", s>>
    BY <1>2, <1>c, InsideIs, Zenon DEF Alone
  <2>2. k[1] = "connector" /\ k[2] = s
    BY <2>1
  <2> QED
    BY <1>2, <2>1, <2>2, InsideIs
<1>3. ASSUME NEW s \in Sessions, NEW x \in Sessions,
             cpc[s] \notin {"none", "done"}, cpc[x] \notin {"none", "done"}
      PROVE  s = x
  <2>1. <<"connector", s>> = <<"connector", x>>
    BY <1>3, <1>c, Zenon DEF Alone
  <2> QED
    BY <2>1
<1>4. ASSUME handler # Idle, handler.in = Outsider
      PROVE  /\ \A k \in Cleaners : ~CleansNow(k)
             /\ \A s \in Sessions : cpc[s] \in {"none", "done"}
  <2>1. <<"handler">> \in Inside
    BY <1>4 DEF Inside
  <2>2. \A k \in Cleaners : k # <<"handler">>
    BY DEF Cleaners
  <2>3. \A k \in Cleaners : ~CleansNow(k)
    BY <2>1, <2>2, InsideIs, Zenon DEF Alone
  <2>4. ASSUME NEW s \in Sessions, cpc[s] \notin {"none", "done"}
        PROVE  FALSE
    <3>1. <<"connector", s>> = <<"handler">>
      BY <2>1, <2>4, <1>c, Zenon DEF Alone
    <3> QED
      BY <2>2, <3>1, IsCleaner
  <2> QED
    BY <2>3, <2>4
<1> QED
  BY <1>1, <1>2, <1>3, <1>4

(* What is not yet overlapped: Sound without misuse.                       *)
Calm ==
  Orderly /\ Kept /\ (\A t \in Threads : ThreadOK(t)) /\ HandlerSees

(* Whoever takes the signal, what the handler finds is not gone.           *)
LEMMA HandlerSafe ==
  ASSUME Types, Fits, Alone, Calm, handler # Idle, NEW o \in Objects,
         ptr[o] # NoSession
  PROVE  ptr[o] \notin freed[o]
<1>1. CASE handler.in = Outsider
  <2>1. Whole
    BY <1>1, Solo DEF Calm, Orderly, SetsUp
  <2> QED
    BY <2>1 DEF Whole, Current, Nothing
<1>2. CASE handler.in # Outsider
  <2>1. handler.in \in Threads
    BY <1>2 DEF Types, Handlers
  <2>2. pc[handler.in] \in {"top", "check"}
    BY <1>2 DEF Fits, HandlerOK
  <2>3. Current(handler.in[2])
    BY <2>1, <2>2 DEF Calm, ThreadOK, Alive
  <2> QED
    BY <2>3 DEF Current
<1> QED
  BY <1>1, <1>2

(* When no thread is alive and somebody is inside, the handler is not      *)
(* about to use what it saw.                                               *)
LEMMA HandlerAway ==
  ASSUME Types, Fits, Alone, \A t \in Threads : ~Alive(t),
         \/ \E k \in Cleaners : CleansNow(k)
         \/ \E s \in Sessions : cpc[s] \notin {"none", "done"}
  PROVE  handler.at # "add"
<1> SUFFICES ASSUME handler.at = "add"
             PROVE  FALSE
  OBVIOUS
<1>1. handler # Idle
  BY DEF Idle
<1>2. handler.in # Outsider
  BY <1>1, Solo
<1>3. handler.in \in Threads /\ pc[handler.in] \in {"top", "check"}
  BY <1>2 DEF Types, Handlers, Fits, HandlerOK
<1> QED
  BY <1>3 DEF Alive

(* Steps that leave the globals and the cleaners that are at work alone.   *)
LEMMA OrderFrame ==
  ASSUME Orderly, Kept, UNCHANGED <<ptr, freed, cpc, notice, del>>,
         \A k \in Cleaners : \/ clean'[k] = clean[k]
                             \/ ~CleansNow(k) /\ ~CleansNow(k)',
         \A s \in Sessions : clean'[<<"connector", s>>]
                               = clean[<<"connector", s>>]
  PROVE  Orderly' /\ Kept'
<1>1. \A k \in Cleaners : /\ CleansNow(k)' <=> CleansNow(k)
                          /\ CleansNow(k) => clean'[k] = clean[k]
  BY DEF CleansNow
<1>2. \A s \in Sessions : SetsUp(s)' <=> SetsUp(s)
  BY DEF SetsUp
<1>3. \A s \in Sessions : Current(s)' <=> Current(s)
  BY DEF Current
<1>4. Whole' <=> Whole
  BY <1>3 DEF Whole
<1>5. ASSUME NEW k \in Cleaners, CleansNow(k)'
      PROVE  CleanShape(k, clean[k][1], clean[k][2])'
  <2>1. CleanShape(k, clean[k][1], clean[k][2])
    BY <1>1, <1>5 DEF Orderly
  <2>2. clean'[k] = clean[k]
    BY <1>1, <1>5
  <2> QED
    BY <2>1, <2>2 DEF CleanShape, LeftOf
<1>6. \A s \in Sessions : SetUpShape(s) => SetUpShape(s)'
  BY DEF SetUpShape
<1>7. Orderly'
  BY <1>1, <1>2, <1>3, <1>4, <1>5, <1>6 DEF Orderly
<1>8. Kept'
  BY DEF Kept
<1> QED
  BY <1>7, <1>8

-----------------------------------------------------------------------------
(* The connector's steps.                                                  *)

LEMMA SafeArrive ==
  ASSUME Types, Fits, Calm, NEW s \in Sessions, Arrive(s) \/ Notify(s)
  PROVE  ~misuse' /\ Calm'
<1>t. /\ cpc \in [Sessions -> CpcStates] /\ notice \in [Sessions -> Pointers]
      /\ ptr \in [Objects -> Pointers]
  BY DEF Types
<1>m. ~misuse'
  BY Zenon DEF Arrive, Notify, Safe
<1>1. /\ UNCHANGED <<ptr, freed, list, pc, inCall, bufreader, clean, del,
                     handler>>
      /\ cpc[s] \in {"none", "notify"}
      /\ \/ cpc' = [cpc EXCEPT ![s] = "notify"] /\ notice' = notice
         \/ /\ cpc' = [cpc EXCEPT ![s] = "sendPackage"]
            /\ notice' = [notice EXCEPT ![s] =
                            IF ptr["socket"] = NoSession THEN NoSession
                                                         ELSE ptr["cmdout"]]
  BY DEF Arrive, Notify, Connects, groupVars, threadVars, alarmVars
<1>2. \A x \in Sessions : cpc'[x] = cpc[x] \/ x = s
  BY <1>1, <1>t
<1>3. cpc[s] \notin Objects \cup Roles \cup {"done"}
        /\ cpc'[s] \notin Objects \cup Roles \cup {"done"}
  BY <1>1, <1>t
<1>4. \A k \in Cleaners : CleansNow(k)' <=> CleansNow(k)
  BY <1>1 DEF CleansNow
<1>5. \A x \in Sessions : SetsUp(x)' <=> SetsUp(x)
  BY <1>1, <1>2, <1>3 DEF SetsUp
<1>6. \A x \in Sessions : Current(x)' <=> Current(x)
  BY <1>1 DEF Current
<1>7. Whole' <=> Whole
  BY <1>1, <1>6 DEF Whole
<1>8. ASSUME NEW k \in Cleaners, CleansNow(k)'
      PROVE  CleanShape(k, clean[k][1], clean[k][2])'
  <2>1. CleanShape(k, clean[k][1], clean[k][2])
    BY <1>4, <1>8 DEF Calm, Orderly
  <2> QED
    BY <1>1, <2>1 DEF CleanShape, LeftOf
<1>9. ASSUME NEW x \in Sessions, SetsUp(x)'
      PROVE  SetUpShape(x)'
  <2>1. SetUpShape(x) /\ x # s
    BY <1>3, <1>5, <1>9 DEF Calm, Orderly, SetsUp
  <2> QED
    BY <1>1, <1>2, <2>1 DEF SetUpShape
<1>10. \A x \in Sessions : cpc'[x] \in Roles => Current(x)'
  BY <1>2, <1>3, <1>6 DEF Calm, Orderly
<1>11. Orderly'
  BY <1>4, <1>5, <1>7, <1>8, <1>9, <1>10 DEF Calm, Orderly
<1>12. Kept'
  <2>1. \A o \in Objects : \A x \in freed[o] : x \in Sessions
    BY DEF Types
  <2>2. \A o \in Objects : \A x \in freed'[o] : cpc'[x] = "done"
    BY <1>1, <1>2, <1>3, <2>1 DEF Calm, Kept
  <2>3. \A o \in Objects : ptr'[o] # NoSession
                          => cpc'[ptr'[o]] \in SetUpStates \cup {"done"}
    BY <1>1, <1>2, <1>3, <1>t DEF Calm, Kept, Pointers, SetUpStates
  <2>4. \A x \in Sessions : cpc'[x] = "sendPackage"
                           => notice'[x] \in {NoSession, ptr'["cmdout"]}
    BY <1>1, <1>2, <1>3, <1>t DEF Calm, Kept
  <2> QED
    BY <2>2, <2>3, <2>4 DEF Kept
<1>13. \A t \in Threads : ThreadOK(t)'
  BY <1>1 DEF Calm, ThreadOK, Alive, Current
<1>14. HandlerSees'
  BY <1>1 DEF Calm, HandlerSees
<1> QED
  BY <1>m, <1>11, <1>12, <1>13, <1>14 DEF Calm

LEMMA SafeNotifyAdd ==
  ASSUME Types, Fits, Alone, Calm, NEW s \in Sessions, NotifyAdd(s)
  PROVE  ~misuse' /\ Calm'
<1>t. /\ cpc \in [Sessions -> CpcStates] /\ notice \in [Sessions -> Pointers]
      /\ ptr \in [Objects -> Pointers]
      /\ clean \in [Cleaners -> CleanStates \X Objects]
  BY DEF Types
<1>1. /\ UNCHANGED <<ptr, freed, list, pc, inCall, bufreader, del, handler>>
      /\ cpc[s] = "sendPackage"
      /\ cpc' = [cpc EXCEPT ![s] = "socket"]
      /\ notice' = [notice EXCEPT ![s] = NoSession]
      /\ clean' = [clean EXCEPT ![<<"connector", s>>] = <<"look", "threads">>]
  BY DEF NotifyAdd, Connects, groupVars, threadVars, alarmVars
<1>c. <<"connector", s>> \in Cleaners
  BY IsCleaner
<1>2. (\A k \in Cleaners : ~CleansNow(k)) /\ (\A x \in Sessions : ~SetsUp(x))
  BY <1>1, Solo DEF SetsUp
<1>3. Whole
  BY <1>2 DEF Calm, Orderly
<1>m. ~misuse'
  <2>1. notice[s] \in {NoSession, ptr["cmdout"]}
    BY <1>1 DEF Calm, Kept
  <2>2. notice[s] = NoSession \/ notice[s] \notin freed["cmdout"]
    BY <1>3, <2>1 DEF Whole, Current, Nothing
  <2> QED
    BY <2>2, Zenon DEF NotifyAdd, Safe, Uses
<1>4. \A x \in Sessions : cpc'[x] = cpc[x] \/ x = s
  BY <1>1, <1>t
<1>5. \A x \in Sessions : cpc[x] \in {"none", "done"} \/ x = s
  BY <1>1, Solo
<1>6. \A k \in Cleaners : CleansNow(k)' => k = <<"connector", s>>
  <2>1. \A k \in Cleaners : k # <<"connector", s>> => clean'[k] = clean[k]
    BY <1>1, <1>t
  <2> QED
    BY <1>2, <2>1 DEF CleansNow
<1>7. clean'[<<"connector", s>>] = <<"look", "threads">> /\ cpc'[s] = "socket"
  BY <1>1, <1>t, <1>c
<1>8. CleanShape(<<"connector", s>>, "look", "threads")'
  BY <1>1, <1>3 DEF Whole, Current, CleanShape, LeftOf, Deleted, Nothing
<1>9. \A x \in Sessions : ~SetsUp(x)' /\ cpc'[x] \notin Roles
  BY <1>4, <1>5, <1>7 DEF SetsUp
<1>10. Orderly'
  <2>1. CleansNow(<<"connector", s>>)'
    BY <1>7 DEF CleansNow
  <2> QED
    BY <1>c, <1>6, <1>7, <1>8, <1>9, <2>1 DEF Orderly
<1>12. Kept'
  <2>1. \A o \in Objects : \A x \in freed[o] : x \in Sessions
    BY DEF Types
  <2>2. \A o \in Objects : \A x \in freed'[o] : cpc'[x] = "done"
    BY <1>1, <1>4, <2>1 DEF Calm, Kept
  <2>3. \A o \in Objects : ptr'[o] # NoSession
                          => cpc'[ptr'[o]] \in SetUpStates \cup {"done"}
    BY <1>1, <1>4, <1>t DEF Calm, Kept, Pointers, SetUpStates
  <2>4. \A x \in Sessions : cpc'[x] # "sendPackage"
    BY <1>4, <1>5, <1>7
  <2> QED
    BY <2>2, <2>3, <2>4 DEF Kept
<1>13. \A t \in Threads : ThreadOK(t)'
  BY <1>1 DEF Calm, ThreadOK, Alive, Current
<1>14. HandlerSees'
  BY <1>1 DEF Calm, HandlerSees
<1> QED
  BY <1>m, <1>10, <1>12, <1>13, <1>14 DEF Calm

LEMMA SafeSetUp ==
  ASSUME Types, Fits, Alone, Calm, NEW s \in Sessions, NEW o \in Objects,
         SetUp(s, o)
  PROVE  ~misuse' /\ Calm'
<1>t. /\ cpc \in [Sessions -> CpcStates] /\ ptr \in [Objects -> Pointers]
      /\ freed \in [Objects -> SUBSET Sessions]
  BY DEF Types
<1>m. ~misuse'
  BY Zenon DEF SetUp, Safe
<1>1. /\ UNCHANGED <<freed, list, pc, inCall, bufreader, del, handler, notice,
                     clean>>
      /\ clean[<<"connector", s>>][1] = "done"
      /\ cpc[s] = o
      /\ cpc' = [cpc EXCEPT ![s] = AfterSetUp[o]]
      /\ ptr' = [ptr EXCEPT ![o] = s]
  BY DEF SetUp, Connects, groupVars, threadVars, alarmVars
<1>2. SetsUp(s) /\ SetUpShape(s)
  BY <1>1 DEF SetsUp, Calm, Orderly
<1>3. \A k \in Cleaners : ~CleansNow(k)
  BY <1>1, Solo DEF CleansNow
<1>4. \A x \in Sessions : x = s \/ cpc[x] \in {"none", "done"}
  BY <1>1, Solo
<1>5. \A x \in Sessions : cpc'[x] = cpc[x] \/ x = s
  BY <1>1, <1>t
<1>6. cpc'[s] = AfterSetUp[o] /\ \A p \in Objects :
        ptr'[p] = IF p \in Made(o) \cup {o} THEN s ELSE NoSession
  BY <1>1, <1>2, <1>t DEF SetUpShape
<1>7. \A p \in Objects : s \notin freed[p]
  BY <1>1, <1>t DEF Calm, Kept
<1>8. \A t \in Threads : ~Alive(t)
  <2> SUFFICES ASSUME NEW t \in Threads, Alive(t)
               PROVE  FALSE
    OBVIOUS
  <2>1. t[2] \in Sessions /\ ptr[o] = t[2]
    BY ThreadPair DEF Calm, ThreadOK, Current
  <2>2. ptr[o] = NoSession
    BY <1>1, <1>2 DEF SetUpShape, Made
  <2> QED
    BY <2>1, <2>2
<1>9. \A k \in Cleaners : ~CleansNow(k)'
  BY <1>1, <1>3 DEF CleansNow
<1>10. cpc'[s] \in Objects => SetUpShape(s)'
  <2>1. CASE o = "socket"
    BY <1>6, <2>1 DEF SetUpShape, Made, AfterSetUp
  <2>2. CASE o = "cmdin"
    BY <1>6, <2>2 DEF SetUpShape, Made, AfterSetUp
  <2>3. CASE o = "cmdout"
    BY <1>6, <2>3 DEF SetUpShape, Made, AfterSetUp
  <2>4. CASE o = "threads"
    BY <1>6, <2>4 DEF AfterSetUp
  <2> QED
    BY <2>1, <2>2, <2>3, <2>4
<1>11. cpc'[s] \notin Objects => cpc'[s] = "reader" /\ Current(s)'
  <2>1. cpc'[s] \notin Objects => o = "threads"
    BY <1>6 DEF AfterSetUp
  <2>2. CASE o = "threads"
    BY <1>1, <1>6, <1>7, <2>2 DEF AfterSetUp, Made, Current
  <2> QED
    BY <2>1, <2>2
<1>12. Orderly'
  <2>1. \A x \in Sessions : SetsUp(x)' => x = s /\ cpc'[s] \in Objects
    BY <1>4, <1>5 DEF SetsUp
  <2>2. cpc'[s] \in Objects => SetsUp(s)'
    BY <1>1 DEF SetsUp
  <2>3. \A x \in Sessions :
          cpc'[x] \in Roles => x = s /\ cpc'[s] \notin Objects
    BY <1>4, <1>5
  <2>4. cpc'[s] \notin Objects => Whole'
    BY <1>11 DEF Whole
  <2> QED
    BY <1>9, <1>10, <1>11, <2>1, <2>2, <2>3, <2>4 DEF Orderly
<1>13. Kept'
  <2>1. \A p \in Objects : \A x \in freed[p] : x \in Sessions
    BY <1>t
  <2>2. \A p \in Objects : \A x \in freed'[p] : cpc'[x] = "done"
    BY <1>1, <1>5, <1>7, <2>1 DEF Calm, Kept
  <2>3. \A p \in Objects : ptr'[p] # NoSession => ptr'[p] = s
    BY <1>6
  <2>4. cpc'[s] \in SetUpStates
    BY <1>6 DEF AfterSetUp, SetUpStates
  <2>5. \A x \in Sessions : cpc'[x] # "sendPackage"
    BY <1>4, <1>5, <2>4 DEF SetUpStates
  <2> QED
    BY <2>2, <2>3, <2>4, <2>5 DEF Kept
<1>14. \A t \in Threads : ThreadOK(t)'
  BY <1>1, <1>8 DEF Calm, ThreadOK, Alive
<1>15. HandlerSees'
  <2>1. handler.at # "add"
    BY <1>1, <1>8, HandlerAway
  <2> QED
    BY <1>1, <2>1 DEF HandlerSees
<1> QED
  BY <1>m, <1>12, <1>13, <1>14, <1>15 DEF Calm

LEMMA SafeAdded ==
  ASSUME Types, Fits, Alone, Calm, NEW s \in Sessions, NEW r \in Roles,
         Added(s, r) \/ NotAdded(s, r)
  PROVE  ~misuse' /\ Calm'
<1>t. /\ cpc \in [Sessions -> CpcStates] /\ pc \in [Threads -> PcStates]
      /\ ptr \in [Objects -> Pointers] /\ list \in [Sessions -> SUBSET Members]
      /\ freed \in [Objects -> SUBSET Sessions]
  BY DEF Types
<1>1. cpc[s] = r /\ cpc' = [cpc EXCEPT ![s] = AfterAdd[r]]
  BY Zenon DEF Added, NotAdded, Connects
<1>2. Current(s)
  BY <1>1 DEF Calm, Orderly
<1>3. ptr["threads"] = s /\ s \notin freed["threads"] /\ s # NoSession
  BY <1>2 DEF Current
<1>m. ~misuse'
  BY <1>3, Zenon DEF Added, NotAdded, Uses, Safe
<1>4. /\ UNCHANGED <<ptr, freed, inCall, bufreader, del, handler, notice,
                     clean>>
      /\ \/ UNCHANGED <<pc, list>>
         \/ /\ list' = [list EXCEPT ![s] = @ \cup {<<r, s>>}]
            /\ pc' = [pc EXCEPT ![<<r, s>>] = "created"]
  <2>1. CASE Added(s, r)
    <3>1. /\ UNCHANGED <<ptr, freed, inCall, bufreader, del, alarmVars, notice,
                         clean>>
          /\ list' = [list EXCEPT ![ptr["threads"]] = @ \cup {<<r, s>>}]
          /\ pc' = [pc EXCEPT ![<<r, s>>] = "created"]
      BY <2>1, Zenon DEF Added
    <3> QED
      BY <1>3, <3>1 DEF alarmVars
  <2>2. CASE NotAdded(s, r)
    <3>1. UNCHANGED <<ptr, freed, list, pc, inCall, bufreader, del, handler,
                      notice, clean>>
      BY <2>2, Zenon DEF NotAdded, groupVars, threadVars, alarmVars
    <3> QED
      BY <3>1
  <2> QED
    BY <2>1, <2>2
<1>5. \A x \in Sessions : x = s \/ cpc[x] \in {"none", "done"}
  BY <1>1, Solo
<1>6. \A x \in Sessions : cpc'[x] = cpc[x] \/ x = s
  BY <1>1, <1>t
<1>7. cpc'[s] \in Roles \cup {"done"}
  BY <1>1, <1>t DEF AfterAdd
<1>8. \A k \in Cleaners : ~CleansNow(k)'
  <2>1. \A k \in Cleaners : ~CleansNow(k)
    BY <1>1, Solo
  <2> QED
    BY <1>4, <2>1 DEF CleansNow
<1>9. \A x \in Sessions : ~SetsUp(x)' /\ (cpc'[x] \in Roles => x = s)
  BY <1>5, <1>6, <1>7 DEF SetsUp
<1>10. Current(s)'
  BY <1>2, <1>4 DEF Current
<1>11. Orderly'
  <2>1. Whole'
    BY <1>10 DEF Whole
  <2> QED
    BY <1>8, <1>9, <1>10, <2>1 DEF Orderly
<1>12. Kept'
  <2>1. \A o \in Objects : ptr'[o] = s /\ s \notin freed'[o]
    BY <1>10 DEF Current
  <2>2. \A o \in Objects : \A x \in freed'[o] : cpc'[x] = "done"
    BY <1>4, <1>6, <1>t, <2>1 DEF Calm, Kept
  <2>3. \A x \in Sessions : cpc'[x] # "sendPackage"
    BY <1>5, <1>6, <1>7
  <2> QED
    BY <1>7, <2>1, <2>2, <2>3 DEF Kept, SetUpStates
<1>13. ASSUME NEW t \in Threads
       PROVE  ThreadOK(t)'
  <2>1. ThreadOK(t) /\ t[2] \in Sessions
    BY ThreadPair DEF Calm
  <2>2. CASE pc'[t] = pc[t]
    <3>1. t \in list[t[2]] => t \in list'[t[2]]
      BY <1>4, <1>t, <2>1
    <3>2. Current(t[2]) => Current(t[2])'
      BY <1>4 DEF Current
    <3> QED
      BY <1>4, <2>1, <2>2, <3>1, <3>2 DEF ThreadOK, Alive
  <2>3. CASE pc'[t] # pc[t]
    <3>1. /\ t = <<r, s>> /\ pc'[t] = "created"
          /\ list' = [list EXCEPT ![s] = @ \cup {<<r, s>>}]
      BY <1>4, <1>t, <2>3
    <3>2. t[2] = s /\ t \in list'[s]
      BY <1>t, <3>1
    <3> QED
      BY <1>4, <1>10, <2>1, <3>1, <3>2 DEF ThreadOK, Alive
  <2> QED
    BY <2>2, <2>3
<1>14. HandlerSees'
  BY <1>4 DEF Calm, HandlerSees
<1> QED
  BY <1>m, <1>11, <1>12, <1>13, <1>14 DEF Calm

-----------------------------------------------------------------------------
(* The threads' steps.                                                     *)

LEMMA ThreadSafe ==
  ASSUME Types, Fits, Calm, NEW t \in Threads, Plain(t) \/ SendStep(t)
  PROVE  ~misuse'
<1>t. pc \in [Threads -> PcStates] /\ t[2] \in Sessions /\ t[1] \in Roles
  BY ThreadPair DEF Types
<1>a. Alive(t)
  BY ThreadMove DEF ThreadMoves, Serving, Alive
<1>1. /\ \A o \in Objects : /\ ptr[o] = t[2] /\ ptr[o] # NoSession
                            /\ t[2] \notin freed[o]
      /\ inCall[t] \in {t[2], NoSession}
      /\ pc[t] = "get" => inCall[t] = t[2]
      /\ t[1] = "reader" /\ pc[t] \notin {"none", "created", "gone"}
           => bufreader[t[2]] = t[2]
  BY <1>a, <1>t DEF Calm, ThreadOK, Current
<1>2. /\ ptr["threads"] = t[2] /\ ptr["socket"] # NoSession
      /\ t[2] \notin freed["threads"] /\ t[2] \notin freed["cmdout"]
      /\ t[2] \notin freed["cmdin"] /\ t[2] # NoSession
  BY <1>1, <1>t
<1>q. QueueOf(t) \in Objects
  BY DEF QueueOf
<1>3. ptr[QueueOf(t)] # NoSession /\ t[2] \notin freed[QueueOf(t)]
  BY <1>1, <1>q
<1>4. CASE SendStep(t)
  BY <1>4, Zenon DEF SendStep, SendPackage, Safe
<1>5. CASE Start(t) \/ Writes(t) \/ WriteFails(t) \/ NoReply(t)
             \/ TellMePcId(t) \/ StopVncSession(t) \/ SeesStop(t)
             \/ LoopAgain(t) \/ Spawn(t)
  BY <1>5, Zenon DEF Start, Writes, WriteFails, NoReply, TellMePcId,
     StopVncSession, SeesStop, LoopAgain, Spawn, Safe
<1>6. CASE Registered(t) \/ Sent(t) \/ SrvIdSent(t)
  <2>1. inCall[t] = NoSession \/ inCall[t] = t[2]
    BY <1>1
  <2>2. AddsPackage(t)
    BY <1>6, Zenon DEF Registered, Sent, SrvIdSent
  <2>3. CASE inCall[t] = NoSession
    BY <2>2, <2>3, Zenon DEF AddsPackage, Safe
  <2>4. CASE inCall[t] = t[2]
    BY <2>2, <2>4, <1>2, Zenon DEF AddsPackage, Safe, Uses
  <2> QED
    BY <2>1, <2>3, <2>4
<1>7. CASE ReadTurn(t)
  <2>1. t[1] = "reader" /\ pc[t] = "top"
    BY <1>7, Zenon DEF ReadTurn, Goes
  <2>2. bufreader[t[2]] = t[2]
    BY <1>1, <2>1
  <2> QED
    BY <1>7, <1>2, <2>2, Zenon DEF ReadTurn, Safe, Uses
<1>8. CASE ReadFails(t)
  BY <1>8, <1>2, Zenon DEF ReadFails
<1>9. CASE GetPackage(t)
  BY <1>9, <1>3, Zenon DEF GetPackage
<1>10. CASE GotNothing(t) \/ GotPackage(t)
  <2>1. pc[t] = "get" /\ Uses(QueueOf(t), inCall[t])
    BY <1>10, Zenon DEF GotNothing, GotPackage, Goes
  <2>2. inCall[t] = t[2]
    BY <1>1, <2>1
  <2> QED
    BY <1>2, <1>3, <2>1, <2>2, Zenon DEF Uses
<1>11. CASE ExitThread(t)
  <2>1. Unlisted(t)
    BY <1>11, Zenon DEF ExitThread
  <2> QED
    BY <1>2, <2>1, Zenon DEF Unlisted, Uses, Safe
<1>12. CASE StartsWorker(t)
  BY <1>12, <1>2, Zenon DEF StartsWorker, Uses
<1> QED
  BY <1>4, <1>5, <1>6, <1>7, <1>8, <1>9, <1>10, <1>11, <1>12 DEF Plain

LEMMA ThreadCalm ==
  ASSUME Types, Fits, Calm, NEW t \in Threads, Plain(t) \/ SendStep(t)
  PROVE  Calm'
<1>t. /\ pc \in [Threads -> PcStates] /\ t[2] \in Sessions /\ t[1] \in Roles
      /\ list \in [Sessions -> SUBSET Members]
      /\ inCall \in [Threads -> Pointers]
      /\ bufreader \in [Sessions -> Pointers]
      /\ clean \in [Cleaners -> CleanStates \X Objects]
  BY ThreadPair DEF Types
<1>m. ThreadMoves(t)
  BY ThreadMove
<1>f. UNCHANGED <<freed, ptr, cpc, notice, del, handler>>
  BY ThreadFrame
<1>a. pc[t] \in Serving /\ pc[t] \notin {"none", "gone"}
  BY <1>m DEF ThreadMoves, Serving
<1>1. ThreadOK(t) /\ Current(t[2])
  BY <1>a DEF Calm, ThreadOK, Alive
<1>2. Orderly' /\ Kept'
  <2>1. \/ clean' = clean
        \/ /\ \E to \in Created :
                clean' = [clean EXCEPT ![<<"reader", t[2]>>] = to]
           /\ pc[t] = "spawn"
    BY ThreadClean, Zenon DEF Spawn, Goes
  <2>2. <<"reader", t[2]>> \in Cleaners
    BY <1>t, IsCleaner
  <2>3. ASSUME pc[t] = "spawn"
        PROVE  ~CleansNow(<<"reader", t[2]>>)
    <3>1. t = <<"reader", t[2]>>
      BY <2>3, ThreadPair DEF Fits
    <3>2. clean[<<"reader", t[2]>>] = <<"idle", "threads">>
      BY <1>t, <2>3, <3>1 DEF Fits, ReaderOK
    <3> QED
      BY <3>2 DEF CleansNow
  <2>4. ASSUME NEW k \in Cleaners
        PROVE  clean'[k] = clean[k] \/ (~CleansNow(k) /\ ~CleansNow(k)')
    <3>1. CASE k = <<"reader", t[2]>> /\ clean' # clean
      <4>1. clean'[k] \in Created
        BY <1>t, <2>1, <2>2, <3>1
      <4>2. ~CleansNow(k)
        BY <2>1, <2>3, <3>1
      <4> QED
        BY <4>1, <4>2 DEF CleansNow, Created, Denied
    <3>2. CASE k # <<"reader", t[2]>>
      BY <1>t, <2>1, <3>2
    <3> QED
      BY <3>1, <3>2
  <2>5. ASSUME NEW s \in Sessions
        PROVE  clean'[<<"connector", s>>] = clean[<<"connector", s>>]
    BY <1>t, <2>1, <2>2, IsCleaner
  <2>6. Orderly /\ Kept
    BY DEF Calm
  <2> QED
    BY <1>f, <2>4, <2>5, <2>6, OrderFrame
<1>3. HandlerSees'
  BY <1>f DEF Calm, HandlerSees
<1>p. \A u \in Threads : u # t => pc'[u] = pc[u]
  BY <1>m, <1>t DEF ThreadMoves
<1>l. \/ list' = list
      \/ list' = [list EXCEPT ![t[2]] = @ \ {t}] /\ pc'[t] = "gone"
      \/ list' = [list EXCEPT ![t[2]] = @ \cup {<<"worker", t[2]>>}]
  <2>1. ExitThread(t) => pc'[t] = "gone"
    BY <1>t DEF ExitThread, Goes
  <2>2. ptr["threads"] = t[2]
    BY <1>1 DEF Current
  <2> QED
    BY <2>1, <2>2, ThreadList
<1>q. /\ ptr["cmdout"] = t[2] /\ ptr["cmdin"] = t[2]
      /\ ptr[QueueOf(t)] = t[2]
  BY <1>1 DEF Current, QueueOf
<1>4. ThreadOK(t)'
  <2>1. Alive(t)' => t \in list'[t[2]] /\ Current(t[2])'
    BY <1>t, <1>a, <1>f, <1>1, <1>l DEF ThreadOK, Alive, Current
  <2>2. inCall'[t] \in {t[2], NoSession}
    BY <1>t, <1>1, <1>q, ThreadCalls DEF ThreadOK
  <2>3. pc'[t] = "get" => inCall'[t] = t[2]
    BY <1>t, <1>1, <1>q, ThreadCalls DEF ThreadOK
  <2>4. pc'[t] = "get" => t[1] \in {"writer", "processor"}
    BY <1>m, <1>t DEF ThreadMoves
  <2>5. t[1] = "reader" => bufreader'[t[2]] = t[2]
    <3>1. CASE bufreader' = bufreader /\ pc[t] # "created"
      BY <3>1, <1>a, <1>1 DEF ThreadOK
    <3>2. CASE bufreader' = [bufreader EXCEPT ![t[2]] = ptr["cmdin"]]
      BY <3>2, <1>t, <1>q
    <3> QED
      BY <3>1, <3>2, ThreadCalls
  <2> QED
    BY <2>1, <2>2, <2>3, <2>4, <2>5 DEF ThreadOK
<1>5. ASSUME NEW u \in Threads, u # t
      PROVE  ThreadOK(u)'
  <2>1. ThreadOK(u) /\ u[2] \in Sessions /\ pc'[u] = pc[u]
    BY <1>p, <1>5, ThreadPair DEF Calm
  <2>2. u \in list[u[2]] => u \in list'[u[2]]
    BY <1>t, <1>l, <1>5, <2>1
  <2>3. inCall'[u] = inCall[u]
    BY <1>t, <1>5, ThreadCalls
  <2>4. u[1] = "reader" => bufreader'[u[2]] = bufreader[u[2]]
    <3>1. u[1] = "reader" /\ t[1] = "reader" => u[2] # t[2]
      BY <1>5, ThreadPair
    <3> QED
      BY <1>t, <2>1, <3>1, ThreadCalls
  <2>5. Current(u[2]) => Current(u[2])'
    BY <1>f DEF Current
  <2> QED
    BY <2>1, <2>2, <2>3, <2>4, <2>5 DEF ThreadOK, Alive
<1> QED
  BY <1>2, <1>3, <1>4, <1>5 DEF Calm

-----------------------------------------------------------------------------
(* cleanup's steps.  Whoever wakes finds nobody else inside.               *)

(* Solo, of the next state.                                                *)
AloneMeans ==
  /\ \A c, d \in Cleaners : CleansNow(c) /\ CleansNow(d) => c = d
  /\ \A c \in Cleaners, s \in Sessions :
       CleansNow(c) /\ cpc[s] \notin {"none", "done"} => c = <<"connector", s>>

LEMMA SoloIs == Types /\ Fits /\ Alone => AloneMeans
  BY Solo DEF AloneMeans

LEMMA SafeWakes ==
  ASSUME Types, Fits, Calm, Types', Fits', Alone', NEW k \in Cleaners, Wakes(k)
  PROVE  ~misuse' /\ Calm'
<1>t. clean \in [Cleaners -> CleanStates \X Objects]
  BY DEF Types
<1>m. ~misuse'
  BY Zenon DEF Wakes, Safe
<1>1. /\ UNCHANGED <<ptr, freed, list, pc, inCall, bufreader, cpc, notice, del,
                     handler>>
      /\ clean[k] = <<"sleep", "threads">>
      /\ clean' = [clean EXCEPT ![k] = <<"look", "threads">>]
  BY DEF Wakes, CleanStep, CleanRest, groupVars, threadVars, alarmVars
<1>2. /\ clean'[k] = <<"look", "threads">> /\ CleansNow(k)' /\ ~CleansNow(k)
      /\ \A c \in Cleaners : c # k => clean'[c] = clean[c]
  BY <1>1, <1>t DEF CleansNow
<1>3. k[1] # "connector"
  BY <1>1, InsideIs
<1>4. /\ \A c \in Cleaners : CleansNow(c)' => c = k
      /\ \A s \in Sessions : cpc'[s] \in {"none", "done"}
  <2>1. /\ \A c, d \in Cleaners : CleansNow(c)' /\ CleansNow(d)' => c = d
        /\ \A c \in Cleaners, s \in Sessions :
             CleansNow(c)' /\ cpc'[s] \notin {"none", "done"}
               => c = <<"connector", s>>
    <3>1. Types' /\ Fits' /\ Alone' => AloneMeans'
      BY SoloIs, PTL
    <3> QED
      BY <3>1 DEF AloneMeans
  <2> QED
    BY <1>2, <1>3, <2>1
<1>5. \A c \in Cleaners : ~CleansNow(c)
  BY <1>2, <1>4 DEF CleansNow
<1>6. \A s \in Sessions : cpc[s] \in {"none", "done"}
  BY <1>1, <1>4
<1>7. Whole
  BY <1>5, <1>6 DEF Calm, Orderly, SetsUp
<1>8. CleanShape(k, "look", "threads")'
  BY <1>1, <1>7 DEF Whole, Current, CleanShape, LeftOf, Deleted, Nothing
<1>9. Orderly'
  <2>1. \A s \in Sessions : ~SetsUp(s)' /\ cpc'[s] \notin Roles
    BY <1>4 DEF SetsUp
  <2> QED
    BY <1>2, <1>4, <1>8, <2>1 DEF Orderly
<1>10. Kept' /\ HandlerSees'
  BY <1>1 DEF Calm, Kept, HandlerSees
<1>11. \A t \in Threads : ThreadOK(t)'
  BY <1>1 DEF Calm, ThreadOK, Alive, Current
<1> QED
  BY <1>m, <1>9, <1>10, <1>11 DEF Calm

(* After a step of the one that is at work.                                *)
LEMMA CleanerAfter ==
  ASSUME Types, Fits, Alone, NEW k \in Cleaners, CleansNow(k), NEW to,
         clean' = [clean EXCEPT ![k] = to], UNCHANGED cpc
  PROVE  /\ clean'[k] = to
         /\ \A c \in Cleaners : CleansNow(c)' => c = k
         /\ \A s \in Sessions : cpc'[s] \notin Roles \cup {"sendPackage"}
         /\ \A s \in Sessions :
              SetsUp(s)' => to[1] = "done" /\ cpc'[s] = "socket"
<1>t. clean \in [Cleaners -> CleanStates \X Objects]
  BY DEF Types
<1>1. clean'[k] = to /\ \A c \in Cleaners : c # k => clean'[c] = clean[c]
  BY <1>t
<1>2. \A c \in Cleaners : CleansNow(c) => c = k
  BY Solo
<1>3. \A s \in Sessions : cpc[s] \notin {"none", "done"}
                            => k = <<"connector", s>> /\ cpc[s] = "socket"
  BY Solo
<1>4. \A c \in Cleaners : CleansNow(c)' => c = k
  BY <1>1, <1>2 DEF CleansNow
<1>5. \A s \in Sessions : SetsUp(s)' => to[1] = "done" /\ cpc'[s] = "socket"
  BY <1>1, <1>3 DEF SetsUp
<1>6. \A s \in Sessions : cpc'[s] \notin Roles \cup {"sendPackage"}
  BY <1>3
<1> QED
  BY <1>1, <1>4, <1>5, <1>6

LEMMA NextOf ==
  ASSUME NEW o \in Objects
  PROVE  /\ o = "socket" => AfterClean[o] = <<"done", "socket">>
         /\ o # "socket" =>
              /\ AfterClean[o][1] = "look"
              /\ Deleted(AfterClean[o][2]) = Deleted(o) \cup {o}
              /\ AfterClean[o][2] \in Objects
              /\ AfterClean[o] = <<"look", AfterClean[o][2]>>
         /\ "socket" \notin Deleted(o) /\ o \notin Deleted(o)
         /\ Deleted(o) \subseteq Objects
         /\ o = "socket" => Deleted(o) \cup {o} = Objects
         /\ o # "threads" => "threads" \in Deleted(o)
  BY DEF AfterClean, Deleted

LEMMA AliveMeans ==
  ASSUME Calm, NEW t \in Threads, Alive(t)
  PROVE  /\ t[2] \in Sessions /\ t \in list[t[2]]
         /\ \A o \in Objects : ptr[o] = t[2] /\ t[2] \notin freed[o]
         /\ t[2] # NoSession
  BY ThreadPair DEF Calm, ThreadOK, Current

LEMMA SafeFindsNull ==
  ASSUME Types, Fits, Alone, Calm, NEW k \in Cleaners, NEW o \in Objects,
         FindsNull(k, o)
  PROVE  ~misuse' /\ Calm'
<1>m. ~misuse'
  BY Zenon DEF FindsNull, Safe
<1>1. /\ UNCHANGED <<ptr, freed, list, pc, inCall, bufreader, cpc, notice, del,
                     handler>>
      /\ clean[k] = <<"look", o>> /\ ptr[o] = NoSession
      /\ clean' = [clean EXCEPT ![k] = AfterClean[o]]
  BY DEF FindsNull, CleanStep, CleanRest, groupVars, threadVars, alarmVars
<1>2. CleansNow(k) /\ CleanShape(k, "look", o)
  BY <1>1 DEF CleansNow, Calm, Orderly
<1>3. ptr = Nothing
  <2>1. ASSUME NEW s \in Sessions, LeftOf(k, "look", o, s)
        PROVE  FALSE
    BY <1>1, <2>1, NextOf DEF LeftOf
  <2> QED
    BY <1>2, <2>1 DEF CleanShape
<1>4. /\ clean'[k] = AfterClean[o]
      /\ \A c \in Cleaners : CleansNow(c)' => c = k
      /\ \A s \in Sessions : cpc'[s] \notin Roles \cup {"sendPackage"}
      /\ \A s \in Sessions : SetsUp(s)' => cpc'[s] = "socket"
  BY <1>1, <1>2, CleanerAfter
<1>5. ptr' = Nothing /\ \A p \in Objects : ptr'[p] = NoSession
  BY <1>1, <1>3 DEF Nothing
<1>6. CleansNow(k)' => CleanShape(k, AfterClean[o][1], AfterClean[o][2])'
  <2>1. CASE o = "socket"
    BY <1>4, <2>1, NextOf DEF CleansNow
  <2>2. CASE o # "socket"
    <3>1. AfterClean[o][1] = "look" /\ AfterClean[o][2] \in Objects
      BY <2>2, NextOf
    <3>2. Deleted(AfterClean[o][2]) \subseteq Objects
      BY <3>1, NextOf
    <3> QED
      BY <1>5, <3>1, <3>2 DEF CleanShape
  <2> QED
    BY <2>1, <2>2
<1>7. \A s \in Sessions : SetsUp(s)' => SetUpShape(s)'
  BY <1>4, <1>5 DEF SetUpShape, Made
<1>8. Orderly'
  BY <1>4, <1>5, <1>6, <1>7 DEF Orderly, Whole
<1>9. Kept' /\ HandlerSees'
  BY <1>1 DEF Calm, Kept, HandlerSees
<1>10. \A t \in Threads : ThreadOK(t)'
  BY <1>1 DEF Calm, ThreadOK, Alive, Current
<1> QED
  BY <1>m, <1>8, <1>9, <1>10 DEF Calm

LEMMA SafeFinds ==
  ASSUME Types, Fits, Alone, Calm, NEW k \in Cleaners, NEW o \in Objects,
         Finds(k, o)
  PROVE  ~misuse' /\ Calm'
<1>m. ~misuse'
  BY Zenon DEF Finds, Safe
<1> DEFINE a == IF o = "threads" THEN "stopAll" ELSE "delete"
<1>1. /\ UNCHANGED <<ptr, freed, list, pc, inCall, bufreader, cpc, notice,
                     handler>>
      /\ clean[k] = <<"look", o>> /\ ptr[o] # NoSession
      /\ clean' = [clean EXCEPT ![k] = <<a, o>>]
      /\ del' = [del EXCEPT ![k] = ptr[o]]
  BY DEF Finds, CleanStep, CleanRest, groupVars, threadVars, alarmVars
<1>2. CleansNow(k) /\ CleanShape(k, "look", o)
  BY <1>1 DEF CleansNow, Calm, Orderly
<1>3. PICK s \in Sessions : LeftOf(k, "look", o, s)
  BY <1>1, <1>2 DEF CleanShape, Nothing
<1>4. /\ clean'[k] = <<a, o>>
      /\ \A c \in Cleaners : CleansNow(c)' => c = k
      /\ \A x \in Sessions : cpc'[x] \notin Roles \cup {"sendPackage"}
      /\ \A x \in Sessions : SetsUp(x)' => a = "done"
  <2> HIDE DEF a
  <2>1. clean' = [clean EXCEPT ![k] = <<a, o>>] /\ UNCHANGED cpc
    BY <1>1
  <2>2. /\ clean'[k] = <<a, o>>
        /\ \A c \in Cleaners : CleansNow(c)' => c = k
        /\ \A x \in Sessions : cpc'[x] \notin Roles \cup {"sendPackage"}
        /\ \A x \in Sessions : SetsUp(x)' => <<a, o>>[1] = "done"
    BY <1>2, <2>1, CleanerAfter, Zenon
  <2> QED
    BY <2>2
<1>5. del'[k] = s
  <2>1. del \in [Cleaners -> Pointers]
    BY DEF Types
  <2>2. ptr[o] = s
    BY <1>3, NextOf DEF LeftOf
  <2> QED
    BY <1>1, <2>1, <2>2
<1>6. LeftOf(k, a, o, s)'
  BY <1>1, <1>3, <1>5 DEF LeftOf
<1>7. CleanShape(k, a, o)'
  <2>1. \A p \in Deleted(o) : ptr'[p] = NoSession
    BY <1>1, <1>2 DEF CleanShape
  <2>2. a = "stopAll" => o = "threads"
    OBVIOUS
  <2> QED
    BY <1>6, <2>1, <2>2 DEF CleanShape
<1>8. CleansNow(k)' /\ a # "done"
  BY <1>4 DEF CleansNow
<1>9. Orderly'
  BY <1>4, <1>7, <1>8 DEF Orderly
<1>10. Kept' /\ HandlerSees'
  BY <1>1 DEF Calm, Kept, HandlerSees
<1>11. \A t \in Threads : ThreadOK(t)'
  BY <1>1 DEF Calm, ThreadOK, Alive, Current
<1> QED
  BY <1>m, <1>9, <1>10, <1>11 DEF Calm

LEMMA SafeStopAll ==
  ASSUME Types, Fits, Alone, Calm, NEW k \in Cleaners, StopAll(k)
  PROVE  ~misuse' /\ Calm'
<1>1. /\ UNCHANGED <<ptr, freed, list, pc, inCall, bufreader, cpc, notice,
                     handler, del>>
      /\ clean[k] = <<"stopAll", "threads">>
      /\ clean' = [clean EXCEPT ![k] = <<"delete", "threads">>]
  BY Zenon DEF StopAll, CleanStep, CleanRest, groupVars, threadVars, alarmVars
<1>2. CleansNow(k) /\ CleanShape(k, "stopAll", "threads")
  BY <1>1 DEF CleansNow, Calm, Orderly
<1>3. PICK s \in Sessions : LeftOf(k, "stopAll", "threads", s)
  BY <1>2 DEF CleanShape
<1>4. del[k] = s /\ s \notin freed["threads"] /\ s # NoSession
  BY <1>3 DEF LeftOf
<1>m. ~misuse'
  BY <1>4, Zenon DEF StopAll, Uses
<1>5. /\ clean'[k] = <<"delete", "threads">>
      /\ \A c \in Cleaners : CleansNow(c)' => c = k
      /\ \A x \in Sessions : cpc'[x] \notin Roles \cup {"sendPackage"}
      /\ \A x \in Sessions : ~SetsUp(x)'
  <2>1. clean' = [clean EXCEPT ![k] = <<"delete", "threads">>] /\ UNCHANGED cpc
    BY <1>1
  <2>2. /\ clean'[k] = <<"delete", "threads">>
        /\ \A c \in Cleaners : CleansNow(c)' => c = k
        /\ \A x \in Sessions : cpc'[x] \notin Roles \cup {"sendPackage"}
        /\ \A x \in Sessions :
             SetsUp(x)' => <<"delete", "threads">>[1] = "done"
    BY <1>2, <2>1, CleanerAfter, Zenon
  <2> QED
    BY <2>2
<1>6. CleanShape(k, "delete", "threads")'
  <2>1. LeftOf(k, "delete", "threads", s)'
    BY <1>1, <1>3, <1>4 DEF LeftOf
  <2> QED
    BY <2>1 DEF CleanShape, Deleted
<1>7. CleansNow(k)'
  BY <1>5 DEF CleansNow
<1>8. Orderly'
  BY <1>5, <1>6, <1>7 DEF Orderly
<1>9. Kept' /\ HandlerSees'
  BY <1>1 DEF Calm, Kept, HandlerSees
<1>10. \A t \in Threads : ThreadOK(t)'
  BY <1>1 DEF Calm, ThreadOK, Alive, Current
<1> QED
  BY <1>m, <1>8, <1>9, <1>10 DEF Calm

LEMMA SafeDelete ==
  ASSUME Types, Fits, Alone, Calm, NEW k \in Cleaners, NEW o \in Objects,
         Delete(k, o)
  PROVE  ~misuse' /\ Calm'
<1>t. freed \in [Objects -> SUBSET Sessions] /\ cpc \in [Sessions -> CpcStates]
  BY DEF Types
<1>1. /\ UNCHANGED <<ptr, list, pc, inCall, bufreader, cpc, notice, handler,
                     del>>
      /\ clean[k] = <<"delete", o>>
      /\ clean' = [clean EXCEPT ![k] = <<"null", o>>]
      /\ freed' = [freed EXCEPT ![o] = @ \cup {del[k]}]
      /\ o = "threads" /\ del[k] \notin freed[o] => list[del[k]] = {}
  BY Zenon DEF Delete, CleanStep, CleanRest, groupVars, threadVars, alarmVars
<1>2. CleansNow(k) /\ CleanShape(k, "delete", o)
  BY <1>1 DEF CleansNow, Calm, Orderly
<1>3. PICK s \in Sessions : LeftOf(k, "delete", o, s)
  BY <1>2 DEF CleanShape
<1>4. del[k] = s /\ s \notin freed[o] /\ s # NoSession /\ ptr[o] = s
  BY <1>3, NextOf DEF LeftOf
<1>m. ~misuse'
  BY <1>4, Zenon DEF Delete, Uses
<1>5. /\ clean'[k] = <<"null", o>>
      /\ \A c \in Cleaners : CleansNow(c)' => c = k
      /\ \A x \in Sessions : cpc'[x] \notin Roles \cup {"sendPackage"}
      /\ \A x \in Sessions : ~SetsUp(x)'
  <2>1. clean' = [clean EXCEPT ![k] = <<"null", o>>] /\ UNCHANGED cpc
    BY <1>1
  <2>2. /\ clean'[k] = <<"null", o>>
        /\ \A c \in Cleaners : CleansNow(c)' => c = k
        /\ \A x \in Sessions : cpc'[x] \notin Roles \cup {"sendPackage"}
        /\ \A x \in Sessions : SetsUp(x)' => <<"null", o>>[1] = "done"
    BY <1>2, <2>1, CleanerAfter, Zenon
  <2> QED
    BY <2>2
<1>6. /\ \A p \in Objects : p # o => freed'[p] = freed[p]
      /\ freed'[o] = freed[o] \cup {s}
  BY <1>1, <1>4, <1>t
<1>7. CleanShape(k, "null", o)'
  <2>1. \A p \in Deleted(o) : ptr'[p] = NoSession
    BY <1>1, <1>2 DEF CleanShape
  <2>2. LeftOf(k, "null", o, s)'
    BY <1>1, <1>3, <1>4, <1>6 DEF LeftOf
  <2> QED
    BY <2>1, <2>2 DEF CleanShape
<1>8. CleansNow(k)'
  BY <1>5 DEF CleansNow
<1>9. Orderly'
  BY <1>5, <1>7, <1>8 DEF Orderly
<1>10. cpc[s] = "done"
  <2>1. cpc[s] \in SetUpStates \cup {"done"}
    BY <1>4 DEF Calm, Kept
  <2>2. cpc[s] \notin {"none", "done"} => cpc[s] = "socket"
    BY <1>2, Solo
  <2> QED
    BY <2>1, <2>2 DEF SetUpStates
<1>11. Kept'
  BY <1>1, <1>6, <1>10 DEF Calm, Kept
<1>12. HandlerSees'
  BY <1>1 DEF Calm, HandlerSees
<1>13. \A t \in Threads : ~Alive(t)
  <2> SUFFICES ASSUME NEW t \in Threads, Alive(t)
               PROVE  FALSE
    OBVIOUS
  <2>1. /\ t \in list[t[2]] /\ t[2] # NoSession
        /\ \A p \in Objects : ptr[p] = t[2]
    BY AliveMeans
  <2>2. o = "threads"
    <3>1. \A p \in Deleted(o) : ptr[p] = NoSession
      BY <1>2 DEF CleanShape
    <3> QED
      BY <2>1, <3>1, NextOf
  <2> QED
    BY <1>1, <1>4, <2>1, <2>2
<1>14. \A t \in Threads : ThreadOK(t)'
  BY <1>1, <1>13 DEF Calm, ThreadOK, Alive
<1> QED
  BY <1>m, <1>9, <1>11, <1>12, <1>14 DEF Calm

LEMMA SafeSetsNull ==
  ASSUME Types, Fits, Alone, Calm, NEW k \in Cleaners, NEW o \in Objects,
         SetsNull(k, o)
  PROVE  ~misuse' /\ Calm'
<1>t. /\ ptr \in [Objects -> Pointers]
      /\ freed \in [Objects -> SUBSET Sessions]
  BY DEF Types
<1>m. ~misuse'
  BY Zenon DEF SetsNull, Safe
<1>1. /\ UNCHANGED <<freed, list, pc, inCall, bufreader, cpc, notice, handler>>
      /\ clean[k] = <<"null", o>>
      /\ clean' = [clean EXCEPT ![k] = AfterClean[o]]
      /\ ptr' = [ptr EXCEPT ![o] = NoSession]
  BY Zenon DEF SetsNull, CleanStep, CleanRest, groupVars, threadVars, alarmVars
<1>2. CleansNow(k) /\ CleanShape(k, "null", o)
  BY <1>1 DEF CleansNow, Calm, Orderly
<1>3. PICK s \in Sessions : LeftOf(k, "null", o, s)
  BY <1>2 DEF CleanShape
<1>4. s \in freed[o] /\ ptr[o] = s
  BY <1>3, NextOf DEF LeftOf
<1>5. /\ clean'[k] = AfterClean[o]
      /\ \A c \in Cleaners : CleansNow(c)' => c = k
      /\ \A x \in Sessions : cpc'[x] \notin Roles \cup {"sendPackage"}
      /\ \A x \in Sessions : SetsUp(x)' => /\ AfterClean[o][1] = "done"
                                           /\ cpc'[x] = "socket"
  <2>1. clean' = [clean EXCEPT ![k] = AfterClean[o]] /\ UNCHANGED cpc
    BY <1>1
  <2> QED
    BY <1>2, <2>1, CleanerAfter, Zenon
<1>6. /\ ptr'[o] = NoSession
      /\ \A p \in Objects : p # o => ptr'[p] = ptr[p]
      /\ \A p \in Deleted(o) : ptr'[p] = NoSession
  <2>1. \A p \in Deleted(o) : ptr[p] = NoSession /\ p \in Objects
    BY <1>2, NextOf DEF CleanShape
  <2> QED
    BY <1>1, <1>t, <2>1
<1>7. Orderly'
  <2>1. CASE o = "socket"
    <3>1. \A p \in Objects : ptr'[p] = NoSession
      BY <1>6, <2>1, NextOf
    <3>2. ptr' = Nothing
      <4>1. ptr' \in [Objects -> Pointers]
        BY <1>1, <1>t DEF Pointers
      <4> QED
        BY <3>1, <4>1 DEF Nothing
    <3>3. ~CleansNow(k)'
      BY <1>5, <2>1, NextOf DEF CleansNow
    <3>4. \A x \in Sessions : SetsUp(x)' => SetUpShape(x)'
      BY <1>5, <3>1 DEF SetUpShape, Made
    <3> QED
      BY <1>5, <3>2, <3>3, <3>4 DEF Orderly, Whole
  <2>2. CASE o # "socket"
    <3> DEFINE n == AfterClean[o][2]
    <3>1. /\ AfterClean[o] = <<"look", n>> /\ n \in Objects
          /\ Deleted(n) = Deleted(o) \cup {o}
      BY <2>2, NextOf
    <3> HIDE DEF n
    <3>2. \A p \in Deleted(n) : ptr'[p] = NoSession
      BY <1>6, <3>1
    <3>3. \A p \in Objects \ Deleted(n) : ptr'[p] = s /\ s \notin freed'[p]
      BY <1>1, <1>3, <1>6, <3>1 DEF LeftOf
    <3>4. n \notin Deleted(n)
      BY <3>1, NextOf
    <3>5. LeftOf(k, "look", n, s)'
      BY <3>1, <3>3, <3>4 DEF LeftOf
    <3>6. CleanShape(k, "look", n)'
      BY <3>2, <3>5 DEF CleanShape
    <3>7. CleansNow(k)' /\ \A x \in Sessions : ~SetsUp(x)'
      BY <1>5, <3>1 DEF CleansNow
    <3> QED
      BY <1>5, <3>1, <3>6, <3>7 DEF Orderly
  <2> QED
    BY <2>1, <2>2
<1>8. Kept'
  <2>1. \A p \in Objects : ptr'[p] # NoSession => ptr'[p] = ptr[p]
    BY <1>6
  <2> QED
    BY <1>1, <1>5, <2>1 DEF Calm, Kept
<1>9. \A t \in Threads : ~Alive(t)
  <2> SUFFICES ASSUME NEW t \in Threads, Alive(t)
               PROVE  FALSE
    OBVIOUS
  <2>1. ptr[o] = t[2] /\ t[2] \notin freed[o]
    BY AliveMeans
  <2> QED
    BY <1>4, <2>1
<1>10. HandlerSees'
  <2>1. handler.at # "add"
    BY <1>2, <1>9, HandlerAway
  <2> QED
    BY <1>1, <2>1 DEF HandlerSees
<1>11. \A t \in Threads : ThreadOK(t)'
  BY <1>1, <1>9 DEF Calm, ThreadOK, Alive
<1> QED
  BY <1>m, <1>7, <1>8, <1>10, <1>11 DEF Calm

-----------------------------------------------------------------------------
(* The alarm handler and the rest.                                         *)

LEMMA CalmFrame ==
  ASSUME Calm, UNCHANGED <<ptr, freed, cpc, notice, del, clean, list, pc,
                           inCall, bufreader>>,
         HandlerSees'
  PROVE  Calm'
<1>1. Orderly' /\ Kept'
  <2>1. Orderly /\ Kept
    BY DEF Calm
  <2> QED
    BY <2>1, OrderFrame
<1>2. \A t \in Threads : ThreadOK(t)'
  BY DEF Calm, ThreadOK, Alive, Current
<1> QED
  BY <1>1, <1>2 DEF Calm

LEMMA SafeHandler ==
  ASSUME Types, Fits, Alone, Calm, HandlerActs
  PROVE  ~misuse' /\ Calm'
<1>t. /\ pc \in [Threads -> PcStates] /\ list \in [Sessions -> SUBSET Members]
      /\ clean \in [Cleaners -> CleanStates \X Objects]
      /\ handler \in Handlers /\ ptr \in [Objects -> Pointers]
  BY DEF Types
<1>f. UNCHANGED <<ptr, freed, inCall, bufreader, cpc, notice, del>>
  BY HandlerFrame
<1>1. ASSUME NEW t \in Threads \cup {Outsider}, AlarmFires(t)
      PROVE  ~misuse' /\ Calm'
  <2>1. ~misuse'
    BY <1>1, Zenon DEF AlarmFires, Safe
  <2>2. UNCHANGED <<list, pc, clean>> /\ handler'.at \in {"idle", "look"}
    BY <1>1 DEF AlarmFires, Idle
  <2>3. HandlerSees'
    BY <2>2 DEF HandlerSees
  <2> QED
    BY <1>f, <2>1, <2>2, <2>3, CalmFrame
<1>2. CASE HandlerLooks
  <2>1. ~misuse'
    BY <1>2, Zenon DEF HandlerLooks, Safe
  <2>2. UNCHANGED <<list, pc, clean>> /\ handler'.q = ptr["cmdout"]
    BY <1>2, <1>t DEF HandlerLooks, Handlers
  <2>3. HandlerSees'
    BY <1>f, <2>2 DEF HandlerSees
  <2> QED
    BY <1>f, <2>1, <2>2, <2>3, CalmFrame
<1>3. CASE HandlerAdds
  <2>1. handler # Idle /\ handler.q = ptr["cmdout"]
    BY <1>3 DEF HandlerAdds, HandlerStep, Idle, Calm, HandlerSees
  <2>2. handler.q = NoSession \/ handler.q \notin freed["cmdout"]
    BY <2>1, HandlerSafe
  <2>3. ~misuse'
    BY <1>3, <2>2, Zenon DEF HandlerAdds, Safe, Uses
  <2>4. UNCHANGED <<list, pc, clean>>
    BY <1>3, Zenon DEF HandlerAdds
  <2>5. handler'.at = "spawn"
    BY <1>3, <1>t DEF HandlerAdds, HandlerStep, Handlers
  <2>6. HandlerSees'
    BY <2>5 DEF HandlerSees
  <2> QED
    BY <1>f, <2>3, <2>4, <2>6, CalmFrame
<1>4. CASE HandlerSpawns
  <2>1. ~misuse'
    BY <1>4, Zenon DEF HandlerSpawns, Safe
  <2>2. /\ UNCHANGED <<list, pc>> /\ handler.at = "spawn"
        /\ handler' = [handler EXCEPT !.at = "exit"]
        /\ \E to \in Created :
             clean' = [clean EXCEPT ![<<"alarm", handler.for>>] = to]
    BY <1>4, Zenon DEF HandlerSpawns, HandlerStep
  <2>3. /\ handler.for \in Sessions
        /\ clean[<<"alarm", handler.for>>] = <<"idle", "threads">>
    BY <2>2 DEF Fits, HandlerOK
  <2>4. <<"alarm", handler.for>> \in Cleaners
    BY <2>3, IsCleaner
  <2>5. ASSUME NEW k \in Cleaners
        PROVE  clean'[k] = clean[k] \/ (~CleansNow(k) /\ ~CleansNow(k)')
    <3>1. CASE k = <<"alarm", handler.for>>
      <4>1. clean'[k] \in Created
        BY <1>t, <2>2, <3>1
      <4> QED
        BY <2>3, <3>1, <4>1 DEF CleansNow, Created, Denied
    <3>2. CASE k # <<"alarm", handler.for>>
      BY <1>t, <2>2, <3>2
    <3> QED
      BY <3>1, <3>2
  <2>6. ASSUME NEW s \in Sessions
        PROVE  clean'[<<"connector", s>>] = clean[<<"connector", s>>]
    BY <1>t, <2>2, <2>4, IsCleaner
  <2>7. Orderly' /\ Kept'
    <3>1. Orderly /\ Kept
      BY DEF Calm
    <3> QED
      BY <1>f, <2>5, <2>6, <3>1, OrderFrame
  <2>8. handler'.at = "exit"
    BY <1>t, <2>2 DEF Handlers
  <2>9. HandlerSees'
    BY <2>8 DEF HandlerSees
  <2>10. \A t \in Threads : ThreadOK(t)'
    BY <1>f, <2>2 DEF Calm, ThreadOK, Alive, Current
  <2> QED
    BY <2>1, <2>7, <2>9, <2>10 DEF Calm
<1>5. CASE HandlerExits
  <2>1. handler # Idle /\ handler.at # "idle"
    BY <1>5 DEF HandlerExits, Idle
  <2>2. ptr["threads"] = NoSession \/ ptr["threads"] \notin freed["threads"]
    BY <2>1, HandlerSafe
  <2>3. ~misuse'
    BY <1>5, <2>2, Zenon DEF HandlerExits, Unlisted, Safe, Uses
  <2>4. /\ clean' = clean /\ handler' = Idle
        /\ \/ list' = list /\ pc' = pc
           \/ /\ ptr["threads"] # NoSession
              /\ list' = [list EXCEPT ![ptr["threads"]] = @ \ {handler.in}]
              /\ list' # list => pc' = [pc EXCEPT ![handler.in] = "gone"]
              /\ list' = list => pc' = pc
    BY <1>5, Zenon DEF HandlerExits, Unlisted
  <2>5. Orderly' /\ Kept'
    <3>1. Orderly /\ Kept
      BY DEF Calm
    <3> QED
      BY <1>f, <2>4, <3>1, OrderFrame
  <2>6. HandlerSees'
    BY <2>4 DEF HandlerSees, Idle
  <2>7. ASSUME NEW t \in Threads
        PROVE  ThreadOK(t)'
    <3>1. ThreadOK(t) /\ t[2] \in Sessions /\ t # Outsider
      BY ThreadPair DEF Calm, Members
    <3>c. Current(t[2]) => Current(t[2])'
      BY <1>f DEF Current
    <3>2. CASE handler.in # t
      <4>1. pc'[t] = pc[t]
        <5>1. \/ pc' = pc
              \/ pc' = [pc EXCEPT ![handler.in] = "gone"]
          BY <2>4
        <5> QED
          BY <1>t, <3>2, <5>1
      <4>2. t \in list[t[2]] => t \in list'[t[2]]
        <5>1. \/ list' = list
              \/ list' = [list EXCEPT ![ptr["threads"]] = @ \ {handler.in}]
          BY <2>4
        <5> QED
          BY <1>t, <3>1, <3>2, <5>1
      <4> QED
        BY <1>f, <3>1, <3>c, <4>1, <4>2 DEF ThreadOK, Alive
    <3>3. CASE handler.in = t
      <4>1. pc[t] \in {"top", "check"}
        BY <2>1, <3>1, <3>3 DEF Fits, HandlerOK
      <4>2. /\ t \in list[t[2]] /\ ptr["threads"] = t[2]
        BY <3>1, <4>1 DEF ThreadOK, Alive, Current
      <4>3. CASE list' = list /\ pc' = pc
        BY <1>f, <3>1, <3>c, <4>3 DEF ThreadOK, Alive
      <4>4. CASE list' = [list EXCEPT ![ptr["threads"]] = @ \ {handler.in}]
        <5>1. t \notin list'[t[2]]
          BY <1>t, <3>1, <3>3, <4>2, <4>4
        <5>2. list' # list
          BY <4>2, <5>1
        <5>3. pc' = [pc EXCEPT ![t] = "gone"]
          BY <2>4, <3>3, <5>2
        <5>4. pc'[t] = "gone"
          BY <1>t, <5>3
        <5> QED
          BY <1>f, <3>1, <5>4 DEF ThreadOK, Alive
      <4> QED
        BY <2>4, <4>3, <4>4
    <3> QED
      BY <3>2, <3>3
  <2> QED
    BY <2>3, <2>5, <2>6, <2>7 DEF Calm
<1> QED
  BY <1>1, <1>2, <1>3, <1>4, <1>5, Zenon DEF HandlerActs, Handler

-----------------------------------------------------------------------------
(* The invariant is inductive.                                             *)

LEMMA CalmStep ==
  ASSUME Types, Fits, Alone, Calm, Types', Fits', Alone', Next
  PROVE  ~misuse' /\ Calm'
<1>1. ASSUME NEW s \in Sessions, ConnectorStep(s)
      PROVE  ~misuse' /\ Calm'
  BY <1>1, SafeArrive, SafeNotifyAdd, SafeSetUp, SafeAdded, Zenon
     DEF ConnectorStep
<1>2. ASSUME NEW s \in Sessions, PeerLeaves(s)
      PROVE  ~misuse' /\ Calm'
  <2>1. ~misuse'
    BY <1>2, Zenon DEF PeerLeaves, Safe
  <2>2. UNCHANGED <<ptr, freed, cpc, notice, del, clean, list, pc, inCall,
                    bufreader, handler>>
    BY <1>2, Zenon DEF PeerLeaves, groupVars, threadVars, alarmVars
  <2>3. HandlerSees'
    BY <2>2 DEF HandlerSees, Calm
  <2> QED
    BY <2>1, <2>2, <2>3, CalmFrame
<1>3. ASSUME NEW t \in Threads, Plain(t) \/ SendStep(t)
      PROVE  ~misuse' /\ Calm'
  BY <1>3, ThreadSafe, ThreadCalm
<1>4. ASSUME NEW k \in Cleaners,
             Wakes(k) \/ StopAll(k) \/ \E o \in Objects : CleanerStep(k, o)
      PROVE  ~misuse' /\ Calm'
  BY <1>4, SafeWakes, SafeStopAll, SafeFindsNull, SafeFinds, SafeDelete,
     SafeSetsNull, Zenon DEF CleanerStep
<1>5. ASSUME HandlerActs
      PROVE  ~misuse' /\ Calm'
  BY <1>5, SafeHandler
<1> QED
  BY <1>1, <1>2, <1>3, <1>4, <1>5, StepCases, Zenon

LEMMA NextIInv == IInv /\ [Next]_vars => IInv'
<1> SUFFICES ASSUME IInv, [Next]_vars
             PROVE  IInv'
  OBVIOUS
<1>1. TypeOK /\ Fits /\ (~overlap => Sound)
  BY Zenon DEF IInv
<1>2. CASE Next
  <2>1. TypeOK' /\ Fits'
    BY <1>1, <1>2, TypeStep, FitsStep, Zenon
  <2>2. ASSUME ~overlap'
        PROVE  Sound'
    <3>1. History /\ overlap \in BOOLEAN
      BY <1>1, <1>2, Zenon DEF Next, TypeOK
    <3>2. ~overlap /\ Alone'
      BY <2>2, <3>1, AloneAfter, Zenon
    <3>3. Alone /\ Calm
      BY <1>1, <3>2, Zenon DEF Sound, Calm
    <3>4. Types /\ Types'
      BY <1>1, <2>1, Zenon DEF Types, TypeOK, PcStates, CpcStates,
         CleanStates, Handlers
    <3>5. ~misuse' /\ Calm'
      BY <1>1, <1>2, <2>1, <3>2, <3>3, <3>4, CalmStep, Zenon
    <3> QED
      BY <3>2, <3>5, Zenon DEF Sound, Calm
  <2> QED
    BY <2>1, <2>2, Zenon DEF IInv
<1>3. CASE UNCHANGED vars
  <2>1. UNCHANGED <<ptr, freed, list, frozen, flag, peer, pc, inCall,
                    bufreader, cpc, notice, clean, del, alarm, handler, early>>
    BY <1>3, Zenon DEF vars
  <2>2. /\ is_rev_pcid' = is_rev_pcid /\ misuse' = misuse
        /\ overlap' = overlap
    BY <1>3, Zenon DEF vars
  <2>3. Types /\ is_rev_pcid \in BOOLEAN /\ misuse \in BOOLEAN
          /\ overlap \in BOOLEAN
    BY <1>1, TypeParts, Zenon
  <2>4. Types'
    BY <2>1, <2>3 DEF Types
  <2>5. TypeOK'
    BY <2>2, <2>3, <2>4, Zenon DEF TypeOK, Types, PcStates, CpcStates,
       CleanStates, Handlers
  <2>6. Fits'
    BY <1>1, <2>1 DEF Fits, ConnectorOK, ReaderOK, NotYet, HandlerOK
  <2>7. ASSUME ~overlap'
        PROVE  Sound'
    <3>1. ~overlap
      BY <2>2, <2>7, Zenon
    <3>2. Alone /\ Calm /\ ~misuse
      BY <1>1, <3>1, Zenon DEF Sound, Calm
    <3>3. ~misuse'
      BY <2>2, <3>2, Zenon
    <3>4. Alone'
      BY <2>1, <3>2 DEF Alone, Inside
    <3>5. HandlerSees'
      BY <2>1, <3>2 DEF Calm, HandlerSees
    <3>6. Calm'
      BY <2>1, <3>2, <3>5, CalmFrame
    <3> QED
      BY <3>3, <3>4, <3>6, Zenon DEF Sound, Calm
  <2> QED
    BY <2>5, <2>6, <2>7, Zenon DEF IInv
<1> QED
  BY <1>2, <1>3

(* The inductive invariant holds in every state of every behaviour.        *)
THEOREM Invariance == Spec => []IInv
<1>1. Init => IInv
  BY InitIInv
<1>2. IInv /\ [Next]_vars => IInv'
  BY NextIInv
<1> QED
  BY <1>1, <1>2, PTL DEF Spec

(* The variables keep their types, for any number of sessions.             *)
THEOREM TypeCorrect == Spec => []TypeOK
<1>1. IInv => TypeOK
  BY Zenon DEF IInv
<1> QED
  BY <1>1, Invariance, PTL

(* cleanup, the connector, the alarm handler and the three threads share   *)
(* unguarded globals, and still nothing freed or null is ever used before  *)
(* two outsiders have been inside at once: the group's destructor waits,   *)
(* and the order in which cleanup takes the objects keeps the rest whole.  *)
THEOREM MisuseNeedsOverlap == Spec => []MisuseOnlyByOverlap
<1>1. IInv => MisuseOnlyByOverlap
  BY Zenon DEF IInv, Sound, MisuseOnlyByOverlap
<1> QED
  BY <1>1, Invariance, PTL

(* Until then a living thread is listed in its own group and finds all     *)
(* four of its session's objects, its own and not freed.                   *)
THEOREM LiveIsWhole == Spec => []LiveSessionIsWhole
<1>1. IInv => LiveSessionIsWhole
  <2> SUFFICES ASSUME IInv, ~overlap
               PROVE  \A t \in Threads : Alive(t) =>
                        /\ t \in list[t[2]]
                        /\ \A o \in Objects :
                             ptr[o] = t[2] /\ t[2] \notin freed[o]
                        /\ inCall[t] \in {t[2], NoSession}
    BY Zenon DEF LiveSessionIsWhole
  <2>1. \A t \in Threads : ThreadOK(t)
    BY Zenon DEF IInv, Sound
  <2> QED
    BY <2>1 DEF ThreadOK, Current
<1> QED
  BY <1>1, Invariance, PTL

-----------------------------------------------------------------------------
(* Whose leftovers are where.  From its arrival until its group is taken   *)
(* down, a session that began when all was quiet has no sleeping or        *)
(* working cleaner, no alarm and no handler of another session beside it:  *)
(* only a living thread leaves one behind, and a living thread's session   *)
(* is the current one.                                                     *)
UpToNow(s) == cpc[s] \notin {"none", "done"} \/ ptr["threads"] = s

NoLeftovers(s) ==
  /\ ptr["threads"] \in {s, NoSession}
  /\ alarm \in {s, NoSession}
  /\ handler.at # "idle" => handler.for = s
  /\ \A k \in Cleaners :
       k[1] # "connector" /\ k[2] # s => clean[k][1] \in {"idle", "done"}

OwnOnly == \A s \in Sessions \ early : UpToNow(s) => NoLeftovers(s)

(* With no leftovers around, a living thread is the session's own.         *)
LEMMA AliveIsOwn ==
  ASSUME Calm, NEW s \in Sessions, NoLeftovers(s),
         NEW t \in Threads, Alive(t)
  PROVE  t[2] = s
<1>1. ptr["threads"] = t[2] /\ t[2] \in Sessions
  BY ThreadPair DEF Calm, ThreadOK, Current
<1> QED
  BY <1>1 DEF NoLeftovers

(* A session that was not there and is not early arrived into quiet.       *)
LEMMA QuietBefore ==
  ASSUME History, NEW s \in Sessions \ early', cpc[s] = "none",
         cpc'[s] # "none"
  PROVE  Quiet
  BY DEF History

LEMMA EarlyGrows ==
  ASSUME History
  PROVE  early \subseteq early'
  BY Zenon DEF History

(* What a step of a connector does to the variables named here.            *)
LEMMA ConnectorMoves ==
  ASSUME Types, Fits, Alone, NEW x \in Sessions, ConnectorStep(x),
         NEW s \in Sessions, UpToNow(s)'
  PROVE  /\ UpToNow(s) \/ (s = x /\ cpc[s] = "none" /\ ptr' = ptr)
         /\ UpToNow(s) /\ ptr["threads"] \in {s, NoSession}
              => ptr'["threads"] \in {s, NoSession}
         /\ \A k \in Cleaners : k[1] # "connector" => clean'[k] = clean[k]
<1>t. /\ ptr \in [Objects -> Pointers] /\ cpc \in [Sessions -> CpcStates]
      /\ clean \in [Cleaners -> CleanStates \X Objects]
  BY DEF Types
<1>1. ASSUME NEW o \in Objects, SetUp(x, o)
      PROVE  /\ UpToNow(s)
             /\ ptr["threads"] \in {s, NoSession}
                  => ptr'["threads"] \in {s, NoSession}
             /\ clean' = clean
  <2>1. /\ cpc[x] = o /\ cpc' = [cpc EXCEPT ![x] = AfterSetUp[o]]
        /\ ptr' = [ptr EXCEPT ![o] = x] /\ clean' = clean
    BY <1>1, Zenon DEF SetUp, Connects
  <2>2. cpc[x] \notin {"none", "done"}
    BY <2>1
  <2>3. CASE s = x
    BY <1>t, <2>1, <2>2, <2>3 DEF UpToNow
  <2>4. CASE s # x
    <3>1. cpc[s] \in {"none", "done"}
      BY <2>2, <2>4, Solo
    <3>2. cpc'[s] = cpc[s]
      BY <1>t, <2>1, <2>4
    <3>3. ptr'["threads"] = s
      BY <3>1, <3>2 DEF UpToNow
    <3>4. ptr["threads"] = s
      BY <1>t, <2>1, <2>4, <3>3
    <3> QED
      BY <2>1, <3>3, <3>4 DEF UpToNow
  <2> QED
    BY <2>3, <2>4
<1>2. CASE Arrive(x)
  BY <1>2, <1>t DEF Arrive, Connects, UpToNow
<1>3. CASE Notify(x)
  BY <1>3, <1>t DEF Notify, Connects, UpToNow
<1>4. CASE NotifyAdd(x)
  <2>1. /\ cpc[x] = "sendPackage" /\ cpc' = [cpc EXCEPT ![x] = "socket"]
        /\ ptr' = ptr
        /\ clean' = [clean EXCEPT ![<<"connector", x>>] =
                       <<"look", "threads">>]
    BY <1>4, Zenon DEF NotifyAdd, Connects
  <2>2. \A k \in Cleaners : k[1] # "connector" => clean'[k] = clean[k]
    BY <1>t, <2>1, CleanerPair
  <2> QED
    BY <1>t, <2>1, <2>2 DEF UpToNow
<1>5. ASSUME NEW r \in Roles, Added(x, r) \/ NotAdded(x, r)
      PROVE  UpToNow(s) /\ ptr' = ptr /\ clean' = clean
  <2>1. /\ cpc[x] = r /\ cpc' = [cpc EXCEPT ![x] = AfterAdd[r]]
        /\ ptr' = ptr /\ clean' = clean
    BY <1>5, Zenon DEF Added, NotAdded, Connects
  <2> QED
    BY <1>t, <2>1 DEF UpToNow
<1> QED
  BY <1>1, <1>2, <1>3, <1>4, <1>5 DEF ConnectorStep

LEMMA OwnConnector ==
  ASSUME Types, Fits, Alone, OwnOnly, History,
         NEW x \in Sessions, ConnectorStep(x)
  PROVE  OwnOnly'
<1> SUFFICES ASSUME NEW s \in Sessions \ early', UpToNow(s)'
             PROVE  NoLeftovers(s)'
  BY DEF OwnOnly, Types, History
<1>1. alarm' = alarm /\ handler' = handler
  BY ConnectorFrame
<1>2. /\ UpToNow(s) \/ (s = x /\ cpc[s] = "none" /\ ptr' = ptr)
      /\ UpToNow(s) /\ ptr["threads"] \in {s, NoSession}
           => ptr'["threads"] \in {s, NoSession}
      /\ \A k \in Cleaners : k[1] # "connector" => clean'[k] = clean[k]
  BY ConnectorMoves
<1>3. CASE UpToNow(s)
  <2>1. NoLeftovers(s)
    BY <1>3, EarlyGrows DEF OwnOnly
  <2> QED
    BY <1>1, <1>2, <1>3, <2>1 DEF NoLeftovers
<1>4. CASE ~UpToNow(s)
  <2>1. cpc[s] = "none" /\ ptr' = ptr /\ ptr["threads"] # s
    BY <1>2, <1>4 DEF UpToNow
  <2>2. cpc'[s] # "none"
    BY <2>1 DEF UpToNow
  <2>3. Quiet
    BY <2>1, <2>2, QuietBefore
  <2>4. ptr["threads"] = NoSession /\ alarm = NoSession
        /\ handler.at = "idle"
    BY <2>3 DEF Quiet, Nothing, Idle
  <2>5. \A k \in Cleaners : k[1] # "connector"
                              => clean[k][1] \in {"idle", "done"}
    <3> SUFFICES ASSUME NEW k \in Cleaners, k[1] # "connector"
                 PROVE  clean[k][1] \in {"idle", "done"}
      OBVIOUS
    <3>1. clean[k][1] # "sleep" /\ k \notin Inside
      BY <2>3 DEF Quiet
    <3> QED
      BY <3>1 DEF Inside
  <2> QED
    BY <1>1, <1>2, <2>1, <2>4, <2>5 DEF NoLeftovers
<1> QED
  BY <1>3, <1>4

(* What the steps of the session's threads do to these variables.          *)
LEMMA OwnThread ==
  ASSUME Types, Fits, Calm, OwnOnly, History,
         NEW t \in Threads, Plain(t) \/ SendStep(t)
  PROVE  OwnOnly'
<1> SUFFICES ASSUME NEW s \in Sessions \ early', UpToNow(s)'
             PROVE  NoLeftovers(s)'
  BY DEF OwnOnly
<1>1. ptr' = ptr /\ cpc' = cpc /\ handler' = handler
  BY ThreadFrame
<1>2. NoLeftovers(s)
  BY <1>1, EarlyGrows DEF OwnOnly, UpToNow
<1>3. Alive(t)
  <2>1. pc[t] \in Serving
    BY ThreadMove DEF ThreadMoves
  <2> QED
    BY <2>1 DEF Serving, Alive
<1>4. t[2] = s
  BY <1>2, <1>3, AliveIsOwn
<1>5. alarm' \in {alarm, t[2]}
  <2>1. alarm' = alarm \/ alarm' = t[2]
    BY Zenon DEF Plain, SendStep, SendPackage, Start, Registered, ReadTurn,
       ReadFails, GetPackage, GotNothing, GotPackage, Writes, WriteFails,
       NoReply, TellMePcId, StopVncSession, SrvIdSent, Sent, SeesStop,
     StartsWorker,
       LoopAgain, Spawn, ExitThread, Others, alarmVars
  <2> QED
    BY <2>1
<1>6. \A k \in Cleaners : k[2] # s => clean'[k] = clean[k]
  <2>1. CASE clean' = clean
    BY <2>1
  <2>2. CASE Spawn(t)
    <3>1. \E to \in Created :
            clean' = [clean EXCEPT ![<<"reader", s>>] = to]
      BY <1>4, <2>2, Zenon DEF Spawn
    <3> QED
      BY <3>1, CleanerPair DEF Types
  <2> QED
    BY <2>1, <2>2, ThreadClean
<1> QED
  BY <1>1, <1>2, <1>4, <1>5, <1>6 DEF NoLeftovers

LEMMA OwnCleaner ==
  ASSUME Types, OwnOnly, History, NEW c \in Cleaners,
         Wakes(c) \/ StopAll(c) \/ \E o \in Objects : CleanerStep(c, o)
  PROVE  OwnOnly'
<1> SUFFICES ASSUME NEW s \in Sessions \ early', UpToNow(s)'
             PROVE  NoLeftovers(s)'
  BY DEF OwnOnly
<1>t. /\ ptr \in [Objects -> Pointers]
      /\ clean \in [Cleaners -> CleanStates \X Objects]
  BY DEF Types
<1>1. cpc' = cpc /\ alarm' = alarm /\ handler' = handler
  BY CleanerFrame
<1>2. \/ ptr' = ptr
      \/ \E o \in Objects : ptr' = [ptr EXCEPT ![o] = NoSession]
  BY Zenon DEF CleanerStep, Wakes, StopAll, FindsNull, Finds, Delete, SetsNull
<1>3. ptr'["threads"] \in {ptr["threads"], NoSession}
  BY <1>t, <1>2
<1>4. UpToNow(s)
  BY <1>1, <1>3 DEF UpToNow
<1>5. NoLeftovers(s)
  BY <1>4, EarlyGrows DEF OwnOnly
<1>6. /\ clean[c][1] \notin {"idle", "done"}
      /\ \A k \in Cleaners : k # c => clean'[k] = clean[k]
  BY <1>t DEF CleanerStep, Wakes, StopAll, FindsNull, Finds, Delete,
     SetsNull, CleanStep
<1> QED
  BY <1>1, <1>3, <1>5, <1>6 DEF NoLeftovers

LEMMA OwnHandler ==
  ASSUME Types, Fits, OwnOnly, History, HandlerActs
  PROVE  OwnOnly'
<1> SUFFICES ASSUME NEW s \in Sessions \ early', UpToNow(s)'
             PROVE  NoLeftovers(s)'
  BY DEF OwnOnly
<1>t. /\ clean \in [Cleaners -> CleanStates \X Objects]
      /\ handler \in Handlers
  BY DEF Types
<1>1. ptr' = ptr /\ cpc' = cpc
  BY HandlerFrame
<1>2. NoLeftovers(s)
  BY <1>1, EarlyGrows DEF OwnOnly, UpToNow
<1>3. ASSUME NEW t \in Threads \cup {Outsider}, AlarmFires(t)
      PROVE  NoLeftovers(s)'
  <2>1. /\ alarm # NoSession /\ alarm' = NoSession /\ clean' = clean
        /\ \/ handler' = Idle
           \/ handler' = [at |-> "look", in |-> t, for |-> alarm,
                          q |-> NoSession]
    BY <1>3 DEF AlarmFires
  <2>2. alarm = s
    BY <1>2, <2>1 DEF NoLeftovers
  <2> QED
    BY <1>1, <1>2, <2>1, <2>2 DEF NoLeftovers, Idle
<1>4. CASE HandlerLooks \/ HandlerAdds
  <2>1. /\ handler.at # "idle" /\ handler'.for = handler.for
        /\ alarm' = alarm /\ clean' = clean
    BY <1>4, <1>t DEF HandlerLooks, HandlerAdds, HandlerStep, Handlers
  <2> QED
    BY <1>1, <1>2, <2>1 DEF NoLeftovers
<1>5. CASE HandlerSpawns
  <2>1. /\ handler.at = "spawn" /\ alarm' = alarm
        /\ \E to \in Created :
             clean' = [clean EXCEPT ![<<"alarm", handler.for>>] = to]
    BY <1>5, Zenon DEF HandlerSpawns, HandlerStep
  <2>2. handler.for = s
    BY <1>2, <2>1 DEF NoLeftovers
  <2>3. handler'.for = s
    BY <1>5, <1>t, <2>2 DEF HandlerSpawns, HandlerStep, Handlers
  <2>4. \A k \in Cleaners : k[2] # s => clean'[k] = clean[k]
    BY <1>t, <2>1, <2>2, CleanerPair
  <2> QED
    BY <1>1, <1>2, <2>1, <2>3, <2>4 DEF NoLeftovers
<1>6. CASE HandlerExits
  <2>1. handler' = Idle /\ alarm' = alarm /\ clean' = clean
    BY <1>6, Zenon DEF HandlerExits
  <2> QED
    BY <1>1, <1>2, <2>1 DEF NoLeftovers, Idle
<1> QED
  BY <1>3, <1>4, <1>5, <1>6, Zenon DEF HandlerActs, Handler

LEMMA OwnPeer ==
  ASSUME OwnOnly, History, NEW x \in Sessions, PeerLeaves(x)
  PROVE  OwnOnly'
<1>1. UNCHANGED <<ptr, cpc, clean, alarm, handler>>
  BY Zenon DEF PeerLeaves, threadVars, alarmVars
<1> QED
  BY <1>1, EarlyGrows DEF OwnOnly, UpToNow, NoLeftovers

(* The invariant that tells whose leftovers are where.                     *)
OwnIInv == IInv /\ (~overlap => OwnOnly)

LEMMA NextOwnIInv == OwnIInv /\ [Next]_vars => OwnIInv'
<1> SUFFICES ASSUME OwnIInv, [Next]_vars
             PROVE  OwnIInv'
  OBVIOUS
<1>1. IInv /\ IInv' /\ (~overlap => OwnOnly)
  BY NextIInv, Zenon DEF OwnIInv
<1>2. ASSUME ~overlap'
      PROVE  OwnOnly'
  <2>1. CASE Next
    <3>1. History /\ overlap \in BOOLEAN
      BY <1>1, <2>1, Zenon DEF Next, IInv, TypeOK
    <3>2. ~overlap
      BY <1>2, <3>1, AloneAfter, Zenon
    <3>3. Fits /\ Alone /\ Calm /\ OwnOnly
      BY <1>1, <3>2, Zenon DEF IInv, Sound, Calm
    <3>4. Types
      BY <1>1, TypeParts, Zenon DEF IInv
    <3> QED
      BY <2>1, <3>1, <3>3, <3>4, StepCases, OwnConnector, OwnPeer, OwnThread,
         OwnCleaner, OwnHandler, Zenon
  <2>2. CASE UNCHANGED vars
    <3>1. /\ UNCHANGED <<ptr, cpc, clean, alarm, handler, early>>
          /\ overlap' = overlap
      BY <2>2, Zenon DEF vars
    <3>2. OwnOnly
      BY <1>1, <1>2, <3>1
    <3> QED
      BY <3>1, <3>2 DEF OwnOnly, UpToNow, NoLeftovers
  <2> QED
    BY <2>1, <2>2
<1> QED
  BY <1>1, <1>2, Zenon DEF OwnIInv

LEMMA InitOwnIInv == Init => OwnIInv
<1> SUFFICES ASSUME Init
             PROVE  OwnIInv
  OBVIOUS
<1>1. ptr = Nothing /\ cpc = [s \in Sessions |-> "none"]
  BY Zenon DEF Init
<1>2. OwnOnly
  BY <1>1 DEF OwnOnly, UpToNow, Nothing
<1> QED
  BY <1>2, InitIInv, Zenon DEF OwnIInv

(* The only step by which a cleaner goes on to stopAll is the one that     *)
(* finds a group, the group it is then going to delete.                    *)
LEMMA StopsWhatItFinds ==
  ASSUME IInv, Next, NEW k \in Cleaners,
         clean[k][1] = "look", clean'[k] = <<"stopAll", "threads">>
  PROVE  del'[k] = ptr["threads"]
<1>t. /\ clean \in [Cleaners -> CleanStates \X Objects]
      /\ del \in [Cleaners -> Pointers]
  BY DEF IInv, TypeOK, CleanStates
<1>f. Types /\ Fits
  BY TypeParts, Zenon DEF IInv
<1>1. clean'[k] # clean[k] /\ clean'[k][1] = "stopAll"
  BY <1>t
<1>2. ASSUME NEW s \in Sessions, ConnectorStep(s)
      PROVE  FALSE
  <2>1. \/ clean' = clean
        \/ clean' = [clean EXCEPT ![<<"connector", s>>] =
                       <<"look", "threads">>]
    BY <1>2, Zenon DEF ConnectorStep, Arrive, Notify, NotifyAdd, SetUp,
       Added, NotAdded
  <2>2. clean'[k] \in {clean[k], <<"look", "threads">>}
    BY <1>t, <2>1
  <2> QED
    BY <1>1, <2>2
<1>3. ASSUME NEW s \in Sessions, PeerLeaves(s)
      PROVE  FALSE
  BY <1>1, <1>3 DEF PeerLeaves
<1>4. ASSUME NEW t \in Threads, Plain(t) \/ SendStep(t)
      PROVE  FALSE
  <2>1. \/ clean' = clean
        \/ \E to \in Created :
             clean' = [clean EXCEPT ![<<"reader", t[2]>>] = to]
    BY <1>4, ThreadClean, Zenon DEF Spawn
  <2>2. clean'[k] \in {clean[k]} \cup Created
    BY <1>t, <2>1
  <2> QED
    BY <1>1, <2>2 DEF Created, Denied
<1>5. CASE HandlerActs
  <2>1. \/ clean' = clean
        \/ \E to \in Created :
             clean' = [clean EXCEPT ![<<"alarm", handler.for>>] = to]
    BY <1>5, Zenon DEF HandlerActs, Handler, AlarmFires, HandlerLooks,
       HandlerAdds, HandlerSpawns, HandlerExits
  <2>2. clean'[k] \in {clean[k]} \cup Created
    BY <1>t, <2>1
  <2> QED
    BY <1>1, <2>2 DEF Created, Denied
<1>6. ASSUME NEW c \in Cleaners, Wakes(c) \/ StopAll(c)
      PROVE  FALSE
  BY <1>t, <1>1, <1>6 DEF Wakes, StopAll, CleanStep
<1>7. ASSUME NEW c \in Cleaners, NEW o \in Objects,
             FindsNull(c, o) \/ Delete(c, o) \/ SetsNull(c, o)
      PROVE  FALSE
  BY <1>t, <1>1, <1>7 DEF FindsNull, Delete, SetsNull, CleanStep, AfterClean
<1>8. ASSUME NEW c \in Cleaners, NEW o \in Objects, Finds(c, o)
      PROVE  del'[k] = ptr["threads"]
  <2>1. clean' = [clean EXCEPT ![c] =
                    <<IF o = "threads" THEN "stopAll" ELSE "delete", o>>]
        /\ del' = [del EXCEPT ![c] = ptr[o]]
    BY <1>8, Zenon DEF Finds, CleanStep
  <2>2. c = k /\ o = "threads"
    BY <1>t, <1>1, <2>1
  <2> QED
    BY <1>t, <2>1, <2>2
<1> QED
  BY <1>2, <1>3, <1>4, <1>5, <1>6, <1>7, <1>8, StepCases, Zenon
     DEF CleanerStep

(* Until two outsiders have been inside at once, a session that began when *)
(* all was quiet is torn down by its own reader's cleanup_thread, by its   *)
(* own alarm or by a connector that takes over, however many sessions there*)
(* have been before it: no leftover of another session ever gets that far. *)
THEOREM DiesOfItsOwn == Spec => TornDownWhenDue
<1>1. OwnIInv /\ [Next]_vars =>
        [\A k \in Cleaners, s \in Sessions :
           clean[k][1] = "look" /\ clean'[k] = <<"stopAll", "threads">>
             /\ del'[k] = s /\ s \notin early /\ ~overlap
           => k[1] = "connector" \/ k[2] = s]_vars
  <2> SUFFICES ASSUME OwnIInv, [Next]_vars,
                      NEW k \in Cleaners, NEW s \in Sessions, vars' # vars,
                      clean[k][1] = "look",
                      clean'[k] = <<"stopAll", "threads">>,
                      del'[k] = s, s \notin early, ~overlap
               PROVE  k[1] = "connector" \/ k[2] = s
    OBVIOUS
  <2>1. IInv /\ Next /\ OwnOnly
    BY Zenon DEF OwnIInv
  <2>2. ptr["threads"] = s
    BY <2>1, StopsWhatItFinds
  <2>3. NoLeftovers(s)
    BY <2>1, <2>2 DEF OwnOnly, UpToNow
  <2> QED
    BY <2>3 DEF NoLeftovers
<1> QED
  BY <1>1, InitOwnIInv, NextOwnIInv, PTL DEF Spec, TornDownWhenDue

-----------------------------------------------------------------------------
(* Turns.  What the invariant lacks: a cleaner that finds no group has     *)
(* deleted the one there was.                                              *)
GroupFirst ==
  /\ \E k \in Cleaners : CleansNow(k)
  /\ ptr["threads"] = NoSession
  /\ ptr["socket"] # NoSession
  => ptr["socket"] \in freed["threads"]

LEMMA GroupFirstStep ==
  ASSUME Types, Fits, Alone, Calm, GroupFirst, Types', Fits', Alone', Next
  PROVE  GroupFirst'
<1> SUFFICES ASSUME NEW c \in Cleaners, CleansNow(c)',
                    ptr'["threads"] = NoSession, ptr'["socket"] # NoSession
             PROVE  ptr'["socket"] \in freed'["threads"]
  BY DEF GroupFirst
<1>t. /\ ptr \in [Objects -> Pointers]
      /\ freed \in [Objects -> SUBSET Sessions]
      /\ clean \in [Cleaners -> CleanStates \X Objects]
      /\ cpc \in [Sessions -> CpcStates]
  BY DEF Types
(* Nobody is at work on the globals: all four are there or none is.        *)
<1>w. ASSUME \A k \in Cleaners : ~CleansNow(k),
             \A s \in Sessions : ~SetsUp(s), ptr' = ptr
      PROVE  FALSE
  <2>1. Whole
    BY <1>w DEF Calm, Orderly
  <2> QED
    BY <1>w, <2>1 DEF Whole, Current, Nothing
(* A cleaner was at work before, and neither pointer has changed.          *)
<1>k. ASSUME NEW k \in Cleaners, CleansNow(k),
             ptr'["threads"] = ptr["threads"], ptr'["socket"] = ptr["socket"],
             freed["threads"] \subseteq freed'["threads"]
      PROVE  ptr'["socket"] \in freed'["threads"]
  BY <1>k DEF GroupFirst
<1>1. ASSUME NEW s \in Sessions, ConnectorStep(s)
      PROVE  ptr'["socket"] \in freed'["threads"]
  <2>1. freed' = freed
    BY <1>1, ConnectorFrame
  <2>2. CASE NotifyAdd(s)
    <3>1. cpc[s] = "sendPackage" /\ ptr' = ptr
      BY <2>2, Zenon DEF NotifyAdd, Connects
    <3>2. \A k \in Cleaners : ~CleansNow(k)
      BY <3>1, Solo
    <3>3. \A x \in Sessions : ~SetsUp(x)
      <4>1. \A x \in Sessions : cpc[x] \in Objects => x = s
        BY <3>1, Solo
      <4> QED
        BY <3>1, <4>1 DEF SetsUp
    <3> QED
      BY <3>1, <3>2, <3>3, <1>w
  <2>3. ASSUME NEW o \in Objects, SetUp(s, o)
        PROVE  FALSE
    <3>1. cpc[s] = o /\ clean' = clean
            /\ clean[<<"connector", s>>][1] = "done"
      BY <2>3, Zenon DEF SetUp, Connects
    <3>2. CleansNow(c)
      BY <3>1 DEF CleansNow
    <3>3. c = <<"connector", s>>
      BY <3>1, <3>2, Solo
    <3> QED
      BY <3>1, <3>2, <3>3 DEF CleansNow
  <2>4. CASE ~NotifyAdd(s) /\ \A o \in Objects : ~SetUp(s, o)
    <3>1. ptr' = ptr /\ clean' = clean
      BY <1>1, <2>4, Zenon DEF ConnectorStep, Arrive, Notify, Added, NotAdded
    <3>2. CleansNow(c)
      BY <3>1 DEF CleansNow
    <3> QED
      BY <2>1, <3>1, <3>2, <1>k
  <2> QED
    BY <2>2, <2>3, <2>4
<1>2. ASSUME NEW s \in Sessions, PeerLeaves(s)
      PROVE  ptr'["socket"] \in freed'["threads"]
  <2>1. UNCHANGED <<ptr, freed, clean>>
    BY <1>2, Zenon DEF PeerLeaves
  <2> QED
    BY <2>1, <1>k DEF CleansNow
<1>3. ASSUME NEW t \in Threads, Plain(t) \/ SendStep(t)
      PROVE  ptr'["socket"] \in freed'["threads"]
  <2>1. ptr' = ptr /\ freed' = freed
    BY <1>3, ThreadFrame
  <2>2. clean' = clean
          \/ \E to \in Created :
               clean' = [clean EXCEPT ![<<"reader", t[2]>>] = to]
    BY <1>3, ThreadClean, Zenon DEF Spawn
  <2>3. clean'[c] \in {clean[c]} \cup Created
    BY <1>t, <2>2
  <2>4. CleansNow(c)
    BY <2>3 DEF CleansNow, Created, Denied
  <2> QED
    BY <2>1, <2>4, <1>k
<1>4. CASE HandlerActs
  <2>1. ptr' = ptr /\ freed' = freed
    BY <1>4, HandlerFrame
  <2>2. \/ clean' = clean
        \/ \E to \in Created :
             clean' = [clean EXCEPT ![<<"alarm", handler.for>>] = to]
    BY <1>4, Zenon DEF HandlerActs, Handler, AlarmFires, HandlerLooks,
       HandlerAdds, HandlerSpawns, HandlerExits
  <2>3. clean'[c] \in {clean[c]} \cup Created
    BY <1>t, <2>2
  <2>4. CleansNow(c)
    BY <2>3 DEF CleansNow, Created, Denied
  <2> QED
    BY <2>1, <2>4, <1>k
<1>5. ASSUME NEW k \in Cleaners, Wakes(k)
      PROVE  ptr'["socket"] \in freed'["threads"]
  <2>1. clean[k] = <<"sleep", "threads">> /\ ptr' = ptr /\ cpc' = cpc
        /\ clean' = [clean EXCEPT ![k] = <<"look", "threads">>]
    BY <1>5, CleanerFrame, Zenon DEF Wakes, CleanStep
  <2>2. clean'[k][1] = "look"
    BY <1>t, <2>1
  <2>3. CleansNow(k)' /\ ~CleansNow(k)
    BY <2>1, <2>2 DEF CleansNow
  <2>4. k[1] # "connector"
    BY <2>1, InsideIs
  <2>5. AloneMeans'
    <3>1. Types' /\ Fits' /\ Alone' => AloneMeans'
      BY SoloIs, PTL
    <3> QED
      BY <3>1
  <2>6. ASSUME NEW x \in Cleaners, CleansNow(x)
        PROVE  FALSE
    <3>1. x # k /\ clean'[x] = clean[x]
      BY <1>t, <2>1, <2>3, <2>6
    <3>2. CleansNow(x)'
      BY <2>6, <3>1 DEF CleansNow
    <3> QED
      BY <2>3, <2>5, <3>1, <3>2 DEF AloneMeans
  <2>7. ASSUME NEW x \in Sessions, SetsUp(x)
        PROVE  FALSE
    <3>1. cpc'[x] \notin {"none", "done"}
      BY <2>1, <2>7 DEF SetsUp
    <3>2. k = <<"connector", x>>
      BY <2>3, <2>5, <3>1 DEF AloneMeans
    <3> QED
      BY <2>4, <3>2
  <2> QED
    BY <2>1, <2>6, <2>7, <1>w
<1>6. ASSUME NEW k \in Cleaners, StopAll(k)
      PROVE  ptr'["socket"] \in freed'["threads"]
  <2>1. ptr' = ptr /\ freed' = freed /\ clean[k][1] = "stopAll"
    BY <1>6 DEF StopAll, CleanStep
  <2> QED
    BY <2>1, <1>k DEF CleansNow
<1>7. ASSUME NEW k \in Cleaners, NEW o \in Objects,
             FindsNull(k, o) \/ Finds(k, o) \/ Delete(k, o)
      PROVE  ptr'["socket"] \in freed'["threads"]
  <2>1. clean[k][1] \in {"look", "delete"} /\ ptr' = ptr
    BY <1>7 DEF FindsNull, Finds, Delete, CleanStep
  <2>2. freed' = freed
          \/ freed' = [freed EXCEPT ![o] = @ \cup {del[k]}]
    BY <1>7, Zenon DEF FindsNull, Finds, Delete
  <2>3. freed["threads"] \subseteq freed'["threads"]
    BY <1>t, <2>2
  <2> QED
    BY <2>1, <2>3, <1>k DEF CleansNow
<1>8. ASSUME NEW k \in Cleaners, NEW o \in Objects, SetsNull(k, o)
      PROVE  ptr'["socket"] \in freed'["threads"]
  <2>1. /\ clean[k] = <<"null", o>> /\ freed' = freed
        /\ ptr' = [ptr EXCEPT ![o] = NoSession]
    BY <1>8, Zenon DEF SetsNull, CleanStep
  <2>2. CleansNow(k) /\ clean[k][1] = "null" /\ clean[k][2] = o
    BY <2>1 DEF CleansNow
  <2>3. CASE o = "threads"
    <3>1. CleanShape(k, "null", "threads")
      BY <2>2, <2>3 DEF Calm, Orderly
    <3>2. PICK s \in Sessions : LeftOf(k, "null", "threads", s)
      BY <3>1 DEF CleanShape
    <3>3. ptr["socket"] = s /\ s \in freed["threads"]
      BY <3>2 DEF LeftOf, Deleted
    <3> QED
      BY <1>t, <2>1, <2>3, <3>3
  <2>4. CASE o = "socket"
    BY <1>t, <2>1, <2>4
  <2>5. CASE o \notin {"threads", "socket"}
    <3>1. ptr'["threads"] = ptr["threads"] /\ ptr'["socket"] = ptr["socket"]
      BY <1>t, <2>1, <2>5
    <3> QED
      BY <2>1, <2>2, <3>1, <1>k
  <2> QED
    BY <2>3, <2>4, <2>5
<1> QED
  BY <1>1, <1>2, <1>3, <1>4, <1>5, <1>6, <1>7, <1>8, StepCases, Zenon
     DEF CleanerStep

(* A step that leaves the socket, the group and the threads where they are.*)
LEMMA NoTurn ==
  ASSUME ptr'["socket"] = ptr["socket"],
         freed'["threads"] = freed["threads"],
         freed'["socket"] \ {ptr["socket"]}
           = freed["socket"] \ {ptr["socket"]},
         pc' = pc
  PROVE  UNCHANGED Turns!turnVars
  BY DEF Turns!turnVars

LEMMA ThreadLeaves ==
  ASSUME ptr' = ptr, freed' = freed, pc \in [Threads -> PcStates],
         NEW t \in Threads, pc[t] \notin {"none", "gone"},
         pc' = [pc EXCEPT ![t] = "gone"]
  PROVE  Turns!Next
<1>1. \A x \in Threads : x # t => pc'[x] = pc[x]
  OBVIOUS
<1>2. pc'[t] = "gone"
  OBVIOUS
<1>3. {x \in Threads : pc'[x] # "none"} = {x \in Threads : pc[x] # "none"}
  BY <1>1, <1>2
<1>4. {x \in Threads : pc'[x] = "gone"}
        = {x \in Threads : pc[x] = "gone"} \cup {t}
  BY <1>1, <1>2
<1>5. t \in {x \in Threads : pc[x] # "none"}
           \ {x \in Threads : pc[x] = "gone"}
  OBVIOUS
<1>6. Turns!Leaves(t)
  BY <1>3, <1>4, <1>5 DEF Turns!Leaves
<1> QED
  BY <1>6 DEF Turns!Next, Threads

LEMMA TurnConnector ==
  ASSUME Types, Fits, Calm, NEW s \in Sessions, ConnectorStep(s)
  PROVE  [Turns!Next]_(Turns!turnVars)
<1>t. /\ ptr \in [Objects -> Pointers]
      /\ freed \in [Objects -> SUBSET Sessions]
      /\ pc \in [Threads -> PcStates]
  BY DEF Types
<1>f. freed' = freed
  BY ConnectorFrame
<1>1. CASE Arrive(s) \/ Notify(s) \/ NotifyAdd(s)
             \/ \E r \in Roles : NotAdded(s, r)
  <2>1. ptr' = ptr /\ pc' = pc
    BY <1>1, Zenon DEF Arrive, Notify, NotifyAdd, NotAdded, threadVars
  <2> QED
    BY <1>f, <2>1, NoTurn
<1>2. ASSUME NEW o \in Objects, SetUp(s, o)
      PROVE  [Turns!Next]_(Turns!turnVars)
  <2>1. /\ cpc[s] = o /\ ptr' = [ptr EXCEPT ![o] = s] /\ pc' = pc
        /\ clean[<<"connector", s>>][1] = "done"
    BY <1>2, Zenon DEF SetUp, Connects, threadVars
  <2>2. CASE o # "socket"
    <3>1. ptr'["socket"] = ptr["socket"]
      BY <1>t, <2>1, <2>2
    <3> QED
      BY <1>f, <2>1, <3>1, NoTurn
  <2>3. CASE o = "socket"
    <3>1. ptr["socket"] = NoSession
      BY <2>1, <2>3 DEF Calm, Orderly, SetsUp, SetUpShape, Made
    <3>2. s \notin freed["threads"] /\ s \notin freed["socket"]
      BY <2>1, <2>3 DEF Calm, Kept
    <3>3. ptr'["socket"] = s
      BY <1>t, <2>1, <2>3
    <3>4. /\ freed["threads"] \subseteq Sessions
          /\ freed["socket"] \subseteq Sessions
      BY <1>t
    <3>5. freed["socket"] \ {s} = freed["socket"] \ {NoSession}
      BY <3>2, <3>4
    <3>6. Turns!Begin(s)
      BY <1>f, <2>1, <3>1, <3>2, <3>3, <3>5 DEF Turns!Begin
    <3> QED
      BY <3>6 DEF Turns!Next
  <2> QED
    BY <2>2, <2>3
<1>3. ASSUME NEW r \in Roles, Added(s, r)
      PROVE  [Turns!Next]_(Turns!turnVars)
  <2>1. /\ cpc[s] = r /\ ptr' = ptr
        /\ pc' = [pc EXCEPT ![<<r, s>>] = "created"]
    BY <1>3, Zenon DEF Added, Connects
  <2>2. ptr["socket"] = s /\ s \notin freed["threads"]
    BY <2>1 DEF Calm, Orderly, Current
  <2>3. pc[<<r, s>>] = "none"
    BY <2>1 DEF Fits, ReaderOK, NotYet
  <2>4. <<r, s>> \in Threads
    BY IsThread
  <2>5. \A x \in Threads : x # <<r, s>> => pc'[x] = pc[x]
    BY <1>t, <2>1
  <2>6. pc'[<<r, s>>] = "created"
    BY <1>t, <2>1, <2>4
  <2>7. {x \in Threads : pc'[x] # "none"}
          = {x \in Threads : pc[x] # "none"} \cup {<<r, s>>}
    BY <2>4, <2>5, <2>6
  <2>8. {x \in Threads : pc'[x] = "gone"} = {x \in Threads : pc[x] = "gone"}
    BY <2>3, <2>5, <2>6
  <2>9. <<r, s>> \notin {x \in Threads : pc[x] # "none"}
    BY <2>3
  <2>10. Turns!Starts(r)
    BY <1>f, <2>1, <2>2, <2>7, <2>8, <2>9 DEF Turns!Starts
  <2> QED
    BY <2>10 DEF Turns!Next
<1> QED
  BY <1>1, <1>2, <1>3, Zenon DEF ConnectorStep

LEMMA TurnThread ==
  ASSUME Types, Fits, NEW t \in Threads, Plain(t) \/ SendStep(t)
  PROVE  [Turns!Next]_(Turns!turnVars)
<1>t. pc \in [Threads -> PcStates]
  BY DEF Types
<1>1. ptr' = ptr /\ freed' = freed
  BY ThreadFrame
<1>2. PICK to \in PcStates \ {"none", "created"} :
        pc' = [pc EXCEPT ![t] = to] /\ pc[t] \in Serving
  BY ThreadMove DEF ThreadMoves
<1>3. pc[t] \notin {"none", "gone"}
  BY <1>2 DEF Serving
<1>4. CASE to = "gone"
  BY <1>t, <1>1, <1>2, <1>3, <1>4, ThreadLeaves
<1>5. CASE to # "gone"
  <2>1. \A x \in Threads : x # t => pc'[x] = pc[x]
    BY <1>t, <1>2
  <2>2. pc'[t] \notin {"none", "gone"}
    BY <1>t, <1>2, <1>5
  <2>3. {x \in Threads : pc'[x] # "none"} = {x \in Threads : pc[x] # "none"}
    BY <1>3, <2>1, <2>2
  <2>4. {x \in Threads : pc'[x] = "gone"} = {x \in Threads : pc[x] = "gone"}
    BY <1>3, <2>1, <2>2
  <2> QED
    BY <1>1, <2>3, <2>4 DEF Turns!turnVars
<1> QED
  BY <1>4, <1>5

LEMMA TurnCleaner ==
  ASSUME Types, Calm, GroupFirst, NEW k \in Cleaners,
         Wakes(k) \/ StopAll(k) \/ \E o \in Objects : CleanerStep(k, o)
  PROVE  [Turns!Next]_(Turns!turnVars)
<1>t. /\ ptr \in [Objects -> Pointers]
      /\ freed \in [Objects -> SUBSET Sessions]
      /\ clean \in [Cleaners -> CleanStates \X Objects]
  BY DEF Types
<1>p. pc' = pc
  BY CleanerFrame
<1>1. CASE Wakes(k) \/ StopAll(k)
  <2>1. ptr' = ptr /\ freed' = freed
    BY <1>1, Zenon DEF Wakes, StopAll
  <2> QED
    BY <1>p, <2>1, NoTurn
<1>2. ASSUME NEW o \in Objects, FindsNull(k, o) \/ Finds(k, o)
      PROVE  [Turns!Next]_(Turns!turnVars)
  <2>1. ptr' = ptr /\ freed' = freed
    BY <1>2, Zenon DEF FindsNull, Finds
  <2> QED
    BY <1>p, <2>1, NoTurn
<1>3. ASSUME NEW o \in Objects, Delete(k, o)
      PROVE  [Turns!Next]_(Turns!turnVars)
  <2>1. /\ clean[k] = <<"delete", o>> /\ ptr' = ptr
        /\ freed' = [freed EXCEPT ![o] = @ \cup {del[k]}]
        /\ o = "threads" /\ del[k] \notin freed[o] => list[del[k]] = {}
    BY <1>3, Zenon DEF Delete, CleanStep
  <2>2. CleansNow(k) /\ clean[k][1] = "delete" /\ clean[k][2] = o
    BY <2>1 DEF CleansNow
  <2>3. CleanShape(k, "delete", o)
    BY <2>2 DEF Calm, Orderly
  <2>4. PICK s \in Sessions : LeftOf(k, "delete", o, s)
    BY <2>3 DEF CleanShape
  <2>5. del[k] = s /\ ptr["socket"] = s /\ s \notin freed[o]
    BY <2>4 DEF LeftOf, Deleted
  <2>6. CASE o = "threads"
    <3>1. ptr["threads"] = s /\ list[s] = {}
      BY <2>1, <2>4, <2>5, <2>6 DEF LeftOf, Deleted
    <3>2. ASSUME NEW t \in Threads, pc[t] # "none"
          PROVE  pc[t] = "gone"
      BY <3>1, <3>2 DEF Calm, ThreadOK, Alive, Current
    <3>3. freed'["threads"] = freed["threads"] \cup {s}
            /\ freed'["socket"] = freed["socket"]
      BY <1>t, <2>1, <2>5, <2>6
    <3>4. {x \in Threads : pc[x] # "none"} \subseteq
            {x \in Threads : pc[x] = "gone"}
      BY <3>2
    <3>5. s # NoSession
      OBVIOUS
    <3>6. Turns!Close
      BY <1>p, <2>1, <2>5, <2>6, <3>3, <3>4, <3>5 DEF Turns!Close
    <3> QED
      BY <3>6 DEF Turns!Next
  <2>7. CASE o # "threads"
    <3>1. freed'["threads"] = freed["threads"]
      BY <1>t, <2>1, <2>7
    <3>2. freed'["socket"] \in {freed["socket"], freed["socket"] \cup {s}}
      BY <1>t, <2>1, <2>5
    <3>3. freed'["socket"] \ {s} = freed["socket"] \ {s}
      BY <3>2
    <3> QED
      BY <1>p, <2>1, <2>5, <3>1, <3>3, NoTurn
  <2> QED
    BY <2>6, <2>7
<1>4. ASSUME NEW o \in Objects, SetsNull(k, o)
      PROVE  [Turns!Next]_(Turns!turnVars)
  <2>1. /\ clean[k] = <<"null", o>> /\ freed' = freed
        /\ ptr' = [ptr EXCEPT ![o] = NoSession]
    BY <1>4, Zenon DEF SetsNull, CleanStep
  <2>2. CASE o # "socket"
    <3>1. ptr'["socket"] = ptr["socket"]
      BY <1>t, <2>1, <2>2
    <3> QED
      BY <1>p, <2>1, <3>1, NoTurn
  <2>3. CASE o = "socket"
    <3>1. CleansNow(k) /\ CleanShape(k, "null", "socket")
      <4>1. CleansNow(k) /\ clean[k][1] = "null" /\ clean[k][2] = "socket"
        BY <2>1, <2>3 DEF CleansNow
      <4> QED
        BY <4>1 DEF Calm, Orderly
    <3>2. ptr["threads"] = NoSession
      BY <3>1 DEF CleanShape, Deleted
    <3>3. PICK s \in Sessions : LeftOf(k, "null", "socket", s)
      BY <3>1 DEF CleanShape
    <3>4. ptr["socket"] = s /\ s \in freed["socket"] /\ s # NoSession
      BY <3>3 DEF LeftOf, Deleted
    <3>5. s \in freed["threads"]
      BY <3>1, <3>2, <3>4 DEF GroupFirst
    <3>6. ptr'["socket"] = NoSession
      BY <1>t, <2>1, <2>3
    <3>7. freed["socket"] \ {NoSession}
            = (freed["socket"] \ {s}) \cup {s}
      BY <1>t, <3>4
    <3>8. Turns!End
      BY <1>p, <2>1, <3>4, <3>5, <3>6, <3>7 DEF Turns!End
    <3> QED
      BY <3>8 DEF Turns!Next
  <2> QED
    BY <2>2, <2>3
<1> QED
  BY <1>1, <1>2, <1>3, <1>4, Zenon DEF CleanerStep

LEMMA TurnHandler ==
  ASSUME Types, Fits, HandlerActs
  PROVE  [Turns!Next]_(Turns!turnVars)
<1>t. /\ pc \in [Threads -> PcStates] /\ list \in [Sessions -> SUBSET Members]
      /\ ptr \in [Objects -> Pointers]
      /\ handler.in \in Threads \cup {Outsider}
  BY DEF Types, Handlers
<1>1. ptr' = ptr /\ freed' = freed
  BY HandlerFrame
<1>2. CASE pc' = pc
  BY <1>1, <1>2, NoTurn
<1>3. CASE pc' # pc
  <2>1. /\ handler.at = "exit" /\ Unlisted(handler.in) /\ list' # list
        /\ pc' = [pc EXCEPT ![handler.in] = "gone"]
    BY <1>3, Zenon DEF HandlerActs, Handler, AlarmFires, HandlerLooks,
       HandlerAdds, HandlerSpawns, HandlerExits
  <2>2. /\ ptr["threads"] # NoSession
        /\ list' = [list EXCEPT ![ptr["threads"]] = @ \ {handler.in}]
    BY <2>1, Zenon DEF Unlisted
  <2>3. handler.in \in list[ptr["threads"]]
    BY <1>t, <2>1, <2>2 DEF Pointers
  <2>4. handler.in \in Threads /\ handler.in # Outsider
    BY <1>t, <2>2, <2>3 DEF Pointers, Handlers, Members
  <2>5. pc[handler.in] \in {"top", "check"}
    BY <2>1, <2>4 DEF Fits, HandlerOK
  <2> QED
    BY <1>t, <1>1, <2>1, <2>4, <2>5, ThreadLeaves
<1> QED
  BY <1>2, <1>3

(* The invariant with what the turns need.                                 *)
TurnsIInv == IInv /\ (~overlap => GroupFirst)

LEMMA NextTurnsIInv == TurnsIInv /\ [Next]_vars => TurnsIInv'
<1> SUFFICES ASSUME TurnsIInv, [Next]_vars
             PROVE  TurnsIInv'
  OBVIOUS
<1>1. IInv /\ IInv' /\ (~overlap => GroupFirst)
  BY NextIInv, Zenon DEF TurnsIInv
<1>2. ASSUME ~overlap'
      PROVE  GroupFirst'
  <2>1. CASE Next
    <3>1. History /\ overlap \in BOOLEAN
      BY <1>1, <2>1, Zenon DEF Next, IInv, TypeOK
    <3>2. ~overlap /\ Alone'
      BY <1>2, <3>1, AloneAfter, Zenon
    <3>3. Fits /\ Fits' /\ Alone /\ Calm /\ GroupFirst
      BY <1>1, <3>2, Zenon DEF IInv, Sound, Calm
    <3>4. Types /\ Types'
      BY <1>1, Zenon DEF IInv, Types, TypeOK, PcStates, CpcStates,
         CleanStates, Handlers
    <3> QED
      BY <2>1, <3>2, <3>3, <3>4, GroupFirstStep
  <2>2. CASE UNCHANGED vars
    <3>1. UNCHANGED <<ptr, freed, clean>> /\ overlap' = overlap
      BY <2>2, Zenon DEF vars
    <3>2. GroupFirst
      BY <1>1, <1>2, <3>1
    <3> QED
      BY <3>1, <3>2 DEF GroupFirst, CleansNow
  <2> QED
    BY <2>1, <2>2
<1> QED
  BY <1>1, <1>2, Zenon DEF TurnsIInv

LEMMA InitTurns == Init => TurnsIInv /\ Turns!Init
<1> SUFFICES ASSUME Init
             PROVE  TurnsIInv /\ Turns!Init
  OBVIOUS
<1>1. /\ ptr = Nothing /\ freed = [o \in Objects |-> {}]
      /\ pc = [t \in Threads |-> "none"]
  BY Zenon DEF Init
<1>2. GroupFirst
  BY <1>1 DEF GroupFirst, Nothing
<1>3. Turns!Init
  BY <1>1 DEF Turns!Init, Nothing
<1> QED
  BY <1>2, <1>3, InitIInv, Zenon DEF TurnsIInv

LEMMA StepsOfTurns ==
  TurnsIInv /\ [Next]_vars => [~overlap => [Turns!Next]_(Turns!turnVars)]_vars
<1> SUFFICES ASSUME TurnsIInv, Next, ~overlap
             PROVE  [Turns!Next]_(Turns!turnVars)
  OBVIOUS
<1>1. Fits /\ Calm /\ GroupFirst
  BY Zenon DEF TurnsIInv, IInv, Sound, Calm
<1>2. Types
  BY TypeParts, Zenon DEF TurnsIInv, IInv
<1>3. ASSUME NEW s \in Sessions, PeerLeaves(s)
      PROVE  [Turns!Next]_(Turns!turnVars)
  <2>1. ptr' = ptr /\ freed' = freed /\ pc' = pc
    BY <1>3, Zenon DEF PeerLeaves, threadVars
  <2> QED
    BY <2>1, NoTurn
<1> QED
  BY <1>1, <1>2, <1>3, StepCases, TurnConnector, TurnThread, TurnCleaner,
     TurnHandler, Zenon

(* For any number of sessions, connectors, cleanup and the alarm's handler *)
(* do with their unguarded globals what SessionTurns promises, step by     *)
(* step, until two outsiders have been inside at once.                     *)
THEOREM ImplementsTurns == Spec => TakesTurns
  BY InitTurns, NextTurnsIInv, StepsOfTurns, PTL DEF Spec, TakesTurns
=============================================================================
