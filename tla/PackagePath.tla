---------------------------- MODULE PackagePath ----------------------------
(***************************************************************************)
(* The way of a command from the peer's package to the processor: the      *)
(* peer's packages as bytes (VncDataPackage), cut out of the stream by the *)
(* reader thread (VncBufferReader), handed through the inbound queue       *)
(* (VncCommandQueue) to the processor thread, decoded and looked into.     *)
(* The reader sees only offsets; here they get the bytes of the packages   *)
(* Sent.                                                                   *)
(*                                                                         *)
(* Of the processor's switch the push command is here, whose fields come   *)
(* out of getStringValue's static: it carries what an earlier lookup left, *)
(* in the same push or in an earlier one.                                  *)
(***************************************************************************)
EXTENDS VncBufferReader, VncDataPackage, VncCommandQueue

CONSTANTS Sent,                      \* the peer's packages, in order
          T2P_CMD_REMOTE_PUSH_FILE,  \* the command id of a push
          Reader,                    \* the thread of vnc_read_channel
          Processor                  \* the thread of vnc_command_processor

(* Of the queue's threads only these two use the inbound one.              *)
ASSUME EndsAssumption ==
  /\ Reader \in Producers
  /\ Processor \in Consumers
  /\ NumPkgs <= MaxPackages

Image(k) == MakeNewProtocolBuffer(Sent[k])

(* The peer builds its packages as the create() calls do, short enough for *)
(* their lengths to fit into a word; the offsets the reader works with are *)
(* those of their bytes.                                                   *)
ASSUME PathAssumption ==
  /\ Len(Sent) = NumPkgs
  /\ \A k \in 1..NumPkgs :
       /\ IsCreated(Sent[k])
       /\ Start[k] = Start[k - 1] + Len(Image(k))
       /\ Len(Image(k)) < Word

(* What the libraries print of a parameter is a text, from which they read *)
(* the same parameter again: snprintf and atoi, jsoncpp's writer and       *)
(* reader.                                                                 *)
ASSUME LibrariesAssumption ==
  \A k \in 1..NumPkgs :
    LET c == Sent[k]
        text == Printed(c).m_bufParam
    IN  /\ text \in Seq(0..(Byte - 1))
        /\ c.m_paramType = CMD_ARGUMENT_TYPE_INT32 =>
             Unsigned(Atoi(text)) = c.m_intParam
        /\ c.m_paramType = CMD_ARGUMENT_TYPE_KEYVALUE =>
             Parse(text) = c.m_jsonroot

(* The byte before each offset of the stream is one of the package there.  *)
Bytes ==
  [i \in 1..Start[NumPkgs] |->
     LET k == CHOOSE j \in 1..NumPkgs : Start[j - 1] < i /\ i <= Start[j]
     IN  Image(k)[i - Start[k - 1]]]

Raw(slice) == SubSeq(Bytes, slice.at + 1, slice.at + slice.len)

-----------------------------------------------------------------------------
VARIABLES static,   \* the static of getStringValue
          fields    \* history: what each package taken gave for a push

pathVars == <<vars, queueVars, static, fields>>

PathInit == Init /\ QueueInit /\ static = 0 /\ fields = << >>

(* The bytes of the k-th package the processor has taken.                  *)
TakenRaw(k) == Raw(delivered[taken[k].num])

(* What it finds in them.                                                  *)
Received == [k \in 1..Len(taken) |-> Decode(TakenRaw(k))]

IsPush(c) == c.m_command = T2P_CMD_REMOTE_PUSH_FILE

(* Faulty: the path is looked up before the URL.                           *)
PushFilePathFirst(c, s) ==
  LET path == GetStringValue(c, Path, s)
      url == GetStringValue(c, Url, path)
  IN  [url |-> url, path |-> path, size |-> GetIntValue(c, Size), last |-> url]

(* The fields of the push command; the last lookup stays in the static.    *)
PushFile(c, s) ==
  LET url == GetStringValue(c, Url, s)
      path == GetStringValue(c, Path, url)
  IN  [url |-> url, path |-> path, size |-> GetIntValue(c, Size),
       last |-> path]

(* No other command calls getStringValue.                                  *)
Process(c, s) ==
  IF IsPush(c) THEN PushFile(c, s)
  ELSE [url |-> 0, path |-> 0, size |-> 0, last |-> s]

(* addBuffer called addPackage and has not come back from it.  (What it    *)
(* then does to its own cache, which nobody else sees, Deliver has done.)  *)
InAddPackage == added[Reader] < Len(delivered) \/ place[Reader] # "idle"

Receives ==
  /\ ~InAddPackage
  /\ \E n \in 1..MaxRead : AddBuffer(n)
  /\ UNCHANGED <<queueVars, static, fields>>

Cuts ==
  ~InAddPackage /\ NextPackage /\ UNCHANGED <<queueVars, static, fields>>

HandsOver ==
  InAddPackage /\ AddPackage(Reader) /\ UNCHANGED <<vars, static, fields>>

(* A package is processed when it is taken: nobody else sees the static.   *)
(* (Each set has the one value that is computed.)                          *)
Processes(package) ==
  \E raw \in {Raw(delivered[package.num])} :
    \E c \in {Decode(raw)} : \E push \in {Process(c, static)} :
      /\ static' = push.last
      /\ fields' = Append(fields, push)

Takes ==
  /\ GetPackage(Processor)
  /\ IF taken' = taken THEN UNCHANGED <<static, fields>>
     ELSE Processes(front[Processor])
  /\ UNCHANGED vars

PathNext == Receives \/ Cuts \/ HandsOver \/ Takes

(* addBuffer runs to its end, the processor asks again and again, and as   *)
(* it leaves the mutex alone for 200 ms at a time, the reader gets it.     *)
PathFairness ==
  WF_pathVars(Cuts) /\ SF_pathVars(HandsOver) /\ WF_pathVars(Takes)

PathSpec == PathInit /\ [][PathNext]_pathVars /\ PathFairness
-----------------------------------------------------------------------------
(* Whichever way the reader, the queue and the processor interleave, every *)
(* field of a package arrives as it was set, in the order of the packages: *)
(* a number with its sign, a text, a document; and the first word of what  *)
(* is decoded is its length (makeNewProtocolBuffer against the constructor *)
(* from raw data).                                                         *)
ContentsArrive ==
  \A k \in 1..Len(taken) :
    /\ Received[k] = Printed(Sent[k])
    /\ Number(TakenRaw(k), 1) = Len(TakenRaw(k))

(* The lookups of the k-th package are numbered: 2k - 1 that of the URL,   *)
(* 2k that of the path.  Does the peer's push name what lookup i wants?    *)
Of(i) == Sent[(i + 1) \div 2]
Key(i) == IF i % 2 = 1 THEN Url ELSE Path
Names(i) == IsPush(Of(i)) /\ Key(i) \in DOMAIN Of(i).m_jsonroot

(* v is the last field a push has named, up to lookup i; or there is none. *)
IsLastNamed(v, i) ==
  \/ \E j \in 1..i : /\ Names(j) /\ v = Of(j).m_jsonroot[Key(j)]
                     /\ \A n \in (j + 1)..i : ~Names(n)
  \/ v = 0 /\ \A n \in 1..i : ~Names(n)

(* What a push fetches and where it stores it.  A field the peer names is  *)
(* the one that is used.  One that is missing does not end in the -4 of    *)
(* VncCommandProcessor.cpp:241: the static of getStringValue puts in its   *)
(* place the field named last before, the push's own URL for its path and  *)
(* a field of an earlier push for its URL, be that one's path; only the    *)
(* first push finds nothing there.  The size alone is always its own.      *)
PushTakesLastNamed ==
  \A k \in 1..Len(fields) :
    IsPush(Sent[k]) =>
      LET doc == Sent[k].m_jsonroot
      IN  /\ IsLastNamed(fields[k].url, 2 * k - 1)
          /\ IsLastNamed(fields[k].path, 2 * k)
          /\ fields[k].size = IF Size \in DOMAIN doc THEN doc[Size] ELSE 0

(* Reader, queue and processor together keep the promise of PackageStream: *)
(* each package reaches the processor once, in order, not before its last  *)
(* byte has arrived, and then some time, although getPackage may miss the  *)
(* signal of addPackage.                                                   *)
EndToEnd == INSTANCE PackageStream WITH handed <- Len(taken)
CommandsArrive == EndToEnd!Spec
=============================================================================
