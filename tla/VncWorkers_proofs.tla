------------------------- MODULE VncWorkers_proofs -------------------------
(***************************************************************************)
(* For any number of commands: what a worker answers, how often a          *)
(* screenshot comes late, and what becomes of the log dumpers.             *)
(***************************************************************************)
EXTENDS VncWorkers, TLAPS

-----------------------------------------------------------------------------
(* The inductive invariant *)

Uploading == {"upload", "awaiting", "hanging"}

(* Where a worker of each kind can be.                                     *)
StatesOf(k) ==
  IF k = "none" THEN {"none"} ELSE
  {"none", "refused", "created", "gone"} \cup
  CASE k \in Captures ->
         Uploading \cup {"copying", "naming", "looking", "making", "starting",
                         "reset", "capturing", "stopping", "telling",
                         "forgetting", "answering"}
    [] k = "photo" -> Uploading \cup {"shooting", "answering", "silent"}
    [] k = "screens" -> Uploading \cup {"copying", "reset", "shooting",
                                        "counting", "waiting"}
    [] k = "push" -> {"copying", "download", "answering", "rejected"}
    [] k = "pull" -> Uploading \cup {"copying", "answering", "rejected"}

Shape ==
  /\ \A n \in Tags : kind[n] = "none" <=> n > handled
  /\ \A n \in Tags : wpc[n] \in StatesOf(kind[n])
  /\ ppc # "idle" => handled \in Tags /\ wpc[handled] = "none"
  /\ ppc = "tagged" => kind[handled] \in Blocks
  /\ \A n \in mixed : kind[n] \in Blocks

(* A block holds the last command of its kind, and any other command whose *)
(* worker has not copied it is mixed with that one.                        *)
BlocksOK ==
  /\ ppc = "tagged" => block[kind[handled]].tag = handled
  /\ ppc = "filled" /\ kind[handled] # "photo" =>
       block[kind[handled]] = [tag |-> handled, params |-> handled]
  /\ \A n \in Tags :
       (wpc[n] \in {"created", "copying"} /\ kind[n] # "photo") =>
         IF n \in mixed
           THEN wpc[n] = "created" => block[kind[n]].tag \in mixed
           ELSE block[kind[n]] = [tag |-> n, params |-> n]

Copied(n) == Alive(n) /\ wpc[n] # "created"

(* A copied tag is the worker's own, or mixed as the worker is.            *)
CopiesOK ==
  \A n \in Tags :
    Copied(n) =>
      IF n \in mixed
        THEN copy[n].tag \in mixed
        ELSE /\ copy[n].tag = n
             /\ wpc[n] # "copying" => copy[n].params = n

AnswersOK == ~crashed => \A n \in Tags \ mixed : answers[n] = Caused(n)

(* After a late screenshot only a cleared flag leads to another.           *)
LateStates ==
  Uploading \cup {"counting", "waiting", "answering", "silent", "gone"}

LateOK ==
  \A n \in Tags :
    \/ lateShots[n] = 0
    \/ lateShots[n] = 1 /\ screenFlag = 1 /\ wpc[n] \in LateStates

(* The thread inside LogcatFileUtils and the dumper.                       *)
Untold == {d \in Tags : dumper[d].life \in {"new", "running"}
                          /\ ~dumper[d].told}

OneInCall ==
  ~raced => \A n, m \in Tags : InCall(n) /\ InCall(m) => n = m

DumperOK ==
  ~raced =>
    /\ ~crashed
    /\ Untold \subseteq {mLogDumper}
    /\ \A n \in Tags :
         /\ wpc[n] = "making" => mLogDumper = None
         /\ wpc[n] = "starting" => /\ mLogDumper = n
                                   /\ dumper[n].life = "new"
         /\ wpc[n] = "telling" => mLogDumper # None
         /\ wpc[n] = "forgetting" => /\ mLogDumper # None
                                     /\ dumper[mLogDumper].told

(* Who leaves a capture leaves no dumper behind.                           *)
FieldHasCapture ==
  (~crashed /\ mLogDumper # None) => \E n \in Tags : Capturing(n)

Apart ==
  \A n \in Tags \ overlapped :
    Capturing(n) => \A m \in Tags \ {n} : ~Capturing(m)

(* A capture on its own, from its file's name to its upload.               *)
OwnLog ==
  \A n \in Tags \ (mixed \cup overlapped) :
    kind[n] \in Captures =>
      /\ wpc[n] \in {"looking", "making"} =>
           mFileName = n /\ (~crashed => mLogDumper = None)
      /\ wpc[n] \in {"starting", "reset", "capturing", "stopping", "telling",
                     "forgetting"} =>
           (~crashed => mLogDumper = n) /\ OwnFile(n)
      /\ wpc[n] = "forgetting" => dumper[n].told
      /\ wpc[n] = "upload" =>
           dumper[n].told /\ OwnFile(n)

IInv ==
  /\ TypeOK /\ Shape /\ BlocksOK /\ CopiesOK /\ AnswersOK /\ LateOK
  /\ OneInCall /\ DumperOK /\ FieldHasCapture /\ Apart /\ OwnLog

USE WorkerAssumption DEF Tags, None, Kinds, Captures, Blocks

-----------------------------------------------------------------------------
(* Initially *)

LEMMA InitIInv == Init => IInv
<1> SUFFICES ASSUME Init
             PROVE  IInv
  OBVIOUS
<1>1. ~frozen /\ ~crashed /\ ~raced
  BY Zenon DEF Init
<1>2. frozen \in BOOLEAN /\ crashed \in BOOLEAN /\ raced \in BOOLEAN
  BY Zenon DEF Init
<1>3. TypeOK
  BY <1>2 DEF Init, TypeOK, WorkerStates, Finals, Copies
<1>4. Shape /\ BlocksOK /\ CopiesOK /\ AnswersOK /\ LateOK
  BY DEF Init, Shape, BlocksOK, CopiesOK, AnswersOK, LateOK, StatesOf,
         Copied, Alive, Finals, Caused
<1>5. OneInCall /\ FieldHasCapture /\ Apart /\ OwnLog
  BY DEF Init, OneInCall, FieldHasCapture, Apart, OwnLog, InCall, Capturing
<1>6. DumperOK
  BY <1>1 DEF Init, DumperOK, Untold
<1> QED
  BY <1>3, <1>4, <1>5, <1>6 DEF IInv

-----------------------------------------------------------------------------
(* What steps do *)

(* A worker's step moves it alone, within the states of its kind.          *)
LEMMA WorkerMoves ==
  ASSUME TypeOK, Shape, NEW n \in Tags, Worker(n)
  PROVE  /\ Alive(n) /\ kind[n] \in Kinds
         /\ \E to \in StatesOf(kind[n]) :
              /\ wpc' = [wpc EXCEPT ![n] = to]
              /\ to \notin {"none", "created", "refused", "rejected"}
              /\ to = "copying" => wpc[n] = "created" /\ kind[n] # "photo"
<1> DEFINE Moves(to) ==
      /\ wpc' = [wpc EXCEPT ![n] = to]
      /\ to \notin {"none", "created", "refused", "rejected"}
      /\ to = "copying" => wpc[n] = "created" /\ kind[n] # "photo"
    Goal == Alive(n) /\ kind[n] \in Kinds
              /\ \E to \in StatesOf(kind[n]) : Moves(to)
<1>1. wpc[n] \in StatesOf(kind[n]) /\ kind[n] \in Kinds \cup {"none"}
  BY DEF TypeOK, Shape
<1> USE DEF StatesOf, Uploading, Alive, Finals, Goes
<1>2. CASE CopyTag(n) \/ CopyParams(n)
  <2>1. CASE CopyTag(n)
    BY <1>1, <2>1 DEF CopyTag
  <2>2. CASE CopyParams(n)
    <3>1. /\ wpc[n] = "copying"
          /\ wpc' = [wpc EXCEPT ![n] = FirstStep(kind[n])]
          /\ kind[n] \in Captures \cup {"screens", "push", "pull"}
      BY <1>1, <2>2 DEF CopyParams
    <3>2. CASE kind[n] \in Captures
      <4>1. FirstStep(kind[n]) = "naming"
        BY <3>2 DEF FirstStep
      <4> QED
        BY <3>1, <3>2, <4>1
    <3>3. CASE kind[n] = "screens"
      <4>1. FirstStep(kind[n]) = "reset"
        BY <3>3 DEF FirstStep
      <4> QED
        BY <3>1, <3>3, <4>1
    <3>4. CASE kind[n] = "push"
      <4>1. FirstStep(kind[n]) = "download"
        BY <3>4 DEF FirstStep
      <4> QED
        BY <3>1, <3>4, <4>1
    <3>5. CASE kind[n] = "pull"
      <4>1. FirstStep(kind[n]) = "upload"
        BY <3>5 DEF FirstStep
      <4> QED
        BY <3>1, <3>5, <4>1
    <3> QED
      BY <3>1, <3>2, <3>3, <3>4, <3>5
  <2> QED
    BY <1>2, <2>1, <2>2
<1>3. CASE UploadStarts(n) \/ UploadHangs(n) \/ DownloadEnds(n)
  BY <1>1, <1>3 DEF UploadStarts, UploadHangs, DownloadEnds
<1>4. CASE UploadEnds(n)
  BY <1>1, <1>4 DEF UploadEnds, AfterUpload
<1>5. CASE AnswerAndLeave(n) \/ PhotoBegins(n) \/ ScreensBegin(n)
  BY <1>1, <1>5 DEF AnswerAndLeave, PhotoBegins, ScreensBegin
<1>6. CASE Shoot(n)
  BY <1>1, <1>6 DEF Shoot
<1>7. CASE Count(n) \/ SeesScreenFlag(n) \/ IntervalOver(n)
  BY <1>1, <1>7 DEF Count, SeesScreenFlag, IntervalOver
<1>8. CASE NameFile(n) \/ FindDumper(n) \/ MakeDumper(n)
  BY <1>1, <1>8 DEF NameFile, FindDumper, MakeDumper
<1>9. CASE StartDumper(n) \/ TellDumper(n)
  BY <1>1, <1>9 DEF StartDumper, TellDumper
<1>10. CASE CaptureBegins(n) \/ CaptureEnds(n)
  BY <1>1, <1>10 DEF CaptureBegins, CaptureEnds
<1>11. CASE LookToStop(n) \/ ForgetDumper(n)
  BY <1>1, <1>11 DEF LookToStop, ForgetDumper
<1> QED
  BY <1>2, <1>3, <1>4, <1>5, <1>6, <1>7, <1>8, <1>9, <1>10, <1>11
     DEF Worker

(* The worker leaves the processor's variables alone.                      *)
LEMMA WorkerFrame ==
  ASSUME NEW n \in Tags, Worker(n)
  PROVE  UNCHANGED <<kind, handled, ppc, block, mixed, frozen>>
<1> USE DEF processorVars, flagVars
<1>1. CASE CopyTag(n) \/ CopyParams(n) \/ UploadStarts(n) \/ UploadEnds(n)
             \/ UploadHangs(n) \/ AnswerAndLeave(n) \/ DownloadEnds(n)
  BY <1>1, Zenon DEF CopyTag, CopyParams, UploadStarts, UploadEnds,
     UploadHangs, AnswerAndLeave, DownloadEnds
<1>2. CASE PhotoBegins(n) \/ ScreensBegin(n) \/ Shoot(n) \/ Count(n)
             \/ SeesScreenFlag(n) \/ IntervalOver(n)
  BY <1>2, Zenon DEF PhotoBegins, ScreensBegin, Shoot, Count,
     SeesScreenFlag, IntervalOver
<1>3. CASE NameFile(n) \/ FindDumper(n) \/ MakeDumper(n) \/ StartDumper(n)
             \/ LookToStop(n) \/ TellDumper(n) \/ ForgetDumper(n)
  BY <1>3, Zenon DEF NameFile, FindDumper, MakeDumper, StartDumper,
     LookToStop, TellDumper, ForgetDumper, JavaStep
<1>4. CASE CaptureBegins(n) \/ CaptureEnds(n)
  BY <1>4, Zenon DEF CaptureBegins, CaptureEnds
<1> QED
  BY <1>1, <1>2, <1>3, <1>4, Zenon DEF Worker

(* What the processor leaves alone.                                        *)
LEMMA ProcessorFrame ==
  ASSUME Processor \/ StopAll
  PROVE  UNCHANGED <<copy, shots, javaVars, captureHist, lateShots>>
  BY Zenon DEF Processor, StopAll, TakeCommand, FillBlock, Reject,
     StartWorker, StopCommand

(* The next state, in the parts that the lemmas below take apart.          *)
LEMMA StepCases ==
  ASSUME [Next]_vars
  PROVE  \/ UNCHANGED vars
         \/ Processor /\ ~crashed
         \/ StopAll /\ ~crashed
         \/ \E n \in Tags : Worker(n) /\ ~crashed
         \/ \E d \in Tags : DumperEnds(d) /\ ~crashed
  BY Zenon DEF Next

-----------------------------------------------------------------------------
(* Type correctness *)

LEMMA StatesTyped ==
  ASSUME NEW k \in Kinds \cup {"none"}
  PROVE  StatesOf(k) \subseteq WorkerStates
<1> USE DEF WorkerStates, Finals, StatesOf, Uploading
<1>1. CASE k \in Captures
  BY <1>1
<1>2. CASE k \in {"none", "photo", "screens"}
  BY <1>2
<1>3. CASE k \in {"push", "pull"}
  BY <1>3
<1> QED
  BY <1>1, <1>2, <1>3

LEMMA CopyTyped ==
  ASSUME NEW r \in Copies, NEW t \in Tags \cup {None}
  PROVE  [r EXCEPT !.tag = t] \in Copies /\ [r EXCEPT !.params = t] \in Copies
  BY DEF Copies

LEMMA WorkerTypes ==
  ASSUME TypeOK, Shape, NEW n \in Tags, Worker(n)
  PROVE  /\ wpc' \in [Tags -> WorkerStates]
         /\ copy' \in [Tags -> Copies]
         /\ shots' \in [Tags -> 0 .. MaxShots]
         /\ screenFlag' \in {0, 1} /\ logFlag' \in {0, 1}
         /\ answers' \in [Tags -> Nat] /\ lateShots' \in [Tags -> Nat]
<1>1. wpc' \in [Tags -> WorkerStates]
  <2>1. PICK to \in StatesOf(kind[n]) : wpc' = [wpc EXCEPT ![n] = to]
    BY WorkerMoves
  <2>2. kind[n] \in Kinds \cup {"none"}
    BY DEF TypeOK
  <2>3. to \in WorkerStates
    BY <2>1, <2>2, StatesTyped
  <2> QED
    BY <2>1, <2>3 DEF TypeOK
<1>t. /\ block \in [Blocks -> Copies] /\ copy \in [Tags -> Copies]
      /\ shots \in [Tags -> 0 .. MaxShots]
      /\ screenFlag \in {0, 1} /\ logFlag \in {0, 1}
      /\ answers \in [Tags -> Nat] /\ lateShots \in [Tags -> Nat]
  BY Zenon DEF TypeOK
<1> USE DEF flagVars
<1>2. CASE CopyTag(n) \/ CopyParams(n)
  <2>1. wpc[n] \in StatesOf(kind[n]) /\ kind[n] \in Kinds \cup {"none"}
    BY DEF TypeOK, Shape
  <2>2. UNCHANGED <<shots, screenFlag, logFlag, answers, lateShots>>
    BY <1>2, Zenon DEF CopyTag, CopyParams
  <2>3. CASE CopyTag(n)
    <3>1. /\ kind[n] \in Blocks
          /\ copy' = [copy EXCEPT ![n] =
                        [copy[n] EXCEPT !.tag = block[kind[n]].tag]]
      BY <2>3, <1>t DEF CopyTag
    <3>2. block[kind[n]].tag \in Tags \cup {None} /\ copy[n] \in Copies
      BY <3>1, <1>t DEF Copies
    <3>3. [copy[n] EXCEPT !.tag = block[kind[n]].tag] \in Copies
      BY <3>2, CopyTyped
    <3> QED
      BY <1>1, <1>t, <2>2, <3>1, <3>3
  <2>4. CASE CopyParams(n)
    <3>1. wpc[n] = "copying"
      BY <2>4 DEF CopyParams, Goes
    <3>2. kind[n] \in Blocks
      BY <2>1, <3>1 DEF StatesOf, Uploading
    <3>3. copy' = [copy EXCEPT ![n] =
                        [copy[n] EXCEPT !.params = block[kind[n]].params]]
      BY <2>4, <1>t DEF CopyParams
    <3>4. block[kind[n]].params \in Tags \cup {None} /\ copy[n] \in Copies
      BY <3>2, <1>t DEF Copies
    <3>5. [copy[n] EXCEPT !.params = block[kind[n]].params] \in Copies
      BY <3>4, CopyTyped
    <3> QED
      BY <1>1, <1>t, <2>2, <3>3, <3>5
  <2> QED
    BY <1>2, <2>3, <2>4
<1>3. CASE UploadStarts(n) \/ UploadEnds(n) \/ UploadHangs(n)
             \/ DownloadEnds(n) \/ CaptureEnds(n)
  BY <1>1, <1>t, <1>3 DEF UploadStarts, UploadEnds, UploadHangs,
     DownloadEnds, CaptureEnds
<1>4. CASE AnswerAndLeave(n)
  <2>1. /\ answers' = [answers EXCEPT ![copy[n].tag] = @ + 1]
        /\ UNCHANGED <<copy, shots, screenFlag, logFlag, lateShots>>
    BY <1>4, Zenon DEF AnswerAndLeave, Answer
  <2>2. answers' \in [Tags -> Nat]
    <3>1. CASE copy[n].tag \in Tags
      BY <2>1, <3>1, <1>t
    <3>2. CASE copy[n].tag \notin Tags
      <4>1. answers' = [m \in Tags |-> answers[m]]
        BY <2>1, <3>2, <1>t
      <4> QED
        BY <4>1, <1>t
    <3> QED
      BY <3>1, <3>2
  <2> QED
    BY <1>1, <1>t, <2>1, <2>2
<1>5. CASE PhotoBegins(n)
  BY <1>1, <1>t, <1>5 DEF PhotoBegins, ClearScreenFlag, Copies
<1>6. CASE ScreensBegin(n)
  BY <1>1, <1>t, <1>6 DEF ScreensBegin, ClearScreenFlag
<1>11. CASE CaptureBegins(n)
  BY <1>1, <1>t, <1>11 DEF CaptureBegins
<1>7. CASE Shoot(n)
  <2>1. UNCHANGED <<copy, shots, screenFlag, logFlag, answers>>
    BY <1>7, Zenon DEF Shoot
  <2>2. \/ lateShots' = lateShots
        \/ lateShots' = [lateShots EXCEPT ![n] = @ + screenFlag]
        \/ lateShots' = [lateShots EXCEPT ![n] = @]
    BY <1>7 DEF Shoot
  <2>3. lateShots[n] \in Nat /\ lateShots[n] + screenFlag \in Nat
    BY <1>t
  <2>4. lateShots' \in [Tags -> Nat]
    BY <2>2, <2>3, <1>t
  <2> QED
    BY <1>1, <1>t, <2>1, <2>4
<1>8. CASE Count(n)
  BY <1>1, <1>t, <1>8 DEF Count
<1>9. CASE SeesScreenFlag(n) \/ IntervalOver(n)
  BY <1>1, <1>t, <1>9 DEF SeesScreenFlag, IntervalOver
<1>10. CASE NameFile(n) \/ FindDumper(n) \/ MakeDumper(n) \/ StartDumper(n)
             \/ LookToStop(n) \/ TellDumper(n) \/ ForgetDumper(n)
  <2>1. UNCHANGED <<copy, shots, screenFlag, logFlag, answers, lateShots>>
    BY <1>10, Zenon DEF NameFile, FindDumper, MakeDumper, StartDumper,
       LookToStop, TellDumper, ForgetDumper, JavaStep
  <2> QED
    BY <1>1, <1>t, <2>1
<1> QED
  BY <1>2, <1>3, <1>4, <1>5, <1>6, <1>7, <1>8, <1>9, <1>10, <1>11 DEF Worker

Dumpers == [life : {"none", "new", "running", "gone"}, told : BOOLEAN,
            file : Tags \cup {None}]

LEMMA DumperTyped ==
  ASSUME NEW r \in Dumpers
  PROVE  /\ [r EXCEPT !.told = TRUE] \in Dumpers
         /\ \A l \in {"new", "running", "gone"} :
              [r EXCEPT !.life = l] \in Dumpers
  BY DEF Dumpers

(* Who writes the variables of the Java side.                              *)
LEMMA JavaTypes ==
  ASSUME TypeOK, Shape, NEW n \in Tags, Worker(n)
  PROVE  /\ mFileName' \in Tags \cup {None}
         /\ mLogDumper' \in Tags \cup {None}
         /\ dumper' \in [Tags -> Dumpers]
         /\ files' \subseteq Tags \cup {None}
         /\ overlapped' \subseteq Tags
<1>t. /\ mFileName \in Tags \cup {None} /\ mLogDumper \in Tags \cup {None}
      /\ dumper \in [Tags -> Dumpers] /\ files \subseteq Tags \cup {None}
      /\ overlapped \subseteq Tags /\ copy \in [Tags -> Copies]
  BY Zenon DEF TypeOK, Dumpers
<1> USE DEF javaVars, captureHist
<1>1. CASE CopyTag(n) \/ CopyParams(n) \/ UploadStarts(n) \/ UploadEnds(n)
             \/ UploadHangs(n) \/ DownloadEnds(n)
  BY <1>t, <1>1 DEF CopyTag, CopyParams, UploadStarts, UploadEnds,
     UploadHangs, DownloadEnds
<1>2. CASE AnswerAndLeave(n)
  BY <1>t, <1>2 DEF AnswerAndLeave
<1>3. CASE PhotoBegins(n) \/ ScreensBegin(n) \/ Shoot(n) \/ Count(n)
             \/ SeesScreenFlag(n) \/ IntervalOver(n)
  BY <1>t, <1>3 DEF PhotoBegins, ScreensBegin, Shoot, Count, SeesScreenFlag,
     IntervalOver
<1>4. CASE NameFile(n)
  <2>1. copy[n].tag \in Tags \cup {None}
    BY <1>t DEF Copies
  <2>2. \A m \in Tags : m \in Tags
    OBVIOUS
  <2> QED
    BY <1>t, <1>4, <2>1 DEF NameFile
<1>5. CASE FindDumper(n) \/ LookToStop(n)
  BY <1>t, <1>5 DEF FindDumper, LookToStop
<1>6. CASE MakeDumper(n)
  <2> DEFINE new(out) == [life |-> "new", told |-> FALSE, file |-> out]
  <2>1. PICK out \in {mFileName, None} :
          /\ dumper' = [dumper EXCEPT ![n] = new(out)]
          /\ files' = files \cup ({out} \ {None})
    BY <1>6, Zenon DEF MakeDumper
  <2>2. mLogDumper' = n /\ UNCHANGED <<mFileName, overlapped>>
    BY <1>6, Zenon DEF MakeDumper
  <2>3. new(out) \in Dumpers
    BY <1>t DEF Dumpers
  <2> QED
    BY <1>t, <2>1, <2>2, <2>3
<1>7. CASE StartDumper(n) \/ TellDumper(n)
  <2>1. UNCHANGED <<mFileName, mLogDumper, files, overlapped>>
    BY <1>7, Zenon DEF StartDumper, TellDumper
  <2>2. CASE UNCHANGED dumper
    BY <1>t, <2>1, <2>2
  <2>3. CASE /\ mLogDumper # None
             /\ \/ dumper' = [dumper EXCEPT ![mLogDumper].told = TRUE]
                \/ dumper' = [dumper EXCEPT ![mLogDumper].life = "running"]
    <3> DEFINE r == dumper[mLogDumper]
    <3>1. mLogDumper \in Tags /\ r \in Dumpers
      BY <1>t, <2>3
    <3>2. /\ [r EXCEPT !.told = TRUE] \in Dumpers
          /\ [r EXCEPT !.life = "running"] \in Dumpers
      BY <3>1, DumperTyped
    <3>3. \/ dumper' = [dumper EXCEPT ![mLogDumper] = [r EXCEPT !.told = TRUE]]
          \/ dumper' = [dumper EXCEPT ![mLogDumper] =
                                        [r EXCEPT !.life = "running"]]
      BY <2>3
    <3> QED
      BY <1>t, <2>1, <3>1, <3>2, <3>3
  <2> QED
    BY <1>7, <2>2, <2>3, Zenon DEF StartDumper, TellDumper
<1>9. CASE ForgetDumper(n)
  BY <1>t, <1>9 DEF ForgetDumper
<1>10. CASE CaptureBegins(n) \/ CaptureEnds(n)
  BY <1>t, <1>10 DEF CaptureBegins, CaptureEnds
<1> QED
  BY <1>1, <1>2, <1>3, <1>4, <1>5, <1>6, <1>7, <1>9, <1>10 DEF Worker

(* The Booleans.                                                           *)
LEMMA BooleanTypes ==
  ASSUME TypeOK, [Next]_vars
  PROVE  frozen' \in BOOLEAN /\ crashed' \in BOOLEAN /\ raced' \in BOOLEAN
<1>1. frozen \in BOOLEAN /\ crashed \in BOOLEAN /\ raced \in BOOLEAN
  BY Zenon DEF TypeOK
<1>2. CASE UNCHANGED vars
  BY <1>1, <1>2, Zenon DEF vars, flagVars, javaVars, captureHist
<1>3. CASE Processor \/ StopAll
  BY <1>1, <1>3, Zenon DEF Processor, StopAll, TakeCommand, FillBlock,
     Reject, StartWorker, StopCommand, flagVars, javaVars, captureHist
<1>4. ASSUME NEW d \in Tags, DumperEnds(d)
      PROVE  frozen' \in BOOLEAN /\ crashed' \in BOOLEAN /\ raced' \in BOOLEAN
  BY <1>1, <1>4, Zenon DEF DumperEnds, flagVars, captureHist
<1>5. ASSUME NEW n \in Tags, Worker(n)
      PROVE  frozen' \in BOOLEAN /\ crashed' \in BOOLEAN /\ raced' \in BOOLEAN
  <2>1. UNCHANGED frozen
    BY <1>5, WorkerFrame
  <2>2. UNCHANGED <<crashed, raced>> \/ JavaStep(n)
    BY <1>5, Zenon DEF Worker, CopyTag, CopyParams, UploadStarts,
       UploadEnds, UploadHangs, AnswerAndLeave, DownloadEnds, PhotoBegins,
       ScreensBegin, Shoot, Count, SeesScreenFlag, IntervalOver, NameFile,
       FindDumper, MakeDumper, StartDumper, CaptureBegins, CaptureEnds,
       LookToStop, TellDumper, ForgetDumper, javaVars, captureHist
  <2>3. raced' \in BOOLEAN
    BY <1>1, <2>2, Zenon DEF JavaStep
  <2>4. UNCHANGED crashed \/ crashed' = TRUE
    BY <1>5, Zenon DEF Worker, CopyTag, CopyParams, UploadStarts,
       UploadEnds, UploadHangs, AnswerAndLeave, DownloadEnds, PhotoBegins,
       ScreensBegin, Shoot, Count, SeesScreenFlag, IntervalOver, NameFile,
       FindDumper, MakeDumper, StartDumper, CaptureBegins, CaptureEnds,
       LookToStop, TellDumper, ForgetDumper, javaVars
  <2> QED
    BY <1>1, <2>1, <2>3, <2>4, Zenon
<1> QED
  BY <1>2, <1>3, <1>4, <1>5, StepCases

LEMMA ProcessorTypes ==
  ASSUME TypeOK, Shape, Processor \/ StopAll
  PROVE  /\ kind' \in [Tags -> Kinds \cup {"none"}]
         /\ handled' \in 0 .. MaxCommands
         /\ ppc' \in {"idle", "tagged", "filled"}
         /\ block' \in [Blocks -> Copies]
         /\ wpc' \in [Tags -> WorkerStates]
         /\ screenFlag' \in {0, 1} /\ logFlag' \in {0, 1}
         /\ answers' \in [Tags -> Nat] /\ mixed' \subseteq Tags
<1>t. /\ kind \in [Tags -> Kinds \cup {"none"}]
      /\ handled \in 0 .. MaxCommands
      /\ ppc \in {"idle", "tagged", "filled"}
      /\ block \in [Blocks -> Copies] /\ wpc \in [Tags -> WorkerStates]
      /\ screenFlag \in {0, 1} /\ logFlag \in {0, 1}
      /\ answers \in [Tags -> Nat] /\ mixed \subseteq Tags
  BY Zenon DEF TypeOK
<1>1. CASE \E k \in Kinds : TakeCommand(k)
  <2>1. PICK k \in Kinds : TakeCommand(k)
    BY <1>1
  <2>2. UNCHANGED <<wpc, screenFlag, logFlag, answers>>
    BY <2>1, Zenon DEF TakeCommand, flagVars
  <2>3. /\ handled' = handled + 1 /\ handled < MaxCommands
        /\ kind' = [kind EXCEPT ![handled + 1] = k]
        /\ ppc' \in {"tagged", "filled"}
    BY <2>1 DEF TakeCommand
  <2>4. handled' \in Tags /\ kind' \in [Tags -> Kinds \cup {"none"}]
    BY <1>t, <2>3
  <2>5. CASE k = "photo"
    BY <2>1, <2>2, <2>3, <2>4, <2>5, <1>t DEF TakeCommand
  <2>6. CASE k # "photo"
    <3>1. /\ block' = [block EXCEPT ![k] =
                         [block[k] EXCEPT !.tag = handled + 1]]
          /\ k \in Blocks
      BY <2>1, <2>6, <1>t DEF TakeCommand
    <3>2. block[k] \in Copies
      BY <1>t, <3>1
    <3>3. [block[k] EXCEPT !.tag = handled + 1] \in Copies
      BY <3>2, <2>3, <2>4, CopyTyped
    <3>4. block' \in [Blocks -> Copies]
      BY <3>1, <3>3, <1>t
    <3>5. mixed' \subseteq Tags
      BY <2>1, <2>3, <2>4, <2>6, <1>t DEF TakeCommand, OfKind
    <3> QED
      BY <2>2, <2>3, <2>4, <3>4, <3>5, <1>t
  <2> QED
    BY <2>5, <2>6
<1>2. CASE FillBlock
  <2>1. handled \in Tags /\ kind[handled] \in Blocks
    BY <1>2 DEF FillBlock, Shape
  <2>2. block' = [block EXCEPT ![kind[handled]] =
                    [block[kind[handled]] EXCEPT !.params = handled]]
    BY <1>2, <1>t, <2>1 DEF FillBlock
  <2>3. block[kind[handled]] \in Copies
    BY <1>t, <2>1
  <2>4. [block[kind[handled]] EXCEPT !.params = handled] \in Copies
    BY <2>1, <2>3, CopyTyped
  <2>5. block' \in [Blocks -> Copies]
    BY <1>t, <2>1, <2>2, <2>4
  <2>6. /\ ppc' = "filled"
        /\ UNCHANGED <<kind, handled, wpc, screenFlag, logFlag, answers,
                       mixed>>
    BY <1>2, Zenon DEF FillBlock, flagVars
  <2> QED
    BY <1>t, <2>5, <2>6
<1>3. CASE Reject \/ StartWorker
  <2>1. handled \in Tags
    BY <1>3 DEF Reject, StartWorker, Shape
  <2>2. /\ ppc' = "idle"
        /\ UNCHANGED <<kind, handled, block, screenFlag, logFlag, mixed>>
    BY <1>3, Zenon DEF Reject, StartWorker, flagVars
  <2>3. \E to \in {"refused", "created", "rejected"} :
          wpc' = [wpc EXCEPT ![handled] = to]
    BY <1>3 DEF Reject, StartWorker
  <2>4. wpc' \in [Tags -> WorkerStates]
    BY <1>t, <2>1, <2>3 DEF WorkerStates, Finals
  <2>5. \/ UNCHANGED answers
        \/ answers' = [answers EXCEPT ![handled] = @ + 1]
    BY <1>3, Zenon DEF Reject, StartWorker, Answer
  <2>6. answers' \in [Tags -> Nat]
    BY <1>t, <2>1, <2>5
  <2> QED
    BY <1>t, <2>2, <2>4, <2>6
<1>4. CASE (\E screens, logs \in BOOLEAN : StopCommand(screens, logs))
             \/ StopAll
  <2>1. UNCHANGED <<kind, handled, ppc, block, wpc, answers, mixed>>
    BY <1>4, Zenon DEF StopCommand, StopAll, processorVars
  <2>2. screenFlag' \in {1, screenFlag} /\ logFlag' \in {1, logFlag}
    <3>1. CASE StopAll
      BY <3>1 DEF StopAll
    <3>2. CASE \E screens, logs \in BOOLEAN : StopCommand(screens, logs)
      BY <3>2 DEF StopCommand
    <3> QED
      BY <1>4, <3>1, <3>2
  <2> QED
    BY <1>t, <2>1, <2>2
<1> QED
  BY <1>1, <1>2, <1>3, <1>4 DEF Processor

LEMMA DumperEndsTypes ==
  ASSUME TypeOK, NEW d \in Tags, DumperEnds(d)
  PROVE  dumper' \in [Tags -> Dumpers]
<1>1. dumper \in [Tags -> Dumpers]
  BY Zenon DEF TypeOK, Dumpers
<1>2. [dumper[d] EXCEPT !.life = "gone"] \in Dumpers
  BY <1>1, DumperTyped
<1>3. dumper' = [dumper EXCEPT ![d] = [dumper[d] EXCEPT !.life = "gone"]]
  BY <1>1 DEF DumperEnds
<1> QED
  BY <1>1, <1>2, <1>3

LEMMA TypeStep ==
  ASSUME TypeOK, Shape, [Next]_vars
  PROVE  TypeOK'
<1>1. frozen' \in BOOLEAN /\ crashed' \in BOOLEAN /\ raced' \in BOOLEAN
  BY BooleanTypes
<1>2. CASE UNCHANGED vars
  BY <1>2, Zenon DEF TypeOK, vars, processorVars, flagVars, javaVars,
     captureHist
<1>3. CASE Processor \/ StopAll
  BY <1>1, <1>3, ProcessorTypes, ProcessorFrame, Zenon DEF TypeOK, javaVars,
     captureHist
<1>4. ASSUME NEW n \in Tags, Worker(n)
      PROVE  TypeOK'
  BY <1>1, <1>4, WorkerFrame, WorkerTypes, JavaTypes, Zenon
     DEF TypeOK, Dumpers
<1>5. ASSUME NEW d \in Tags, DumperEnds(d)
      PROVE  TypeOK'
  <2>1. dumper' \in [Tags -> Dumpers]
    BY <1>5, DumperEndsTypes
  <2> QED
    BY <1>1, <1>5, <2>1, Zenon DEF TypeOK, Dumpers, DumperEnds,
       processorVars, flagVars, captureHist
<1> QED
  BY <1>2, <1>3, <1>4, <1>5, StepCases

-----------------------------------------------------------------------------
(* Shape *)

(* The processor's steps that take or start a command.                     *)
LEMMA TakeEffect ==
  ASSUME TypeOK, NEW k \in Kinds, TakeCommand(k)
  PROVE  /\ ppc = "idle" /\ handled + 1 \in Tags /\ handled' = handled + 1
         /\ kind' = [kind EXCEPT ![handled + 1] = k]
         /\ UNCHANGED <<wpc, copy, answers, crashed, screenFlag, lateShots>>
         /\ k = "photo" => ppc' = "filled" /\ UNCHANGED <<block, mixed>>
         /\ k # "photo" => /\ ppc' = "tagged" /\ k \in Blocks
                           /\ block' = [block EXCEPT ![k].tag = handled + 1]
<1>1. handled \in 0 .. MaxCommands
  BY Zenon DEF TypeOK
<1>2. /\ ppc = "idle" /\ handled < MaxCommands /\ handled' = handled + 1
      /\ kind' = [kind EXCEPT ![handled + 1] = k]
      /\ UNCHANGED <<wpc, copy, answers, crashed, screenFlag, lateShots>>
      /\ k = "photo" => ppc' = "filled" /\ UNCHANGED <<block, mixed>>
      /\ k # "photo" => /\ ppc' = "tagged"
                        /\ block' = [block EXCEPT ![k].tag = handled + 1]
  BY Zenon DEF TakeCommand, flagVars, javaVars
<1> QED
  BY <1>1, <1>2

LEMMA StartEffect ==
  ASSUME TypeOK, Shape, Reject \/ StartWorker
  PROVE  /\ ppc = "filled" /\ ppc' = "idle"
         /\ handled \in Tags /\ kind[handled] \in Kinds
         /\ wpc[handled] = "none"
         /\ UNCHANGED <<kind, handled, block, mixed>>
         /\ \E to \in {"rejected", "refused", "created"} :
              /\ wpc' = [wpc EXCEPT ![handled] = to]
              /\ to = "rejected" => /\ kind[handled] \in {"push", "pull"}
                                    /\ answers' = [answers EXCEPT
                                                     ![handled] = @ + 1]
              /\ to # "rejected" =>
                   IF kind[handled] = "snatch"
                     THEN answers' = [answers EXCEPT ![handled] = @ + 1]
                     ELSE UNCHANGED answers
<1>1. /\ ppc = "filled" /\ ppc' = "idle"
      /\ UNCHANGED <<kind, handled, block, mixed>>
  BY Zenon DEF Reject, StartWorker
<1>2. handled \in Tags /\ wpc[handled] = "none"
  BY <1>1 DEF Shape
<1>3. kind[handled] \in Kinds
  <2>1. kind \in [Tags -> Kinds \cup {"none"}] /\ handled \in 0 .. MaxCommands
    BY Zenon DEF TypeOK
  <2>2. kind[handled] # "none"
    BY <2>1, <1>2 DEF Shape
  <2> QED
    BY <2>1, <2>2, <1>2
<1>4. CASE Reject
  BY <1>1, <1>2, <1>3, <1>4 DEF Reject, Answer
<1>5. CASE StartWorker
  BY <1>1, <1>2, <1>3, <1>5 DEF StartWorker, Answer
<1> QED
  BY <1>4, <1>5

LEMMA ShapeStep ==
  ASSUME TypeOK, Shape, [Next]_vars
  PROVE  Shape'
<1>t. /\ kind \in [Tags -> Kinds \cup {"none"}]
      /\ handled \in 0 .. MaxCommands
      /\ wpc \in [Tags -> WorkerStates] /\ mixed \subseteq Tags
  BY Zenon DEF TypeOK
<1>s. /\ \A n \in Tags : kind[n] = "none" <=> n > handled
      /\ \A n \in Tags : wpc[n] \in StatesOf(kind[n])
      /\ ppc # "idle" => handled \in Tags /\ wpc[handled] = "none"
      /\ ppc = "tagged" => kind[handled] \in Blocks
      /\ \A n \in mixed : kind[n] \in Blocks
  BY Zenon DEF Shape
<1>1. CASE UNCHANGED <<kind, handled, wpc, mixed, ppc>>
  BY <1>1, Zenon DEF Shape
<1>2. ASSUME NEW k \in Kinds, TakeCommand(k)
      PROVE  Shape'
  <2> DEFINE c == handled + 1
  <2>1. /\ c \in Tags /\ handled' = c /\ kind' = [kind EXCEPT ![c] = k]
        /\ wpc' = wpc
    BY <1>2, TakeEffect
  <2>2. kind[c] = "none"
    BY <1>t, <1>s, <2>1
  <2>3. wpc[c] = "none"
    BY <1>s, <2>1, <2>2 DEF StatesOf
  <2>4. \A n \in Tags : (kind[n] = "none" <=> n > handled)'
    BY <1>t, <1>s, <2>1
  <2>5. ASSUME NEW n \in Tags
        PROVE  wpc'[n] \in StatesOf(kind'[n])
    <3>1. CASE n = c
      BY <1>t, <2>1, <2>3, <3>1 DEF StatesOf
    <3>2. CASE n # c
      BY <1>t, <1>s, <2>1, <3>2
    <3> QED
      BY <3>1, <3>2
  <2>6. ppc' = "tagged" => kind'[handled'] \in Blocks
    BY <1>2, <1>t, <2>1, TakeEffect
  <2>7. \A n \in mixed' : kind'[n] \in Blocks
    <3>1. CASE k = "photo"
      <4>1. mixed' = mixed
        BY <1>2, <3>1, TakeEffect
      <4>2. \A n \in mixed : n # c
        BY <1>s, <2>2
      <4> QED
        BY <4>1, <4>2, <1>s, <1>t, <2>1
    <3>2. CASE k # "photo"
      <4>1. mixed' \subseteq mixed \cup OfKind(k) \cup {c}
        BY <1>2, <3>2 DEF TakeCommand
      <4>2. \A n \in OfKind(k) : n \in Tags /\ kind[n] = k
        BY DEF OfKind
      <4>3. k \in Blocks
        BY <3>2
      <4> QED
        BY <4>1, <4>2, <4>3, <1>s, <1>t, <2>1
    <3> QED
      BY <3>1, <3>2
  <2> QED
    BY <2>1, <2>3, <2>4, <2>5, <2>6, <2>7 DEF Shape
<1>3. CASE FillBlock
  <2>1. ppc = "tagged" /\ ppc' = "filled"
        /\ UNCHANGED <<kind, handled, wpc, mixed>>
    BY <1>3, Zenon DEF FillBlock
  <2> QED
    BY <1>s, <2>1 DEF Shape
<1>4. CASE Reject \/ StartWorker
  <2>1. PICK to \in {"rejected", "refused", "created"} :
          /\ wpc' = [wpc EXCEPT ![handled] = to]
          /\ to = "rejected" => kind[handled] \in {"push", "pull"}
    BY <1>4, StartEffect
  <2>2. /\ ppc' = "idle" /\ handled \in Tags /\ kind[handled] \in Kinds
        /\ UNCHANGED <<kind, handled, mixed>>
    BY <1>4, StartEffect
  <2>3. to \in StatesOf(kind[handled])
    BY <2>1, <2>2 DEF StatesOf
  <2> QED
    BY <1>t, <1>s, <2>1, <2>2, <2>3 DEF Shape
<1>5. ASSUME NEW n \in Tags, Worker(n)
      PROVE  Shape'
  <2>1. PICK to \in StatesOf(kind[n]) : wpc' = [wpc EXCEPT ![n] = to]
    BY <1>5, WorkerMoves
  <2>2. Alive(n)
    BY <1>5, WorkerMoves
  <2>3. UNCHANGED <<kind, handled, ppc, mixed>>
    BY <1>5, WorkerFrame
  <2>4. ppc # "idle" => n # handled
    BY <1>s, <2>2 DEF Alive, Finals
  <2> QED
    BY <1>t, <1>s, <2>1, <2>3, <2>4 DEF Shape
<1>6. CASE Processor
  <2>1. CASE \E screens, logs \in BOOLEAN : StopCommand(screens, logs)
    <3>1. UNCHANGED <<kind, handled, wpc, mixed, ppc>>
      BY <2>1, Zenon DEF StopCommand, processorVars
    <3> QED
      BY <1>1, <3>1
  <2> QED
    BY <1>2, <1>3, <1>4, <1>6, <2>1, Zenon DEF Processor
<1>7. CASE StopAll
  <2>1. UNCHANGED <<kind, handled, wpc, mixed, ppc>>
    BY <1>7, Zenon DEF StopAll, processorVars
  <2> QED
    BY <1>1, <2>1
<1>8. ASSUME NEW d \in Tags, DumperEnds(d)
      PROVE  Shape'
  <2>1. UNCHANGED <<kind, handled, wpc, mixed, ppc>>
    BY <1>8, Zenon DEF DumperEnds, processorVars
  <2> QED
    BY <1>1, <2>1
<1>9. CASE UNCHANGED vars
  BY <1>1, <1>9, Zenon DEF vars, processorVars
<1> QED
  BY <1>5, <1>6, <1>7, <1>8, <1>9, StepCases

-----------------------------------------------------------------------------
(* Blocks and copies *)

LEMMA BlocksStep ==
  ASSUME TypeOK, Shape, BlocksOK, [Next]_vars
  PROVE  BlocksOK'
<1>t. /\ kind \in [Tags -> Kinds \cup {"none"}]
      /\ handled \in 0 .. MaxCommands
      /\ block \in [Blocks -> Copies]
      /\ wpc \in [Tags -> WorkerStates] /\ mixed \subseteq Tags
  BY Zenon DEF TypeOK
<1>s. /\ \A n \in Tags : kind[n] = "none" <=> n > handled
      /\ \A n \in Tags : wpc[n] \in StatesOf(kind[n])
      /\ ppc # "idle" => handled \in Tags /\ wpc[handled] = "none"
      /\ ppc = "tagged" => kind[handled] \in Blocks
  BY Zenon DEF Shape
<1> DEFINE Uncopied(n) == wpc[n] \in {"created", "copying"}
                            /\ kind[n] # "photo"
           Mine(n) == IF n \in mixed
                        THEN wpc[n] = "created" => block[kind[n]].tag \in mixed
                        ELSE block[kind[n]] = [tag |-> n, params |-> n]
<1>b. /\ ppc = "tagged" => block[kind[handled]].tag = handled
      /\ ppc = "filled" /\ kind[handled] # "photo" =>
           block[kind[handled]] = [tag |-> handled, params |-> handled]
      /\ \A n \in Tags : Uncopied(n) => Mine(n)
  BY Zenon DEF BlocksOK
<1>k. \A n \in Tags : Uncopied(n) => kind[n] \in Blocks
  <2> SUFFICES ASSUME NEW n \in Tags, Uncopied(n)
               PROVE  kind[n] \in Blocks
    OBVIOUS
  <2>1. kind[n] # "none"
    BY <1>s DEF StatesOf
  <2> QED
    BY <1>t, <2>1
<1>1. CASE UNCHANGED <<kind, handled, wpc, mixed, ppc, block>>
  BY <1>1, Zenon DEF BlocksOK
<1>2. ASSUME NEW k \in Kinds, TakeCommand(k)
      PROVE  BlocksOK'
  <2> DEFINE c == handled + 1
  <2>1. /\ c \in Tags /\ handled' = c /\ kind' = [kind EXCEPT ![c] = k]
        /\ wpc' = wpc
    BY <1>2, TakeEffect
  <2>2. kind[c] = "none"
    BY <1>t, <1>s, <2>1
  <2>3. wpc[c] = "none"
    BY <1>s, <2>1, <2>2 DEF StatesOf
  <2>4. kind'[c] = k /\ \A n \in Tags : n # c => kind'[n] = kind[n]
    BY <1>t, <2>1
  <2>5. CASE k = "photo"
    <3>1. ppc' = "filled" /\ UNCHANGED <<block, mixed>>
      BY <1>2, <2>5, TakeEffect
    <3>2. ASSUME NEW n \in Tags, Uncopied(n)'
          PROVE  Mine(n)'
      <4>1. n # c
        BY <2>1, <2>3, <3>2
      <4>2. Uncopied(n) /\ kind'[n] = kind[n]
        BY <2>1, <2>4, <3>2, <4>1
      <4> QED
        BY <1>b, <2>1, <3>1, <4>2
    <3> QED
      BY <2>1, <2>4, <2>5, <3>1, <3>2, Zenon DEF BlocksOK
  <2>6. CASE k # "photo"
    <3>1. ppc' = "tagged" /\ k \in Blocks
          /\ block' = [block EXCEPT ![k].tag = c]
      BY <1>2, <2>6, TakeEffect
    <3>2. /\ block'[k].tag = c
          /\ \A j \in Blocks : j # k => block'[j] = block[j]
      BY <1>t, <3>1 DEF Copies
    <3> DEFINE unc == {m \in OfKind(k) : wpc[m] \in {"created", "copying"}}
    <3>3. mixed' = IF unc = {} THEN mixed ELSE mixed \cup unc \cup {c}
      BY <1>2, <2>6 DEF TakeCommand
    <3>4. ASSUME NEW n \in Tags, Uncopied(n)'
          PROVE  Mine(n)'
      <4>1. n # c
        BY <2>1, <2>3, <3>4
      <4>2. Uncopied(n) /\ kind'[n] = kind[n]
        BY <2>1, <2>4, <3>4, <4>1
      <4>3. CASE kind[n] = k
        <5>1. n \in unc
          BY <4>2, <4>3 DEF OfKind
        <5>2. n \in mixed' /\ c \in mixed'
          BY <5>1, <3>3
        <5> QED
          BY <5>2, <4>2, <4>3, <3>2
      <4>4. CASE kind[n] # k
        <5>1. n \notin unc
          BY <4>4 DEF OfKind
        <5>2. n \in mixed' <=> n \in mixed
          BY <5>1, <4>1, <3>3
        <5>3. mixed \subseteq mixed'
          BY <3>3
        <5>4. block'[kind'[n]] = block[kind[n]]
          BY <4>2, <4>4, <1>k, <3>2
        <5>5. Mine(n)
          BY <1>b, <4>2
        <5> QED
          BY <5>2, <5>3, <5>4, <5>5, <2>1
      <4> QED
        BY <4>3, <4>4
    <3> QED
      BY <2>1, <2>4, <3>1, <3>2, <3>4, Zenon DEF BlocksOK
  <2> QED
    BY <2>5, <2>6
<1>3. CASE FillBlock
  <2>1. /\ ppc = "tagged" /\ ppc' = "filled"
        /\ UNCHANGED <<kind, handled, wpc, mixed>>
        /\ block' = [block EXCEPT ![kind[handled]].params = handled]
    BY <1>3, Zenon DEF FillBlock
  <2>2. /\ handled \in Tags /\ wpc[handled] = "none"
        /\ kind[handled] \in Blocks
        /\ block[kind[handled]].tag = handled
    BY <1>s, <1>b, <2>1
  <2>3. /\ block'[kind[handled]] = [tag |-> handled, params |-> handled]
        /\ \A j \in Blocks : j # kind[handled] => block'[j] = block[j]
    BY <1>t, <2>1, <2>2 DEF Copies
  <2>4. ASSUME NEW n \in Tags, Uncopied(n)'
        PROVE  Mine(n)'
    <3>1. Uncopied(n) /\ n # handled /\ kind[n] \in Blocks
      BY <2>1, <2>2, <2>4, <1>k
    <3>2. Mine(n)
      BY <1>b, <3>1
    <3>3. CASE kind[n] = kind[handled]
      BY <2>1, <2>2, <2>3, <3>1, <3>2, <3>3
    <3>4. CASE kind[n] # kind[handled]
      BY <2>1, <2>3, <3>1, <3>2, <3>4
    <3> QED
      BY <3>3, <3>4
  <2> QED
    BY <2>1, <2>3, <2>4, Zenon DEF BlocksOK
<1>4. CASE Reject \/ StartWorker
  <2>1. PICK to \in {"rejected", "refused", "created"} :
          wpc' = [wpc EXCEPT ![handled] = to]
    BY <1>4, StartEffect
  <2>2. /\ ppc = "filled" /\ ppc' = "idle" /\ handled \in Tags
        /\ UNCHANGED <<kind, handled, mixed, block>>
    BY <1>4, StartEffect
  <2>3. ASSUME NEW n \in Tags, Uncopied(n)'
        PROVE  Mine(n)'
    <3>1. CASE n = handled
      BY <1>b, <2>2, <2>3, <3>1
    <3>2. CASE n # handled
      <4>1. wpc'[n] = wpc[n]
        BY <1>t, <2>1, <2>2, <3>2
      <4>2. Mine(n)
        BY <1>b, <2>2, <2>3, <4>1
      <4> QED
        BY <2>2, <4>1, <4>2
    <3> QED
      BY <3>1, <3>2
  <2> QED
    BY <2>2, <2>3, Zenon DEF BlocksOK
<1>5. ASSUME NEW n \in Tags, Worker(n)
      PROVE  BlocksOK'
  <2>1. PICK to \in StatesOf(kind[n]) :
          /\ wpc' = [wpc EXCEPT ![n] = to]
          /\ to \notin {"none", "created", "refused", "rejected"}
          /\ to = "copying" => wpc[n] = "created" /\ kind[n] # "photo"
    BY <1>5, WorkerMoves
  <2>2. UNCHANGED <<kind, handled, ppc, block, mixed>>
    BY <1>5, WorkerFrame
  <2>3. ASSUME NEW m \in Tags, Uncopied(m)'
        PROVE  Mine(m)'
    <3>1. CASE m = n
      <4>1. wpc'[n] = "copying" /\ wpc[n] = "created"
        BY <1>t, <2>1, <2>3, <3>1
      <4>2. Mine(n)
        BY <1>b, <4>1, <2>1, <2>2, <2>3, <3>1
      <4> QED
        BY <2>2, <3>1, <4>1, <4>2
    <3>2. CASE m # n
      <4>1. wpc'[m] = wpc[m]
        BY <1>t, <2>1, <3>2
      <4>2. Mine(m)
        BY <1>b, <2>2, <2>3, <4>1
      <4> QED
        BY <2>2, <4>1, <4>2
    <3> QED
      BY <3>1, <3>2
  <2> QED
    BY <1>b, <2>2, <2>3, Zenon DEF BlocksOK
<1>6. CASE Processor
  <2>1. CASE \E screens, logs \in BOOLEAN : StopCommand(screens, logs)
    <3>1. UNCHANGED <<kind, handled, wpc, mixed, ppc, block>>
      BY <2>1, Zenon DEF StopCommand, processorVars
    <3> QED
      BY <1>1, <3>1
  <2> QED
    BY <1>2, <1>3, <1>4, <1>6, <2>1, Zenon DEF Processor
<1>7. CASE StopAll
  <2>1. UNCHANGED <<kind, handled, wpc, mixed, ppc, block>>
    BY <1>7, Zenon DEF StopAll, processorVars
  <2> QED
    BY <1>1, <2>1
<1>8. ASSUME NEW d \in Tags, DumperEnds(d)
      PROVE  BlocksOK'
  <2>1. UNCHANGED <<kind, handled, wpc, mixed, ppc, block>>
    BY <1>8, Zenon DEF DumperEnds, processorVars
  <2> QED
    BY <1>1, <2>1
<1>9. CASE UNCHANGED vars
  BY <1>1, <1>9, Zenon DEF vars, processorVars
<1> QED
  BY <1>5, <1>6, <1>7, <1>8, <1>9, StepCases

(* A worker changes its own copy only, and only in these steps.            *)
LEMMA CopyEffect ==
  ASSUME NEW n \in Tags, Worker(n)
  PROVE  \/ CopyTag(n) \/ CopyParams(n) \/ PhotoBegins(n)
         \/ copy' = copy /\ wpc[n] \notin {"created", "copying"}
<1>1. CASE UploadStarts(n) \/ UploadEnds(n) \/ UploadHangs(n)
             \/ AnswerAndLeave(n) \/ DownloadEnds(n) \/ CaptureEnds(n)
  BY <1>1 DEF UploadStarts, UploadEnds, UploadHangs, AnswerAndLeave,
     DownloadEnds, CaptureEnds, Goes
<1>2. CASE ScreensBegin(n) \/ Shoot(n) \/ Count(n) \/ SeesScreenFlag(n)
             \/ IntervalOver(n) \/ CaptureBegins(n)
  BY <1>2 DEF ScreensBegin, Shoot, Count, SeesScreenFlag, IntervalOver,
     CaptureBegins, Goes
<1>3. CASE NameFile(n) \/ FindDumper(n) \/ MakeDumper(n) \/ StartDumper(n)
             \/ LookToStop(n) \/ TellDumper(n) \/ ForgetDumper(n)
  <2>1. copy' = copy
    BY <1>3, Zenon DEF NameFile, FindDumper, MakeDumper, StartDumper,
       LookToStop, TellDumper, ForgetDumper, JavaStep
  <2>2. wpc[n] \in {"naming", "looking", "making", "starting", "stopping",
                    "telling", "forgetting"}
    BY <1>3 DEF NameFile, FindDumper, MakeDumper, StartDumper,
       LookToStop, TellDumper, ForgetDumper, Goes
  <2> QED
    BY <2>1, <2>2
<1> QED
  BY <1>1, <1>2, <1>3, Zenon DEF Worker

LEMMA CopiesStep ==
  ASSUME TypeOK, Shape, BlocksOK, CopiesOK, [Next]_vars
  PROVE  CopiesOK'
<1>t. /\ kind \in [Tags -> Kinds \cup {"none"}]
      /\ handled \in 0 .. MaxCommands
      /\ block \in [Blocks -> Copies] /\ copy \in [Tags -> Copies]
      /\ wpc \in [Tags -> WorkerStates] /\ mixed \subseteq Tags
  BY Zenon DEF TypeOK
<1> DEFINE Kept(n) == IF n \in mixed
                        THEN copy[n].tag \in mixed
                        ELSE /\ copy[n].tag = n
                             /\ wpc[n] # "copying" => copy[n].params = n
<1>c. \A n \in Tags : Copied(n) => Kept(n)
  BY DEF CopiesOK
<1>1. CASE UNCHANGED <<wpc, mixed, copy>>
  BY <1>1, Zenon DEF CopiesOK, Copied, Alive
<1>2. ASSUME NEW k \in Kinds, TakeCommand(k)
      PROVE  CopiesOK'
  <2> DEFINE unc == {m \in OfKind(k) : wpc[m] \in {"created", "copying"}}
  <2>1. wpc' = wpc /\ copy' = copy
    BY <1>2, TakeEffect
  <2>2. mixed' = mixed \/ mixed' = mixed \cup unc \cup {handled + 1}
    BY <1>2 DEF TakeCommand
  <2>3. kind[handled + 1] = "none" /\ handled + 1 \in Tags
    <3>1. handled + 1 \in Tags /\ handled \in Nat
      BY <1>2, <1>t, TakeEffect
    <3> QED
      BY <3>1 DEF Shape
  <2>4. wpc[handled + 1] = "none"
    BY <2>3 DEF Shape, StatesOf
  <2>5. ASSUME NEW n \in Tags, Copied(n)'
        PROVE  Kept(n)'
    <3>1. Copied(n) /\ Kept(n)
      BY <1>c, <2>1, <2>5 DEF Copied, Alive
    <3>2. CASE n \in mixed
      BY <2>1, <2>2, <3>1, <3>2
    <3>3. CASE n \notin mixed /\ n \in mixed'
      BY <2>1, <2>2, <3>1, <3>3
    <3>4. CASE n \notin mixed'
      BY <2>1, <2>2, <3>1, <3>4
    <3> QED
      BY <3>2, <3>3, <3>4
  <2> QED
    BY <2>5, Zenon DEF CopiesOK
<1>3. CASE FillBlock
  <2>1. UNCHANGED <<wpc, mixed, copy>>
    BY <1>3, Zenon DEF FillBlock
  <2> QED
    BY <1>1, <2>1
<1>4. CASE Reject \/ StartWorker
  <2>1. PICK to \in {"rejected", "refused", "created"} :
          wpc' = [wpc EXCEPT ![handled] = to]
    BY <1>4, StartEffect
  <2>2. handled \in Tags /\ mixed' = mixed
    BY <1>4, StartEffect
  <2>3. copy' = copy
    BY <1>4, Zenon DEF Reject, StartWorker
  <2>4. ASSUME NEW n \in Tags, Copied(n)'
        PROVE  Kept(n)'
    <3>1. n # handled
      BY <1>t, <2>1, <2>2, <2>4 DEF Copied, Alive, Finals
    <3>2. wpc'[n] = wpc[n]
      BY <1>t, <2>1, <2>2, <3>1
    <3>3. Kept(n)
      BY <1>c, <2>4, <3>2 DEF Copied, Alive
    <3> QED
      BY <2>2, <2>3, <3>2, <3>3
  <2> QED
    BY <2>4, Zenon DEF CopiesOK
<1>5. ASSUME NEW n \in Tags, Worker(n)
      PROVE  CopiesOK'
  <2>1. PICK to \in StatesOf(kind[n]) : wpc' = [wpc EXCEPT ![n] = to]
    BY <1>5, WorkerMoves
  <2>2. UNCHANGED <<kind, block, mixed>> /\ Alive(n)
    BY <1>5, WorkerFrame, WorkerMoves
  <2>3. \A m \in Tags : m # n => wpc'[m] = wpc[m]
    BY <1>t, <2>1
  <2>4. \A m \in Tags : m # n => copy'[m] = copy[m]
    BY <1>5, <1>t, CopyEffect DEF CopyTag, CopyParams, PhotoBegins
  <2>5. ASSUME NEW m \in Tags, m # n, Copied(m)'
        PROVE  Kept(m)'
    <3>1. Kept(m)
      BY <1>c, <2>3, <2>5 DEF Copied, Alive
    <3> QED
      BY <2>2, <2>3, <2>4, <2>5, <3>1
  <2>6. ASSUME Copied(n)'
        PROVE  Kept(n)'
    <3>1. CASE CopyTag(n)
      <4>1. /\ kind[n] \in Blocks /\ wpc[n] = "created" /\ wpc'[n] = "copying"
            /\ copy'[n].tag = block[kind[n]].tag
        BY <3>1, <1>t DEF CopyTag, Goes, Copies
      <4>2. IF n \in mixed THEN block[kind[n]].tag \in mixed
                           ELSE block[kind[n]] = [tag |-> n, params |-> n]
        BY <4>1 DEF BlocksOK
      <4> QED
        BY <2>2, <4>1, <4>2
    <3>2. CASE CopyParams(n)
      <4>1. wpc[n] = "copying"
        BY <3>2, Zenon DEF CopyParams, Goes
      <4>2. kind[n] # "photo"
        BY <4>1 DEF Shape, StatesOf, Uploading
      <4>3. Kept(n)
        BY <1>c, <4>1, <2>2 DEF Copied
      <4>4. /\ copy'[n].tag = copy[n].tag
            /\ copy'[n].params = block[kind[n]].params
        BY <3>2, <1>t DEF CopyParams, Copies
      <4>5. n \notin mixed => block[kind[n]] = [tag |-> n, params |-> n]
        BY <4>1, <4>2 DEF BlocksOK
      <4> QED
        BY <2>2, <4>3, <4>4, <4>5
    <3>3. CASE PhotoBegins(n)
      <4>1. copy'[n] = [tag |-> n, params |-> n]
        BY <3>3, <1>t DEF PhotoBegins
      <4> QED
        BY <2>2, <4>1
    <3>4. CASE copy' = copy /\ wpc[n] \notin {"created", "copying"}
      <4>1. Kept(n)
        BY <1>c, <3>4, <2>2 DEF Copied
      <4> QED
        BY <2>2, <3>4, <4>1
    <3> QED
      BY <1>5, <3>1, <3>2, <3>3, <3>4, CopyEffect
  <2>7. ASSUME NEW m \in Tags, Copied(m)'
        PROVE  Kept(m)'
    <3>1. CASE m = n
      BY <2>6, <2>7, <3>1
    <3>2. CASE m # n
      BY <2>5, <2>7, <3>2
    <3> QED
      BY <3>1, <3>2
  <2> QED
    BY <2>7, Zenon DEF CopiesOK
<1>6. CASE Processor
  <2>1. CASE \E screens, logs \in BOOLEAN : StopCommand(screens, logs)
    <3>1. UNCHANGED <<wpc, mixed, copy>>
      BY <2>1, Zenon DEF StopCommand
    <3> QED
      BY <1>1, <3>1
  <2> QED
    BY <1>2, <1>3, <1>4, <1>6, <2>1, Zenon DEF Processor
<1>7. CASE StopAll
  <2>1. UNCHANGED <<wpc, mixed, copy>>
    BY <1>7, Zenon DEF StopAll
  <2> QED
    BY <1>1, <2>1
<1>8. ASSUME NEW d \in Tags, DumperEnds(d)
      PROVE  CopiesOK'
  <2>1. UNCHANGED <<wpc, mixed, copy>>
    BY <1>8, Zenon DEF DumperEnds
  <2> QED
    BY <1>1, <2>1
<1>9. CASE UNCHANGED vars
  BY <1>1, <1>9, Zenon DEF vars
<1> QED
  BY <1>5, <1>6, <1>7, <1>8, <1>9, StepCases

-----------------------------------------------------------------------------
(* Answers *)

LEMMA AnswerEffect ==
  ASSUME TypeOK, Shape, NEW n \in Tags, Worker(n)
  PROVE  \/ AnswerAndLeave(n)
         \/ /\ answers' = answers
            /\ wpc'[n] = "gone" => kind[n] = "screens" \/ crashed'
<1>t. wpc \in [Tags -> WorkerStates] /\ wpc[n] \in StatesOf(kind[n])
      /\ kind[n] \in Kinds \cup {"none"}
  BY DEF TypeOK, Shape
<1>1. CASE CopyTag(n) \/ PhotoBegins(n) \/ ScreensBegin(n)
             \/ Shoot(n) \/ CaptureBegins(n) \/ CaptureEnds(n)
  BY <1>1, <1>t DEF CopyTag, PhotoBegins, ScreensBegin, Shoot,
     CaptureBegins, CaptureEnds, Goes
<1>2. CASE CopyParams(n)
  <2>1. wpc[n] = "copying" /\ answers' = answers
        /\ wpc'[n] = FirstStep(kind[n])
    BY <1>2, <1>t DEF CopyParams, Goes
  <2>2. kind[n] \in Captures \cup {"screens", "push", "pull"}
    BY <2>1, <1>t DEF StatesOf, Uploading
  <2>3. FirstStep(kind[n]) # "gone"
    BY <2>2 DEF FirstStep
  <2> QED
    BY <2>1, <2>3
<1>3. CASE UploadStarts(n) \/ UploadEnds(n) \/ UploadHangs(n)
             \/ DownloadEnds(n) \/ IntervalOver(n)
  BY <1>3, <1>t DEF UploadStarts, UploadEnds, UploadHangs, DownloadEnds,
     IntervalOver, Goes, AfterUpload
<1>4. CASE Count(n) \/ SeesScreenFlag(n)
  <2>1. wpc[n] \in {"counting", "waiting"} /\ answers' = answers
    BY <1>4 DEF Count, SeesScreenFlag, Goes
  <2>2. kind[n] = "screens"
    BY <2>1, <1>t DEF StatesOf, Uploading
  <2> QED
    BY <2>1, <2>2
<1>5. CASE NameFile(n) \/ FindDumper(n) \/ MakeDumper(n) \/ LookToStop(n)
             \/ ForgetDumper(n)
  <2>1. answers' = answers
    BY <1>5, Zenon DEF NameFile, FindDumper, MakeDumper, LookToStop,
       ForgetDumper, JavaStep
  <2>2. wpc'[n] # "gone"
    BY <1>5, <1>t DEF NameFile, FindDumper, MakeDumper, LookToStop,
       ForgetDumper, Goes
  <2> QED
    BY <2>1, <2>2
<1>6. CASE StartDumper(n) \/ TellDumper(n)
  <2>1. answers' = answers
    BY <1>6, Zenon DEF StartDumper, TellDumper, JavaStep
  <2>2. crashed' \/ Goes(n, "starting", "reset")
                 \/ Goes(n, "telling", "forgetting")
    BY <1>6, Zenon DEF StartDumper, TellDumper
  <2> QED
    BY <2>1, <2>2, <1>t DEF Goes
<1> QED
  BY <1>1, <1>2, <1>3, <1>4, <1>5, <1>6 DEF Worker

LEMMA AnswersStep ==
  ASSUME TypeOK, Shape, CopiesOK, AnswersOK, [Next]_vars
  PROVE  AnswersOK'
<1>t. /\ kind \in [Tags -> Kinds \cup {"none"}]
      /\ handled \in 0 .. MaxCommands
      /\ copy \in [Tags -> Copies] /\ answers \in [Tags -> Nat]
      /\ wpc \in [Tags -> WorkerStates] /\ mixed \subseteq Tags
  BY Zenon DEF TypeOK
<1>1. CASE UNCHANGED <<kind, wpc, mixed, answers, crashed>>
  BY <1>1, Zenon DEF AnswersOK, Caused
<1>2. ASSUME NEW k \in Kinds, TakeCommand(k)
      PROVE  AnswersOK'
  <2>1. /\ handled + 1 \in Tags /\ wpc' = wpc /\ answers' = answers
        /\ kind' = [kind EXCEPT ![handled + 1] = k]
    BY <1>2, TakeEffect
  <2>2. mixed \subseteq mixed' /\ (crashed' <=> crashed)
    <3>1. crashed' <=> crashed
      BY <1>2, TakeEffect, Zenon
    <3>2. mixed \subseteq mixed'
      BY <1>2 DEF TakeCommand
    <3> QED
      BY <3>1, <3>2, Zenon
  <2>3. wpc[handled + 1] = "none"
    <3>1. kind[handled + 1] = "none"
      BY <1>t, <2>1 DEF Shape
    <3> QED
      BY <2>1, <3>1 DEF Shape, StatesOf
  <2>4. ASSUME NEW n \in Tags
        PROVE  Caused(n)' = Caused(n)
    <3>1. CASE n = handled + 1
      BY <2>1, <2>3, <3>1 DEF Caused
    <3>2. CASE n # handled + 1
      BY <1>t, <2>1, <3>2 DEF Caused
    <3> QED
      BY <3>1, <3>2
  <2> QED
    BY <2>1, <2>2, <2>4, Zenon DEF AnswersOK
<1>3. CASE FillBlock
  <2>1. UNCHANGED <<kind, wpc, mixed, answers, crashed>>
    BY <1>3, Zenon DEF FillBlock, javaVars
  <2> QED
    BY <1>1, <2>1
<1>4. CASE Reject \/ StartWorker
  <2>1. PICK to \in {"rejected", "refused", "created"} :
              /\ wpc' = [wpc EXCEPT ![handled] = to]
              /\ to = "rejected" => /\ kind[handled] \in {"push", "pull"}
                                    /\ answers' = [answers EXCEPT
                                                     ![handled] = @ + 1]
              /\ to # "rejected" =>
                   IF kind[handled] = "snatch"
                     THEN answers' = [answers EXCEPT ![handled] = @ + 1]
                     ELSE UNCHANGED answers
    BY <1>4, StartEffect
  <2>2. /\ handled \in Tags /\ wpc[handled] = "none"
        /\ UNCHANGED <<kind, mixed>>
    BY <1>4, StartEffect
  <2>3. UNCHANGED crashed
    BY <1>4, Zenon DEF Reject, StartWorker, javaVars
  <2>4. ASSUME NEW n \in Tags, answers[n] = Caused(n)
        PROVE  answers'[n] = Caused(n)'
    <3>1. CASE n # handled
      <4>1. wpc'[n] = wpc[n] /\ answers'[n] = answers[n] /\ kind' = kind
        BY <1>t, <2>1, <2>2, <3>1
      <4> QED
        BY <2>4, <4>1 DEF Caused
    <3>2. CASE n = handled
      <4>1. answers[n] = 0
        BY <2>2, <2>4, <3>2 DEF Caused
      <4>2. wpc'[n] = to /\ kind' = kind
        BY <1>t, <2>1, <2>2, <3>2
      <4>3. CASE to = "rejected"
        BY <1>t, <2>1, <3>2, <4>1, <4>2, <4>3 DEF Caused
      <4>4. CASE to # "rejected"
        BY <1>t, <2>1, <3>2, <4>1, <4>2, <4>4 DEF Caused
      <4> QED
        BY <4>3, <4>4
    <3> QED
      BY <3>1, <3>2
  <2> QED
    BY <2>2, <2>3, <2>4, Zenon DEF AnswersOK
<1>5. ASSUME NEW n \in Tags, Worker(n), ~crashed
      PROVE  AnswersOK'
  <2> SUFFICES ASSUME ~crashed', NEW m \in Tags \ mixed'
               PROVE  answers'[m] = Caused(m)'
    BY Zenon DEF AnswersOK
  <2>1. PICK to \in StatesOf(kind[n]) :
          /\ wpc' = [wpc EXCEPT ![n] = to]
          /\ to \notin {"none", "created", "refused", "rejected"}
    BY <1>5, WorkerMoves
  <2>2. UNCHANGED <<kind, mixed>> /\ Alive(n)
    BY <1>5, WorkerFrame, WorkerMoves
  <2>3. answers[m] = Caused(m)
    BY <1>5, <2>2, Zenon DEF AnswersOK
  <2>4. CASE AnswerAndLeave(n)
    <3>1. /\ wpc[n] = "answering" /\ wpc'[n] = "gone"
          /\ answers' = [answers EXCEPT ![copy[n].tag] = @ + 1]
      BY <2>4, <1>t DEF AnswerAndLeave, Answer, Goes
    <3>2. kind[n] \notin {"screens", "none"}
      BY <3>1 DEF Shape, StatesOf, Uploading
    <3>3. IF n \in mixed THEN copy[n].tag \in mixed ELSE copy[n].tag = n
      BY <3>1 DEF CopiesOK, Copied, Alive, Finals
    <3>4. CASE m = n
      <4>1. copy[n].tag = n
        BY <2>2, <3>3, <3>4
      <4>2. answers'[n] = answers[n] + 1
        BY <1>t, <3>1, <4>1
      <4> QED
        BY <2>2, <2>3, <3>1, <3>2, <3>4, <4>2 DEF Caused
    <3>5. CASE m # n
      <4>1. copy[n].tag # m
        BY <2>2, <3>3, <3>5
      <4>2. answers'[m] = answers[m] /\ wpc'[m] = wpc[m] /\ kind' = kind
        BY <1>t, <2>1, <2>2, <3>1, <3>5, <4>1
      <4> QED
        BY <2>3, <4>2 DEF Caused
    <3> QED
      BY <3>4, <3>5
  <2>5. CASE /\ answers' = answers
             /\ wpc'[n] = "gone" => kind[n] = "screens" \/ crashed'
    <3>1. CASE m = n
      <4>1. wpc'[n] = "gone" => kind[n] = "screens"
        BY <2>5
      <4>2. wpc'[n] \notin {"none", "rejected"}
        BY <1>t, <2>1
      <4>3. wpc[n] \notin {"none", "rejected", "gone"}
        BY <2>2 DEF Alive, Finals
      <4> QED
        BY <2>2, <2>3, <2>5, <3>1, <4>1, <4>2, <4>3 DEF Caused
    <3>2. CASE m # n
      <4>1. wpc'[m] = wpc[m] /\ kind' = kind
        BY <1>t, <2>1, <2>2, <3>2
      <4> QED
        BY <2>3, <2>5, <4>1 DEF Caused
    <3> QED
      BY <3>1, <3>2
  <2> QED
    BY <1>5, <2>4, <2>5, AnswerEffect
<1>6. CASE Processor
  <2>1. CASE \E screens, logs \in BOOLEAN : StopCommand(screens, logs)
    <3>1. UNCHANGED <<kind, wpc, mixed, answers, crashed>>
      BY <2>1, Zenon DEF StopCommand, processorVars, javaVars
    <3> QED
      BY <1>1, <3>1
  <2> QED
    BY <1>2, <1>3, <1>4, <1>6, <2>1, Zenon DEF Processor
<1>7. CASE StopAll
  <2>1. UNCHANGED <<kind, wpc, mixed, answers, crashed>>
    BY <1>7, Zenon DEF StopAll, processorVars, javaVars
  <2> QED
    BY <1>1, <2>1
<1>8. ASSUME NEW d \in Tags, DumperEnds(d)
      PROVE  AnswersOK'
  <2>1. UNCHANGED <<kind, wpc, mixed, answers, crashed>>
    BY <1>8, Zenon DEF DumperEnds, processorVars
  <2> QED
    BY <1>1, <2>1
<1>9. CASE UNCHANGED vars
  BY <1>1, <1>9, Zenon DEF vars, processorVars, javaVars
<1> QED
  BY <1>5, <1>6, <1>7, <1>8, <1>9, StepCases

-----------------------------------------------------------------------------
(* Late screenshots *)

LEMMA LateEffect ==
  ASSUME wpc \in [Tags -> WorkerStates], NEW n \in Tags, Worker(n)
  PROVE  \/ ClearScreenFlag
         \/ Shoot(n)
         \/ /\ UNCHANGED <<lateShots, screenFlag>>
            /\ wpc[n] \in LateStates /\ screenFlag = 1
                 => wpc'[n] \in LateStates
<1> USE DEF LateStates, Uploading, Goes, flagVars
<1>1. CASE PhotoBegins(n) \/ ScreensBegin(n) \/ Shoot(n)
  BY <1>1, Zenon DEF PhotoBegins, ScreensBegin
<1>2. CASE CopyTag(n) \/ CopyParams(n) \/ UploadStarts(n) \/ UploadHangs(n)
             \/ DownloadEnds(n) \/ CaptureBegins(n) \/ CaptureEnds(n)
  BY <1>2 DEF CopyTag, CopyParams, UploadStarts, UploadHangs, DownloadEnds,
     CaptureBegins, CaptureEnds
<1>3. CASE UploadEnds(n) \/ AnswerAndLeave(n)
  BY <1>3 DEF UploadEnds, AnswerAndLeave, AfterUpload
<1>4. CASE Count(n) \/ SeesScreenFlag(n) \/ IntervalOver(n)
  BY <1>4 DEF Count, SeesScreenFlag, IntervalOver
<1>5. CASE NameFile(n) \/ FindDumper(n) \/ MakeDumper(n) \/ StartDumper(n)
             \/ LookToStop(n) \/ TellDumper(n) \/ ForgetDumper(n)
  <2>1. UNCHANGED <<lateShots, screenFlag>>
    BY <1>5, Zenon DEF NameFile, FindDumper, MakeDumper, StartDumper,
       LookToStop, TellDumper, ForgetDumper, JavaStep
  <2>2. wpc[n] \in {"naming", "looking", "making", "starting", "stopping",
                    "telling", "forgetting"}
    BY <1>5 DEF NameFile, FindDumper, MakeDumper, StartDumper,
       LookToStop, TellDumper, ForgetDumper
  <2> QED
    BY <2>1, <2>2
<1> QED
  BY <1>1, <1>2, <1>3, <1>4, <1>5, Zenon DEF Worker

LEMMA LateStep ==
  ASSUME TypeOK, Shape, LateOK, [Next]_vars
  PROVE  LateOK'
<1>t. /\ wpc \in [Tags -> WorkerStates] /\ lateShots \in [Tags -> Nat]
      /\ screenFlag \in {0, 1}
  BY Zenon DEF TypeOK
<1> DEFINE OnTime(n) == \/ lateShots[n] = 0
                        \/ /\ lateShots[n] = 1 /\ screenFlag = 1
                           /\ wpc[n] \in LateStates
<1>l. \A n \in Tags : OnTime(n)
  BY DEF LateOK, LateStates
<1>1. CASE /\ lateShots' = lateShots /\ wpc' = wpc
           /\ screenFlag = 1 => screenFlag' = 1
  BY <1>1, <1>l DEF LateOK, LateStates
<1>2. CASE Processor
  <2>1. CASE \E k \in Kinds : TakeCommand(k)
    <3>1. UNCHANGED <<lateShots, wpc, screenFlag>>
      BY <2>1, Zenon DEF TakeCommand, flagVars
    <3> QED
      BY <3>1, <1>1
  <2>2. CASE FillBlock
    <3>1. UNCHANGED <<lateShots, wpc, screenFlag>>
      BY <2>2, Zenon DEF FillBlock, flagVars
    <3> QED
      BY <3>1, <1>1
  <2>3. CASE Reject \/ StartWorker
    <3>1. PICK to \in {"rejected", "refused", "created"} :
            wpc' = [wpc EXCEPT ![handled] = to]
      BY <2>3, StartEffect
    <3>2. handled \in Tags /\ wpc[handled] = "none"
      BY <2>3, StartEffect
    <3>3. UNCHANGED <<lateShots, screenFlag>>
      BY <2>3, Zenon DEF Reject, StartWorker, flagVars
    <3>4. ASSUME NEW n \in Tags
          PROVE  OnTime(n)'
      <4>1. CASE n = handled
        BY <1>l, <3>2, <3>3, <4>1 DEF LateStates, Uploading
      <4>2. CASE n # handled
        BY <1>t, <1>l, <3>1, <3>3, <4>2
      <4> QED
        BY <4>1, <4>2
    <3> QED
      BY <3>4 DEF LateOK, LateStates
  <2>4. CASE \E screens, logs \in BOOLEAN : StopCommand(screens, logs)
    <3>1. UNCHANGED <<lateShots, wpc>>
      BY <2>4, Zenon DEF StopCommand
    <3>2. screenFlag' \in {1, screenFlag}
      BY <2>4 DEF StopCommand
    <3> QED
      BY <3>1, <3>2, <1>1
  <2> QED
    BY <1>2, <2>1, <2>2, <2>3, <2>4, Zenon DEF Processor
<1>3. CASE StopAll
  <2>1. UNCHANGED <<lateShots, wpc>>
    BY <1>3, Zenon DEF StopAll
  <2>2. screenFlag' \in {1, screenFlag}
    BY <1>3 DEF StopAll
  <2> QED
    BY <2>1, <2>2, <1>1
<1>4. ASSUME NEW n \in Tags, Worker(n)
      PROVE  LateOK'
  <2>1. \A m \in Tags : m # n => wpc'[m] = wpc[m]
    BY <1>4, <1>t, WorkerMoves
  <2>2. CASE ClearScreenFlag
    BY <2>2 DEF ClearScreenFlag, LateOK
  <2>3. CASE Shoot(n)
    <3>1. wpc[n] = "shooting" /\ wpc'[n] \in LateStates
      BY <2>3, <1>t DEF Shoot, Goes, LateStates, Uploading
    <3>2. lateShots[n] = 0
      BY <1>l, <3>1 DEF LateStates, Uploading
    <3>3. /\ lateShots' = [lateShots EXCEPT ![n] =
                             IF kind[n] = "screens" THEN @ + screenFlag ELSE @]
          /\ screenFlag' = screenFlag
      BY <2>3, Zenon DEF Shoot, flagVars
    <3>4. lateShots'[n] \in {0, screenFlag}
      BY <1>t, <3>2, <3>3
    <3>5. \A m \in Tags : m # n => lateShots'[m] = lateShots[m]
      BY <1>t, <3>3
    <3>6. ASSUME NEW m \in Tags
          PROVE  OnTime(m)'
      BY <1>t, <1>l, <2>1, <3>1, <3>3, <3>4, <3>5
    <3> QED
      BY <3>6 DEF LateOK, LateStates
  <2>4. CASE /\ UNCHANGED <<lateShots, screenFlag>>
             /\ wpc[n] \in LateStates /\ screenFlag = 1
                  => wpc'[n] \in LateStates
    <3>1. ASSUME NEW m \in Tags
          PROVE  OnTime(m)'
      <4>1. OnTime(m)
        BY <1>l
      <4>2. CASE m = n
        BY <4>1, <4>2, <2>4
      <4>3. CASE m # n
        BY <4>1, <4>3, <2>1, <2>4
      <4> QED
        BY <4>2, <4>3
    <3> QED
      BY <3>1 DEF LateOK, LateStates
  <2> QED
    BY <1>4, <1>t, <2>2, <2>3, <2>4, LateEffect
<1>5. ASSUME NEW d \in Tags, DumperEnds(d)
      PROVE  LateOK'
  <2>1. UNCHANGED <<lateShots, wpc, screenFlag>>
    BY <1>5, Zenon DEF DumperEnds, flagVars
  <2> QED
    BY <2>1, <1>1
<1>6. CASE UNCHANGED vars
  <2>1. UNCHANGED <<lateShots, wpc, screenFlag>>
    BY <1>6, Zenon DEF vars, flagVars
  <2> QED
    BY <2>1, <1>1
<1> QED
  BY <1>2, <1>3, <1>4, <1>5, <1>6, StepCases

-----------------------------------------------------------------------------
(* Calls of LogcatFileUtils *)

JavaCall(n) ==
  \/ NameFile(n) \/ FindDumper(n) \/ MakeDumper(n) \/ StartDumper(n)
  \/ LookToStop(n) \/ TellDumper(n) \/ ForgetDumper(n)

(* Before and after a step outside the processor and the calls, whoever    *)
(* takes it.                                                               *)
Quiet(n) ==
  \/ wpc'[n] = wpc[n] /\ kind'[n] = kind[n]
  \/ wpc[n] = "none" /\ wpc'[n] \in {"none", "rejected", "refused", "created"}

LEMMA ProcessorQuiet ==
  ASSUME TypeOK, Shape, Processor \/ StopAll
  PROVE  (\A n \in Tags : Quiet(n)) /\ mixed \subseteq mixed'
<1>t. /\ kind \in [Tags -> Kinds \cup {"none"}]
      /\ handled \in 0 .. MaxCommands /\ wpc \in [Tags -> WorkerStates]
  BY Zenon DEF TypeOK
<1>1. ASSUME NEW k \in Kinds, TakeCommand(k)
      PROVE  (\A n \in Tags : Quiet(n)) /\ mixed \subseteq mixed'
  <2>1. /\ handled + 1 \in Tags /\ wpc' = wpc
        /\ kind' = [kind EXCEPT ![handled + 1] = k]
    BY <1>1, TakeEffect
  <2>2. wpc[handled + 1] = "none"
    <3>1. kind[handled + 1] = "none"
      BY <1>t, <2>1 DEF Shape
    <3> QED
      BY <2>1, <3>1 DEF Shape, StatesOf
  <2>3. mixed \subseteq mixed'
    BY <1>1 DEF TakeCommand
  <2> QED
    BY <1>t, <2>1, <2>2, <2>3 DEF Quiet
<1>2. CASE Reject \/ StartWorker
  <2>1. PICK to \in {"rejected", "refused", "created"} :
          wpc' = [wpc EXCEPT ![handled] = to]
    BY <1>2, StartEffect
  <2>2. /\ handled \in Tags /\ wpc[handled] = "none"
        /\ UNCHANGED <<kind, mixed>>
    BY <1>2, StartEffect
  <2> QED
    BY <1>t, <2>1, <2>2 DEF Quiet
<1>3. CASE UNCHANGED <<kind, wpc, mixed>>
  BY <1>3 DEF Quiet
<1>4. CASE FillBlock \/ StopAll
             \/ \E screens, logs \in BOOLEAN : StopCommand(screens, logs)
  <2>1. UNCHANGED <<kind, wpc, mixed>>
    BY <1>4, Zenon DEF FillBlock, StopAll, StopCommand, processorVars
  <2> QED
    BY <1>3, <2>1
<1> QED
  BY <1>1, <1>2, <1>4, Zenon DEF Processor

LEMMA QuietCalls ==
  ASSUME NEW n \in Tags, Quiet(n)
  PROVE  (InCall(n)' <=> InCall(n)) /\ (Capturing(n)' <=> Capturing(n))
  BY DEF Quiet, InCall, Capturing

(* A worker's step that is not part of a call.                             *)
LEMMA NoCallEffect ==
  ASSUME TypeOK, Shape, NEW n \in Tags, Worker(n), ~JavaCall(n)
  PROVE  /\ UNCHANGED <<mFileName, mLogDumper, dumper, raced, overlapped,
                        crashed>>
         /\ files' = files \/ AnswerAndLeave(n)
         /\ ~InCall(n) /\ ~InCall(n)'
         /\ Capturing(n)' <=> Capturing(n)
         /\ kind[n] \in Captures => wpc'[n] # "upload"
         /\ wpc'[n] \in {"reset", "capturing", "stopping"}
              /\ kind[n] \in Captures => wpc[n] \in {"reset", "capturing"}
<1>t. wpc \in [Tags -> WorkerStates] /\ wpc[n] \in StatesOf(kind[n])
      /\ kind[n] \in Kinds \cup {"none"}
  BY DEF TypeOK, Shape
<1>a. /\ UNCHANGED <<mFileName, mLogDumper, dumper, raced, overlapped,
                     crashed>>
      /\ files' = files \/ AnswerAndLeave(n)
  BY Zenon DEF Worker, JavaCall, CopyTag, CopyParams, UploadStarts,
     UploadEnds, UploadHangs, AnswerAndLeave, DownloadEnds, PhotoBegins,
     ScreensBegin, Shoot, Count, SeesScreenFlag, IntervalOver,
     CaptureBegins, CaptureEnds, javaVars, captureHist
<1> DEFINE Rest ==
         /\ ~InCall(n) /\ ~InCall(n)'
         /\ Capturing(n)' <=> Capturing(n)
         /\ kind[n] \in Captures => wpc'[n] # "upload"
         /\ wpc'[n] \in {"reset", "capturing", "stopping"}
              /\ kind[n] \in Captures => wpc[n] \in {"reset", "capturing"}
<1>k. kind' = kind
  BY WorkerFrame
<1> USE DEF InCall, Capturing, Goes
<1>1. ASSUME CopyTag(n) \/ UploadStarts(n) \/ UploadHangs(n) \/ DownloadEnds(n)
             \/ AnswerAndLeave(n)
      PROVE  Rest
  BY <1>1, <1>t, <1>k DEF CopyTag, UploadStarts, UploadHangs, DownloadEnds,
     AnswerAndLeave
<1>2. ASSUME CopyParams(n)
      PROVE  Rest
  <2>1. wpc[n] = "copying" /\ wpc'[n] = FirstStep(kind[n])
    BY <1>2, <1>t DEF CopyParams
  <2>2. kind[n] \in Captures \cup {"screens", "push", "pull"}
    BY <2>1, <1>t DEF StatesOf, Uploading
  <2>3. CASE kind[n] \in Captures
    <3>1. wpc'[n] = "naming"
      BY <2>1, <2>3 DEF FirstStep
    <3> QED
      BY <2>1, <3>1, <1>k
  <2>4. CASE kind[n] \in {"screens", "push", "pull"}
    <3>1. wpc'[n] \in {"reset", "download", "upload"}
      BY <2>1, <2>4 DEF FirstStep
    <3> QED
      BY <2>1, <2>4, <3>1, <1>k
  <2> QED
    BY <2>2, <2>3, <2>4
<1>3. ASSUME UploadEnds(n)
      PROVE  Rest
  BY <1>3, <1>t, <1>k DEF UploadEnds, AfterUpload
<1>4. ASSUME PhotoBegins(n) \/ ScreensBegin(n) \/ CaptureBegins(n)
             \/ CaptureEnds(n)
      PROVE  Rest
  BY <1>4, <1>t, <1>k DEF PhotoBegins, ScreensBegin, CaptureBegins,
     CaptureEnds, StatesOf, Uploading
<1>5. ASSUME Shoot(n) \/ Count(n) \/ SeesScreenFlag(n) \/ IntervalOver(n)
      PROVE  Rest
  <2>1. wpc[n] \in {"shooting", "counting", "waiting"}
    BY <1>5 DEF Shoot, Count, SeesScreenFlag, IntervalOver
  <2>2. kind[n] \in {"photo", "screens"}
    BY <2>1, <1>t DEF StatesOf, Uploading
  <2>3. wpc'[n] \in {"upload", "silent", "counting", "waiting", "gone",
                     "shooting"}
    BY <1>5, <1>t DEF Shoot, Count, SeesScreenFlag, IntervalOver
  <2> QED
    BY <2>1, <2>2, <2>3, <1>k
<1>6. Rest
  BY <1>1, <1>2, <1>3, <1>4, <1>5 DEF Worker, JavaCall
<1> QED
  BY <1>a, <1>6, Zenon

(* A step that is part of a call.                                          *)
LEMMA CallEffect ==
  ASSUME TypeOK, Shape, NEW n \in Tags, JavaCall(n)
  PROVE  /\ kind[n] \in Captures
         /\ wpc[n] \in {"naming", "looking", "making", "starting",
                        "stopping", "telling", "forgetting"}
         /\ wpc'[n] \in {"looking", "making", "starting", "reset", "telling",
                         "forgetting", "upload", "gone"}
         /\ \A m \in Tags : m # n => wpc'[m] = wpc[m]
         /\ ~raced' => ~raced /\ \A m \in Tags : m # n => ~InCall(m)
         /\ UNCHANGED <<kind, mixed>>
<1>t. wpc \in [Tags -> WorkerStates] /\ wpc[n] \in StatesOf(kind[n])
      /\ kind[n] \in Kinds \cup {"none"}
  BY DEF TypeOK, Shape
<1>1. JavaStep(n)
  BY Zenon DEF JavaCall, NameFile, FindDumper, MakeDumper, StartDumper,
     LookToStop, TellDumper, ForgetDumper
<1>2. \E from \in {"naming", "looking", "making", "starting",
                   "stopping", "telling", "forgetting"},
         to \in {"looking", "making", "starting", "reset", "telling",
                 "forgetting", "upload", "gone"} : Goes(n, from, to)
  BY DEF JavaCall, NameFile, FindDumper, MakeDumper, StartDumper,
     LookToStop, TellDumper, ForgetDumper, Goes
<1>3. /\ wpc[n] \in {"naming", "looking", "making", "starting",
                     "stopping", "telling", "forgetting"}
      /\ wpc'[n] \in {"looking", "making", "starting", "reset", "telling",
                      "forgetting", "upload", "gone"}
      /\ \A m \in Tags : m # n => wpc'[m] = wpc[m]
  BY <1>2, <1>t DEF Goes
<1>4. kind[n] \in Captures
  BY <1>3, <1>t DEF StatesOf, Uploading
<1>5. ~raced' => ~raced /\ \A m \in Tags : m # n => ~InCall(m)
  <2>1. raced' = (raced \/ \E m \in Tags \ {n} : InCall(m))
    BY <1>1, Zenon DEF JavaStep
  <2> QED
    BY <2>1, Zenon
<1>6. UNCHANGED <<kind, mixed>>
  BY <1>1, Zenon DEF JavaStep, processorVars
<1> QED
  BY <1>3, <1>4, <1>5, <1>6, Zenon

(* The steps of the whole program, as these variables see them.            *)
LEMMA CallCases ==
  ASSUME TypeOK, Shape, [Next]_vars
  PROVE  \/ /\ UNCHANGED <<mFileName, mLogDumper, dumper, files, raced,
                           overlapped, crashed>>
            /\ \A n \in Tags : Quiet(n)
            /\ mixed \subseteq mixed'
         \/ \E d \in Tags : DumperEnds(d) /\ ~crashed
         \/ \E n \in Tags : Worker(n) /\ ~JavaCall(n) /\ ~crashed
         \/ \E n \in Tags : JavaCall(n) /\ ~crashed
<1>1. CASE UNCHANGED vars
  <2>1. UNCHANGED <<kind, wpc, mixed>>
    BY <1>1, Zenon DEF vars, processorVars
  <2>2. (\A n \in Tags : Quiet(n)) /\ mixed \subseteq mixed'
    BY <2>1 DEF Quiet
  <2> QED
    BY <1>1, <2>2, Zenon DEF vars, javaVars, captureHist
<1>2. CASE Processor \/ StopAll
  <2>1. (\A n \in Tags : Quiet(n)) /\ mixed \subseteq mixed'
    BY <1>2, ProcessorQuiet
  <2> QED
    BY <1>2, <2>1, ProcessorFrame, Zenon DEF javaVars, captureHist
<1> QED
  BY <1>1, <1>2, StepCases, Zenon

(* Only the caller's own place changes.                                    *)
LEMMA WorkerAlone ==
  ASSUME TypeOK, Shape, NEW n \in Tags, Worker(n)
  PROVE  \A m \in Tags : m # n => /\ wpc'[m] = wpc[m] /\ kind'[m] = kind[m]
                                  /\ InCall(m)' <=> InCall(m)
                                  /\ Capturing(m)' <=> Capturing(m)
<1>1. wpc \in [Tags -> WorkerStates]
  BY Zenon DEF TypeOK
<1>2. \E to : wpc' = [wpc EXCEPT ![n] = to]
  BY WorkerMoves
<1>3. kind' = kind
  BY WorkerFrame
<1>4. \A m \in Tags : m # n => wpc'[m] = wpc[m]
  BY <1>1, <1>2
<1> QED
  BY <1>3, <1>4 DEF InCall, Capturing

LEMMA CallIsWorker ==
  ASSUME NEW n \in Tags, JavaCall(n)
  PROVE  Worker(n)
  BY Zenon DEF JavaCall, Worker

LEMMA OneInCallStep ==
  ASSUME TypeOK, Shape, OneInCall, [Next]_vars
  PROVE  OneInCall'
<1>1. CASE /\ UNCHANGED raced
           /\ \A n \in Tags : InCall(n)' => InCall(n)
  BY <1>1, Zenon DEF OneInCall
<1>2. CASE UNCHANGED raced /\ \A n \in Tags : Quiet(n)
  <2>1. \A n \in Tags : InCall(n)' => InCall(n)
    BY <1>2, QuietCalls
  <2> QED
    BY <1>1, <1>2, <2>1, Zenon
<1>3. ASSUME NEW d \in Tags, DumperEnds(d)
      PROVE  OneInCall'
  <2>1. UNCHANGED <<wpc, raced>>
    BY <1>3, Zenon DEF DumperEnds, captureHist
  <2> QED
    BY <2>1, Zenon DEF OneInCall, InCall
<1>4. ASSUME NEW n \in Tags, Worker(n), ~JavaCall(n)
      PROVE  OneInCall'
  <2>1. UNCHANGED raced /\ ~InCall(n)'
    BY <1>4, NoCallEffect, Zenon
  <2>2. \A m \in Tags : InCall(m)' => InCall(m)
    BY <1>4, <2>1, WorkerAlone, Zenon
  <2> QED
    BY <1>1, <2>1, <2>2, Zenon
<1>5. ASSUME NEW n \in Tags, JavaCall(n)
      PROVE  OneInCall'
  <2>1. ~raced' => \A m \in Tags : m # n => ~InCall(m)
    BY <1>5, CallEffect, Zenon
  <2>2. \A m \in Tags : m # n => (InCall(m)' <=> InCall(m))
    BY <1>5, CallIsWorker, WorkerAlone, Zenon
  <2>3. ~raced' => \A m \in Tags : InCall(m)' => m = n
    BY <2>1, <2>2, Zenon
  <2> QED
    BY <2>3 DEF OneInCall
<1> QED
  BY <1>2, <1>3, <1>4, <1>5, CallCases, Zenon

(* A call that does not drop the dumper ends inside a capture.             *)
LEMMA CallKeepsCapture ==
  ASSUME TypeOK, Shape, NEW n \in Tags, JavaCall(n)
  PROVE  Capturing(n)' \/ crashed' \/ mLogDumper' = None
<1>t. wpc \in [Tags -> WorkerStates] /\ kind' = kind /\ kind[n] \in Captures
  BY CallEffect DEF TypeOK
<1>1. CASE StartDumper(n) \/ TellDumper(n)
  <2>1. crashed' \/ Goes(n, "starting", "reset")
                 \/ Goes(n, "telling", "forgetting")
    BY <1>1, Zenon DEF StartDumper, TellDumper
  <2> QED
    BY <2>1, <1>t DEF Goes, Capturing, InCall
<1>2. CASE LookToStop(n)
  <2>1. CASE mLogDumper = None
    BY <1>2, <2>1, Zenon DEF LookToStop, javaVars
  <2>2. CASE mLogDumper # None
    BY <1>2, <2>2, <1>t DEF LookToStop, Goes, Capturing, InCall
  <2> QED
    BY <2>1, <2>2
<1>3. CASE ForgetDumper(n)
  BY <1>3, Zenon DEF ForgetDumper
<1>4. CASE NameFile(n) \/ FindDumper(n) \/ MakeDumper(n)
  <2>1. wpc'[n] \in {"looking", "making", "reset", "starting"}
    BY <1>4, <1>t DEF NameFile, FindDumper, MakeDumper, Goes
  <2> QED
    BY <2>1, <1>t DEF Capturing, InCall
<1> QED
  BY <1>1, <1>2, <1>3, <1>4 DEF JavaCall

LEMMA FieldStep ==
  ASSUME TypeOK, Shape, FieldHasCapture, [Next]_vars
  PROVE  FieldHasCapture'
<1>1. CASE /\ UNCHANGED <<crashed, mLogDumper>>
           /\ \A n \in Tags : Capturing(n) => Capturing(n)'
  BY <1>1, Zenon DEF FieldHasCapture
<1>2. CASE UNCHANGED <<crashed, mLogDumper>> /\ \A n \in Tags : Quiet(n)
  <2>1. \A n \in Tags : Capturing(n) => Capturing(n)'
    BY <1>2, QuietCalls
  <2> QED
    BY <1>1, <1>2, <2>1, Zenon
<1>3. ASSUME NEW d \in Tags, DumperEnds(d)
      PROVE  FieldHasCapture'
  <2>1. UNCHANGED <<wpc, kind, crashed, mLogDumper>>
    BY <1>3, Zenon DEF DumperEnds, processorVars
  <2> QED
    BY <2>1, Zenon DEF FieldHasCapture, Capturing, InCall
<1>4. ASSUME NEW n \in Tags, Worker(n), ~JavaCall(n)
      PROVE  FieldHasCapture'
  <2>1. UNCHANGED <<crashed, mLogDumper>> /\ (Capturing(n)' <=> Capturing(n))
    BY <1>4, NoCallEffect, Zenon
  <2>2. \A m \in Tags : Capturing(m) => Capturing(m)'
    BY <1>4, <2>1, WorkerAlone, Zenon
  <2> QED
    BY <1>1, <2>1, <2>2, Zenon
<1>5. ASSUME NEW n \in Tags, JavaCall(n)
      PROVE  FieldHasCapture'
  BY <1>5, CallKeepsCapture, Zenon DEF FieldHasCapture
<1> QED
  BY <1>2, <1>3, <1>4, <1>5, CallCases, Zenon

(* A call begins a capture only where the file is named.                   *)
LEMMA CallBegins ==
  ASSUME TypeOK, Shape, NEW n \in Tags, JavaCall(n), ~NameFile(n)
  PROVE  Capturing(n) /\ UNCHANGED <<overlapped, mFileName>>
<1>1. kind[n] \in Captures
  BY CallEffect
<1>2. wpc[n] \in {"looking", "making", "starting", "stopping", "telling",
                  "forgetting"}
  BY DEF JavaCall, FindDumper, MakeDumper, StartDumper, LookToStop,
     TellDumper, ForgetDumper, Goes
<1>3. UNCHANGED <<overlapped, mFileName>>
  BY Zenon DEF JavaCall, FindDumper, MakeDumper, StartDumper, LookToStop,
     TellDumper, ForgetDumper, javaVars
<1> QED
  BY <1>1, <1>2, <1>3 DEF Capturing, InCall

LEMMA ApartStep ==
  ASSUME TypeOK, Shape, Apart, [Next]_vars
  PROVE  Apart'
<1>1. CASE /\ UNCHANGED overlapped
           /\ \A n \in Tags : Capturing(n)' => Capturing(n)
  BY <1>1, Zenon DEF Apart
<1>2. CASE UNCHANGED overlapped /\ \A n \in Tags : Quiet(n)
  <2>1. \A n \in Tags : Capturing(n)' => Capturing(n)
    BY <1>2, QuietCalls
  <2> QED
    BY <1>1, <1>2, <2>1, Zenon
<1>3. ASSUME NEW d \in Tags, DumperEnds(d)
      PROVE  Apart'
  <2>1. UNCHANGED <<wpc, kind, overlapped>>
    BY <1>3, Zenon DEF DumperEnds, processorVars, captureHist
  <2> QED
    BY <2>1, Zenon DEF Apart, Capturing, InCall
<1>4. ASSUME NEW n \in Tags, Worker(n), ~JavaCall(n)
      PROVE  Apart'
  <2>1. UNCHANGED overlapped /\ (Capturing(n)' <=> Capturing(n))
    BY <1>4, NoCallEffect, Zenon
  <2>2. \A m \in Tags : Capturing(m)' => Capturing(m)
    BY <1>4, <2>1, WorkerAlone, Zenon
  <2> QED
    BY <1>1, <2>1, <2>2, Zenon
<1>5. ASSUME NEW n \in Tags, JavaCall(n), ~NameFile(n)
      PROVE  Apart'
  <2>1. Capturing(n) /\ UNCHANGED overlapped
    BY <1>5, CallBegins
  <2>2. \A m \in Tags : Capturing(m)' => Capturing(m)
    BY <1>5, <2>1, CallIsWorker, WorkerAlone, Zenon
  <2> QED
    BY <1>1, <2>1, <2>2, Zenon
<1>6. ASSUME NEW n \in Tags, NameFile(n)
      PROVE  Apart'
  <2> DEFINE others == {m \in Tags : Capturing(m)}
  <2>1. overlapped' = IF others = {} THEN overlapped
                                     ELSE overlapped \cup others \cup {n}
    BY <1>6, Zenon DEF NameFile
  <2>2. Worker(n)
    BY <1>6, Zenon DEF Worker
  <2>3. \A m \in Tags : m # n => (Capturing(m)' <=> m \in others)
    BY <2>2, WorkerAlone
  <2> HIDE DEF others
  <2>4. ASSUME NEW p \in Tags, p \notin overlapped', Capturing(p)',
               NEW m \in Tags, m # p, Capturing(m)'
        PROVE  FALSE
    <3>1. others # {}
      BY <2>3, <2>4
    <3>2. overlapped' = overlapped \cup others \cup {n}
      BY <2>1, <3>1
    <3> QED
      BY <2>3, <2>4, <3>2
  <2> QED
    BY <2>4, Zenon DEF Apart
<1> QED
  BY <1>2, <1>3, <1>4, <1>5, <1>6, CallCases, Zenon

-----------------------------------------------------------------------------
(* The log dumper *)

(* What the thread that is inside a call relies on.                        *)
Relies(n) ==
  /\ wpc[n] = "making" => mLogDumper = None
  /\ wpc[n] = "starting" => mLogDumper = n /\ dumper[n].life = "new"
  /\ wpc[n] = "telling" => mLogDumper # None
  /\ wpc[n] = "forgetting" => mLogDumper # None /\ dumper[mLogDumper].told

Tended == Untold \subseteq {mLogDumper}

LEMMA DumperParts ==
  DumperOK <=> (~raced => ~crashed /\ Tended /\ \A n \in Tags : Relies(n))
  BY Zenon DEF DumperOK, Tended, Relies

LEMMA NotRelying ==
  ASSUME NEW n \in Tags, ~InCall(n)
  PROVE  Relies(n)
  BY DEF InCall, Relies

(* A call by the only thread inside.                                       *)
LEMMA CallTends ==
  ASSUME TypeOK, Shape, NEW n \in Tags, JavaCall(n), Tended, Relies(n),
         ~crashed
  PROVE  ~crashed' /\ Tended' /\ Relies(n)'
<1>t. /\ wpc \in [Tags -> WorkerStates] /\ mLogDumper \in Tags \cup {None}
      /\ dumper \in [Tags -> Dumpers]
  BY Zenon DEF TypeOK, Dumpers
<1>1. CASE NameFile(n)
  <2>1. UNCHANGED <<crashed, mLogDumper, dumper>>
    BY <1>1, Zenon DEF NameFile
  <2>2. wpc'[n] = "looking"
    BY <1>1, <1>t DEF NameFile, Goes
  <2>3. Tended'
    BY <2>1, Zenon DEF Tended, Untold
  <2>4. Relies(n)'
    BY <2>2 DEF Relies
  <2> QED
    BY <2>1, <2>3, <2>4, Zenon
<1>2. CASE FindDumper(n) \/ LookToStop(n)
  <2>1. UNCHANGED <<crashed, mLogDumper, dumper>>
    BY <1>2, Zenon DEF FindDumper, LookToStop, javaVars
  <2>2. \/ wpc'[n] = "making" /\ mLogDumper = None
        \/ wpc'[n] = "telling" /\ mLogDumper # None
        \/ wpc'[n] \in {"reset", "upload"}
    BY <1>2, <1>t DEF FindDumper, LookToStop, Goes
  <2>3. Tended'
    BY <2>1, Zenon DEF Tended, Untold
  <2>4. Relies(n)'
    BY <2>1, <2>2 DEF Relies
  <2> QED
    BY <2>1, <2>3, <2>4, Zenon
<1>3. CASE MakeDumper(n)
  <2>1. UNCHANGED crashed
    BY <1>3, Zenon DEF MakeDumper
  <2>2. wpc[n] = "making" /\ wpc'[n] = "starting" /\ mLogDumper' = n
        /\ \E out \in {mFileName, None} :
             dumper' = [dumper EXCEPT ![n] = [life |-> "new", told |-> FALSE,
                                              file |-> out]]
    BY <1>3, <1>t DEF MakeDumper, Goes
  <2>3. mLogDumper = None
    BY <2>2 DEF Relies
  <2>4. Untold = {}
    BY <2>3 DEF Tended, Untold
  <2>5. /\ dumper'[n].life = "new"
        /\ \A d \in Tags : d # n => dumper'[d] = dumper[d]
    BY <1>t, <2>2
  <2>6. Untold' \subseteq {n}
    BY <2>4, <2>5, Zenon DEF Untold
  <2>7. Tended'
    BY <2>2, <2>6 DEF Tended
  <2>8. Relies(n)'
    BY <2>2, <2>5 DEF Relies
  <2> QED
    BY <2>1, <2>7, <2>8, Zenon
<1>4. CASE StartDumper(n)
  <2>1. mLogDumper = n /\ dumper[n].life = "new"
    BY <1>4 DEF StartDumper, Goes, Relies
  <2>2. mLogDumper # None /\ dumper[mLogDumper].life = "new"
    BY <2>1
  <2>3. /\ Goes(n, "starting", "reset") /\ UNCHANGED <<crashed, mLogDumper>>
        /\ dumper' = [dumper EXCEPT ![mLogDumper].life = "running"]
    BY <1>4, <2>2, Zenon DEF StartDumper
  <2>4. \A d \in Tags : d # n => dumper'[d] = dumper[d]
    BY <1>t, <2>1, <2>3
  <2>5. Untold' \subseteq Untold \cup {n}
    BY <2>4, Zenon DEF Untold
  <2>6. Tended'
    BY <2>1, <2>3, <2>5 DEF Tended
  <2>7. Relies(n)'
    BY <1>t, <2>3 DEF Relies, Goes
  <2> QED
    BY <2>3, <2>6, <2>7, Zenon
<1>5. CASE TellDumper(n)
  <2>1. mLogDumper # None
    BY <1>5 DEF TellDumper, Goes, Relies
  <2>2. /\ Goes(n, "telling", "forgetting")
        /\ UNCHANGED <<crashed, mLogDumper>>
        /\ dumper' = [dumper EXCEPT ![mLogDumper].told = TRUE]
    BY <1>5, <2>1, Zenon DEF TellDumper
  <2>3. mLogDumper \in Tags
    BY <1>t, <2>1
  <2>4. /\ dumper'[mLogDumper].told
        /\ \A d \in Tags : d # mLogDumper => dumper'[d] = dumper[d]
    BY <1>t, <2>2, <2>3 DEF Dumpers
  <2>5. Untold' \subseteq Untold
    BY <2>4, Zenon DEF Untold
  <2>6. Tended'
    BY <2>2, <2>5 DEF Tended
  <2>7. Relies(n)'
    BY <1>t, <2>1, <2>2, <2>4 DEF Relies, Goes
  <2> QED
    BY <2>2, <2>6, <2>7, Zenon
<1>6. CASE ForgetDumper(n)
  <2>1. UNCHANGED <<crashed, dumper>> /\ Goes(n, "forgetting", "upload")
    BY <1>6, Zenon DEF ForgetDumper
  <2>2. mLogDumper # None /\ dumper[mLogDumper].told
    BY <2>1, Zenon DEF Relies, Goes
  <2>3. Untold = {}
    BY <2>2, Zenon DEF Tended, Untold
  <2>4. Untold' = {}
    BY <2>1, <2>3, Zenon DEF Untold
  <2>5. Tended'
    BY <2>4 DEF Tended
  <2>6. Relies(n)'
    BY <1>t, <2>1 DEF Relies, Goes
  <2> QED
    BY <2>1, <2>5, <2>6, Zenon
<1> QED
  BY <1>1, <1>2, <1>3, <1>4, <1>5, <1>6 DEF JavaCall

LEMMA DumperStep ==
  ASSUME TypeOK, Shape, DumperOK, [Next]_vars
  PROVE  DumperOK'
<1> SUFFICES ASSUME ~raced'
             PROVE  ~crashed' /\ Tended' /\ \A n \in Tags : Relies(n)'
  BY Zenon DEF DumperOK, Tended, Relies
<1>p. ~raced => ~crashed /\ Tended /\ \A n \in Tags : Relies(n)
  BY DumperParts, Zenon
<1>2. CASE /\ UNCHANGED <<mLogDumper, dumper, raced, crashed>>
           /\ \A n \in Tags : Quiet(n)
  <2>1. ~crashed' /\ Tended'
    BY <1>2, <1>p, Zenon DEF Tended, Untold
  <2>2. ASSUME NEW n \in Tags
        PROVE  Relies(n)'
    <3>1. Relies(n)
      BY <1>2, <1>p, Zenon
    <3>2. UNCHANGED <<mLogDumper, dumper>> /\ Quiet(n)
      BY <1>2, Zenon
    <3> QED
      BY <3>1, <3>2 DEF Quiet, Relies
  <2> QED
    BY <2>1, <2>2, Zenon
<1>3. ASSUME NEW d \in Tags, DumperEnds(d)
      PROVE  ~crashed' /\ Tended' /\ \A n \in Tags : Relies(n)'
  <2>1. UNCHANGED <<wpc, raced, crashed, mLogDumper>>
    BY <1>3, Zenon DEF DumperEnds, captureHist
  <2>2. ~crashed /\ Tended /\ \A n \in Tags : Relies(n)
    BY <2>1, <1>p, Zenon
  <2>3. dumper \in [Tags -> Dumpers] /\ mLogDumper \in Tags \cup {None}
    BY Zenon DEF TypeOK, Dumpers
  <2>4. /\ dumper[d].life = "running"
        /\ dumper'[d].told = dumper[d].told
        /\ \A m \in Tags : m # d => dumper'[m] = dumper[m]
    BY <1>3, <2>3 DEF DumperEnds, Dumpers
  <2>5. Untold' \subseteq Untold
    <3> SUFFICES ASSUME NEW m \in Untold'
                 PROVE  m \in Untold
      OBVIOUS
    <3>1. m \in Tags /\ dumper'[m].life \in {"new", "running"}
          /\ ~dumper'[m].told
      BY Zenon DEF Untold
    <3>2. CASE m = d
      BY <2>4, <3>1, <3>2, Zenon DEF Untold
    <3>3. CASE m # d
      BY <2>4, <3>1, <3>3, Zenon DEF Untold
    <3> QED
      BY <3>2, <3>3
  <2>6. Tended'
    BY <2>1, <2>2, <2>5, Zenon DEF Tended
  <2>7. ASSUME NEW n \in Tags
        PROVE  Relies(n)'
    <3>1. Relies(n)
      BY <2>2
    <3>2. wpc[n] = "starting" => n # d
      BY <2>4, <3>1 DEF Relies
    <3>3. mLogDumper \in Tags /\ dumper[mLogDumper].told
            => dumper'[mLogDumper].told
      BY <2>4, Zenon
    <3> QED
      BY <2>1, <2>3, <2>4, <3>1, <3>2, <3>3 DEF Relies
  <2> QED
    BY <2>1, <2>2, <2>6, <2>7, Zenon
<1>4. ASSUME NEW n \in Tags, Worker(n), ~JavaCall(n)
      PROVE  ~crashed' /\ Tended' /\ \A m \in Tags : Relies(m)'
  <2>1. UNCHANGED <<mLogDumper, dumper, raced, crashed>> /\ ~InCall(n)'
    BY <1>4, NoCallEffect, Zenon
  <2>2. ~crashed /\ Tended /\ \A m \in Tags : Relies(m)
    BY <2>1, <1>p, Zenon
  <2>3. Tended'
    BY <2>1, <2>2, Zenon DEF Tended, Untold
  <2>4. Relies(n)'
    BY <2>1 DEF Relies, InCall
  <2>5. ASSUME NEW m \in Tags, m # n
        PROVE  Relies(m)'
    <3>1. wpc'[m] = wpc[m]
      BY <1>4, <2>5, WorkerAlone
    <3>2. UNCHANGED <<mLogDumper, dumper>> /\ Relies(m)
      BY <2>1, <2>2, Zenon
    <3> QED
      BY <3>1, <3>2 DEF Relies
  <2> QED
    BY <2>1, <2>2, <2>3, <2>4, <2>5, Zenon
<1>5. ASSUME NEW n \in Tags, JavaCall(n)
      PROVE  ~crashed' /\ Tended' /\ \A m \in Tags : Relies(m)'
  <2>1. ~raced /\ \A m \in Tags : m # n => ~InCall(m)
    BY <1>5, CallEffect, Zenon
  <2>2. ~crashed /\ Tended /\ Relies(n)
    BY <2>1, <1>p, Zenon
  <2>3. ~crashed' /\ Tended' /\ Relies(n)'
    BY <1>5, <2>2, CallTends
  <2>4. ASSUME NEW m \in Tags, m # n
        PROVE  Relies(m)'
    <3>1. ~InCall(m)'
      BY <1>5, <2>1, <2>4, CallIsWorker, WorkerAlone, Zenon
    <3> QED
      BY <3>1 DEF InCall, Relies
  <2> QED
    BY <2>3, <2>4, Zenon
<1> QED
  BY <1>2, <1>3, <1>4, <1>5, CallCases, Zenon

-----------------------------------------------------------------------------
(* A capture on its own *)

Inside == {"starting", "reset", "capturing", "stopping", "telling",
           "forgetting"}

Own(n) ==
  /\ wpc[n] \in {"looking", "making"} => mFileName = n
                                           /\ (~crashed => mLogDumper = None)
  /\ wpc[n] \in Inside => (~crashed => mLogDumper = n)
                             /\ OwnFile(n)
  /\ wpc[n] = "forgetting" => dumper[n].told
  /\ wpc[n] = "upload" => dumper[n].told /\ OwnFile(n)

LEMMA OwnParts ==
  OwnLog <=> \A n \in Tags \ (mixed \cup overlapped) :
               kind[n] \in Captures => Own(n)
  BY Zenon DEF OwnLog, Own, Inside

(* A capture's own call.                                                   *)
LEMMA OwnCall ==
  ASSUME TypeOK, Shape, CopiesOK, FieldHasCapture, ~crashed,
         NEW n \in Tags \ (mixed' \cup overlapped'), JavaCall(n), Own(n)
  PROVE  Own(n)'
<1>t. /\ wpc \in [Tags -> WorkerStates] /\ mLogDumper \in Tags \cup {None}
      /\ dumper \in [Tags -> Dumpers] /\ mixed' = mixed
      /\ n \in Tags /\ n \notin mixed
  BY CallEffect, Zenon DEF TypeOK, Dumpers
<1> USE DEF Inside
<1>1. CASE NameFile(n)
  <2>1. /\ wpc[n] = "naming" /\ wpc'[n] = "looking"
        /\ mFileName' = copy[n].tag
    BY <1>1, <1>t DEF NameFile, Goes
  <2>2. UNCHANGED <<mLogDumper, crashed>>
    BY <1>1, Zenon DEF NameFile
  <2>3. copy[n].tag = n
    BY <1>t, <2>1 DEF CopiesOK, Copied, Alive, Finals
  <2> DEFINE others == {m \in Tags : Capturing(m)}
  <2>4. overlapped' = IF others = {} THEN overlapped
                                     ELSE overlapped \cup others \cup {n}
    BY <1>1, Zenon DEF NameFile
  <2>5. others = {}
    BY <2>4
  <2>6. mLogDumper = None
    BY <2>5, Zenon DEF FieldHasCapture
  <2>7. mFileName' = n /\ mLogDumper' = None
    BY <2>1, <2>2, <2>3, <2>6
  <2> QED
    BY <2>1, <2>7 DEF Own
<1>2. CASE FindDumper(n)
  <2>1. UNCHANGED <<mFileName, mLogDumper, crashed, dumper, files>>
    BY <1>2, Zenon DEF FindDumper, javaVars
  <2>2. wpc[n] = "looking"
    BY <1>2, Zenon DEF FindDumper, Goes
  <2>3. mLogDumper = None /\ mFileName = n
    BY <2>2 DEF Own
  <2>4. wpc'[n] = "making"
    BY <1>2, <1>t, <2>3 DEF FindDumper, Goes
  <2>5. mLogDumper' = None /\ mFileName' = n
    BY <2>1, <2>3
  <2> QED
    BY <2>4, <2>5 DEF Own
<1>3. CASE MakeDumper(n)
  <2>1. /\ wpc[n] = "making" /\ wpc'[n] = "starting" /\ mLogDumper' = n
        /\ \E out \in {mFileName, None} :
             /\ dumper' =
                  [dumper EXCEPT ![n] =
                     [life |-> "new", told |-> FALSE, file |-> out]]
             /\ files' = files \cup ({out} \ {None})
    BY <1>3, <1>t DEF MakeDumper, Goes
  <2>2. mFileName = n
    BY <2>1 DEF Own
  <2>3. OwnFile(n)'
    BY <1>t, <2>1, <2>2 DEF OwnFile
  <2> QED
    BY <2>1, <2>3 DEF Own
<1>4. CASE StartDumper(n)
  <2>1. UNCHANGED <<mLogDumper, files>>
    BY <1>4, Zenon DEF StartDumper
  <2>2. wpc[n] = "starting" /\ wpc'[n] \in {"reset", "gone"}
    BY <1>4, <1>t DEF StartDumper, Goes
  <2>3. mLogDumper = n /\ OwnFile(n)
    BY <2>2 DEF Own
  <2>4. \/ dumper' = dumper
        \/ dumper' = [dumper EXCEPT ![mLogDumper].life = "running"]
    BY <1>4, Zenon DEF StartDumper
  <2>5. OwnFile(n)' /\ mLogDumper' = n
    BY <1>t, <2>1, <2>3, <2>4 DEF Dumpers, OwnFile
  <2> QED
    BY <2>2, <2>5 DEF Own
<1>5. CASE LookToStop(n)
  <2>1. UNCHANGED <<mLogDumper, dumper, files, crashed>>
    BY <1>5, Zenon DEF LookToStop, javaVars
  <2>2. wpc[n] = "stopping"
    BY <1>5, Zenon DEF LookToStop, Goes
  <2>3. mLogDumper = n /\ OwnFile(n)
    BY <2>2 DEF Own
  <2>4. wpc'[n] = "telling"
    BY <1>5, <1>t, <2>3 DEF LookToStop, Goes
  <2>5. mLogDumper' = n /\ OwnFile(n)'
    BY <2>1, <2>3 DEF OwnFile
  <2> QED
    BY <2>4, <2>5 DEF Own
<1>6. CASE TellDumper(n)
  <2>1. wpc[n] = "telling"
    BY <1>6, Zenon DEF TellDumper, Goes
  <2>2. mLogDumper = n /\ OwnFile(n)
    BY <2>1 DEF Own
  <2>3. mLogDumper # None
    BY <2>2, <1>t
  <2>4. /\ Goes(n, "telling", "forgetting")
        /\ UNCHANGED <<mLogDumper, files>>
        /\ dumper' = [dumper EXCEPT ![mLogDumper].told = TRUE]
    BY <1>6, <2>3, Zenon DEF TellDumper
  <2>5. dumper'[n].told /\ OwnFile(n)' /\ mLogDumper' = n
    BY <1>t, <2>2, <2>4 DEF Dumpers, OwnFile
  <2>6. wpc'[n] = "forgetting"
    BY <1>t, <2>4 DEF Goes
  <2> QED
    BY <2>5, <2>6 DEF Own
<1>7. CASE ForgetDumper(n)
  <2>1. /\ Goes(n, "forgetting", "upload") /\ UNCHANGED <<dumper, files>>
    BY <1>7, Zenon DEF ForgetDumper
  <2>2. wpc[n] = "forgetting" /\ wpc'[n] = "upload"
    BY <1>t, <2>1 DEF Goes
  <2>3. dumper[n].told /\ OwnFile(n)
    BY <2>2 DEF Own
  <2>4. dumper'[n].told /\ OwnFile(n)'
    BY <2>1, <2>3 DEF OwnFile
  <2> QED
    BY <2>2, <2>4 DEF Own
<1> QED
  BY <1>1, <1>2, <1>3, <1>4, <1>5, <1>6, <1>7 DEF JavaCall

(* What a call of another capture does to the files and dumpers.           *)
LEMMA OtherCall ==
  ASSUME TypeOK, Shape, NEW p \in Tags, JavaCall(p),
         NEW n \in Tags, n # p, dumper[n].told, OwnFile(n)
  PROVE  dumper'[n].told /\ OwnFile(n)'
<1>t. mLogDumper \in Tags \cup {None} /\ dumper \in [Tags -> Dumpers]
  BY Zenon DEF TypeOK, Dumpers
<1>1. CASE NameFile(p) \/ FindDumper(p) \/ LookToStop(p) \/ ForgetDumper(p)
  <2>1. UNCHANGED <<dumper, files>>
    BY <1>1, Zenon DEF NameFile, FindDumper, LookToStop, ForgetDumper,
       javaVars
  <2> QED
    BY <2>1 DEF OwnFile
<1>2. CASE MakeDumper(p)
  <2>1. files \subseteq files' /\ dumper'[n] = dumper[n]
    BY <1>2, <1>t DEF MakeDumper
  <2> QED
    BY <2>1 DEF OwnFile
<1>3. CASE StartDumper(p) \/ TellDumper(p)
  <2>1. UNCHANGED files
    BY <1>3, Zenon DEF StartDumper, TellDumper
  <2>2. \/ dumper' = dumper
        \/ dumper' = [dumper EXCEPT ![mLogDumper].life = "running"]
        \/ dumper' = [dumper EXCEPT ![mLogDumper].told = TRUE]
    BY <1>3, Zenon DEF StartDumper, TellDumper
  <2>3. dumper'[n].told /\ dumper'[n].file = dumper[n].file
    BY <1>t, <2>2 DEF Dumpers
  <2> QED
    BY <2>1, <2>3 DEF OwnFile
<1> QED
  BY <1>1, <1>2, <1>3 DEF JavaCall

LEMMA OwnStep ==
  ASSUME TypeOK, Shape, CopiesOK, FieldHasCapture, Apart, OwnLog, [Next]_vars
  PROVE  OwnLog'
<1> SUFFICES ASSUME NEW n \in Tags, n \notin mixed', n \notin overlapped',
                    kind'[n] \in Captures
             PROVE  Own(n)'
  BY Zenon DEF OwnLog, Own, Inside
<1>t. /\ wpc \in [Tags -> WorkerStates] /\ dumper \in [Tags -> Dumpers]
      /\ copy \in [Tags -> Copies] /\ files \subseteq Tags \cup {None}
  BY Zenon DEF TypeOK, Dumpers
<1>o. n \notin mixed /\ n \notin overlapped /\ kind[n] \in Captures => Own(n)
  BY OwnParts
<1>2. CASE /\ UNCHANGED <<mFileName, mLogDumper, dumper, files, overlapped,
                          crashed>>
           /\ Quiet(n) /\ mixed \subseteq mixed'
  <2>1. UNCHANGED <<mFileName, mLogDumper, dumper, files, crashed>>
    BY <1>2, Zenon
  <2>2. n \notin mixed /\ n \notin overlapped
    BY <1>2
  <2>3. CASE wpc'[n] \in {"none", "rejected", "refused", "created"}
    BY <2>3 DEF Own, Inside
  <2>4. CASE wpc'[n] = wpc[n] /\ kind'[n] = kind[n]
    <3>1. Own(n)
      BY <1>o, <2>2, <2>4
    <3> QED
      BY <2>1, <2>4, <3>1 DEF Own, OwnFile
  <2> QED
    BY <1>2, <2>3, <2>4 DEF Quiet
<1>3. ASSUME NEW d \in Tags, DumperEnds(d)
      PROVE  Own(n)'
  <2>1. UNCHANGED <<kind, wpc, mFileName, mLogDumper, files, crashed,
                    overlapped, mixed>>
    BY <1>3, Zenon DEF DumperEnds, processorVars, captureHist
  <2>2. dumper'[n].file = dumper[n].file /\ dumper'[n].told = dumper[n].told
    BY <1>3, <1>t DEF DumperEnds, Dumpers
  <2>3. Own(n)
    BY <1>o, <2>1, Zenon
  <2> QED
    BY <2>1, <2>2, <2>3 DEF Own, OwnFile
<1>4. ASSUME NEW p \in Tags, Worker(p), ~JavaCall(p)
      PROVE  Own(n)'
  <2>1. UNCHANGED <<mFileName, mLogDumper, dumper, overlapped, crashed>>
    BY <1>4, NoCallEffect, Zenon
  <2>2. UNCHANGED <<kind, mixed>>
    BY <1>4, WorkerFrame
  <2>3. Own(n)
    BY <1>o, <2>1, <2>2, Zenon
  <2>4. OwnFile(n) /\ wpc'[n] # "gone" => OwnFile(n)'
    <3> SUFFICES n \in files /\ wpc'[n] # "gone" => n \in files'
      BY <2>1, Zenon DEF OwnFile
    <3>1. CASE files' = files
      BY <3>1
    <3>2. CASE AnswerAndLeave(p)
      <4>1. /\ wpc[p] = "answering" /\ wpc'[p] = "gone"
            /\ files \ {copy[p].tag} \subseteq files'
        BY <3>2, <1>t DEF AnswerAndLeave, Goes
      <4>2. IF p \in mixed THEN copy[p].tag \in mixed ELSE copy[p].tag = p
        BY <4>1 DEF CopiesOK, Copied, Alive, Finals
      <4>3. p # n => copy[p].tag # n
        BY <2>2, <4>2
      <4> QED
        BY <4>1, <4>3
    <3> QED
      BY <1>4, <3>1, <3>2, NoCallEffect
  <2>5. CASE p # n
    <3>1. wpc'[n] = wpc[n]
      BY <1>4, <2>5, WorkerAlone
    <3> QED
      BY <2>1, <2>3, <2>4, <3>1, Zenon DEF Own, Inside
  <2>6. CASE p = n
    <3>1. /\ wpc'[n] \notin {"looking", "making", "starting", "telling",
                             "forgetting", "upload"}
      BY <1>4, <2>2, <2>6, NoCallEffect DEF InCall
    <3>2. wpc'[n] \in {"reset", "capturing", "stopping"}
            => wpc[n] \in {"reset", "capturing"}
      BY <1>4, <2>2, <2>6, NoCallEffect
    <3>3. wpc'[n] \in Inside =>
            (~crashed => mLogDumper = n) /\ OwnFile(n)'
      BY <2>3, <2>4, <3>1, <3>2 DEF Own, Inside
    <3>4. wpc'[n] \in Inside =>
            (~crashed' => mLogDumper' = n) /\ OwnFile(n)'
      BY <2>1, <3>3, Zenon
    <3> QED
      BY <3>1, <3>4 DEF Own
  <2> QED
    BY <2>5, <2>6
<1>5. ASSUME NEW p \in Tags, JavaCall(p), ~crashed
      PROVE  Own(n)'
  <2>1. UNCHANGED <<kind, mixed>>
    BY <1>5, CallEffect
  <2>2. overlapped \subseteq overlapped'
    <3>1. CASE NameFile(p)
      BY <3>1 DEF NameFile
    <3>2. CASE ~NameFile(p)
      BY <1>5, <3>2, CallBegins
    <3> QED
      BY <3>1, <3>2
  <2>3. Own(n)
    BY <1>o, <2>1, <2>2
  <2>4. CASE p = n
    BY <1>5, <2>3, <2>4, OwnCall
  <2>5. CASE p # n
    <3>1. wpc'[n] = wpc[n] /\ (Capturing(n)' <=> Capturing(n))
      BY <1>5, <2>5, CallIsWorker, WorkerAlone
    <3>2. ~Capturing(n)
      <4>1. CASE NameFile(p)
        <5>1. overlapped' = IF {m \in Tags : Capturing(m)} = {}
                              THEN overlapped
                              ELSE overlapped \cup {m \in Tags : Capturing(m)}
                                     \cup {p}
          BY <4>1, Zenon DEF NameFile
        <5> QED
          BY <5>1
      <4>2. CASE ~NameFile(p)
        <5>1. Capturing(p)
          BY <1>5, <4>2, CallBegins
        <5>2. n \notin overlapped
          BY <2>2
        <5> QED
          BY <5>1, <5>2, <2>5 DEF Apart
      <4> QED
        BY <4>1, <4>2
    <3>3. wpc[n] \notin Inside \cup {"looking", "making"}
      BY <2>1, <3>2 DEF Capturing, InCall, Inside
    <3>4. wpc'[n] = "upload" =>
            dumper'[n].told /\ OwnFile(n)'
      BY <1>5, <2>3, <2>5, <3>1, OtherCall DEF Own
    <3> QED
      BY <3>1, <3>3, <3>4 DEF Own, Inside
  <2> QED
    BY <2>4, <2>5
<1> QED
  BY <1>2, <1>3, <1>4, <1>5, CallCases, Zenon

-----------------------------------------------------------------------------
(* The theorems *)

THEOREM Invariance == Spec => []IInv
<1>1. Init => IInv
  BY InitIInv
<1>2. IInv /\ [Next]_vars => IInv'
  BY TypeStep, ShapeStep, BlocksStep, CopiesStep, AnswersStep, LateStep,
     OneInCallStep, DumperStep, FieldStep, ApartStep, OwnStep, Zenon
     DEF IInv
<1> QED
  BY <1>1, <1>2, PTL DEF Spec

(* Every variable keeps its type; the counter of screenshots stays within  *)
(* its limit.                                                              *)
THEOREM TypeCorrect == Spec => []TypeOK
<1>1. IInv => TypeOK
  BY Zenon DEF IInv
<1> QED
  BY <1>1, Invariance, PTL

(* A command whose block no other one took is carried out as it was asked, *)
(* and answered under its own tag exactly as often as it should be.        *)
THEOREM Answered == Spec => []AnsweredAsAsked
<1>1. IInv => AnsweredAsAsked
  <2> SUFFICES ASSUME IInv, NEW n \in Tags \ mixed
               PROVE  /\ (Alive(n) /\ wpc[n] \notin {"created", "copying"})
                           => copy[n] = [tag |-> n, params |-> n]
                      /\ ~crashed => answers[n] = Caused(n)
    BY Zenon DEF AnsweredAsAsked
  <2>1. copy \in [Tags -> Copies]
    BY Zenon DEF IInv, TypeOK
  <2>2. (Alive(n) /\ wpc[n] \notin {"created", "copying"})
          => copy[n].tag = n /\ copy[n].params = n
    BY DEF IInv, CopiesOK, Copied
  <2>3. (Alive(n) /\ wpc[n] \notin {"created", "copying"})
          => copy[n] = [tag |-> n, params |-> n]
    BY <2>1, <2>2 DEF Copies
  <2>4. ~crashed => answers[n] = Caused(n)
    BY Zenon DEF IInv, AnswersOK
  <2> QED
    BY <2>3, <2>4
<1> QED
  BY <1>1, Invariance, PTL

(* After the flag is raised a worker takes one more screenshot at most.    *)
THEOREM OneLate == Spec => []OneLateShot
<1>1. IInv => OneLateShot
  BY DEF IInv, LateOK, OneLateShot
<1> QED
  BY <1>1, Invariance, PTL

(* While the calls of LogcatFileUtils do not overlap, none throws and no   *)
(* dumper is left running untold.                                          *)
THEOREM NoneForgotten == Spec => []NoDumperForgotten
<1>1. IInv => NoDumperForgotten
  <2> SUFFICES ASSUME IInv, ~raced
               PROVE  /\ ~crashed
                      /\ Untold \subseteq {mLogDumper}
                      /\ (\A n \in Tags : ~Capturing(n)) => Untold = {}
    BY Zenon DEF NoDumperForgotten, Untold
  <2>1. ~crashed /\ Untold \subseteq {mLogDumper}
    BY Zenon DEF IInv, DumperOK
  <2>2. (\A n \in Tags : ~Capturing(n)) => mLogDumper = None
    BY <2>1, Zenon DEF IInv, FieldHasCapture
  <2>3. (\A n \in Tags : ~Capturing(n)) => Untold = {}
    BY <2>1, <2>2 DEF Untold
  <2> QED
    BY <2>1, <2>3, Zenon
<1> QED
  BY <1>1, Invariance, PTL

(* A capture that no other one overlapped uploads the log that its dumper  *)
(* wrote, if it could create the file, and never another one's.            *)
THEOREM HasItsLog == Spec => []CaptureHasItsLog
<1>1. IInv => CaptureHasItsLog
  BY Zenon DEF IInv, OwnLog, CaptureHasItsLog
<1> QED
  BY <1>1, Invariance, PTL
=============================================================================
