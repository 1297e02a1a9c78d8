----------------------------- MODULE VncWorkers -----------------------------
(***************************************************************************)
(* The commands that start a worker thread (VncCommandProcessor.cpp): a    *)
(* log captured for a while ("snatch", "start"), one screenshot ("photo"), *)
(* a screenshot every few seconds ("screens"), a file pushed to the TV or  *)
(* pulled from it.  The processor writes a command's tag and parameters to *)
(* a static block of its kind and starts the worker with the block's       *)
(* address; the worker copies the block when it runs.  All screenshot      *)
(* workers share exitScreenFlag, all capture workers exitLogcatThreadFlag  *)
(* and, on the Java side, the log dumper of LogcatFileUtils.               *)
(*                                                                         *)
(* A command is named by its place among the commands handled, which also  *)
(* stands for its tag.  The thread group's own steps are in VncThreads,    *)
(* the queue that answers go to is in VncCommandQueue.                     *)
(***************************************************************************)
EXTENDS Integers

CONSTANTS MaxCommands,  \* commands that are handled (a bound)
          MaxShots      \* 200: screenshots of one "screens" command

Captures == {"snatch", "start"}
Kinds == Captures \cup {"photo", "screens", "push", "pull"}
Blocks == Kinds \ {"photo"}

ASSUME WorkerAssumption ==
  /\ MaxCommands \in Nat
  /\ MaxShots \in Nat

Tags == 1..MaxCommands
None == 0

VARIABLES kind,         \* kind[n]: what command n asks for
          handled,      \* commands the processor has taken
          ppc,          \* where it is in the last one
          block,        \* block[k]: the command whose tag, and the one whose
                        \* parameters, the block of kind k holds
          wpc,          \* wpc[n]: where command n's worker is
          copy,         \* copy[n]: the worker's copy of its block
          shots,        \* shots[n]: the counter of a screens worker
          screenFlag,   \* exitScreenFlag
          logFlag,      \* exitLogcatThreadFlag
          frozen,       \* the session's group is frozen
          answers,      \* answers[n]: packages sent with command n's tag
          mFileName,    \* LogcatFileUtils: the next dumper's file
          mLogDumper,   \* LogcatFileUtils: the current dumper
          dumper,       \* dumper[n]: the dumper that n's worker made
          files,        \* the log files that exist under /data
          crashed,      \* an uncaught Java exception ended the program
          mixed,        \* history: commands that shared a block
          raced,        \* history: calls of LogcatFileUtils overlapped
          overlapped,   \* history: captures with another one meanwhile
          lateShots     \* history: n's screenshots since the flag was raised

processorVars == <<kind, handled, ppc, block>>
flagVars == <<screenFlag, logFlag, frozen>>
javaVars == <<mFileName, mLogDumper, dumper, files, crashed>>
captureHist == <<raced, overlapped>>
vars == <<processorVars, wpc, copy, shots, flagVars, answers, javaVars,
          mixed, captureHist, lateShots>>

Init ==
  /\ kind = [n \in Tags |-> "none"]
  /\ handled = 0
  /\ ppc = "idle"
  /\ block = [k \in Blocks |-> [tag |-> None, params |-> None]]
  /\ wpc = [n \in Tags |-> "none"]
  /\ copy = [n \in Tags |-> [tag |-> None, params |-> None]]
  /\ shots = [n \in Tags |-> 0]
  /\ screenFlag = 0
  /\ logFlag = 0
  /\ frozen = FALSE
  /\ answers = [n \in Tags |-> 0]
  /\ mFileName = None
  /\ mLogDumper = None
  /\ dumper = [n \in Tags |-> [life |-> "none", told |-> FALSE,
                               file |-> None]]
  /\ files = {}
  /\ crashed = FALSE
  /\ mixed = {}
  /\ raced = FALSE
  /\ overlapped = {}
  /\ lateShots = [n \in Tags |-> 0]

Finals == {"none", "refused", "rejected", "silent", "gone"}
Alive(n) == wpc[n] \notin Finals
OfKind(k) == {n \in Tags : kind[n] = k}

Goes(n, from, to) == wpc[n] = from /\ wpc' = [wpc EXCEPT ![n] = to]
Answer(t) == answers' = [answers EXCEPT ![t] = @ + 1]

-----------------------------------------------------------------------------
(* The command processor *)

(* The tag goes to the block first.  A worker of this kind that has not    *)
(* copied the block yet will answer for this command.                      *)
TakeCommand(k) ==
  LET n == handled + 1
      uncopied == {m \in OfKind(k) : wpc[m] \in {"created", "copying"}}
  IN  /\ ppc = "idle"
      /\ handled < MaxCommands
      /\ handled' = n
      /\ kind' = [kind EXCEPT ![n] = k]
      /\ IF k = "photo"
           THEN /\ ppc' = "filled"
                /\ UNCHANGED <<block, mixed>>
           ELSE /\ ppc' = "tagged"
                /\ block' = [block EXCEPT ![k].tag = n]
                /\ mixed' = IF uncopied = {} THEN mixed
                                             ELSE mixed \cup uncopied \cup {n}
      /\ UNCHANGED <<wpc, copy, shots, flagVars, answers, javaVars,
                     captureHist, lateShots>>

FillBlock ==
  /\ ppc = "tagged"
  /\ ppc' = "filled"
  /\ block' = [block EXCEPT ![kind[handled]].params = handled]
  /\ UNCHANGED <<kind, handled, wpc, copy, shots, flagVars, answers,
                 javaVars, mixed, captureHist, lateShots>>

(* A push without URL, path or size, or a pull without path; PackagePath   *)
(* says what counts as missing.                                            *)
Reject ==
  /\ ppc = "filled"
  /\ kind[handled] \in {"push", "pull"}
  /\ ppc' = "idle"
  /\ wpc' = [wpc EXCEPT ![handled] = "rejected"]
  /\ Answer(handled)
  /\ UNCHANGED <<kind, handled, block, copy, shots, flagVars, javaVars,
                 mixed, captureHist, lateShots>>

(* addThread refuses when the group is frozen, and fails when              *)
(* pthread_create does; the processor does not look, and confirms a        *)
(* "snatch" in any case.                                                   *)
StartWorker ==
  /\ ppc = "filled"
  /\ ppc' = "idle"
  /\ \/ wpc' = [wpc EXCEPT ![handled] = "refused"]
     \/ /\ ~frozen
        /\ wpc' = [wpc EXCEPT ![handled] = "created"]
  /\ IF kind[handled] = "snatch" THEN Answer(handled) ELSE UNCHANGED answers
  /\ UNCHANGED <<kind, handled, block, copy, shots, flagVars, javaVars,
                 mixed, captureHist, lateShots>>

(* T2P_CMD_STOP_SCREEN, T2P_CMD_STOP_SNATCH_LOG, and T2S_CMD_NOTIFY_PC_    *)
(* OFFLINE, which stops both.                                              *)
StopCommand(screens, logs) ==
  /\ ppc = "idle"
  /\ screens \/ logs
  /\ screenFlag' = IF screens THEN 1 ELSE screenFlag
  /\ logFlag' = IF logs THEN 1 ELSE logFlag
  /\ UNCHANGED <<processorVars, wpc, copy, shots, frozen, answers, javaVars,
                 mixed, captureHist, lateShots>>

(* The session ends: stopAll calls the exit functions of the listed        *)
(* workers; photo, push and pull workers have none.                        *)
StopAll ==
  /\ ~frozen
  /\ frozen' = TRUE
  /\ screenFlag' = IF \E n \in OfKind("screens") : Alive(n) THEN 1
                                                            ELSE screenFlag
  /\ logFlag' = IF \E n \in Tags : kind[n] \in Captures /\ Alive(n)
                  THEN 1 ELSE logFlag
  /\ UNCHANGED <<processorVars, wpc, copy, shots, answers, javaVars, mixed,
                 captureHist, lateShots>>

Processor ==
  \/ \E k \in Kinds : TakeCommand(k)
  \/ FillBlock
  \/ Reject
  \/ StartWorker
  \/ \E screens, logs \in BOOLEAN : StopCommand(screens, logs)

-----------------------------------------------------------------------------
(* What the workers have in common *)

(* A worker copies its block field by field.                               *)
CopyTag(n) ==
  /\ kind[n] \in Blocks
  /\ Goes(n, "created", "copying")
  /\ copy' = [copy EXCEPT ![n].tag = block[kind[n]].tag]
  /\ UNCHANGED <<processorVars, shots, flagVars, answers, javaVars, mixed,
                 captureHist, lateShots>>

FirstStep(k) == CASE k \in Captures -> "naming"
                  [] k = "screens" -> "reset"
                  [] k = "push" -> "download"
                  [] k = "pull" -> "upload"

CopyParams(n) ==
  /\ Goes(n, "copying", FirstStep(kind[n]))
  /\ copy' = [copy EXCEPT ![n].params = block[kind[n]].params]
  /\ UNCHANGED <<processorVars, shots, flagVars, answers, javaVars, mixed,
                 captureHist, lateShots>>

(* simpleFtpFile connects, reads the file and sends it behind a header.    *)
UploadStarts(n) ==
  /\ kind[n] \in Captures => copy[n].tag \in files
  /\ Goes(n, "upload", "awaiting")
  /\ UNCHANGED <<processorVars, copy, shots, flagVars, answers, javaVars,
                 mixed, captureHist, lateShots>>

AfterUpload(n) == IF kind[n] = "screens" THEN "counting" ELSE "answering"

(* It could not connect, found or opened no file, was cut off or refused   *)
(* by the server, or succeeded: the worker goes on with the code that it   *)
(* returned.                                                               *)
UploadEnds(n) ==
  /\ \/ Goes(n, "upload", AfterUpload(n))
     \/ Goes(n, "awaiting", AfterUpload(n))
  /\ UNCHANGED <<processorVars, copy, shots, flagVars, answers, javaVars,
                 mixed, captureHist, lateShots>>

(* The server never answers, or a loop turns for ever: over the file, when *)
(* fread returns 0 before st_size bytes (of a directory, at once), or over *)
(* header, answer or data, when -1 from read or write is taken for a count.*)
UploadHangs(n) ==
  /\ \/ /\ kind[n] \in Captures => copy[n].tag \in files
        /\ Goes(n, "upload", "hanging")
     \/ Goes(n, "awaiting", "hanging")
  /\ UNCHANGED <<processorVars, copy, shots, flagVars, answers, javaVars,
                 mixed, captureHist, lateShots>>

(* Faulty: the tag is read from the static block again.                    *)
AnswerAndLeaveFromBlock(n) ==
  /\ Goes(n, "answering", "gone")
  /\ Answer(IF kind[n] = "photo" THEN copy[n].tag ELSE block[kind[n]].tag)
  /\ files' = IF kind[n] \in Captures THEN files \ {copy[n].tag} ELSE files
  /\ UNCHANGED <<processorVars, copy, shots, flagVars, mFileName, mLogDumper,
                 dumper, crashed, mixed, captureHist, lateShots>>

(* The answer, the removal of the log file, exitThread.                    *)
AnswerAndLeave(n) ==
  /\ Goes(n, "answering", "gone")
  /\ Answer(copy[n].tag)
  /\ files' = IF kind[n] \in Captures THEN files \ {copy[n].tag} ELSE files
  /\ UNCHANGED <<processorVars, copy, shots, flagVars, mFileName, mLogDumper,
                 dumper, crashed, mixed, captureHist, lateShots>>

(* curlDownloadFile succeeds and the file is moved to its place, or it     *)
(* fails within its five minutes; both are answered.                       *)
DownloadEnds(n) ==
  /\ Goes(n, "download", "answering")
  /\ UNCHANGED <<processorVars, copy, shots, flagVars, answers, javaVars,
                 mixed, captureHist, lateShots>>

-----------------------------------------------------------------------------
(* Screenshots *)

(* Both kinds of screenshot worker clear the flag when they begin.         *)
ClearScreenFlag ==
  /\ screenFlag' = 0
  /\ lateShots' = [m \in Tags |-> 0]

PhotoBegins(n) ==
  /\ kind[n] = "photo"
  /\ Goes(n, "created", "shooting")
  /\ copy' = [copy EXCEPT ![n] = [tag |-> n, params |-> n]]
  /\ ClearScreenFlag
  /\ UNCHANGED <<processorVars, shots, logFlag, frozen, answers, javaVars,
                 mixed, captureHist>>

ScreensBegin(n) ==
  /\ kind[n] = "screens"
  /\ Goes(n, "reset", "shooting")
  /\ ClearScreenFlag
  /\ UNCHANGED <<processorVars, copy, shots, logFlag, frozen, answers,
                 javaVars, mixed, captureHist>>

(* catch_screen: a photo that cannot be taken is not answered.             *)
Shoot(n) ==
  /\ \/ Goes(n, "shooting", "upload")
     \/ kind[n] = "photo" /\ Goes(n, "shooting", "silent")
     \/ kind[n] = "screens" /\ Goes(n, "shooting", "counting")
  /\ lateShots' = [lateShots EXCEPT ![n] =
                     IF kind[n] = "screens" THEN @ + screenFlag ELSE @]
  /\ UNCHANGED <<processorVars, copy, shots, flagVars, answers, javaVars,
                 mixed, captureHist>>

(* Faulty: the counter starts again and the worker goes on.                *)
CountGoesOn(n) ==
  /\ Goes(n, "counting", "waiting")
  /\ shots' = [shots EXCEPT ![n] = IF @ + 1 > MaxShots THEN 0 ELSE @ + 1]
  /\ UNCHANGED <<processorVars, copy, flagVars, answers, javaVars, mixed,
                 captureHist, lateShots>>

(* Faulty: the counter is tested before it is raised.                      *)
CountAfterTest(n) ==
  /\ Goes(n, "counting", IF shots[n] > MaxShots THEN "gone" ELSE "waiting")
  /\ shots' = [shots EXCEPT ![n] = IF @ > MaxShots THEN 0 ELSE @ + 1]
  /\ UNCHANGED <<processorVars, copy, flagVars, answers, javaVars, mixed,
                 captureHist, lateShots>>

Count(n) ==
  /\ Goes(n, "counting", IF shots[n] + 1 > MaxShots THEN "gone"
                                                    ELSE "waiting")
  /\ shots' = [shots EXCEPT ![n] = IF @ + 1 > MaxShots THEN 0 ELSE @ + 1]
  /\ UNCHANGED <<processorVars, copy, flagVars, answers, javaVars, mixed,
                 captureHist, lateShots>>

SeesScreenFlag(n) ==
  /\ screenFlag = 1
  /\ Goes(n, "waiting", "gone")
  /\ UNCHANGED <<processorVars, copy, shots, flagVars, answers, javaVars,
                 mixed, captureHist, lateShots>>

(* Faulty: the flag is looked at only after a sleep.                       *)
IntervalOverUnchecked(n) ==
  /\ Goes(n, "waiting", "shooting")
  /\ UNCHANGED <<processorVars, copy, shots, flagVars, answers, javaVars,
                 mixed, captureHist, lateShots>>

(* The flag was down and the interval is over: the next screenshot is due, *)
(* whatever becomes of the flag.  Turns that only sleep change nothing.    *)
IntervalOver(n) ==
  /\ screenFlag = 0
  /\ Goes(n, "waiting", "shooting")
  /\ UNCHANGED <<processorVars, copy, shots, flagVars, answers, javaVars,
                 mixed, captureHist, lateShots>>

-----------------------------------------------------------------------------
(* Log captures, and LogcatFileUtils that they share *)

(* Inside a call of start or stop: past its first step, before its end.    *)
InCall(n) ==
  wpc[n] \in {"looking", "making", "starting", "telling", "forgetting"}

(* From the call of start to the end of the call of stop.                  *)
Capturing(n) ==
  InCall(n) \/ (kind[n] \in Captures /\ wpc[n] \in {"reset", "capturing",
                                                    "stopping"})

JavaStep(n) ==
  /\ raced' = (raced \/ \E m \in Tags \ {n} : InCall(m))
  /\ UNCHANGED <<processorVars, copy, shots, answers, mixed, lateShots>>

(* start: mFileName is set whether or not a dumper runs.                   *)
NameFile(n) ==
  LET others == {m \in Tags : Capturing(m)}
  IN  /\ Goes(n, "naming", "looking")
      /\ mFileName' = copy[n].tag
      /\ overlapped' = IF others = {} THEN overlapped
                                      ELSE overlapped \cup others \cup {n}
      /\ JavaStep(n)
      /\ UNCHANGED <<flagVars, mLogDumper, dumper, files, crashed>>

FindDumper(n) ==
  /\ Goes(n, "looking", IF mLogDumper = None THEN "making" ELSE "reset")
  /\ JavaStep(n)
  /\ UNCHANGED <<flagVars, javaVars, overlapped>>

(* The constructor opens the file that mFileName names by now; when it     *)
(* cannot be created, the dumper goes on without one.                      *)
MakeDumper(n) ==
  /\ Goes(n, "making", "starting")
  /\ \E out \in {mFileName, None} :
       /\ dumper' = [dumper EXCEPT ![n] = [life |-> "new", told |-> FALSE,
                                           file |-> out]]
       /\ files' = files \cup ({out} \ {None})
  /\ mLogDumper' = n
  /\ JavaStep(n)
  /\ UNCHANGED <<flagVars, mFileName, crashed, overlapped>>

(* mLogDumper.start() reads the field again: it may be null by now, or     *)
(* name a dumper that was started before.  Either throws.                  *)
StartDumper(n) ==
  /\ IF mLogDumper # None /\ dumper[mLogDumper].life = "new"
       THEN /\ Goes(n, "starting", "reset")
            /\ dumper' = [dumper EXCEPT ![mLogDumper].life = "running"]
            /\ UNCHANGED crashed
       ELSE /\ Goes(n, "starting", "gone")
            /\ crashed' = TRUE
            /\ UNCHANGED dumper
  /\ JavaStep(n)
  /\ UNCHANGED <<flagVars, mFileName, mLogDumper, files, overlapped>>

(* Only now is the flag cleared: a stop command that came in since the     *)
(* worker was created is lost.                                             *)
CaptureBegins(n) ==
  /\ kind[n] \in Captures
  /\ Goes(n, "reset", "capturing")
  /\ logFlag' = 0
  /\ UNCHANGED <<processorVars, copy, shots, screenFlag, frozen, answers,
                 javaVars, mixed, captureHist, lateShots>>

(* The time is over or the flag is up.                                     *)
CaptureEnds(n) ==
  /\ Goes(n, "capturing", "stopping")
  /\ UNCHANGED <<processorVars, copy, shots, flagVars, answers, javaVars,
                 mixed, captureHist, lateShots>>

(* stop *)
LookToStop(n) ==
  /\ Goes(n, "stopping", IF mLogDumper = None THEN "upload" ELSE "telling")
  /\ JavaStep(n)
  /\ UNCHANGED <<flagVars, javaVars, overlapped>>

(* Faulty: the dumper is dropped without being told.                       *)
TellDumperNothing(n) ==
  /\ Goes(n, "telling", "forgetting")
  /\ JavaStep(n)
  /\ UNCHANGED <<flagVars, javaVars, overlapped>>

(* mLogDumper.stopLogs() throws if the field is null by now.               *)
TellDumper(n) ==
  /\ IF mLogDumper # None
       THEN /\ Goes(n, "telling", "forgetting")
            /\ dumper' = [dumper EXCEPT ![mLogDumper].told = TRUE]
            /\ UNCHANGED crashed
       ELSE /\ Goes(n, "telling", "gone")
            /\ crashed' = TRUE
            /\ UNCHANGED dumper
  /\ JavaStep(n)
  /\ UNCHANGED <<flagVars, mFileName, mLogDumper, files, overlapped>>

(* Faulty: the field keeps naming the dumper that was told to stop.        *)
ForgetNothing(n) ==
  /\ Goes(n, "forgetting", "upload")
  /\ JavaStep(n)
  /\ UNCHANGED <<flagVars, javaVars, overlapped>>

ForgetDumper(n) ==
  /\ Goes(n, "forgetting", "upload")
  /\ mLogDumper' = None
  /\ JavaStep(n)
  /\ UNCHANGED <<flagVars, mFileName, dumper, files, crashed, overlapped>>

(* A dumper ends after the line that follows stopLogs, or when logcat      *)
(* itself has ended.                                                       *)
DumperEnds(d) ==
  /\ dumper[d].life = "running"
  /\ dumper' = [dumper EXCEPT ![d].life = "gone"]
  /\ UNCHANGED <<processorVars, wpc, copy, shots, flagVars, answers,
                 mFileName, mLogDumper, files, crashed, mixed, captureHist,
                 lateShots>>

-----------------------------------------------------------------------------
Worker(n) ==
  \/ CopyTag(n) \/ CopyParams(n)
  \/ UploadStarts(n) \/ UploadEnds(n) \/ UploadHangs(n)
  \/ AnswerAndLeave(n) \/ DownloadEnds(n)
  \/ PhotoBegins(n) \/ ScreensBegin(n) \/ Shoot(n) \/ Count(n)
  \/ SeesScreenFlag(n) \/ IntervalOver(n)
  \/ NameFile(n) \/ FindDumper(n) \/ MakeDumper(n) \/ StartDumper(n)
  \/ CaptureBegins(n) \/ CaptureEnds(n)
  \/ LookToStop(n) \/ TellDumper(n) \/ ForgetDumper(n)

Next ==
  /\ ~crashed
  /\ \/ Processor
     \/ StopAll
     \/ \E n \in Tags : Worker(n)
     \/ \E d \in Tags : DumperEnds(d)

Spec == Init /\ [][Next]_vars

(* Every worker thread runs, time passes, curl keeps its time limit.  An   *)
(* upload need not end: that is UploadHangs.                               *)
FairSpec == Spec /\ \A n \in Tags : WF_vars(~crashed /\ Worker(n))

-----------------------------------------------------------------------------
WorkerStates ==
  Finals \cup {"created", "copying", "upload", "awaiting", "hanging",
               "answering", "download", "reset", "shooting", "counting",
               "waiting", "naming", "looking", "making", "starting",
               "capturing", "stopping", "telling", "forgetting"}

Copies == [tag : Tags \cup {None}, params : Tags \cup {None}]

(* Type invariant: commands, blocks, workers, flags and dumpers keep their *)
(* types; the counter of screenshots stays within its limit.               *)
TypeOK ==
  /\ kind \in [Tags -> Kinds \cup {"none"}]
  /\ handled \in 0..MaxCommands
  /\ ppc \in {"idle", "tagged", "filled"}
  /\ block \in [Blocks -> Copies]
  /\ wpc \in [Tags -> WorkerStates]
  /\ copy \in [Tags -> Copies]
  /\ shots \in [Tags -> 0..MaxShots]
  /\ screenFlag \in {0, 1}
  /\ logFlag \in {0, 1}
  /\ frozen \in BOOLEAN
  /\ answers \in [Tags -> Nat]
  /\ mFileName \in Tags \cup {None}
  /\ mLogDumper \in Tags \cup {None}
  /\ dumper \in [Tags -> [life : {"none", "new", "running", "gone"},
                          told : BOOLEAN, file : Tags \cup {None}]]
  /\ files \subseteq Tags \cup {None}
  /\ crashed \in BOOLEAN
  /\ mixed \subseteq Tags
  /\ raced \in BOOLEAN
  /\ overlapped \subseteq Tags
  /\ lateShots \in [Tags -> Nat]

(* The packages that command n has caused so far: a rejection, or the      *)
(* result when its worker has left, and before that the confirmation of a  *)
(* "snatch".  "screens" and a photo that failed cause none.                *)
Caused(n) ==
  (IF wpc[n] = "rejected" \/ (wpc[n] = "gone" /\ kind[n] # "screens")
     THEN 1 ELSE 0)
    + (IF kind[n] = "snatch" /\ wpc[n] # "none" THEN 1 ELSE 0)

(* Unless two commands of its kind met in the static block, a command's   *)
(* worker acts on its own tag and parameters, and the command is answered  *)
(* under its own tag, as often as it should be and never before its work   *)
(* is done, whatever refusals, failures and stop requests come between.    *)
AnsweredAsAsked ==
  \A n \in Tags \ mixed :
    /\ (Alive(n) /\ wpc[n] \notin {"created", "copying"})
          => copy[n] = [tag |-> n, params |-> n]
    /\ ~crashed => answers[n] = Caused(n)

(* Once exitScreenFlag is up, and until a new screenshot worker clears it, *)
(* a "screens" worker takes at most the one screenshot that was due: a     *)
(* stop between its look at the flag and the screenshot is heard after it. *)
OneLateShot == \A n \in Tags : lateShots[n] <= 1

(* As long as no two threads were inside LogcatFileUtils at once, captures *)
(* may overlap as they like: no call throws, a dumper that runs and was    *)
(* not told to stop is the one that the next stop will tell, and when no   *)
(* capture is under way there is none.                                     *)
NoDumperForgotten ==
  LET untold == {d \in Tags : dumper[d].life \in {"new", "running"}
                                /\ ~dumper[d].told}
  IN  ~raced => /\ ~crashed
                /\ untold \subseteq {mLogDumper}
                /\ (\A n \in Tags : ~Capturing(n)) => untold = {}

(* A dumper that could create its file wrote to its own capture's, and the *)
(* file is there.                                                          *)
OwnFile(n) ==
  dumper[n].file # None => dumper[n].file = n /\ n \in files

(* A capture that no other one overlapped had a dumper of its own, which   *)
(* was told to stop; it never wrote to another capture's file, and its own *)
(* one, if it could be created, is there when the upload starts.           *)
CaptureHasItsLog ==
  \A n \in Tags \ (mixed \cup overlapped) :
    (kind[n] \in Captures /\ wpc[n] = "upload") =>
      dumper[n].told /\ OwnFile(n)

(* Every worker that was created ends of itself, even when its stop        *)
(* request was lost to a flag that a later worker cleared: unless it is an *)
(* upload that hangs, over its file or over its connection (a push cannot),*)
(* or the program has crashed.                                             *)
WorkersEnd ==
  \A n \in Tags :
    (wpc[n] = "created") ~>
      \/ wpc[n] \in {"gone", "silent"} \/ crashed
      \/ wpc[n] = "hanging" /\ kind[n] # "push"
=============================================================================
