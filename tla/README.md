# Verification of SkyRemoteAssistant

SkyRemoteAssistant lets a support engineer's PC take control of a Coocaa TV. A
message is pushed to the TV, the user consents with the remote control, and a
native library (`libcoocaavnc`) opens a TCP session to a relay server. From then
on the PC sends command packages: virtual key presses, screenshots, logcat,
telnet, file transfer. The user ends the session by pressing *back* three times
quickly.

This directory holds TLA+ modules of that program, TLC configurations that
check them on small instances, and theorems that TLAPS proves for every value of
the constants. Paths below are relative to `src/src/main/`; `cpp/…` abbreviates
`cpp/jni/libcoocaavnc/src/…` and `java/…` abbreviates
`java/com/coocaa/remotectrlservice/…`. `PROJECT.json` maps every definition to
the lines it models and lists the hazards with the properties that cover them.

To check: `tlc -config MC_X.cfg MC_X` for a module X; to prove:
`tlapm X_proofs.tla`.

## 1. Inventory

| Component | State it keeps | Operations | Hard behaviour | What makes it correct |
|---|---|---|---|---|
| Framing (`cpp/VncBufferReader.cpp`) | cache, cached and allocated size, length of the package at the front | `addBuffer` | arbitrary splits of the stream; a length remembered across calls | the peer's packages come out whole, in order, at once, within a bounded cache |
| Command queue (`cpp/VncCommandQueue.cpp`) | FIFO, mutex, condition variable | `addPackage`, `getPackage` | signal between the empty check and the wait; wait that returns at once | a FIFO channel that strands nothing |
| Thread group (`cpp/VncThreads.cpp`) | freeze flag, list of threads, mutex | `addThread`, `exitThread`, `stopAll`, destructor | unlocked check of the freeze flag; notification before the thread has reset its flag | the list is right, the destructor leaves nobody behind, stop requests are lost late only, to a flag put down or a thread added after `stopAll` |
| Session (`cpp/VncCtrl.cpp`, `my_alarm_handler`) | group, queues and socket as global pointers, three exit flags, SIGALRM | `startVnc`, `try_to_connect`, reader, writer, processor, `cleanup`, `cleanup_thread`, `stopVncSession` | tear-down from several threads, delayed tear-down, take-over by a second PC, stale alarm | nothing freed is used, a live session is whole, it is torn down when due and only then |
| Workers (`cpp/VncCommandProcessor.cpp`, `java/utils/LogcatFileUtils.java`) | static argument blocks, two exit flags, log dumper, files | one branch per command, five thread functions, `simpleFtpFile`, `start`, `stop` | argument blocks shared by successive workers, flags cleared by the next worker, one dumper for all captures | each command answered as it should be, stop requests heard, no dumper forgotten |
| Logcat console (`cpp/VncLogcatAgent.cpp`) | socket, pipe, child pid, `threadExist`, exit flag | `startConnect`, `sendCommand`, `stopConnect`, `logcatThread` | `threadExist` set late by the thread itself, a kill that meets the wrong process | one thread at a time, no child or pipe forgotten |
| Consent and control status (`java/MainService.java`, `GlobalData.java`, `JniUtils.java`, `dialog/AuthorizedDialog.java`, `dialog/StatusBarDialog.java`) | handler queue, status, bar, dialog, `startVnc`'s block | requests, handler messages, native callbacks | status and bar updated by several threads in their own orders | no session behind a refusal, bar and status agree, a finished session lets the next one in |
| Telnet agent (`cpp/VncTelnetAgent.cpp`) | socket `telnetfd`, flag `exitRecv`, both without a lock | `startTelnetService`, `stopTelnetService`, `sendData`, `recvData` | stop lost at thread start, restart while the old thread drains, a write loop that counts backwards | a socket belongs to one thread that hears a stop; every command ends but a `sendData` that nobody reads or whose connection is lost |
| Key dispatch (`cpp/KeyDispatchManager.cpp`) | device, counter and time of the last release, epoll registration | `init`, `ir_hook_proc`, `handle_ir_event`, `is_cancel_control` | rows of releases split over reads, an edge-triggered descriptor, milliseconds in an int, two hooks sharing statics | control ends exactly when *back* was released three times quickly; no event stays unread |
| Package codec (`cpp/VncDataPackage.cpp`) | fields, raw buffer, the static of `getStringValue` | `create` (five), `makeNewProtocolBuffer`, the constructor from raw data, getters | encoder and decoder agree only by the order of their lines; a getter that remembers | every field arrives as it was set; what takes the place of one that was not |
| JNI glue (`cpp/JniHelper.cpp`, `cpp/com_coocaa_…JniUtils.cpp`) | cached JVM, class loader | `execJCommand`, `startCoocaaOsVnc` | calls between the two halves on any thread | calls modelled in ControlStatus and VncWorkers |
| `java/PushMsgReceiver.java` | none | `onReceive` | the manifest registers no receiver and no code does: it never runs | not modelled |
| Other dialogs, shell, bitmap and XML utilities, `VncUtils`, `VirtualKey`, jsoncpp | none to speak of | sequential calls | none | not modelled |

How they interact. MainService's main thread calls `startVnc` through JNI; its
connector thread creates a session: a group, two queues, a socket, and a reader,
a writer and a processor in the group. The reader passes bytes to the framing,
which fills the inbound queue; the processor takes commands from it, starts
workers in the group and puts answers on the outbound queue; the writer sends
them. Processor, reader and key hook report to the Java side with
`execJCommand`, on their own threads. The reader that leaves starts
`cleanup_thread`, which sleeps and then tears the session down; so does the
alarm handler, on whichever thread takes the signal; and a second PC's connector
tears down what it finds. The key hook is a thread of its own, outside every
session, and so outlives them.

## 2. Modules

| Module | Models | Composes with |
|---|---|---|
| `PackageStream` | abstract: packages handed over in order | – |
| `VncBufferReader` | `addBuffer`, one action per turn of its loop | implements `PackageStream` (refinement `handed <- Len(delivered)`) |
| `PackageChannel` | abstract: a FIFO channel that drains | – |
| `VncDataPackage` | the wire image of a package in both directions, its constructors and getters, as operators | – |
| `PackagePath` | a command from the peer's package, through reader and queue, to the processor's fields | composes `VncBufferReader`, `VncDataPackage` and `VncCommandQueue`; implements `PackageStream` end to end (`handed <- Len(taken)`) |
| `VncCommandQueue` | `addPackage`, `getPackage`, one action per lock, check, wait | implements `PackageChannel` |
| `AlarmQueue` | the outbound queue while `my_alarm_handler` runs on top of one of its threads | extends `VncCommandQueue`; implements `PackageChannel` while its writer serves it |
| `ThreadGroup` | abstract: threads join and leave in one step, a freeze asks those who are in | – |
| `VncThreads` | group, members, destructor | implements `ThreadGroup` |
| `SessionTurns` | abstract: sessions have the TV one after the other, each once | – |
| `VncSession` | connectors, threads, cleanups, alarm over the global pointers; group calls and queues in single steps | implements `SessionTurns` until two outsiders meet; uses what `VncThreads` (a `ThreadGroup`) and `VncCommandQueue` (a `PackageChannel`) establish |
| `VncWorkers` | worker commands, workers, log dumper | group calls in single steps |
| `VncLogcatAgent` | logcat console, child processes | group calls in single steps |
| `VncTelnetAgent` | the telnet commands and `recvData` | group calls in single steps |
| `KeyHook` | the hook thread and the gesture | what the gesture ends is in `ControlStatus` |
| `ControlStatus` | main thread, dialog, handler queue, connector, session threads' reports | a session reduced to its ends and its reports |
| `X_proofs` | theorems about X, for all that are not abstract; `PackagePath_proofs` holds those about `VncBufferReader`, `VncDataPackage`, `VncCommandQueue` and `AlarmQueue` too | extends X |
| `MC_X` | constants and constraints of the runs | extends X |

A definition whose comment begins "Faulty:" is not part of a specification: it
is a small mistake one could make in the code, and stands in for the action that
follows it to show that a property notices.

### VncBufferReader

Bytes are abstracted to their offset in the peer's stream: package k is the
offsets from `Start[k-1]` up to `Start[k]`. The variables are the class's
(`m_cachedSize`, `m_allocSize`, `m_pkgSize`, `m_haveGotSize`), `head` (the
offset of the cache's first byte, which `memmove` advances), `received` and
`delivered`. `AddBuffer` is the call with its reallocation, `Deliver` the turn
that hands a package over and jumps to `next_package`, `Incomplete` the turn
that returns. Off a package's start the header would decode to anything:
`Header` is a nondeterministic choice there, and the proof that it is never
reached is part of the inductive invariant.

### VncDataPackage and PackagePath

`VncDataPackage` has no variables: it says what `makeNewProtocolBuffer` writes
and what the constructor from raw data reads, byte by byte in the order of the
code's lines, for packages of all four parameter types. A byte has `Byte`
values (16 in the run), so that a word of four stays within TLC's integers;
texts are sequences of bytes; printing an int and `atoi` are modelled with their
signs. jsoncpp is external: a document is a function from keys to values, each
one byte, written key by key.

`PackagePath` composes the three: it gives the offsets of `VncBufferReader` the
bytes of the packages `Sent`, puts each slice the reader cuts out on the inbound
queue, and decodes what the processor takes from it. The reader thread is inside
`addBuffer` (`Receives`, `Cuts`) or inside `addPackage` (`HandsOver`), never
both; the processor (`Takes`) runs between any two of these steps. Three ASSUMEs
say what the composition rests on: the queue's two ends (`EndsAssumption`); that
the peer builds its packages as the `create()` calls do, whatever their fields,
short enough for a word, and that the reader's offsets are those of their bytes
(`PathAssumption`); and that `atoi` and jsoncpp read back what `snprintf` and
jsoncpp print (`LibrariesAssumption`, which TLC evaluates for the run's
packages).

Of the processor's switch it holds the push command: `getStringValue` returns a
`static` string, which it leaves as it was when the key is missing. A push
without `tv-path` therefore gets its own `server-url` as path instead of the -4
that `VncCommandProcessor.cpp:241` means it to get; one without `server-url`
gets the last field that an earlier push named, be that a path.
`PushTakesLastNamed` says just that of every push, and so when the code keeps
the intended promise: when both fields are named.

### VncCommandQueue

Every lock, unlock, check and wait is an action, so that the signal can fall
between `getPackage`'s check and its wait. The clock is an input in `Usecs`. The
code adds 200 ms to `tv_nsec` without carry; from 800000 µs on the deadline is
invalid and `pthread_cond_timedwait` returns at once with `EINVAL`
(`WaitRefused`): the consumer then polls instead of waiting, and nothing
worse happens.

`AlarmQueue` adds `SIGALRM`. `interrupted` is the thread the handler runs on,
which makes no step until the handler is over: first its `sendPackage`, one more
producer (`HandlerSends`), then `exitThread` for the thread beneath it
(`HandlerExits`), which ends a member of the group wherever it was, out of
`getPackage`'s wait too, and leaves any other thread to go on. The
`cleanup_thread` the handler creates in between does nothing to the queue; it is
in `VncSession`. Two mutexes lie on the handler's way, the queue's and the
group's, and neither is recursive: a signal that comes while its thread holds
one makes the handler wait for that thread for ever (`StuckInQueue`,
`StuckInGroup`, `StuckForEver`). A writer can also leave the queue by itself, or
stay in `writeback` for ever (`WritesForEver`), and then nothing is taken any
more.

### VncThreads

`addThread` is split at the unlocked look at `m_freeze`, the lock,
`pthread_create` and `push_back`; `exitThread` at its lock; the destructor into
`stopAll` and the poll that succeeds. `FlagOf` is the flag a thread obeys,
`Resets` those it puts down when it begins to run, `Lowers` those it may put down
later. They differ: the single-screenshot worker is added with a null
`notify_exit` and yet resets `exitScreenFlag`, and the logcat reader's flag is
put down by the processor that adds it. `lateReset` and `lateAdded` remember
which flags were put down, and which threads created, after `stopAll`. A thread
whose connection keeps it in `writeback` or `simpleFtpFile` is `busy`, and may
be so for ever, its flag up or not; `DestructorReturns` excuses it (`Deaf`).

To its users the group is simpler, and `ThreadGroup` says how: a thread joins
when `pthread_create` succeeds, leaves when `exitThread` has given the mutex
back, and `stopAll` raises in one step the flags of exactly the threads that are
in. That `VncThreads` implements it (`IsThreadGroup`) is what allows
`VncSession` to take group calls as single steps.

### VncSession

`ptr[o]` is whose object the global `o` names, `freed[o]` whose objects are gone,
`misuse` becomes true with the first use of a null or freed one and ends the
behaviour, because the program is undefined from there. `early` and `overlap`
are history. An *outsider* is a thread that touches a session without being a
member of its group: a connector, a `cleanup_thread`, an alarm handler on a
foreign thread. The properties say how much depends on outsiders not meeting:
with one at a time the group's destructor keeps all unguarded uses right; with
two the globals are freed under each other's feet. The code does nothing to keep
them apart, so `misuse` is reachable and `MisuseOnlyByOverlap` is the
strongest thing one can say.

A `cleanup_thread` that cannot be created is `Denied`: nobody looks at
`pthread_create`'s result (`VncCtrl.cpp:366`). In the sessions `Hanging` a
processor may start a worker that never ends, because its upload turns for ever;
it stays on the group's list. `EventuallyReleased` excuses both (`NoCleaner`,
`Held`), a lost stop request (`Deaf`), and nothing else short of `misuse`.

Up to such a meeting the sessions take turns. `SessionTurns` is the promise:
one session at a time, its threads start once each and only while its turn is
open, the turn closes when all of them have left, and never comes again. The
turn is the lifetime of the socket, the last object that `cleanup` gives back;
it is open while the group, the first one, is there.

### VncWorkers

A command is its place among the commands handled, which also stands for its
tag. `block[k]` is the static block of kind k, in two parts (tag, the other
fields) that the processor writes and a worker copies in separate steps. `wpc`
follows a worker through its function. `simpleFtpFile` is three outcomes: it
ends with a code (any of its dozen exits), or waits for the server, or hangs
(`UploadHangs`): `read` and `write` return -1 when the connection breaks and the
loops subtract that, and `fread` returns 0 when the file ends before `st_size`,
with no server involved; either way they turn for ever. Whether the flag or ten
attempts make a `connect` fail does not matter here. `LogcatFileUtils.start` and
`stop` are split at every access to `mLogDumper`; a dumper that cannot create
its file goes on without one (`LogcatFileUtils.java:118`). Any other exception
out of them is uncaught on an attached thread and ends the program (`crashed`).
Waiting for the next screenshot is one action: turns that only sleep change
nothing.

### VncLogcatAgent

Run i is the i-th command that forks: child i, pipe i, thread i. A child is
forked, then leads its process group (`setpgrp`), ends, and is waited for by
`handle_sig_child`. `Target` is what `kill(-getpgid(logcat_pid))` hits: the
logcat, the program's own group before `setpgrp`, process 1 alone (`kill` of
`-(-1)`) when the child has been waited for.

### VncTelnetAgent

Socket s is the s-th that is made and thread s the one started for it. The
processor's command is a sequence of actions (`connect`, `clear`, `add`,
`write`), because `recvData` reads and writes `telnetfd` and `exitRecv` between
any two of them. `recvData`'s exit is split at the close, at forgetting the
descriptor and at resetting the flag. `restarted` is history: a start came while
an earlier one's socket or thread was still there, and from then on two threads
share one socket, or one socket belongs to nobody. `wild` is `FD_SET(-1)`,
undefined behaviour, which ends the behaviour; it needs such a restart. A
`write` to a telnetd that does not read blocks, and nothing makes it read
(`Blocked`). `write` returning -1 (`WriteFails`) adds one to the bytes that are
left: a `sendData` that has lost its connection (`Lost`) turns until that int,
whose width `MaxInt` stands for, is full; what the overflow then does is
undefined, and the model lets the loop end or go on. `select` may fail on a
socket that works, by a signal (`ReadFails`). A short write sends the same bytes
again from the start of the buffer; contents are not modelled.

### KeyHook

The kernel's queue is a log of all events; `read[h]` and `handled[h]` are the
hook's places in it. Every entry carries, as ghost fields, what the user is due:
the length of the row of quick releases it belongs to and how often control
should have ended by then. The code's statics `idx` and `t` are compared with
them (`ExitsAsDue`). Times are ints of `2 * Half` values, with the wrap-around
that the code's cast to milliseconds has. The descriptor is watched
edge-triggered and a read takes two events: `armed` is what epoll has to report,
and `Rearm` the `EPOLL_CTL_MOD` that makes it report again. `twice` says that
`init` started a second hook before the first had set `device_fd` (both then
count every release), `wrapped` that a gap inside a row was too long for an int;
both are the exceptions of `ExitsAsDue`.

### ControlStatus

The Handler's queue `msgs` holds what was posted and not yet handled; a report
by a native thread is two actions (`dispatchMessage`, then
`setCurrentControlStatus`), and the main thread runs between them. `threaddata`
is `startVnc`'s static block. A decision is what the user said, `yes` or `no`, or
`secret`: such a request (`MainService.java:95`, `:283`) starts a session and asks
nobody, so `SessionGranted` cannot promise a consent; it says that no session
stands behind a refusal. `Faults` names what may go wrong: a `select` that fails
makes the reader leave without a report (`VncCtrl.cpp:334`); the alarm, when the
server does not name the PC in time, ends the thread it meets, whatever that
thread was about to report, and starts a cleanup of its own; a cleanup may fail
to be created. `crossed` says that two threads were half way through a report at
once, or that the alarm cut one in half; `stale` that the reader's report of an
end was overtaken or never made. Both are explained at their definitions.

## 3. Runs

All runs check with `CHECK_DEADLOCK FALSE`: every one of these systems stops
rightly, when the bounded input is used up and the threads have left.

| Run | Question | Bounds, and why they are enough |
|---|---|---|
| `buffer_reader` | Does every package survive every split of the stream and the queue behind it, as bytes and as fields, and reach the processor at last; what does a push take that lacks a field? | five packages, one of each `create()` call, four of them pushes (URL but no path, a text with neither, path but no URL, nothing), 32 to 36 bytes each; reads of 1 to 38, cache of 30: reads that end in any field, span packages, hold a whole one with bits of its neighbours, and force the cache to grow; the processor takes between any two steps of the reader |
| `command_queue` | Is the outbound queue a FIFO channel though signals are lost and alarms interrupt? | two producers, one a member of the group and one a foreign thread, and the handler, with one package each, and one consumer, as a session has; both mutexes; a clock on either side of the missing carry |
| `thread_group` | Is the list right, when may the destructor hang, and is it all a `ThreadGroup`? | the processor; a screenshot worker with a flag and the single one that obeys none but puts that flag down; a logcat reader whose flag the processor puts down: every kind of member the code adds |
| `session` | Two PCs, in any order, and a PC after a session with an armed alarm: is anything freed used, is a live session whole, torn down only when due, and do sessions take turns? | two sessions: every tear-down involves one session and at most one successor. `NotYetOverlapped` cuts behaviours once two outsiders have met (`overlap` never falls, and all properties are void after), and lets the second PC meet the armed alarm only one after the other; of the `cleanup_thread`s only the first reader's may be denied (`OneDenied`) |
| `session_live` | Is everything given back when the server hangs up, and what prevents it? | one session with its alarm, a worker that may hang, any `cleanup_thread` denied |
| `logcat_agent` | One thread, nothing forgotten, no wait for ever? | two runs and one connection: a run, and its successor |
| `logcat_kill` | *violation*, see findings | two runs, two connections |
| `control_status` | No session behind a refusal; do bar and status agree; does an end let the next in? | two decisions of any kind (a take-over, a decision that overtakes another), all faults, one cleanup that has not begun when an alarm comes, and a handler queue of one pending message when a new one is caused. `NotYetCrossed` cuts where the properties are void, takes the first decision for a yes or a no (a secret one goes on like a yes) and arms the alarm in the first session. A third decision takes TLC out of its limits; the theorems cover it |
| `control_status_bar` | *violation*, see findings | same, unconstrained and without faults, so that nothing else is to blame |
| `workers` | Answers, argument blocks, flags, the dumper | any two commands of any kinds, stop requests without limit, three screenshots at most, files that cannot be created or read to their end: what can go wrong here is between two workers, or one worker and a stop |
| `telnet` | Whose is the socket, is a stop heard, which commands end? | two sockets (a start and what it may meet), two attempts, two bytes, an int up to 3: telnetd may go at any time, sessions end and begin without limit |
| `key_hook` | Does control end exactly when the gesture was made, and is every event handled? | five events of any kind with gaps just quick and slow (two slow ones exceed half of the 16 values of an int), two hooks one after the other; `NotTwice` cuts where two are alive, and nothing is claimed |

The properties, by what they would catch:

* **Order and loss.** `PackagesIntact`, `NoneHeldBack`, `CacheBounded`,
  `ContentsArrive`, `PushTakesLastNamed`, `ExactlyOnceInOrder`, and the
  refinements `CommandsArrive`, `ChannelWhileServed`.
* **Lifetimes.** `ListIsRight`, `DestroyedIsQuiet`, `MisuseOnlyByOverlap`,
  `LiveSessionIsWhole`, `TornDownWhenDue`, `NothingForgotten`, `OneThread`,
  `NoDumperForgotten`, `CaptureHasItsLog`, `SocketHasItsReader`, and the
  refinements `IsThreadGroup`, `TakesTurns`.
* **Stop requests.** `StopLostOnlyLate`, `OneLateShot`, `FlagEndsThread`,
  `StopIsHeard`.
* **Consent and what the user sees.** `SessionGranted`, `BarFollowsStatus`,
  `ControlIsSeen`, `StatusIsFree`, `ExitsAsDue`.
* **Answers.** `AnsweredAsAsked`.
* **Progress.** `HandlerEnds`, `DestructorReturns`, `EventuallyReleased`,
  `SessionCloses`, `WorkersEnd`, `CommandsEnd`, `EventsAreHandled`.

Type invariants are theorems of every module with proofs; the runs `session`,
`workers` and `key_hook` check theirs as well.

### Fairness

Weak fairness stands for "the scheduler runs a thread that can run".

* Queue: a `getPackage` in progress goes on, a consumer calls again (both
  callers are loops), a producer that has begun ends its call. No fairness on
  the start of an `addPackage`, nor of an alarm, and none that ends a
  `writeback`. Strong fairness of the handler: the writer takes the queue's
  mutex again and again but leaves it alone for up to 200 ms at a time, and the
  group's is held for a few lines now and then, so a waiting handler gets both
  at last; who holds the group's gives it back (weak). Without alarms no strong
  fairness is needed.
* Path: `addBuffer` runs to its end and the processor asks again and again
  (weak); the reader gets the queue's mutex at last (strong, as above).
* Threads: a call that has begun goes on; a loop that no connection keeps for
  ever looks at its flag; finite workers end unless kept likewise. A thread
  takes the mutex a bounded number of times, so weak fairness of a lock is
  enough.
* Session: threads run, but nothing makes the server read (a write may wait for
  ever), nothing makes `pthread_create` succeed, for members and for
  `cleanup_thread`s, and nothing ends a worker whose upload hangs. Strong
  fairness of `ReadFails`: what a server sent before it hung up is finite, so
  the reader meets the end of the connection however often it has data in
  between.
* Logcat: processor and threads run; the child need not write.
* Workers: every worker runs, time passes, curl keeps its five minutes
  (`CURLOPT_TIMEOUT`). The relay server need not answer, and an upload need not
  end.
* Telnet: a command in progress goes on and the thread's loop turns. Nobody
  makes commands come, telnetd accept or read what it is sent, or a read fail.
* Key hook: its loop runs. Nobody makes the user press keys or the device open.

## 4. Findings

* `KillsOnlyLogcat`: `killLogcatProcess` can signal the program's own group, or
  process 1, against `VncLogcatAgent.cpp:142`.
* `BarTellsTheTruth`: after NOTIFY_PC_OFFLINE the bar still says that the TV is
  connected (`StatusBarDialog.java:77`), and stays until another session ends.

Seen while modelling, and described by the exceptions of the properties rather
than by runs of their own: `addThread` looks at `m_freeze` before it takes the
mutex, so a thread can join a group that is already frozen, against the comment
at `VncThreads.h:22` (`StopLostOnlyLate` says what that costs); the logcat
thread sets `threadExist` late, so a command can find 0 with the thread alive,
against `VncLogcatAgent.h:29`; a push without `tv-path` is carried out
(`PushTakesLastNamed`); an alarm may hang the session (`HandlerEnds`).

## 5. Proofs

Eight modules of theorems, for every value of the constants under the ASSUMEs
stated beside them (packages as `create()` builds them, libraries that read
back what they print; disjoint thread names; clock values in range; bounds that
are numbers). Every invariant and every safety property that a passing run
checks is the property of a theorem.

* **`PackagePath_proofs`**, in four parts.
  *Reader:* type correctness, `PackagesIntact`, `SizeIsFresh`, `CacheBounded`,
  `NoneHeldBack`, and that every step is a step of `PackageStream` or a
  stutter. None is inductive by itself. The strengthening: the cache always
  begins at the boundary of the next package (`FrontAtBoundary`), and between
  calls holds less than that package (`LessThanAPackage`); so the header read is
  a real length, the remembered length is fresh, and the allocation grows only
  behind an incomplete package.
  *Queue:* type correctness, `ExactlyOnceInOrder`, `FrontStays` (the front read
  is the one popped, which holds only because no one else is in a critical
  section: `MutexHeld`), and the safety part of the refinement of
  `PackageChannel` (`ProducersAdd` ties what was pushed to the producers'
  counters). The same for `AlarmQueue`, whose steps are steps of the queue, also
  when a handler ends its thread in the middle of a wait; and that an alarm
  stuck at either mutex stays stuck, because the thread beneath it holds it and
  the handler has not got beyond the lock (`Beneath`).
  *Codec:* a word comes back from its four bytes (`WordRoundTrip`), the bytes
  of a package are its fields end to end (`ImageLayout`), and so what is decoded
  is what was encoded (`DecodeRoundTrip`).
  *Path:* each step is one of the reader or of the queue (`PathStepParts`), so
  the theorems of the first two parts hold together (`ReaderHoldsOnPath`,
  `QueueHoldsOnPath`); `PathIInv` adds that the reader's k-th slice is its k-th
  package on the queue. With `RawIsImage` (a slice's bytes are the image of its
  package) follow `ContentsArrive` and that the composition implements one
  `PackageStream` end to end. `PushTakesLastNamed` needs that the static always
  holds the field named last (`FieldsIInv`); it is proved for every sequence of
  pushes, whichever fields each one lacks.
* **`VncThreads_proofs`**: type correctness, `ListIsRight`, `DestroyedIsQuiet`,
  `StopLostOnlyLate`, for any assignment of flags to those who obey, reset and
  lower them. The invariant describes the list also while the mutex
  is held (`ListExact`: exactly one thread may be created and not yet listed,
  the one its holder is adding), that only the creator and living members add
  (`MembersAdd`, `AddingOK`), that a thread not yet running has been told as well
  (`LateOK`), and what the destructor has established
  (`DestructorOK`). On it rests that the group implements `ThreadGroup`:
  `stopAll`'s list is the abstract members because the list is exact under the
  mutex, and nobody moves after the destructor because it found nobody.
* **`ControlStatus_proofs`**: type correctness, `SessionGranted`,
  `BarFollowsStatus`, `ControlIsSeen`, `StatusIsFree`, for any of the faults. That
  a session never stands behind a refusal rests on the static block holding the
  last decision (`BlockIsLast`) and on connectors copying it no earlier than
  their own (`CopiesOK`, `SessionOK`). The bar rests
  on what it *will be* when the messages already queued are handled
  (`BarToCome`), with at most one report half made (`OneHalfMade`), and the
  status on the session's reader being there to report its end
  (`StatusHasReader`, `NobodyLeft`), unless it left without a report, which
  `stale` records.
* **`VncSession_proofs`**: type correctness, `MisuseOnlyByOverlap`,
  `LiveSessionIsWhole`, the action property `TornDownWhenDue` and the
  refinement `TakesTurns`, for any number of sessions. The invariant (`Sound`)
  holds until two outsiders meet, and describes what one outsider has done so
  far: a connector (`SetUpShape`) has made the objects up to its place in
  `try_to_connect`, a tear-down (`CleanShape`) has deleted those up to its place
  in `cleanup`, and with neither at work everything is there or nothing is
  (`Whole`). `Alone` says there is only one, `ThreadOK` what a thread of the
  group still uses, `HandlerSees` what the alarm handler has found.
  `TornDownWhenDue` needs who can still tear down: from the arrival of a session
  that found nothing left (`NoLeftovers`) until its group is gone, every
  cleaner, alarm and handler is its own (`OwnOnly`). `TakesTurns` needs that the
  group is the first thing a tear-down deletes (`GroupFirst`).
* **`VncWorkers_proofs`**: type correctness, `AnsweredAsAsked`, `OneLateShot`,
  `NoDumperForgotten`, `CaptureHasItsLog`, for any number of commands. Answers
  rest on what the argument block holds for the last command handled
  (`BlocksOK`), what a worker has copied out of it (`CopiesOK`) and how many
  answers are due at its place (`AnswersOK`); captures on one Java call at a
  time (`OneInCall`), what the dumper of each step is (`DumperOK`,
  `FieldHasCapture`) and that two captures have different ones (`Apart`,
  `OwnLog`); the file is the capture's own if it could be created (`OwnFile`).
* **`VncLogcatAgent_proofs`**: type correctness, `OneThread`,
  `NothingForgotten`, for any number of commands and connections. Until a
  command misses a thread, `threadExist` speaks of the thread at work
  (`ExistIsRight`); so behind `closeCurrCommandSession`'s wait the processor is
  alone (`AloneWhenClosed`), and clears pipe and pid one after the other
  (`ClosedInOrder`) before the next run overwrites them.
* **`VncTelnetAgent_proofs`**: type correctness and `SocketHasItsReader`.
  `StartInProgress` is what a start has made so far, `OwnsSocket` that until a
  restart only the thread of the socket that telnetfd names is alive, and where
  in its exit it may be.
* **`KeyHook_proofs`**: type correctness and `ExitsAsDue`, for any limit, any
  width of the int and any way reads split the events. `StaticsAgree` ties `idx`
  and `t` to the ghost fields of the event handled last, `ClockAgrees` the time
  since the last release to the wrapped difference of two ints.

Only model-checked: all liveness, the fairness of `CommandsArrive` and of
`ChannelWhileServed` among it (temporal reasoning under fairness is beyond the
prover; their safety parts are theorems). Taken as assumptions, and evaluated by
TLC for the run's packages: what the digit and JSON conversions compute, since
they are inductions over data, which the prover cannot do either
(`LibrariesAssumption`). That `printf` and `atoi` are modelled right is
therefore a matter of `VncDataPackage` and the run; that nothing else between
encoder and processor disturbs a field is the theorem.

## 6. Not modelled, and what that leaves open

* `SIGALRM` taken inside the locks of the heap or of the log, which the handler
  uses too. `AlarmQueue` has the queue's mutex and the group's; `VncSession` lets
  the handler run between a thread's steps.
* Workers inside `VncSession`, but for those that never end (`Hanging`): the
  others are more members that end when told.
* A descriptor that the system gives out again while somebody still uses its
  number after `close`.
* Overlapping connectors in `ControlStatus`: one outsider at a time is assumed
  (`OneInside`); `VncSession` says what happens otherwise.
* Times. A time-out is a step that may come at any time after it was armed, so
  nothing depends on how long anything takes. `cleanup_thread`'s sleep is one
  such step.
* Payloads: file contents, bitmaps, key codes; JSON but for three keys.
* The codec's setters, which nothing calls; its dirty flag, which therefore
  only tells encoded from received packages; and the checksum, which is computed
  and never compared. A raw buffer of eight bytes or less leaves the decoded
  package's dirty flag uninitialised; the relay server sends none.
* Single guards that one look at the line shows: the sockets that
  `simpleFtpFile` (`:631`) and a connector that gives up (`VncCtrl.cpp:152`)
  leave open, the one connection attempt left to any upload while
  `exitScreenFlag` is up (`VncCommandProcessor.cpp:633`), a refusal dropped
  before the server's address is known (`AuthorizedDialog.java:246`), the
  `/data/screen.png` that two screenshot workers share.
* Vendored code (jsoncpp, `sys_inc`), layout, logging, XML, `PushMsgReceiver`.

More than four fifths of the repository's lines are third-party: `sqlite3.h`,
jsoncpp twice, flatbuffers and the Android system headers. No model of this
program can cover a large share of the whole; what can be covered is the
program's own 8000 lines of C++ and Java, of which the parts with state that
more than one actor touches are modelled.

## 7. Plan

Modelled first was what every session needs: framing, queue, group, session;
then what users and engineers see: control status, workers, logcat, telnet, the
key hook; then the way of a command through the codec, and the alarm. Then the
proofs: first each component's invariants, then the logcat console's, the path
of a command from end to end, `TornDownWhenDue`, and the abstract group and
sessions. Left:

1. The alarm inside `VncThreads` itself: what a member that a handler has ended
   leaves half done in `addThread`'s caller, and that the group is a
   `ThreadGroup` still.
2. An abstract worker service (a command is taken, then answered once) that
   `VncWorkers` implements while no two commands meet in one block, and an
   abstract console that the logcat and telnet agents share.
