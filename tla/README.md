# A TLA+ model of the Wii System Menu

The repository is a decompilation of the Wii System Menu: a main loop that runs
a tree of *scenes* (the screens of the menu), half a dozen threads that read
files, search the message board and talk to the network for it, and the console
libraries below.  This directory models the parts in which threads, callbacks
and frames interleave, checks them with TLC and proves the most important facts
about them with TLAPS.

Paths are relative to the root of the repository, lines are those of its source.

## 1. The system and its parts

| Component | State | Operations | Interacts with |
|---|---|---|---|
| **EGG::TaskThread** `libs/EGG/.../eggTaskThread.cpp` | slots (`mpJobList`), the message queue of pointers to slots, the end-message queue, the job in hand | `request`, `requestJam`, `findBlank`, `run`, `waitTaskEndMessage` | Task1, Task2, Task3 and the NAND thread are TaskThreads; every other part posts to them |
| **OS message queues** `libs/RVL_SDK/src/os/OSMessage.c` | ring of messages | send, jam, receive | under every thread |
| **Scene manager** `src/scene/sceneSystem` | the tree, eight commands, the reserved scene, `mbDestroySyncTask` | `calc` each frame: all scenes, one command, `detach` | scenes push commands; NAND thread returns tokens; Task1 runs the sync job |
| **Menu scenes** `src/scene/{health,limitOver,sceneMisc,board,channelSelect,calendar,settingSelect}` | a state of its own each | `prepare`, `create`, `calc`, `destroy` | fader, manager, Task1, each other by `getScene` |
| **NAND manager** `src/system/iplNandManager.cpp` | its TaskThread and token queue | `readAsync`, `readLayoutAsync`, `writeAsync`, `sendToken`, `receiveToken` | all scenes, save data |
| **ColorFader** `libs/EGG/.../eggColorFader.cpp` | four states | `fadeIn`, `fadeOut`, `calc` | scenes start it and wait for it |
| **NAND files**, wrapper, meta `src/system/iplNand*.cpp` | state and result of one file | read, write, retry | run by the NAND thread and Task3 |
| System `src/system/iplSystem.cpp` | boot flags | `init`, `run`, `err_run`, `warning_run`, `reset_run`, `backup_run` | owns the frame |
| **Save data** `src/system/iplSaveDataManager.cpp` | `mData`, `mpFile`, `mpUpdatedFile`, iplsave.bin | `flushAsync`, `isFinished`, `isResetAcceptable`, `initManagerTask` | NAND thread, Task3, keyboard, ChannelSelect, ChannelTitle, reset handler |
| **Error handler** `src/system/iplErrorHandler.cpp` | `mType` | `set` (cancels its thread), `check` | every thread; `System::run` |
| **Reset handler, TV remote** `src/system/iplResetHandler.cpp`, `iplTVRCManager.cpp` | reset state, fader; state of the remote, who has the controllers and the sound | interrupts, `reset`, `update`, `check`; `TVRCManager::update` | asks every scene, the save data, the remote and the Postman |
| **Postman, Nwc24** `src/system/iplPostmanManager.cpp`, `iplNwc24Manager.cpp`, `libs/RevoEX/src/nwc24` | message queue, `mState`, alarm; the suspension counts, the library's lock | pause, start, receive; suspend, resume, open, close | IOS, the Board, every screen that stops the receiving |
| **BS2** `src/system/iplBS2Manager.cpp`, `src/BS2/BS2Mach.c` | disc state machine, four requests | `update`, `abort`, `restart`, `startUpdate`, reservations, the drive's interrupt | Memory, ChannelEdit, ChannelTitle, SettingSelect |
| **SD worker, BoardSD, CdbBackup** `src/system/iplSDVFWorker.cpp`, `iplCdbManager.cpp`, `src/scene/board/iplBoardSD.cpp`, `iplCdbBackup.cpp` | one message, `s_sd_state`, results; who has mounted the card | mount, prepare, clean up, terminate; insert and eject | FA and CDB, the Board, Task1 |
| Other SD worker, channels and their scripts, dialogs, HOME menu, keyboard, sound, layout, browser | - | - | data and user interface |

What is hard here: jobs are posted to unprotected slots by threads of any
priority; results come back some frames later, in queues shared by scenes that
have gone since; commands hold pointers across frames; destruction must wait
for fades and for jobs that use what is destroyed; nobody looks at the result of
a request.  `PROJECT.json` lists these hazards, each at its line, with the
property that covers it or the reason why none does.

The properties that make each part correct:

* *TaskThread*: an accepted job runs once, with its own argument, in order, or
  is known to be lost; an end message means the job is done.
* *Scene manager and scenes*: a scene is created after its files are read; what
  a queued command points to still exists; one scene of each ID; one scene takes
  the input; one destroy-all at a time, which is carried out; a job does not
  outlive the scene it works on.
* *Save data*: what was seen saved is in the file whatever happens then, and is
  in memory after the next start; a File is not deleted while it is used; a reset
  waits for a write, and ends.  *Errors*: each is shown.
* *Reset*: the first request counts, nothing is cut off half-way, and the reset
  comes to its end.  *Postman*: nothing is downloaded into files that are open,
  suspensions balance, a screen that waits for the receiving to stop can rely on
  what it sees.
* *BS2*: abort and restart do not cross; whoever waits for the drive goes on.
  *SD worker*: two libraries never have the card at once, a card that stays is
  mounted, the Board gets away.

## 2. The modules

| Module | Models |
|---|---|
| `TaskThread` | `EGG::TaskThread` over an OS message queue; any number of requesters |
| `TaskExecutor` | abstract: what a TaskThread promises about each job |
| `MCTaskThread` | constants for TLC: the four priorities of the system |
| `TaskThreadProofs` | theorems about `TaskThread`; the second half needs every requester to come before the worker |
| `SceneManager` | `scene::Manager`, `scene::Base`, the NAND thread and Task1 as the scenes see them, the fader |
| `MenuScenes` | extends `SceneManager` with what the scenes do in `calc`; the specification of the whole |
| `MCMenuScenes` | the initial scenes for TLC |
| `MenuMap` | the inductive invariants of the menu: all its situations between two steps (`MenuInv`), and the jobs of Task1 with the scenes they use (`WorkersInv`) |
| `MenuMapProofs` | `calc()` of each scene and the threads keep it |
| `MenuScenesProofs` | the manager keeps it; the theorems about `SceneManager` and `MenuScenes` |
| `MenuWorkersProofs` | Task1 and the scenes keep `WorkersInv`; the theorems about the jobs |
| `SaveData` | `savedata::Manager`, `nand::File::write`, who saves, errors, the reset, power cuts |
| `MCSaveData` | the symmetry for TLC |
| `SaveDataProofs` | theorems about `SaveData` |
| `Nwc24` | the scheduler's counters in IOS and in the library, open and close, `nwc24::Manager`'s lock |
| `Postman` | extends `Nwc24` with `postman::Manager`, `receive`, and what the screens ask for |
| `MCPostman` | the two threads for TLC |
| `TVRemote` | `TVRCManager::update` |
| `ResetHandler` | composes `Postman` and `TVRemote` with `ResetHandler` and the reset fader |
| `MCResetHandler` | the two threads for TLC |
| `ResetHandlerProofs` | theorems about `Postman`, and on these about `ResetHandler` |
| `SDVFWorker` | `SDVFWorker` with FA, CDB and the card |
| `BoardCard` | composes it with the Board's start and end, `BoardSD` and `CdbBackup` |
| `BoardCardProofs` | theorems about `BoardCard` |
| `DiscManager` | `bs2::Manager` and the part of BS2 in the repository |
| `DiscManagerProofs` | theorems about `DiscManager` |

### TaskThread

A slot holds `pTask`, `pTaskArg`, `endMesg`.  A job is one call of `request` or
`requestJam`, so function, argument and message of a slot are each given as the
job they came from; a *torn* slot has two different ones.  A requester is a
program counter through the call (`Begin`, `Scan`, `ClearBlank`, `StoreTask`,
`StoreArg`, `StoreMesg`, `Send`, `Undo`), the worker one through `run()`
(`Receive`, `Enter` or `EnterEmpty`, `Finish`, `EndMesg`, `Clear`, `Wipe`): one
step per access to memory that threads share.  The OS queue functions disable
interrupts and are one step.  The console has one core and schedules by strict
priority: `CanStep` lets a thread move only when none before it wants to.  The
body of a task may block (it reads a device), so a worker inside it does not hold
the processor.

`lost`, `accepted`, `requested`, `refused` and `runs` are history variables.
A job is *lost* when a store erases it from its slot before it has started.  The
code can lose jobs, in two ways:

* the worker sets `pTask` to NULL (line 135) and clears the slot once more
  (line 143); a requester of higher priority that took the slot in between finds
  its job erased although `request` returned true;
* two requesters of different priority get the same slot from `findBlank`.

The properties say what holds in spite of it.  `NoSilentLoss`, `AtMostOnce` and
the refinement `ImplementsExecutor` hold for any mixture of priorities.
`NoTornJob`, `FifoUnlessLost` and `TokenIsBarrier` hold with all requesters before
the worker, `LossOnlyInCleanUp` with a single one (main and the NAND thread): with
a requester behind the worker (Task3 posting to the NAND thread) the first two are
false of the code.

### SceneManager and MenuScenes

The tree is the sequence in which `++it` visits it and the parent of each scene;
`getNext`, `attach`, `insert` and `destroyScene` are defined on that.  A frame is
the phases `calc` (one step per scene, `it` is the iterator), `command` (one of
the `Exec...` actions, `AttachReserved`, `AwaitReserved` or `NothingToExec`),
`detach` (one step per scene destroyed) and `end` (the fader).  The threads step
in between.  A scene is named by its ID, because the code finds scenes by ID;
`LookupsSucceed` says that this is enough.  A pointer in a command becomes
`Dangling` when its object is destroyed.  Files of a scene that are loaded one
behind the other count as one.

`nandq` holds what the NAND thread has still to do, and `tokens` its
end-message queue.  The TaskThread properties justify this simple queue for the
scenes' requests: the main thread is before the NAND thread, a job is lost only
when the slot just served is reused inside the window of two instructions, and
this module leaves that case to `TaskThread`.  In the same way `task1q` is the
queue of Task1.

A job of Task1 (`count`, `read`, `search`, and `sync`, which only reports that
it was reached) first looks its scene up.  `look` is the scene under the iterator
of `getScene`: each `LookOn` goes one scene further, and the tree may change in
between.  The task then holds a pointer (`task.scene`).  It ends with two stores
into its scene, `JobTells` and `FinishJob`, and the main thread acts on the first.
A job records whether it was posted after a request to destroy everything (`late`)
or while one of its kind was outstanding (`over`).  `ScenesOutliveJobs` names what
can go wrong: a late or second job of the Board, and any job that has told and has
one store left.  All these are reachable; a search of the Calendar is otherwise
never left without its Calendar, nor an iterator on a scene that was freed.

The Calendar's search is represented by one date that has one record: `SearchDate`
is the test of `mbTaskCanceled` with what follows it, `MeetRecord` the callback,
which looks the Calendar up again, `UseRecord` the mark.  Two months in a row are
told apart, so that a mark of the wrong one shows (`MarksAreTrue`).  The callbacks
of the Board's jobs look the Board up again as well; they find the Board that their
task holds, and are not steps here.

A Board that scrolls asks for its messages (`Reads`) and, when its animation ends,
takes the input back with the test of `stt_wait_child_dst`, but without looking at
`mbExitRequest` and without setting its event handler.  That lets a Board that is to
go take the input once more:

* ChannelSelect tells the Board to exit, asks for everything to be destroyed and
  fades out for 22 frames.  If the date changes in the middle of them,
  `stt_wait_child_dst` still starts a scroll (iplBoard.cpp:703-709, `BoardNewDay`),
  and ChannelSelect leaves, at the end of the fade, while the Board scrolls.
* At the end of the scroll the Board is in STATE_NORMAL (iplBoard.cpp:747-766,
  `BoardScrollEnds`).  The ALL at the head of the queue waits for the sync job, as
  long as Task1 is busy with a count or a read before it.
* There the user can turn to another date.  Button's handler is not set, but it is
  as soon as a letter of the new date has been opened and closed
  (iplBoard.cpp:996-998); such letters are there if the read posted before the
  request began after the date had changed.  Then everything is possible that a Board
  with the input offers: channels or Calendar, queued behind ALL with a parent that
  ALL destroys, or the settings with a second ALL, whose `reserveAllSceneDestruction`
  resets the flag that the first waits for; the second then waits for ever, or the
  command attaches to freed memory.

The run reaches all of it.  `stray` is a history variable, which no action
reads: "back" from the end of such a scroll, "asked" once that Board has done one of
these three things (`Remembers`; another scroll leaves it "back", the destruction of
the Board in time makes it "no" again).  `Strayed`, that it is "asked", is the
exception that `PointersLive`, `OneTakesInput`, `OneDestroyAll`, `ReservedArrives`
and the first part of `RequestsEnd` name; without it TLC finds each of the five
violated.  That the Board has the input, and can scroll,
while everything is about to be destroyed needs no exception.  Where a scene would be
linked with freed memory the model stops following (`AttachToFreed`).

Each action of `MenuScenes` is one call of `calc()` of a scene.  What the user
does, animations, timers, mail and the readiness of the system are
nondeterministic; `Idle` is a call that changes nothing, and `MustAct` says when
the code certainly does something.  `mode` is fixed at the start: normal, safe
mode, or NAND full (which changes what the Board does first).

### SaveData

Three threads and the power supply.  *Task3* runs `initManagerTask` in two
steps, the load (one action for each thing it may find) and the flush; between
them the NAND thread and the main thread go on.  The *NAND thread* takes Files
from a queue in order and executes `File::write` call by call.  Each call
succeeds, fails softly (the code goes on), or stops the thread: that is what
`nand_error_handling` makes of all error codes, and the wrapper's retries are
part of it, the tenth attempt included, which counts as failed even if it was
not.  The *main thread* is in one of the loops of `mode`: `System::run`,
`ChannelTitle`'s wait before a title starts, `reset_run`, the error screen.

A file or `mData` is a kind and a set of changes.  The kinds are those that the
load tells apart: absent, of length zero, wrong in header or sum, unreadable,
intact of an earlier and shorter version, intact of the present one.  The
changes are moves of channels (`Move`) and the page stored for a title that
starts (`PAGE`), which the next load takes out again.  `Off` ends the program in
any of its ways: the memory is lost, iplsave.bin stays.  `UserActs` says when the
user can do anything: the Board waits for the channels to be loaded, a channel
that is moved keeps `ChannelSelect` busy until it is saved.

`acked` is what a scene has seen saved without an error, `hurt` records that
`SafeClose` renamed a copy although `Write` had failed, and `rival` that a file
was asked for while the keyboard still had one of its own.  The two last name the
exact exceptions in `Durable` and `ResetWaits`; both are reachable.

TaskThread's loss of jobs is not carried over: the queue is that of a main thread
above the NAND thread.  Task3 posts from below it; the window this opens
is covered by the run `TaskBetween`.

### Nwc24, Postman

A call of the library that waits for IOS or for a file is two steps, `Begin...`
and `End...`; `lpc` says where each thread is in it, and other threads run in
between.  IOS counts suspensions (`ios`) and so does the library, twice
(`suspendCnt` for the callers of `NWC24SuspendScheduler`, `openCnt` for the open
library); the mutex around the counters is `counters`, `nwc24::Manager::mLock`
is `mLock`.  Any command may be refused (`Refused`): `NWC24ResumeScheduler` takes
the count down all the same, `NWC24iResumeForCloseLib` does not, and both are kept
as they are.

`ppc` is the Postman's program counter, from its creation through the start-up in
`Run()` to the loop over messages; the handler of each message is followed call by
call.  The main thread appears as what its screens ask for (`screen`): to stop
the receiving and go on (`stopped`), to stop it and wait (`waiting`, then
`holding`), or to start it.  Messages that no caller sends are not there.
`dropped` records that the last PAUSE or START found the queue full.

### TVRemote, ResetHandler

The states of the remote control keep their numbers; what matters of each is what
it takes (`forceInvalid`, `music`) and where it gives it back.  `ResetHandler` is
the composition: the interrupts, `reset()` as its test and its store, and
`update()` with one action per state.  Its main thread is ahead of the Postman, so
`update()` is one step between the Postman's.  What the scenes, the save data and
System answer to `isResetAcceptable` is one flag that changes at will; the save
data's part of it is checked in `SaveData`.  `excused` records that the reset was
accepted between two statements of `Run()`, or with the address book shown.

### SDVFWorker, BoardCard

The thread is a program counter (`wpc`) through `do_mount_sd` and the other
messages, with a step for each access to `s_sd_state`, which the callbacks of FA
store without a lock.  FA and CDB are what the worker can see of them: who has the
card (`attached`, `mounted`) and the result.  `send_work` drops a message while
the worker works, as the code does.  `BoardCard` adds the three that send to it.
`faults` counts library calls that fail, and a result of CDB that another thread
leaves in between; `hasty` and `missed` record the two races named below.

### DiscManager

`State` is the state of BS2's machine, with those that no code tells apart put
together, and `iplState` that of the manager.  `update()` is one action that
contains the tick, `splashTick` and `execTick`, because interrupts are off there;
the drive's callback is an action of its own at any other time.  `BS2Tick` is not
in the repository: it goes to any state that its callers can meet next.  `user`
is what the menu is at; `Memory::create` and the ends of ChannelTitle and
SettingSelect are loops of their own, in which no frame runs.

## 3. The runs

| Run | Instance | Properties |
|---|---|---|
| `TaskMain` | main above the NAND thread; 4 jobs, 2 slots, end queue of 1; about 60 000 states | `TypeOK`, `TokenIsBarrier`, `LossOnlyInCleanUp` |
| `TaskAbove` | main and NAND thread above Task1; 3 jobs; 23 600 states | `NoTornJob`, `FifoUnlessLost` |
| `TaskBetween` | main above, Task3 below the NAND thread; 3 jobs; 24 500 states, fair | `NoSilentLoss`, `AcceptedIsServed`, `ImplementsExecutor` |
| `Menu` | all boot scenes and modes, an optional job posted when none waits; 143 000 states, fair | `TypeOK`, `LoadedBeforeCreate`, `PointersLive`, `OneTakesInput`, `LookupsSucceed`, `ScenesOutliveJobs`, `MarksAreTrue`, `OneDestroyAll`, `ReservedArrives`, `RequestsEnd` |
| `SaveSafety` | one move and the page, three Files, two starts; 1 450 000 states | `Durable`, `MemoryKeepsSaved`, `NoDanglingFile`, `ResetWaits` |
| `SaveLiveness` | one move and the page, two Files, one start, fair; 232 000 states | `UserNotStuck`, `ResetEnds` |
| `SaveError` | the same; violated | `ErrorShown` |
| `SaveOldFile` | the same without fairness; violated | `IntactKept` |
| `Postman` | queue of 3, 2 mails, 2 refused commands, fair; 111 000 states | `NoDownloadWhileOpen`, `OneLibraryUser`, `StopHolds`, `NotLeftSuspended`, `KeepsReceiving`, `PauseHeeded` |
| `Reset` | queue of 1, 2 mails, 1 refused command, fair; 95 600 states | `RemoteAtRest`, `StartUpCutOnlyByRace`, `RequestKept`, `ResetEnds` |
| `BoardCard` | 1 failing library call, fair; 430 000 states | `OneMount`, `CardMounted`, `BoardGoes` |
| `Disc` | 1 fatal error, fair; 952 states | `StoppedInside`, `StaysOn`, `AbortArrives` |

*Bounds.*  The system gives a TaskThread at least 0x31 slots; two are enough for
a slot to be reused while another waits, for all to be taken and for one slot to
be queued twice, and three or four jobs (one of them jammed) for each of that to
meet the others.  The end queue of one message fills.  `MaxJobs` bounds the jobs
that mail and the user may add to Task1: one of them is posted when fewer than
`MaxJobs` wait.  With one, two jobs of a kind are outstanding (one runs, one
waits; the same properties hold with two), and behind them the sync job and the search are posted without a bound.
The `MenuScenes` state space is
otherwise finite without bounds: the code waits for each token before it asks
for the next scene.  In the TaskThread runs the jobs run out, so there the end
is no deadlock; in the menu runs deadlock is checked.

In `SaveSafety` three Files are all that can exist at a time: that of
`initManagerTask`, that of the keyboard, and either its own successor or that of
a scene, because the user cannot act while the settings load, and one scene at a
time waits for its file.  Two different changes are enough for one to be saved
and the other not.  `MaxBoots` is two: the next start reads what the first has
left, in every intermediate state.  A channel is moved once (moves are not taken
back), so the moves are finite; titles and the keyboard save without limit.
Liveness uses two Files: there the third write is only held back until one of
the two is deleted.  At the end the console is off for good, which is no
deadlock.  Files and moves are interchangeable, and symmetry is used in
`SaveSafety` only.

The Postman's queue has 32 entries; with three, the PAUSE of a screen that
waits can have a START and a RECEIVE before it, and the queue still overflows.
Two refused commands are enough for a suspension and the matching resumption to
fail in either order, and one of the library's own.  In `Reset` the queue
matters only as what starts a reception.  In `BoardCard` one failing call shows
each exception alone; cards come and go without limit.  `Disc` has no other bound
than its one fatal error, after which nothing works.

*Fairness.*  `TaskThread`: the worker, whoever polls the end queue, and a call
that has begun.  The threads before them all wait for something each frame, so
they get the processor.  `MenuScenes`: the main loop and the threads go on (weak);
a fade ends, the Board's scrolling ends, the SD worker stops and the animations
before `ChannelsLeave` and `SelectFadesOut` end although `Idle` steps come between (strong: each is a
frame count or a worker that runs out, tested again in every frame).  `SaveData`: Task3, the NAND thread, the polls of
the main loop and the loop of `ChannelTitle` go on (weak); a reset that can be
accepted again and again is (strong), because the reset handler is asked at the
end of each frame, before a scene can follow its finished file with another.
`Postman`: the thread runs whenever the main
thread waits for a frame, a waiting screen looks in every frame, and what the main
thread began with the library it ends (all weak).  `Reset`: `update()`, the fader,
the remote control and the Postman go on (weak); a reset that can be accepted
again and again is (strong), since `update()` asks in every frame.  `BoardCard`:
the worker, `BoardSD::update` and the steps of a Board that leaves (weak).
`Disc`: frames and the loops (weak), and a machine that was told to stop stops.
No fairness is assumed of the user: every property holds if nobody touches the
remote.

*What the runs show.*  Besides the positive results, each property is known to
fail for a plausible fault: the modules hold those faults, as definitions whose
comment starts with "Mutant"; no specification uses them.  For example, if the
token were sent before the files are requested, a scene would be created without
its files; if `SettingSelect` did not look for a scene in preparation, two scenes
would take the input; if the Calendar did not wait for the search
of the last month, that search would mark dates of the next.  `RequestsEnd` depends on the warning of a full NAND
memory lasting as long as the fade-in: without it `fadeOut` is ignored, the
screen never becomes black and the menu stays.

In `SaveData`, `Durable` fails if `File::write` opens the file itself instead of a
copy; `MemoryKeepsSaved` if an unreadable file is deleted without setting the
defaults; `NoDanglingFile` if `isFinished` does not clear `mpFile`.

In `Nwc24` the guard `OthersSuspension` is what the two counts are for: without
it the Postman's resumption lets IOS download into files that the main thread has
open (`NoDownloadWhileOpen`), and if it asked only whether the library is open,
suspensions would pile up (`NotLeftSuspended`).  `StopHolds` depends on `mState`
being stored after the scheduler was suspended.  `ResetEnds` fails if the remote
control is not told of the reset: the user's buttons could hold it up for ever.
`OneMount` fails if the worker does not detach FA before CDB mounts; `BoardGoes` if
the Board sends the worker its end without waiting for it.  `StoppedInside` and
`StaysOn` fail if `abort` leaves a waiting restart, or `restart` an abort.

*Where the code differs from what it says.*  Two runs end with a violation.

* `SaveError`: `IPLErrorDisplay` is documented as "Display the error screen"
  (`include/system/iplSystem.h:49`).  If the NAND thread fails while
  `ChannelTitle` waits for the save file in its own loop
  (`iplChannelTitle.cpp:578`), nobody ever looks at `mType`: the file is never
  finished, the loop never ends and the screen stays black.
* `SaveOldFile`: the sum of a loaded file is computed over its own length but
  compared at the place where the present version has it
  (`iplSaveDataManager.cpp:244-253`, "Invalid MD5 sum, create new").  An intact
  file of a shorter earlier version is replaced by the defaults, and
  `updateVersion` is never reached for it.

The exceptions in the properties are behaviour of the code as well: a soft error of
`Write` replaces the file by an incomplete one (`Durable`), the poll of the
keyboard's file lets a reset pass while another file is written (`ResetWaits`), and
a file queued behind one that stopped the NAND thread holds up a reset for ever
(`ResetEnds`).  In the parts added later:

* a screen may see STATE_STOP_RUN of an earlier PAUSE while its own and a START
  are still queued, and go on to launch a title while mail is received
  (`StopHolds`);
* a PAUSE or START that finds the queue full is lost (`dropped`);
* `reset()` turns a power-off that comes between its test and its store into a
  restart (`RequestKept`);
* a reset that comes between the first two statements of the Postman's `Run()`
  cuts off its start-up (`StartUpCutOnlyByRace`);
* a card put in just before the worker stores the outcome of `FAMount` is not
  looked at (`missed` in `CardMounted`); and a backup that begins while the worker
  works does not have the card unmounted, so that both libraries may have it
  (`hasty` in `OneMount`);
* if the disc machine fails while a scene waits for it to stop, the scene's loop
  never ends (`AbortArrives`).

## 4. What is proved

`TaskThreadProofs` proves for every number of slots, every capacity of the end
queue, every set of jobs and requesters and all priorities:

* `TypeCorrect`: `Spec => []TypeOK`, including that neither queue overruns.
* `NeverTwice`: `Spec => []AtMostOnce` (the runs check it as part of
  `ImplementsExecutor`, where a job that has run is never started again).
* `NothingForgotten`: `Spec => []NoSilentLoss`.
* `ThreadImplementsExecutor`: `Spec => ImplementsExecutor`, the refinement of
  `TaskExecutor`.

Assumptions are those of `TaskThread`: at least one slot and one entry of the
end queue, `NULL` is not a job, the worker is no requester, priorities are
distinct numbers.  The proofs do not use the priorities: these facts hold for
any interleaving.

`AtMostOnce` is not inductive: a step could execute a job a second time if it were
still in a slot, in the hands of a requester that has yet to store it, or in two
slots.  `OnceInv` adds that: a job not stored yet has not run and is in no slot and
with one requester only; a job is in one slot at most; and a job that has run
is in a slot only while the worker is between `Enter` and `Clear` of that slot.
The last part is what the order "call, then clear, then receive" in `run()`
provides.  `AccountInv` accounts for every slot that is in use: a job in it is
still with its requester, its pointer is queued, or the worker has it in hand;
with it and `OnceInv` an accepted job cannot disappear.  Both rest on `TypeInv`.
`RefineInv` adds for the refinement that a refused job is in no slot and with no
call, and that a lost one is with no call that could still store it: neither can
be started any more.  `RefineStep` maps each action to the step of the executor it
is.
Each preservation proof has one step per action.

The second half of `TaskThreadProofs` assumes `Ahead` besides, that every requester
comes before the worker in priority, as the threads that post to the NAND thread and to Task1 do
in runs `TaskMain` and `TaskAbove`; their number is free:

* `NoJobIsTorn`: `Spec => []NoTornJob`; `JobsStartInOrder`: `[]FifoUnlessLost`;
  `TokensAreBarriers`: `[]TokenIsBarrier`.
* `OneRequesterLosesInCleanUp`: `Spec => LossOnlyInCleanUp`, for a single
  requester.

What the priorities give is `Scheduled`: the worker finds every call complete,
and a call finds those before it complete.  `OwnInv` follows: two calls may be given
the same slot, but not once a job is stored in it.  So the three fields of a slot
belong together when no call is in progress (`WholeInv`), and the slot of the job in
hand is left alone until its end message is sent (`ServedInv`).  `FifoInv` says of
a thread that has lost nothing that a slot is queued once, for an accepted job that
has not started, and in which order; a store into a queued slot would lose that
job.  That the job before the one the worker enters has been started uses
`NoSilentLoss`: it is neither queued nor lost.

`ResetHandlerProofs`, about `Postman`, for every length of the queue, any amount of
mail and any number of refused commands:

* `NoDownload`: `Spec => []NoDownloadWhileOpen`; `OneUser`: `[]OneLibraryUser`;
  `StopIsReal`: `[]StopHolds`; `GivenBack`: `[]NotLeftSuspended`;
  `ReceivingGoesOn`: `KeepsReceiving`; and `TypeCorrect`.

`LibInv` says who holds which lock at each place in the library, that `openCnt`
counts the library's own suspension exactly, and that IOS has at least as many
suspensions as the open library needs; `NoDownloadWhileOpen` alone is not
inductive, because a resumption takes down whatever is there.  `StateInv` ties
`mState` to the Postman's place; `SuspendInv`, for no refused command, says that
`suspendCnt` is one exactly where the Postman holds a suspension; `StopInv` says
what may be in the queue behind the PAUSE of a waiting screen.  Assumptions: two
threads, a queue with at least one entry.

It then extends this to the composition: `RemoteLeftAtRest`
(`[]RemoteAtRest`), `StartUpKept` (`[]StartUpCutOnlyByRace`), `FirstRequestKept`
(`RequestKept`), `ResetTypeCorrect`.  `TVInv` says what each state of the remote
control has taken; `AcceptedInv` that once the reset is accepted the remote knows
of it and rests; `StartUpInv` that the Postman then enters no start-up but through
the race.  The type invariant of `Postman` is used as it is: every step of the
composition is a step of `Postman` or leaves its variables alone.

`BoardCardProofs`, for any number of faults: `OneHasTheCard` (`[]OneMount`),
`ThereIsAWorker` (`[]NoUseAfterEnd`: while the Board may ask, there is a thread;
in no run, since the type of `alive` already shows it) and `BoardTypeCorrect`.
`WorkerInv` is the discipline of the one message; `DriveInv` says when FA has the
drive; `EndInv` that the thread ends only when the Board leaves.  `CardInv`, for
no fault and no hasty backup, is the protocol between the three: CDB has the card,
or is about to, only in certain phases of the Board and the backup (`Phased`), and
in these the worker is not asked to look at it (`Safe`).

`DiscManagerProofs`, for any number of fatal errors: `DriveStoppedInside`
(`[]StoppedInside`), `DriveStaysOn` (`StaysOn`), `DiscTypeCorrect`.  `SaidStopped`
is what STATE_8 means, `NoRestart` that no restart is left over when the machine
is to stop, `MenuRuns` that no abort is when it is to go on.

`SaveDataProofs`, for any number of Files, moves and starts:

* `SavedStaysInFile`: `Spec => []Durable`; `SavedStaysInMemory`:
  `[]MemoryKeepsSaved`; `NoFileDangles`: `[]NoDanglingFile`;
  `ResetWaitsForWrites`: `ResetWaits`; and `SaveTypeCorrect`.

`ControlInv` says what may be outstanding when; the part that matters is that a
load of `initManagerTask` finds the NAND thread's queue empty, because the job of
ChannelEdit is behind all writes and ends before ChannelEdit is left.
`PointerInv` gives each File one holder, `QueueInv` has each unfinished File in the
queue once and `mpFile` behind all others; `WaitInv` derives from it that waiting
for `mpFile` is waiting for all but the named exception.  `Durable` needs to
know what a scene has yet to see: `Secured` is what was seen and what is in
Files that were written without an error.  It is in the file (`DiskInv`), in memory
(`MemoryInv`) and in every write that is still queued, which has all of the writes
before it (`OrderInv`); `CopyInv` says what the copy in /tmp/sys is at each place of
`File::write`, and `PageInv` that the page, the one change that is taken back, is in
a write only when a title starts.  `SaveAssumption` keeps the page, the job of
ChannelEdit and `NULL` apart from the rest.

`MenuScenesProofs`, for any initial scenes, any number of jobs of Task1 and
everything the player may do:

* `CreatedWhenLoaded`: `Spec => LoadedBeforeCreate`.

`isReady` takes whatever token comes, and skHealth and LimitOver, which attach
without waiting for theirs, leave it behind; so the property alone is not
inductive: the token found need not be that of the reserved scene.  `LoadInv` says
that what the NAND thread has left to do, and each token, is of the reserved scene
or of one of those two; that a load is of the reserved scene only; and that a token
is sent once, behind the loads of its scene.  Then a token that matches means that
all is read, provided that neither of the two is reserved while an old token of its
own may be there.  That is `CommandInv`: they are only ever the first scene, at the
boot, since no later command names them.  `SceneSteps` shows it of each call of
`calc()`.  `MenuAssumption` only says that the initial scenes are scenes.

* `MapHolds`: `Spec => [](Strayed \/ (MenuInv /\ StrayInv))`, and from it
  `CommandsPointersLive` (`[]PointersLive`), `InputIsTakenOnce` (`[]OneTakesInput`),
  `DestroyedOnceAtATime` (`[]OneDestroyAll`), `ScenesFindEachOther`
  (`[](Strayed \/ LookupsSucceed)`) and `MenuTypeCorrect` (`[](Strayed \/ TypeOK)`: no
  command is ever dropped by a full queue).  The first three of these properties have
  the exception in them; the run shows the last two without it, the proof until then.

None of these is inductive, nor are they together: whether a command's pointer
stays good depends on which scenes may still ask for their destruction, and that on
what each is doing, on what the Board and its children have told each other, on the
fader and on how far the frame has got.  `MenuMap` therefore says where the menu can
be at all.  A *place* is a tree, the commands that are queued and the one that is
executed, with what they tell of the stages (`AtStart`, ..., `AtNothing`: 12 kinds,
some with several steps on the way from one tree to the next).  What holds in every
place are conjuncts of their own: the parent of a scene is always the same
(`TreeInv`); it has a stage while its object exists (`StageInv`); who may ask to be
destroyed has done so exactly when it is done, and ChannelSelect goes before the
Board's turn comes again (`DoomInv`); who may ask for everything to be destroyed, at
what stage, and that the Board does not when `requestExit` has told it to stay
(`AskInv`, `BoardInv`); that a Board with the input that was told to exit has it from
a scroll (`StrayInv`, which makes its next request the one after which nothing more
is said: `StrayedStays`, `StrayNext`); a scene that is to replace another may join
once that one is gone (`CreatedInv`).  TLC found `MenuInv` true, until the Board
strays, in the reachable states of run `Menu`
with all initial scenes, and the step from every state of the map with few jobs, not
only the reachable ones, to keep it.  (It is in no run: it is a description of the
menu, and the runs have the properties that follow.)

The proof has one lemma per call of a scene, in `MenuMapProofs`: the place is known
from the tree and the stage (`BoardScenes`, `SettingScenes`, ...), what the call
changes is within it or leads to the next, and the other conjuncts are kept by all
calls alike (`CallKeeps`).  For the manager, in `MenuScenesProofs`, the trees are
sequences: where `AttachReserved` inserts (`JoinsAt`, `Growth`), which subtree
`Detach` cuts out and which commands its scenes leave in the queue (`LastBelowIs`,
`Cuts`, `CommandsOf`), that no pointer in the command being executed is to one
of them.  `BootAssumption` is what `RootScene::proc_boot_scene` can choose: the first
scene is a child of the root.

`MenuWorkersProofs`, under the same assumptions:

* `WorkersHold`: `Spec => [](Strayed \/ WorkersInv)`, and from it `JobsOutlived`
  (`[](Strayed \/ ScenesOutliveJobs)`) and `MarksStayTrue`
  (`[](Strayed \/ MarksAreTrue)`).  Both rest on the map, thus the exception; the run
  shows both properties without it.

`ScenesOutliveJobs` speaks only of the moment in which Task1 holds a pointer to a
scene that is gone.  That this does not happen is decided long before, when the job
is posted and when the scene asks to be destroyed, so `WorkersInv` follows a job
through the queue.  A job is *kept* (`Kept`) when its scene is to outlive it: a
search, or a job of the Board that is neither late nor over another.  `KeptInv`: a
kept job is the only one of its kind, its scene waits for it by the flag that
only this job clears, and a scene that waits is in the tree and has not asked to be
destroyed.  What destroys scenes without asking them is the request for everything,
which waits for the sync job: `SyncInv` says that nothing is behind that job in the
queue but late jobs of the Board, that a search, which goes to the front, cannot be
overtaken by it, and that once it has been done no kept job is left; the request is
pending until it has been carried out, and `OneDestroyAll` of the map says that it is
the only one, so that the flag is that of this request.  `TaskInv` keeps
the parts of the task in step with its kind, and `SearchInv` ties the month that a
search looks at, the request to cut it short and the marks to the month and the
stage of the Calendar: a cancelled search is one that the Calendar is waiting for,
or that has already told it, in which case the flag is gone before another begins.

The proof goes along the same lines as that of the map: `MainWork` for the steps
that post jobs or none (`Posts`), `RequestWork` for the requests, `SearchWork` and
`CalendarScrolledWork` for the search, `LeaveKept` for the scenes that are destroyed
one subtree at a time, `EverythingWork` for the destruction of all, and one lemma per
step of Task1.  TLC found `WorkersInv` true in the reachable states of run `Menu` with
all initial scenes, until the Board strays.

Only model-checked: the liveness properties of the runs (`AcceptedIsServed`,
`ReservedArrives`, `RequestsEnd`, `UserNotStuck`, `PauseHeeded`, `ResetEnds`,
`CardMounted`, `BoardGoes`, `AbortArrives`).  Liveness under fairness is outside of
what TLAPS proves here.

## 5. What is not modelled

Section 1 lists the parts and `PROJECT.json` the reason for each: libraries of
the console, layouts, sound, input and file formats are data or external.  Most of
the repository is of this kind: console SDK, codecs, compression, character
encodings, the Bluetooth stack, the C runtime, the channels' script machine and
tables.  They are sequential data processing, and the share of the source that the
models cover is therefore small although the menu's own threads are covered
to a large part.

Of the Board, focus mode, letters and the deletion of mail are left out; of the
channels everything but their coming and going, and the mail that comes in while the
Board has the input; the scenes of the SD card menu, the
channel title and the letter editor are not there yet.  The loss of a job in a
TaskThread is not carried over into the scenes.  Task1 walks the tree scene by
scene; a link of the tree that is half stored is not a state of the model.

`Postman`: what `receive` does with a letter, the friend list, registration
(a developer scene asks for it) and the tasks that are downloaded.  `ResetHandler`:
the callbacks that `err_run` installs, and the controllers' disconnection.
`BoardCard`: the write-protect flag, formatting (never asked for), the records of
the database.  `DiscManager`: the steps of `BS2Tick`, which is not in the repository,
the banner, the loading of titles, and the state of a disc that is locked
(`BS2_STT_START_LOCKED_DISK`).  `NandSDWorker`, which copies channels to the
card, is a worker of the same shape with file formats behind each message.

## 6. Plan

Done: `TaskThread`, the scenes, the save data, the Postman, the reset handler, the
SD worker with the backup, the disc manager.  Left, in this order:

1. ChannelTitle, the letter scenes and the SD menu in `MenuScenes`; occupancy of
   the three heaps.
2. `NandSDWorker` with ChannelEdit, which polls it, and the card going away.
3. An abstract register that `SaveData` implements while no write has failed
   softly, and the reading side of `nand::File`.
4. Boot gating in `System`.

Theorems next: every invariant and action property that a passing run checks is a
theorem.  What comes next goes with the models above: the refinement of the
register, and the loss of a job in a TaskThread taken over into the queues `nandq`
and `task1q`.
