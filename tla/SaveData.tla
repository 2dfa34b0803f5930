------------------------------ MODULE SaveData ------------------------------
(***************************************************************************)
(* The settings the menu keeps in iplsave.bin: savedata::Manager           *)
(* (src/src/system/iplSaveDataManager.cpp), nand::File::write              *)
(* (src/src/system/iplNand.cpp) on the NAND thread, the scenes that save,  *)
(* the reset handler and the error handler where they touch them, and      *)
(* power cuts and restarts.                                                *)
(*                                                                         *)
(* Three threads: the main thread (scenes, error check, reset), Task3      *)
(* (initManagerTask) and the NAND thread (one job at a time, in order).  A *)
(* NAND call may succeed, fail in a way the code goes on after ("soft":    *)
(* memory full, ECC), or fail in a way that stops the calling thread       *)
(* (IPLErrorDisplay cancels every thread but the main one).  The tenth     *)
(* attempt of NAND_WRAPPER belongs to the last kind even if it succeeded,  *)
(* so a call that stops its thread may have had its effect.                *)
(*                                                                         *)
(* A definition whose comment starts with "Mutant" is a faulty variant of  *)
(* the one that follows it, which no specification uses.                   *)
(***************************************************************************)
EXTENDS Naturals, Sequences, Functions

CONSTANTS Move,     \* the changes of the channel layout that can be made
          PAGE,     \* the change made when a title starts: prevPage
          File,     \* nand::File objects, as many as may exist at a time
          EDIT,     \* a job of the NAND thread: the files of ChannelEdit
          NULL,
          MaxBoots  \* bound: how often the console is switched on

ASSUME SaveAssumption ==
    /\ PAGE \notin Move
    /\ NULL \notin File
    /\ EDIT \notin File
    /\ MaxBoots \in Nat \ {0}

Change == Move \union {PAGE}

\* The contents of a file, or of mData.  "new" is a save file of the present
\* version with the right sum, "old" an equally intact one of an earlier and
\* shorter version, "torn" has neither, "bad" cannot be read (ECC).  val is
\* what the file says of the channels and the page.
Content == [kind : {"absent", "blank", "torn", "bad", "old", "new"},
            val  : SUBSET Change]
Plain(k) == [kind |-> k, val |-> {}]
Whole(v) == [kind |-> "new", val |-> v]

VARIABLES
    disk,          \* iplsave.bin
    tmp,           \* the copy that NANDPrivateSafeOpen makes in /tmp/sys
    hurt,          \* history: a partly written copy has replaced the file
    boots,         \* how often the console was switched on
    mode,          \* the loop the main thread is in
    mData,         \* Manager::mData
    mpFile,        \* Manager::mpFile
    mpUpdatedFile, \* Manager::mpUpdatedFile
    bNeedFlush,    \* initManagerTask: its local variable
    init,          \* Task3 with initManagerTask: posted, loaded, done, dead
    fstate,        \* of each File: mbDoneTask, mbFatalError
    fdata,         \*   its copy of the data
    failed,        \*   a soft error occurred
    rival,         \*   history: requested while the keyboard's was unpolled
    nandq,         \* jobs of the NAND thread, the first is being executed
    npc,           \* where in File::write it is
    mType,         \* ErrorHandler::mType is set
    keyFile,       \* keyboard::Manager::mpSaveFile
    selFile,       \* ChannelSelect::mpSaveDataFile
    titleFile,     \* ChannelTitle::mpSaveDataFile
    edit,          \* the ChannelEdit scene: closed, loading, open
    acked          \* history: changes a scene has seen saved

store  == <<disk, tmp, hurt>>
task3  == <<init, bNeedFlush, mpUpdatedFile>>
nand   == <<nandq, npc>>
file   == <<fstate, fdata, failed, rival>>
scenes == <<keyFile, selFile, titleFile, edit>>
vars   == <<disk, tmp, hurt, boots, mode, mData, mpFile, mpUpdatedFile,
            bNeedFlush, init, fstate, fdata, failed, rival, nandq, npc, mType,
            keyFile, selFile, titleFile, edit, acked>>

TypeOK ==
    /\ disk \in Content /\ tmp \in Content /\ mData \in Content
    /\ hurt \in BOOLEAN /\ mType \in BOOLEAN /\ bNeedFlush \in BOOLEAN
    /\ boots \in 1..MaxBoots
    /\ mode \in {"run", "launch", "reset", "fading", "error", "off"}
    /\ {mpFile, mpUpdatedFile, keyFile, selFile, titleFile}
         \subseteq File \union {NULL}
    /\ init \in {"posted", "loaded", "done", "dead"}
    /\ fstate \in [File -> {"free", "queued", "done", "fatal"}]
    /\ fdata \in [File -> SUBSET Change]
    /\ failed \in [File -> BOOLEAN] /\ rival \in [File -> BOOLEAN]
    /\ nandq \in Seq(File \union {EDIT})
    /\ npc # "idle" => nandq # <<>>
    /\ npc \in {"idle", "type", "create", "open", "write", "close", "dead"}
    /\ edit \in {"closed", "loading", "open"}
    /\ acked \subseteq Change

-----------------------------------------------------------------------------
(* savedata::Manager and File.                                             *)

\* flushAsync: with interrupts disabled, compute the sum and hand a copy of
\* mData to a new File, which is posted to the NAND thread.
Post(f, data) ==
    /\ fstate[f] = "free"
    /\ fdata' = [fdata EXCEPT ![f] = data.val]
    /\ failed' = [failed EXCEPT ![f] = FALSE]
    /\ rival' = [rival EXCEPT ![f] = keyFile # NULL]
    /\ nandq' = Append(nandq, f)

\* Mutant: flushAsync does not store mpFile.
flushAsyncForgets(f, data) ==
    /\ Post(f, data)
    /\ fstate' = [fstate EXCEPT ![f] = "queued"]
    /\ UNCHANGED mpFile

flushAsync(f, data) ==
    /\ Post(f, data)
    /\ fstate' = [fstate EXCEPT ![f] = "queued"]
    /\ mpFile' = f

\* Mutant: isFinished forgets to clear mpFile.
isFinishedKeeps(f) == mpFile' = mpFile

\* isFinished: also forgets mpFile, whichever file was asked about.
isFinished(f) ==
    mpFile' = IF fstate[f] \in {"done", "fatal"} THEN NULL ELSE mpFile

\* Mutant: isResetAcceptable waits for the boot file too, which nobody polls
\* and a later one replaces.
isResetAcceptableNever == mpFile = NULL

isResetAcceptable == mpFile # NULL => fstate[mpFile] \in {"done", "fatal"}

Deleted(f) ==
    /\ fstate' = [fstate EXCEPT ![f] = "free"]
    /\ fdata' = [fdata EXCEPT ![f] = {}]
    /\ failed' = [failed EXCEPT ![f] = FALSE]
    /\ rival' = [rival EXCEPT ![f] = FALSE]

Saved(f) == IF failed[f] THEN {} ELSE fdata[f]

\* The program ends and loses its memory, and /tmp is emptied; the next start
\* sets every variable but mData, which is not initialised.
Off ==
    /\ mode' = "off"
    /\ mData' = Plain("torn") /\ tmp' = Plain("absent")
    /\ mpFile' = NULL /\ mpUpdatedFile' = NULL
    /\ bNeedFlush' = FALSE /\ init' = "posted"
    /\ fstate' = [f \in File |-> "free"]
    /\ fdata' = [f \in File |-> {}]
    /\ failed' = [f \in File |-> FALSE]
    /\ rival' = [f \in File |-> FALSE]
    /\ nandq' = <<>> /\ npc' = "idle" /\ mType' = FALSE
    /\ keyFile' = NULL /\ selFile' = NULL /\ titleFile' = NULL
    /\ edit' = "closed"

-----------------------------------------------------------------------------
(* initManagerTask, on Task3.                                              *)

Task3Runs == mode \notin {"error", "off"}

\* A second call (refreshAsync) does not load if the first one has written.
SkipLoad ==
    /\ init = "posted" /\ mpUpdatedFile # NULL
    /\ init' = "loaded" /\ bNeedFlush' = FALSE
    /\ UNCHANGED <<disk, mData, acked>>

\* No file, a blank one, or one whose header or sum is not as expected.  The
\* sum of an older and shorter file is looked for where the present version
\* has it, in bytes that were not read from the file.
CreateNew ==
    /\ init = "posted" /\ mpUpdatedFile = NULL
    /\ disk.kind \in {"absent", "blank", "torn", "old"}
    /\ mData' = Whole({}) /\ bNeedFlush' = TRUE
    /\ init' = "loaded"
    /\ UNCHANGED <<disk, acked>>

\* Mutant: ReplaceBroken goes on with what Read left in mData.
ReplaceBrokenKeeps ==
    /\ init = "posted" /\ mpUpdatedFile = NULL
    /\ disk.kind = "bad"
    /\ disk' \in {disk, Plain("absent")}
    /\ mData' = Plain("torn") /\ bNeedFlush' = TRUE
    /\ init' = "loaded"
    /\ UNCHANGED acked

\* Reading fails with AUTHENTICATION or ECC_CRIT: the file is deleted, which
\* may fail in turn.
ReplaceBroken ==
    /\ init = "posted" /\ mpUpdatedFile = NULL
    /\ disk.kind = "bad"
    /\ disk' \in {disk, Plain("absent")}
    /\ mData' = Whole({}) /\ bNeedFlush' = TRUE
    /\ init' = "loaded"
    /\ UNCHANGED acked

\* The page is taken over once and cleared in the file.
LoadIntact ==
    /\ init = "posted" /\ mpUpdatedFile = NULL
    /\ disk.kind = "new"
    /\ mData' = Whole(disk.val \ {PAGE})
    /\ bNeedFlush' = (PAGE \in disk.val)
    /\ init' = "loaded"
    /\ acked' = acked \ {PAGE}
    /\ UNCHANGED disk

\* Any other result shows the error screen and cancels Task3.
LoadFails ==
    /\ init = "posted" /\ mpUpdatedFile = NULL
    /\ disk' \in {disk} \union
                 (IF disk.kind = "bad" THEN {Plain("absent")} ELSE {})
    /\ mData' = Plain("torn")
    /\ init' = "dead"
    /\ UNCHANGED <<bNeedFlush, acked>>

Load ==
    /\ Task3Runs
    /\ SkipLoad \/ CreateNew \/ ReplaceBroken \/ LoadIntact \/ LoadFails
    /\ mType' = (mType \/ init' = "dead")
    /\ UNCHANGED <<tmp, hurt, boots, mode, mpFile, mpUpdatedFile, file, nand,
                   scenes>>

\* updateChanInfos compares the list with the titles installed; if it changed
\* or the load asks for it the data are written, and mpFile is cleared again.
InitFlush ==
    /\ Task3Runs /\ init = "loaded"
    /\ \E f \in File :
          /\ Post(f, mData)
          /\ fstate' = [g \in File |-> CASE g = f -> "queued"
                                         [] g = mpUpdatedFile -> "free"
                                         [] OTHER -> fstate[g]]
          /\ mpUpdatedFile' = f
    /\ mpFile' = NULL
    /\ init' = "done"
    /\ UNCHANGED <<store, boots, mode, mData, bNeedFlush, npc, mType, scenes,
                   acked>>

InitNoFlush ==
    /\ Task3Runs /\ init = "loaded" /\ ~bNeedFlush
    /\ init' = "done"
    /\ UNCHANGED <<store, boots, mode, mData, bNeedFlush, mpFile,
                   mpUpdatedFile, nand, file, mType, scenes, acked>>

\* ES_ListTitlesOnCard or a title's view fails.
InitFails ==
    /\ Task3Runs /\ init = "loaded"
    /\ init' = "dead" /\ mType' = TRUE
    /\ UNCHANGED <<store, boots, mode, mData, bNeedFlush, mpFile,
                   mpUpdatedFile, nand, file, scenes, acked>>

Task3Step == Load \/ InitFlush \/ InitNoFlush \/ InitFails

-----------------------------------------------------------------------------
(* File::write, on the NAND thread.                                        *)

NandRuns == mode \notin {"error", "off"} /\ npc # "dead" /\ nandq # <<>>
current  == Head(nandq)

Goes(to) == npc' = to /\ UNCHANGED <<nandq, fstate, mType, edit>>

\* nand_error_handling, the default case: OSCancelThread of itself.
Dies ==
    /\ npc' = "dead" /\ mType' = TRUE
    /\ fstate' = IF current = EDIT THEN fstate
                 ELSE [fstate EXCEPT ![current] = "fatal"]
    /\ UNCHANGED <<nandq, edit>>

Done ==
    /\ npc' = "idle" /\ nandq' = Tail(nandq)
    /\ fstate' = [fstate EXCEPT ![current] = "done"]
    /\ UNCHANGED <<mType, edit>>

FailsSoftly == failed' = [failed EXCEPT ![current] = TRUE]

\* Other jobs of the thread: reading the files of ChannelEdit.
ServeEdit ==
    /\ npc = "idle" /\ current = EDIT
    /\ UNCHANGED <<store, failed>>
    /\ \/ /\ edit' = "open" /\ nandq' = Tail(nandq)
          /\ UNCHANGED <<npc, fstate, mType>>
       \/ Dies

StartWrite ==
    /\ npc = "idle" /\ current \in File
    /\ Goes("type")
    /\ UNCHANGED <<store, failed>>

\* PrivateGetType; soft errors are ignored.
GetType ==
    /\ npc = "type"
    /\ UNCHANGED store
    /\ \/ disk.kind # "absent" /\ Goes("open") /\ UNCHANGED failed
       \/ disk.kind = "absent" /\ Goes("create") /\ UNCHANGED failed
       \/ FailsSoftly /\ Goes("open")
       \/ Dies /\ UNCHANGED failed

\* Mutant: a soft error of Create leaves File::write without mbDoneTask.
CreateLeaves ==
    /\ npc = "create"
    /\ UNCHANGED <<tmp, hurt>>
    /\ \/ disk' = Plain("blank") /\ Goes("open") /\ UNCHANGED failed
       \/ /\ FailsSoftly /\ npc' = "idle" /\ nandq' = Tail(nandq)
          /\ UNCHANGED <<disk, fstate, mType, edit>>
       \/ disk' \in {disk, Plain("blank")} /\ Dies /\ UNCHANGED failed

\* PrivateCreate: a soft error ends the write.
Create ==
    /\ npc = "create"
    /\ UNCHANGED <<tmp, hurt>>
    /\ \/ disk' = Plain("blank") /\ Goes("open") /\ UNCHANGED failed
       \/ FailsSoftly /\ Done /\ UNCHANGED disk
       \/ disk' \in {disk, Plain("blank")} /\ Dies /\ UNCHANGED failed

\* PrivateSafeOpen copies the file; its wrapper makes every error a fatal one.
SafeOpen ==
    /\ npc = "open"
    /\ UNCHANGED <<disk, hurt, failed>>
    /\ \/ disk.kind \notin {"absent", "bad"} /\ tmp' = disk /\ Goes("write")
       \/ Dies /\ UNCHANGED tmp

\* Mutant: File::write opens the file itself, with wrapper::PrivateOpen.
WriteInPlace ==
    /\ npc = "write"
    /\ \/ disk' = Plain("torn") /\ tmp' = Whole(fdata[current])
             /\ Goes("close")
       \/ disk' = Plain("torn") /\ Dies /\ UNCHANGED tmp
    /\ UNCHANGED <<hurt, failed>>

\* After a soft error of Write the copy is closed all the same.
Write ==
    /\ npc = "write"
    /\ UNCHANGED <<disk, hurt>>
    /\ \/ tmp' = Whole(fdata[current]) /\ Goes("close") /\ UNCHANGED failed
       \/ tmp' \in {tmp, Plain("torn")} /\ FailsSoftly /\ Goes("close")
       \/ tmp' \in {tmp, Plain("torn")} /\ Dies /\ UNCHANGED failed

Renamed ==
    /\ disk' = tmp /\ tmp' = Plain("absent")
    /\ hurt' = (hurt \/ (failed[current] /\ tmp.kind = "torn"))

\* SafeClose renames the copy over the file.
SafeClose ==
    /\ npc = "close"
    /\ UNCHANGED failed
    /\ \/ Renamed /\ Done
       \/ Renamed /\ Dies
       \/ UNCHANGED store /\ Dies

NandStep ==
    /\ NandRuns
    /\ ServeEdit \/ StartWrite \/ GetType \/ Create \/ SafeOpen \/ Write
         \/ SafeClose
    /\ UNCHANGED <<boots, mode, mData, mpFile, task3, fdata, rival, keyFile,
                   selFile, titleFile, acked>>

-----------------------------------------------------------------------------
(* The main thread: the scenes that save.                                  *)

ScenesRun == mode \in {"run", "reset", "fading"}

\* The Board and with it everything the user can do waits for the channels to
\* be loaded, which Task3 does after initManagerTask; a channel that is moved
\* and a title that starts keep the user from anything else.
UserActs == init = "done" /\ edit = "closed" /\ selFile = NULL
              /\ titleFile = NULL

\* keyboard::Manager::doSave saves only if the settings are what they were.
KeySave ==
    /\ mode = "run" /\ UserActs /\ keyFile = NULL
    /\ \E f \in File : flushAsync(f, mData) /\ keyFile' = f
    /\ UNCHANGED <<store, boots, mode, mData, task3, npc, mType, selFile,
                   titleFile, edit, acked>>

\* keyboard::Manager::calc.
KeyPoll ==
    /\ mode = "run" /\ keyFile # NULL
    /\ fstate[keyFile] \in {"done", "fatal"}
    /\ isFinished(keyFile)
    /\ IF fstate[keyFile] = "done"
         THEN /\ Deleted(keyFile) /\ keyFile' = NULL
              /\ acked' = acked \union Saved(keyFile)
         ELSE UNCHANGED <<file, keyFile, acked>>
    /\ UNCHANGED <<store, boots, mode, mData, task3, nand, mType, selFile,
                   titleFile, edit>>

\* ChannelSelect, a channel is dropped on another place.
MoveChannel ==
    /\ ScenesRun /\ UserActs
    /\ \E m \in Move \ mData.val, f \in File :
          /\ mData' = [mData EXCEPT !.val = @ \union {m}]
          /\ flushAsync(f, mData')
          /\ selFile' = f
    /\ UNCHANGED <<store, boots, mode, task3, npc, mType, keyFile, titleFile,
                   edit, acked>>

\* ChannelSelect::calcNormalMoveChanSave.
MovePoll ==
    /\ ScenesRun /\ selFile # NULL
    /\ fstate[selFile] \in {"done", "fatal"}
    /\ isFinished(selFile)
    /\ IF fstate[selFile] = "done"
         THEN /\ Deleted(selFile) /\ selFile' = NULL
              /\ acked' = acked \union Saved(selFile)
         ELSE UNCHANGED <<file, selFile, acked>>
    /\ UNCHANGED <<store, boots, mode, mData, task3, nand, mType, keyFile,
                   titleFile, edit>>

\* ChannelTitle::prepareForBoot: the user starts a title.
PrepareForBoot ==
    /\ ScenesRun /\ UserActs
    /\ \E f \in File, v \in {mData.val \ {PAGE}, mData.val \union {PAGE}} :
          /\ mData' = [mData EXCEPT !.val = v]
          /\ flushAsync(f, mData')
          /\ titleFile' = f
    /\ UNCHANGED <<store, boots, mode, task3, npc, mType, keyFile, selFile,
                   edit, acked>>

\* ChannelTitle::calc, the screen is black: wait in a loop without frames.
EnterLaunch ==
    /\ ScenesRun /\ titleFile # NULL
    /\ mode' = "launch"
    /\ UNCHANGED <<store, boots, mData, mpFile, task3, file, nand, mType,
                   scenes, acked>>

\* The loop ends when the file is written, and the title takes over.
Launch ==
    /\ mode = "launch" /\ fstate[titleFile] = "done"
    /\ acked' = acked \union Saved(titleFile)
    /\ Off
    /\ UNCHANGED <<disk, hurt, boots>>

\* SettingSelect opens ChannelEdit, whose files are read by the NAND thread
\* behind what was posted before.
OpenEdit ==
    /\ ScenesRun /\ UserActs
    /\ edit' = "loading" /\ nandq' = Append(nandq, EDIT)
    /\ UNCHANGED <<store, boots, mode, mData, mpFile, task3, file, npc, mType,
                   keyFile, selFile, titleFile, acked>>

\* It is left; if channels were deleted or copied, refreshAsync follows.
CloseEdit ==
    /\ ScenesRun /\ edit = "open"
    /\ edit' = "closed"
    /\ init' \in {init, "posted"}
    /\ UNCHANGED <<store, boots, mode, mData, mpFile, bNeedFlush,
                   mpUpdatedFile, file, nand, mType, keyFile, selFile,
                   titleFile, acked>>

-----------------------------------------------------------------------------
(* The main thread: errors and the reset; power.                           *)

\* ErrorHandler::check at the end of a frame of System::run.
ShowError ==
    /\ mode = "run" /\ mType
    /\ mode' = "error"
    /\ UNCHANGED <<store, boots, mData, mpFile, task3, file, nand, mType,
                   scenes, acked>>

\* An error that the main thread meets itself, such as that of the disc drive.
OtherError ==
    /\ mode = "run"
    /\ mode' = "error" /\ mType' = TRUE
    /\ UNCHANGED <<store, boots, mData, mpFile, task3, file, nand, scenes,
                   acked>>

\* ResetHandler::cbReset, reset, and System::reset_run at the end of the frame.
RequestReset ==
    /\ mode = "run"
    /\ mode' = "reset"
    /\ UNCHANGED <<store, boots, mData, mpFile, task3, file, nand, mType,
                   scenes, acked>>

\* ResetHandler::update: the reset fader starts, and nobody is asked again.
AcceptReset ==
    /\ mode = "reset" /\ isResetAcceptable
    /\ mode' = "fading"
    /\ UNCHANGED <<store, boots, mData, mpFile, task3, file, nand, mType,
                   scenes, acked>>

Restart ==
    /\ mode = "fading"
    /\ Off
    /\ UNCHANGED <<disk, hurt, boots, acked>>

\* The power is cut, or switched off on the error screen.
PowerCut ==
    /\ mode # "off"
    /\ Off
    /\ UNCHANGED <<disk, hurt, boots, acked>>

\* System::init of the next start.
Boot ==
    /\ mode = "off" /\ boots < MaxBoots
    /\ boots' = boots + 1
    /\ mode' = "run"
    /\ UNCHANGED <<store, mData, mpFile, task3, file, nand, mType, scenes,
                   acked>>

Init ==
    /\ disk \in {Plain(k) : k \in {"absent", "blank", "torn", "bad"}}
                  \union [kind : {"old", "new"}, val : SUBSET Move]
    /\ hurt = FALSE /\ boots = 1
    /\ acked = IF disk.kind = "new" THEN disk.val ELSE {}
    /\ mData = Plain("torn") /\ tmp = Plain("absent")
    /\ mpFile = NULL /\ mpUpdatedFile = NULL
    /\ bNeedFlush = FALSE /\ init = "posted"
    /\ fstate = [f \in File |-> "free"]
    /\ fdata = [f \in File |-> {}]
    /\ failed = [f \in File |-> FALSE]
    /\ rival = [f \in File |-> FALSE]
    /\ nandq = <<>> /\ npc = "idle" /\ mType = FALSE
    /\ keyFile = NULL /\ selFile = NULL /\ titleFile = NULL
    /\ edit = "closed"
    /\ mode = "run"

UserStep ==
    \/ KeySave \/ MoveChannel \/ PrepareForBoot \/ OpenEdit \/ CloseEdit
    \/ OtherError \/ RequestReset \/ PowerCut \/ Boot

MainStep ==
    \/ KeyPoll \/ MovePoll \/ EnterLaunch \/ Launch \/ ShowError
    \/ AcceptReset \/ Restart

Next == Task3Step \/ NandStep \/ UserStep \/ MainStep

Spec == Init /\ [][Next]_vars

\* The threads go on, and the main loop polls and checks in every frame.  The
\* reset handler is asked last in a frame, so it sees that a poll of the frame
\* has cleared mpFile before a scene can save again.
Fairness ==
    /\ WF_vars(Task3Step) /\ WF_vars(NandStep)
    /\ WF_vars(KeyPoll) /\ WF_vars(MovePoll)
    /\ WF_vars(EnterLaunch) /\ WF_vars(Launch)
    /\ WF_vars(ShowError) /\ SF_vars(AcceptReset) /\ WF_vars(Restart)

FairSpec == Spec /\ Fairness

-----------------------------------------------------------------------------
(* Properties.                                                             *)

\* What a scene has seen saved without an error is in the file from then on,
\* wherever the power is cut or a thread cancelled, and however the writes of
\* Task3 and of the scenes follow each other; unless Write failed in a way
\* after which File::write renames the incomplete copy over the file.
Durable == ~hurt => acked \subseteq disk.val

\* After initManagerTask the settings in memory are whole, from whatever was
\* found on the NAND memory, and contain what was saved: the load of a later
\* refreshAsync does not take the scenes' changes back.
MemoryKeepsSaved ==
    ~hurt /\ init \in {"loaded", "done"} =>
        mData.kind = "new" /\ acked \intersect Move \subseteq mData.val

\* A File is deleted only when the NAND thread is done with it and nobody
\* holds its pointer: isFinished clears mpFile before the owner deletes it,
\* and initManagerTask deletes the file of its last write without asking.
NoDanglingFile ==
    /\ \A f \in Range(nandq) \intersect File : fstate[f] \in {"queued", "fatal"}
    /\ \A f \in {mpFile, mpUpdatedFile, keyFile, selFile, titleFile} \ {NULL} :
          fstate[f] # "free"

\* A reset is accepted while a scene's write is outstanding only if that was
\* requested while the keyboard still had a file of its own to poll: that
\* poll makes the manager forget the later file.
ResetWaits ==
    [][mode = "reset" /\ mode' = "fading" =>
         \A f \in {keyFile, selFile, titleFile} \ {NULL} :
             fstate[f] \in {"done", "fatal"} \/ rival[f]]_vars

\* A user who moved a channel or started a title gets on, or an error has been
\* reported, or the console is off.
UserNotStuck ==
    (selFile # NULL \/ titleFile # NULL) ~>
        (selFile = NULL /\ titleFile = NULL) \/ mType \/ mode = "off"

\* A reset ends, unless the NAND thread was stopped by an error: then a write
\* behind the failed one is never finished and holds the reset up for ever.
ResetEnds == mode = "reset" ~> mode = "off" \/ npc = "dead"

\* IPLErrorDisplay: "Display the error screen." (iplSystem.h:49).  Refuted: in
\* the loop that waits for the file before a title starts, and in reset_run,
\* nobody looks at mType.
ErrorShown == mType ~> mode \in {"error", "off"}

\* "Invalid MD5 sum, create new" (iplSaveDataManager.cpp:249): files whose sum
\* is right are kept.  Refuted for a file of an earlier, shorter version: its
\* sum is not at the offset where it is looked for.
IntactKept ==
    [][init = "posted" /\ init' = "loaded" /\ mpUpdatedFile = NULL
          /\ disk.kind \in {"old", "new"}
        => disk.val \ {PAGE} \subseteq mData'.val]_vars
=============================================================================
