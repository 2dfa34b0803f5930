----------------------------- MODULE BoardCard ------------------------------
(***************************************************************************)
(* The message board and the card: scene::Board starts and ends the        *)
(* worker, BoardSD mounts the card for the letters on it, and CdbBackup,   *)
(* which runs frames of its own when the letters fill the NAND             *)
(* (System::backup_run), asks the player where to put them.  All three     *)
(* talk to the worker of SDVFWorker.tla by messages that are not sent      *)
(* while it works.                                                         *)
(*                                                                         *)
(* The other states of the board and its dialogs are in MenuScenes.tla;    *)
(* here the board is at its start, runs, makes a backup or leaves.         *)
(* Abstracted: the letters, to whether they are over the limit (over).     *)
(***************************************************************************)
EXTENDS SDVFWorker

VARIABLES
    board,  \* what the board is at
    bsd,    \* BoardSD::mState
    bstate, \* CdbBackup::mState
    bnext,  \* CdbBackup::mState2
    over,   \* cdb::Manager::isOverFlow
    hasty   \* history: a backup began while the worker worked

boardVars == <<board, bsd, bstate, bnext, over, hasty>>
vars == <<workerVars, boardVars>>

\* none: there is no board.  settings, done: STATE_TO_SETTINGS, STATE_DONE.
\* leaving, waiting: the two loops of destroy.  error: an error screen.
BoardPC == {"none", "init", "normal", "backup", "settings", "done", "leaving",
            "waiting", "error"}
BoardSDState == {"PREPARE", "PREPARE_RESULT", "CLEANUP", "CLEANUP_RESULT"}
CdbBackupState ==
    {"NONE", "WAIT_WORKER", "MOUNT_SD", "CHECK_SD", "DELETING", "DELETING_2",
     "WAIT_DELETING", "DONE_DELETE", "SD_BACKING", "SD_CHECK_ERR", "SD_BACK_PREPARE",
     "WAIT_SD_BACKING", "DONE_SD_BACK", "CLEAN_SD_BACK", "WAIT_RET",
     "WAIT_FINISH_MSG", "FINISHED_2", "FINISHED"}

BoardInit ==
    /\ WorkerInit
    /\ board = "none" /\ bsd = "PREPARE"
    /\ bstate = "NONE" /\ bnext = "NONE"
    /\ over \in BOOLEAN /\ hasty = FALSE

\* What a step of the main thread leaves alone of the worker, when it sends ...
WorkerRest == <<alive, sd, result, prev, wpc, first, outcome, flag, attached, card, missed>>
SendOnly == UNCHANGED <<WorkerRest, mounted, cdbOk, faults>>

\* ... and when it does not.
Nothing == UNCHANGED workerVars

Send(m) ==
    /\ SendWork(m)
    /\ SendOnly
    /\ UNCHANGED hasty

SendNothing == Nothing /\ UNCHANGED hasty

-----------------------------------------------------------------------------
(* The board.                                                              *)

Board_create ==
    /\ board = "none"
    /\ CreateWorker
    /\ board' = "init" /\ bsd' = "PREPARE"
    /\ UNCHANGED <<bstate, bnext, over, hasty>>

\* Letters arrive.
Overflow ==
    /\ board \in {"init", "normal"}
    /\ ~over
    /\ over' = TRUE
    /\ UNCHANGED <<board, bsd, bstate, bnext>> /\ SendNothing

\* CdbBackup::CdbBackup.
StartBackup ==
    /\ board' = "backup"
    /\ bstate' = IF working THEN "WAIT_WORKER" ELSE "MOUNT_SD"
    /\ bnext' = IF working THEN "MOUNT_SD" ELSE "NONE"

\* stt_wait_init: the NAND is full, or a backup is due, or all is well.
stt_wait_init ==
    /\ board = "init"
    /\ \/ board' = "settings" /\ UNCHANGED <<bstate, bnext>>
       \/ over /\ StartBackup
       \/ ~over /\ board' = "normal" /\ UNCHANGED <<bstate, bnext>>
    /\ UNCHANGED <<bsd, over>> /\ SendNothing

\* stt_normal: the letters fill the NAND.  CdbBackup looks at the worker after
\* the message was sent, or not.
BeginBackup ==
    /\ board = "normal"
    /\ over
    /\ IF mounted THEN SendWork("CLEANUP") ELSE UNCHANGED <<working, msg>>
    /\ SendOnly
    /\ hasty' = (hasty \/ working)
    /\ board' = "backup"
    /\ bstate' = IF working \/ mounted THEN "WAIT_WORKER" ELSE "MOUNT_SD"
    /\ bnext' = IF working \/ mounted THEN "MOUNT_SD" ELSE "NONE"
    /\ UNCHANGED <<bsd, over>>

after_backup ==
    /\ board = "backup"
    /\ bstate = "FINISHED"
    /\ IF mounted
       THEN SendNothing /\ bsd' = "CLEANUP"
       ELSE Send("MOUNT") /\ bsd' = "PREPARE"
    /\ board' = "normal"
    /\ bstate' = "NONE"
    /\ UNCHANGED <<bnext, over>>

\* STATE_TO_SETTINGS: the worker ends before the scene does.
EndWorkerEarly ==
    /\ board = "settings"
    /\ ~working
    /\ Send("TERMINATE")
    /\ board' = "done"
    /\ UNCHANGED <<bsd, bstate, bnext, over>>

\* The scene is destroyed.
Leave ==
    /\ \/ board = "normal" /\ board' = "leaving"
       \/ board = "done" /\ board' = "waiting"
    /\ UNCHANGED <<bsd, bstate, bnext, over>> /\ SendNothing

\* Mutant: destroy does not wait for the worker to be idle.
EndWorkerAtOnce ==
    /\ board = "leaving"
    /\ Send("TERMINATE")
    /\ board' = "waiting"
    /\ UNCHANGED <<bsd, bstate, bnext, over>>

\* The first loop of destroy.
EndWorker ==
    /\ board = "leaving"
    /\ ~working
    /\ Send("TERMINATE")
    /\ board' = "waiting"
    /\ UNCHANGED <<bsd, bstate, bnext, over>>

\* The second, and unmountSD_safe.
Board_destroy ==
    /\ board = "waiting"
    /\ ~alive
    /\ UnmountCDB
    /\ board' = "none"
    /\ UNCHANGED <<working, msg, WorkerRest, bsd, bstate, bnext, over, hasty>>

-----------------------------------------------------------------------------
(* BoardSD::update, in a frame of the board.                               *)

\* CDB says when the card it reads is gone.
CDBIsSDAvailable == card # "none"

\* error_handling: an FA error is an error screen, which never ends.
HandleError == board' = IF result = "FA_ERROR" THEN "error" ELSE board

BoardSD_Prepare ==
    /\ bsd = "PREPARE"
    /\ ~working
    /\ \/ sd = "INSERTED" /\ Send("MOUNT") /\ UNCHANGED bsd
       \/ sd = "READY" /\ Send("PREPARE") /\ bsd' = "PREPARE_RESULT"
    /\ UNCHANGED board

\* Mutant: a card that CDB could not mount is not mounted again.
BoardSD_PrepareResultOnce ==
    /\ bsd = "PREPARE_RESULT"
    /\ ~working
    /\ HandleError
    /\ SendNothing
    /\ bsd' = IF result = "SUCCESS" THEN "CLEANUP" ELSE "PREPARE"

BoardSD_PrepareResult ==
    /\ bsd = "PREPARE_RESULT"
    /\ ~working
    /\ HandleError
    /\ IF result = "SUCCESS"
       THEN SendNothing /\ bsd' = "CLEANUP"
       ELSE Send("MOUNT") /\ bsd' = "PREPARE"

BoardSD_Cleanup ==
    /\ bsd = "CLEANUP"
    /\ ~CDBIsSDAvailable
    /\ Send("CLEANUP")
    /\ bsd' = "CLEANUP_RESULT"
    /\ UNCHANGED board

BoardSD_CleanupResult ==
    /\ bsd = "CLEANUP_RESULT"
    /\ ~working
    /\ HandleError
    /\ Send("MOUNT")
    /\ bsd' = "PREPARE"

BoardSD_update ==
    /\ board = "normal"
    /\ \/ BoardSD_Prepare \/ BoardSD_PrepareResult
       \/ BoardSD_Cleanup \/ BoardSD_CleanupResult
    /\ UNCHANGED <<bstate, bnext, over>>

-----------------------------------------------------------------------------
(* CdbBackup::update, in a frame of backup_run.                            *)

In(s) == board = "backup" /\ bstate = s
To(s) == bstate' = s /\ UNCHANGED <<board, bnext>>
ToThen(s, t) == bstate' = s /\ bnext' = t /\ UNCHANGED board
Next_ == bstate' = bnext /\ bnext' = "NONE"

stt_wait_worker ==
    /\ In("WAIT_WORKER")
    /\ ~working
    /\ HandleError
    /\ Next_
    /\ SendNothing /\ UNCHANGED over

\* stt_mount_sd, stt_clean_up_back.
AskWorker ==
    /\ \/ In("MOUNT_SD") /\ Send("MOUNT") /\ ToThen("WAIT_WORKER", "CHECK_SD")
       \/ In("CLEAN_SD_BACK") /\ Send("CLEANUP") /\ ToThen("WAIT_WORKER", "MOUNT_SD")
    /\ UNCHANGED over

stt_check_sd ==
    /\ In("CHECK_SD")
    /\ \/ sd = "EJECTED" /\ To("DELETING")
       \/ sd = "INSERTED" /\ To("MOUNT_SD")
       \/ sd \in {"READY", "BROKEN", "ERROR"} /\ To("SD_BACKING")
    /\ SendNothing /\ UNCHANGED over

\* stt_wait_del_msg, stt_wait_besd_del_msg: the letters may be deleted, or not.
AnswerDelete ==
    /\ \/ (In("DELETING") \/ In("DELETING_2")) /\ To("WAIT_DELETING")
       \/ In("DELETING") /\ ToThen("WAIT_RET", "MOUNT_SD")
       \/ In("DELETING_2") /\ To("CHECK_SD")
    /\ SendNothing /\ UNCHANGED over

\* stt_wait_delete: the job on Task1 is done; it stops at a letter that cannot
\* be removed.
stt_wait_delete ==
    /\ In("WAIT_DELETING")
    /\ over' \in BOOLEAN
    /\ To("DONE_DELETE")
    /\ SendNothing

stt_wait_del_msg_fns ==
    /\ In("DONE_DELETE")
    /\ ~over
    /\ ToThen("WAIT_FINISH_MSG", "FINISHED")
    /\ SendNothing /\ UNCHANGED over

\* stt_wait_sd_back_msg: the worker mounts a new card while the dialog is open;
\* the player may answer in that frame, and the answer sees the worker at work.
stt_wait_sd_back_msg ==
    /\ In("SD_BACKING")
    /\ LET mounts == ~working /\ sd = "INSERTED"
           busy == working \/ mounts
       IN  /\ IF mounts THEN Send("MOUNT") ELSE SendNothing
           /\ \/ mounts /\ To("SD_BACKING")
              \/ busy /\ ToThen("WAIT_WORKER", "SD_CHECK_ERR")
              \/ ~busy /\ To("SD_CHECK_ERR")
              \/ To("DELETING_2")
    /\ UNCHANGED over

\* A card that is write protected is not told from one that is not there.
stt_check_sd_err ==
    /\ In("SD_CHECK_ERR")
    /\ \/ sd = "READY" /\ Send("PREPARE") /\ ToThen("WAIT_WORKER", "SD_BACK_PREPARE")
       \/ SendNothing /\ ToThen("WAIT_RET", "MOUNT_SD")
    /\ UNCHANGED over

stt_check_prepare_back ==
    /\ In("SD_BACK_PREPARE")
    /\ IF result = "SUCCESS"
       THEN To("WAIT_SD_BACKING")
       ELSE ToThen("WAIT_RET", "MOUNT_SD")
    /\ SendNothing /\ UNCHANGED over

\* stt_wait_backup: the job on Task1 moves letters to the card.
stt_wait_backup ==
    /\ In("WAIT_SD_BACKING")
    /\ over' \in BOOLEAN
    /\ To("DONE_SD_BACK")
    /\ SendNothing

\* The job ended well, or the card was full, or it failed.
stt_wait_back_msg_fns ==
    /\ In("DONE_SD_BACK")
    /\ \/ ToThen("WAIT_FINISH_MSG", "FINISHED_2")
       \/ ToThen("WAIT_RET", "CLEAN_SD_BACK")
    /\ SendNothing /\ UNCHANGED over

\* stt_wait_ret_msg, stt_wait_fns_msg.
Confirm ==
    /\ \/ (In("WAIT_RET") \/ In("WAIT_FINISH_MSG")) /\ Next_
       \/ In("FINISHED_2") /\ bstate' = "FINISHED" /\ UNCHANGED bnext
    /\ SendNothing /\ UNCHANGED <<board, over>>

CdbBackup_update ==
    /\ \/ stt_wait_worker \/ AskWorker \/ stt_check_sd \/ AnswerDelete
       \/ stt_wait_delete \/ stt_wait_del_msg_fns
       \/ stt_wait_sd_back_msg \/ stt_check_sd_err \/ stt_check_prepare_back
       \/ stt_wait_backup \/ stt_wait_back_msg_fns \/ Confirm
    /\ UNCHANGED bsd

-----------------------------------------------------------------------------

Leaving == EndWorkerEarly \/ (board = "done" /\ Leave) \/ EndWorker \/ Board_destroy

CardStep == (Insert \/ Eject) /\ UNCHANGED boardVars
LibraryStep == (WorkerStep \/ OtherCDB) /\ UNCHANGED boardVars

BoardNext ==
    \/ Board_create \/ Overflow \/ stt_wait_init \/ BeginBackup \/ after_backup
    \/ EndWorkerEarly \/ Leave \/ EndWorker \/ Board_destroy
    \/ BoardSD_update
    \/ CdbBackup_update
    \/ CardStep
    \/ LibraryStep

BoardSpec == BoardInit /\ [][BoardNext]_vars

FairBoard ==
    /\ BoardSpec
    /\ WF_vars(WorkerStep /\ UNCHANGED boardVars)
    /\ WF_vars(BoardSD_update)
    /\ WF_vars(Leaving)

-----------------------------------------------------------------------------

\* The variables stay in their types.
BoardTypeOK ==
    /\ WorkerTypeOK
    /\ board \in BoardPC /\ bsd \in BoardSDState
    /\ bstate \in CdbBackupState /\ bnext \in CdbBackupState
    /\ over \in BOOLEAN /\ hasty \in BOOLEAN

\* Two libraries never have the card at once: FA gives it up before CDB mounts
\* it and CDB is asked to give it up before FA looks at it again
\* (iplSDVFWorker.cpp:130-152).  It goes wrong when a library fails, when a
\* backup begins while the worker is about to mount for CDB, or unmounts, and
\* the request to give it up is not sent (iplBoard.cpp:784-786), or when the
\* result of CDB that the worker reads is another thread's, which counts as a
\* fault.
OneMount == attached /\ mounted => faults > 0 \/ hasty

\* is_working goes through myWork, which the thread sets to NULL at its end
\* (iplSDVFWorker.cpp:50, 184): while the board may ask, there is a thread.
NoUseAfterEnd ==
    board \in {"init", "normal", "backup", "settings", "leaving"} => alive

\* A good card that stays in the slot while the board runs gets mounted for the
\* letters, whatever cards came and went before: unless it came just before the
\* worker stored what it found (iplSDVFWorker.cpp:205-215, 234-240).
CardMounted ==
    <>[](board = "normal" /\ ~over /\ card = "good")
        => \/ <>(missed \/ faults > 0 \/ hasty)
           \/ <>[]mounted

\* The board that leaves gets away: the worker is not sent its end while it
\* works, where the request would be lost (iplBoard.cpp:297-301, 320).
BoardGoes == board \in {"settings", "done", "leaving", "waiting"} ~> board = "none"

=============================================================================
