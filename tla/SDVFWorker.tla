----------------------------- MODULE SDVFWorker -----------------------------
(***************************************************************************)
(* The thread that mounts the SD card for the message board:               *)
(* ipl::SDVFWorker (src/src/system/iplSDVFWorker.cpp), with the two        *)
(* libraries that want the card: FA, which the worker uses to look at it,  *)
(* and CDB, which reads and writes the letters on it and is mounted        *)
(* through cdb::Manager (iplCdbManager.cpp).                               *)
(*                                                                         *)
(* The worker's requests come from the main thread, which is ahead of it   *)
(* in priority; the callbacks of FA come at any time and write s_sd_state  *)
(* without a lock.  MESSAGE_FORMAT_SD is never sent.  Whether a card is    *)
(* write protected is left out.                                            *)
(***************************************************************************)
EXTENDS Naturals

CONSTANT MaxFaults \* bound: calls of FA and CDB that fail, or leave no result

ASSUME SDVFWorkerAssumption == MaxFaults \in Nat

VARIABLES
    alive,    \* myWork # NULL
    working,  \* myWork->state = STATE_WORKING
    msg,      \* myWork->msgQueue, which never holds two
    sd,       \* s_sd_state
    flag,     \* s_sd_inserted
    result,   \* myWork->asyncResult
    prev,     \* myWork->prevAsyncResult
    wpc,      \* where the thread is
    first,    \* local of do_mount_sd: the case SD_STATE_INITIAL
    outcome,  \* local of do_mount_sd: what call_fa_mount returned
    attached, \* FA has the drive
    mounted,  \* cdb::Manager::mbSDMounted
    cdbOk,    \* cdb::Manager::mCDBResult is no error
    card,     \* what is in the slot
    faults,
    missed    \* history: the card came between FAMount and the store

worker == <<alive, working, msg, sd, result, prev, wpc, first, outcome>>
workerVars == <<worker, flag, attached, mounted, cdbOk, card, faults, missed>>

Message == {"TERMINATE", "MOUNT", "PREPARE", "CLEANUP"}
SDState == {"INITIAL", "EJECTED", "INSERTED", "BROKEN", "ERROR", "READY"}
Result == {"WORKING", "SUCCESS", "FATAL", "FA_ERROR", "BROKEN_MEDIA", "SD_ERROR"}

\* none: there is no thread.  mounting, store: FAMount is under way and its
\* outcome not stored.  mounted: at the end of MOUNT.  cdb mount, cdb unmount:
\* before the call of CDB, cdb done: after it.  ending, ended: it terminates.
WorkerPC == Message \union
    {"none", "wait", "mounting", "store", "mounted", "cdb mount", "cdb done",
     "finish", "ending", "ended"}

WorkerTypeOK ==
    /\ alive \in BOOLEAN /\ working \in BOOLEAN
    /\ msg \in Message \union {"NONE"}
    /\ sd \in SDState
    /\ flag \in BOOLEAN
    /\ result \in Result /\ prev \in Result /\ outcome \in Result
    /\ wpc \in WorkerPC
    /\ first \in BOOLEAN /\ attached \in BOOLEAN
    /\ mounted \in BOOLEAN /\ cdbOk \in BOOLEAN
    /\ card \in {"none", "good", "bad"}
    /\ faults \in 0..MaxFaults
    /\ missed \in BOOLEAN

WorkerInit ==
    /\ alive = FALSE /\ working = FALSE /\ msg = "NONE" /\ wpc = "none"
    /\ sd = "INITIAL" /\ flag = FALSE
    /\ result = "WORKING" /\ prev = "WORKING" /\ outcome = "WORKING"
    /\ first = FALSE /\ attached = FALSE
    /\ mounted = FALSE /\ cdbOk = TRUE
    /\ card \in {"none", "good", "bad"}
    /\ faults = 0 /\ missed = FALSE

Fault == faults < MaxFaults /\ faults' = faults + 1
NoFault == UNCHANGED faults

-----------------------------------------------------------------------------
(* What the main thread calls.                                             *)

\* send_work: a message for a worker that works is not sent.
SendWork(m) ==
    IF working THEN UNCHANGED <<working, msg>> ELSE working' = TRUE /\ msg' = m

\* create(), and the first mount_sd_async.  The last thread is gone by then: it
\* has some frames for its two last statements.
CreateWorker ==
    /\ wpc = "none"
    /\ alive' = TRUE
    /\ working' = TRUE /\ msg' = "MOUNT"
    /\ sd' = "INITIAL"
    /\ result' = "WORKING" /\ prev' = "WORKING"
    /\ wpc' = "wait"
    /\ UNCHANGED <<first, outcome, flag, attached, mounted, cdbOk, card, faults,
                   missed>>

\* unmountSD_safe.
UnmountCDB ==
    IF mounted
    THEN \/ NoFault /\ mounted' = FALSE /\ cdbOk' = TRUE
         \/ Fault /\ cdbOk' = FALSE /\ UNCHANGED mounted
    ELSE NoFault /\ UNCHANGED <<mounted, cdbOk>>

-----------------------------------------------------------------------------
(* The card.                                                               *)

\* sd_insert_callback.
Insert ==
    /\ card = "none"
    /\ card' \in {"good", "bad"}
    /\ flag' = TRUE
    /\ sd' = IF sd = "INITIAL" THEN sd ELSE "INSERTED"
    /\ missed' = (wpc = "store")
    /\ UNCHANGED <<alive, working, msg, result, prev, wpc, first, outcome, attached,
                   mounted, cdbOk, faults>>

\* sd_eject_callback.
Eject ==
    /\ card # "none"
    /\ card' = "none"
    /\ flag' = FALSE
    /\ sd' = IF sd = "INITIAL" THEN sd ELSE "EJECTED"
    /\ missed' = FALSE
    /\ UNCHANGED <<alive, working, msg, result, prev, wpc, first, outcome, attached,
                   mounted, cdbOk, faults>>

-----------------------------------------------------------------------------
(* The thread.                                                             *)

At(pc) == wpc = pc
GoOn(pc) == wpc' = pc
Rest == UNCHANGED <<card, missed>>

\* wait_work.
WaitWork ==
    /\ At("wait")
    /\ msg # "NONE"
    /\ GoOn(msg)
    /\ msg' = "NONE"
    /\ Rest
    /\ UNCHANGED <<alive, working, sd, result, prev, first, outcome, flag, attached,
                   mounted, cdbOk, faults>>

\* MESSAGE_TERMINATE, and the two statements after the loop.
Terminate ==
    /\ \/ /\ At("TERMINATE")
          /\ attached' = (attached /\ sd = "INITIAL")
          /\ GoOn("ending")
          /\ UNCHANGED <<alive, sd>>
       \/ At("ending") /\ alive' = FALSE /\ GoOn("ended") /\ UNCHANGED <<attached, sd>>
       \/ At("ended") /\ sd' = "INITIAL" /\ GoOn("none") /\ UNCHANGED <<attached, alive>>
    /\ Rest
    /\ UNCHANGED <<working, msg, result, prev, first, outcome, flag, mounted, cdbOk,
                   faults>>

\* do_mount_sd, up to FAMount.
BeginMount ==
    /\ At("MOUNT")
    /\ \/ /\ sd = "INITIAL"
          /\ flag' = TRUE
          /\ \/ /\ NoFault
                /\ attached' = TRUE /\ first' = TRUE
                /\ GoOn("mounting")
                /\ UNCHANGED result
             \/ /\ Fault
                /\ result' = "FA_ERROR"
                /\ GoOn("mounted")
                /\ UNCHANGED <<attached, first>>
       \/ /\ sd = "EJECTED"
          /\ result' = IF prev = "WORKING" THEN "FATAL" ELSE prev
          /\ GoOn("mounted")
          /\ UNCHANGED <<flag, first, attached, faults>>
       \/ /\ sd = "INSERTED"
          /\ first' = FALSE
          /\ GoOn("mounting")
          /\ UNCHANGED <<flag, result, attached, faults>>
       \/ /\ sd = "READY"
          /\ result' = "SUCCESS"
          /\ GoOn("mounted")
          /\ UNCHANGED <<flag, first, attached, faults>>
       \/ /\ sd \in {"BROKEN", "ERROR"}
          /\ GoOn("mounted")
          /\ UNCHANGED <<flag, first, result, attached, faults>>
    /\ Rest
    /\ UNCHANGED <<alive, working, msg, sd, prev, outcome, mounted, cdbOk>>

\* FA_ERR_EIO, which may also be the answer for an empty slot.
InputOutputError == IF sd = "EJECTED" \/ ~flag THEN "FATAL" ELSE "SD_ERROR"

MountOutcomes ==
    CASE card = "good" -> {"SUCCESS"}
      [] card = "bad"  -> {"BROKEN_MEDIA", InputOutputError}
      [] card = "none" -> {"FATAL", InputOutputError}

\* call_fa_mount; FAMount and FABuffering may fail.
CallFAMount ==
    /\ At("mounting")
    /\ \/ NoFault /\ outcome' \in MountOutcomes
       \/ Fault /\ outcome' \in {"FA_ERROR", InputOutputError}
    /\ GoOn("store")
    /\ Rest
    /\ UNCHANGED <<alive, working, msg, sd, result, prev, first, flag, attached, mounted,
                   cdbOk>>

StateFor(o) ==
    CASE o = "SUCCESS"      -> "READY"
      [] o = "BROKEN_MEDIA" -> "BROKEN"
      [] o = "SD_ERROR"     -> "ERROR"
      [] OTHER              -> "EJECTED"

\* What the callbacks have stored meanwhile is overwritten.
StoreMount ==
    /\ At("store")
    /\ sd' = StateFor(outcome)
    /\ flag' = (flag /\ ~(first /\ sd' = "EJECTED"))
    /\ result' = outcome
    /\ first' = FALSE /\ outcome' = "WORKING"
    /\ GoOn("mounted")
    /\ Rest
    /\ UNCHANGED <<alive, working, msg, prev, attached, mounted, cdbOk, faults>>

EndMount ==
    /\ At("mounted")
    /\ prev' = IF sd \in {"BROKEN", "ERROR"} THEN result ELSE "WORKING"
    /\ GoOn("finish")
    /\ Rest
    /\ UNCHANGED <<alive, working, msg, sd, result, first, outcome, flag, attached,
                   mounted, cdbOk, faults>>

\* Mutant: FA keeps the card.
BeginPrepareAttached ==
    /\ At("PREPARE")
    /\ GoOn("cdb mount")
    /\ Rest
    /\ UNCHANGED <<alive, working, msg, sd, result, prev, first, outcome, flag, attached,
                   mounted, cdbOk, faults>>

\* MESSAGE_PREPARE_CDB_BACKUP: FA gives the card up ...
BeginPrepare ==
    /\ At("PREPARE")
    /\ attached' = (attached /\ sd = "INITIAL")
    /\ sd' = "INITIAL"
    /\ GoOn("cdb mount")
    /\ Rest
    /\ UNCHANGED <<alive, working, msg, result, prev, first, outcome, flag, mounted, cdbOk,
                   faults>>

\* ... and CDB takes it (mountSD_safe).
MountCDB ==
    /\ At("cdb mount")
    /\ \/ mounted /\ NoFault /\ UNCHANGED <<mounted, cdbOk>>
       \/ ~mounted /\ card = "good" /\ NoFault /\ mounted' = TRUE /\ cdbOk' = TRUE
       \/ ~mounted /\ card # "good" /\ NoFault /\ mounted' = FALSE /\ cdbOk' = FALSE
       \/ ~mounted /\ card = "good" /\ Fault /\ mounted' = FALSE /\ cdbOk' = FALSE
    /\ GoOn("cdb done")
    /\ Rest
    /\ UNCHANGED <<alive, working, msg, sd, result, prev, first, outcome, flag, attached>>

\* MESSAGE_CLEANUP_CDB_BACKUP.
Cleanup ==
    /\ At("CLEANUP")
    /\ UnmountCDB
    /\ GoOn("cdb done")
    /\ Rest
    /\ UNCHANGED <<alive, working, msg, sd, result, prev, first, outcome, flag, attached>>

\* A job of Task1 or the Postman calls CDB and leaves its own result.
OtherCDB ==
    /\ At("cdb done")
    /\ cdbOk' \in BOOLEAN
    /\ Fault
    /\ Rest
    /\ UNCHANGED <<worker, flag, attached, mounted>>

\* getCDBResult.
TakeCDBResult ==
    /\ At("cdb done")
    /\ result' = IF cdbOk THEN "SUCCESS" ELSE "FATAL"
    /\ GoOn("finish")
    /\ Rest
    /\ UNCHANGED <<alive, working, msg, sd, prev, first, outcome, flag, attached, mounted,
                   cdbOk, faults>>

\* set_state(STATE_IDLE).
Finish ==
    /\ At("finish")
    /\ working' = FALSE
    /\ GoOn("wait")
    /\ Rest
    /\ UNCHANGED <<alive, msg, sd, result, prev, first, outcome, flag, attached, mounted,
                   cdbOk, faults>>

WorkerStep ==
    \/ WaitWork \/ Terminate
    \/ BeginMount \/ CallFAMount \/ StoreMount \/ EndMount
    \/ BeginPrepare \/ MountCDB \/ Cleanup \/ TakeCDBResult \/ Finish

=============================================================================
