-------------------------- MODULE BoardCardProofs ---------------------------
(***************************************************************************)
(* Proofs about the board and the card: the thread lives as long as it may *)
(* be asked, and the two libraries do not have the card at once.           *)
(***************************************************************************)
EXTENDS BoardCard, TLAPS

-----------------------------------------------------------------------------
(* The worker.                                                             *)

Gone == {"none", "ended"}

\* A message waits for a thread that waits for it, and who is not working has
\* none under way.
WorkerInv ==
    /\ msg # "NONE" => working /\ wpc = "wait"
    /\ ~working => wpc \in {"wait", "none"}
    /\ alive <=> wpc \notin Gone

\* FA has the drive only if s_sd_state tells so, but for the first mount; it
\* has given it up before CDB mounts the card, and when the thread ends.
DriveInv ==
    /\ sd = "INITIAL" /\ attached => wpc \in {"mounting", "store"}
    /\ wpc \in {"cdb mount", "ending", "ended", "none"} => ~attached

\* The types in two parts, for the provers' sake.
WorkerBools ==
    /\ alive \in BOOLEAN /\ working \in BOOLEAN /\ flag \in BOOLEAN
    /\ first \in BOOLEAN /\ attached \in BOOLEAN
    /\ mounted \in BOOLEAN /\ cdbOk \in BOOLEAN /\ missed \in BOOLEAN
WorkerOthers ==
    /\ msg \in Message \union {"NONE"}
    /\ sd \in SDState
    /\ result \in Result /\ prev \in Result /\ outcome \in Result
    /\ wpc \in WorkerPC
    /\ card \in {"none", "good", "bad"}
FaultsOK == faults \in 0..MaxFaults

LEMMA WorkerTypes == WorkerTypeOK <=> WorkerBools /\ WorkerOthers /\ FaultsOK
BY DEF WorkerTypeOK, WorkerBools, WorkerOthers, FaultsOK

LEMMA CountFaults ==
    ASSUME FaultsOK, Fault \/ UNCHANGED faults
    PROVE  FaultsOK'
BY SDVFWorkerAssumption DEF FaultsOK, Fault

LEMMA WorkerType ==
    ASSUME WorkerTypeOK, WorkerStep \/ OtherCDB
    PROVE  WorkerTypeOK'
<1>1. WorkerBools /\ WorkerOthers /\ FaultsOK
  BY WorkerTypes
<1>2. FaultsOK'
  <2>1. Fault \/ UNCHANGED faults
    BY DEF WorkerStep, OtherCDB, WaitWork, Terminate, BeginMount, CallFAMount,
           StoreMount, EndMount, BeginPrepare, MountCDB, Cleanup, UnmountCDB,
           TakeCDBResult, Finish, NoFault
  <2>2. QED  BY <1>1, <2>1, CountFaults
\* Where the thread goes, and what it finds.
<1>3. wpc' \in WorkerPC
  <2>1. CASE WaitWork \/ OtherCDB
    BY <1>1, <2>1 DEF WaitWork, OtherCDB, worker, WorkerOthers, WorkerPC, At, GoOn
  <2>2. CASE Terminate \/ BeginMount
    BY <1>1, <2>2 DEF Terminate, BeginMount, WorkerPC, GoOn
  <2>3. CASE \/ CallFAMount \/ StoreMount \/ EndMount \/ BeginPrepare
             \/ MountCDB \/ Cleanup \/ TakeCDBResult \/ Finish
    BY <2>3 DEF CallFAMount, StoreMount, EndMount, BeginPrepare, MountCDB, Cleanup,
                TakeCDBResult, Finish, WorkerPC, GoOn
  <2>4. QED  BY <2>1, <2>2, <2>3 DEF WorkerStep
<1>4. CASE WaitWork
  <2>0. msg' \in Message \union {"NONE"}
    BY <1>4 DEF WaitWork
  <2>1. WorkerBools'
    BY <1>1, <1>4 DEF WaitWork, Rest, WorkerBools
  <2>2. WorkerOthers'
    BY <1>1, <1>3, <1>4, <2>0 DEF WaitWork, Rest, WorkerOthers
  <2>3. QED  BY <1>2, <2>1, <2>2 DEF WorkerTypeOK, WorkerBools, WorkerOthers, FaultsOK
<1>5. CASE Terminate
  <2>1. WorkerBools'
    BY <1>1, <1>5 DEF Terminate, Rest, WorkerBools
  <2>2. WorkerOthers'
    BY <1>1, <1>3, <1>5 DEF Terminate, SDState, Rest, WorkerOthers
  <2>3. QED  BY <1>2, <2>1, <2>2 DEF WorkerTypeOK, WorkerBools, WorkerOthers, FaultsOK
<1>6. CASE BeginMount
  <2>1. WorkerBools'
    BY <1>1, <1>6 DEF BeginMount, Rest, WorkerBools
  <2>2. WorkerOthers'
    BY <1>1, <1>3, <1>6 DEF BeginMount, Result, Rest, WorkerOthers
  <2>3. QED  BY <1>2, <2>1, <2>2 DEF WorkerTypeOK, WorkerBools, WorkerOthers, FaultsOK
<1>7. CASE CallFAMount
  <2>0. outcome' \in Result
    <3>1. card \in {"none", "good", "bad"}
      BY <1>1 DEF WorkerOthers
    <3>2. InputOutputError \in Result
      BY DEF InputOutputError, Result
    <3>3. MountOutcomes \subseteq Result
      BY <3>1, <3>2 DEF MountOutcomes, Result
    <3>4. QED  BY <1>7, <3>2, <3>3 DEF CallFAMount, Result
  <2>1. WorkerBools'
    BY <1>1, <1>7 DEF CallFAMount, Rest, WorkerBools
  <2>2. WorkerOthers'
    BY <1>1, <1>3, <1>7, <2>0 DEF CallFAMount, Rest, WorkerOthers
  <2>3. QED  BY <1>2, <2>1, <2>2 DEF WorkerTypeOK, WorkerBools, WorkerOthers, FaultsOK
<1>8. CASE StoreMount
  <2>1. WorkerBools'
    BY <1>1, <1>8 DEF StoreMount, Rest, WorkerBools
  <2>2. WorkerOthers'
    BY <1>1, <1>3, <1>8 DEF StoreMount, StateFor, SDState, Result, Rest, WorkerOthers
  <2>3. QED  BY <1>2, <2>1, <2>2 DEF WorkerTypeOK, WorkerBools, WorkerOthers, FaultsOK
<1>9. CASE EndMount
  <2>1. WorkerBools'
    BY <1>1, <1>9 DEF EndMount, Rest, WorkerBools
  <2>2. WorkerOthers'
    BY <1>1, <1>3, <1>9 DEF EndMount, Result, Rest, WorkerOthers
  <2>3. QED  BY <1>2, <2>1, <2>2 DEF WorkerTypeOK, WorkerBools, WorkerOthers, FaultsOK
<1>10. CASE BeginPrepare
  <2>1. WorkerBools'
    BY <1>1, <1>10 DEF BeginPrepare, Rest, WorkerBools
  <2>2. WorkerOthers'
    BY <1>1, <1>3, <1>10 DEF BeginPrepare, SDState, Rest, WorkerOthers
  <2>3. QED  BY <1>2, <2>1, <2>2 DEF WorkerTypeOK, WorkerBools, WorkerOthers, FaultsOK
<1>11. CASE MountCDB
  <2>1. WorkerBools'
    BY <1>1, <1>11 DEF MountCDB, Rest, WorkerBools
  <2>2. WorkerOthers'
    BY <1>1, <1>3, <1>11 DEF MountCDB, Rest, WorkerOthers
  <2>3. QED  BY <1>2, <2>1, <2>2 DEF WorkerTypeOK, WorkerBools, WorkerOthers, FaultsOK
<1>12. CASE Cleanup
  <2>1. WorkerBools'
    BY <1>1, <1>12 DEF Cleanup, UnmountCDB, Rest, WorkerBools
  <2>2. WorkerOthers'
    BY <1>1, <1>3, <1>12 DEF Cleanup, UnmountCDB, Rest, WorkerOthers
  <2>3. QED  BY <1>2, <2>1, <2>2 DEF WorkerTypeOK, WorkerBools, WorkerOthers, FaultsOK
<1>13. CASE TakeCDBResult
  <2>1. WorkerBools'
    BY <1>1, <1>13 DEF TakeCDBResult, Rest, WorkerBools
  <2>2. WorkerOthers'
    BY <1>1, <1>3, <1>13 DEF TakeCDBResult, Result, Rest, WorkerOthers
  <2>3. QED  BY <1>2, <2>1, <2>2 DEF WorkerTypeOK, WorkerBools, WorkerOthers, FaultsOK
<1>14. CASE Finish
  <2>1. WorkerBools'
    BY <1>1, <1>14 DEF Finish, Rest, WorkerBools
  <2>2. WorkerOthers'
    BY <1>1, <1>3, <1>14 DEF Finish, Rest, WorkerOthers
  <2>3. QED  BY <1>2, <2>1, <2>2 DEF WorkerTypeOK, WorkerBools, WorkerOthers, FaultsOK
<1>15. CASE OtherCDB
  <2>1. WorkerBools'
    BY <1>1, <1>15 DEF OtherCDB, worker, Rest, WorkerBools
  <2>2. WorkerOthers'
    BY <1>1, <1>3, <1>15 DEF OtherCDB, worker, Rest, WorkerOthers
  <2>3. QED  BY <1>2, <2>1, <2>2 DEF WorkerTypeOK, WorkerBools, WorkerOthers, FaultsOK
<1>16. QED
  BY <1>4, <1>5, <1>6, <1>7, <1>8, <1>9, <1>10, <1>11, <1>12, <1>13, <1>14, <1>15
     DEF WorkerStep

LEMMA WorkerInvStep ==
    ASSUME WorkerTypeOK, WorkerInv, WorkerStep \/ OtherCDB
    PROVE  WorkerInv'
<1>0. WorkerBools /\ msg \notin {"none", "ended", "ending", "cdb mount"}
  BY WorkerTypes DEF WorkerOthers, Message
<1> USE DEF WorkerInv, WorkerBools, Gone, At, GoOn
<1>1. CASE WaitWork
  BY <1>0, <1>1 DEF WaitWork
<1>2. CASE Terminate
  <2>1. /\ UNCHANGED <<working, msg>>
        /\ \/ wpc = "TERMINATE" /\ wpc' = "ending" /\ alive' = alive
           \/ wpc = "ending" /\ wpc' = "ended" /\ alive' = FALSE
           \/ wpc = "ended" /\ wpc' = "none" /\ alive' = alive
    BY <1>2 DEF Terminate
  <2>2. alive' <=> wpc' \notin Gone
    <3>1. CASE wpc = "TERMINATE" /\ wpc' = "ending" /\ alive' = alive
      BY <1>0, <3>1
    <3>2. CASE wpc = "ending" /\ wpc' = "ended" /\ alive' = FALSE
      BY <3>2
    <3>3. CASE wpc = "ended" /\ wpc' = "none" /\ alive' = alive
      BY <1>0, <3>3
    <3>4. QED  BY <2>1, <3>1, <3>2, <3>3
  <2>3. working /\ msg = "NONE"
    BY <2>1
  <2>4. QED  BY <2>1, <2>2, <2>3
<1>3. CASE BeginMount
  BY <1>0, <1>3 DEF BeginMount
<1>4. CASE CallFAMount
  BY <1>0, <1>4 DEF CallFAMount
<1>5. CASE StoreMount
  BY <1>0, <1>5 DEF StoreMount
<1>6. CASE EndMount
  BY <1>0, <1>6 DEF EndMount
<1>7. CASE BeginPrepare
  BY <1>0, <1>7 DEF BeginPrepare
<1>8. CASE MountCDB
  BY <1>0, <1>8 DEF MountCDB
<1>9. CASE Cleanup
  BY <1>0, <1>9 DEF Cleanup
<1>10. CASE TakeCDBResult
  BY <1>0, <1>10 DEF TakeCDBResult
<1>11. CASE Finish
  BY <1>0, <1>11 DEF Finish
<1>12. CASE OtherCDB
  BY <1>0, <1>12 DEF OtherCDB, worker
<1>13. QED
  BY <1>1, <1>2, <1>3, <1>4, <1>5, <1>6, <1>7, <1>8, <1>9, <1>10, <1>11, <1>12
     DEF WorkerStep

LEMMA DriveInvStep ==
    ASSUME WorkerTypeOK, DriveInv, WorkerStep \/ OtherCDB
    PROVE  DriveInv'
<1>0. WorkerBools /\ msg \notin {"none", "ended", "ending", "cdb mount"}
  BY WorkerTypes DEF WorkerOthers, Message
<1> USE DEF DriveInv, WorkerBools, Gone, At, GoOn
<1>1. CASE WaitWork
  BY <1>0, <1>1 DEF WaitWork
<1>2. CASE Terminate
  <2>1. CASE wpc = "TERMINATE"
    <3>1. (attached' <=> attached /\ sd = "INITIAL") /\ wpc' = "ending"
      BY <1>2, <2>1 DEF Terminate
    <3>2. QED  BY <2>1, <3>1
  <2>2. CASE wpc \in {"ending", "ended"}
    <3>1. attached' = attached /\ wpc' \in {"ended", "none"}
      BY <1>2, <2>2 DEF Terminate
    <3>2. ~attached'
      BY <2>2, <3>1
    <3>3. QED  BY <3>1, <3>2
  <2>3. QED  BY <1>2, <2>1, <2>2 DEF Terminate
<1>3. CASE BeginMount
  <2>1. /\ sd' = sd
        /\ \/ wpc' = "mounting"
           \/ wpc' = "mounted" /\ attached' = attached
    BY <1>3 DEF BeginMount
  <2>2. ~(sd = "INITIAL" /\ attached)
    BY <1>3 DEF BeginMount
  <2>3. CASE wpc' = "mounting"
    BY <2>3
  <2>4. CASE wpc' = "mounted" /\ attached' = attached
    BY <2>1, <2>2, <2>4
  <2>5. QED  BY <2>1, <2>3, <2>4
<1>4. CASE CallFAMount
  BY <1>0, <1>4 DEF CallFAMount
<1>5. CASE StoreMount
  <2>1. sd' # "INITIAL"
    BY <1>5 DEF StoreMount, StateFor
  <2>2. QED  BY <1>0, <1>5, <2>1 DEF StoreMount
<1>6. CASE EndMount
  BY <1>0, <1>6 DEF EndMount
<1>7. CASE BeginPrepare
  BY <1>0, <1>7 DEF BeginPrepare
<1>8. CASE MountCDB
  BY <1>0, <1>8 DEF MountCDB
<1>9. CASE Cleanup
  BY <1>0, <1>9 DEF Cleanup
<1>10. CASE TakeCDBResult
  BY <1>0, <1>10 DEF TakeCDBResult
<1>11. CASE Finish
  BY <1>0, <1>11 DEF Finish
<1>12. CASE OtherCDB
  BY <1>0, <1>12 DEF OtherCDB, worker
<1>13. QED
  BY <1>1, <1>2, <1>3, <1>4, <1>5, <1>6, <1>7, <1>8, <1>9, <1>10, <1>11, <1>12
     DEF WorkerStep

-----------------------------------------------------------------------------
(* The main thread as the worker sees it.                                  *)

\* Every step of the board, the card reader and the backup, but for the start
\* of the thread and the end of the scene.
MainAct ==
    \/ Overflow \/ stt_wait_init \/ BeginBackup \/ after_backup
    \/ EndWorkerEarly \/ Leave \/ EndWorker
    \/ BoardSD_update \/ CdbBackup_update

\* It sends a message to an idle worker, or none.
Sends(m) == ~working /\ working' = TRUE /\ msg' = m
MainEffect ==
    /\ UNCHANGED <<WorkerRest, mounted, cdbOk, faults>>
    /\ UNCHANGED <<working, msg>> \/ \E m \in Message : Sends(m)

LEMMA SendEffect ==
    ASSUME NEW m \in Message, SendWork(m), SendOnly
    PROVE  MainEffect
BY DEF SendWork, SendOnly, MainEffect, Sends, WorkerRest

LEMMA NothingEffect ==
    ASSUME Nothing
    PROVE  MainEffect
BY DEF Nothing, workerVars, worker, MainEffect, WorkerRest

LEMMA MainActEffect ==
    ASSUME MainAct
    PROVE  MainEffect
<1>1. Nothing \/ \E m \in Message : SendWork(m) /\ SendOnly
  <2>1. CASE Overflow \/ stt_wait_init \/ Leave
    BY <2>1 DEF Overflow, stt_wait_init, Leave, SendNothing
  <2>2. CASE BeginBackup /\ mounted
    BY <2>2 DEF BeginBackup, Message
  <2>3. CASE BeginBackup /\ ~mounted
    BY <2>3 DEF BeginBackup, SendOnly, Nothing, workerVars, worker, WorkerRest
  <2>4. CASE after_backup \/ EndWorkerEarly \/ EndWorker
    BY <2>4 DEF after_backup, EndWorkerEarly, EndWorker, Send, SendNothing, Message
  <2>5. CASE BoardSD_update
    BY <2>5 DEF BoardSD_update, BoardSD_Prepare, BoardSD_PrepareResult,
                BoardSD_Cleanup, BoardSD_CleanupResult, Send, SendNothing, Message
  <2>6. CASE CdbBackup_update
    BY <2>6 DEF CdbBackup_update, stt_wait_worker, AskWorker, stt_check_sd,
                AnswerDelete, stt_wait_delete, stt_wait_del_msg_fns,
                stt_wait_sd_back_msg, stt_check_sd_err, stt_check_prepare_back,
                stt_wait_backup, stt_wait_back_msg_fns, Confirm, Send,
                SendNothing, Message
  <2>7. QED  BY <2>1, <2>2, <2>3, <2>4, <2>5, <2>6 DEF MainAct
<1>2. QED  BY <1>1, SendEffect, NothingEffect

LEMMA MainEffectInv ==
    ASSUME WorkerTypeOK, WorkerInv, DriveInv, MainEffect,
           UNCHANGED <<working, msg>> \/ wpc # "none"
    PROVE  WorkerTypeOK' /\ WorkerInv' /\ DriveInv'
<1>1. WorkerBools /\ WorkerOthers /\ FaultsOK
  BY WorkerTypes
<1>2. WorkerBools'
  BY <1>1 DEF MainEffect, Sends, WorkerRest, WorkerBools
<1>3. WorkerOthers'
  BY <1>1 DEF MainEffect, Sends, WorkerRest, WorkerOthers
<1>4. FaultsOK'
  BY <1>1 DEF MainEffect, FaultsOK
<1>5. WorkerInv'
  <2>1. CASE UNCHANGED <<working, msg>>
    BY <2>1 DEF MainEffect, WorkerRest, WorkerInv
  <2>2. CASE wpc # "none" /\ \E m \in Message : Sends(m)
    <3>1. wpc = "wait"
      BY <2>2 DEF Sends, WorkerInv
    <3>2. QED
      BY <1>1, <2>2, <3>1 DEF MainEffect, Sends, WorkerRest, WorkerInv, WorkerBools, Gone
  <2>3. QED  BY <2>1, <2>2 DEF MainEffect
<1>6. DriveInv'
  BY DEF MainEffect, WorkerRest, DriveInv
<1>7. QED
  BY <1>2, <1>3, <1>4, <1>5, <1>6 DEF WorkerTypeOK, WorkerBools, WorkerOthers, FaultsOK

LEMMA CardEffectInv ==
    ASSUME WorkerTypeOK, WorkerInv, DriveInv, Insert \/ Eject
    PROVE  WorkerTypeOK' /\ WorkerInv' /\ DriveInv'
<1>1. WorkerBools /\ WorkerOthers /\ FaultsOK
  BY WorkerTypes
<1>2. WorkerBools'
  BY <1>1 DEF Insert, Eject, WorkerBools
<1>3. WorkerOthers'
  BY <1>1 DEF Insert, Eject, WorkerOthers, SDState
<1>4. FaultsOK'
  BY <1>1 DEF Insert, Eject, FaultsOK
<1>5. WorkerInv'
  BY DEF Insert, Eject, WorkerInv
<1>6. DriveInv'
  <2>1. UNCHANGED <<attached, wpc>> /\ (sd' = "INITIAL" => sd = "INITIAL")
    BY DEF Insert, Eject
  <2>2. QED  BY <2>1 DEF DriveInv
<1>7. QED
  BY <1>2, <1>3, <1>4, <1>5, <1>6 DEF WorkerTypeOK, WorkerBools, WorkerOthers, FaultsOK

-----------------------------------------------------------------------------
(* The board: when the thread may end.                                     *)

Asked(m) == msg = m \/ wpc = m

\* The thread ends, or has ended, only when the board leaves; and when there is
\* no board there is no thread.
Ends == Asked("TERMINATE") \/ wpc \in {"ending", "ended", "none"}
EndInv ==
    /\ Ends => board \in {"none", "done", "waiting"}
    /\ board = "none" => wpc \in Gone

BoardOthers ==
    /\ board \in BoardPC /\ bsd \in BoardSDState
    /\ bstate \in CdbBackupState /\ bnext \in CdbBackupState
    /\ over \in BOOLEAN /\ hasty \in BOOLEAN

LEMMA MainActType ==
    ASSUME WorkerTypeOK, BoardOthers, MainAct
    PROVE  BoardOthers'
<1>1. working \in BOOLEAN
  BY DEF WorkerTypeOK
<1> USE DEF SendNothing, Send
<1>2. hasty' \in BOOLEAN
  <2>1. CASE BeginBackup
    BY <1>1, <2>1 DEF BeginBackup, BoardOthers
  <2>2. CASE Overflow \/ stt_wait_init \/ after_backup \/ EndWorkerEarly \/ Leave
             \/ EndWorker
    BY <2>2 DEF Overflow, stt_wait_init, after_backup, EndWorkerEarly, Leave,
                EndWorker, BoardOthers
  <2>3. CASE BoardSD_update
    BY <2>3 DEF BoardSD_update, BoardSD_Prepare, BoardSD_PrepareResult,
                BoardSD_Cleanup, BoardSD_CleanupResult, BoardOthers
  <2>4. CASE CdbBackup_update
    BY <2>4 DEF CdbBackup_update, stt_wait_worker, AskWorker, stt_check_sd,
                AnswerDelete, stt_wait_delete, stt_wait_del_msg_fns,
                stt_wait_sd_back_msg, stt_check_sd_err, stt_check_prepare_back,
                stt_wait_backup, stt_wait_back_msg_fns, Confirm, BoardOthers
  <2>5. QED  BY <2>1, <2>2, <2>3, <2>4 DEF MainAct
<1>3. over' \in BOOLEAN
  BY DEF MainAct, Overflow, stt_wait_init, BeginBackup, after_backup, EndWorkerEarly,
         Leave, EndWorker, BoardSD_update, CdbBackup_update, stt_wait_worker,
         AskWorker, stt_check_sd, AnswerDelete, stt_wait_delete,
         stt_wait_del_msg_fns, stt_wait_sd_back_msg, stt_check_sd_err,
         stt_check_prepare_back, stt_wait_backup, stt_wait_back_msg_fns, Confirm,
         BoardOthers
<1>4. board' \in BoardPC
  BY DEF MainAct, Overflow, stt_wait_init, StartBackup, BeginBackup, after_backup,
         EndWorkerEarly, Leave, EndWorker, BoardSD_update, BoardSD_Prepare,
         BoardSD_PrepareResult, BoardSD_Cleanup, BoardSD_CleanupResult,
         CdbBackup_update, stt_wait_worker, HandleError,
         AskWorker, stt_check_sd, AnswerDelete, stt_wait_delete,
         stt_wait_del_msg_fns, stt_wait_sd_back_msg, stt_check_sd_err,
         stt_check_prepare_back, stt_wait_backup, stt_wait_back_msg_fns, Confirm,
         To, ToThen, BoardOthers, BoardPC
<1>5. bsd' \in BoardSDState
  BY DEF MainAct, Overflow, stt_wait_init, BeginBackup, after_backup,
         EndWorkerEarly, Leave, EndWorker, BoardSD_update, BoardSD_Prepare,
         BoardSD_PrepareResult, BoardSD_Cleanup, BoardSD_CleanupResult,
         CdbBackup_update, BoardOthers, BoardSDState
<1>6. bstate' \in CdbBackupState /\ bnext' \in CdbBackupState
  <2>1. CASE CdbBackup_update
    BY <2>1 DEF CdbBackup_update, stt_wait_worker, AskWorker, stt_check_sd,
                AnswerDelete, stt_wait_delete, stt_wait_del_msg_fns,
                stt_wait_sd_back_msg, stt_check_sd_err, stt_check_prepare_back,
                stt_wait_backup, stt_wait_back_msg_fns, Confirm, To, ToThen, Next_,
                BoardOthers, CdbBackupState
  <2>2. CASE \/ Overflow \/ stt_wait_init \/ BeginBackup \/ after_backup
             \/ EndWorkerEarly \/ Leave \/ EndWorker \/ BoardSD_update
    BY <2>2 DEF Overflow, stt_wait_init, StartBackup, BeginBackup, after_backup,
                EndWorkerEarly, Leave, EndWorker, BoardSD_update, BoardOthers,
                CdbBackupState
  <2>3. QED  BY <2>1, <2>2 DEF MainAct
<1>7. QED  BY <1>2, <1>3, <1>4, <1>5, <1>6 DEF BoardOthers
\* The board goes on, and asks the worker for something else than its end.
LEMMA MainActEnd ==
    ASSUME MainAct
    PROVE  \/ board \in {"settings", "leaving"} /\ board' \in {"done", "waiting"}
           \/ board = "done" /\ board' = "waiting" /\ UNCHANGED <<working, msg>>
           \/ /\ board \notin {"none", "done", "waiting"}
              /\ board' # "none"
              /\ UNCHANGED msg \/ msg' # "TERMINATE"
<1> USE DEF SendNothing, Nothing, workerVars, worker, Send, SendWork
<1>1. CASE Overflow \/ stt_wait_init \/ BeginBackup \/ after_backup
  BY <1>1 DEF Overflow, stt_wait_init, StartBackup, BeginBackup, after_backup
<1>2. CASE EndWorkerEarly \/ Leave \/ EndWorker
  BY <1>2 DEF EndWorkerEarly, Leave, EndWorker
<1>3. CASE BoardSD_update
  BY <1>3 DEF BoardSD_update, BoardSD_Prepare, BoardSD_PrepareResult, HandleError,
              BoardSD_Cleanup, BoardSD_CleanupResult
<1>4. CASE CdbBackup_update
  BY <1>4 DEF CdbBackup_update, stt_wait_worker, HandleError, AskWorker,
              stt_check_sd, AnswerDelete, stt_wait_delete, stt_wait_del_msg_fns,
              stt_wait_sd_back_msg, stt_check_sd_err, stt_check_prepare_back,
              stt_wait_backup, stt_wait_back_msg_fns, Confirm, To, ToThen, In
<1>5. QED  BY <1>1, <1>2, <1>3, <1>4 DEF MainAct

\* The thread does not come to its end unless it was asked to.
LEMMA WorkerEnd ==
    ASSUME WorkerTypeOK, WorkerInv, WorkerStep \/ OtherCDB
    PROVE  (Ends' => Ends) /\ (wpc \in Gone => wpc' \in Gone)
<1>1. msg \notin {"none", "ended", "ending"} /\ (wpc \in Gone => msg = "NONE")
  BY WorkerTypes DEF WorkerOthers, Message, WorkerInv, Gone
<1> USE DEF Ends, Asked, Gone, At, GoOn
<1>2. CASE WaitWork
  BY <1>1, <1>2 DEF WaitWork
<1>3. CASE Terminate
  BY <1>3 DEF Terminate
<1>4. CASE BeginMount
  BY <1>4 DEF BeginMount
<1>5. CASE \/ CallFAMount \/ StoreMount \/ EndMount \/ BeginPrepare
           \/ MountCDB \/ Cleanup \/ TakeCDBResult \/ Finish
  BY <1>5 DEF CallFAMount, StoreMount, EndMount, BeginPrepare, MountCDB, Cleanup,
              TakeCDBResult, Finish
<1>6. CASE OtherCDB
  BY <1>6 DEF OtherCDB, worker
<1>7. QED  BY <1>2, <1>3, <1>4, <1>5, <1>6 DEF WorkerStep

LEMMA CreateStep ==
    ASSUME WorkerTypeOK, WorkerInv, DriveInv, BoardOthers, Board_create
    PROVE  /\ WorkerTypeOK' /\ WorkerInv' /\ DriveInv' /\ BoardOthers'
           /\ msg' = "MOUNT" /\ wpc' = "wait" /\ board' = "init" /\ bsd' = "PREPARE"
<1>1. /\ wpc = "none" /\ alive' = TRUE /\ working' = TRUE /\ msg' = "MOUNT"
      /\ sd' = "INITIAL" /\ result' = "WORKING" /\ prev' = "WORKING" /\ wpc' = "wait"
      /\ UNCHANGED <<first, outcome, flag, attached, mounted, cdbOk, card, faults,
                     missed>>
      /\ board' = "init" /\ bsd' = "PREPARE"
      /\ UNCHANGED <<bstate, bnext, over, hasty>>
  BY DEF Board_create, CreateWorker
<1>2. ~attached
  BY <1>1 DEF DriveInv
<1>3. WorkerTypeOK'
  BY <1>1 DEF WorkerTypeOK, Message, SDState, Result, WorkerPC
<1>4. WorkerInv'
  BY <1>1 DEF WorkerInv, Gone
<1>5. DriveInv'
  <2>1. ~attached'
    BY <1>1, <1>2
  <2>2. QED  BY <2>1 DEF DriveInv
<1>6. BoardOthers'
  BY <1>1 DEF BoardOthers, BoardPC, BoardSDState
<1>7. QED  BY <1>1, <1>3, <1>4, <1>5, <1>6

LEMMA DestroyStep ==
    ASSUME WorkerTypeOK, WorkerInv, DriveInv, BoardOthers, Board_destroy
    PROVE  /\ WorkerTypeOK' /\ WorkerInv' /\ DriveInv' /\ BoardOthers'
           /\ wpc' \in Gone
<1>1. /\ ~alive /\ UNCHANGED <<working, msg, WorkerRest>>
      /\ board' = "none"
      /\ UNCHANGED <<bsd, bstate, bnext, over, hasty>>
  BY DEF Board_destroy
<1>2. mounted' \in BOOLEAN /\ cdbOk' \in BOOLEAN /\ (Fault \/ UNCHANGED faults)
  BY DEF Board_destroy, UnmountCDB, NoFault, WorkerTypeOK
<1>3. FaultsOK'
  BY <1>2, CountFaults DEF WorkerTypeOK, FaultsOK
<1>4. WorkerTypeOK'
  <2>1. WorkerBools'
    BY <1>1, <1>2 DEF WorkerRest, WorkerTypeOK, WorkerBools
  <2>2. WorkerOthers'
    BY <1>1 DEF WorkerRest, WorkerTypeOK, WorkerOthers
  <2>3. QED  BY <1>3, <2>1, <2>2 DEF WorkerTypeOK, WorkerBools, WorkerOthers, FaultsOK
<1>5. WorkerInv' /\ DriveInv'
  BY <1>1 DEF WorkerRest, WorkerInv, DriveInv
<1>6. BoardOthers'
  BY <1>1 DEF BoardOthers, BoardPC
<1>7. wpc' \in Gone
  BY <1>1 DEF WorkerRest, WorkerInv
<1>8. QED  BY <1>4, <1>5, <1>6, <1>7

\* Everything but the two libraries.
BoardInv == WorkerTypeOK /\ WorkerInv /\ DriveInv /\ BoardOthers /\ EndInv

LEMMA BoardInitInv == BoardInit => BoardInv
<1> SUFFICES ASSUME BoardInit PROVE BoardInv
  OBVIOUS
<1>1. FaultsOK
  BY SDVFWorkerAssumption DEF BoardInit, WorkerInit, FaultsOK
<1>2. WorkerTypeOK
  BY <1>1 DEF BoardInit, WorkerInit, FaultsOK, WorkerTypeOK, SDState, Result, WorkerPC
<1>3. WorkerInv /\ DriveInv
  BY DEF BoardInit, WorkerInit, WorkerInv, DriveInv, Gone
<1>4. BoardOthers /\ EndInv
  BY DEF BoardInit, WorkerInit, BoardOthers, BoardPC, BoardSDState, CdbBackupState,
         EndInv, Gone
<1>5. QED  BY <1>2, <1>3, <1>4 DEF BoardInv

LEMMA BoardStepInv ==
    ASSUME BoardInv, [BoardNext]_vars
    PROVE  BoardInv'
<1> USE DEF BoardInv
<1>1. CASE UNCHANGED vars
  <2>1. WorkerTypeOK'
    BY <1>1 DEF vars, workerVars, worker, WorkerTypeOK
  <2>2. WorkerInv' /\ DriveInv'
    BY <1>1 DEF vars, workerVars, worker, WorkerInv, DriveInv
  <2>3. BoardOthers' /\ EndInv'
    BY <1>1 DEF vars, workerVars, worker, boardVars, BoardOthers, EndInv, Ends, Asked
  <2>4. QED  BY <2>1, <2>2, <2>3
<1>2. CASE Board_create
  BY <1>2, CreateStep DEF EndInv, Ends, Asked
<1>3. CASE Board_destroy
  BY <1>3, DestroyStep DEF EndInv, Board_destroy
<1>4. CASE MainAct
  <2>1. MainEffect /\ BoardOthers'
    BY <1>4, MainActEffect, MainActType
  <2>2. UNCHANGED <<working, msg>> \/ wpc # "none"
    BY <1>4, MainActEnd DEF EndInv, Ends
  <2>3. WorkerTypeOK' /\ WorkerInv' /\ DriveInv'
    BY <2>1, <2>2, MainEffectInv
  <2>4. EndInv'
    BY <1>4, <2>1, MainActEnd DEF MainEffect, WorkerRest, EndInv, Ends, Asked
  <2>5. QED  BY <2>1, <2>3, <2>4
<1>5. CASE (Insert \/ Eject) /\ UNCHANGED boardVars
  <2>1. WorkerTypeOK' /\ WorkerInv' /\ DriveInv'
    BY <1>5, CardEffectInv
  <2>2. UNCHANGED <<msg, wpc>>
    BY <1>5 DEF Insert, Eject
  <2>3. QED  BY <1>5, <2>1, <2>2 DEF boardVars, BoardOthers, EndInv, Ends, Asked
<1>6. CASE (WorkerStep \/ OtherCDB) /\ UNCHANGED boardVars
  <2>1. WorkerTypeOK' /\ WorkerInv' /\ DriveInv'
    BY <1>6, WorkerType, WorkerInvStep, DriveInvStep
  <2>2. QED  BY <1>6, <2>1, WorkerEnd DEF boardVars, BoardOthers, EndInv
<1>7. QED
  BY <1>1, <1>2, <1>3, <1>4, <1>5, <1>6
     DEF BoardNext, MainAct, CardStep, LibraryStep

LEMMA BoardInvariant == BoardSpec => []BoardInv
BY BoardInitInv, BoardStepInv, PTL DEF BoardSpec

-----------------------------------------------------------------------------
(* Who has the card.                                                       *)

\* The worker mounts the card for CDB, or is about to.
Preparing == Asked("PREPARE") \/ wpc = "cdb mount"

\* The board or the backup waits for that, or looks at what came of it.
InPrepare ==
    \/ board = "normal" /\ bsd = "PREPARE_RESULT"
    \/ In("WAIT_WORKER") /\ bnext = "SD_BACK_PREPARE"
    \/ In("SD_BACK_PREPARE")

\* It waits for the card to be given up.
InCleanup ==
    \/ board = "normal" /\ bsd = "CLEANUP_RESULT"
    \/ In("WAIT_WORKER") /\ bnext = "MOUNT_SD"

\* It uses the card, and the worker has nothing to do.
Backing ==
    \/ bstate \in {"WAIT_SD_BACKING", "DONE_SD_BACK", "CLEAN_SD_BACK", "FINISHED_2"}
    \/ bstate = "WAIT_RET" /\ bnext = "CLEAN_SD_BACK"
    \/ bstate = "WAIT_FINISH_MSG" /\ bnext = "FINISHED_2"
Idle ==
    \/ board = "normal" /\ bsd = "CLEANUP"
    \/ board = "backup" /\ Backing
    \/ In("FINISHED") /\ mounted

Holds == InPrepare \/ InCleanup \/ Idle
            \/ board \in {"leaving", "waiting", "done", "error"}

\* The worker is not asked to look at the card while CDB has it, and the board
\* knows when it was mounted.
Safe ==
    /\ Asked("MOUNT") => ~mounted
    /\ wpc = "cdb done" /\ mounted => cdbOk
    /\ InPrepare => ~Asked("MOUNT") /\ wpc \notin {"mounting", "store"}
    /\ InPrepare /\ mounted => wpc = "cdb done" \/ result = "SUCCESS"
    /\ InCleanup /\ mounted => Asked("CLEANUP")
    /\ InCleanup => ~Preparing
    /\ mounted => ~attached
    /\ Preparing => ~mounted

\* Only in certain phases CDB has the card or is about to; and what follows the
\* waits of the backup.
Phased ==
    /\ mounted \/ Preparing => Holds
    /\ Idle \/ In("SD_CHECK_ERR") \/ In("SD_BACK_PREPARE") => ~working
    /\ board = "none" => ~mounted
    /\ board = "init" => bsd = "PREPARE"
    /\ In("WAIT_WORKER") =>
          bnext \in {"MOUNT_SD", "CHECK_SD", "SD_CHECK_ERR", "SD_BACK_PREPARE"}
    /\ In("WAIT_RET") => bnext \in {"MOUNT_SD", "CLEAN_SD_BACK"}
    /\ In("WAIT_FINISH_MSG") => bnext \in {"FINISHED", "FINISHED_2"}

CardInv == faults = 0 /\ ~hasty => Safe /\ Phased


\* A worker that does not work has nothing of this under way.
LEMMA Quiet ==
    ASSUME WorkerInv, ~working
    PROVE  /\ msg = "NONE" /\ wpc \in {"wait", "none"}
           /\ ~Preparing /\ ~Asked("MOUNT") /\ ~Asked("CLEANUP")
BY DEF WorkerInv, Preparing, Asked

\* A step that leaves the phases alone.
LEMMA SamePhase ==
    ASSUME UNCHANGED <<board, bsd, bstate, bnext>>
    PROVE  (InPrepare' <=> InPrepare) /\ (InCleanup' <=> InCleanup)
BY DEF InPrepare, InCleanup, In

LEMMA PhasedWorker ==
    ASSUME Phased, UNCHANGED <<board, bsd, bstate, bnext>>, working,
           mounted' => mounted \/ Preparing, Preparing' => Preparing
    PROVE  Phased'
<1>1. ~Idle /\ ~In("SD_CHECK_ERR") /\ ~In("SD_BACK_PREPARE")
  BY DEF Phased
<1>2. ~In("SD_CHECK_ERR")' /\ ~In("SD_BACK_PREPARE")'
  BY <1>1 DEF In
<1>4. ~(In("FINISHED") /\ mounted')
  BY <1>1 DEF Phased, Holds, Idle, InPrepare, InCleanup, In
<1>5. ~Idle'
  BY <1>1, <1>4 DEF Idle, Backing, In
<1>6. mounted' \/ Preparing' => Holds'
  BY <1>1, SamePhase DEF Phased, Holds
<1>7. board' = "none" => ~mounted'
  BY <1>1 DEF Phased, Holds, InPrepare, InCleanup, In
<1>8. /\ board' = "init" => bsd' = "PREPARE"
      /\ In("WAIT_WORKER")' =>
            bnext' \in {"MOUNT_SD", "CHECK_SD", "SD_CHECK_ERR", "SD_BACK_PREPARE"}
      /\ In("WAIT_RET")' => bnext' \in {"MOUNT_SD", "CLEAN_SD_BACK"}
      /\ In("WAIT_FINISH_MSG")' => bnext' \in {"FINISHED", "FINISHED_2"}
  BY DEF Phased, In
<1>9. QED  BY <1>2, <1>5, <1>6, <1>7, <1>8 DEF Phased

LEMMA SoleWorker ==
    ASSUME WorkerTypeOK, WorkerInv, DriveInv, Safe, Phased, WorkerStep,
           UNCHANGED boardVars, faults = 0, faults' = 0
    PROVE  Safe' /\ Phased'
<1>1. working
  BY Quiet
     DEF WorkerInv, WorkerStep, WaitWork, Terminate, BeginMount, CallFAMount,
         StoreMount, EndMount, BeginPrepare, MountCDB, Cleanup, TakeCDBResult,
         Finish, At
<1>2. UNCHANGED <<board, bsd, bstate, bnext>> /\ WorkerBools /\ ~Fault
  BY WorkerTypes DEF boardVars, Fault
<1>3. msg \notin {"cdb mount", "cdb done", "mounting", "store"}
  BY DEF WorkerTypeOK, Message
<1>4. msg # "NONE" => wpc = "wait"
  BY DEF WorkerInv
\* What each step changes.
<1> DEFINE Rest_ == UNCHANGED <<mounted, cdbOk, attached, result>>
<1>5. (InPrepare' <=> InPrepare) /\ (InCleanup' <=> InCleanup)
  BY <1>2, SamePhase
<1>6. CASE WaitWork
  <2>1. wpc = "wait" /\ wpc' = msg /\ msg' = "NONE" /\ Rest_
    BY <1>6 DEF WaitWork, At, GoOn
  <2>2. (mounted' => mounted \/ Preparing) /\ (Preparing' => Preparing)
    BY <1>3, <2>1 DEF Preparing, Asked
  <2>3. Safe'
    BY <1>2, <1>3, <2>1, <2>2, <1>5 DEF Safe, Preparing, Asked
  <2>4. QED  BY <1>1, <1>2, <2>2, <2>3, PhasedWorker
<1>7. CASE Terminate \/ EndMount \/ CallFAMount \/ StoreMount
  <2>1. /\ wpc \in {"TERMINATE", "ending", "ended", "mounted", "mounting", "store"}
        /\ wpc' \in {"ending", "ended", "none", "finish", "store", "mounted"}
        /\ (wpc' = "store" => wpc = "mounting")
        /\ UNCHANGED <<msg, mounted, cdbOk>> /\ (attached' => attached)
        /\ wpc \in {"mounting", "store"} \/ result' = result
    BY <1>2, <1>7 DEF Terminate, EndMount, CallFAMount, StoreMount, At, GoOn, WorkerBools
  <2>2. (mounted' => mounted \/ Preparing) /\ (Preparing' => Preparing)
    BY <2>1 DEF Preparing, Asked
  <2>3. Safe'
    BY <1>2, <1>4, <2>1, <2>2, <1>5 DEF Safe, Preparing, Asked
  <2>4. QED  BY <1>1, <1>2, <2>2, <2>3, PhasedWorker
<1>8. CASE BeginMount
  <2>1. /\ wpc = "MOUNT" /\ wpc' \in {"mounting", "mounted"}
        /\ UNCHANGED <<msg, mounted, cdbOk>>
    BY <1>8 DEF BeginMount, At, GoOn
  <2>2. (mounted' => mounted \/ Preparing) /\ (Preparing' => Preparing)
    BY <2>1 DEF Preparing, Asked
  <2>3. ~mounted /\ ~InPrepare
    BY <2>1 DEF Safe, Asked
  <2>4. Safe'
    BY <1>2, <1>4, <2>1, <2>2, <2>3, <1>5 DEF Safe, Preparing, Asked
  <2>5. QED  BY <1>1, <1>2, <2>2, <2>4, PhasedWorker
<1>9. CASE BeginPrepare
  <2>1. /\ wpc = "PREPARE" /\ wpc' = "cdb mount"
        /\ UNCHANGED <<msg, mounted, cdbOk, result>> /\ (attached' => attached)
    BY <1>2, <1>9 DEF BeginPrepare, At, GoOn, WorkerBools
  <2>2. (mounted' => mounted \/ Preparing) /\ (Preparing' => Preparing)
    BY <2>1 DEF Preparing, Asked
  <2>3. Safe'
    BY <1>2, <1>4, <2>1, <2>2, <1>5 DEF Safe, Preparing, Asked
  <2>4. QED  BY <1>1, <1>2, <2>2, <2>3, PhasedWorker
<1>10. CASE MountCDB
  <2>1. /\ wpc = "cdb mount" /\ wpc' = "cdb done"
        /\ UNCHANGED <<msg, attached, result>> /\ ~attached
        /\ ~mounted /\ (mounted' => cdbOk')
    BY <1>2, <1>10 DEF MountCDB, At, GoOn, DriveInv, Safe, Preparing
  <2>2. (mounted' => mounted \/ Preparing) /\ (Preparing' => Preparing) /\ ~InCleanup
    BY <2>1 DEF Preparing, Asked, Safe
  <2>3. ~Preparing' /\ ~Asked("MOUNT")'
    BY <1>4, <2>1 DEF Preparing, Asked
  <2>4. Safe'
    BY <1>2, <2>1, <2>2, <2>3, <1>5 DEF Safe
  <2>5. QED  BY <1>1, <1>2, <2>2, <2>4, PhasedWorker
<1>11. CASE Cleanup
  <2>1. wpc = "CLEANUP" /\ wpc' = "cdb done" /\ ~mounted'
        /\ UNCHANGED <<msg, attached, result>>
    BY <1>2, <1>11 DEF Cleanup, UnmountCDB, At, GoOn, WorkerBools
  <2>2. (mounted' => mounted \/ Preparing) /\ (Preparing' => Preparing)
    BY <2>1 DEF Preparing, Asked
  <2>3. Safe'
    BY <1>2, <1>4, <2>1, <2>2, <1>5 DEF Safe, Preparing, Asked
  <2>4. QED  BY <1>1, <1>2, <2>2, <2>3, PhasedWorker
<1>12. CASE TakeCDBResult
  <2>1. /\ wpc = "cdb done" /\ wpc' = "finish"
        /\ UNCHANGED <<msg, mounted, attached>>
        /\ cdbOk => result' = "SUCCESS"
    BY <1>2, <1>12 DEF TakeCDBResult, At, GoOn
  <2>2. (mounted' => mounted \/ Preparing) /\ (Preparing' => Preparing)
    BY <2>1 DEF Preparing, Asked
  <2>3. Safe'
    BY <1>2, <1>4, <2>1, <2>2, <1>5 DEF Safe, Preparing, Asked
  <2>4. QED  BY <1>1, <1>2, <2>2, <2>3, PhasedWorker
<1>13. CASE Finish
  <2>1. wpc = "finish" /\ wpc' = "wait" /\ UNCHANGED msg /\ Rest_
    BY <1>13 DEF Finish, At, GoOn
  <2>2. (mounted' => mounted \/ Preparing) /\ (Preparing' => Preparing)
    BY <2>1 DEF Preparing, Asked
  <2>3. Safe'
    BY <1>2, <1>4, <2>1, <2>2, <1>5 DEF Safe, Preparing, Asked
  <2>4. QED  BY <1>1, <1>2, <2>2, <2>3, PhasedWorker
<1>14. QED
  BY <1>6, <1>7, <1>8, <1>9, <1>10, <1>11, <1>12, <1>13 DEF WorkerStep
\* The main thread touches no other variable of the worker than its message,
\* and finds it idle if it sends one.
Sent(m) == /\ msg = "NONE" /\ wpc \in {"wait", "none"} /\ ~working
           /\ msg' = m /\ working' = TRUE
Silent  == UNCHANGED <<msg, working>>
Lost    == working /\ UNCHANGED <<msg, working>>

LEMMA SendsOrNot ==
    ASSUME WorkerInv, WorkerTypeOK, NEW m, Send(m)
    PROVE  Sent(m) \/ Lost
<1>1. working \in BOOLEAN
  BY DEF WorkerTypeOK
<1>2. ~working => msg = "NONE" /\ wpc \in {"wait", "none"}
  BY DEF WorkerInv
<1>3. QED  BY <1>1, <1>2 DEF Send, SendWork, Sent, Lost

LEMMA SoleMain ==
    ASSUME WorkerTypeOK, WorkerInv, Safe, Phased, MainAct, ~hasty'
    PROVE  Safe' /\ Phased'
<1>1. /\ UNCHANGED <<wpc, mounted, cdbOk, attached, result>>
      /\ ~working => msg = "NONE" /\ wpc \in {"wait", "none"}
  BY MainActEffect DEF MainEffect, WorkerRest, WorkerInv
<1>2. SendNothing => Silent
  BY DEF SendNothing, Nothing, workerVars, worker, Silent
<1> USE DEF Safe, Phased, Holds, Idle, Backing, InPrepare, InCleanup, In,
            Preparing, Asked
<1>3. CASE Overflow
  <2>1. UNCHANGED <<working, msg, board, bsd, bstate, bnext>>
    BY <1>2, <1>3 DEF Overflow, Silent
  <2>2. Safe'
    BY <1>1, <2>1
  <2>3. Phased'
    BY <1>1, <2>1
  <2>4. QED  BY <2>2, <2>3
<1>4. CASE stt_wait_init
  BY <1>1, <1>2, <1>4 DEF stt_wait_init, StartBackup, Silent
<1>5. CASE BeginBackup
  <2>1. ~working
    BY <1>5 DEF BeginBackup
  <2>2. CASE mounted
    BY <1>1, <1>5, <2>1, <2>2 DEF BeginBackup, SendWork
  <2>3. CASE ~mounted
    BY <1>1, <1>5, <2>1, <2>3 DEF BeginBackup
  <2>4. QED  BY <2>2, <2>3
<1>6. CASE after_backup
  <2>1. CASE mounted
    <3>1. /\ Silent /\ board = "backup" /\ bstate = "FINISHED"
          /\ board' = "normal" /\ bsd' = "CLEANUP" /\ bstate' = "NONE"
      BY <1>2, <1>6, <2>1 DEF after_backup
    <3>2. ~working
      BY <2>1, <3>1
    <3>3. QED  BY <1>1, <2>1, <3>1, <3>2 DEF Silent
  <2>2. CASE ~mounted
    <3>1. Sent("MOUNT") \/ Lost
      BY <1>6, <2>2, SendsOrNot DEF after_backup
    <3>2. QED  BY <1>1, <1>6, <2>2, <3>1 DEF after_backup, Sent, Lost
  <2>3. QED  BY <2>1, <2>2
<1>7. CASE EndWorkerEarly \/ EndWorker
  <2>1. Sent("TERMINATE") \/ Lost
    BY <1>7, SendsOrNot DEF EndWorkerEarly, EndWorker
  <2>2. QED  BY <1>1, <1>7, <2>1 DEF EndWorkerEarly, EndWorker, Sent, Lost
<1>8. CASE Leave
  BY <1>1, <1>2, <1>8 DEF Leave, Silent<1>9. CASE BoardSD_update /\ BoardSD_Prepare
  <2>1. ~mounted /\ ~Preparing
    BY <1>9 DEF BoardSD_update, BoardSD_Prepare
  <2>2. CASE sd = "INSERTED" /\ Send("MOUNT") /\ UNCHANGED bsd
    <3>1. Sent("MOUNT")
      BY <1>9, <2>2, SendsOrNot DEF BoardSD_Prepare, Lost
    <3>2. QED  BY <1>1, <1>9, <2>1, <2>2, <3>1 DEF BoardSD_update, BoardSD_Prepare, Sent
  <2>3. CASE sd = "READY" /\ Send("PREPARE") /\ bsd' = "PREPARE_RESULT"
    <3>1. Sent("PREPARE")
      BY <1>9, <2>3, SendsOrNot DEF BoardSD_Prepare, Lost
    <3>2. QED  BY <1>1, <1>9, <2>1, <2>3, <3>1 DEF BoardSD_update, BoardSD_Prepare, Sent
  <2>4. QED  BY <1>9, <2>2, <2>3 DEF BoardSD_Prepare
<1>10. CASE BoardSD_update /\ BoardSD_PrepareResult
  <2>1. CASE result = "SUCCESS"
    <3>1. /\ Silent /\ ~working /\ board = "normal" /\ board' = board
          /\ bsd = "PREPARE_RESULT" /\ bsd' = "CLEANUP" /\ UNCHANGED <<bstate, bnext>>
      BY <1>2, <1>10, <2>1 DEF BoardSD_update, BoardSD_PrepareResult, HandleError
    <3>2. QED  BY <1>1, <3>1 DEF Silent
  <2>2. CASE result # "SUCCESS"
    <3>1. ~mounted /\ ~Preparing
      BY <1>1, <1>10, <2>2 DEF BoardSD_update, BoardSD_PrepareResult
    <3>2. Sent("MOUNT") /\ bsd' = "PREPARE" /\ board' \in {"normal", "error"}
      BY <1>10, <2>2, SendsOrNot
         DEF BoardSD_update, BoardSD_PrepareResult, HandleError, Lost
    <3>3. UNCHANGED <<bstate, bnext>> /\ board = "normal"
      BY <1>10 DEF BoardSD_update
    <3>4. QED  BY <1>1, <3>1, <3>2, <3>3 DEF Sent
  <2>3. QED  BY <2>1, <2>2
<1>11. CASE BoardSD_update /\ BoardSD_Cleanup
  <2>1. Sent("CLEANUP")
    BY <1>11, SendsOrNot DEF BoardSD_update, BoardSD_Cleanup, Lost
  <2>2. QED  BY <1>1, <1>11, <2>1 DEF BoardSD_update, BoardSD_Cleanup, Sent
<1>12. CASE BoardSD_update /\ BoardSD_CleanupResult
  <2>1. ~mounted /\ ~Preparing
    BY <1>1, <1>12 DEF BoardSD_update, BoardSD_CleanupResult
  <2>2. Sent("MOUNT") /\ bsd' = "PREPARE" /\ board' \in {"normal", "error"}
    BY <1>12, SendsOrNot
       DEF BoardSD_update, BoardSD_CleanupResult, HandleError, Lost
  <2>3. UNCHANGED <<bstate, bnext>> /\ board = "normal"
    BY <1>12 DEF BoardSD_update
  <2>4. QED  BY <1>1, <2>1, <2>2, <2>3 DEF Sent
<1>13. CASE CdbBackup_update
  <2>1. UNCHANGED bsd /\ board = "backup"
    BY <1>13 DEF CdbBackup_update, stt_wait_worker, AskWorker, stt_check_sd,
         AnswerDelete, stt_wait_delete, stt_wait_del_msg_fns, stt_wait_sd_back_msg,
         stt_check_sd_err, stt_check_prepare_back, stt_wait_backup,
         stt_wait_back_msg_fns, Confirm
  <2>2. CASE stt_wait_worker
    <3>1. board' \in {"backup", "error"} /\ Silent /\ ~working
          /\ bstate = "WAIT_WORKER" /\ bstate' = bnext /\ bnext' = "NONE"
      BY <1>2, <2>1, <2>2 DEF stt_wait_worker, HandleError, Next_
    <3>2. QED  BY <1>1, <2>1, <3>1 DEF Silent
  <2>3. CASE AskWorker /\ In("MOUNT_SD")
    <3>1. ~mounted /\ ~Preparing
      BY <2>1, <2>3
    <3>2. (Sent("MOUNT") \/ Lost) /\ UNCHANGED board /\ bstate = "MOUNT_SD"
          /\ bstate' = "WAIT_WORKER" /\ bnext' = "CHECK_SD"
      BY <2>3, SendsOrNot DEF AskWorker, ToThen
    <3>3. QED  BY <1>1, <2>1, <3>1, <3>2 DEF Sent, Lost
  <2>4. CASE AskWorker /\ In("CLEAN_SD_BACK")
    <3>1. ~working
      BY <2>1, <2>4
    <3>2. Sent("CLEANUP") /\ UNCHANGED board
          /\ bstate' = "WAIT_WORKER" /\ bnext' = "MOUNT_SD"
      BY <2>4, <3>1, SendsOrNot DEF AskWorker, ToThen, Lost
    <3>3. QED  BY <1>1, <2>1, <3>1, <3>2 DEF Sent
  <2>5. CASE stt_check_sd
    <3>1. Silent /\ UNCHANGED <<board, bnext>> /\ bstate = "CHECK_SD"
          /\ bstate' \in {"DELETING", "MOUNT_SD", "SD_BACKING"}
      BY <1>2, <2>5 DEF stt_check_sd, To
    <3>2. QED  BY <1>1, <2>1, <3>1 DEF Silent
  <2>6. CASE AnswerDelete
    <3>1. Silent /\ UNCHANGED board /\ bstate \in {"DELETING", "DELETING_2"}
          /\ \/ bstate' \in {"WAIT_DELETING", "CHECK_SD"}
             \/ bstate' = "WAIT_RET" /\ bnext' = "MOUNT_SD"
      BY <1>2, <2>6 DEF AnswerDelete, To, ToThen
    <3>2. QED  BY <1>1, <2>1, <3>1 DEF Silent
  <2>7. CASE stt_wait_delete \/ stt_wait_del_msg_fns
    <3>1. Silent /\ UNCHANGED board /\ bstate \in {"WAIT_DELETING", "DONE_DELETE"}
          /\ \/ bstate' = "DONE_DELETE"
             \/ bstate' = "WAIT_FINISH_MSG" /\ bnext' = "FINISHED"
      BY <1>2, <2>7 DEF stt_wait_delete, stt_wait_del_msg_fns, To, ToThen
    <3>2. QED  BY <1>1, <2>1, <3>1 DEF Silent
  <2>8. CASE stt_wait_sd_back_msg
    <3>1. ~mounted /\ ~Preparing
      BY <2>1, <2>8 DEF stt_wait_sd_back_msg
    <3>2. UNCHANGED board /\ bstate = "SD_BACKING"
          /\ \/ bstate' = "SD_BACKING" \/ bstate' = "DELETING_2"
             \/ bstate' = "WAIT_WORKER" /\ bnext' = "SD_CHECK_ERR"
             \/ bstate' = "SD_CHECK_ERR" /\ ~working /\ Silent
      BY <1>2, <2>8 DEF stt_wait_sd_back_msg, To, ToThen
    <3>3. Silent \/ Sent("MOUNT")
      BY <1>2, <2>8, SendsOrNot DEF stt_wait_sd_back_msg, Lost
    <3>4. CASE Silent
      BY <1>1, <2>1, <3>1, <3>2, <3>4 DEF Silent
    <3>5. CASE Sent("MOUNT")
      <4>1. ~(bstate' = "SD_CHECK_ERR")
        BY <2>8, <3>5 DEF stt_wait_sd_back_msg, To, ToThen, SendNothing, Nothing, workerVars, worker, Sent
      <4>2. QED  BY <1>1, <2>1, <3>1, <3>2, <3>5, <4>1 DEF Sent
    <3>6. QED  BY <3>3, <3>4, <3>5
  <2>9. CASE stt_check_sd_err
    <3>1. ~mounted /\ ~Preparing /\ ~working
      BY <2>1, <2>9 DEF stt_check_sd_err
    <3>2. UNCHANGED board /\ bstate = "SD_CHECK_ERR"
          /\ \/ Sent("PREPARE") /\ bstate' = "WAIT_WORKER" /\ bnext' = "SD_BACK_PREPARE"
             \/ Silent /\ bstate' = "WAIT_RET" /\ bnext' = "MOUNT_SD"
      BY <1>2, <2>9, <3>1, SendsOrNot DEF stt_check_sd_err, ToThen, Lost
    <3>3. QED  BY <1>1, <2>1, <3>1, <3>2 DEF Sent, Silent
  <2>10. CASE stt_check_prepare_back
    <3>1. Silent /\ UNCHANGED board /\ bstate = "SD_BACK_PREPARE" /\ ~working
          /\ \/ bstate' = "WAIT_SD_BACKING"
             \/ result # "SUCCESS" /\ bstate' = "WAIT_RET" /\ bnext' = "MOUNT_SD"
      BY <1>2, <2>1, <2>10 DEF stt_check_prepare_back, To, ToThen
    <3>2. QED  BY <1>1, <2>1, <3>1 DEF Silent
  <2>11. CASE stt_wait_backup \/ stt_wait_back_msg_fns
    <3>1. Silent /\ UNCHANGED board /\ bstate \in {"WAIT_SD_BACKING", "DONE_SD_BACK"}
          /\ \/ bstate' = "DONE_SD_BACK"
             \/ bstate' = "WAIT_FINISH_MSG" /\ bnext' = "FINISHED_2"
             \/ bstate' = "WAIT_RET" /\ bnext' = "CLEAN_SD_BACK"
      BY <1>2, <2>11 DEF stt_wait_backup, stt_wait_back_msg_fns, To, ToThen
    <3>2. QED  BY <1>1, <2>1, <3>1 DEF Silent
  <2>12. CASE Confirm
    <3>1. Silent /\ UNCHANGED board
          /\ \/ bstate \in {"WAIT_RET", "WAIT_FINISH_MSG"} /\ bstate' = bnext
             \/ bstate = "FINISHED_2" /\ bstate' = "FINISHED"
      BY <1>2, <2>12 DEF Confirm, Next_
    <3>2. QED  BY <1>1, <2>1, <3>1 DEF Silent
  <2>13. QED
    BY <1>13, <2>2, <2>3, <2>4, <2>5, <2>6, <2>7, <2>8, <2>9, <2>10, <2>11, <2>12
       DEF CdbBackup_update, AskWorker
<1>14. QED
  BY <1>3, <1>4, <1>5, <1>6, <1>7, <1>8, <1>9, <1>10, <1>11, <1>12, <1>13
     DEF MainAct, BoardSD_update
\* Neither history is ever taken back.
LEMMA HistoryStays ==
    ASSUME BoardInv, [BoardNext]_vars
    PROVE  (faults' = 0 => faults = 0) /\ (~hasty' => ~hasty)
<1>1. faults \in Nat /\ hasty \in BOOLEAN /\ working \in BOOLEAN
  BY SDVFWorkerAssumption DEF BoardInv, WorkerTypeOK, BoardOthers
<1>2. CASE MainAct
  <2>1. UNCHANGED faults
    BY <1>2, MainActEffect DEF MainEffect
  <2>2. UNCHANGED hasty \/ (hasty' <=> hasty \/ working)
    <3>1. CASE BeginBackup
      BY <3>1 DEF BeginBackup
    <3>2. CASE \/ Overflow \/ stt_wait_init \/ after_backup \/ EndWorkerEarly \/ Leave
               \/ EndWorker \/ BoardSD_update
      BY <3>2 DEF Overflow, stt_wait_init, after_backup, EndWorkerEarly, Leave,
                  EndWorker, BoardSD_update, BoardSD_Prepare, BoardSD_PrepareResult,
                  BoardSD_Cleanup, BoardSD_CleanupResult, Send, SendNothing
    <3>3. CASE CdbBackup_update
      BY <3>3 DEF CdbBackup_update, stt_wait_worker, AskWorker, stt_check_sd,
                  AnswerDelete, stt_wait_delete, stt_wait_del_msg_fns,
                  stt_wait_sd_back_msg, stt_check_sd_err, stt_check_prepare_back,
                  stt_wait_backup, stt_wait_back_msg_fns, Confirm, Send, SendNothing
    <3>4. QED  BY <1>2, <3>1, <3>2, <3>3 DEF MainAct
  <2>3. QED  BY <1>1, <2>1, <2>2
<1>3. CASE UNCHANGED vars \/ Board_create \/ CardStep
  BY <1>3 DEF vars, workerVars, boardVars, Board_create, CreateWorker, CardStep,
              Insert, Eject
<1>4. CASE Board_destroy \/ LibraryStep
  <2>1. UNCHANGED hasty
    BY <1>4 DEF Board_destroy, LibraryStep, boardVars
  <2>2. Fault \/ UNCHANGED faults
    BY <1>4 DEF Board_destroy, LibraryStep, WorkerStep, OtherCDB, WaitWork, Terminate,
                BeginMount, CallFAMount, StoreMount, EndMount, BeginPrepare, MountCDB,
                Cleanup, UnmountCDB, TakeCDBResult, Finish, NoFault
  <2>3. QED  BY <1>1, <2>1, <2>2 DEF Fault
<1>5. QED  BY <1>2, <1>3, <1>4 DEF BoardNext, MainAct

\* The start of the thread, and the end of the scene.
LEMMA SoleScene ==
    ASSUME BoardInv, Phased, faults = 0, faults' = 0, Board_create \/ Board_destroy
    PROVE  Safe' /\ Phased'
<1> USE DEF BoardInv
<1>1. CASE Board_create
  <2>1. /\ msg' = "MOUNT" /\ wpc' = "wait" /\ board' = "init" /\ bsd' = "PREPARE"
    BY <1>1, CreateStep
  <2>2. wpc = "none" /\ board = "none" /\ UNCHANGED <<mounted, attached>>
    BY <1>1 DEF Board_create, CreateWorker
  <2>3. ~mounted' /\ ~attached'
    BY <2>2 DEF Phased, DriveInv
  <2>4. ~Preparing'
    BY <2>1 DEF Preparing, Asked
  <2>5. Safe'
    BY <2>1, <2>3, <2>4 DEF Safe, InPrepare, InCleanup, In
  <2>6. QED
    BY <2>1, <2>3, <2>4, <2>5 DEF Phased, Idle, In
<1>2. CASE Board_destroy
  <2>1. board' = "none" /\ UNCHANGED <<msg, wpc, attached>> /\ ~alive
    BY <1>2 DEF Board_destroy, WorkerRest
  <2>2. ~mounted'
    BY <1>2 DEF Board_destroy, UnmountCDB, Fault, WorkerTypeOK
  <2>3. wpc \in Gone /\ msg = "NONE"
    BY <2>1 DEF WorkerInv, Gone
  <2>4. ~Preparing'
    BY <2>1, <2>3 DEF Preparing, Asked, Gone
  <2>5. Safe'
    BY <2>1, <2>2, <2>3, <2>4 DEF Safe, InPrepare, InCleanup, In, Gone
  <2>6. QED  BY <2>1, <2>2, <2>4, <2>5 DEF Phased, Idle, In
<1>3. QED  BY <1>1, <1>2

LEMMA SoleQuiet ==
    ASSUME Safe, Phased,
           UNCHANGED <<boardVars, msg, wpc, working, mounted, cdbOk, attached, result>>
    PROVE  Safe' /\ Phased'
<1>1. UNCHANGED <<board, bsd, bstate, bnext>>
  BY DEF boardVars
<1>2. Safe'
  BY <1>1, SamePhase DEF Safe, Preparing, Asked
<1>3. Phased'
  BY <1>1 DEF Phased, Preparing, Asked, Holds, Idle, Backing, InPrepare, InCleanup, In
<1>4. QED  BY <1>2, <1>3

LEMMA CardInitInv == BoardInit => CardInv
<1> SUFFICES ASSUME BoardInit PROVE Safe /\ Phased
  BY DEF CardInv
<1>1. /\ msg = "NONE" /\ wpc = "none" /\ ~mounted /\ ~working /\ ~attached
      /\ board = "none" /\ bsd = "PREPARE"
  BY DEF BoardInit, WorkerInit
<1>2. ~Preparing
  BY <1>1 DEF Preparing, Asked
<1>3. Safe
  BY <1>1, <1>2 DEF Safe, InPrepare, InCleanup, In
<1>4. QED  BY <1>1, <1>2, <1>3 DEF Phased, Idle, In

LEMMA CardStepInv ==
    ASSUME BoardInv, CardInv, [BoardNext]_vars
    PROVE  CardInv'
<1> SUFFICES ASSUME faults' = 0, ~hasty'
             PROVE  Safe' /\ Phased'
  BY DEF CardInv
<1>1. faults = 0 /\ Safe /\ Phased
  BY HistoryStays DEF CardInv
<1>2. CASE MainAct
  BY <1>1, <1>2, SoleMain DEF BoardInv
<1>3. CASE Board_create \/ Board_destroy
  BY <1>1, <1>3, SoleScene
<1>4. CASE CardStep \/ UNCHANGED vars
  <2>1. UNCHANGED <<boardVars, msg, wpc, working, mounted, cdbOk, attached, result>>
    BY <1>4 DEF CardStep, Insert, Eject, vars, workerVars, worker
  <2>2. QED  BY <1>1, <2>1, SoleQuiet
<1>5. CASE LibraryStep
  <2>1. WorkerStep /\ UNCHANGED boardVars
    BY <1>1, <1>5 DEF LibraryStep, OtherCDB, Fault
  <2>2. QED  BY <1>1, <2>1, SoleWorker DEF BoardInv
<1>6. QED  BY <1>2, <1>3, <1>4, <1>5 DEF BoardNext, MainAct

-----------------------------------------------------------------------------

\* The variables of the worker and of the board stay in their types
\* (iplSDVFWorker.cpp, iplBoard.cpp).
THEOREM BoardTypeCorrect == BoardSpec => []BoardTypeOK
<1>1. BoardInv => BoardTypeOK
  BY DEF BoardInv, BoardOthers, BoardTypeOK
<1>2. QED  BY <1>1, BoardInvariant, PTL

\* While the board may ask the worker whether it works, there is a worker
\* (iplSDVFWorker.cpp:50, 184).
THEOREM ThereIsAWorker == BoardSpec => []NoUseAfterEnd
<1>1. BoardInv => NoUseAfterEnd
  BY DEF BoardInv, EndInv, Ends, WorkerInv, Gone, NoUseAfterEnd
<1>2. QED  BY <1>1, BoardInvariant, PTL

\* FA and CDB never have the card at once, unless a library failed or a backup
\* began while the worker worked (iplSDVFWorker.cpp:130-152, iplBoard.cpp:784).
THEOREM OneHasTheCard == BoardSpec => []OneMount
<1>1. BoardInv /\ CardInv => OneMount
  BY SDVFWorkerAssumption DEF BoardInv, CardInv, WorkerTypeOK, Safe, OneMount
<1>2. BoardSpec => []CardInv
  BY CardInitInv, CardStepInv, BoardInvariant, PTL DEF BoardSpec
<1>3. QED  BY <1>1, <1>2, BoardInvariant, PTL

=============================================================================
