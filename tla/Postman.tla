------------------------------ MODULE Postman ------------------------------
(***************************************************************************)
(* The thread that receives mail: postman::Manager                         *)
(* (src/src/system/iplPostmanManager.cpp), nwc24::Manager::receive and     *)
(* addDlTask (iplNwc24Manager.cpp), and the main thread as far as it stops *)
(* and starts the receiving (System::stopReceiveSchedule and its           *)
(* companions, iplSystem.cpp) or uses the message library itself.          *)
(*                                                                         *)
(* MESSAGE_STOP, MESSAGE_GET_USBETHER_MACADDR and                          *)
(* MESSAGE_DOWNLOADTASK_RELOAD are never sent: Send_Stop,                  *)
(* System::getUsbEtherMacAddr and System::reloadDownloadTask have no       *)
(* caller.  Registering the console (Task2) is asked for by a developer    *)
(* scene only.                                                             *)
(*                                                                         *)
(* A definition whose comment starts with "Mutant" is a faulty variant of  *)
(* the one that follows it, which no specification uses.                   *)
(***************************************************************************)
EXTENDS Nwc24, Sequences

CONSTANTS M, P,     \* the main thread and the Postman
          QueueLen, \* ut_message<32>
          MaxMail   \* bound: messages in the mail box at a time

ASSUME PostmanAssumption ==
    /\ Thread = {M, P} /\ M # P
    /\ QueueLen \in Nat \ {0}
    /\ MaxMail \in Nat

VARIABLES
    mState,    \* postman::Manager::mState
    queue,     \* mMessage
    alarm,     \* mAlarm is set
    ppc,       \* where the Postman is
    paused,    \* nwc24::Manager::mbReceivePaused
    receiving, \* nwc24::Manager::unk_0xA31
    mail,      \* messages receive() has still to look at
    screen,    \* what the screens have asked for
    dropped    \* history: the last PAUSE or START found the queue full

thread == <<mState, alarm, ppc, receiving, mail>>
main   == <<screen, dropped>>
vars   == <<ios, suspendCnt, openCnt, counters, opened, mLock, lpc, faults,
            mState, queue, alarm, ppc, paused, receiving, mail, screen,
            dropped>>

Message == {"RECEIVE", "START", "PAUSE"}

\* created: not resumed yet.  resumed, ended: Run() has not begun, has returned.
\* init, task, list, resume, save: Run() up to its loop.  wait: ReceiveMessage.
\* start, pause: in the handlers of these.  suspend, receive, look, again: in
\* receive_immediately_.
StartUp == {"init", "task", "list", "resume", "save"}
PC == StartUp \union {"created", "resumed", "ended", "wait", "start", "pause",
                      "suspend", "receive", "look", "again"}

TypeOK ==
    /\ LibTypeOK
    /\ mState \in {"NONE", "UNKNOWN", "RUN_RECEIVE", "STOP_RUN"}
    /\ queue \in Seq(Message) /\ Len(queue) <= QueueLen
    /\ alarm \in BOOLEAN /\ paused \in BOOLEAN /\ receiving \in BOOLEAN
    /\ dropped \in BOOLEAN
    /\ ppc \in PC
    /\ mail \in 0..MaxMail
    /\ screen \in {"open", "stopped", "waiting", "holding"}

Init ==
    /\ LibInit
    /\ mState = "NONE" /\ queue = <<>> /\ ppc = "created"
    /\ alarm = FALSE /\ paused = FALSE /\ receiving = FALSE /\ dropped = FALSE
    /\ mail = 0 /\ screen = "open"

-----------------------------------------------------------------------------
(* Sending: nobody waits for room in the queue or looks at the result.     *)

Send(m) == queue' = IF Len(queue) < QueueLen THEN Append(queue, m) ELSE queue

Send_ReceiveImmediately == Send("RECEIVE") /\ UNCHANGED paused

Send_Pause ==
    /\ paused' = TRUE
    /\ Send("PAUSE")
    /\ dropped' = (queue' = queue)

Send_Start ==
    /\ paused' = FALSE
    /\ Send("START")
    /\ dropped' = (queue' = queue)

\* A screen leaves, or is about to write a letter, and stops the receiving.
StopReceiveSchedule ==
    /\ screen \in {"open", "stopped"}
    /\ lpc[M] = "out"
    /\ Send_Pause
    /\ screen' = "stopped"
    /\ UNCHANGED <<lib, thread>>

\* ChannelEdit, Memory, SettingSelect and ChannelTitle, before a title starts,
\* stop the receiving and do not go on until it has stopped.
StopAndWait ==
    /\ screen \in {"open", "stopped"}
    /\ lpc[M] = "out"
    /\ Send_Pause
    /\ screen' = "waiting"
    /\ UNCHANGED <<lib, thread>>

isReceiveScheduleStopped == mState = "STOP_RUN"

SeeStopped ==
    /\ screen = "waiting"
    /\ isReceiveScheduleStopped
    /\ screen' = "holding"
    /\ UNCHANGED <<lib, thread, queue, paused, dropped>>

\* Board, when the menu is back, and the screens that only stopped it.
StartReceiveSchedule ==
    /\ screen # "waiting"
    /\ lpc[M] = "out"
    /\ Send_Start
    /\ screen' = "open"
    /\ UNCHANGED <<lib, thread>>

\* TextWriter, after a memo was sent.
ReceiveImmediately ==
    /\ screen = "open"
    /\ lpc[M] = "out"
    /\ Send_ReceiveImmediately
    /\ UNCHANGED <<lib, thread, main>>

\* The main thread opens the message library, uses it and closes it within one
\* call.
MainUse ==
    /\ \/ screen \in {"open", "stopped"} /\ BeginOpen(M)
       \/ Inside(M) \/ OpenFailed(M) \/ EndOpen(M)
       \/ BeginClose(M) \/ EndUse(M)
    /\ UNCHANGED <<thread, main, queue, paused>>

\* alarm_handler_, 60 seconds after the last mail was received.
Alarm ==
    /\ alarm
    /\ alarm' = FALSE
    /\ Send_ReceiveImmediately
    /\ UNCHANGED <<lib, main, mState, ppc, receiving, mail>>

-----------------------------------------------------------------------------
(* The thread.                                                             *)

At(pc) == ppc = pc
GoOn(pc) == ppc' = pc

\* System::run resumes the thread once the library managers exist.
Resume ==
    /\ At("created")
    /\ GoOn("resumed")
    /\ UNCHANGED <<lib, main, queue, paused, mState, alarm, receiving, mail>>

\* Run() begins: it does nothing once a reset was asked for.
EnterRun(resetting) ==
    /\ At("resumed")
    /\ GoOn(IF resetting THEN "ended" ELSE "init")
    /\ UNCHANGED <<lib, main, queue, paused, mState, alarm, receiving, mail>>

\* Run() up to its first use of the library.
StartRun ==
    /\ At("init")
    /\ mState' = "UNKNOWN"
    /\ GoOn("task")
    /\ UNCHANGED <<lib, main, queue, paused, alarm, receiving, mail>>

\* add_dl_task_ tries again until it can open the library, up to a thousand
\* times; manage_dltasklist_for_menu_ tries once.
UseLibrary(pc, next) ==
    /\ At(pc)
    /\ \/ /\ \/ BeginOpen(P) \/ Inside(P) \/ EndOpen(P) \/ BeginClose(P)
             \/ pc = "task" /\ OpenFailed(P)
          /\ UNCHANGED ppc
       \/ EndUse(P) /\ GoOn(next)
       \/ pc = "list" /\ OpenFailed(P) /\ GoOn(next)
       \/ lpc[P] = "out" /\ CannotOpen(P) /\ UNCHANGED lib /\ GoOn(next)
    /\ UNCHANGED <<main, queue, paused, mState, alarm, receiving, mail>>

\* resume_scheduler_, in Run() and for START.
ResumeScheduler ==
    /\ At("resume") \/ At("start")
    /\ \/ BeginResume(P) /\ UNCHANGED ppc
       \/ EndResume(P) /\ GoOn(IF At("resume") THEN "save" ELSE "suspend")
    /\ UNCHANGED <<main, queue, paused, mState, alarm, receiving, mail>>

\* save_mail_now_ and do_daily_tasks_.
SaveMail ==
    /\ At("save")
    /\ \/ BeginSave(P) /\ UNCHANGED <<ppc, mState>>
       \/ EndSave(P) /\ GoOn("wait") /\ mState' = "RUN_RECEIVE"
    /\ UNCHANGED <<main, queue, paused, alarm, receiving, mail>>

\* START falls through to RECEIVE_IMMEDIATELY.  (Where START finds another state
\* than RUN_RECEIVE, PAUSE has cancelled the alarm before.)
HandleStart ==
    /\ At("wait") /\ queue # <<>> /\ Head(queue) = "START"
    /\ queue' = Tail(queue)
    /\ mState' = "RUN_RECEIVE"
    /\ GoOn(IF mState = "RUN_RECEIVE" THEN "suspend" ELSE "start")
    /\ alarm' = FALSE
    /\ UNCHANGED <<lib, main, paused, receiving, mail>>

\* RECEIVE_IMMEDIATELY does nothing unless the state is RUN_RECEIVE.
HandleReceive ==
    /\ At("wait") /\ queue # <<>> /\ Head(queue) = "RECEIVE"
    /\ queue' = Tail(queue)
    /\ alarm' = FALSE
    /\ GoOn(IF mState = "RUN_RECEIVE" THEN "suspend" ELSE "wait")
    /\ UNCHANGED <<lib, main, paused, mState, receiving, mail>>

\* Mutant: PAUSE is skipped when another message follows it.
HandlePauseLast ==
    /\ At("wait") /\ queue # <<>> /\ Head(queue) = "PAUSE"
    /\ queue' = Tail(queue)
    /\ \/ (mState = "STOP_RUN" \/ queue' # <<>>) /\ UNCHANGED <<alarm, ppc>>
       \/ mState # "STOP_RUN" /\ queue' = <<>> /\ alarm' = FALSE /\ GoOn("pause")
    /\ UNCHANGED <<lib, main, paused, mState, receiving, mail>>

\* PAUSE cancels the alarm and suspends the scheduler before mState changes.
HandlePause ==
    /\ At("wait") /\ queue # <<>> /\ Head(queue) = "PAUSE"
    /\ queue' = Tail(queue)
    /\ \/ mState = "STOP_RUN" /\ UNCHANGED <<alarm, ppc>>
       \/ mState # "STOP_RUN" /\ alarm' = FALSE /\ GoOn("pause")
    /\ UNCHANGED <<lib, main, paused, mState, receiving, mail>>

\* Mutant: mState is changed before the scheduler is suspended.
PauseAtOnce == mState' = "STOP_RUN"

\* Nothing while the scheduler is not suspended yet.
PauseBegins == UNCHANGED mState

Pause ==
    /\ At("pause")
    /\ \/ BeginSuspend(P) /\ PauseBegins /\ UNCHANGED ppc
       \/ EndSuspend(P) /\ mState' = "STOP_RUN" /\ GoOn("wait")
    /\ UNCHANGED <<main, queue, paused, alarm, receiving, mail>>

-----------------------------------------------------------------------------
(* receive_immediately_.                                                   *)

\* If the message board has overflown nothing is received.
SuspendToReceive ==
    /\ At("suspend")
    /\ \/ BeginSuspend(P) /\ UNCHANGED ppc
       \/ EndSuspend(P) /\ (GoOn("receive") \/ GoOn("again"))
    /\ UNCHANGED <<main, queue, paused, mState, alarm, receiving, mail>>

\* receive(): gives up when it cannot open the library.
OpenToReceive ==
    /\ At("receive")
    /\ \/ BeginOpen(P) /\ UNCHANGED <<ppc, receiving, mail>>
       \/ Inside(P) /\ UNCHANGED <<ppc, receiving, mail>>
       \/ EndOpen(P) /\ GoOn("look") /\ receiving' = TRUE /\ mail' \in 0..MaxMail
       \/ OpenFailed(P) /\ GoOn("again") /\ UNCHANGED <<receiving, mail>>
       \/ /\ lpc[P] = "out" /\ CannotOpen(P)
          /\ UNCHANGED lib
          /\ GoOn("again") /\ UNCHANGED <<receiving, mail>>
    /\ UNCHANGED <<main, queue, paused, mState, alarm>>

\* A message for the board is the last one if the board is full by then or
\* PAUSE was sent (the full board stands for both).
LookAtMail ==
    /\ At("look") /\ mail > 0
    /\ mail' \in {0, mail - 1}
    /\ UNCHANGED <<lib, main, queue, paused, mState, alarm, receiving, ppc>>

CloseAfterReceive ==
    /\ At("look") /\ mail = 0
    /\ \/ BeginClose(P) /\ UNCHANGED <<ppc, receiving>>
       \/ EndUse(P) /\ GoOn("again") /\ receiving' = FALSE
    /\ UNCHANGED <<main, queue, paused, mState, alarm, mail>>

\* Mutant: the alarm is not set again.
set_alarmOnce == UNCHANGED alarm

set_alarm == alarm' = TRUE

ResumeAndWait ==
    /\ At("again")
    /\ \/ BeginResume(P) /\ UNCHANGED <<ppc, alarm>>
       \/ EndResume(P) /\ GoOn("wait") /\ set_alarm
    /\ UNCHANGED <<main, queue, paused, mState, receiving, mail>>

-----------------------------------------------------------------------------
Works ==
    \/ StartRun \/ UseLibrary("task", "list") \/ UseLibrary("list", "resume")
    \/ ResumeScheduler \/ SaveMail
    \/ HandleStart \/ HandleReceive \/ HandlePause \/ Pause
    \/ SuspendToReceive \/ OpenToReceive \/ LookAtMail \/ CloseAfterReceive
    \/ ResumeAndWait

\* The module ResetHandler has the resets.
PostmanStep == EnterRun(FALSE) \/ Works

Screens ==
    \/ StopReceiveSchedule \/ StopAndWait \/ StartReceiveSchedule
    \/ ReceiveImmediately

Next == Resume \/ PostmanStep \/ Screens \/ SeeStopped \/ MainUse \/ Alarm

Spec == Init /\ [][Next]_vars

\* The Postman runs whenever the main thread waits for the next frame, which
\* it does in each of its loops; a waiting screen looks again in each frame;
\* and what the main thread does with the library comes to an end.
MainLeaves == lpc[M] # "out" /\ MainUse
FairSpec ==
    /\ Spec
    /\ WF_vars(PostmanStep) /\ WF_vars(SeeStopped) /\ WF_vars(MainLeaves)
    /\ WF_vars(Resume)

-----------------------------------------------------------------------------
(* Properties.                                                             *)

InLibrary(t) == lpc[t] \in {"opening", "using"}

\* IOS downloads nothing while a thread works on the files of the message
\* library, although the Postman suspends and resumes the scheduler without
\* regard to the library that the main thread may have open, and although any
\* command may be refused (NWC24ResumeScheduler, NWC24Schedule.c:62).
NoDownloadWhileOpen == (opened \/ \E t \in Thread : InLibrary(t)) => ios > 0

\* The two threads are never in the library at once, although Opened is set
\* only after the files were opened, many steps after it was tested
\* (nwc24::Manager::open).
OneLibraryUser ==
    /\ \A t \in Thread : InLibrary(t) => mLock = t
    /\ opened /\ faults = 0 => \E t \in Thread : lpc[t] \in {"using", "closing"}

\* A screen that has seen the receiving stopped may start a title.  What it saw
\* is true: nothing is received and IOS does not download; or its own PAUSE is
\* not handled yet, and it saw the effect of an earlier one, behind which an old
\* START may follow.
Stopped ==
    /\ mState = "STOP_RUN"
    /\ ~receiving
    /\ faults = 0 => ios > 0
PausePending == ppc = "pause" \/ \E i \in DOMAIN queue : queue[i] = "PAUSE"
StopHolds ==
    screen = "holding" /\ ~dropped =>
        Stopped \/ (mState = "RUN_RECEIVE" /\ PausePending)

\* Suspensions do not pile up: between two receptions the scheduler runs, or
\* only the library that the main thread has open holds it.
NotLeftSuspended ==
    faults = 0 /\ ppc = "wait" /\ mState = "RUN_RECEIVE" => suspendCnt = 0

\* Once mail has been received it goes on being received until a PAUSE: the
\* alarm is set, or a message waits, or the Postman is at it.  A message of the
\* alarm may be lost in a full queue, but then others are in it.
Receives ==
    /\ mState = "RUN_RECEIVE"
    /\ alarm \/ queue # <<>> \/ ppc # "wait"
KeepsReceiving ==
    [][Receives /\ ppc \notin StartUp => Receives' \/ mState' = "STOP_RUN"]_vars

\* A screen that waits for the receiving to stop is not kept waiting for ever,
\* unless its message was dropped (SettingSelect and Task1 wait in a loop).
PauseHeeded == (screen = "waiting" /\ ~dropped) ~> screen = "holding"

=============================================================================
