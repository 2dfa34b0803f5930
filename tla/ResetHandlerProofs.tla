------------------------- MODULE ResetHandlerProofs -------------------------
(***************************************************************************)
(* Proofs about the Postman and the WiiConnect24 library, and about a      *)
(* reset: what it finds the remote control and the Postman doing.  They    *)
(* are for any length of the queue, any number of mails and any number of  *)
(* refused commands.                                                       *)
(***************************************************************************)
EXTENDS ResetHandler, SequenceTheorems, TLAPS

-----------------------------------------------------------------------------
(* The library, whatever the threads do with it.                           *)

\* One step of a thread in the library.
LibStep(t) ==
    \/ BeginSuspend(t) \/ EndSuspend(t) \/ BeginResume(t) \/ EndResume(t)
    \/ BeginOpen(t) \/ Inside(t) \/ OpenFailed(t) \/ EndOpen(t)
    \/ BeginClose(t) \/ EndUse(t) \/ BeginSave(t) \/ EndSave(t)

\* Where a thread has the lock of nwc24::Manager, where the scheduler is
\* suspended for it, and where the library is not open yet.
Locked    == {"trying", "opening", "giving up", "using", "closing", "saving"}
Suspended == {"opening", "giving up", "using", "closing"}
Opening   == {"trying", "opening", "giving up"}

\* IOS has been told at least as often as the library remembers; and it is
\* remembered for whoever has the library open.
LibInv ==
    /\ LibTypeOK
    /\ ios >= suspendCnt + openCnt
    /\ \A t \in Thread : lpc[t] \in Locked => mLock = t
    /\ \A t \in Thread : lpc[t] \in Suspended => openCnt >= 1
    /\ \A t \in Thread : lpc[t] \in Opening => ~opened
    /\ opened => openCnt >= 1
    /\ opened /\ faults = 0 => \E t \in Thread : lpc[t] \in {"using", "closing"}

LEMMA LibInitInv == LibInit => LibInv
<1> SUFFICES ASSUME LibInit PROVE LibInv
  OBVIOUS
<1>1. /\ ios \in Nat /\ suspendCnt \in Nat /\ openCnt = 0
      /\ ios >= suspendCnt + openCnt
      /\ faults \in 0..MaxFaults
  BY Nwc24Assumption DEF LibInit
<1>2. /\ counters = NULL /\ mLock = NULL /\ opened = FALSE
      /\ lpc \in [Thread -> {"out"}]
  BY DEF LibInit
<1>3. lpc \in [Thread -> LibPC] /\ \A t \in Thread : lpc[t] = "out"
  BY <1>2 DEF LibPC
<1>4. QED
  BY <1>1, <1>2, <1>3 DEF LibInv, LibTypeOK, Locked, Suspended, Opening

\* A thread moves from one place of the library to another.
LEMMA Moves ==
    ASSUME LibTypeOK, NEW t \in Thread, NEW pc \in LibPC, Goto(t, pc)
    PROVE  /\ lpc' \in [Thread -> LibPC]
           /\ lpc'[t] = pc
           /\ \A u \in Thread : u # t => lpc'[u] = lpc[u]
BY DEF LibTypeOK, Goto

\* A refused command is counted.
LEMMA Counted ==
    ASSUME faults \in 0..MaxFaults, faults < MaxFaults, faults' = faults + 1
    PROVE  faults' \in 0..MaxFaults /\ faults' # 0
BY Nwc24Assumption

LEMMA LibStepInv ==
    ASSUME LibInv, NEW t \in Thread, LibStep(t)
    PROVE  LibInv'
<1> USE DEF LibInv
<1>1. CASE BeginSuspend(t) \/ BeginResume(t)
  <2>1. PICK pc \in {"suspending", "resuming"} : Goto(t, pc)
    BY <1>1 DEF BeginSuspend, BeginResume, BeginCommand
  <2>2. /\ counters' = t
        /\ UNCHANGED <<ios, suspendCnt, openCnt, opened, mLock, faults>>
        /\ lpc[t] = "out"
    BY <1>1 DEF BeginSuspend, BeginResume, BeginCommand
  <2>3. QED  BY <2>1, <2>2, Moves DEF LibTypeOK, LibPC, Locked, Suspended, Opening
<1>2. CASE EndSuspend(t)
  <2>1. Goto(t, "out") /\ lpc[t] = "suspending" /\ counters' = NULL
        /\ UNCHANGED <<openCnt, opened, mLock>>
    BY <1>2 DEF EndSuspend
  <2>2. /\ ios' \in Nat /\ suspendCnt' \in Nat /\ faults' \in 0..MaxFaults
        /\ ios' >= suspendCnt' + openCnt
        /\ faults' = 0 => faults = 0
    BY <1>2, Nwc24Assumption DEF EndSuspend, Granted, Refused, LibTypeOK
  <2>3. QED  BY <2>1, <2>2, Moves DEF LibTypeOK, LibPC, Locked, Suspended, Opening
<1>3. CASE EndResume(t)
  <2>1. Goto(t, "out") /\ lpc[t] = "resuming" /\ counters' = NULL
        /\ UNCHANGED <<openCnt, opened, mLock>>
    BY <1>3 DEF EndResume
  <2>2. /\ ios' \in Nat /\ suspendCnt' \in Nat /\ faults' \in 0..MaxFaults
        /\ faults' = 0 => faults = 0
    BY <1>3, Nwc24Assumption DEF EndResume, Granted, Refused, Less, LibTypeOK
  <2>3. ios' >= suspendCnt' + openCnt
    BY <1>3 DEF EndResume, Granted, Refused, Less, OthersSuspension, LibTypeOK
  <2>4. QED  BY <2>1, <2>2, <2>3, Moves DEF LibTypeOK, LibPC, Locked, Suspended, Opening
<1>4. CASE BeginOpen(t)
  <2>1. /\ mLock = NULL /\ ~opened
        /\ mLock' = t /\ counters' = t /\ Goto(t, "trying")
        /\ UNCHANGED <<ios, suspendCnt, openCnt, opened, faults>>
    BY <1>4 DEF BeginOpen, CannotOpen, FreeFor, BeginCommand
  <2>2. \A u \in Thread : lpc[u] \notin Locked
    BY <2>1, Nwc24Assumption
  <2>3. QED  BY <2>1, <2>2, Moves DEF LibTypeOK, LibPC, Locked, Suspended, Opening
<1>5. CASE SuspendedForOpen(t)
  <2>1. /\ lpc[t] = "trying" /\ Goto(t, "opening") /\ counters' = NULL
        /\ faults' = faults
        /\ UNCHANGED <<suspendCnt, opened, mLock>>
    BY <1>5 DEF SuspendedForOpen, Granted
  <2>2. /\ ios' \in Nat /\ openCnt' \in Nat /\ openCnt' >= 1
        /\ ios' >= suspendCnt + openCnt'
    BY <1>5 DEF SuspendedForOpen, LibTypeOK
  <2>3. QED  BY <2>1, <2>2, Moves DEF LibTypeOK, LibPC, Locked, Suspended, Opening
<1>6. CASE BeginGiveUp(t)
  <2>1. /\ lpc[t] = "opening" /\ Goto(t, "giving up") /\ counters' = t
        /\ faults' \in 0..MaxFaults /\ faults' # 0
        /\ UNCHANGED <<ios, suspendCnt, openCnt, opened, mLock>>
    BY <1>6, Counted DEF BeginGiveUp, BeginCommand, Refused, LibTypeOK
  <2>2. QED
    BY <2>1, Moves DEF LibTypeOK, LibPC, Locked, Suspended, Opening
<1>7. CASE OpenRefused(t)
  <2>1. /\ lpc[t] = "trying" /\ Goto(t, "out") /\ counters' = NULL /\ mLock' = NULL
        /\ faults' \in 0..MaxFaults /\ faults' # 0
        /\ UNCHANGED <<ios, suspendCnt, openCnt, opened>>
    BY <1>7, Counted DEF OpenRefused, Refused, LibTypeOK
  <2>2. \A u \in Thread : u # t => lpc[u] \notin Locked
    BY <2>1 DEF Locked
  <2>3. QED
    BY <2>1, <2>2, Moves DEF LibTypeOK, LibPC, Locked, Suspended, Opening
<1>8. CASE EndOpen(t)
  <2>1. /\ lpc[t] = "opening" /\ Goto(t, "using") /\ opened' = TRUE
        /\ UNCHANGED <<ios, suspendCnt, openCnt, counters, mLock, faults>>
    BY <1>8 DEF EndOpen
  <2>2. \A u \in Thread : u # t => lpc[u] \notin Locked
    BY <2>1 DEF Locked
  <2>3. QED  BY <2>1, <2>2, Moves DEF LibTypeOK, LibPC, Locked, Suspended, Opening
<1>9. CASE EndGiveUp(t)
  <2>1. /\ lpc[t] = "giving up" /\ Goto(t, "out") /\ counters' = NULL /\ mLock' = NULL
        /\ UNCHANGED <<suspendCnt, opened>>
    BY <1>9 DEF EndGiveUp
  <2>2. \A u \in Thread : u # t => lpc[u] \notin Locked
    BY <2>1 DEF Locked
  <2>3. openCnt >= 1 /\ ~opened
    BY <2>1 DEF Suspended, Opening
  <2>4. /\ ios' \in Nat /\ openCnt' \in Nat /\ faults' \in 0..MaxFaults
        /\ ios' >= suspendCnt + openCnt'
    <3>1. CASE ResumedForClose
      BY <2>3, <3>1 DEF ResumedForClose, Granted, Less, LibTypeOK
    <3>2. CASE RefusedForClose
      BY <3>2, Counted DEF RefusedForClose, Refused, LibTypeOK
    <3>3. QED  BY <1>9, <3>1, <3>2 DEF EndGiveUp
  <2>5. QED
    BY <2>1, <2>2, <2>3, <2>4, Moves DEF LibTypeOK, LibPC, Locked, Suspended, Opening
<1>10. CASE BeginClose(t)
  <2>1. /\ lpc[t] = "using" /\ Goto(t, "closing") /\ counters' = t
        /\ UNCHANGED <<ios, suspendCnt, openCnt, opened, mLock, faults>>
    BY <1>10 DEF BeginClose, BeginCommand
  <2>2. QED  BY <2>1, Moves DEF LibTypeOK, LibPC, Locked, Suspended, Opening
<1>11. CASE FlushFails(t)
  <2>1. /\ lpc[t] = "using" /\ Goto(t, "out") /\ mLock' = NULL
        /\ faults' \in 0..MaxFaults /\ faults' # 0
        /\ UNCHANGED <<ios, suspendCnt, openCnt, counters, opened>>
    BY <1>11, Counted DEF FlushFails, Refused, LibTypeOK
  <2>2. \A u \in Thread : u # t => lpc[u] \notin Locked
    BY <2>1 DEF Locked
  <2>3. QED
    BY <2>1, <2>2, Moves DEF LibTypeOK, LibPC, Locked, Suspended, Opening
<1>12. CASE EndClose(t)
  <2>1. /\ lpc[t] = "closing" /\ Goto(t, "out") /\ counters' = NULL /\ mLock' = NULL
        /\ UNCHANGED suspendCnt
    BY <1>12 DEF EndClose
  <2>2. \A u \in Thread : u # t => lpc[u] \notin Locked
    BY <2>1 DEF Locked
  <2>3. openCnt >= 1
    BY <2>1 DEF Suspended
  <2>4. CASE ResumedForClose /\ opened' = FALSE
    <3>1. /\ ios' \in Nat /\ openCnt' \in Nat /\ faults' = faults
          /\ ios' >= suspendCnt + openCnt'
      BY <2>3, <2>4 DEF ResumedForClose, Granted, Less, LibTypeOK
    <3>2. QED
      BY <2>1, <2>2, <2>4, <3>1, Moves DEF LibTypeOK, LibPC, Locked, Suspended, Opening
  <2>5. CASE RefusedForClose /\ UNCHANGED opened
    <3>1. /\ faults' \in 0..MaxFaults /\ faults' # 0
          /\ UNCHANGED <<ios, openCnt, opened>>
      BY <2>5, Counted DEF RefusedForClose, Refused, LibTypeOK
    <3>2. QED
      BY <2>1, <2>2, <3>1, Moves
         DEF LibTypeOK, LibPC, Locked, Suspended, Opening
  <2>6. QED  BY <1>12, <2>4, <2>5 DEF EndClose
<1>13. CASE BeginSave(t)
  <2>1. /\ lpc[t] = "out" /\ Goto(t, "saving") /\ mLock = NULL /\ mLock' = t
        /\ UNCHANGED <<ios, suspendCnt, openCnt, counters, opened, faults>>
    BY <1>13 DEF BeginSave
  <2>2. \A u \in Thread : lpc[u] \notin Locked
    BY <2>1, Nwc24Assumption
  <2>3. QED  BY <2>1, <2>2, Moves DEF LibTypeOK, LibPC, Locked, Suspended, Opening
<1>14. CASE EndSave(t)
  <2>1. /\ lpc[t] = "saving" /\ Goto(t, "out") /\ mLock' = NULL
        /\ UNCHANGED <<ios, suspendCnt, openCnt, counters, opened, faults>>
    BY <1>14 DEF EndSave
  <2>2. \A u \in Thread : u # t => lpc[u] \notin Locked
    BY <2>1 DEF Locked
  <2>3. QED  BY <2>1, <2>2, Moves DEF LibTypeOK, LibPC, Locked, Suspended, Opening
<1>15. QED
  BY <1>1, <1>2, <1>3, <1>4, <1>5, <1>6, <1>7, <1>8, <1>9, <1>10, <1>11, <1>12, <1>13, <1>14
     DEF LibStep, Inside, OpenFailed, EndUse
-----------------------------------------------------------------------------
(* The Postman and the main thread.                                        *)

\* Every step is one of a thread in the library, or leaves the library alone.
LEMMA NextLib ==
    ASSUME Next
    PROVE  UNCHANGED lib \/ \E t \in Thread : LibStep(t)
<1>1. M \in Thread /\ P \in Thread
  BY PostmanAssumption
<1>2. CASE MainUse
  BY <1>1, <1>2 DEF MainUse, LibStep
<1>3. CASE Screens \/ Resume \/ SeeStopped \/ Alarm \/ EnterRun(FALSE)
  BY <1>3 DEF Screens, StopReceiveSchedule, StopAndWait, StartReceiveSchedule,
              ReceiveImmediately, Resume, SeeStopped, Alarm, EnterRun
<1>4. CASE StartRun \/ HandleStart \/ HandleReceive \/ HandlePause \/ LookAtMail
  BY <1>4 DEF StartRun, HandleStart, HandleReceive, HandlePause, LookAtMail
<1>5. ASSUME NEW pc, NEW next, UseLibrary(pc, next)
      PROVE  UNCHANGED lib \/ \E t \in Thread : LibStep(t)
  BY <1>1, <1>5 DEF UseLibrary, LibStep
<1>6. CASE ResumeScheduler \/ SaveMail \/ Pause
  BY <1>1, <1>6 DEF ResumeScheduler, SaveMail, Pause, LibStep
<1>7. CASE SuspendToReceive \/ OpenToReceive \/ CloseAfterReceive \/ ResumeAndWait
  BY <1>1, <1>7 DEF SuspendToReceive, OpenToReceive, CloseAfterReceive,
                    ResumeAndWait, LibStep
<1>8. QED
  BY <1>2, <1>3, <1>4, <1>5, <1>6, <1>7 DEF Next, PostmanStep, Works

LEMMA LibNextInv ==
    ASSUME LibInv, [Next]_vars
    PROVE  LibInv'
<1>1. CASE UNCHANGED lib
  BY <1>1 DEF LibInv, LibTypeOK, lib
<1>2. CASE UNCHANGED vars
  BY <1>1, <1>2 DEF vars, lib
<1>3. QED  BY <1>1, <1>2, NextLib, LibStepInv

\* A message is sent, or found the queue full.
LEMMA SendType ==
    ASSUME queue \in Seq(Message), Len(queue) <= QueueLen,
           NEW m \in Message, Send(m)
    PROVE  queue' \in Seq(Message) /\ Len(queue') <= QueueLen /\ queue' # <<>>
BY PostmanAssumption DEF Send

LEMMA TailType ==
    ASSUME queue \in Seq(Message), Len(queue) <= QueueLen, queue # <<>>,
           queue' = Tail(queue)
    PROVE  queue' \in Seq(Message) /\ Len(queue') <= QueueLen
BY PostmanAssumption

\* The rest of TypeOK, and in which part of Run() the Postman is in which state:
\* STOP_RUN is a state of its wait for messages only.
Handling == {"start", "pause", "suspend", "receive", "look", "again"}
StateInv ==
    /\ mState \in {"NONE", "UNKNOWN", "RUN_RECEIVE", "STOP_RUN"}
    /\ queue \in Seq(Message) /\ Len(queue) <= QueueLen
    /\ alarm \in BOOLEAN /\ paused \in BOOLEAN /\ receiving \in BOOLEAN
    /\ dropped \in BOOLEAN
    /\ ppc \in PC
    /\ mail \in 0..MaxMail
    /\ screen \in {"open", "stopped", "waiting", "holding"}
    /\ ppc = "wait" => mState \in {"RUN_RECEIVE", "STOP_RUN"}
    /\ ppc \in Handling => mState = "RUN_RECEIVE"
    /\ ppc \notin Handling \union {"wait"} => mState \in {"NONE", "UNKNOWN"}
    /\ receiving <=> ppc = "look"
    /\ screen = "holding" => ppc \in Handling \union {"wait"}

LEMMA StateInit == Init => StateInv
<1> SUFFICES ASSUME Init PROVE StateInv
  OBVIOUS
<1>1. queue \in Seq(Message) /\ Len(queue) <= QueueLen /\ mail \in 0..MaxMail
  BY PostmanAssumption DEF Init
<1>2. QED  BY <1>1 DEF Init, StateInv, PC, StartUp, Handling

LEMMA StateStep ==
    ASSUME StateInv, [Next]_vars
    PROVE  StateInv'
<1> USE DEF StateInv, Handling, PC, StartUp, At, GoOn
<1>1. CASE UNCHANGED vars
  BY <1>1 DEF vars
<1>2. CASE StopReceiveSchedule \/ StopAndWait
  BY <1>2, SendType DEF StopReceiveSchedule, StopAndWait, Send_Pause, Message, thread
<1>3. CASE StartReceiveSchedule
  BY <1>3, SendType DEF StartReceiveSchedule, Send_Start, Message, thread
<1>4. CASE ReceiveImmediately
  BY <1>4, SendType
     DEF ReceiveImmediately, Send_ReceiveImmediately, Message, thread, main
<1>5. CASE SeeStopped
  BY <1>5 DEF SeeStopped, isReceiveScheduleStopped, thread
<1>6. CASE MainUse
  BY <1>6 DEF MainUse, thread, main
<1>7. CASE Alarm
  BY <1>7, SendType DEF Alarm, Send_ReceiveImmediately, Message, main
<1>8. CASE Resume \/ EnterRun(FALSE) \/ StartRun
  BY <1>8 DEF Resume, EnterRun, StartRun, main
<1>9. CASE UseLibrary("task", "list") \/ UseLibrary("list", "resume")
  BY <1>9 DEF UseLibrary, main
<1>10. CASE ResumeScheduler \/ SaveMail
  BY <1>10 DEF ResumeScheduler, SaveMail, main
<1>11. CASE HandleStart \/ HandleReceive \/ HandlePause
  <2>1. queue' \in Seq(Message) /\ Len(queue') <= QueueLen
    BY <1>11, TailType DEF HandleStart, HandleReceive, HandlePause
  <2>2. CASE HandleStart
    BY <2>1, <2>2 DEF HandleStart, main
  <2>3. CASE HandleReceive
    BY <2>1, <2>3 DEF HandleReceive, main
  <2>4. CASE HandlePause
    BY <2>1, <2>4 DEF HandlePause, main
  <2>5. QED  BY <1>11, <2>2, <2>3, <2>4
<1>12. CASE Pause
  BY <1>12 DEF Pause, PauseBegins, main
<1>13. CASE SuspendToReceive \/ ResumeAndWait
  <2>1. CASE SuspendToReceive
    BY <2>1 DEF SuspendToReceive, main
  <2>2. CASE ResumeAndWait
    BY <2>2 DEF ResumeAndWait, set_alarm, main
  <2>3. QED  BY <1>13, <2>1, <2>2
<1>14. CASE OpenToReceive
  <2>1. /\ ppc = "receive" /\ UNCHANGED <<main, queue, paused, mState, alarm>>
        /\ \/ UNCHANGED <<ppc, receiving, mail>>
           \/ ppc' = "look" /\ receiving' = TRUE /\ mail' \in 0..MaxMail
           \/ ppc' = "again" /\ UNCHANGED <<receiving, mail>>
    BY <1>14 DEF OpenToReceive
  <2>2. CASE UNCHANGED <<ppc, receiving, mail>>
    BY <2>1, <2>2 DEF main
  <2>3. CASE ppc' = "look" /\ receiving' = TRUE /\ mail' \in 0..MaxMail
    BY <2>1, <2>3 DEF main
  <2>4. CASE ppc' = "again" /\ UNCHANGED <<receiving, mail>>
    BY <2>1, <2>4 DEF main
  <2>5. QED  BY <2>1, <2>2, <2>3, <2>4
<1>15. CASE LookAtMail \/ CloseAfterReceive
  <2>1. CASE LookAtMail
    <3>1. mail' \in 0..MaxMail
      BY <2>1, PostmanAssumption DEF LookAtMail
    <3>2. QED  BY <2>1, <3>1 DEF LookAtMail, main
  <2>2. CASE CloseAfterReceive
    BY <2>2 DEF CloseAfterReceive, main
  <2>3. QED  BY <1>15, <2>1, <2>2
<1>16. QED
  BY <1>1, <1>2, <1>3, <1>4, <1>5, <1>6, <1>7, <1>8, <1>9, <1>10, <1>11, <1>12,
     <1>13, <1>14, <1>15
     DEF Next, PostmanStep, Works, Screens
-----------------------------------------------------------------------------
(* How often the Postman has suspended the scheduler.                      *)

\* Once in Run() up to its loop and while it receives; while it waits for
\* messages, only in STOP_RUN.
SuspendsOnce ==
    \/ ppc \in {"created", "resumed", "ended", "init", "task", "list", "resume",
                "start", "receive", "look", "again"}
    \/ ppc = "wait" /\ mState = "STOP_RUN"

SuspendInv == faults = 0 => suspendCnt = IF SuspendsOnce THEN 1 ELSE 0

LEMMA SuspendInit == Init => SuspendInv
BY DEF Init, LibInit, SuspendInv, SuspendsOnce

\* What a step in the library does to the count, while no command was refused.
LEMMA SuspendEffect ==
    ASSUME LibTypeOK, NEW t \in Thread, faults' = 0
    PROVE  /\ EndSuspend(t) => faults = 0 /\ suspendCnt' = suspendCnt + 1
           /\ EndResume(t) /\ suspendCnt = 1 => faults = 0 /\ suspendCnt' = 0
           /\ EndResume(t) => faults = 0
           /\ LibStep(t) /\ ~EndSuspend(t) /\ ~EndResume(t) =>
                 faults = 0 /\ suspendCnt' = suspendCnt
<1>1. EndSuspend(t) => faults = 0 /\ suspendCnt' = suspendCnt + 1
  BY DEF EndSuspend, Granted, Refused, LibTypeOK
<1>2. EndResume(t) => faults = 0
  BY DEF EndResume, Granted, Refused, LibTypeOK
<1>3. EndResume(t) /\ suspendCnt = 1 => suspendCnt' = 0
  BY DEF EndResume, Less, OthersSuspension, LibTypeOK
<1>4. ASSUME LibStep(t), ~EndSuspend(t), ~EndResume(t)
      PROVE  faults = 0 /\ suspendCnt' = suspendCnt
  <2>1. suspendCnt' = suspendCnt
    BY <1>4
       DEF LibStep, BeginSuspend, BeginResume, BeginOpen, Inside, SuspendedForOpen,
           BeginGiveUp, OpenFailed, OpenRefused, EndGiveUp, EndOpen, BeginClose,
           EndUse, FlushFails, EndClose, BeginSave, EndSave
  <2>2. faults' = faults \/ Refused
    BY <1>4
       DEF LibStep, BeginSuspend, BeginResume, BeginOpen, Inside, SuspendedForOpen,
           BeginGiveUp, OpenFailed, OpenRefused, EndGiveUp, ResumedForClose,
           RefusedForClose, EndOpen, BeginClose, EndUse, FlushFails, EndClose,
           BeginSave, EndSave, Granted
  <2>3. faults = 0
    BY <2>2 DEF Refused, LibTypeOK
  <2>4. QED  BY <2>1, <2>3
<1>5. QED  BY <1>1, <1>2, <1>3, <1>4

LEMMA SuspendStep ==
    ASSUME StateInv, LibInv, SuspendInv, [Next]_vars
    PROVE  SuspendInv'
<1> SUFFICES ASSUME faults' = 0
             PROVE  suspendCnt' = IF SuspendsOnce' THEN 1 ELSE 0
  BY DEF SuspendInv
<1> USE DEF SuspendsOnce, At, GoOn
<1>1. M \in Thread /\ P \in Thread /\ LibTypeOK
  BY PostmanAssumption DEF LibInv
\* A step that leaves the count alone.
<1>2. ASSUME \/ UNCHANGED lib
             \/ \E t \in Thread : LibStep(t) /\ ~EndSuspend(t) /\ ~EndResume(t)
      PROVE  faults = 0 /\ suspendCnt' = suspendCnt
  BY <1>1, <1>2, SuspendEffect DEF lib
<1>3. CASE UNCHANGED vars
  BY <1>2, <1>3 DEF vars, lib, SuspendInv
<1>4. CASE Screens \/ SeeStopped \/ Alarm
  BY <1>2, <1>4
     DEF Screens, StopReceiveSchedule, StopAndWait, StartReceiveSchedule,
         ReceiveImmediately, SeeStopped, Alarm, thread, SuspendInv
<1>5. CASE MainUse
  <2>1. LibStep(M) /\ ~EndSuspend(M) /\ ~EndResume(M)
    BY <1>5
       DEF MainUse, LibStep, BeginOpen, Inside, SuspendedForOpen, BeginGiveUp,
           OpenFailed, OpenRefused, EndGiveUp, EndOpen, BeginClose, EndUse,
           FlushFails, EndClose, EndSuspend, EndResume
  <2>2. QED  BY <1>1, <1>2, <1>5, <2>1 DEF MainUse, thread, SuspendInv
<1>6. CASE Resume \/ EnterRun(FALSE) \/ StartRun
  BY <1>2, <1>6 DEF Resume, EnterRun, StartRun, SuspendInv
<1>7. ASSUME NEW pc, NEW next, UseLibrary(pc, next)
      PROVE  /\ ppc = pc /\ ppc' \in {pc, next}
             /\ faults = 0 /\ suspendCnt' = suspendCnt
  <2>1. UNCHANGED lib \/ (LibStep(P) /\ ~EndSuspend(P) /\ ~EndResume(P))
    BY <1>7
       DEF UseLibrary, LibStep, BeginOpen, Inside, SuspendedForOpen, BeginGiveUp,
           OpenFailed, OpenRefused, EndGiveUp, EndOpen, BeginClose, EndUse,
           FlushFails, EndClose, EndSuspend, EndResume
  <2>2. ppc = pc /\ ppc' \in {pc, next}
    BY <1>7 DEF UseLibrary
  <2>3. QED  BY <1>1, <1>2, <2>1, <2>2
<1>8. CASE UseLibrary("task", "list") \/ UseLibrary("list", "resume")
  BY <1>7, <1>8 DEF SuspendInv
<1>9. CASE ResumeScheduler
  <2>1. CASE BeginResume(P) /\ UNCHANGED ppc
    <3>1. LibStep(P) /\ ~EndSuspend(P) /\ ~EndResume(P)
      BY <2>1 DEF LibStep, BeginResume, EndSuspend, EndResume
    <3>2. QED  BY <1>1, <1>2, <1>9, <2>1, <3>1 DEF ResumeScheduler, SuspendInv
  <2>2. CASE EndResume(P) /\ ppc' = IF ppc = "resume" THEN "save" ELSE "suspend"
    BY <1>1, <1>9, <2>2, SuspendEffect DEF ResumeScheduler, SuspendInv
  <2>3. QED  BY <1>9, <2>1, <2>2 DEF ResumeScheduler
<1>10. CASE SaveMail
  <2>1. LibStep(P) /\ ~EndSuspend(P) /\ ~EndResume(P)
    BY <1>10 DEF SaveMail, LibStep, BeginSave, EndSave, EndSuspend, EndResume
  <2>2. QED  BY <1>1, <1>2, <1>10, <2>1 DEF SaveMail, SuspendInv
<1>11. CASE HandleStart \/ HandleReceive \/ HandlePause
  BY <1>2, <1>11 DEF HandleStart, HandleReceive, HandlePause, SuspendInv, StateInv
<1>12. CASE Pause \/ SuspendToReceive
  <2>1. CASE BeginSuspend(P)
    <3>1. LibStep(P) /\ ~EndSuspend(P) /\ ~EndResume(P)
      BY <2>1 DEF LibStep, BeginSuspend, EndSuspend, EndResume
    <3>2. lpc[P] # "suspending"
      BY <2>1 DEF BeginSuspend
    <3>3. UNCHANGED <<ppc, mState>>
      BY <1>12, <3>2 DEF Pause, PauseBegins, SuspendToReceive, EndSuspend
    <3>4. QED  BY <1>1, <1>2, <3>1, <3>3 DEF SuspendInv
  <2>2. CASE EndSuspend(P)
    <3>1. lpc[P] # "out"
      BY <2>2 DEF EndSuspend
    <3>2. /\ ppc \in {"pause", "suspend"}
          /\ \/ ppc' = "wait" /\ mState' = "STOP_RUN"
             \/ ppc' \in {"receive", "again"}
      BY <1>12, <3>1 DEF Pause, SuspendToReceive, BeginSuspend
    <3>3. QED  BY <1>1, <2>2, <3>2, SuspendEffect DEF SuspendInv
  <2>3. QED  BY <1>12, <2>1, <2>2 DEF Pause, SuspendToReceive
<1>13. CASE OpenToReceive
  <2>1. UNCHANGED lib \/ (LibStep(P) /\ ~EndSuspend(P) /\ ~EndResume(P))
    BY <1>13
       DEF OpenToReceive, LibStep, BeginOpen, Inside, SuspendedForOpen,
           BeginGiveUp, OpenFailed, OpenRefused, EndGiveUp, EndOpen,
           EndSuspend, EndResume
  <2>2. ppc = "receive" /\ ppc' \in {"receive", "look", "again"}
    BY <1>13 DEF OpenToReceive
  <2>3. QED  BY <1>1, <1>2, <2>1, <2>2 DEF SuspendInv
<1>14. CASE LookAtMail \/ CloseAfterReceive
  <2>1. UNCHANGED lib \/ (LibStep(P) /\ ~EndSuspend(P) /\ ~EndResume(P))
    BY <1>14
       DEF LookAtMail, CloseAfterReceive, LibStep, BeginClose, EndUse,
           FlushFails, EndClose, EndSuspend, EndResume
  <2>2. ppc = "look" /\ ppc' \in {"look", "again"}
    BY <1>14 DEF LookAtMail, CloseAfterReceive
  <2>3. QED  BY <1>1, <1>2, <2>1, <2>2 DEF SuspendInv
<1>15. CASE ResumeAndWait
  <2>1. CASE BeginResume(P) /\ UNCHANGED <<ppc, alarm>>
    <3>1. LibStep(P) /\ ~EndSuspend(P) /\ ~EndResume(P)
      BY <2>1 DEF LibStep, BeginResume, EndSuspend, EndResume
    <3>2. QED  BY <1>1, <1>2, <1>15, <2>1, <3>1 DEF ResumeAndWait, SuspendInv
  <2>2. CASE EndResume(P) /\ ppc' = "wait"
    <3>1. ppc = "again" /\ mState' = "RUN_RECEIVE"
      BY <1>15 DEF ResumeAndWait, StateInv, Handling
    <3>2. QED  BY <1>1, <2>2, <3>1, SuspendEffect DEF SuspendInv
  <2>3. QED  BY <1>15, <2>1, <2>2 DEF ResumeAndWait
<1>16. QED
  BY <1>3, <1>4, <1>5, <1>6, <1>8, <1>9, <1>10, <1>11, <1>12, <1>13, <1>14, <1>15
     DEF Next, PostmanStep, Works
-----------------------------------------------------------------------------
(* What a screen that asked for a stop can rely on.                        *)

HasPause(q)   == \E i \in DOMAIN q : q[i] = "PAUSE"
PauseBehind(q) ==
    \A i \in DOMAIN q : q[i] = "START" =>
        \E j \in DOMAIN q : j > i /\ q[j] = "PAUSE"

\* Behind every START in the queue there is the PAUSE of the screen, and the
\* Postman has stopped or is going to.
StopInv ==
    screen # "open" /\ ~dropped =>
        /\ PauseBehind(queue)
        /\ mState = "STOP_RUN" \/ ppc = "pause" \/ HasPause(queue)

LEMMA AppendPause ==
    ASSUME NEW q \in Seq(Message)
    PROVE  HasPause(Append(q, "PAUSE")) /\ PauseBehind(Append(q, "PAUSE"))
<1> DEFINE r == Append(q, "PAUSE")
<1>1. /\ DOMAIN r = 1..(Len(q) + 1) /\ Len(q) \in Nat
      /\ r[Len(q) + 1] = "PAUSE"
  OBVIOUS
<1>2. \A i \in DOMAIN r : r[i] = "START" => Len(q) + 1 > i
  BY <1>1
<1>3. Len(q) + 1 \in DOMAIN r
  BY <1>1
<1> HIDE DEF r
<1>4. HasPause(r) /\ PauseBehind(r)
  BY <1>1, <1>2, <1>3 DEF HasPause, PauseBehind
<1>5. QED  BY <1>4 DEF r

LEMMA AppendReceive ==
    ASSUME NEW q \in Seq(Message)
    PROVE  /\ HasPause(q) => HasPause(Append(q, "RECEIVE"))
           /\ PauseBehind(q) => PauseBehind(Append(q, "RECEIVE"))
<1> DEFINE r == Append(q, "RECEIVE")
<1>1. /\ DOMAIN q = 1..Len(q) /\ Len(q) \in Nat /\ DOMAIN r = 1..(Len(q) + 1)
      /\ \A i \in DOMAIN q : i \in DOMAIN r /\ r[i] = q[i]
      /\ \A i \in DOMAIN r : i \in DOMAIN q \/ r[i] = "RECEIVE"
  OBVIOUS
<1> HIDE DEF r
<1>2. /\ HasPause(q) => HasPause(r)
      /\ PauseBehind(q) => PauseBehind(r)
  BY <1>1 DEF HasPause, PauseBehind
<1>3. QED  BY <1>2 DEF r

LEMMA TailPause ==
    ASSUME NEW q \in Seq(Message), q # <<>>
    PROVE  /\ HasPause(q) /\ Head(q) # "PAUSE" => HasPause(Tail(q))
           /\ PauseBehind(q) => PauseBehind(Tail(q))
           /\ PauseBehind(q) /\ Head(q) = "START" => HasPause(Tail(q))
<1> DEFINE r == Tail(q)
<1>1. /\ Len(q) \in Nat /\ Len(q) >= 1 /\ DOMAIN q = 1..Len(q)
      /\ DOMAIN r = 1..(Len(q) - 1) /\ Head(q) = q[1]
      /\ \A i \in DOMAIN r : r[i] = q[i + 1]
  OBVIOUS
<1> HIDE DEF r
<1>2. \A i \in DOMAIN q : i > 1 => i - 1 \in DOMAIN r /\ r[i - 1] = q[i]
  BY <1>1
<1>3. ASSUME NEW i \in DOMAIN q, i > 1, q[i] = "PAUSE"
      PROVE  HasPause(r)
  BY <1>2, <1>3 DEF HasPause
<1>4. HasPause(q) /\ Head(q) # "PAUSE" => HasPause(r)
  BY <1>1, <1>3 DEF HasPause
<1>5. PauseBehind(q) /\ Head(q) = "START" => HasPause(r)
  <2>1. 1 \in DOMAIN q
    BY <1>1
  <2>2. QED  BY <1>1, <1>3, <2>1 DEF PauseBehind
<1>6. ASSUME PauseBehind(q), NEW i \in DOMAIN r, r[i] = "START"
      PROVE  \E j \in DOMAIN r : j > i /\ r[j] = "PAUSE"
  <2>1. i + 1 \in DOMAIN q /\ q[i + 1] = "START" /\ i \in Nat
    BY <1>1, <1>6
  <2>2. PICK k \in DOMAIN q : k > i + 1 /\ q[k] = "PAUSE"
    BY <1>6, <2>1 DEF PauseBehind
  <2>3. k - 1 > i /\ k > 1
    BY <1>1, <2>1, <2>2
  <2>4. QED  BY <1>2, <2>2, <2>3
<1>7. QED  BY <1>4, <1>5, <1>6 DEF PauseBehind, r

LEMMA StopInit == Init => StopInv
BY DEF Init, StopInv

LEMMA StopStep ==
    ASSUME StateInv, StopInv, [Next]_vars
    PROVE  StopInv'
<1> USE DEF StopInv
<1>1. queue \in Seq(Message)
  BY DEF StateInv
<1>2. CASE UNCHANGED <<screen, dropped, queue, ppc, mState>>
  BY <1>2 DEF HasPause, PauseBehind
<1>3. CASE StopReceiveSchedule \/ StopAndWait
  <2>1. CASE dropped'
    BY <2>1
  <2>2. CASE ~dropped'
    <3>1. queue' = Append(queue, "PAUSE")
      BY <1>3, <2>2 DEF StopReceiveSchedule, StopAndWait, Send_Pause, Send
    <3>2. QED  BY <1>1, <3>1, AppendPause
  <2>3. QED  BY <2>1, <2>2
<1>4. CASE StartReceiveSchedule
  BY <1>4 DEF StartReceiveSchedule
<1>5. CASE ReceiveImmediately
  BY <1>5 DEF ReceiveImmediately, main
<1>6. CASE SeeStopped
  BY <1>6 DEF SeeStopped, thread
<1>7. CASE MainUse
  BY <1>2, <1>7 DEF MainUse, main, thread
<1>8. CASE Alarm
  <2>1. queue' \in {queue, Append(queue, "RECEIVE")}
    BY <1>8 DEF Alarm, Send_ReceiveImmediately, Send
  <2>2. UNCHANGED <<screen, dropped, ppc, mState>>
    BY <1>8 DEF Alarm, main
  <2>3. QED  BY <1>1, <2>1, <2>2, AppendReceive
\* Only the handlers and Pause find or leave STOP_RUN, or take from the queue.
<1>9. ASSUME /\ UNCHANGED <<screen, dropped, queue>>
             /\ mState # "STOP_RUN" /\ ppc # "pause"
      PROVE  StopInv'
  BY <1>9
<1>10. CASE \/ Resume \/ EnterRun(FALSE) \/ StartRun
            \/ UseLibrary("task", "list") \/ UseLibrary("list", "resume")
            \/ ResumeScheduler \/ SaveMail
  BY <1>9, <1>10
     DEF Resume, EnterRun, StartRun, UseLibrary, ResumeScheduler, SaveMail, At,
         main, StateInv, Handling
<1>11. CASE \/ SuspendToReceive \/ OpenToReceive \/ LookAtMail
            \/ CloseAfterReceive \/ ResumeAndWait
  BY <1>9, <1>11
     DEF SuspendToReceive, OpenToReceive, LookAtMail, CloseAfterReceive,
         ResumeAndWait, At, main, StateInv, Handling
<1>12. CASE HandleStart
  BY <1>1, <1>12, TailPause DEF HandleStart, main
<1>13. CASE HandleReceive
  BY <1>1, <1>13, TailPause DEF HandleReceive, At, main
<1>14. CASE HandlePause
  BY <1>1, <1>14, TailPause DEF HandlePause, GoOn, main
<1>15. CASE Pause
  BY <1>15 DEF Pause, PauseBegins, main
<1>16. QED
  BY <1>2, <1>3, <1>4, <1>5, <1>6, <1>7, <1>8, <1>10, <1>11, <1>12, <1>13, <1>14, <1>15
     DEF Next, PostmanStep, Works, Screens, vars

-----------------------------------------------------------------------------
(* The results.                                                            *)

Inv == LibInv /\ StateInv /\ SuspendInv /\ StopInv

LEMMA Invariant == Spec => []Inv
<1>1. Init => Inv
  BY LibInitInv, StateInit, SuspendInit, StopInit DEF Init, Inv
<1>2. Inv /\ [Next]_vars => Inv'
  BY LibNextInv, StateStep, SuspendStep, StopStep DEF Inv
<1>3. QED  BY <1>1, <1>2, PTL DEF Spec

\* Every variable has its type: the queue never grows beyond its length, and
\* the counts of the library are numbers (NWC24Schedule.c lets none go below 0).
THEOREM TypeCorrect == Spec => []TypeOK
<1>1. Inv => TypeOK
  BY DEF Inv, LibInv, StateInv, TypeOK
<1>2. QED  BY <1>1, Invariant, PTL

\* The scheduler is suspended while a thread works on the files of the library.
THEOREM NoDownload == Spec => []NoDownloadWhileOpen
<1>1. ASSUME Inv PROVE NoDownloadWhileOpen
  <2>1. opened \/ (\E t \in Thread : InLibrary(t)) => openCnt >= 1
    BY <1>1 DEF Inv, LibInv, InLibrary, Suspended
  <2>2. openCnt >= 1 => ios > 0
    BY <1>1 DEF Inv, LibInv, LibTypeOK
  <2>3. QED  BY <2>1, <2>2 DEF NoDownloadWhileOpen
<1>2. QED  BY <1>1, Invariant, PTL

\* One thread at a time is in the library.
THEOREM OneUser == Spec => []OneLibraryUser
<1>1. Inv => OneLibraryUser
  BY DEF Inv, LibInv, OneLibraryUser, InLibrary, Locked
<1>2. QED  BY <1>1, Invariant, PTL

\* A screen that has seen the receiving stopped is right about it, or has a
\* PAUSE of its own on its way.
THEOREM StopIsReal == Spec => []StopHolds
<1>1. ASSUME Inv PROVE StopHolds
  <2>1. mState = "STOP_RUN" => Stopped
    <3> SUFFICES ASSUME mState = "STOP_RUN" PROVE Stopped
      OBVIOUS
    <3>1. ppc = "wait" /\ ~receiving
      BY <1>1 DEF Inv, StateInv, Handling
    <3>2. faults = 0 => ios > 0
      BY <1>1, <3>1 DEF Inv, SuspendInv, SuspendsOnce, LibInv, LibTypeOK
    <3>3. QED  BY <3>1, <3>2 DEF Stopped
  <2>2. screen = "holding" => mState \in {"RUN_RECEIVE", "STOP_RUN"}
    BY <1>1 DEF Inv, StateInv
  <2>3. screen = "holding" /\ ~dropped => mState = "STOP_RUN" \/ PausePending
    BY <1>1 DEF Inv, StopInv, HasPause, PausePending
  <2>4. QED  BY <2>1, <2>2, <2>3 DEF StopHolds
<1>2. QED  BY <1>1, Invariant, PTL

\* Between two receptions the Postman has given its suspension back.
THEOREM GivenBack == Spec => []NotLeftSuspended
<1>1. Inv => NotLeftSuspended
  BY DEF Inv, SuspendInv, SuspendsOnce, NotLeftSuspended
<1>2. QED  BY <1>1, Invariant, PTL

\* Receiving goes on until a PAUSE.
THEOREM ReceivingGoesOn == Spec => KeepsReceiving
<1>1. ASSUME Inv, [Next]_vars
      PROVE  [Receives /\ ppc \notin StartUp => Receives' \/ mState' = "STOP_RUN"]_vars
  <2> SUFFICES ASSUME Receives, ppc \notin StartUp, Next
               PROVE  Receives' \/ mState' = "STOP_RUN"
    BY <1>1 DEF Receives, vars
  <2>1. StateInv
    BY <1>1 DEF Inv
  <2> USE DEF Receives, StartUp, At, GoOn
  <2>2. CASE Alarm
    BY <2>1, <2>2, SendType DEF Alarm, Send_ReceiveImmediately, StateInv, Message
  <2>3. CASE Screens
    <3>1. /\ \E m \in Message : Send(m)
          /\ UNCHANGED <<mState, alarm, ppc>>
      BY <2>3 DEF Screens, StopReceiveSchedule, StopAndWait, StartReceiveSchedule,
                  ReceiveImmediately, Send_Pause, Send_Start,
                  Send_ReceiveImmediately, Message, thread
    <3>2. QED  BY <2>1, <3>1, SendType DEF StateInv
  <2>4. CASE SeeStopped \/ MainUse
    BY <2>4 DEF SeeStopped, MainUse, thread
  <2>5. CASE Resume \/ EnterRun(FALSE)
    BY <2>5 DEF Resume, EnterRun
  <2>6. CASE HandleStart \/ HandleReceive \/ HandlePause
    BY <2>6 DEF HandleStart, HandleReceive, HandlePause
  <2>7. CASE Pause
    BY <2>7 DEF Pause, PauseBegins
  <2>8. CASE \/ StartRun \/ UseLibrary("task", "list")
             \/ UseLibrary("list", "resume") \/ SaveMail
    BY <2>8 DEF StartRun, UseLibrary, SaveMail
  <2>9. CASE ResumeScheduler \/ SuspendToReceive \/ OpenToReceive
    BY <2>9 DEF ResumeScheduler, SuspendToReceive, OpenToReceive
  <2>10. CASE LookAtMail \/ CloseAfterReceive \/ ResumeAndWait
    BY <2>10 DEF LookAtMail, CloseAfterReceive, ResumeAndWait, set_alarm
  <2>11. QED
    BY <2>2, <2>3, <2>4, <2>5, <2>6, <2>7, <2>8, <2>9, <2>10
       DEF Next, PostmanStep, Works
<1>2. QED  BY <1>1, Invariant, PTL DEF Spec, KeepsReceiving

-----------------------------------------------------------------------------
(* The remote control.                                                     *)

\* In the states 0 and 1 it has given everything back.
TVInv ==
    /\ TVTypeOK
    /\ tState \in {0, 1} => ~forceInvalid /\ music = "on"

LEMMA TVStep ==
    ASSUME TVInv, TVLoaded \/ SetEnable \/ TVUpdate
    PROVE  TVInv'
\* It keeps what it has, takes all, or gives all back.
<1>1. /\ tReady' \in BOOLEAN /\ tDisabled' \in BOOLEAN /\ tResetting' = tResetting
      /\ \/ UNCHANGED <<tState, forceInvalid, music>>
         \/ tState \in {0, 1} /\ tState' \in {0, 1} /\ UNCHANGED <<forceInvalid, music>>
         \/ tState' = 3 /\ forceInvalid' = TRUE /\ UNCHANGED music
         \/ tState' \in {4, 12} /\ UNCHANGED <<forceInvalid, music>>
         \/ /\ tState' \in {2, 4, 5} /\ music' \in {"paused", "off"}
            /\ UNCHANGED forceInvalid
         \/ tState' = 1 /\ music' = "on" /\ forceInvalid' = FALSE
  <2>1. CASE TVLoaded
    BY <2>1 DEF TVLoaded, TVInv, TVTypeOK
  <2>2. CASE SetEnable
    BY <2>2 DEF SetEnable, TVInv, TVTypeOK
  <2>3. CASE TVUpdate
    <3>1. UNCHANGED <<tReady, tDisabled, tResetting>>
      BY <2>3 DEF TVUpdate
    <3>2. \/ UNCHANGED <<tState, forceInvalid, music>>
          \/ tState \in {0, 1} /\ tState' \in {0, 1} /\ UNCHANGED <<forceInvalid, music>>
          \/ tState' = 3 /\ forceInvalid' = TRUE /\ UNCHANGED music
          \/ tState' \in {4, 12} /\ UNCHANGED <<forceInvalid, music>>
          \/ /\ tState' \in {2, 4, 5} /\ music' \in {"paused", "off"}
             /\ UNCHANGED forceInvalid
          \/ tState' = 1 /\ music' = "on" /\ forceInvalid' = FALSE
      BY <2>3 DEF TVUpdate, Stay, Become, WaitForButton, TakeControllers, StopMusic,
                  SendCommand, SendAgain, GiveBack
    <3>3. QED  BY <3>1, <3>2 DEF TVInv, TVTypeOK
  <2>4. QED  BY <2>1, <2>2, <2>3
<1>2. TVTypeOK'
  BY <1>1 DEF TVInv, TVTypeOK, TVStates
<1>3. tState' \in {0, 1} => ~forceInvalid' /\ music' = "on"
  BY <1>1 DEF TVInv
<1>4. QED  BY <1>2, <1>3 DEF TVInv

\* Once it knows of the reset, a remote control at rest stays at rest.
LEMMA TVRests ==
    ASSUME tResetting, tState = 0, TVLoaded \/ SetEnable \/ TVUpdate
    PROVE  tResetting' /\ tState' = 0
<1>1. tResetting' = tResetting
  BY DEF TVLoaded, SetEnable, TVUpdate
<1>2. CASE TVLoaded \/ SetEnable
  BY <1>1, <1>2 DEF TVLoaded, SetEnable
<1>3. CASE TVUpdate
  <2>1. ~IsEnabled
    BY DEF IsEnabled
  <2>2. Stay \/ (WaitForButton /\ Become(0))
    BY <1>3, <2>1
       DEF TVUpdate, WaitForButton, StopMusic, SendCommand, SendAgain, GiveBack
  <2>3. QED  BY <1>1, <2>2 DEF Stay, Become
<1>4. QED  BY <1>2, <1>3

-----------------------------------------------------------------------------
(* The Postman, which asks whether there is a reset when it begins.        *)

\* The step of a thread that is suspended, or enters Run().
LEMMA EnterStep ==
    ASSUME LibInv, StateInv, NEW r \in BOOLEAN, EnterRun(r)
    PROVE  /\ LibInv' /\ StateInv'
           /\ ppc = "resumed" /\ ppc' = IF r THEN "ended" ELSE "init"
<1>1. /\ UNCHANGED <<lib, main, queue, paused, mState, alarm, receiving, mail>>
      /\ ppc = "resumed" /\ ppc' = IF r THEN "ended" ELSE "init"
  BY DEF EnterRun, At, GoOn
<1>2. LibInv'
  BY <1>1 DEF LibInv, LibTypeOK, lib
<1>3. StateInv'
  BY <1>1 DEF StateInv, main, Handling, PC, StartUp
<1>4. QED  BY <1>1, <1>2, <1>3

\* What the Postman does that the reset handler depends on: it enters its
\* start-up by EnterRun only, and is UNKNOWN from its second step on.
LEMMA WorksStartUp ==
    ASSUME StateInv, Works \/ Alarm,
           ppc \in StartUp \ {"init"} => mState = "UNKNOWN"
    PROVE  /\ ppc' \in StartUp => ppc \in StartUp
           /\ ppc' # "init"  \/ ppc = "init"
           /\ ppc' \in StartUp \ {"init"} => mState' = "UNKNOWN"
<1> USE DEF StartUp, At, GoOn
<1>1. CASE Alarm \/ StartRun
  BY <1>1 DEF Alarm, StartRun
<1>2. CASE UseLibrary("task", "list") \/ UseLibrary("list", "resume")
  BY <1>2 DEF UseLibrary
<1>3. CASE ResumeScheduler \/ SaveMail
  BY <1>3 DEF ResumeScheduler, SaveMail
<1>4. CASE HandleStart \/ HandleReceive \/ HandlePause \/ Pause
  BY <1>4 DEF HandleStart, HandleReceive, HandlePause, Pause, PauseBegins
<1>5. CASE \/ SuspendToReceive \/ OpenToReceive \/ LookAtMail
           \/ CloseAfterReceive \/ ResumeAndWait
  BY <1>5 DEF SuspendToReceive, OpenToReceive, LookAtMail, CloseAfterReceive,
              ResumeAndWait
<1>6. QED  BY <1>1, <1>2, <1>3, <1>4, <1>5 DEF Works

-----------------------------------------------------------------------------
(* The reset handler.                                                      *)

OwnTypeOK ==
    /\ rState \in {"WAIT", "RESTART", "SHUTDOWN"}
    /\ upd \in {"LIB", "VIDEO", "SYSTEM", "off"}
    /\ storing \in BOOLEAN
    /\ fader \in {"PREPARE_OUT", "FADE_OUT", "PREPARE_IN"}
    /\ busy \in BOOLEAN /\ address \in BOOLEAN /\ nandFull \in BOOLEAN
    /\ excused \in BOOLEAN

\* A reset that was accepted is not taken back, and found the remote control at
\* rest.
AcceptedInv == upd # "LIB" => isResetting /\ tResetting /\ tState = 0

StartUpInv ==
    /\ ppc \in StartUp \ {"init"} => mState = "UNKNOWN"
    /\ upd # "LIB" /\ ppc \in StartUp => excused

ResetInv ==
    /\ LibInv /\ StateInv /\ TVInv
    /\ OwnTypeOK /\ AcceptedInv /\ StartUpInv

LEMMA ResetInitInv == ResetInit => ResetInv
<1> SUFFICES ASSUME ResetInit PROVE ResetInv
  OBVIOUS
<1>1. LibInv /\ StateInv
  BY LibInitInv, StateInit DEF ResetInit, Init
<1>2. TVInv
  BY DEF ResetInit, TVInit, TVInv, TVTypeOK, TVStates
<1>3. OwnTypeOK /\ AcceptedInv /\ StartUpInv
  BY DEF ResetInit, Init, OwnTypeOK, AcceptedInv, StartUpInv, StartUp
<1>4. QED  BY <1>1, <1>2, <1>3 DEF ResetInv

\* The parts of the invariant about other modules' variables survive a step that
\* leaves these variables alone.
LEMMA Frames ==
    /\ LibInv /\ StateInv /\ UNCHANGED vars => LibInv' /\ StateInv'
    /\ TVInv /\ UNCHANGED tv => TVInv'
<1>1. LibInv /\ UNCHANGED vars => LibInv'
  BY DEF vars, LibInv, LibTypeOK
<1>2. StateInv /\ UNCHANGED vars => StateInv'
  BY StateStep
<1>3. TVInv /\ UNCHANGED tv => TVInv'
  BY DEF tv, TVInv, TVTypeOK
<1>4. QED  BY <1>1, <1>2, <1>3

LEMMA ResetStepInv ==
    ASSUME ResetInv, [ResetNext]_allVars
    PROVE  ResetInv'
<1> USE DEF ResetInv
<1>1. CASE UNCHANGED allVars
  BY <1>1, Frames
     DEF allVars, reset, scenes, tv, vars, OwnTypeOK, AcceptedInv, StartUpInv,
         isResetting
<1>2. CASE cbReset \/ cbPowerOff \/ StoreReset
  <2>1. /\ UNCHANGED <<vars, tv, scenes, upd, fader, excused>>
        /\ rState' \in {"WAIT", "RESTART", "SHUTDOWN"} /\ storing' \in BOOLEAN
        /\ isResetting => isResetting'
    BY <1>2 DEF cbReset, cbPowerOff, StoreReset, isResetting, OwnTypeOK
  <2>2. QED
    BY <2>1, Frames
       DEF vars, tv, scenes, OwnTypeOK, AcceptedInv, StartUpInv
<1>3. CASE TestReset
  BY <1>3, Frames
     DEF TestReset, vars, tv, scenes, OwnTypeOK, AcceptedInv, StartUpInv, isResetting
<1>4. CASE ShutdownLib
  <2>1. /\ UNCHANGED <<vars, scenes, rState, storing, tState, tReady, tDisabled,
                       forceInvalid, music>>
        /\ isResetting /\ tResetting' = TRUE /\ upd = "LIB"
    BY <1>4 DEF ShutdownLib
  <2>2. LibInv' /\ StateInv' /\ TVInv'
    BY <2>1, Frames DEF TVInv, TVTypeOK
  <2>3. CASE UNCHANGED <<upd, fader, excused>>
    BY <2>1, <2>2, <2>3 DEF vars, scenes, OwnTypeOK, AcceptedInv, StartUpInv
  <2>4. CASE /\ Accepted /\ fader' = "FADE_OUT" /\ upd' = "VIDEO"
             /\ excused' = (ppc = "init" \/ address)
    <3>1. AcceptedInv'
      BY <2>1, <2>4 DEF Accepted, AcceptedInv, isResetting
    <3>2. ppc \in StartUp => excused'
      BY <2>4 DEF Accepted, MayCutPostman, StartUpInv
    <3>3. StartUpInv'
      BY <2>1, <3>2 DEF StartUpInv, vars
    <3>4. excused' \in BOOLEAN
      BY <2>4
    <3>5. OwnTypeOK'
      BY <2>1, <2>4, <3>4 DEF OwnTypeOK, scenes
    <3>6. QED  BY <2>2, <3>1, <3>3, <3>5
  <2>5. QED  BY <1>4, <2>3, <2>4 DEF ShutdownLib
<1>5. CASE ShutdownVideo \/ ShutdownSystem \/ CalcFader
  BY <1>5, Frames
     DEF ShutdownVideo, ShutdownSystem, CalcFader, vars, tv, scenes, OwnTypeOK,
         AcceptedInv, StartUpInv, isResetting
<1>6. CASE SceneStep
  <2>1. UNCHANGED <<vars, tv, reset>>
    BY <1>6 DEF SceneStep
  <2>2. (LibInv /\ StateInv /\ TVInv)'
    BY <2>1, Frames DEF vars, tv
  <2>3. OwnTypeOK'
    BY <1>6, <2>1 DEF SceneStep, reset, OwnTypeOK
  <2>4. AcceptedInv' /\ StartUpInv'
    BY <2>1 DEF vars, tv, reset, AcceptedInv, StartUpInv, isResetting
  <2>5. QED  BY <2>2, <2>3, <2>4
<1>7. CASE RemoteStep
  <2>1. /\ TVLoaded \/ SetEnable \/ TVUpdate
        /\ UNCHANGED <<vars, reset, scenes>>
    BY <1>7 DEF RemoteStep
  <2>2. LibInv' /\ StateInv' /\ TVInv'
    BY <2>1, TVStep, Frames
  <2>3. AcceptedInv'
    BY <2>1, TVRests DEF AcceptedInv, reset, isResetting
  <2>4. OwnTypeOK' /\ StartUpInv'
    BY <2>1 DEF OwnTypeOK, StartUpInv, reset, scenes, vars
  <2>5. QED  BY <2>2, <2>3, <2>4
\* The Postman's steps leave the others' variables alone.
<1>8. ASSUME UNCHANGED <<tv, reset, scenes>>
      PROVE  TVInv' /\ OwnTypeOK' /\ AcceptedInv'
  <2>1. TVInv'
    BY <1>8, Frames
  <2>2. OwnTypeOK'
    BY <1>8 DEF OwnTypeOK, reset, scenes
  <2>3. AcceptedInv'
    BY <1>8 DEF AcceptedInv, isResetting, tv, reset
  <2>4. QED  BY <2>1, <2>2, <2>3
<1>9. CASE ResumePostman
  <2>1. Resume /\ UNCHANGED <<tv, reset, scenes>>
    BY <1>9 DEF ResumePostman
  <2>2. LibInv' /\ StateInv'
    BY <2>1, LibNextInv, StateStep DEF Next
  <2>3. StartUpInv'
    BY <2>1 DEF StartUpInv, Resume, GoOn, StartUp
  <2>4. QED  BY <1>8, <2>1, <2>2, <2>3
<1>10. CASE (Works \/ Alarm) /\ UNCHANGED <<tv, reset, scenes>>
  <2>1. Next
    BY <1>10 DEF Next, PostmanStep
  <2>2. LibInv' /\ StateInv'
    BY <2>1, LibNextInv, StateStep
  <2>3. StartUpInv'
    BY <1>10, WorksStartUp DEF StartUpInv, reset
  <2>4. QED  BY <1>8, <1>10, <2>2, <2>3
<1>11. CASE EnterRun(isResetting) /\ UNCHANGED <<tv, reset, scenes>>
  <2>1. isResetting \in BOOLEAN
    BY DEF isResetting
  <2>2. /\ LibInv' /\ StateInv'
        /\ ppc' = IF isResetting THEN "ended" ELSE "init"
    BY <1>11, <2>1, EnterStep
  <2>3. StartUpInv'
    BY <1>11, <2>2 DEF StartUpInv, StartUp, AcceptedInv, reset
  <2>4. QED  BY <1>8, <1>11, <2>2, <2>3
<1>12. QED
  BY <1>1, <1>2, <1>3, <1>4, <1>5, <1>6, <1>7, <1>9, <1>10, <1>11
     DEF ResetNext, ResetUpdate, PostmanRuns, AlarmRings, Off

LEMMA ResetInvariant == ResetSpec => []ResetInv
BY ResetInitInv, ResetStepInv, PTL DEF ResetSpec

-----------------------------------------------------------------------------
(* The results.                                                            *)

\* Every variable has its type.
THEOREM ResetTypeCorrect == ResetSpec => []ResetTypeOK
<1>1. ResetInv => ResetTypeOK
  BY DEF ResetInv, LibInv, StateInv, TVInv, OwnTypeOK, TypeOK, ResetTypeOK
<1>2. QED  BY <1>1, ResetInvariant, PTL

\* An accepted reset cuts off no command of the remote control.
THEOREM RemoteLeftAtRest == ResetSpec => []RemoteAtRest
<1>1. ResetInv => RemoteAtRest
  BY DEF ResetInv, TVInv, AcceptedInv, RemoteAtRest
<1>2. QED  BY <1>1, ResetInvariant, PTL

\* An accepted reset cuts off the start-up of the Postman in two cases only.
THEOREM StartUpKept == ResetSpec => []StartUpCutOnlyByRace
<1>1. ResetInv => StartUpCutOnlyByRace
  BY DEF ResetInv, StartUpInv, StartUpCutOnlyByRace
<1>2. QED  BY <1>1, ResetInvariant, PTL

\* The first request is kept, up to the race in reset().
THEOREM FirstRequestKept == ResetSpec => RequestKept
<1>1. [ResetNext]_allVars =>
          [isResetting => rState' = rState \/ storing]_allVars
  <2> SUFFICES ASSUME ResetNext, isResetting
               PROVE  rState' = rState \/ storing
    OBVIOUS
  <2>1. CASE cbReset \/ cbPowerOff \/ TestReset \/ StoreReset
    BY <2>1 DEF cbReset, cbPowerOff, TestReset, StoreReset
  <2>2. CASE ResetUpdate \/ CalcFader
    BY <2>2 DEF ResetUpdate, ShutdownLib, ShutdownVideo, ShutdownSystem, CalcFader
  <2>3. CASE SceneStep \/ RemoteStep \/ ResumePostman \/ PostmanRuns \/ AlarmRings
    BY <2>3 DEF SceneStep, RemoteStep, ResumePostman, PostmanRuns, AlarmRings, reset
  <2>4. CASE Off
    BY <2>4 DEF Off, allVars, reset
  <2>5. QED  BY <2>1, <2>2, <2>3, <2>4 DEF ResetNext
<1>2. QED  BY <1>1, PTL DEF ResetSpec, RequestKept
=============================================================================
