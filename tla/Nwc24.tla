------------------------------- MODULE Nwc24 -------------------------------
(***************************************************************************)
(* The WiiConnect24 library as its callers share it: the scheduler that    *)
(* IOS runs and that downloads while nobody has suspended it               *)
(* (src/libs/RevoEX/src/nwc24/NWC24Schedule.c), the message library that   *)
(* works on the same files (NWC24Manage.c), and the lock that              *)
(* nwc24::Manager puts around it (src/src/system/iplNwc24Manager.cpp).     *)
(*                                                                         *)
(* A call that waits for IOS or for the file system is two steps, Begin... *)
(* and End..., between which other threads run.  IOS may refuse a command  *)
(* (nothing has happened then) and writing the configuration back may fail *)
(* softly; a file error ends in IPLErrorDisplay and is left out, and so is *)
(* a failure to close the handle of /dev/net/kd/request.                   *)
(***************************************************************************)
EXTENDS Naturals

CONSTANTS Thread,    \* the threads that call the library
          NULL,
          MaxFaults  \* bound: how many commands fail

ASSUME Nwc24Assumption == NULL \notin Thread /\ MaxFaults \in Nat

VARIABLES
    ios,        \* how often IOS has been told to suspend the scheduler
    suspendCnt, \* nwc24ScdSuspendCnt
    openCnt,    \* nwc24ScdOpenCnt
    counters,   \* owner of nwc24ScdCounterMutex
    opened,     \* Opened = NWC24_LIB_OPENED
    mLock,      \* owner of nwc24::Manager::mLock
    lpc,        \* where in the library each thread is
    faults

lib == <<ios, suspendCnt, openCnt, counters, opened, mLock, lpc, faults>>

\* "trying" and the three before it hold the counters and wait for IOS;
\* "using" is the caller, between open() and close().
LibPC == {"out", "suspending", "resuming", "giving up", "closing", "trying",
          "opening", "using", "saving"}

LibTypeOK ==
    /\ ios \in Nat /\ suspendCnt \in Nat /\ openCnt \in Nat
    /\ counters \in Thread \union {NULL}
    /\ mLock \in Thread \union {NULL}
    /\ opened \in BOOLEAN
    /\ lpc \in [Thread -> LibPC]
    /\ faults \in 0..MaxFaults

\* System::run has suspended the scheduler, or failed to.
LibInit ==
    /\ ios \in {0, 1}
    /\ faults = 1 - ios /\ faults <= MaxFaults
    /\ suspendCnt = ios
    /\ openCnt = 0
    /\ counters = NULL /\ mLock = NULL
    /\ opened = FALSE
    /\ lpc = [t \in Thread |-> "out"]

Goto(t, pc) == lpc' = [lpc EXCEPT ![t] = pc]

Granted == faults' = faults
Refused == faults < MaxFaults /\ faults' = faults + 1

-----------------------------------------------------------------------------
(* Suspending and resuming.                                                *)

\* LockCounters, and the command to IOS is on its way.
BeginCommand(t, pc) ==
    /\ counters = NULL
    /\ counters' = t
    /\ Goto(t, pc)

BeginSuspend(t) ==
    /\ lpc[t] = "out"
    /\ BeginCommand(t, "suspending")
    /\ UNCHANGED <<ios, suspendCnt, openCnt, opened, mLock, faults>>

EndSuspend(t) ==
    /\ lpc[t] = "suspending"
    /\ \/ Granted /\ ios' = ios + 1 /\ suspendCnt' = suspendCnt + 1
       \/ Refused /\ UNCHANGED <<ios, suspendCnt>>
    /\ counters' = NULL
    /\ Goto(t, "out")
    /\ UNCHANGED <<openCnt, opened, mLock>>

BeginResume(t) ==
    /\ lpc[t] = "out"
    /\ BeginCommand(t, "resuming")
    /\ UNCHANGED <<ios, suspendCnt, openCnt, opened, mLock, faults>>

\* Mutant: the library's own suspension is not protected.
OthersSuspensionAlways == FALSE

\* Mutant: the caller's own suspension is forgotten while the library is open.
OthersSuspensionWhileOpen == openCnt > 0

\* Only the open library keeps the scheduler suspended, and the caller has no
\* suspension of its own to give back (its command was refused).
OthersSuspension == openCnt > 0 /\ suspendCnt = 0

Less(n) == IF n = 0 THEN 0 ELSE n - 1

EndResume(t) ==
    /\ lpc[t] = "resuming"
    /\ \/ /\ OthersSuspension
          /\ UNCHANGED <<ios, suspendCnt, faults>>
       \/ /\ ~OthersSuspension
          /\ \/ Granted /\ ios' = Less(ios)
             \/ Refused /\ ios' = ios
          /\ suspendCnt' = Less(suspendCnt) \* whatever IOS answers
    /\ counters' = NULL
    /\ Goto(t, "out")
    /\ UNCHANGED <<openCnt, opened, mLock>>

-----------------------------------------------------------------------------
(* The message library.                                                    *)

\* Mutant: open() does not take the lock.
FreeForAnyone(t) == TRUE

\* OSTryLockMutex(&mLock).
FreeFor(t) == mLock = NULL

\* open() has to wait for nothing: it fails when another thread has the lock
\* or a command under way, or when the library is still open.
CannotOpen(t) == ~FreeFor(t) \/ opened \/ counters # NULL

BeginOpen(t) ==
    /\ lpc[t] = "out"
    /\ ~CannotOpen(t)
    /\ mLock' = t
    /\ BeginCommand(t, "trying")
    /\ UNCHANGED <<ios, suspendCnt, openCnt, opened, faults>>

\* NWC24iTrySuspendForOpenLib.
SuspendedForOpen(t) ==
    /\ lpc[t] = "trying"
    /\ Granted
    /\ ios' = ios + 1 /\ openCnt' = openCnt + 1
    /\ counters' = NULL
    /\ Goto(t, "opening")
    /\ UNCHANGED <<suspendCnt, opened, mLock>>

OpenRefused(t) ==
    /\ lpc[t] = "trying"
    /\ Refused
    /\ counters' = NULL
    /\ mLock' = NULL
    /\ Goto(t, "out")
    /\ UNCHANGED <<ios, suspendCnt, openCnt, opened>>

\* The files of the library are open.
EndOpen(t) ==
    /\ lpc[t] = "opening"
    /\ opened' = TRUE
    /\ Goto(t, "using")
    /\ UNCHANGED <<ios, suspendCnt, openCnt, counters, mLock, faults>>

\* One of them is not, and the scheduler is resumed.
BeginGiveUp(t) ==
    /\ lpc[t] = "opening"
    /\ Refused
    /\ BeginCommand(t, "giving up")
    /\ UNCHANGED <<ios, suspendCnt, openCnt, opened, mLock>>

\* NWC24iResumeForCloseLib: unlike NWC24ResumeScheduler it keeps its count when
\* it is refused.
ResumedForClose == Granted /\ ios' = Less(ios) /\ openCnt' = openCnt - 1
RefusedForClose == Refused /\ UNCHANGED <<ios, openCnt>>

EndGiveUp(t) ==
    /\ lpc[t] = "giving up"
    /\ ResumedForClose \/ RefusedForClose
    /\ counters' = NULL
    /\ mLock' = NULL
    /\ Goto(t, "out")
    /\ UNCHANGED <<suspendCnt, opened>>

\* close(): the configuration is written back, then the scheduler resumed.
BeginClose(t) ==
    /\ lpc[t] = "using"
    /\ BeginCommand(t, "closing")
    /\ UNCHANGED <<ios, suspendCnt, openCnt, opened, mLock, faults>>

\* NWC24iConfigFlush fails: the library stays open, without the lock.
FlushFails(t) ==
    /\ lpc[t] = "using"
    /\ Refused
    /\ mLock' = NULL
    /\ Goto(t, "out")
    /\ UNCHANGED <<ios, suspendCnt, openCnt, counters, opened>>

EndClose(t) ==
    /\ lpc[t] = "closing"
    /\ \/ ResumedForClose /\ opened' = FALSE
       \/ RefusedForClose /\ UNCHANGED opened
    /\ counters' = NULL
    /\ mLock' = NULL
    /\ Goto(t, "out")
    /\ UNCHANGED suspendCnt

\* saveMailNow waits for the lock.
BeginSave(t) ==
    /\ lpc[t] = "out"
    /\ mLock = NULL
    /\ mLock' = t
    /\ Goto(t, "saving")
    /\ UNCHANGED <<ios, suspendCnt, openCnt, counters, opened, faults>>

EndSave(t) ==
    /\ lpc[t] = "saving"
    /\ mLock' = NULL
    /\ Goto(t, "out")
    /\ UNCHANGED <<ios, suspendCnt, openCnt, counters, opened, faults>>

\* The step of a call that does not return yet, and the ones that do.
Inside(t)     == SuspendedForOpen(t) \/ BeginGiveUp(t)
OpenFailed(t) == OpenRefused(t) \/ EndGiveUp(t)
EndUse(t)     == FlushFails(t) \/ EndClose(t)

=============================================================================
