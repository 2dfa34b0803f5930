---------------------------- MODULE DiscManager -----------------------------
(***************************************************************************)
(* The disc drive of the menu: ipl::bs2::Manager                           *)
(* (src/src/system/iplBS2Manager.cpp), which ticks the state machine of    *)
(* BS2 (src/src/BS2/BS2Mach.c) once a frame, and the scenes that stop it   *)
(* and start it again: Memory and ChannelEdit, which wait for it in a loop *)
(* of their own, and the scenes that leave the menu.                       *)
(*                                                                         *)
(* The machine's steps themselves (BS2Tick) are not in the repository: one *)
(* goes on to any state that its users can see next.  Its callback         *)
(* (BS2DVDCallback) runs in an interrupt, at any time but inside update.   *)
(* Abstracted: states that no code tells apart are one, see State.         *)
(***************************************************************************)
EXTENDS Naturals

CONSTANT MaxFaults \* bound: times the machine ends in a fatal error

ASSUME DiscManagerAssumption == MaxFaults \in Nat

VARIABLES
    State,        \* State of BS2Mach.c
    AbortFlag,    \* AbortFlag of BS2Mach.c
    again,        \* lbl_81698A24: the machine is to begin again
    iplState,     \* mIPLState
    ticking,      \* unk_0x0C
    updateAsked,  \* unk_0x0D
    abortAsked,   \* unk_0x0E
    restartAsked, \* unk_0x0F
    nandFull,     \* System::isNandFull
    user,         \* what the menu is at
    discFaults

machine == <<State, AbortFlag, again>>
manager == <<iplState, ticking, updateAsked, abortAsked, restartAsked>>
discVars == <<machine, manager, nandFull, user, discFaults>>

\* BETWEEN: BEGIN, 1, 2, 4, 6, 8 and 10, between two commands to the drive.
\* READING: 5, 7 and 9, a command is under way; 3 as well, the first of them.
\* NO_DISK: COVER_OPEN too.  BAD: WRONG_DISK, 55, 66, 67, 68.  GAME: RVL_GAME,
\* GC_GAME, DATA_DISK.  LOADING: the states with no case anywhere.
MachineState ==
    {"BETWEEN", "3", "READING", "NO_DISK", "COVER_CLOSED", "BAD", "DIRTY_DISK", "GAME",
     "UPDATE_DISK", "RUNNING_UPDATE", "RESET_SYSTEM", "LOADING", "60", "62", "63", "64",
     "UPDATE_FAILED", "FATAL_ERROR"}
IPLState ==
    {"NO_DISK", "GAME", "BAD_DISK", "DISK_UPDATE", "RESTART_IPL", "UPDATE_FAIL", "FATAL",
     "BUSY", "STATE_8"}

\* init: before the menu.  preparing, waiting, inside: a scene of the settings
\* that needs the machine stopped was asked for, waits in create(), runs.
\* updating: from a disc.  stopping: a title is started, or the menu restarted.
\* booting: a disc is started.  error: the error screen.  off: the end.
User == {"init", "menu", "preparing", "waiting", "inside", "updating", "stopping",
         "booting", "error", "off"}

\* The states in which the machine has nothing to abort.
Idle == {"NO_DISK", "BAD", "DIRTY_DISK", "UPDATE_FAILED", "FATAL_ERROR"}

-----------------------------------------------------------------------------
(* BS2Mach.c.                                                              *)

\* BS2DVDCallback with the result 1: there is no disc any more.
DiscGone ==
    /\ State' = IF State \in {"3", "GAME", "UPDATE_DISK", "DIRTY_DISK", "63"}
                THEN "NO_DISK" ELSE State
    /\ UNCHANGED <<AbortFlag, again>>

\* With the result 2, or another and the cover register's bit.
CoverClosed ==
    /\ State' = IF State = "NO_DISK" \/ (State \in {"DIRTY_DISK", "63"} /\ ~AbortFlag)
                THEN "COVER_CLOSED" ELSE State
    /\ UNCHANGED <<AbortFlag, again>>

\* An update that was started runs.
UpdateRuns ==
    /\ State = "UPDATE_DISK" /\ user = "updating" /\ ~updateAsked
    /\ State' = "RUNNING_UPDATE"
    /\ UNCHANGED <<AbortFlag, again>>

BS2DVDCallback ==
    /\ user # "off"
    /\ DiscGone \/ CoverClosed \/ UpdateRuns
    /\ UNCHANGED <<manager, nandFull, user, discFaults>>

\* BS2AbortStateMachine, on the state s.
Aborted(s) ==
    CASE s = "64" \/ s \in Idle -> s
      [] s = "BETWEEN"          -> "64"
      [] s \in {"3", "READING"} -> "62"
      [] OTHER                  -> "60"

SetsAbortFlag(s) == s \notin Idle \union {"64", "BETWEEN"}

\* BS2Tick, from what its callers do with what it returns.
Found == {"BETWEEN", "3", "READING", "LOADING", "GAME", "BAD", "DIRTY_DISK", "UPDATE_DISK",
          "NO_DISK"}
TickFrom(s) ==
    CASE s \in {"BETWEEN", "3", "READING", "LOADING", "COVER_CLOSED"} -> {s} \union Found
      [] s = "RUNNING_UPDATE" ->
             {s, "RESET_SYSTEM", "GAME", "NO_DISK", "UPDATE_FAILED"}
      [] s \in {"60", "62"} -> {s, "64"}
      [] OTHER -> {s}

\* The state that the tick returns, and the bits it leaves.
BS2Tick(s) ==
    \/ /\ again
       /\ s = "BETWEEN"
       /\ again' = FALSE
       /\ UNCHANGED discFaults
    \/ /\ ~again
       /\ s \in TickFrom(State)
       /\ UNCHANGED <<again, discFaults>>
    \/ /\ ~again /\ State \notin Idle
       /\ discFaults < MaxFaults
       /\ s = "FATAL_ERROR"
       /\ discFaults' = discFaults + 1
       /\ UNCHANGED again

-----------------------------------------------------------------------------
(* bs2::Manager.                                                           *)

\* splashTick.
Splash(s) ==
    CASE s = "NO_DISK"               -> "NO_DISK"
      [] s = "GAME"                  -> "GAME"
      [] s \in {"BAD", "DIRTY_DISK"} -> "BAD_DISK"
      [] s = "UPDATE_DISK"           -> "DISK_UPDATE"
      [] s = "RESET_SYSTEM"          -> "RESTART_IPL"
      [] s = "64"                    -> "STATE_8"
      [] s = "UPDATE_FAILED"         -> "UPDATE_FAIL"
      [] s = "FATAL_ERROR"           -> "FATAL"
      [] OTHER                       -> "BUSY"

\* Mutant: a machine with nothing to abort is not stopped.
StopsWhenDone(s) == s = "64"

\* The part of execTick after an abort: the machine is stopped.
Stops(s) == s = "64" \/ (abortAsked /\ ~updateAsked /\ s \in Idle)

\* The branch of update() that ticks, with interrupts off: splashTick and
\* execTick on the state s.
TickWith(s) ==
    /\ BS2Tick(s)
    /\ LET aborts == abortAsked /\ ~updateAsked /\ s \notin Idle
       IN  /\ State' = IF aborts THEN Aborted(s) ELSE s
           /\ AbortFlag' = IF aborts /\ SetsAbortFlag(s) THEN TRUE
                           ELSE AbortFlag /\ ~again
    /\ iplState' = IF Stops(s) THEN "STATE_8" ELSE Splash(s)
    /\ ticking' = ~Stops(s)
    /\ updateAsked' = FALSE /\ abortAsked' = FALSE
    /\ UNCHANGED restartAsked

\* The branch that begins again: BS2RestartStateMachine.
BeginsAgain ==
    /\ again' = TRUE
    /\ ticking' = TRUE
    /\ iplState' = "NO_DISK"
    /\ restartAsked' = FALSE
    /\ UNCHANGED <<State, AbortFlag, updateAsked, abortAsked, discFaults>>

Failed == iplState \in {"UPDATE_FAIL", "FATAL"}

\* Manager::update.
update ==
    /\ ~Failed
    /\ \/ restartAsked /\ ~nandFull /\ BeginsAgain
       \/ /\ ~(restartAsked /\ ~nandFull) /\ ticking
          /\ \E s \in MachineState : TickWith(s)

\* Mutant: a restart that waits for room on the NAND survives.
abortOnly ==
    /\ abortAsked' = TRUE
    /\ UNCHANGED <<restartAsked, iplState, ticking, updateAsked>>

\* Manager::abort.
abort ==
    /\ abortAsked' = TRUE
    /\ restartAsked' = FALSE
    /\ UNCHANGED <<iplState, ticking, updateAsked>>

\* Mutant: an abort that found the machine stopped is kept.
restartOnly ==
    /\ restartAsked' = TRUE
    /\ UNCHANGED <<abortAsked, iplState, ticking, updateAsked>>

\* Manager::restart.
restart ==
    /\ abortAsked' = FALSE
    /\ restartAsked' = TRUE
    /\ UNCHANGED <<iplState, ticking, updateAsked>>

-----------------------------------------------------------------------------
(* The menu.                                                               *)

\* A frame that shows an error screen for a fatal error (System::run).
InFrames == {"init", "menu", "preparing", "inside", "updating", "stopping", "booting"}

Frame ==
    /\ user \in InFrames
    /\ update
    /\ user' = IF iplState' = "FATAL" THEN "error" ELSE user
    /\ UNCHANGED nandFull

\* The loop of create(), and of the scenes that leave.
LoopTurn ==
    /\ user = "waiting"
    /\ update
    /\ UNCHANGED <<nandFull, user>>

Goes(from, to) == user = from /\ user' = to
StaysDisc == UNCHANGED <<machine, nandFull, discFaults>>

\* The splash screens are over; they last longer than an abort.
MenuBegins ==
    /\ Goes("init", "menu")
    /\ ~abortAsked /\ (ticking => State \notin {"60", "62", "64"})
    /\ UNCHANGED manager /\ StaysDisc

\* prepare() of Memory and ChannelEdit; the tree calls create() later.
Memory_prepare == Goes("menu", "preparing") /\ abort /\ StaysDisc
Memory_create ==
    /\ Goes("preparing", "waiting")
    /\ UNCHANGED manager /\ StaysDisc
Memory_runs ==
    /\ Goes("waiting", "inside") /\ iplState = "STATE_8"
    /\ UNCHANGED manager /\ StaysDisc

\* on_fadeout2nd, which has the NAND checked.
Memory_leaves == Goes("inside", "menu") /\ restart /\ StaysDisc

\* ChannelTitle: startUpdate, and the reset after it.
startUpdate ==
    /\ iplState = "DISK_UPDATE"
    /\ Goes("menu", "updating")
    /\ updateAsked' = TRUE
    /\ UNCHANGED <<iplState, ticking, abortAsked, restartAsked>> /\ StaysDisc
UpdateEnds ==
    /\ Goes("updating", "off") /\ ~updateAsked
    /\ iplState \in {"NO_DISK", "UPDATE_FAIL", "RESTART_IPL", "GAME"}
    /\ UNCHANGED manager /\ StaysDisc

\* ChannelTitle starts the disc: reserveRVLGame, reserveGCGame.
reserveGame ==
    /\ iplState = "GAME"
    /\ Goes("menu", "booting")
    /\ ticking' = FALSE
    /\ UNCHANGED <<iplState, updateAsked, abortAsked, restartAsked>> /\ StaysDisc

\* ChannelTitle starts a title, or SettingSelect restarts the menu: their fades
\* run in frames, their loops are the last thing they do.
Menu_stops == Goes("menu", "stopping") /\ abort /\ StaysDisc
Menu_ends ==
    /\ Goes("stopping", "off") /\ iplState = "STATE_8"
    /\ UNCHANGED manager /\ StaysDisc

Boots == Goes("booting", "off") /\ UNCHANGED manager /\ StaysDisc

\* checkNandOverFlowFlagAsync has its answer.
NandChecked ==
    /\ user \in {"menu", "inside"}
    /\ nandFull' = ~nandFull
    /\ UNCHANGED <<machine, manager, user, discFaults>>

-----------------------------------------------------------------------------

DiscInit ==
    /\ State = "BETWEEN" /\ AbortFlag = FALSE /\ again = FALSE
    /\ iplState = "NO_DISK" /\ ticking = TRUE
    /\ updateAsked = FALSE /\ restartAsked = FALSE
    /\ nandFull \in BOOLEAN /\ abortAsked = nandFull
    /\ user = "init"
    /\ discFaults = 0

DiscNext ==
    \/ BS2DVDCallback
    \/ Frame \/ LoopTurn
    \/ MenuBegins
    \/ Memory_prepare \/ Memory_create \/ Memory_runs \/ Memory_leaves
    \/ startUpdate \/ UpdateEnds
    \/ reserveGame \/ Boots
    \/ Menu_stops \/ Menu_ends
    \/ NandChecked

DiscSpec == DiscInit /\ [][DiscNext]_discVars

\* A turn of a loop or a frame in which the machine, aborted, is done.
AbortDone == (Frame \/ LoopTurn) /\ State \in {"60", "62"} /\ State' = "64"

FairDisc ==
    /\ DiscSpec
    /\ WF_discVars(Frame \/ LoopTurn)
    /\ WF_discVars(AbortDone)
    /\ WF_discVars(Memory_create)
    /\ WF_discVars(Memory_runs)
    /\ WF_discVars(Menu_ends)

-----------------------------------------------------------------------------

\* The variables stay in their types.
DiscTypeOK ==
    /\ State \in MachineState /\ AbortFlag \in BOOLEAN /\ again \in BOOLEAN
    /\ iplState \in IPLState
    /\ ticking \in BOOLEAN /\ updateAsked \in BOOLEAN
    /\ abortAsked \in BOOLEAN /\ restartAsked \in BOOLEAN
    /\ nandFull \in BOOLEAN
    /\ user \in User
    /\ discFaults \in 0..MaxFaults

\* A scene that waited for the machine to stop (iplMemory.cpp:64) runs with the
\* machine stopped until it starts it again itself: nobody ticks it and it has
\* no command under way.
StoppedInside ==
    user = "inside" => ~ticking /\ State \in Idle \union {"64", "COVER_CLOSED"}

\* In the menu the drive is not turned off by an abort that was meant for an
\* earlier visit to a scene (iplBS2Manager.cpp:105-115).
StaysOn == [][user = "menu" /\ user' = "menu" /\ ticking => ticking']_discVars

\* Whoever waits for the machine to stop goes on, with the disc taken out or put
\* in at any time, unless the machine fails while it is being stopped: then the
\* loop never ends, since update() returns early (iplBS2Manager.cpp:31-33).
AbortArrives == user \in {"preparing", "waiting", "stopping"}
                    ~> user \in {"inside", "off", "error"} \/ Failed

=============================================================================
