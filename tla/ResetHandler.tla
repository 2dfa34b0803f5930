---------------------------- MODULE ResetHandler ----------------------------
(***************************************************************************)
(* Restarting and switching off: ipl::ResetHandler                         *)
(* (src/src/system/iplResetHandler.cpp) with all that a reset waits for:   *)
(* the scenes and the save data, the remote control of the television      *)
(* (TVRemote), and the Postman (Postman), whose start-up and receptions    *)
(* are not to be cut off.                                                  *)
(*                                                                         *)
(* The main thread is ahead of the Postman in priority, so that update(),  *)
(* which does not wait, is one step.  The buttons of the console are       *)
(* interrupts and come anywhere.  What the main thread does with the       *)
(* message library itself it ends within a frame (see Postman), and PAUSE  *)
(* and START are left out: they neither begin a start-up nor prolong a     *)
(* reception.  After err_run was entered other callbacks are installed,    *)
(* and update() is not called any more.                                    *)
(***************************************************************************)
EXTENDS Postman, TVRemote

VARIABLES
    rState,   \* ResetHandler::mState, written by interrupts too
    upd,      \* mUpdateState; "off" after OSRebootSystem or OSShutdownSystem
    storing,  \* reset() has tested mState and not stored it yet
    fader,    \* the status of System's reset fader
    busy,     \* a scene, the save data or System does not accept a reset
    address,  \* SCENE_ADDRESS exists
    nandFull, \* System::isNandFull()
    excused   \* history: the reset was accepted between two steps of Run(), or
              \* with the address book shown

reset == <<rState, upd, storing, fader, excused>>
scenes == <<busy, address, nandFull>>
allVars == <<vars, tv, reset, scenes>>

ResetTypeOK ==
    /\ TypeOK /\ TVTypeOK
    /\ rState \in {"WAIT", "RESTART", "SHUTDOWN"}
    /\ upd \in {"LIB", "VIDEO", "SYSTEM", "off"}
    /\ storing \in BOOLEAN
    /\ fader \in {"PREPARE_OUT", "FADE_OUT", "PREPARE_IN"}
    /\ busy \in BOOLEAN /\ address \in BOOLEAN /\ nandFull \in BOOLEAN
    /\ excused \in BOOLEAN

ResetInit ==
    /\ Init /\ TVInit
    /\ rState = "WAIT" /\ upd = "LIB" /\ storing = FALSE /\ fader = "PREPARE_OUT"
    /\ busy = FALSE /\ address = FALSE /\ nandFull = FALSE
    /\ excused = FALSE

On == upd # "off"
isResetting == rState # "WAIT"

-----------------------------------------------------------------------------
(* Requests.                                                               *)

\* cbReset, an interrupt.
cbReset ==
    /\ rState' = IF isResetting THEN rState ELSE "RESTART"
    /\ UNCHANGED <<vars, tv, scenes, upd, storing, fader, excused>>

\* Mutant: the power button overrides a restart.
cbPowerOffAlways ==
    /\ rState' = "SHUTDOWN"
    /\ UNCHANGED <<vars, tv, scenes, upd, storing, fader, excused>>

\* cbPowerOff, an interrupt.
cbPowerOff ==
    /\ rState' = IF isResetting THEN rState ELSE "SHUTDOWN"
    /\ UNCHANGED <<vars, tv, scenes, upd, storing, fader, excused>>

\* reset(), from the HOME Menu and ChannelTitle: the test ...
TestReset ==
    /\ ~storing
    /\ ~isResetting
    /\ storing' = TRUE
    /\ UNCHANGED <<vars, tv, scenes, rState, upd, fader, excused>>

\* ... and the assignment, with interrupts in between.
StoreReset ==
    /\ storing
    /\ rState' = "RESTART"
    /\ storing' = FALSE
    /\ UNCHANGED <<vars, tv, scenes, upd, fader, excused>>

-----------------------------------------------------------------------------
(* update(), once in each frame of run() and reset_run().                  *)

\* Mutant: a start-up of the Postman does not hold the reset up.
MayCutPostmanAnytime == TRUE

\* The Postman is not in its start-up, or the address book is shown.
MayCutPostman == mState # "UNKNOWN" \/ address

\* createdAfterAndLibMgr() is true once the Postman was resumed.
NothingReceived == nandFull \/ ppc = "created" \/ ~receiving

Accepted == ~busy /\ tState = 0 /\ MayCutPostman /\ NothingReceived

\* Mutant: the remote control is not told of the reset.
ShutdownLibAlone ==
    /\ isResetting /\ upd = "LIB"
    /\ ~storing
    /\ \/ ~Accepted /\ UNCHANGED <<upd, fader, excused>>
       \/ /\ Accepted
          /\ fader' = "FADE_OUT"
          /\ upd' = "VIDEO"
          /\ excused' = (ppc = "init" \/ address)
    /\ UNCHANGED <<vars, tv, scenes, rState, storing>>

\* RESET_STATE_SHUTDOWN_LIB: everything is asked again in each frame.
ShutdownLib ==
    /\ isResetting /\ upd = "LIB"
    /\ ~storing
    /\ tResetting' = TRUE
    /\ \/ ~Accepted /\ UNCHANGED <<upd, fader, excused>>
       \/ /\ Accepted
          /\ fader' = "FADE_OUT"
          /\ upd' = "VIDEO"
          /\ excused' = (ppc = "init" \/ address)
    /\ UNCHANGED <<vars, scenes, rState, storing, tState, tReady, tDisabled,
                   forceInvalid, music>>

\* RESET_STATE_SHUTDOWN_VIDEO: nothing is asked any more (no scene overrides
\* isResetProcessDone).
ShutdownVideo ==
    /\ upd = "VIDEO"
    /\ fader = "PREPARE_IN"
    /\ upd' = "SYSTEM"
    /\ UNCHANGED <<vars, tv, scenes, rState, storing, fader, excused>>

\* RESET_STATE_SHUTDOWN_SYSTEM: a restart waits for the controllers as well.
ShutdownSystem ==
    /\ upd = "SYSTEM"
    /\ upd' = "off"
    /\ UNCHANGED <<vars, tv, scenes, rState, storing, fader, excused>>

\* ColorFader::calc.
CalcFader ==
    /\ fader = "FADE_OUT"
    /\ fader' = "PREPARE_IN"
    /\ UNCHANGED <<vars, tv, scenes, rState, upd, storing, excused>>

-----------------------------------------------------------------------------
(* The rest of a frame, in reset_run too.                                  *)

SceneStep ==
    /\ \/ busy' \in BOOLEAN /\ UNCHANGED <<address, nandFull>>
       \/ address' \in BOOLEAN /\ UNCHANGED <<busy, nandFull>>
       \/ nandFull' = TRUE /\ UNCHANGED <<busy, address>>
    /\ UNCHANGED <<vars, tv, reset>>

RemoteStep ==
    /\ TVLoaded \/ SetEnable \/ TVUpdate
    /\ UNCHANGED <<vars, reset, scenes>>

PostmanRuns ==
    /\ EnterRun(isResetting) \/ Works
    /\ UNCHANGED <<tv, reset, scenes>>

\* run() resumes the Postman; reset_run, in which tResetting is TRUE, does not.
ResumePostman ==
    /\ ~tResetting /\ ~nandFull
    /\ Resume
    /\ UNCHANGED <<tv, reset, scenes>>

AlarmRings == Alarm /\ UNCHANGED <<tv, reset, scenes>>

ResetUpdate == ShutdownLib \/ ShutdownVideo \/ ShutdownSystem

Off == ~On /\ UNCHANGED allVars

ResetNext ==
    \/ On /\ (cbReset \/ cbPowerOff \/ TestReset \/ StoreReset)
    \/ On /\ (ResetUpdate \/ CalcFader)
    \/ On /\ (SceneStep \/ RemoteStep)
    \/ On /\ (ResumePostman \/ PostmanRuns \/ AlarmRings)
    \/ Off

ResetSpec == ResetInit /\ [][ResetNext]_allVars

\* A frame comes after a frame: each handler is called again and again.  Whether
\* the scenes let a reset happen is up to them.
Accept == ShutdownLib /\ upd' = "VIDEO"
RemoteGoesOn == TVProgress /\ UNCHANGED <<vars, reset, scenes>>
FairReset ==
    /\ ResetSpec
    /\ WF_allVars(On /\ StoreReset) /\ WF_allVars(On /\ ResetUpdate)
    /\ WF_allVars(On /\ CalcFader) /\ SF_allVars(On /\ Accept)
    /\ WF_allVars(On /\ RemoteGoesOn) /\ WF_allVars(On /\ PostmanRuns)

-----------------------------------------------------------------------------
(* Properties.                                                             *)

\* The first request is the one that is carried out, whatever is pressed
\* afterwards, unless it came between the two steps of a reset() of the menu,
\* which makes a restart of a power-off (ResetHandler::reset tests mState
\* without disabling interrupts).
RequestKept ==
    [][isResetting => rState' = rState \/ storing]_allVars

\* What is cut off is never the remote control half-way through a command: from
\* the moment the reset is accepted until the end it holds no controller and no
\* sound, although its buttons still work and Task3 may still enable it.
RemoteAtRest ==
    upd # "LIB" => tState = 0 /\ ~forceInvalid /\ music = "on"

\* The start-up of the Postman (the play log, the download tasks) is cut off
\* only where Run() had just found that there was no reset and not said yet
\* that it was at work, or from the address book.
StartUpCutOnlyByRace ==
    upd # "LIB" /\ ppc \in StartUp => excused

\* A reset comes to its end, unless the scenes are busy whenever nothing is
\* being received.
ResetEnds ==
    []<>(~busy /\ NothingReceived) => (isResetting ~> ~On)

=============================================================================
