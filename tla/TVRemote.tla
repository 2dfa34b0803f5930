------------------------------ MODULE TVRemote ------------------------------
(***************************************************************************)
(* The remote control of the television, TVRCManager::update               *)
(* (src/src/system/iplTVRCManager.cpp), as far as it takes the controllers *)
(* and the music from the rest of the menu while a command is sent, and    *)
(* gives them back.  How long a state lasts (frames, milliseconds, a sound *)
(* effect that still plays, the infrared library) is left open.            *)
(***************************************************************************)
VARIABLES
    tState,       \* mState
    tReady,       \* mbInitialized and mbPrepTVRC
    tDisabled,    \* mbDisabled
    tResetting,   \* mbResetting
    forceInvalid, \* the controllers were taken (setForceInvalid)
    music         \* "on", "paused" (pauseOnBGM), "off" (snd_shutup as well)

tv == <<tState, tReady, tDisabled, tResetting, forceInvalid, music>>

\* State 2 is left in the frame in which it is entered, but for 12, whence it
\* is entered for the next frame.
TVStates == {0, 1, 2, 3, 4, 5, 12}

TVTypeOK ==
    /\ tState \in TVStates
    /\ tReady \in BOOLEAN /\ tDisabled \in BOOLEAN /\ tResetting \in BOOLEAN
    /\ forceInvalid \in BOOLEAN
    /\ music \in {"on", "paused", "off"}

TVInit ==
    /\ tState = 0
    /\ tReady = FALSE /\ tDisabled = FALSE /\ tResetting = FALSE
    /\ forceInvalid = FALSE /\ music = "on"

\* initManagerTask, on Task3, for a console that has the TV channel.
TVLoaded ==
    /\ ~tReady
    /\ tReady' = TRUE
    /\ UNCHANGED <<tState, tDisabled, tResetting, forceInvalid, music>>

\* setEnable: ChannelSelect allows it, the scenes it goes to do not.
SetEnable ==
    /\ tDisabled' = ~tDisabled
    /\ UNCHANGED <<tState, tReady, tResetting, forceInvalid, music>>

\* Mutant: a reset does not stop what has not begun.
IsEnabledResetting == tReady /\ ~tDisabled

\* IS_ENABLED.
IsEnabled == tReady /\ ~tDisabled /\ ~tResetting

Stay == UNCHANGED <<tState, forceInvalid, music>>
Become(state) == tState' = state /\ UNCHANGED <<forceInvalid, music>>

\* State 2: the controllers are taken, and the music fades.
TakeControllers ==
    /\ tState' = 3
    /\ forceInvalid' = TRUE
    /\ UNCHANGED music

\* States 0 and 1: a button of the remote control starts a command.
WaitForButton ==
    /\ tState \in {0, 1}
    /\ \/ IsEnabled /\ (Become(1) \/ TakeControllers)
       \/ ~IsEnabled /\ Become(0)

\* State 3 lasts as long as a sound effect.
StopMusic ==
    /\ tState = 3
    /\ \/ Stay
       \/ tState' = 4 /\ music' = "paused" /\ UNCHANGED forceInvalid

\* State 4: a few frames later the sound is cut off and the command sent.
SendCommand ==
    /\ tState = 4
    /\ \/ Stay
       \/ tState' = 5 /\ music' = "off" /\ UNCHANGED forceInvalid

\* State 5: sent again while the button is held; a reset ends it at once.
SendAgain ==
    /\ tState = 5
    /\ \/ ~tResetting /\ Stay
       \/ ~tResetting /\ Become(4)
       \/ Become(12)

\* State 12: another button within a second, or everything is given back.
GiveBack ==
    /\ tState = 12
    /\ \/ Stay
       \/ ~tResetting /\ tState' = 2 /\ music' = "paused" /\ UNCHANGED forceInvalid
       \/ tState' = 1 /\ music' = "on" /\ forceInvalid' = FALSE

\* update(), in each frame.  Where the remote control is disabled, a button
\* only stops the HOME Menu, and the states are not looked at.
TVUpdate ==
    /\ tReady
    /\ \/ tDisabled /\ ~tResetting /\ Stay
       \/ WaitForButton
       \/ tState = 2 /\ TakeControllers
       \/ StopMusic \/ SendCommand \/ SendAgain \/ GiveBack
    /\ UNCHANGED <<tReady, tDisabled, tResetting>>

\* Without the user's buttons a state does not last for ever (a sound effect,
\* 30 ms, a second).
TVProgress == ~IsEnabled /\ TVUpdate /\ tState' # tState

=============================================================================
