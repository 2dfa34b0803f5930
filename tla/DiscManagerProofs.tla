------------------------- MODULE DiscManagerProofs --------------------------
(***************************************************************************)
(* Proofs about the disc manager, for any number of fatal errors: types,   *)
(* that a scene which waited for the drive runs with the drive stopped,    *)
(* and that in the menu the drive is not stopped any more.                 *)
(***************************************************************************)
EXTENDS DiscManager, TLAPS

\* The states of the machine in which it has no command under way.
Halted == Idle \union {"64", "COVER_CLOSED"}

\* Where the machine stops, or is about to.
Stopping == {"60", "62", "64"}

\* Once the manager says that the machine is stopped nobody ticks it.
SaidStopped == iplState = "STATE_8" => ~ticking /\ State \in Halted

\* No restart is pending where the machine is needed stopped.
NoRestart ==
    user \in {"preparing", "waiting", "inside", "stopping"} => ~restartAsked

InsideStopped == user = "inside" => iplState = "STATE_8"

\* In the menu no abort is pending, and the machine that is ticked begins again
\* or is not stopping.
MenuRuns ==
    user = "menu" => /\ ~abortAsked
                     /\ ticking => again \/ State \notin Stopping

DiscInv == DiscTypeOK /\ SaidStopped /\ NoRestart /\ InsideStopped /\ MenuRuns

-----------------------------------------------------------------------------
\* What a tick returns is a state of the machine.
LEMMA TickTyped ==
    ASSUME DiscTypeOK, NEW s, BS2Tick(s)
    PROVE  s \in MachineState /\ again' \in BOOLEAN /\ discFaults' \in 0..MaxFaults
<1>1. TickFrom(State) \subseteq MachineState
  <2>1. State \in MachineState
    BY DEF DiscTypeOK
  <2>2. {State} \union Found \subseteq MachineState
    BY <2>1 DEF Found, MachineState
  <2>3. QED  BY <2>1, <2>2 DEF TickFrom, MachineState
<1>2. s \in MachineState
  BY <1>1 DEF BS2Tick, MachineState
<1>3. again' \in BOOLEAN
  BY DEF BS2Tick, DiscTypeOK
<1>4. discFaults' \in 0..MaxFaults
  BY DiscManagerAssumption DEF BS2Tick, DiscTypeOK
<1>5. QED  BY <1>2, <1>3, <1>4

\* What is shown for a state; only the stopped machine is shown as such.
LEMMA SplashTyped ==
    ASSUME NEW s \in MachineState
    PROVE  Splash(s) \in IPLState /\ (Splash(s) = "STATE_8" <=> s = "64")
BY DEF Splash, IPLState, MachineState

\* An abort leaves a state of the machine.
LEMMA AbortedTyped ==
    ASSUME NEW s \in MachineState
    PROVE  Aborted(s) \in MachineState /\ (s \in Idle \union {"64"} => Aborted(s) = s)
BY DEF Aborted, MachineState, Idle

\* The frame with a tick keeps the types, and it says that the machine is
\* stopped only when it is.
LEMMA TickKeeps ==
    ASSUME DiscTypeOK, NEW s, TickWith(s)
    PROVE  /\ State' \in MachineState /\ AbortFlag' \in BOOLEAN /\ again' \in BOOLEAN
           /\ iplState' \in IPLState /\ ticking' \in BOOLEAN
           /\ updateAsked' \in BOOLEAN /\ abortAsked' \in BOOLEAN
           /\ restartAsked' \in BOOLEAN
           /\ discFaults' \in 0..MaxFaults
           /\ SaidStopped'
<1>1. /\ s \in MachineState /\ again' \in BOOLEAN /\ discFaults' \in 0..MaxFaults
  BY TickTyped DEF TickWith
<1>2. Splash(s) \in IPLState /\ (Splash(s) = "STATE_8" <=> s = "64")
  BY <1>1, SplashTyped
<1>3. Aborted(s) \in MachineState /\ (s \in Idle \union {"64"} => Aborted(s) = s)
  BY <1>1, AbortedTyped
<1>4. State' \in MachineState
  BY <1>1, <1>3 DEF TickWith
<1>5. ticking' = ~Stops(s) /\ iplState' = IF Stops(s) THEN "STATE_8" ELSE Splash(s)
  BY DEF TickWith
<1>6. iplState' \in IPLState /\ ticking' \in BOOLEAN
  BY <1>2, <1>5 DEF IPLState, Stops
<1>7. AbortFlag' \in BOOLEAN /\ updateAsked' \in BOOLEAN /\ abortAsked' \in BOOLEAN
      /\ restartAsked' \in BOOLEAN
  BY DEF TickWith, DiscTypeOK
<1>8. SaidStopped'
  <2>1. CASE Stops(s)
    <3>1. s \in Idle \union {"64"}
      BY <2>1 DEF Stops
    <3>2. State' = s
      BY <3>1, <1>3 DEF TickWith
    <3>3. QED  BY <2>1, <1>5, <3>1, <3>2 DEF SaidStopped, Halted
  <2>2. CASE ~Stops(s)
    BY <2>2, <1>2, <1>5 DEF SaidStopped, Stops
  <2>3. QED  BY <2>1, <2>2
<1>9. QED  BY <1>1, <1>4, <1>6, <1>7, <1>8

\* What update() does, in a frame and in a loop of a scene.
LEMMA UpdateKeeps ==
    ASSUME DiscTypeOK, SaidStopped, update, UNCHANGED nandFull, user' \in User
    PROVE  DiscTypeOK' /\ SaidStopped'
<1>1. CASE restartAsked /\ BeginsAgain
  BY <1>1 DEF BeginsAgain, DiscTypeOK, SaidStopped, IPLState
<1>2. CASE \E s \in MachineState : TickWith(s)
  <2>1. PICK s \in MachineState : TickWith(s)
    BY <1>2
  <2>2. QED  BY <2>1, TickKeeps DEF DiscTypeOK
<1>3. QED  BY <1>1, <1>2 DEF update

\* A tick in the menu does not stop the machine.
LEMMA MenuTick ==
    ASSUME DiscTypeOK, MenuRuns, user = "menu", ticking, NEW s, TickWith(s)
    PROVE  /\ ticking' /\ ~abortAsked'
           /\ State' \notin Stopping
<1>1. ~abortAsked /\ (again \/ State \notin Stopping)
  BY DEF MenuRuns
<1>2. s \notin Stopping
  BY <1>1 DEF TickWith, BS2Tick, TickFrom, Found, Stopping
<1>3. ~Stops(s) /\ State' = s
  BY <1>1, <1>2 DEF Stops, Stopping, TickWith
<1>4. QED  BY <1>2, <1>3 DEF TickWith

-----------------------------------------------------------------------------
LEMMA InitInv == DiscInit => DiscInv
<1> SUFFICES ASSUME DiscInit PROVE DiscInv
  OBVIOUS
<1>1. discFaults \in 0..MaxFaults
  BY DiscManagerAssumption DEF DiscInit
<1>2. DiscTypeOK
  BY <1>1 DEF DiscInit, DiscTypeOK, MachineState, IPLState, User
<1>3. SaidStopped /\ NoRestart /\ InsideStopped /\ MenuRuns
  BY DEF DiscInit, SaidStopped, NoRestart, InsideStopped, MenuRuns
<1>4. QED  BY <1>2, <1>3 DEF DiscInv

LEMMA StepInv == DiscInv /\ [DiscNext]_discVars => DiscInv'
<1> SUFFICES ASSUME DiscInv, [DiscNext]_discVars PROVE DiscInv'
  OBVIOUS
<1> USE DEF DiscInv
<1>1. CASE BS2DVDCallback
  <2>1. UNCHANGED <<manager, nandFull, user, discFaults, again, AbortFlag>>
    BY <1>1 DEF BS2DVDCallback, DiscGone, CoverClosed, UpdateRuns
  <2>2. State' = State \/ State' \in {"NO_DISK", "COVER_CLOSED"}
        \/ (State = "UPDATE_DISK" /\ State' = "RUNNING_UPDATE")
    BY <1>1 DEF BS2DVDCallback, DiscGone, CoverClosed, UpdateRuns
  <2>3. DiscTypeOK'
    BY <2>1, <2>2 DEF DiscTypeOK, manager, MachineState
  <2>4. SaidStopped'
    BY <2>1, <2>2 DEF SaidStopped, manager, Halted, Idle
  <2>5. NoRestart' /\ InsideStopped'
    BY <2>1 DEF NoRestart, InsideStopped, manager
  <2>6. MenuRuns'
    BY <2>1, <2>2 DEF MenuRuns, manager, Stopping
  <2>7. QED  BY <2>3, <2>4, <2>5, <2>6
<1>2. CASE Frame
  <2>1. user' \in User
    BY <1>2 DEF Frame, User, DiscTypeOK
  <2>2. DiscTypeOK' /\ SaidStopped'
    BY <1>2, <2>1, UpdateKeeps DEF Frame
  <2>3. restartAsked' = restartAsked \/ ~restartAsked'
    BY <1>2 DEF Frame, update, BeginsAgain, TickWith
  <2>4. user' = user \/ user' = "error"
    BY <1>2 DEF Frame
  <2>5. NoRestart'
    BY <2>3, <2>4 DEF NoRestart
  <2>6. InsideStopped'
    <3>1. SUFFICES ASSUME user' = "inside" PROVE iplState' = "STATE_8"
      BY DEF InsideStopped
    <3>2. user = "inside"
      BY <3>1, <2>4
    <3>3. ~restartAsked /\ ~ticking
      BY <3>2 DEF NoRestart, InsideStopped, SaidStopped
    <3>4. QED  BY <1>2, <3>3 DEF Frame, update
  <2>7. MenuRuns'
    <3>1. SUFFICES ASSUME user' = "menu" PROVE MenuRuns'
      BY DEF MenuRuns
    <3>2. user = "menu"
      BY <3>1, <2>4
    <3>3. CASE BeginsAgain
      BY <3>2, <3>3 DEF BeginsAgain, MenuRuns
    <3>4. CASE ticking /\ \E s \in MachineState : TickWith(s)
      <4>1. PICK s \in MachineState : TickWith(s)
        BY <3>4
      <4>2. QED  BY <3>2, <3>4, <4>1, MenuTick DEF MenuRuns
    <3>5. QED  BY <1>2, <3>3, <3>4 DEF Frame, update
  <2>8. QED  BY <2>2, <2>5, <2>6, <2>7
<1>3. CASE LoopTurn
  <2>1. user = "waiting" /\ user' = "waiting"
    BY <1>3 DEF LoopTurn
  <2>2. DiscTypeOK' /\ SaidStopped'
    BY <1>3, <2>1, UpdateKeeps DEF LoopTurn, User
  <2>3. NoRestart'
    BY <1>3, <2>1 DEF LoopTurn, update, BeginsAgain, TickWith, NoRestart
  <2>4. InsideStopped' /\ MenuRuns'
    BY <2>1 DEF InsideStopped, MenuRuns
  <2>5. QED  BY <2>2, <2>3, <2>4
<1>4. CASE MenuBegins
  BY <1>4 DEF MenuBegins, Goes, StaysDisc, machine, manager, DiscTypeOK, User, SaidStopped,
              NoRestart, InsideStopped, MenuRuns, Stopping
<1>5. CASE Memory_prepare \/ Menu_stops
  <2>1. /\ abortAsked' = TRUE /\ restartAsked' = FALSE
        /\ user' \in {"preparing", "stopping"}
        /\ UNCHANGED <<State, AbortFlag, again, iplState, ticking, updateAsked, nandFull,
                      discFaults>>
    BY <1>5 DEF Memory_prepare, Menu_stops, abort, Goes, StaysDisc, machine
  <2>2. DiscTypeOK'
    BY <2>1 DEF DiscTypeOK, User
  <2>3. SaidStopped' /\ NoRestart' /\ InsideStopped' /\ MenuRuns'
    BY <2>1 DEF SaidStopped, NoRestart, InsideStopped, MenuRuns
  <2>4. QED  BY <2>2, <2>3
<1>6. CASE Memory_create \/ Memory_runs
  BY <1>6 DEF Memory_create, Memory_runs, Goes, StaysDisc, machine, manager, DiscTypeOK,
              User, SaidStopped, NoRestart, InsideStopped, MenuRuns
<1>7. CASE Memory_leaves
  BY <1>7 DEF Memory_leaves, restart, Goes, StaysDisc, machine, DiscTypeOK, User,
              SaidStopped, NoRestart, InsideStopped, MenuRuns
<1>8. CASE startUpdate \/ reserveGame
  BY <1>8 DEF startUpdate, reserveGame, Goes, StaysDisc, machine, DiscTypeOK, User,
              SaidStopped, NoRestart, InsideStopped, MenuRuns
<1>9. CASE UpdateEnds \/ Menu_ends \/ Boots
  BY <1>9 DEF UpdateEnds, Menu_ends, Boots, Goes, StaysDisc, machine, manager, DiscTypeOK,
              User, SaidStopped, NoRestart, InsideStopped, MenuRuns
<1>10. CASE NandChecked
  BY <1>10 DEF NandChecked, machine, manager, DiscTypeOK, SaidStopped, NoRestart,
               InsideStopped, MenuRuns
<1>11. CASE UNCHANGED discVars
  BY <1>11 DEF discVars, machine, manager, DiscTypeOK, SaidStopped, NoRestart,
               InsideStopped, MenuRuns
<1>12. QED
  BY <1>1, <1>2, <1>3, <1>4, <1>5, <1>6, <1>7, <1>8, <1>9, <1>10, <1>11 DEF DiscNext

\* For any number of fatal errors the invariant holds; each property of the
\* invariants follows from it.
LEMMA Invariance == DiscSpec => []DiscInv
<1>1. DiscInit => DiscInv
  BY InitInv
<1>2. DiscInv /\ [DiscNext]_discVars => DiscInv'
  BY StepInv
<1>3. QED  BY <1>1, <1>2, PTL DEF DiscSpec

\* Type correctness of the disc manager (iplBS2Manager.cpp, BS2Mach.c).
THEOREM DiscTypeCorrect == DiscSpec => []DiscTypeOK
<1>1. DiscInv => DiscTypeOK
  BY DEF DiscInv
<1>2. QED  BY <1>1, Invariance, PTL

\* A scene that waited for IPL_STATE_8 in create() runs with the machine stopped
\* and nobody ticking it, whatever the disc and the interrupts do.
THEOREM DriveStoppedInside == DiscSpec => []StoppedInside
<1>1. DiscInv => StoppedInside
  BY DEF DiscInv, SaidStopped, InsideStopped, StoppedInside, Halted
<1>2. QED  BY <1>1, Invariance, PTL

\* No abort that was meant for an earlier visit stops the drive in the menu.
THEOREM DriveStaysOn == DiscSpec => StaysOn
<1>1. DiscInv /\ [DiscNext]_discVars
          => [user = "menu" /\ user' = "menu" /\ ticking => ticking']_discVars
  <2> SUFFICES ASSUME DiscInv, DiscNext, user = "menu", user' = "menu", ticking
               PROVE  ticking'
    BY DEF discVars
  <2>1. CASE Frame
    <3>1. CASE BeginsAgain
      BY <3>1 DEF BeginsAgain
    <3>2. CASE \E s \in MachineState : TickWith(s)
      BY <3>2, MenuTick DEF DiscInv
    <3>3. QED  BY <2>1, <3>1, <3>2 DEF Frame, update
  <2>2. CASE ~Frame
    BY <2>2 DEF DiscNext, BS2DVDCallback, NandChecked, LoopTurn, MenuBegins, Memory_prepare,
                Memory_create, Memory_runs, Memory_leaves, startUpdate, UpdateEnds,
                reserveGame, Boots, Menu_stops, Menu_ends, Goes, manager
  <2>3. QED  BY <2>1, <2>2
<1>2. QED  BY <1>1, Invariance, PTL DEF DiscSpec, StaysOn
=============================================================================
