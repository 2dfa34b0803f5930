---------------------------- MODULE MenuMapProofs ----------------------------
(***************************************************************************)
(* The map of the menu is kept by every call of calc(), by the steps of    *)
(* the frame that execute no command, and by the threads.  What the        *)
(* manager does with commands and scenes, and the theorems, are in         *)
(* MenuScenesProofs.                                                       *)
(***************************************************************************)
EXTENDS MenuMap, SequenceTheorems, FiniteSetTheorems, TLAPS

-----------------------------------------------------------------------------
(* The shapes and the places.                                              *)

\* What the names stand for, and that all of them differ.
LEMMA Names ==
    /\ SceneId = {"BOARD", "CHANNEL_SELECT", "CALENDAR", "HEALTH", "LIMIT_OVER",
                  "SETTING", "SETTING_SELECT", "CHANNEL_EDIT", "MEMORY", "BUTTON",
                  "SETTING_BUTTON", "ROOT", "ARROW", "SETTING_BG", "REBOOT"}
    /\ NONE \notin SceneId /\ Dangling \notin SceneId /\ NONE # Dangling
    /\ TopLevel = {"BOARD", "SETTING_BG", "SETTING", "HEALTH", "LIMIT_OVER", "REBOOT"}
    /\ Roots = {"BOARD", "SETTING_BG", "SETTING"}
    /\ Screens = {"CHANNEL_EDIT", "MEMORY"}
BY DEF SceneId, Big, Medium, Small, NONE, Dangling, TopLevel, Roots, Screens

\* The trees of the map.
LEMMA ShapeLive ==
    /\ Range(Alone) = {"ROOT"}
    /\ \A x : Range(Top(x)) = {"ROOT", x}
    /\ Range(ButtonOnly) = {"ROOT", "BOARD", "BUTTON"}
    /\ Range(ArrowToCome) = {"ROOT", "BOARD", "BUTTON", "CHANNEL_SELECT"}
    /\ Range(BoardOpen) = {"ROOT", "BOARD", "BUTTON", "ARROW"}
    /\ Range(WithChannels) = {"ROOT", "BOARD", "BUTTON", "CHANNEL_SELECT", "ARROW"}
    /\ Range(WithCalendar) = {"ROOT", "BOARD", "CALENDAR", "BUTTON", "ARROW"}
    /\ Range(NoSelect) = {"ROOT", "SETTING_BG", "SETTING_BUTTON"}
    /\ Range(Settings) = {"ROOT", "SETTING_BG", "SETTING_BUTTON", "SETTING_SELECT"}
    /\ \A x : Range(WithScreen(x)) =
           {"ROOT", "SETTING_BG", "SETTING_BUTTON", "SETTING_SELECT", x}
<1>1. \A x : Range(Top(x)) = {"ROOT", x}
  BY DEF Range, Top
<1>2. Range(BoardOpen) = {"ROOT", "BOARD", "BUTTON", "ARROW"}
  BY DEF Range, BoardOpen
<1>3. Range(WithChannels) = {"ROOT", "BOARD", "BUTTON", "CHANNEL_SELECT", "ARROW"}
  BY DEF Range, WithChannels
<1>4. Range(WithCalendar) = {"ROOT", "BOARD", "CALENDAR", "BUTTON", "ARROW"}
  BY DEF Range, WithCalendar
<1>5. \A x : Range(WithScreen(x)) =
           {"ROOT", "SETTING_BG", "SETTING_BUTTON", "SETTING_SELECT", x}
  BY DEF Range, WithScreen
<1>6. Range(Alone) = {"ROOT"}
  BY DEF Range, Alone
<1>7. Range(ButtonOnly) = {"ROOT", "BOARD", "BUTTON"}
  BY DEF Range, ButtonOnly
<1>8. Range(ArrowToCome) = {"ROOT", "BOARD", "BUTTON", "CHANNEL_SELECT"}
  BY DEF Range, ArrowToCome
<1>9. Range(NoSelect) = {"ROOT", "SETTING_BG", "SETTING_BUTTON"}
  BY DEF Range, NoSelect
<1>10. Range(Settings) = {"ROOT", "SETTING_BG", "SETTING_BUTTON", "SETTING_SELECT"}
  BY DEF Range, Settings
<1> QED
  BY <1>1, <1>2, <1>3, <1>4, <1>5, <1>6, <1>7, <1>8, <1>9, <1>10

\* What the commands of the map say.
LEMMA CommandNew ==
    /\ NoCommand.new = NONE
    /\ \A x : Child(x).new = x /\ Child(x).type = "CHILD"
    /\ \A x : ReserveAll(x).new = x /\ ReserveAll(x).type = "ALL"
    /\ \A x, y : Change(x, y).new = y /\ Change(x, y).type = "CHANGE"
    /\ ChannelsAgain.new = "CHANNEL_SELECT" /\ ChannelsAgain.type = "CHILD"
    /\ CalendarAsked.new = "CALENDAR" /\ CalendarAsked.type = "CHILD"
BY DEF NoCommand, Child, CreateChild, ReserveAll, Change, ReserveChange, ChannelsAgain,
   CalendarAsked

\* A step that leaves the place as it is.
SameSituation == UNCHANGED <<order, mCommands, mReservedCommand, reserved>>
OnInFrame ==
    \/ phase = "calc" /\ (phase' = "command" \/ (phase' = "calc" /\ it' > it))
    \/ phase \in {"detach", "end"}
    \/ UNCHANGED <<phase, it>>
\* A step that changes neither the tree nor the commands, nor the stages a place
\* asks about, stays in its place.
LEMMA SamePlace ==
    ASSUME MapInv, SameSituation, OnInFrame, it \in Nat, it' \in Nat,
           fader = "black" => fader' = "black",
           \A x \in {"BOARD", "SETTING_SELECT", "LIMIT_OVER", "REBOOT", "SETTING"} :
               stage'[x] = stage[x]
    PROVE  MapInv'
<1> USE DEF At, SameSituation
<1>1. CASE AtStart
  BY <1>1 DEF AtStart, MapInv
<1>2. CASE AtTop
  BY <1>2 DEF AtTop, MapInv
<1>3. CASE AtChange
  <2>1. \A c \in Changes : c[1] \in {"LIMIT_OVER", "REBOOT"}
    BY DEF Changes
  <2> QED
    BY <1>3, <2>1 DEF AtChange, MapInv, OnInFrame
<1>4. CASE AtOpening
  BY <1>4 DEF AtOpening, MapInv
<1>5. CASE AtBoard \/ AtChannels \/ AtCalendar
  BY <1>5 DEF AtBoard, AtChannels, AtCalendar, MapInv
<1>6. CASE AtBoardAndNext
  BY <1>6 DEF AtBoardAndNext, MapInv, OnInFrame
<1>7. CASE AtSettings \/ AtNothing
  BY <1>7 DEF AtSettings, AtNothing, MapInv
<1>8. CASE AtScreen
  BY <1>8 DEF AtScreen, MapInv, OnInFrame
<1>9. CASE AtEnd
  BY <1>9 DEF AtEnd, MapInv
<1> QED
  BY <1>1, <1>2, <1>3, <1>4, <1>5, <1>6, <1>7, <1>8, <1>9 DEF MapInv

-----------------------------------------------------------------------------
(* Where a scene is, and at what, tells the place.                          *)

Open(o) == At(o, <<>>, NoCommand)

\* skHealth, LimitOver and Reboot act only where they live alone; so does the
\* Board before its database is ready.
LEMMA AloneScenes ==
    ASSUME MapInv
    PROVE  /\ "HEALTH" \in Live => Open(Top("HEALTH"))
           /\ \A x \in {"LIMIT_OVER", "REBOOT"} :
                 x \in Live /\ stage[x] # "done" => Open(Top(x))
           /\ "BOARD" \in Live /\ stage["BOARD"] = "cdbInit" => Open(Top("BOARD"))
<1> USE ShapeLive DEF At, Live, Open
<1>1. CASE AtStart \/ AtTop
  BY <1>1 DEF AtStart, AtTop
<1>2. CASE AtChange
  BY <1>2 DEF AtChange, Changes
<1>3. CASE AtOpening
  BY <1>3 DEF AtOpening
<1>4. CASE AtBoard \/ AtBoardAndNext \/ AtChannels \/ AtCalendar
  BY <1>4 DEF AtBoard, AtBoardAndNext, AtChannels, AtCalendar
<1>5. CASE AtSettings \/ AtScreen \/ AtNothing
  BY <1>5 DEF AtSettings, AtScreen, AtNothing, Screens
<1>6. CASE AtEnd
  BY <1>6 DEF AtEnd
<1> QED
  BY <1>1, <1>2, <1>3, <1>4, <1>5, <1>6 DEF MapInv

\* Where the Board and its children can be, from the stage they are in.
LEMMA BoardScenes ==
    ASSUME MapInv
    PROVE  /\ "BOARD" \in Live /\ stage["BOARD"] = "init" /\ "ARROW" \in Live =>
                  Open(WithChannels)
           /\ "BOARD" \in Live /\ stage["BOARD"] = "normal" => Open(BoardOpen) \/ AtEnd
           /\ "BOARD" \in Live /\ stage["BOARD"] \notin {"cdbInit", "init"} =>
                  AtBoard \/ AtBoardAndNext \/ AtChannels \/ AtCalendar \/ AtEnd
           /\ "CALENDAR" \in Live => AtCalendar
           /\ "CHANNEL_SELECT" \in Live =>
                  \/ "BOARD" \in Live /\ stage["BOARD"] = "init"
                  \/ AtChannels
<1> USE ShapeLive DEF At, Live, Open
<1>1. CASE AtStart \/ AtTop
  BY <1>1, Names DEF AtStart, AtTop
<1>2. CASE AtChange
  BY <1>2 DEF AtChange, Changes
<1>3. CASE AtOpening
  BY <1>3 DEF AtOpening
<1>4. CASE AtBoard \/ AtBoardAndNext \/ AtChannels \/ AtCalendar
  BY <1>4 DEF AtBoard, AtBoardAndNext, AtChannels, AtCalendar
<1>5. CASE AtSettings \/ AtScreen \/ AtNothing
  BY <1>5 DEF AtSettings, AtScreen, AtNothing, Screens
<1>6. CASE AtEnd
  BY <1>6 DEF AtEnd
<1> QED
  BY <1>1, <1>2, <1>3, <1>4, <1>5, <1>6 DEF MapInv

\* During the calls: where SettingSelect and its screens can be.
LEMMA SettingScenes ==
    ASSUME MapInv, phase = "calc"
    PROVE  /\ "SETTING_SELECT" \in Live /\ stage["SETTING_SELECT"] \notin {"wait2", "wait3"}
                  => Open(Settings)
           /\ /\ "SETTING_SELECT" \in Live
              /\ ~HasChild("SETTING_SELECT") /\ reserved = NONE
              /\ TreeInv
              => Open(Settings)
           /\ \A x \in Screens : x \in Live =>
                  /\ Open(WithScreen(x))
                  /\ stage["SETTING_SELECT"] \in {"wait2", "wait3"}
<1> USE ShapeLive DEF At, Live, Open
<1>1. CASE AtStart \/ AtTop
  BY <1>1, Names DEF AtStart, AtTop
<1>2. CASE AtChange
  BY <1>2, Names DEF AtChange, Changes
<1>3. CASE AtOpening
  BY <1>3, Names DEF AtOpening
<1>4. CASE AtBoard \/ AtBoardAndNext \/ AtChannels \/ AtCalendar
  BY <1>4, Names DEF AtBoard, AtBoardAndNext, AtChannels, AtCalendar
<1>5. CASE AtSettings \/ AtNothing
  BY <1>5, Names DEF AtSettings, AtNothing
<1>6. CASE AtScreen
  <2>1. PICK x \in Screens :
          /\ At(Settings, <<>>, Child(x)) \/ At(WithScreen(x), <<>>, NoCommand)
          /\ stage["SETTING_SELECT"] \in {"wait2", "wait3"}
    BY <1>6 DEF AtScreen
  <2>2. CASE At(Settings, <<>>, Child(x))
    BY <2>1, <2>2, Names, CommandNew
  <2>3. CASE At(WithScreen(x), <<>>, NoCommand)
    BY <2>1, <2>3, Names DEF TreeInv, HasChild, Above
  <2> QED
    BY <2>1, <2>2, <2>3
<1>7. CASE AtEnd
  BY <1>7, Names DEF AtEnd
<1> QED
  BY <1>1, <1>2, <1>3, <1>4, <1>5, <1>6, <1>7 DEF MapInv

IsTree(o) ==
    /\ o \in Seq(SceneId) /\ IsInjective(o)
    /\ Len(o) \in 1 .. 5 /\ DOMAIN o = 1 .. Len(o)
    /\ o[1] = "ROOT"
    /\ {"BOARD", "CHANNEL_SELECT"} \intersect Range(o) # {} => o[2] = "BOARD"

\* The shapes are trees.
LEMMA ShapeTrees ==
    /\ IsTree(Alone) /\ IsTree(ButtonOnly) /\ IsTree(ArrowToCome)
    /\ IsTree(BoardOpen) /\ IsTree(WithChannels) /\ IsTree(WithCalendar)
    /\ IsTree(NoSelect) /\ IsTree(Settings)
    /\ \A x \in TopLevel : IsTree(Top(x))
    /\ \A x \in Screens : IsTree(WithScreen(x))
<1> USE DEF IsTree, IsInjective, Range
<1>1. IsTree(Alone)
  BY Names DEF Alone
<1>2. IsTree(ButtonOnly)
  BY Names DEF ButtonOnly
<1>3. IsTree(ArrowToCome)
  BY Names DEF ArrowToCome
<1>4. IsTree(BoardOpen)
  BY Names DEF BoardOpen
<1>5. IsTree(WithChannels)
  BY Names DEF WithChannels
<1>6. IsTree(WithCalendar)
  BY Names DEF WithCalendar
<1>7. IsTree(NoSelect)
  BY Names DEF NoSelect
<1>8. IsTree(Settings)
  BY Names DEF Settings
<1>9. ASSUME NEW x \in TopLevel PROVE IsTree(Top(x))
  BY Names DEF Top
<1>10. ASSUME NEW x \in Screens PROVE IsTree(WithScreen(x))
  BY Names DEF WithScreen
<1> QED
  BY <1>1, <1>2, <1>3, <1>4, <1>5, <1>6, <1>7, <1>8, <1>9, <1>10

\* The scene in preparation is not in the tree; the root is first in it.
LEMMA TreeFacts ==
    ASSUME MapInv
    PROVE  /\ reserved \notin Live /\ reserved \in (SceneId \ {"ROOT"}) \union {NONE}
           /\ mReservedCommand.new = reserved
           /\ Live \subseteq SceneId /\ "ROOT" \in Live
           /\ IsTree(order)
<1> USE DEF At
<1>1. IsTree(order)
  <2> USE ShapeTrees DEF TopLevel, Roots
  <2>1. CASE AtStart \/ AtTop
    BY <2>1 DEF AtStart, AtTop
  <2>2. CASE AtChange
    BY <2>2 DEF AtChange, Changes
  <2>3. CASE AtOpening
    BY <2>3 DEF AtOpening
  <2>4. CASE AtBoard \/ AtBoardAndNext \/ AtChannels \/ AtCalendar
    BY <2>4 DEF AtBoard, AtBoardAndNext, AtChannels, AtCalendar
  <2>5. CASE AtSettings \/ AtScreen \/ AtNothing
    BY <2>5 DEF AtSettings, AtScreen, AtNothing
  <2>6. CASE AtEnd
    BY <2>6 DEF AtEnd
  <2> QED
    BY <2>1, <2>2, <2>3, <2>4, <2>5, <2>6 DEF MapInv
<1>2. /\ reserved \notin Live /\ reserved \in (SceneId \ {"ROOT"}) \union {NONE}
      /\ mReservedCommand.new = reserved
  <2> USE ShapeLive, CommandNew, Names DEF Live
  <2>1. CASE AtStart \/ AtTop
    BY <2>1 DEF AtStart, AtTop
  <2>2. CASE AtChange
    BY <2>2 DEF AtChange, Changes
  <2>3. CASE AtOpening
    BY <2>3 DEF AtOpening
  <2>4. CASE AtBoard \/ AtBoardAndNext \/ AtChannels \/ AtCalendar
    BY <2>4 DEF AtBoard, AtBoardAndNext, AtChannels, AtCalendar
  <2>5. CASE AtSettings \/ AtNothing
    BY <2>5 DEF AtSettings, AtNothing
  <2>6. CASE AtScreen
    BY <2>6 DEF AtScreen
  <2>7. CASE AtEnd
    BY <2>7 DEF AtEnd
  <2> QED
    BY <2>1, <2>2, <2>3, <2>4, <2>5, <2>6, <2>7 DEF MapInv
<1>3. Live \subseteq SceneId /\ "ROOT" \in Live
  <2>1. Range(order) \subseteq SceneId
    BY <1>1, RangeOfSeq DEF IsTree
  <2> QED
    BY <1>1, <2>1 DEF IsTree, Live, Range
<1> QED
  BY <1>1, <1>2, <1>3

-----------------------------------------------------------------------------
(* What every call of calc() keeps.                                        *)

\* The scenes of the tree are those at its indices.
LEMMA InRangeIsLive ==
    ASSUME MapInv
    PROVE  /\ \A i \in DOMAIN order : order[i] \in Live
           /\ \A x \in Live : \E i \in DOMAIN order : order[i] = x
BY DEF Live, Range

SameReserve == UNCHANGED <<order, mReservedCommand, reserved>>

\* A call of calc(): whose turn it is, and what it leaves alone.
LEMMA CallFacts ==
    ASSUME MenuInv, NEW id \in SceneId, NEW s, NEW new, GoesOn(id, s, new)
    PROVE  /\ phase = "calc" /\ order[it] = id /\ id \in Live /\ id \notin destroyReq
           /\ stage[id] = s
           /\ SameReserve /\ OnInFrame /\ it' \in Nat /\ it \in Nat /\ it \in DOMAIN order
           /\ Live' = Live /\ UNCHANGED <<parent, mbCreatedReserved>>
           /\ phase' \in {"calc", "command"} /\ (phase' = "calc" => it' = it + 1)
           /\ TreeInv' /\ TurnInv'
<1>1. /\ phase = "calc" /\ order[it] = id /\ id \notin destroyReq /\ stage[id] = s
      /\ UNCHANGED <<order, parent, reserved, mReservedCommand, mbCreatedReserved>>
      /\ Advance
  BY DEF GoesOn, Turn, Calculated, treeVars, reserveVars
<1>2. IsTree(order) /\ it \in DOMAIN order /\ it \in Nat
  BY <1>1, TreeFacts DEF MenuInv, TurnInv
<1>3. id \in Live
  BY <1>1, <1>2, InRangeIsLive DEF MenuInv
<1>4. Live' = Live
  BY <1>1 DEF Live
<1>5. TreeInv'
  BY <1>1, <1>4 DEF MenuInv, TreeInv
<1>6. /\ TurnInv' /\ OnInFrame /\ it' \in Nat
      /\ phase' \in {"calc", "command"} /\ (phase' = "calc" => it' = it + 1)
  <2>1. CASE it < Len(order)
    BY <1>1, <1>2, <2>1 DEF Advance, TurnInv, OnInFrame, IsTree
  <2>2. CASE ~(it < Len(order))
    BY <1>1, <1>2, <2>2 DEF Advance, TurnInv, OnInFrame
  <2> QED
    BY <2>1, <2>2
<1> QED
  BY <1>1, <1>2, <1>3, <1>4, <1>5, <1>6 DEF SameReserve

\* A call of a scene reserves nothing.
LEMMA CreatedKept ==
    ASSUME MenuInv, SameReserve, UNCHANGED mbCreatedReserved PROVE CreatedInv'
BY DEF MenuInv, CreatedInv, SameReserve

\* It changes the stage of that scene only.
LEMMA GoesStage ==
    ASSUME MenuInv, NEW id \in SceneId, NEW s, NEW t, Goes(id, s, t)
    PROVE  stage' = [stage EXCEPT ![id] = t]
BY DEF Goes, GoesOn

\* A scene of the tree that goes to another stage keeps what holds of stages.
LEMMA StageKept ==
    ASSUME MenuInv, NEW id \in Live \ {"ROOT"}, NEW t \in Stage \ {"gone"},
           stage' = [stage EXCEPT ![id] = t], SameReserve, Live' = Live,
           stage'["BOARD"] \in {"cdbInit", "init"} =>
               fader' = "black" /\ stage'["CHANNEL_SELECT"] \in {"gone", "in"}
    PROVE  StageInv'
<1>1. id \in SceneId /\ id # reserved
  BY TreeFacts DEF MenuInv
<1>2. stage' \in [SceneId -> Stage]
  BY <1>1 DEF MenuInv, StageInv
<1>3. reserved \in SceneId \union {NONE}
  BY TreeFacts DEF MenuInv
<1> QED
  BY <1>1, <1>2, <1>3 DEF MenuInv, StageInv, SameReserve, InitStage

\* Where ChannelSelect is in the tree, it comes after the Board.
LEMMA ChannelsLate ==
    ASSUME MapInv, it \in Nat, it \in DOMAIN order, order[it] = "CHANNEL_SELECT" PROVE it > 2
<1>1. IsTree(order) /\ "CHANNEL_SELECT" \in Live
  BY TreeFacts, InRangeIsLive
<1> QED
  BY <1>1 DEF IsTree, Live

\* A scene is done when it has asked for its destruction, but for the Board.
LEMMA DoomKept ==
    ASSUME MenuInv, NEW id \in SceneId \ {"ROOT"}, NEW s, NEW t, Goes(id, s, t),
           \/ UNCHANGED destroyReq /\ (t # "done" \/ id = "BOARD")
           \/ t = "done" /\ id \notin Lasting /\ RequestDestruction(id)
    PROVE  DoomInv'
<1>1. /\ phase = "calc" /\ order[it] = id /\ id \in Live /\ id \notin destroyReq
      /\ Live' = Live /\ it' \in Nat /\ it \in Nat
      /\ phase' \in {"calc", "command"} /\ (phase' = "calc" => it' = it + 1)
  BY CallFacts DEF Goes
<1>2. stage' = [stage EXCEPT ![id] = t] /\ stage \in [SceneId -> Stage]
  BY GoesStage DEF MenuInv, StageInv
<1>3. /\ destroyReq' \subseteq Live' \ Lasting
      /\ \A x \in destroyReq' : stage'[x] = "done"
  BY <1>1, <1>2, TreeFacts DEF MenuInv, DoomInv, RequestDestruction
<1>4. \A x \in Live' \ {"BOARD"} : stage'[x] = "done" => x \in destroyReq'
  BY <1>1, <1>2, TreeFacts DEF MenuInv, DoomInv, RequestDestruction
<1>5. phase' = "calc" /\ stage'["CHANNEL_SELECT"] = "done" => it' > 2
  <2>1. CASE id = "CHANNEL_SELECT"
    <3>1. it > 2
      BY <1>1, <2>1, ChannelsLate DEF MenuInv, TurnInv
    <3> QED
      BY <1>1, <3>1
  <2>2. CASE id # "CHANNEL_SELECT"
    <3>1. stage'["CHANNEL_SELECT"] = stage["CHANNEL_SELECT"]
      BY <1>2, <2>2
    <3> QED
      BY <1>1, <3>1 DEF MenuInv, DoomInv
  <2> QED
    BY <2>1, <2>2
<1> QED
  BY <1>1, <1>3, <1>4, <1>5 DEF DoomInv

\* A job that is posted is one.
LEMMA JobTypes ==
    ASSUME MenuInv
    PROVE  /\ \A kind \in {"count", "read", "search", "sync"} : JobOf(kind) \in Job
           /\ NoJob \in Job
<1>1. ASSUME NEW kind \in {"count", "read", "search", "sync"}
      PROVE  JobOf(kind) \in Job
  <2>1. RequestPending \in BOOLEAN
    BY DEF RequestPending
  <2>2. (kind \in {j.kind : j \in Range(task1q) \union {job}}) \in BOOLEAN
    OBVIOUS
  <2> QED
    BY <2>1, <2>2 DEF JobOf, Job
<1>2. NoJob \in Job
  BY DEF NoJob, Job
<1> QED
  BY <1>1, <1>2

\* A call posts jobs and touches the fader: the types are kept.
LEMMA WorkKept ==
    ASSUME MenuInv, NEW id \in SceneId, NEW s, NEW t, Goes(id, s, t), t # "waitTask",
           fader' \in {"black", "in", "shown", "out"},
           mbDestroySyncTask' \in BOOLEAN,
           \/ UNCHANGED task1q
           \/ \E kind \in {"count", "read", "sync"} : task1q' = Append(task1q, JobOf(kind))
           \/ \E k1, k2 \in {"count", "read"} : task1q' = task1q \o <<JobOf(k1), JobOf(k2)>>
    PROVE  WorkInv'
<1>1. UNCHANGED <<job, task, look, calendar, mode>> /\ Live' = Live
  BY DEF Goes, GoesOn, treeVars, Live
<1>2. stage'["CALENDAR"] = "waitTask" => stage["CALENDAR"] = "waitTask"
  BY GoesStage, Names DEF MenuInv, StageInv
<1>3. task1q' \in Seq(Job)
  <2>1. CASE UNCHANGED task1q
    BY <2>1 DEF MenuInv, WorkInv
  <2>2. CASE \E kind \in {"count", "read", "sync"} : task1q' = Append(task1q, JobOf(kind))
    BY <2>2, JobTypes, AppendProperties DEF MenuInv, WorkInv
  <2>3. ASSUME NEW k1 \in {"count", "read"}, NEW k2 \in {"count", "read"},
               task1q' = task1q \o <<JobOf(k1), JobOf(k2)>>
        PROVE  task1q' \in Seq(Job)
    <3>1. JobOf(k1) \in Job /\ JobOf(k2) \in Job
      BY JobTypes
    <3>2. <<JobOf(k1), JobOf(k2)>> \in Seq(Job)
      BY <3>1
    <3> QED
      BY <2>3, <3>2, ConcatProperties DEF MenuInv, WorkInv
  <2> QED
    BY <2>1, <2>2, <2>3
<1> QED
  BY <1>1, <1>2, <1>3 DEF MenuInv, WorkInv

\* A call that changes the stage of its scene and asks for little.
LEMMA CallKeeps ==
    ASSUME MenuInv, NEW id \in SceneId \ {"ROOT"}, NEW s,
           NEW t \in Stage \ {"gone", "waitTask"}, Goes(id, s, t),
           \/ UNCHANGED destroyReq /\ (t # "done" \/ id = "BOARD")
           \/ t = "done" /\ id \notin Lasting /\ RequestDestruction(id),
           fader' \in {"black", "in", "shown", "out"},
           mbDestroySyncTask' \in BOOLEAN,
           \/ UNCHANGED task1q
           \/ \E kind \in {"count", "read", "sync"} : task1q' = Append(task1q, JobOf(kind))
           \/ \E k1, k2 \in {"count", "read"} : task1q' = task1q \o <<JobOf(k1), JobOf(k2)>>,
           stage'["BOARD"] \in {"cdbInit", "init"} =>
               fader' = "black" /\ stage'["CHANNEL_SELECT"] \in {"gone", "in"},
           MapInv', AskInv', BoardInv'
    PROVE  MenuInv'
<1>1. TreeInv' /\ TurnInv' /\ SameReserve /\ Live' = Live /\ UNCHANGED mbCreatedReserved
      /\ id \in Live
  BY CallFacts DEF Goes
<1>2. StageInv'
  BY <1>1, GoesStage, StageKept
<1>3. DoomInv'
  BY DoomKept
<1>4. CreatedInv'
  BY <1>1, CreatedKept
<1>5. WorkInv'
  BY WorkKept
<1> QED
  BY <1>1, <1>2, <1>3, <1>4, <1>5 DEF MenuInv

-----------------------------------------------------------------------------
(* The queue of commands, and subtrees.                                    *)

\* The queue of commands as it grows from nothing.
LEMMA PushedShort ==
    /\ Pushed(<<>>, <<>>) = <<>>
    /\ \A a : Pushed(<<>>, <<a>>) = <<a>> /\ Pushed(<<a>>, <<>>) = <<a>>
    /\ \A a, b : /\ Pushed(<<>>, <<a, b>>) = <<a, b>> /\ Pushed(<<a, b>>, <<>>) = <<a, b>>
                 /\ Pushed(<<a>>, <<b>>) = <<a, b>>
    /\ \A a, b, c : Pushed(<<>>, <<a, b, c>>) = <<a, b, c>>
<1> USE DEF Pushed, MAX_COMMANDS
<1>1. Pushed(<<>>, <<>>) = <<>>
  OBVIOUS
<1>2. ASSUME NEW a PROVE Pushed(<<>>, <<a>>) = <<a>> /\ Pushed(<<a>>, <<>>) = <<a>>
  OBVIOUS
<1>3. ASSUME NEW a, NEW b
      PROVE  /\ Pushed(<<>>, <<a, b>>) = <<a, b>> /\ Pushed(<<a, b>>, <<>>) = <<a, b>>
             /\ Pushed(<<a>>, <<b>>) = <<a, b>>
  <2>1. Pushed(<<>>, <<a, b>>) = <<a, b>> /\ Pushed(<<a, b>>, <<>>) = <<a, b>>
    OBVIOUS
  <2>2. <<a>> \o <<b>> = <<a, b>>
    <3> DEFINE s == <<a>> \o <<b>>
    <3>1. <<a>> \in Seq({a, b}) /\ <<b>> \in Seq({a, b}) /\ <<a, b>> \in Seq({a, b})
      OBVIOUS
    <3>2. s \in Seq({a, b}) /\ Len(s) = 2 /\ s[1] = a /\ s[2] = b
      <4>1. Len(<<a>>) = 1 /\ Len(<<b>>) = 1 /\ <<a>>[1] = a /\ <<b>>[1] = b
        OBVIOUS
      <4> QED
        BY <3>1, <4>1, ConcatProperties
    <3>3. Len(<<a, b>>) = 2 /\ <<a, b>>[1] = a /\ <<a, b>>[2] = b
      OBVIOUS
    <3>4. \A i \in 1 .. 2 : i = 1 \/ i = 2
      OBVIOUS
    <3> HIDE DEF s
    <3> QED
      BY <3>1, <3>2, <3>3, <3>4, SeqEqual DEF s
  <2>3. Len(<<a, b>>) <= 8
    OBVIOUS
  <2> QED
    BY <2>1, <2>2, <2>3
<1>4. ASSUME NEW a, NEW b, NEW c PROVE Pushed(<<>>, <<a, b, c>>) = <<a, b, c>>
  OBVIOUS
<1> QED
  BY <1>1, <1>2, <1>3, <1>4

\* The first of a few commands, and the others.
LEMMA HeadsAndTails ==
    /\ \A a : <<a>> # <<>> /\ Head(<<a>>) = a /\ Tail(<<a>>) = <<>>
    /\ \A a, b : <<a, b>> # <<>> /\ Head(<<a, b>>) = a /\ Tail(<<a, b>>) = <<b>>
    /\ \A a, b, c : <<a, b, c>> # <<>> /\ Head(<<a, b, c>>) = a /\ Tail(<<a, b, c>>) = <<b, c>>
<1>1. ASSUME NEW a PROVE <<a>> # <<>> /\ Head(<<a>>) = a /\ Tail(<<a>>) = <<>>
  OBVIOUS
<1>2. ASSUME NEW a, NEW b
      PROVE  <<a, b>> # <<>> /\ Head(<<a, b>>) = a /\ Tail(<<a, b>>) = <<b>>
  OBVIOUS
<1>3. ASSUME NEW a, NEW b, NEW c
      PROVE  <<a, b, c>> # <<>> /\ Head(<<a, b, c>>) = a /\ Tail(<<a, b, c>>) = <<b, c>>
  OBVIOUS
<1> QED
  BY <1>1, <1>2, <1>3

\* Each scene of the tree has one place in it.
LEMMA IndexOfAt ==
    ASSUME IsTree(order), NEW k \in DOMAIN order
    PROVE  IndexOf(order[k]) = k
BY DEF IsTree, IsInjective, IndexOf

\* The subtree of the last scene is itself.
LEMMA LastBelowLast ==
    ASSUME IsTree(order) PROVE LastBelow(Len(order)) = Len(order)
BY DEF IsTree, LastBelow

\* The end of a subtree: behind it comes a scene with another parent.
LEMMA LastBelowIs ==
    ASSUME IsTree(order), NEW k \in 1 .. Len(order), NEW m \in k .. Len(order),
           \A j \in k + 1 .. m : parent[order[j]] \in {order[i] : i \in k .. j - 1},
           m < Len(order) => parent[order[m + 1]] \notin {order[i] : i \in k .. m}
    PROVE  LastBelow(k) = m
<1> DEFINE P(n) == /\ \A j \in k + 1 .. n : parent[order[j]] \in {order[i] : i \in k .. j - 1}
                   /\ n < Len(order) => parent[order[n + 1]] \notin {order[i] : i \in k .. n}
<1>1. Len(order) \in Nat
  BY DEF IsTree
<1>2. ASSUME NEW n \in k .. Len(order), P(n), n # m PROVE FALSE
  <2>1. CASE n < m
    <3>1. n + 1 \in k + 1 .. m /\ n < Len(order) /\ (n + 1) - 1 = n
      BY <1>1, <2>1
    <3>2. parent[order[n + 1]] \in {order[i] : i \in k .. n}
      BY <3>1
    <3> QED
      BY <1>2, <3>1, <3>2
  <2>2. CASE m < n
    <3>1. m + 1 \in k + 1 .. n /\ m < Len(order) /\ (m + 1) - 1 = m
      BY <1>1, <2>2
    <3>2. parent[order[m + 1]] \in {order[i] : i \in k .. m}
      BY <1>2, <3>1
    <3> QED
      BY <3>1, <3>2
  <2> QED
    BY <1>1, <1>2, <2>1, <2>2
<1>3. P(m)
  OBVIOUS
<1>4. LastBelow(k) = CHOOSE n \in k .. Len(order) : P(n)
  BY DEF LastBelow
<1> QED
  BY <1>2, <1>3, <1>4

\* A scene is alone when the next is not its child.
LEMMA LastBelowLeaf ==
    ASSUME IsTree(order), NEW k \in 1 .. Len(order) - 1, parent[order[k + 1]] # order[k]
    PROVE  LastBelow(k) = k
<1>1. Len(order) \in Nat /\ k \in 1 .. Len(order) /\ k \in k .. Len(order)
  BY DEF IsTree
<1>2. \A i \in k .. k : i = k
  BY <1>1
<1>3. \A j \in k + 1 .. k : FALSE
  BY <1>1
<1> QED
  BY <1>1, <1>2, <1>3, LastBelowIs

\* A subtree goes to the end when all behind are children.
LEMMA LastBelowFamily ==
    ASSUME IsTree(order), NEW k \in 1 .. Len(order),
           \A j \in k + 1 .. Len(order) : parent[order[j]] = order[k]
    PROVE  LastBelow(k) = Len(order)
<1>1. Len(order) \in Nat /\ Len(order) \in k .. Len(order)
  BY DEF IsTree
<1>2. \A j \in k + 1 .. Len(order) : k \in k .. j - 1
  BY <1>1
<1> QED
  BY <1>1, <1>2, LastBelowIs

-----------------------------------------------------------------------------
(* How the tree grows and shrinks: the shapes as sequences.                *)

\* Tree::insert: what was before the scene stays, the rest moves up by one.
LEMMA InsertIs ==
    ASSUME NEW S, NEW o \in Seq(S), NEW n \in 1 .. Len(o) + 1, NEW x \in S,
           NEW r \in Seq(S), Len(r) = Len(o) + 1, r[n] = x,
           \A i \in 1 .. n - 1 : r[i] = o[i],
           \A i \in n .. Len(o) : r[i + 1] = o[i]
    PROVE  InsertAt(o, n, x) = r
<1> DEFINE a == SubSeq(o, 1, n - 1)
           b == SubSeq(o, n, Len(o))
           c == a \o <<x>>
<1>1. Len(o) \in Nat /\ n \in Nat
  BY LenProperties
<1>2. a \in Seq(S) /\ Len(a) = n - 1 /\ \A i \in 1 .. n - 1 : a[i] = o[i]
  BY <1>1, SubSeqProperties
<1>3. /\ b \in Seq(S) /\ Len(b) = Len(o) - n + 1
      /\ \A i \in 1 .. Len(o) - n + 1 : b[i] = o[n + i - 1]
  BY <1>1, SubSeqProperties
<1>4. <<x>> \in Seq(S) /\ Len(<<x>>) = 1 /\ <<x>>[1] = x
  OBVIOUS
<1> HIDE DEF a, b
<1>5. c \in Seq(S) /\ Len(c) = n /\ c[n] = x /\ \A i \in 1 .. n - 1 : c[i] = o[i]
  <2> DEFINE e == <<x>>
  <2> HIDE DEF e
  <2>1. e \in Seq(S) /\ Len(e) = 1 /\ e[1] = x
    BY <1>4 DEF e
  <2>2. /\ a \o e \in Seq(S) /\ Len(a \o e) = Len(a) + Len(e)
        /\ \A i \in 1 .. Len(a) + Len(e) :
              (a \o e)[i] = IF i <= Len(a) THEN a[i] ELSE e[i - Len(a)]
    BY <1>2, <2>1, ConcatProperties
  <2>3. (a \o e)[n] = x
    <3>1. n \in 1 .. Len(a) + Len(e) /\ ~(n <= Len(a)) /\ n - Len(a) = 1
      BY <1>1, <1>2, <2>1
    <3> QED
      BY <2>1, <2>2, <3>1
  <2>4. \A i \in 1 .. n - 1 : (a \o e)[i] = o[i]
    BY <1>1, <1>2, <2>1, <2>2
  <2>5. c = a \o e
    BY DEF e
  <2> HIDE DEF c
  <2> QED
    BY <1>1, <1>2, <2>1, <2>2, <2>3, <2>4, <2>5
<1> HIDE DEF c
<1>6. /\ c \o b \in Seq(S) /\ Len(c \o b) = Len(o) + 1
      /\ \A i \in 1 .. n : (c \o b)[i] = c[i]
      /\ \A i \in n + 1 .. Len(o) + 1 : (c \o b)[i] = o[i - 1]
  <2>1. /\ c \o b \in Seq(S) /\ Len(c \o b) = Len(c) + Len(b)
        /\ \A i \in 1 .. Len(c) + Len(b) :
              (c \o b)[i] = IF i <= Len(c) THEN c[i] ELSE b[i - Len(c)]
    <3>1. b \in Seq(S) /\ c \in Seq(S)
      BY <1>3, <1>5
    <3> HIDE DEF b
    <3> QED
      BY <3>1, ConcatProperties
  <2>2. \A i \in n + 1 .. Len(o) + 1 : (c \o b)[i] = o[i - 1]
    <3> TAKE i \in n + 1 .. Len(o) + 1
    <3>1. /\ i \in 1 .. Len(c) + Len(b) /\ ~(i <= Len(c))
          /\ i - Len(c) \in 1 .. Len(o) - n + 1 /\ n + (i - Len(c)) - 1 = i - 1
      BY <1>1, <1>3, <1>5
    <3> QED
      BY <1>3, <2>1, <3>1
  <2>3. \A i \in 1 .. n : (c \o b)[i] = c[i]
    BY <1>1, <1>3, <1>5, <2>1
  <2> QED
    BY <1>1, <1>3, <1>5, <2>1, <2>2, <2>3
<1>7. \A i \in 1 .. Len(o) + 1 : (c \o b)[i] = r[i]
  <2> TAKE i \in 1 .. Len(o) + 1
  <2>1. CASE i < n
    BY <1>1, <1>5, <1>6, <2>1
  <2>2. CASE i = n
    BY <1>1, <1>5, <1>6, <2>2
  <2>3. CASE i > n
    <3>1. i - 1 \in n .. Len(o) /\ (i - 1) + 1 = i /\ i \in n + 1 .. Len(o) + 1
      BY <1>1, <2>3
    <3> QED
      BY <1>6, <3>1
  <2>4. i < n \/ i = n \/ i > n
    BY <1>1
  <2> QED
    BY <2>1, <2>2, <2>3, <2>4
<1>8. c \o b = r
  BY <1>6, <1>7, SeqEqual
<1> QED
  BY <1>8 DEF InsertAt, a, b, c

\* A subtree is an interval of the tree: what was behind it moves down.
Without(o, k, l) == SubSeq(o, 1, k - 1) \o SubSeq(o, l + 1, Len(o))
\* Tree::detach: what was behind the scenes moves up.
LEMMA WithoutIs ==
    ASSUME NEW S, NEW o \in Seq(S), NEW k \in 1 .. Len(o), NEW l \in k .. Len(o),
           NEW r \in Seq(S), Len(r) = Len(o) - (l - k + 1),
           \A i \in 1 .. k - 1 : r[i] = o[i],
           \A i \in k .. Len(r) : r[i] = o[i + (l - k + 1)]
    PROVE  Without(o, k, l) = r
<1> DEFINE a == SubSeq(o, 1, k - 1)
           b == SubSeq(o, l + 1, Len(o))
<1>1. Len(o) \in Nat /\ k \in Nat /\ l \in Nat
  BY LenProperties
<1>2. a \in Seq(S) /\ Len(a) = k - 1 /\ \A i \in 1 .. k - 1 : a[i] = o[i]
  BY <1>1, SubSeqProperties
<1>3. b \in Seq(S) /\ Len(b) = Len(o) - l /\ \A i \in 1 .. Len(o) - l : b[i] = o[l + i]
  <2>1. CASE l = Len(o)
    BY <1>1, <2>1, SubSeqEmpty, EmptySeq
  <2>2. CASE l < Len(o)
    BY <1>1, <2>2, SubSeqProperties
  <2> QED
    BY <1>1, <2>1, <2>2
<1> HIDE DEF a, b
<1>4. /\ a \o b \in Seq(S) /\ Len(a \o b) = Len(r)
      /\ \A i \in 1 .. k - 1 : (a \o b)[i] = o[i]
      /\ \A i \in k .. Len(r) : (a \o b)[i] = o[i + (l - k + 1)]
  <2>1. /\ a \o b \in Seq(S) /\ Len(a \o b) = Len(a) + Len(b)
        /\ \A i \in 1 .. Len(a) + Len(b) :
              (a \o b)[i] = IF i <= Len(a) THEN a[i] ELSE b[i - Len(a)]
    BY <1>2, <1>3, ConcatProperties
  <2>2. \A i \in 1 .. k - 1 : (a \o b)[i] = o[i]
    BY <1>1, <1>2, <1>3, <2>1
  <2>3. \A i \in k .. Len(r) : (a \o b)[i] = o[i + (l - k + 1)]
    <3> TAKE i \in k .. Len(r)
    <3>1. /\ i \in 1 .. Len(a) + Len(b) /\ ~(i <= Len(a))
          /\ i - Len(a) \in 1 .. Len(o) - l /\ l + (i - Len(a)) = i + (l - k + 1)
      BY <1>1, <1>2, <1>3
    <3> QED
      BY <1>3, <2>1, <3>1
  <2>4. Len(a \o b) = Len(r)
    BY <1>1, <1>2, <1>3, <2>1
  <2> QED
    BY <2>1, <2>2, <2>3, <2>4
<1>5. \A i \in 1 .. Len(r) : (a \o b)[i] = r[i]
  <2> TAKE i \in 1 .. Len(r)
  <2>1. i \in 1 .. k - 1 \/ i \in k .. Len(r)
    BY <1>1
  <2> QED
    BY <1>4, <2>1
<1>6. a \o b = r
  BY <1>4, <1>5, SeqEqual
<1> QED
  BY <1>6 DEF Without, a, b

\* The scenes of the shapes, one by one.
LEMMA ShapeItems ==
    /\ Len(Alone) = 1 /\ Alone[1] = "ROOT"
    /\ \A x : Len(Top(x)) = 2 /\ Top(x)[1] = "ROOT" /\ Top(x)[2] = x
    /\ Len(ButtonOnly) = 3 /\ ButtonOnly[1] = "ROOT" /\ ButtonOnly[2] = "BOARD"
    /\ ButtonOnly[3] = "BUTTON"
    /\ Len(ArrowToCome) = 4 /\ ArrowToCome[1] = "ROOT" /\ ArrowToCome[2] = "BOARD"
    /\ ArrowToCome[3] = "BUTTON" /\ ArrowToCome[4] = "CHANNEL_SELECT"
    /\ Len(BoardOpen) = 4 /\ BoardOpen[1] = "ROOT" /\ BoardOpen[2] = "BOARD"
    /\ BoardOpen[3] = "BUTTON" /\ BoardOpen[4] = "ARROW"
    /\ Len(WithChannels) = 5 /\ WithChannels[1] = "ROOT"
    /\ WithChannels[2] = "BOARD" /\ WithChannels[3] = "BUTTON"
    /\ WithChannels[4] = "CHANNEL_SELECT" /\ WithChannels[5] = "ARROW"
    /\ Len(WithCalendar) = 5 /\ WithCalendar[1] = "ROOT"
    /\ WithCalendar[2] = "BOARD" /\ WithCalendar[3] = "CALENDAR"
    /\ WithCalendar[4] = "BUTTON" /\ WithCalendar[5] = "ARROW"
    /\ Len(NoSelect) = 3 /\ NoSelect[1] = "ROOT" /\ NoSelect[2] = "SETTING_BG"
    /\ NoSelect[3] = "SETTING_BUTTON"
    /\ Len(Settings) = 4 /\ Settings[1] = "ROOT" /\ Settings[2] = "SETTING_BG"
    /\ Settings[3] = "SETTING_BUTTON" /\ Settings[4] = "SETTING_SELECT"
    /\ \A x : /\ Len(WithScreen(x)) = 5 /\ WithScreen(x)[1] = "ROOT"
              /\ WithScreen(x)[2] = "SETTING_BG" /\ WithScreen(x)[3] = "SETTING_BUTTON"
              /\ WithScreen(x)[4] = "SETTING_SELECT" /\ WithScreen(x)[5] = x
<1>1. Len(Alone) = 1 /\ Alone[1] = "ROOT"
  BY DEF Alone
<1>2. \A x : Len(Top(x)) = 2 /\ Top(x)[1] = "ROOT" /\ Top(x)[2] = x
  BY DEF Top
<1>3. /\ Len(ButtonOnly) = 3 /\ ButtonOnly[1] = "ROOT" /\ ButtonOnly[2] = "BOARD"
      /\ ButtonOnly[3] = "BUTTON"
  BY DEF ButtonOnly
<1>4. /\ Len(ArrowToCome) = 4 /\ ArrowToCome[1] = "ROOT" /\ ArrowToCome[2] = "BOARD"
      /\ ArrowToCome[3] = "BUTTON" /\ ArrowToCome[4] = "CHANNEL_SELECT"
  BY DEF ArrowToCome
<1>5. /\ Len(BoardOpen) = 4 /\ BoardOpen[1] = "ROOT" /\ BoardOpen[2] = "BOARD"
      /\ BoardOpen[3] = "BUTTON" /\ BoardOpen[4] = "ARROW"
  BY DEF BoardOpen
<1>6. /\ Len(WithChannels) = 5 /\ WithChannels[1] = "ROOT"
      /\ WithChannels[2] = "BOARD" /\ WithChannels[3] = "BUTTON"
      /\ WithChannels[4] = "CHANNEL_SELECT" /\ WithChannels[5] = "ARROW"
  BY DEF WithChannels
<1>7. /\ Len(WithCalendar) = 5 /\ WithCalendar[1] = "ROOT"
      /\ WithCalendar[2] = "BOARD" /\ WithCalendar[3] = "CALENDAR"
      /\ WithCalendar[4] = "BUTTON" /\ WithCalendar[5] = "ARROW"
  BY DEF WithCalendar
<1>8. /\ Len(NoSelect) = 3 /\ NoSelect[1] = "ROOT" /\ NoSelect[2] = "SETTING_BG"
      /\ NoSelect[3] = "SETTING_BUTTON"
  BY DEF NoSelect
<1>9. /\ Len(Settings) = 4 /\ Settings[1] = "ROOT" /\ Settings[2] = "SETTING_BG"
      /\ Settings[3] = "SETTING_BUTTON" /\ Settings[4] = "SETTING_SELECT"
  BY DEF Settings
<1>10. \A x : /\ Len(WithScreen(x)) = 5 /\ WithScreen(x)[1] = "ROOT"
              /\ WithScreen(x)[2] = "SETTING_BG"
              /\ WithScreen(x)[3] = "SETTING_BUTTON"
              /\ WithScreen(x)[4] = "SETTING_SELECT" /\ WithScreen(x)[5] = x
  BY DEF WithScreen
<1> QED
  BY <1>1, <1>2, <1>3, <1>4, <1>5, <1>6, <1>7, <1>8, <1>9, <1>10

\* How the shapes grow, by one scene at a time,
LEMMA Growth ==
    /\ \A x \in TopLevel : InsertAt(Alone, 2, x) = Top(x)
    /\ InsertAt(Top("BOARD"), 3, "BUTTON") = ButtonOnly
    /\ InsertAt(ButtonOnly, 4, "CHANNEL_SELECT") = ArrowToCome
    /\ InsertAt(ArrowToCome, 5, "ARROW") = WithChannels
    /\ InsertAt(BoardOpen, 4, "CHANNEL_SELECT") = WithChannels
    /\ InsertAt(BoardOpen, 3, "CALENDAR") = WithCalendar
    /\ InsertAt(Top("SETTING_BG"), 3, "SETTING_BUTTON") = NoSelect
    /\ InsertAt(NoSelect, 4, "SETTING_SELECT") = Settings
    /\ \A x \in Screens : InsertAt(Settings, 5, x) = WithScreen(x)
<1>1. /\ {Alone, ButtonOnly, ArrowToCome, BoardOpen, WithChannels, WithCalendar, NoSelect,
          Settings, Top("BOARD"), Top("SETTING_BG")} \subseteq Seq(SceneId)
      /\ \A x \in TopLevel : Top(x) \in Seq(SceneId)
      /\ \A x \in Screens : WithScreen(x) \in Seq(SceneId)
  BY ShapeTrees, Names DEF IsTree
<1>2. ASSUME NEW x \in TopLevel PROVE InsertAt(Alone, 2, x) = Top(x)
  <2>1. x \in SceneId /\ Alone \in Seq(SceneId) /\ Top(x) \in Seq(SceneId)
    BY <1>1, Names
  <2>2. 2 \in 1 .. Len(Alone) + 1 /\ Len(Top(x)) = Len(Alone) + 1 /\ Top(x)[2] = x
    BY ShapeItems
  <2>3. \A i \in 1 .. 2 - 1 : Top(x)[i] = Alone[i]
    BY ShapeItems
  <2>4. \A i \in 2 .. Len(Alone) : Top(x)[i + 1] = Alone[i]
    BY ShapeItems
  <2> QED
    BY <2>1, <2>2, <2>3, <2>4, InsertIs
<1>3. InsertAt(Top("BOARD"), 3, "BUTTON") = ButtonOnly
  <2>1. "BUTTON" \in SceneId /\ Top("BOARD") \in Seq(SceneId) /\ ButtonOnly \in Seq(SceneId)
    BY <1>1, Names
  <2>2. /\ 3 \in 1 .. Len(Top("BOARD")) + 1
        /\ Len(ButtonOnly) = Len(Top("BOARD")) + 1 /\ ButtonOnly[3] = "BUTTON"
    <3>1. Len(Top("BOARD")) = 2
      BY ShapeItems
    <3>2. Len(ButtonOnly) = 3 /\ ButtonOnly[3] = "BUTTON"
      BY DEF ButtonOnly
    <3>3. 3 \in 1 .. 2 + 1 /\ 3 = 2 + 1
      OBVIOUS
    <3> QED
      BY <3>1, <3>2, <3>3, Zenon
  <2>3. \A i \in 1 .. 3 - 1 : ButtonOnly[i] = Top("BOARD")[i]
    BY ShapeItems
  <2>4. \A i \in 3 .. Len(Top("BOARD")) : ButtonOnly[i + 1] = Top("BOARD")[i]
    BY ShapeItems
  <2> QED
    BY <2>1, <2>2, <2>3, <2>4, InsertIs
<1>4. InsertAt(ButtonOnly, 4, "CHANNEL_SELECT") = ArrowToCome
  <2>1. /\ "CHANNEL_SELECT" \in SceneId /\ ButtonOnly \in Seq(SceneId)
        /\ ArrowToCome \in Seq(SceneId)
    BY <1>1, Names
  <2>2. /\ 4 \in 1 .. Len(ButtonOnly) + 1 /\ Len(ArrowToCome) = Len(ButtonOnly) + 1
        /\ ArrowToCome[4] = "CHANNEL_SELECT"
    BY ShapeItems
  <2>3. \A i \in 1 .. 4 - 1 : ArrowToCome[i] = ButtonOnly[i]
    BY ShapeItems
  <2>4. \A i \in 4 .. Len(ButtonOnly) : ArrowToCome[i + 1] = ButtonOnly[i]
    BY ShapeItems
  <2> QED
    BY <2>1, <2>2, <2>3, <2>4, InsertIs
<1>5. InsertAt(ArrowToCome, 5, "ARROW") = WithChannels
  <2>1. "ARROW" \in SceneId /\ ArrowToCome \in Seq(SceneId) /\ WithChannels \in Seq(SceneId)
    BY <1>1, Names
  <2>2. /\ 5 \in 1 .. Len(ArrowToCome) + 1
        /\ Len(WithChannels) = Len(ArrowToCome) + 1 /\ WithChannels[5] = "ARROW"
    BY ShapeItems
  <2>3. \A i \in 1 .. 5 - 1 : WithChannels[i] = ArrowToCome[i]
    BY ShapeItems
  <2>4. \A i \in 5 .. Len(ArrowToCome) : WithChannels[i + 1] = ArrowToCome[i]
    BY ShapeItems
  <2> QED
    BY <2>1, <2>2, <2>3, <2>4, InsertIs
<1>6. InsertAt(BoardOpen, 4, "CHANNEL_SELECT") = WithChannels
  <2>1. /\ "CHANNEL_SELECT" \in SceneId /\ BoardOpen \in Seq(SceneId)
        /\ WithChannels \in Seq(SceneId)
    BY <1>1, Names
  <2>2. /\ 4 \in 1 .. Len(BoardOpen) + 1 /\ Len(WithChannels) = Len(BoardOpen) + 1
        /\ WithChannels[4] = "CHANNEL_SELECT"
    BY ShapeItems
  <2>3. \A i \in 1 .. 4 - 1 : WithChannels[i] = BoardOpen[i]
    BY ShapeItems
  <2>4. \A i \in 4 .. Len(BoardOpen) : WithChannels[i + 1] = BoardOpen[i]
    BY ShapeItems
  <2> QED
    BY <2>1, <2>2, <2>3, <2>4, InsertIs
<1>7. InsertAt(BoardOpen, 3, "CALENDAR") = WithCalendar
  <2>1. /\ "CALENDAR" \in SceneId /\ BoardOpen \in Seq(SceneId)
        /\ WithCalendar \in Seq(SceneId)
    BY <1>1, Names
  <2>2. /\ 3 \in 1 .. Len(BoardOpen) + 1 /\ Len(WithCalendar) = Len(BoardOpen) + 1
        /\ WithCalendar[3] = "CALENDAR"
    BY ShapeItems
  <2>3. \A i \in 1 .. 3 - 1 : WithCalendar[i] = BoardOpen[i]
    BY ShapeItems
  <2>4. \A i \in 3 .. Len(BoardOpen) : WithCalendar[i + 1] = BoardOpen[i]
    BY ShapeItems
  <2> QED
    BY <2>1, <2>2, <2>3, <2>4, InsertIs
<1>8. InsertAt(Top("SETTING_BG"), 3, "SETTING_BUTTON") = NoSelect
  <2>1. /\ "SETTING_BUTTON" \in SceneId /\ Top("SETTING_BG") \in Seq(SceneId)
        /\ NoSelect \in Seq(SceneId)
    BY <1>1, Names
  <2>2. /\ 3 \in 1 .. Len(Top("SETTING_BG")) + 1
        /\ Len(NoSelect) = Len(Top("SETTING_BG")) + 1
        /\ NoSelect[3] = "SETTING_BUTTON"
    <3>1. Len(Top("SETTING_BG")) = 2
      BY ShapeItems
    <3>2. Len(NoSelect) = 3 /\ NoSelect[3] = "SETTING_BUTTON"
      BY ShapeItems
    <3>3. 3 \in 1 .. 2 + 1 /\ 3 = 2 + 1
      OBVIOUS
    <3> QED
      BY <3>1, <3>2, <3>3, Zenon
  <2>3. \A i \in 1 .. 3 - 1 : NoSelect[i] = Top("SETTING_BG")[i]
    BY ShapeItems
  <2>4. \A i \in 3 .. Len(Top("SETTING_BG")) : NoSelect[i + 1] = Top("SETTING_BG")[i]
    BY ShapeItems
  <2> QED
    BY <2>1, <2>2, <2>3, <2>4, InsertIs
<1>9. InsertAt(NoSelect, 4, "SETTING_SELECT") = Settings
  <2>1. /\ "SETTING_SELECT" \in SceneId /\ NoSelect \in Seq(SceneId)
        /\ Settings \in Seq(SceneId)
    BY <1>1, Names
  <2>2. /\ 4 \in 1 .. Len(NoSelect) + 1 /\ Len(Settings) = Len(NoSelect) + 1
        /\ Settings[4] = "SETTING_SELECT"
    BY ShapeItems
  <2>3. \A i \in 1 .. 4 - 1 : Settings[i] = NoSelect[i]
    BY ShapeItems
  <2>4. \A i \in 4 .. Len(NoSelect) : Settings[i + 1] = NoSelect[i]
    BY ShapeItems
  <2> QED
    BY <2>1, <2>2, <2>3, <2>4, InsertIs
<1>10. ASSUME NEW x \in Screens PROVE InsertAt(Settings, 5, x) = WithScreen(x)
  <2>1. x \in SceneId /\ Settings \in Seq(SceneId) /\ WithScreen(x) \in Seq(SceneId)
    BY <1>1, Names
  <2>2. /\ 5 \in 1 .. Len(Settings) + 1 /\ Len(WithScreen(x)) = Len(Settings) + 1
        /\ WithScreen(x)[5] = x
    BY ShapeItems
  <2>3. \A i \in 1 .. 5 - 1 : WithScreen(x)[i] = Settings[i]
    BY ShapeItems
  <2>4. \A i \in 5 .. Len(Settings) : WithScreen(x)[i + 1] = Settings[i]
    BY ShapeItems
  <2> QED
    BY <2>1, <2>2, <2>3, <2>4, InsertIs
<1> QED
  BY <1>2, <1>3, <1>4, <1>5, <1>6, <1>7, <1>8, <1>9, <1>10

\* and how they shrink.
LEMMA Cuts ==
    /\ \A x \in TopLevel : Without(Top(x), 2, 2) = Alone
    /\ Without(BoardOpen, 2, 4) = Alone
    /\ Without(WithChannels, 2, 5) = Alone
    /\ Without(WithChannels, 4, 4) = BoardOpen
    /\ Without(WithCalendar, 3, 3) = BoardOpen
    /\ Without(Settings, 4, 4) = NoSelect
    /\ \A x \in Screens : Without(WithScreen(x), 5, 5) = Settings
<1>1. /\ {Alone, BoardOpen, WithChannels, WithCalendar, NoSelect, Settings}
             \subseteq Seq(SceneId)
      /\ \A x \in TopLevel : Top(x) \in Seq(SceneId)
      /\ \A x \in Screens : WithScreen(x) \in Seq(SceneId)
  BY ShapeTrees, Names DEF IsTree
<1>2. ASSUME NEW x \in TopLevel PROVE Without(Top(x), 2, 2) = Alone
  <2>1. Top(x) \in Seq(SceneId) /\ Alone \in Seq(SceneId)
    BY <1>1
  <2>2. /\ 2 \in 1 .. Len(Top(x)) /\ 2 \in 2 .. Len(Top(x))
        /\ Len(Alone) = Len(Top(x)) - (2 - 2 + 1)
    BY ShapeItems
  <2>3. \A i \in 1 .. 2 - 1 : Alone[i] = Top(x)[i]
    BY ShapeItems
  <2>4. \A i \in 2 .. Len(Alone) : Alone[i] = Top(x)[i + (2 - 2 + 1)]
    BY ShapeItems
  <2> QED
    BY <2>1, <2>2, <2>3, <2>4, WithoutIs
<1>3. Without(BoardOpen, 2, 4) = Alone
  <2>1. BoardOpen \in Seq(SceneId) /\ Alone \in Seq(SceneId)
    BY <1>1
  <2>2. /\ 2 \in 1 .. Len(BoardOpen) /\ 4 \in 2 .. Len(BoardOpen)
        /\ Len(Alone) = Len(BoardOpen) - (4 - 2 + 1)
    BY ShapeItems
  <2>3. \A i \in 1 .. 2 - 1 : Alone[i] = BoardOpen[i]
    BY ShapeItems
  <2>4. \A i \in 2 .. Len(Alone) : Alone[i] = BoardOpen[i + (4 - 2 + 1)]
    BY ShapeItems
  <2> QED
    BY <2>1, <2>2, <2>3, <2>4, WithoutIs
<1>4. Without(WithChannels, 2, 5) = Alone
  <2>1. WithChannels \in Seq(SceneId) /\ Alone \in Seq(SceneId)
    BY <1>1
  <2>2. /\ 2 \in 1 .. Len(WithChannels) /\ 5 \in 2 .. Len(WithChannels)
        /\ Len(Alone) = Len(WithChannels) - (5 - 2 + 1)
    BY ShapeItems
  <2>3. \A i \in 1 .. 2 - 1 : Alone[i] = WithChannels[i]
    BY ShapeItems
  <2>4. \A i \in 2 .. Len(Alone) : Alone[i] = WithChannels[i + (5 - 2 + 1)]
    BY ShapeItems
  <2> QED
    BY <2>1, <2>2, <2>3, <2>4, WithoutIs
<1>5. Without(WithChannels, 4, 4) = BoardOpen
  <2>1. WithChannels \in Seq(SceneId) /\ BoardOpen \in Seq(SceneId)
    BY <1>1
  <2>2. /\ 4 \in 1 .. Len(WithChannels) /\ 4 \in 4 .. Len(WithChannels)
        /\ Len(BoardOpen) = Len(WithChannels) - (4 - 4 + 1)
    BY ShapeItems
  <2>3. \A i \in 1 .. 4 - 1 : BoardOpen[i] = WithChannels[i]
    BY ShapeItems
  <2>4. \A i \in 4 .. Len(BoardOpen) : BoardOpen[i] = WithChannels[i + (4 - 4 + 1)]
    BY ShapeItems
  <2> QED
    BY <2>1, <2>2, <2>3, <2>4, WithoutIs
<1>6. Without(WithCalendar, 3, 3) = BoardOpen
  <2>1. WithCalendar \in Seq(SceneId) /\ BoardOpen \in Seq(SceneId)
    BY <1>1
  <2>2. /\ 3 \in 1 .. Len(WithCalendar) /\ 3 \in 3 .. Len(WithCalendar)
        /\ Len(BoardOpen) = Len(WithCalendar) - (3 - 3 + 1)
    BY ShapeItems
  <2>3. \A i \in 1 .. 3 - 1 : BoardOpen[i] = WithCalendar[i]
    BY ShapeItems
  <2>4. \A i \in 3 .. Len(BoardOpen) : BoardOpen[i] = WithCalendar[i + (3 - 3 + 1)]
    BY ShapeItems
  <2> QED
    BY <2>1, <2>2, <2>3, <2>4, WithoutIs
<1>7. Without(Settings, 4, 4) = NoSelect
  <2>1. Settings \in Seq(SceneId) /\ NoSelect \in Seq(SceneId)
    BY <1>1
  <2>2. /\ 4 \in 1 .. Len(Settings) /\ 4 \in 4 .. Len(Settings)
        /\ Len(NoSelect) = Len(Settings) - (4 - 4 + 1)
    BY ShapeItems
  <2>3. \A i \in 1 .. 4 - 1 : NoSelect[i] = Settings[i]
    BY ShapeItems
  <2>4. \A i \in 4 .. Len(NoSelect) : NoSelect[i] = Settings[i + (4 - 4 + 1)]
    BY ShapeItems
  <2> QED
    BY <2>1, <2>2, <2>3, <2>4, WithoutIs
<1>8. ASSUME NEW x \in Screens PROVE Without(WithScreen(x), 5, 5) = Settings
  <2>1. WithScreen(x) \in Seq(SceneId) /\ Settings \in Seq(SceneId)
    BY <1>1
  <2>2. /\ 5 \in 1 .. Len(WithScreen(x)) /\ 5 \in 5 .. Len(WithScreen(x))
        /\ Len(Settings) = Len(WithScreen(x)) - (5 - 5 + 1)
    BY ShapeItems
  <2>3. \A i \in 1 .. 5 - 1 : Settings[i] = WithScreen(x)[i]
    BY ShapeItems
  <2>4. \A i \in 5 .. Len(Settings) : Settings[i] = WithScreen(x)[i + (5 - 5 + 1)]
    BY ShapeItems
  <2> QED
    BY <2>1, <2>2, <2>3, <2>4, WithoutIs
<1> QED
  BY <1>2, <1>3, <1>4, <1>5, <1>6, <1>7, <1>8

-----------------------------------------------------------------------------
(* skHealth, LimitOver and Reboot.                                         *)

\* Which trees are not that of the Board with its first two children.
LEMMA NotOpen ==
    /\ \A x : Top(x) # BoardOpen
    /\ BoardOpen \notin {Alone, ButtonOnly, ArrowToCome, WithChannels, WithCalendar,
                          NoSelect, Settings}
    /\ \A x : WithScreen(x) # BoardOpen
<1>1. \A x : Top(x) # BoardOpen
  <2>1. Len(BoardOpen) = 4
    BY ShapeItems
  <2>2. \A x : Len(Top(x)) = 2
    BY ShapeItems
  <2> QED
    BY <2>1, <2>2
<1> QED
  BY <1>1, ShapeItems

\* The parent of each scene.
LEMMA AboveIs ==
    /\ \A x \in TopLevel : Above(x) = "ROOT"
    /\ Above("BUTTON") = "BOARD" /\ Above("ARROW") = "BOARD"
    /\ Above("CHANNEL_SELECT") = "BOARD" /\ Above("CALENDAR") = "BOARD"
    /\ Above("SETTING_BUTTON") = "SETTING_BG" /\ Above("SETTING_SELECT") = "SETTING_BG"
    /\ \A x \in Screens : Above(x) = "SETTING_SELECT"
    /\ Above("ROOT") = NONE
BY Names DEF Above

Faders == {"black", "in", "shown", "out"}

\* What every call that goes to a stage has found and leaves.
LEMMA CallStart ==
    ASSUME MenuInv, NEW id \in SceneId, NEW s, NEW t, Goes(id, s, t)
    PROVE  /\ phase = "calc" /\ id \in Live /\ stage[id] = s /\ order[it] = id
           /\ SameReserve /\ OnInFrame /\ Live' = Live
           /\ it \in Nat /\ it' \in Nat /\ it \in DOMAIN order
           /\ stage' = [stage EXCEPT ![id] = t] /\ stage \in [SceneId -> Stage]
           /\ mbDestroySyncTask \in BOOLEAN /\ fader \in Faders
<1>1. /\ phase = "calc" /\ id \in Live /\ stage[id] = s /\ order[it] = id
      /\ SameReserve /\ OnInFrame /\ Live' = Live
      /\ it \in Nat /\ it' \in Nat /\ it \in DOMAIN order
  BY CallFacts DEF Goes
<1>2. stage' = [stage EXCEPT ![id] = t]
  BY GoesStage
<1>3. stage \in [SceneId -> Stage] /\ mbDestroySyncTask \in BOOLEAN /\ fader \in Faders
  BY DEF MenuInv, StageInv, WorkInv, Faders
<1> QED
  BY <1>1, <1>2, <1>3

\* Who is not there has no stage.
LEMMA OthersGone ==
    ASSUME MenuInv
    PROVE  \A x \in SceneId : x \notin Live /\ x # reserved => stage[x] = "gone"
BY DEF MenuInv, StageInv

\* In a place where a scene lives alone, the others have no stage.
LEMMA AloneGone ==
    ASSUME MenuInv, NEW id \in TopLevel, Open(Top(id))
    PROVE  \A x \in SceneId \ {id} : stage[x] = "gone"
BY ShapeLive, CommandNew, Names DEF MenuInv, StageInv, Open, At, Live

\* skHealth and LimitOver wait for the user, and fade out.
LEMMA SplashPasses ==
    ASSUME MenuInv, NEW id \in {"HEALTH", "LIMIT_OVER"}, PassSplash(id) \/ FadeSplash(id)
    PROVE  MenuInv'
<1>1. PICK s : /\ Goes(id, s, "out") /\ s \in {"in", "out"}
               /\ UNCHANGED <<destroyReq, command, mCommands, mbDestroySyncTask, task1q, board>>
               /\ fader' \in Faders
  BY DEF PassSplash, FadeSplash, FadedOut, Faders
<1> USE Names
<1>2. /\ id \in Live /\ SameReserve /\ Live' = Live /\ stage[id] = s
      /\ stage' = [stage EXCEPT ![id] = "out"] /\ stage \in [SceneId -> Stage]
      /\ mbDestroySyncTask \in BOOLEAN
  BY <1>1, CallStart
<1>3. Open(Top(id))
  BY <1>1, <1>2, AloneScenes DEF MenuInv
<1>4. \A x \in SceneId \ {id} : stage[x] = "gone"
  BY <1>3, AloneGone
<1>5. MapInv'
  BY <1>1, <1>2, <1>3 DEF MapInv, AtTop, Open, At, SameReserve
<1>6. AskInv' /\ BoardInv'
  BY <1>1, <1>2, <1>4 DEF MenuInv, AskInv, BoardInv, Ending, SameReserve
<1>7. "out" \in Stage \ {"gone", "waitTask"}
  BY DEF Stage
<1> QED
  BY <1>1, <1>2, <1>4, <1>5, <1>6, <1>7, CallKeeps DEF Faders

\* skHealth asks for everything to be destroyed when the screen is black.
LEMMA HealthLeaves ==
    ASSUME MenuInv, LeaveHealth PROVE MenuInv'
<1> USE Names
<1>1. /\ Goes("HEALTH", "out", "done") /\ fader = "black"
      /\ ReserveAllDestruction("HEALTH", "BOARD") /\ RequestDestruction("HEALTH")
      /\ UNCHANGED <<fader, mCommands, board>>
  BY DEF LeaveHealth
<1>2. /\ "HEALTH" \in Live /\ SameReserve /\ Live' = Live
      /\ stage' = [stage EXCEPT !["HEALTH"] = "done"] /\ stage \in [SceneId -> Stage]
  BY <1>1, CallStart
<1>3. Open(Top("HEALTH"))
  BY <1>2, AloneScenes DEF MenuInv
<1>4. \A x \in SceneId \ {"HEALTH"} : stage[x] = "gone"
  BY <1>3, AloneGone
<1>5. MapInv'
  BY <1>1, <1>2, <1>3 DEF MapInv, AtTop, Open, At, SameReserve
<1>6. AskInv' /\ BoardInv'
  <2>1. command' = [command EXCEPT !["HEALTH"] = "BOARD"]
    BY <1>1 DEF ReserveAllDestruction
  <2>2. AskInv'
    BY <1>1, <1>2, <1>4, <2>1 DEF MenuInv, AskInv, Asking
  <2>3. BoardInv'
    BY <1>1, <1>2, <1>4, <2>1 DEF MenuInv, BoardInv, AskInv, Ending, SameReserve
  <2> QED
    BY <2>2, <2>3
<1>7. "done" \in Stage \ {"gone", "waitTask"} /\ "HEALTH" \notin Lasting
  BY DEF Stage, Lasting
<1>8. mbDestroySyncTask' \in BOOLEAN /\ task1q' = Append(task1q, JobOf("sync"))
  BY <1>1 DEF ReserveAllDestruction
<1> QED
  BY <1>1, <1>2, <1>4, <1>5, <1>6, <1>7, <1>8, CallKeeps

\* The scene that lives alone is the last of its tree.
LEMMA TopEnds ==
    ASSUME MenuInv, NEW id \in TopLevel, Open(Top(id))
    PROVE  Next_(id) = NONE /\ parent[id] = "ROOT"
<1>1. IsTree(order) /\ Len(order) = 2 /\ order[2] = id
  BY ShapeTrees, ShapeItems DEF Open, At
<1>2. IndexOf(id) = 2 /\ LastBelow(2) = 2
  <2>1. 2 \in DOMAIN order
    BY <1>1 DEF IsTree
  <2> QED
    BY <1>1, <2>1, IndexOfAt, LastBelowLast
<1>3. Next_(id) = NONE
  BY <1>1, <1>2 DEF Next_
<1>4. id \in Live /\ Above(id) = "ROOT"
  <2>1. id \in Live
    BY ShapeLive DEF Open, At, Live
  <2> QED
    BY <2>1, AboveIs
<1>5. parent[id] = "ROOT"
  BY <1>4, Names DEF MenuInv, TreeInv
<1> QED
  BY <1>3, <1>5

\* LimitOver and Reboot ask for a scene in their place.
LEMMA SceneChanges ==
    ASSUME MenuInv, NEW c \in Changes, NEW s, s # "done", Goes(c[1], s, "done"),
           ChangeScene(c[1], c[2]), fader' \in Faders,
           c[2] = "BOARD" => fader' = "black"
    PROVE  MenuInv'
<1> USE Names
<1>1. /\ c[1] \in {"LIMIT_OVER", "REBOOT"} /\ c[2] \in SceneId
      /\ c[1] \in TopLevel \ (Asking \union Lasting)
  BY DEF Changes, Asking, Lasting
<1>2. /\ c[1] \in Live /\ SameReserve /\ Live' = Live /\ order[it] = c[1]
      /\ stage[c[1]] # "done" /\ it \in DOMAIN order
      /\ stage' = [stage EXCEPT ![c[1]] = "done"] /\ stage \in [SceneId -> Stage]
      /\ mbDestroySyncTask \in BOOLEAN
  BY <1>1, CallStart
<1>3. Open(Top(c[1]))
  BY <1>1, <1>2, AloneScenes DEF MenuInv
<1>4. \A x \in SceneId \ {c[1]} : stage[x] = "gone"
  BY <1>1, <1>3, AloneGone
<1>5. mCommands' = <<Change(c[1], c[2])>>
  BY <1>1, <1>3, TopEnds, PushedShort DEF ChangeScene, Change, Open, At
<1>6. phase' = "command"
  <2>1. Len(order) = 2 /\ order[1] = "ROOT" /\ it \in {1, 2}
    BY <1>2, <1>3, ShapeItems, ShapeTrees DEF Open, At, IsTree
  <2>2. ~(it < Len(order))
    BY <1>1, <1>2, <2>1
  <2> QED
    BY <2>2 DEF Goes, GoesOn, Advance
<1>7. MapInv'
  <2>1. At(Top(c[1]), <<Change(c[1], c[2])>>, NoCommand)'
    BY <1>2, <1>3, <1>5 DEF Open, At, SameReserve
  <2>2. stage'[c[1]] = "done"
    BY <1>1, <1>2
  <2> QED
    BY <1>6, <2>1, <2>2 DEF MapInv, AtChange
<1>8. UNCHANGED <<command, board, mbDestroySyncTask, task1q>> /\ RequestDestruction(c[1])
  BY DEF ChangeScene
<1>9. AskInv' /\ BoardInv'
  <2>1. order' # BoardOpen
    <3>1. order = Top(c[1])
      BY <1>3 DEF Open, At
    <3>2. order' = order
      BY <1>2 DEF SameReserve
    <3> QED
      BY <3>1, <3>2, NotOpen
  <2>2. ~board.exit /\ command["CHANNEL_SELECT"] = NONE
    BY <1>1, <1>3, <1>4, ShapeItems DEF MenuInv, BoardInv, Ending, Open, At, Asking
  <2> QED
    BY <1>1, <1>2, <1>4, <1>8, <2>1, <2>2 DEF MenuInv, AskInv, BoardInv, Asking, Ending
<1>10. "done" \in Stage \ {"gone", "waitTask"}
  BY DEF Stage
<1> QED
  BY <1>1, <1>2, <1>4, <1>7, <1>8, <1>9, <1>10, CallKeeps DEF Faders, Asking

\* The calls of skHealth, LimitOver and Reboot.
LEMMA SplashSteps ==
    ASSUME MenuInv,
           \/ \E id \in {"HEALTH", "LIMIT_OVER"} : PassSplash(id) \/ FadeSplash(id)
           \/ LeaveHealth \/ LeaveLimitOver \/ LeaveReboot
    PROVE  MenuInv'
<1>1. CASE LeaveLimitOver
  <2>1. <<"LIMIT_OVER", "BOARD">> \in Changes
    BY DEF Changes
  <2> QED
    BY <1>1, <2>1, SceneChanges DEF LeaveLimitOver, Faders
<1>2. CASE LeaveReboot
  <2>1. PICK new \in {"SETTING_BG", "SETTING"} : ChangeScene("REBOOT", new)
    BY <1>2 DEF LeaveReboot
  <2>2. <<"REBOOT", new>> \in Changes
    BY DEF Changes
  <2>3. fader' \in Faders
    BY <1>2 DEF LeaveReboot, FadedIn, Faders, MenuInv, WorkInv
  <2> QED
    BY <1>2, <2>1, <2>2, <2>3, SceneChanges DEF LeaveReboot
<1> QED
  BY <1>1, <1>2, SplashPasses, HealthLeaves

-----------------------------------------------------------------------------
(* The Board opens.                                                        *)

\* The Board's turn is the second of a frame.
LEMMA BoardStart ==
    ASSUME MenuInv, NEW s, NEW t, Goes("BOARD", s, t)
    PROVE  /\ phase = "calc" /\ "BOARD" \in Live /\ stage["BOARD"] = s /\ it = 2
           /\ SameReserve /\ OnInFrame /\ Live' = Live
           /\ it' \in Nat
           /\ stage' = [stage EXCEPT !["BOARD"] = t] /\ stage \in [SceneId -> Stage]
           /\ mbDestroySyncTask \in BOOLEAN /\ fader \in Faders
           /\ Len(order) > 2 => phase' = "calc" /\ it' = 3
           /\ stage["CHANNEL_SELECT"] # "done"
<1>1. /\ phase = "calc" /\ "BOARD" \in Live /\ stage["BOARD"] = s /\ order[it] = "BOARD"
      /\ SameReserve /\ OnInFrame /\ Live' = Live
      /\ it \in Nat /\ it' \in Nat /\ it \in DOMAIN order
      /\ stage' = [stage EXCEPT !["BOARD"] = t] /\ stage \in [SceneId -> Stage]
      /\ mbDestroySyncTask \in BOOLEAN /\ fader \in Faders
  BY CallStart, Names
<1>2. it = 2
  <2>1. IsTree(order)
    BY TreeFacts DEF MenuInv
  <2>2. order[2] = "BOARD" /\ 2 \in DOMAIN order
    BY <1>1, <2>1 DEF IsTree, Live
  <2> QED
    BY <1>1, <2>1, <2>2 DEF IsTree, IsInjective
<1>3. Len(order) > 2 => phase' = "calc" /\ it' = 3
  <2>1. Len(order) \in Nat
    BY TreeFacts DEF MenuInv, IsTree
  <2> QED
    BY <1>1, <1>2, <2>1 DEF Goes, GoesOn, Advance
<1>4. stage["CHANNEL_SELECT"] # "done"
  BY <1>1, <1>2 DEF MenuInv, DoomInv
<1> QED
  BY <1>1, <1>2, <1>3, <1>4

\* The Board asks for its three first children.
LEMMA BoardOpens ==
    ASSUME MenuInv, BoardCdbInit PROVE MenuInv'
<1> USE Names
<1>1. /\ Goes("BOARD", "cdbInit", "init")
      /\ UNCHANGED <<destroyReq, command, fader, mbDestroySyncTask>>
      /\ \/ task1q' = task1q \o <<JobOf("count"), JobOf("read")>>
         \/ UNCHANGED task1q
  BY DEF BoardCdbInit
<1>2. /\ "BOARD" \in Live /\ SameReserve /\ stage["BOARD"] = "cdbInit"
      /\ stage' = [stage EXCEPT !["BOARD"] = "init"] /\ stage \in [SceneId -> Stage]
      /\ mbDestroySyncTask \in BOOLEAN /\ fader \in Faders
  BY <1>1, BoardStart
<1>3. Open(Top("BOARD"))
  BY <1>2, AloneScenes DEF MenuInv
<1>4. \A x \in SceneId \ {"BOARD"} : stage[x] = "gone"
  BY <1>3, AloneGone
<1>5. mCommands' = <<Child("BUTTON"), Child("CHANNEL_SELECT"), Child("ARROW")>>
  BY <1>3, PushedShort, AboveIs DEF BoardCdbInit, Open, At, Child
<1>6. MapInv'
  BY <1>2, <1>3, <1>5 DEF MapInv, AtOpening, Open, At, SameReserve
<1>7. AskInv'
  BY <1>1, <1>2, <1>4 DEF MenuInv, AskInv, Asking
<1>8. BoardInv'
  <2>1. order' # BoardOpen /\ order # BoardOpen
    BY <1>2, <1>3, NotOpen DEF Open, At, SameReserve
  <2>2. /\ board' \in [count : BOOLEAN, read : BOOLEAN, exit : BOOLEAN]
        /\ board'.exit = board.exit
    BY DEF BoardCdbInit, MenuInv, BoardInv
  <2> QED
    BY <1>1, <1>2, <1>4, <2>1, <2>2 DEF MenuInv, BoardInv, Ending
<1>9. "init" \in Stage \ {"gone", "waitTask"} /\ fader = "black"
  BY <1>2 DEF MenuInv, StageInv, Stage
<1> QED
  BY <1>1, <1>2, <1>4, <1>6, <1>7, <1>8, <1>9, CallKeeps DEF Faders

\* The last of its children is there.
LEMMA BoardBegins ==
    ASSUME MenuInv, BoardInit \/ BoardInitSafe \/ BoardInitFull PROVE MenuInv'
<1> USE Names
<1>1. PICK t \in {"childDst", "done", "toSettings"} :
          /\ Goes("BOARD", "init", t) /\ "ARROW" \in Live
          /\ UNCHANGED <<destroyReq, mCommands, board>>
          /\ \/ /\ t # "toSettings"
                /\ UNCHANGED <<command, mbDestroySyncTask, task1q>>
                /\ fader' = FadedIn(fader)
             \/ /\ t = "toSettings"
                /\ ReserveAllDestruction("BOARD", "SETTING_BG")
                /\ fader' = "out"
  BY DEF BoardInit, BoardInitSafe, BoardInitFull
<1>2. /\ "BOARD" \in Live /\ SameReserve /\ stage["BOARD"] = "init"
      /\ stage' = [stage EXCEPT !["BOARD"] = t] /\ stage \in [SceneId -> Stage]
      /\ mbDestroySyncTask \in BOOLEAN /\ fader \in Faders /\ Live' = Live
  BY <1>1, BoardStart
<1>3. Open(WithChannels)
  BY <1>1, <1>2, BoardScenes DEF MenuInv
<1>4. MapInv'
  BY <1>1, <1>2, <1>3 DEF MapInv, AtChannels, Open, At, SameReserve
<1>5. /\ stage["CHANNEL_SELECT"] = "in"
      /\ \A x \in Asking \ {"BOARD", "CHANNEL_SELECT"} : stage[x] = "gone"
  BY <1>2, <1>3, ShapeLive, CommandNew DEF MenuInv, StageInv, Open, At, Live, Asking
<1>6. /\ mbDestroySyncTask' \in BOOLEAN /\ fader' \in Faders
      /\ \/ UNCHANGED task1q
         \/ task1q' = Append(task1q, JobOf("sync"))
      /\ \/ UNCHANGED command /\ t # "toSettings"
         \/ /\ t = "toSettings"
            /\ command' = [command EXCEPT !["BOARD"] = "SETTING_BG"]
            /\ fader' = "out"
  BY <1>1, <1>2 DEF ReserveAllDestruction, Faders, FadedIn
<1>7. AskInv'
  BY <1>2, <1>5, <1>6 DEF MenuInv, AskInv, Asking
<1>8. BoardInv'
  <2>1. order' # BoardOpen /\ order # BoardOpen
    BY <1>2, <1>3, NotOpen DEF Open, At, SameReserve
  <2>2. command["BOARD"] = NONE /\ command["CHANNEL_SELECT"] = NONE /\ ~board.exit
    BY <1>2, <1>5, <2>1 DEF MenuInv, BoardInv, Ending
  <2>3. command \in [SceneId -> Roots \union {NONE}]
    BY DEF MenuInv, AskInv
  <2>4. stage'["CHANNEL_SELECT"] = "in" /\ stage'["BOARD"] = t
    BY <1>2, <1>5
  <2>5. board' = board /\ board \in [count : BOOLEAN, read : BOOLEAN, exit : BOOLEAN]
    BY <1>1 DEF MenuInv, BoardInv
  <2> QED
    BY <1>1, <1>6, <2>1, <2>2, <2>3, <2>4, <2>5 DEF BoardInv, Ending
<1>9. t \in Stage \ {"gone", "waitTask"}
  BY DEF Stage
<1> QED
  BY <1>1, <1>2, <1>4, <1>6, <1>7, <1>8, <1>9, CallKeeps DEF Faders

-----------------------------------------------------------------------------
(* The Board.                                                              *)

\* The Board goes on and asks for no destruction.
LEMMA BoardMoves ==
    ASSUME MenuInv, NEW s \in Stage \ {"cdbInit", "init"},
           NEW t \in Stage \ {"cdbInit", "init", "gone", "waitTask", "toSettings"},
           Goes("BOARD", s, t), s = "toSettings" => t = "done",
           UNCHANGED <<command, fader, mbDestroySyncTask>>,
           UNCHANGED destroyReq \/ (t = "done" /\ RequestDestruction("BOARD")),
           s = "done" => t = "done",
           board' \in [count : BOOLEAN, read : BOOLEAN, exit : BOOLEAN],
           board'.exit = board.exit,
           \/ UNCHANGED task1q
           \/ \E kind \in {"count", "read", "sync"} : task1q' = Append(task1q, JobOf(kind))
           \/ \E k1, k2 \in {"count", "read"} : task1q' = task1q \o <<JobOf(k1), JobOf(k2)>>,
           Ending' <=> Ending,
           MapInv'
    PROVE  MenuInv'
<1> USE Names
<1>1. /\ "BOARD" \in Live /\ SameReserve /\ stage["BOARD"] = s /\ Live' = Live
      /\ stage' = [stage EXCEPT !["BOARD"] = t] /\ stage \in [SceneId -> Stage]
      /\ mbDestroySyncTask \in BOOLEAN /\ fader \in Faders
      /\ stage["CHANNEL_SELECT"] # "done"
  BY BoardStart
<1>2. AskInv'
  BY <1>1 DEF MenuInv, AskInv, Asking
<1>3. BoardInv'
  <2>1. stage'["BOARD"] = t /\ stage'["CHANNEL_SELECT"] = stage["CHANNEL_SELECT"]
    BY <1>1
  <2> QED
    BY <1>1, <2>1 DEF MenuInv, BoardInv
<1>4. "BOARD" \notin Lasting
  BY DEF Lasting
<1>5. stage'["BOARD"] = t
  BY <1>1
<1> QED
  BY <1>1, <1>2, <1>3, <1>4, <1>5, CallKeeps DEF Faders

\* A Board that is alone, and no longer opening.
LEMMA BoardIsAlone ==
    ASSUME MenuInv, BoardAlone, "BOARD" \in Live, phase = "calc", it = 2,
           stage["BOARD"] \in {"childDst", "scroll"}, ~board.exit \/ stage["BOARD"] = "scroll"
    PROVE  AtBoard \/ (AtEnd /\ stage["BOARD"] = "scroll")
<1> USE ShapeLive, CommandNew, Names DEF At, Live, BoardAlone
<1>1. AtBoard \/ AtBoardAndNext \/ AtChannels \/ AtCalendar \/ AtEnd
  BY BoardScenes DEF MenuInv
<1>2. CASE AtBoardAndNext
  <2>1. reserved = NONE /\ mCommands # <<>>
    BY <1>2 DEF AtBoardAndNext
  <2> QED
    BY <1>2, <2>1 DEF AtBoardAndNext
<1>4. CASE AtChannels \/ AtCalendar
  BY <1>4 DEF AtChannels, AtCalendar
<1>3. CASE AtEnd
  BY <1>3 DEF AtEnd, Ending, MenuInv, BoardInv
<1> QED
  BY <1>1, <1>2, <1>3, <1>4

\* The calls of the Board that ask for nothing new.
LEMMA BoardTurns ==
    ASSUME MenuInv,
           \/ BoardTakesOver \/ BoardRecount \/ BoardNewDay \/ BoardScrolls
           \/ BoardScrollEnds \/ BoardChildCame \/ BoardSDStopped \/ BoardLeaves
    PROVE  MenuInv'
<1> USE Names DEF Open, At
<1>1. ASSUME UNCHANGED <<order, mCommands>> PROVE Ending' <=> Ending
  BY <1>1 DEF Ending
<1>2. board \in [count : BOOLEAN, read : BOOLEAN, exit : BOOLEAN]
  BY DEF MenuInv, BoardInv
<1>3. /\ {"childDst", "normal", "scroll", "done", "childCst", "toSettings"} \subseteq Stage
      /\ \A x \in {"childDst", "normal", "scroll", "done", "childCst"} :
            x \in Stage \ {"cdbInit", "init", "gone", "waitTask", "toSettings"}
  BY DEF Stage
<1>4. CASE BoardTakesOver
  <2>1. /\ Goes("BOARD", "childDst", "normal") /\ Keep /\ BoardAlone /\ ~board.exit
    BY <1>4 DEF BoardTakesOver
  <2>2. /\ "BOARD" \in Live /\ SameReserve /\ stage["BOARD"] = "childDst" /\ it = 2
        /\ phase = "calc"
        /\ stage' = [stage EXCEPT !["BOARD"] = "normal"] /\ stage \in [SceneId -> Stage]
    BY <2>1, BoardStart
  <2>3. AtBoard
    BY <2>1, <2>2, BoardIsAlone
  <2>4. MapInv'
    BY <2>1, <2>2, <2>3 DEF MapInv, AtBoard, SameReserve, Keep
  <2>5. Ending' <=> Ending
    BY <1>1, <2>1, <2>2 DEF Keep, SameReserve
  <2> QED
    BY <1>2, <1>3, <2>1, <2>4, <2>5, BoardMoves DEF Keep
<1>5. CASE BoardRecount
  <2>1. /\ Goes("BOARD", "childDst", "childDst")
        /\ board' = [board EXCEPT !.count = TRUE]
        /\ task1q' = Append(task1q, JobOf("count"))
        /\ UNCHANGED <<destroyReq, command, fader, mCommands, mbDestroySyncTask>>
    BY <1>5 DEF BoardRecount
  <2>2. /\ SameReserve /\ stage["BOARD"] = "childDst" /\ OnInFrame /\ it' \in Nat /\ it = 2
        /\ stage' = [stage EXCEPT !["BOARD"] = "childDst"] /\ stage \in [SceneId -> Stage]
    BY <2>1, BoardStart
  <2>3. MapInv'
    <3>1. \A x \in SceneId : stage'[x] = stage[x]
      BY <2>2
    <3> QED
      BY <2>1, <2>2, <3>1, SamePlace DEF SameSituation, SameReserve, MenuInv
  <2>4. Ending' <=> Ending
    BY <1>1, <2>1, <2>2 DEF SameReserve
  <2> QED
    BY <1>2, <1>3, <2>1, <2>3, <2>4, BoardMoves
<1>6. CASE BoardNewDay
  <2>1. /\ Goes("BOARD", "childDst", "scroll") /\ "CHANNEL_SELECT" \in Live
        /\ board' = [board EXCEPT !.read = TRUE, !.count = TRUE]
        /\ task1q' = task1q \o <<JobOf("count"), JobOf("read")>>
        /\ UNCHANGED <<destroyReq, command, fader, mCommands, mbDestroySyncTask>>
    BY <1>6 DEF BoardNewDay, Reads
  <2>2. /\ SameReserve /\ stage["BOARD"] = "childDst"
        /\ stage' = [stage EXCEPT !["BOARD"] = "scroll"] /\ stage \in [SceneId -> Stage]
    BY <2>1, BoardStart
  <2>3. AtChannels
    BY <2>1, <2>2, BoardScenes DEF MenuInv
  <2>4. MapInv'
    BY <2>1, <2>2, <2>3 DEF MapInv, AtChannels, SameReserve
  <2>5. Ending' <=> Ending
    BY <1>1, <2>1, <2>2 DEF SameReserve
  <2> QED
    BY <1>2, <1>3, <2>1, <2>4, <2>5, BoardMoves
<1>7. CASE BoardScrolls
  <2>1. /\ Goes("BOARD", "normal", "scroll")
        /\ board' = [board EXCEPT !.read = TRUE]
        /\ task1q' = Append(task1q, JobOf("read"))
        /\ UNCHANGED <<destroyReq, command, fader, mCommands, mbDestroySyncTask>>
    BY <1>7 DEF BoardScrolls, Reads
  <2>2. /\ SameReserve /\ stage["BOARD"] = "normal" /\ "BOARD" \in Live
        /\ stage' = [stage EXCEPT !["BOARD"] = "scroll"] /\ stage \in [SceneId -> Stage]
    BY <2>1, BoardStart
  <2>3. Open(BoardOpen) \/ AtEnd
    BY <2>1, <2>2, BoardScenes DEF MenuInv
  <2>4. MapInv'
    <3>1. stage'["BOARD"] = "scroll"
      BY <2>2
    <3>2. CASE Open(BoardOpen)
      BY <2>1, <2>2, <3>1, <3>2 DEF MapInv, AtBoard, SameReserve
    <3>3. CASE AtEnd
      BY <2>1, <2>2, <3>1, <3>3 DEF MapInv, AtEnd, SameReserve
    <3> QED
      BY <2>3, <3>2, <3>3
  <2>5. Ending' <=> Ending
    BY <1>1, <2>1, <2>2 DEF SameReserve
  <2> QED
    BY <1>2, <1>3, <2>1, <2>4, <2>5, BoardMoves
<1>8. CASE BoardScrollEnds
  <2> DEFINE t == IF BoardAlone THEN "normal" ELSE "childDst"
  <2>1. Goes("BOARD", "scroll", t) /\ Keep
    BY <1>8 DEF BoardScrollEnds
  <2> HIDE DEF t
  <2>2. /\ SameReserve /\ stage["BOARD"] = "scroll" /\ "BOARD" \in Live /\ it = 2
        /\ phase = "calc"
        /\ stage' = [stage EXCEPT !["BOARD"] = t] /\ stage \in [SceneId -> Stage]
    BY <2>1, BoardStart
  <2>3. stage'["BOARD"] = t
    BY <2>2
  <2>4. MapInv'
    <3>1. AtBoard \/ AtBoardAndNext \/ AtChannels \/ AtCalendar \/ AtEnd
      BY <2>2, BoardScenes DEF MenuInv
    <3>2. CASE BoardAlone
      <4>1. AtBoard \/ AtEnd
        BY <2>2, <3>2, BoardIsAlone
      <4>2. t = "normal"
        BY <3>2 DEF t
      <4>3. CASE AtBoard
        BY <2>1, <2>2, <2>3, <4>2, <4>3 DEF MapInv, AtBoard, SameReserve, Keep
      <4>4. CASE AtEnd
        <5>1. UNCHANGED <<order, mReservedCommand, reserved, mCommands, fader>>
          BY <2>1, <2>2 DEF SameReserve, Keep
        <5>2. AtEnd'
          BY <2>3, <4>2, <4>4, <5>1 DEF AtEnd
        <5> QED
          BY <5>2 DEF MapInv
      <4> QED
        BY <4>1, <4>3, <4>4
    <3>3. CASE ~BoardAlone
      <4>1. t = "childDst"
        BY <3>3 DEF t
      <4>2. UNCHANGED <<order, mReservedCommand, reserved, mCommands>>
        BY <2>1, <2>2 DEF SameReserve, Keep
      <4>3. CASE AtBoard
        BY <2>3, <4>1, <4>2, <4>3 DEF MapInv, AtBoard
      <4>4. CASE AtBoardAndNext
        BY <2>2, <2>3, <4>1, <4>2, <4>4 DEF MapInv, AtBoardAndNext
      <4>5. CASE AtChannels \/ AtCalendar
        BY <2>3, <4>1, <4>2, <4>5 DEF MapInv, AtChannels, AtCalendar
      <4>6. CASE AtEnd
        <5>1. UNCHANGED fader
          BY <2>1 DEF Keep
        <5>2. AtEnd'
          BY <2>3, <4>1, <4>2, <4>6, <5>1 DEF AtEnd
        <5> QED
          BY <5>2 DEF MapInv
      <4> QED
        BY <3>1, <4>3, <4>4, <4>5, <4>6
    <3> QED
      BY <3>2, <3>3
  <2>5. Ending' <=> Ending
    BY <1>1, <2>1, <2>2 DEF SameReserve, Keep
  <2>6. t \in {"childDst", "normal"}
    BY DEF t
  <2> QED
    BY <1>2, <1>3, <2>1, <2>4, <2>5, <2>6, BoardMoves DEF Keep
<1>9. CASE BoardChildCame
  <2>1. /\ Goes("BOARD", "childCst", "childDst") /\ Keep
        /\ Live \intersect {"CHANNEL_SELECT", "CALENDAR"} # {}
    BY <1>9 DEF BoardChildCame
  <2>2. /\ SameReserve /\ stage["BOARD"] = "childCst"
        /\ stage' = [stage EXCEPT !["BOARD"] = "childDst"] /\ stage \in [SceneId -> Stage]
    BY <2>1, BoardStart
  <2>3. AtChannels \/ AtCalendar
    BY <2>1, <2>2, BoardScenes DEF MenuInv
  <2>4. MapInv'
    BY <2>1, <2>2, <2>3 DEF MapInv, AtChannels, AtCalendar, SameReserve, Keep
  <2>5. Ending' <=> Ending
    BY <1>1, <2>1, <2>2 DEF SameReserve, Keep
  <2> QED
    BY <1>2, <1>3, <2>1, <2>4, <2>5, BoardMoves DEF Keep
<1>10. CASE BoardSDStopped
  <2>1. Goes("BOARD", "toSettings", "done") /\ Keep
    BY <1>10 DEF BoardSDStopped
  <2>2. /\ SameReserve /\ stage["BOARD"] = "toSettings" /\ "BOARD" \in Live
        /\ stage' = [stage EXCEPT !["BOARD"] = "done"] /\ stage \in [SceneId -> Stage]
    BY <2>1, BoardStart
  <2>3. AtBoard \/ AtChannels
    <3>1. AtBoard \/ AtBoardAndNext \/ AtChannels \/ AtCalendar \/ AtEnd
      BY <2>2, BoardScenes DEF MenuInv
    <3> QED
      BY <2>2, <3>1, ShapeLive DEF AtBoardAndNext, AtCalendar, AtEnd, Live
  <2>4. MapInv'
    BY <2>1, <2>2, <2>3 DEF MapInv, AtBoard, AtChannels, SameReserve, Keep
  <2>5. Ending' <=> Ending
    BY <1>1, <2>1, <2>2 DEF SameReserve, Keep
  <2> QED
    BY <1>2, <1>3, <2>1, <2>4, <2>5, BoardMoves DEF Keep
<1>11. CASE BoardLeaves
  <2>1. /\ Goes("BOARD", "done", "done") /\ RequestDestruction("BOARD")
        /\ UNCHANGED <<command, fader, mCommands, mbDestroySyncTask, task1q, board>>
    BY <1>11 DEF BoardLeaves
  <2>2. /\ SameReserve /\ stage["BOARD"] = "done" /\ OnInFrame /\ it' \in Nat /\ it = 2
        /\ stage' = [stage EXCEPT !["BOARD"] = "done"] /\ stage \in [SceneId -> Stage]
    BY <2>1, BoardStart
  <2>3. MapInv'
    <3>1. \A x \in SceneId : stage'[x] = stage[x]
      BY <2>2
    <3> QED
      BY <2>1, <2>2, <3>1, SamePlace DEF SameSituation, SameReserve, MenuInv
  <2>4. Ending' <=> Ending
    BY <1>1, <2>1, <2>2 DEF SameReserve
  <2> QED
    BY <1>2, <1>3, <2>1, <2>3, <2>4, BoardMoves
<1> QED
  BY <1>4, <1>5, <1>6, <1>7, <1>8, <1>9, <1>10, <1>11

\* The Board asks for a scene that takes its place, or for the end, unless it was
\* told to exit.
LEMMA BoardAsks ==
    ASSUME MenuInv, BoardWants, ~board.exit
    PROVE  MenuInv'
<1>0. BoardToChannels \/ BoardToCalendar \/ BoardToSettings
  BY DEF BoardWants
<1> USE Names DEF Open, At
<1>1. {"scroll", "childCst", "normal", "toSettings"}
          \subseteq Stage \ {"cdbInit", "init", "gone", "waitTask"}
  BY DEF Stage
<1>2. PICK t \in {"scroll", "childCst", "toSettings"} :
          /\ Goes("BOARD", "normal", t)
          /\ BoardToChannels => t \in {"scroll", "childCst"}
          /\ BoardToCalendar => t = "childCst"
          /\ BoardToSettings => t = "toSettings"
  <2>1. ASSUME NEW t, NEW u, Goes("BOARD", "normal", t), Goes("BOARD", "normal", u)
        PROVE  t = u
    <3>1. stage' = [stage EXCEPT !["BOARD"] = t] /\ stage' = [stage EXCEPT !["BOARD"] = u]
      BY <2>1, GoesStage
    <3> QED
      BY <3>1 DEF MenuInv, StageInv
  <2> QED
    BY <1>0, <2>1 DEF BoardToChannels, BoardToCalendar, BoardToSettings
<1>3. /\ SameReserve /\ stage["BOARD"] = "normal" /\ "BOARD" \in Live /\ Live' = Live
      /\ stage' = [stage EXCEPT !["BOARD"] = t] /\ stage \in [SceneId -> Stage]
      /\ phase = "calc" /\ it = 2 /\ (Len(order) > 2 => phase' = "calc" /\ it' = 3)
      /\ mbDestroySyncTask \in BOOLEAN /\ fader \in Faders
      /\ stage'["BOARD"] = t
  BY <1>2, BoardStart
<1>4. Open(BoardOpen) /\ phase' = "calc" /\ it' = 3
  <2>1. Open(BoardOpen)
    <3>1. Open(BoardOpen) \/ AtEnd
      BY <1>3, BoardScenes DEF MenuInv
    <3>2. CASE AtEnd
      BY <1>3, <3>2, ShapeLive DEF AtEnd, Ending, Live, MenuInv, BoardInv
    <3> QED
      BY <3>1, <3>2
  <2>2. Len(order) = 4
    BY <2>1, ShapeItems
  <2> QED
    BY <1>3, <2>1, <2>2
<1>5. /\ ~Ending /\ stage["CHANNEL_SELECT"] = "gone"
      /\ board \in [count : BOOLEAN, read : BOOLEAN, exit : BOOLEAN]
  BY <1>4, ShapeLive, CommandNew DEF Ending, MenuInv, StageInv, Live, BoardInv
<1>6. CASE BoardToChannels
  <2>1. mCommands' = <<ChannelsAgain>>
    BY <1>4, <1>6, PushedShort DEF BoardToChannels, ChannelsAgain
  <2>2. /\ UNCHANGED <<destroyReq, command, fader, mbDestroySyncTask>>
        /\ board' \in [count : BOOLEAN, read : BOOLEAN, exit : BOOLEAN]
        /\ board'.exit = board.exit
    BY <1>5, <1>6 DEF BoardToChannels, Reads
  <2>3. \/ task1q' = Append(task1q, JobOf("count"))
        \/ task1q' = task1q \o <<JobOf("read"), JobOf("count")>>
    BY <1>6 DEF BoardToChannels
  <2>4. t \in {"scroll", "childCst"}
    BY <1>2, <1>6
  <2>5. MapInv'
    BY <1>3, <1>4, <2>1, <2>4 DEF MapInv, AtBoardAndNext, SameReserve
  <2>6. ~Ending'
    BY <2>1, CommandNew DEF Ending
  <2> QED
    BY <1>1, <1>2, <1>5, <2>2, <2>3, <2>4, <2>5, <2>6, BoardMoves
<1>7. CASE BoardToCalendar
  <2>1. mCommands' = <<CalendarAsked>>
    BY <1>4, <1>7, PushedShort DEF BoardToCalendar, CalendarAsked
  <2>2. UNCHANGED <<destroyReq, command, fader, mbDestroySyncTask, board, task1q>>
    BY <1>7 DEF BoardToCalendar
  <2>3. Goes("BOARD", "normal", "childCst")
    BY <1>7 DEF BoardToCalendar
  <2>4. stage'["BOARD"] = "childCst"
    BY <2>3, BoardStart
  <2>5. MapInv'
    BY <1>3, <1>4, <2>1, <2>4 DEF MapInv, AtBoardAndNext, SameReserve
  <2>6. ~Ending'
    BY <2>1, CommandNew DEF Ending
  <2> QED
    BY <1>1, <1>5, <2>2, <2>3, <2>5, <2>6, BoardMoves
<1>8. CASE BoardToSettings
  <2>1. /\ t = "toSettings"
        /\ command' = [command EXCEPT !["BOARD"] = "SETTING"]
        /\ mbDestroySyncTask' = FALSE /\ task1q' = Append(task1q, JobOf("sync"))
        /\ UNCHANGED <<destroyReq, mCommands, board>> /\ fader' \in Faders
    BY <1>2, <1>3, <1>8 DEF BoardToSettings, ReserveAllDestruction, FadedOut, Faders
  <2>2. MapInv'
    BY <1>3, <1>4, <2>1 DEF MapInv, AtBoard, SameReserve
  <2>3. /\ \A x \in Asking \ {"BOARD"} : stage[x] = "gone"
        /\ "CHANNEL_SELECT" \notin Live
    BY <1>4, ShapeLive, CommandNew DEF MenuInv, StageInv, Live, Asking
  <2>4. AskInv'
    BY <1>3, <2>1, <2>3 DEF MenuInv, AskInv, Asking
  <2>5. BoardInv'
    <3>1. command["CHANNEL_SELECT"] = NONE /\ ~board.exit
      BY <1>5 DEF MenuInv, BoardInv
    <3>2. command'["CHANNEL_SELECT"] = NONE /\ command'["BOARD"] = "SETTING"
      BY <2>1, <3>1 DEF MenuInv, AskInv
    <3>3. ~Ending' /\ stage'["CHANNEL_SELECT"] = "gone"
      BY <1>3, <1>5, <2>1 DEF Ending, SameReserve
    <3> QED
      BY <1>3, <1>5, <2>1, <2>3, <3>1, <3>2, <3>3 DEF BoardInv
  <2> QED
    BY <1>1, <1>2, <1>3, <2>1, <2>2, <2>4, <2>5, CallKeeps DEF Faders
<1> QED
  BY <1>0, <1>6, <1>7, <1>8

-----------------------------------------------------------------------------
(* ChannelSelect and the Calendar.                                         *)

\* A scene that no place asks about goes on and the tree is let alone.
LEMMA QuietPlace ==
    ASSUME MenuInv,
           NEW id \in SceneId \ {"ROOT", "BOARD", "SETTING_SELECT", "LIMIT_OVER",
                                 "REBOOT", "SETTING"},
           NEW s, NEW t, Goes(id, s, t), UNCHANGED mCommands,
           fader = "black" => fader' = "black"
    PROVE  MapInv'
<1>1. /\ SameReserve /\ OnInFrame /\ it \in Nat /\ it' \in Nat
      /\ stage' = [stage EXCEPT ![id] = t] /\ stage \in [SceneId -> Stage]
  BY CallStart
<1>2. \A x \in {"BOARD", "SETTING_SELECT", "LIMIT_OVER", "REBOOT", "SETTING"} :
          stage'[x] = stage[x]
  BY <1>1, Names
<1> QED
  BY <1>1, <1>2, SamePlace DEF SameSituation, SameReserve, MenuInv

\* Once ChannelSelect is there the Board has opened, or is about to.
LEMMA ChannelsAt ==
    ASSUME MenuInv, "CHANNEL_SELECT" \in Live
    PROVE  /\ ~Ending
           /\ stage["CHANNEL_SELECT"] # "in" =>
                  AtChannels /\ stage["BOARD"] \notin {"cdbInit", "init"}
           /\ fader = "shown" => stage["BOARD"] \notin {"cdbInit", "init"}
           /\ \A x \in Asking \ {"BOARD", "CHANNEL_SELECT"} : AtChannels => stage[x] = "gone"
<1>1. ~Ending
  BY ShapeLive DEF Ending, Live
<1>2. /\ stage["CHANNEL_SELECT"] # "in" =>
             AtChannels /\ stage["BOARD"] \notin {"cdbInit", "init"}
      /\ fader = "shown" => stage["BOARD"] \notin {"cdbInit", "init"}
  <2>1. "CHANNEL_SELECT" \in Live =>
            AtChannels \/ ("BOARD" \in Live /\ stage["BOARD"] = "init")
    BY BoardScenes DEF MenuInv
  <2>2. stage["BOARD"] \in {"cdbInit", "init"} =>
            fader = "black" /\ stage["CHANNEL_SELECT"] \in {"gone", "in"}
    BY DEF MenuInv, StageInv
  <2>3. stage["CHANNEL_SELECT"] # "gone"
    BY Names DEF MenuInv, StageInv
  <2> QED
    BY <2>1, <2>2, <2>3
<1>3. \A x \in Asking \ {"BOARD", "CHANNEL_SELECT"} : AtChannels => stage[x] = "gone"
  BY ShapeLive, CommandNew, Names DEF MenuInv, StageInv, AtChannels, At, Live, Asking
<1> QED
  BY <1>1, <1>2, <1>3

\* What a call of ChannelSelect has found and leaves.
LEMMA ChannelsStart ==
    ASSUME MenuInv, NEW s, NEW t, Goes("CHANNEL_SELECT", s, t)
    PROVE  /\ "CHANNEL_SELECT" \in Live /\ SameReserve /\ stage["CHANNEL_SELECT"] = s
           /\ Live' = Live
           /\ stage' = [stage EXCEPT !["CHANNEL_SELECT"] = t]
           /\ stage \in [SceneId -> Stage]
           /\ mbDestroySyncTask \in BOOLEAN /\ fader \in Faders
           /\ \A x \in SceneId \ {"CHANNEL_SELECT"} : stage'[x] = stage[x]
           /\ stage'["CHANNEL_SELECT"] = t
<1>1. /\ "CHANNEL_SELECT" \in Live /\ SameReserve /\ stage["CHANNEL_SELECT"] = s
      /\ Live' = Live
      /\ stage' = [stage EXCEPT !["CHANNEL_SELECT"] = t] /\ stage \in [SceneId -> Stage]
      /\ mbDestroySyncTask \in BOOLEAN /\ fader \in Faders
  BY CallStart, Names
<1> QED
  BY <1>1, Names

\* The calls of ChannelSelect.
LEMMA ChannelsSteps ==
    ASSUME MenuInv, ChannelsShown \/ ChannelsToSettings \/ ChannelsToBoard \/ ChannelsLeave
    PROVE  MenuInv'
<1> USE Names
<1>1. {"in", "normal", "setting", "board", "done"} \subseteq Stage \ {"gone", "waitTask"}
  BY DEF Stage
<1>2. CASE ChannelsShown \/ ChannelsToBoard
  <2>1. PICK s \in {"in", "normal"}, t \in {"normal", "board"} :
            Goes("CHANNEL_SELECT", s, t) /\ Keep /\ fader = "shown"
    BY <1>2 DEF ChannelsShown, ChannelsToBoard
  <2>2. /\ "CHANNEL_SELECT" \in Live /\ SameReserve /\ stage["CHANNEL_SELECT"] = s
        /\ Live' = Live /\ mbDestroySyncTask \in BOOLEAN
        /\ \A x \in SceneId \ {"CHANNEL_SELECT"} : stage'[x] = stage[x]
        /\ stage'["CHANNEL_SELECT"] = t
    BY <2>1, ChannelsStart
  <2>3. MapInv'
    BY <2>1, QuietPlace DEF Keep
  <2>4. stage["BOARD"] \notin {"cdbInit", "init"} /\ ~Ending
    BY <2>1, <2>2, ChannelsAt
  <2>5. AskInv'
    BY <2>1, <2>2 DEF MenuInv, AskInv, Keep
  <2>6. BoardInv'
    <3>1. ~Ending'
      BY <2>1, <2>2, <2>4 DEF Ending, Keep, SameReserve
    <3> QED
      BY <2>1, <2>2, <2>4, <3>1 DEF MenuInv, BoardInv, Keep
  <2> QED
    BY <1>1, <2>1, <2>2, <2>3, <2>4, <2>5, <2>6, CallKeeps DEF Keep
<1>3. CASE ChannelsToSettings
  <2>1. /\ Goes("CHANNEL_SELECT", "normal", "setting") /\ fader = "shown"
        /\ fader' = "out" /\ board' = [board EXCEPT !.exit = TRUE]
        /\ command' = [command EXCEPT !["CHANNEL_SELECT"] = "SETTING_BG"]
        /\ mbDestroySyncTask' = FALSE /\ task1q' = Append(task1q, JobOf("sync"))
        /\ UNCHANGED <<destroyReq, mCommands>>
    BY <1>3 DEF ChannelsToSettings, ReserveAllDestruction, FadedOut
  <2>2. /\ "CHANNEL_SELECT" \in Live /\ SameReserve /\ stage["CHANNEL_SELECT"] = "normal"
        /\ Live' = Live
        /\ \A x \in SceneId \ {"CHANNEL_SELECT"} : stage'[x] = stage[x]
        /\ stage'["CHANNEL_SELECT"] = "setting"
    BY <2>1, ChannelsStart
  <2>3. MapInv'
    BY <2>1, QuietPlace
  <2>4. stage["BOARD"] \notin {"cdbInit", "init"} /\ ~Ending
    BY <2>1, <2>2, ChannelsAt
  <2>5. AskInv'
    BY <2>1, <2>2 DEF MenuInv, AskInv, Asking
  <2>6. BoardInv'
    <3>1. ~Ending'
      BY <2>1, <2>2, <2>4 DEF Ending, SameReserve
    <3>2. /\ command["BOARD"] = NONE /\ command'["BOARD"] = NONE
          /\ command'["CHANNEL_SELECT"] = "SETTING_BG"
      BY <2>1, <2>2 DEF MenuInv, BoardInv, AskInv
    <3>3. board' \in [count : BOOLEAN, read : BOOLEAN, exit : BOOLEAN] /\ board'.exit
      BY <2>1 DEF MenuInv, BoardInv
    <3> QED
      BY <2>2, <3>1, <3>2, <3>3 DEF MenuInv, BoardInv
  <2> QED
    BY <1>1, <2>1, <2>2, <2>3, <2>4, <2>5, <2>6, CallKeeps
<1>4. CASE ChannelsLeave
  <2>1. PICK s \in {"setting", "board"} : Dies("CHANNEL_SELECT", s)
    BY <1>4 DEF ChannelsLeave
  <2>2. /\ Goes("CHANNEL_SELECT", s, "done") /\ RequestDestruction("CHANNEL_SELECT")
        /\ UNCHANGED <<command, fader, mCommands, mbDestroySyncTask, task1q, board>>
    BY <2>1 DEF Dies
  <2>3. /\ "CHANNEL_SELECT" \in Live /\ SameReserve /\ stage["CHANNEL_SELECT"] = s
        /\ Live' = Live /\ mbDestroySyncTask \in BOOLEAN /\ fader \in Faders
        /\ \A x \in SceneId \ {"CHANNEL_SELECT"} : stage'[x] = stage[x]
        /\ stage'["CHANNEL_SELECT"] = "done"
    BY <2>2, ChannelsStart
  <2>4. MapInv'
    BY <2>2, QuietPlace
  <2>5. stage["BOARD"] \notin {"cdbInit", "init"} /\ ~Ending
    BY <2>1, <2>3, ChannelsAt
  <2>6. AskInv'
    BY <2>2, <2>3 DEF MenuInv, AskInv
  <2>7. BoardInv'
    <3>1. ~Ending'
      BY <2>2, <2>3, <2>5 DEF Ending, SameReserve
    <3> QED
      BY <2>2, <2>3, <2>5, <3>1 DEF MenuInv, BoardInv
  <2>8. "CHANNEL_SELECT" \notin Lasting
    BY DEF Lasting
  <2> QED
    BY <1>1, <2>2, <2>3, <2>4, <2>5, <2>6, <2>7, <2>8, CallKeeps DEF Faders
<1> QED
  BY <1>2, <1>3, <1>4

-----------------------------------------------------------------------------
\* The Calendar, which alone among the scenes changes what its search is for.
LEMMA CalendarAt ==
    ASSUME MenuInv, "CALENDAR" \in Live
    PROVE  /\ AtCalendar /\ ~Ending
           /\ stage["CHANNEL_SELECT"] = "gone"
           /\ \A x \in SceneId : command[x] = NONE
<1>1. AtCalendar
  BY BoardScenes DEF MenuInv
<1>2. ~Ending
  BY ShapeLive DEF Ending, Live
<1>3. \A x \in Asking \ {"BOARD"} : stage[x] = "gone"
  BY <1>1, ShapeLive, CommandNew, Names DEF MenuInv, StageInv, AtCalendar, At, Live, Asking
<1>4. command["BOARD"] = NONE
  BY <1>1 DEF AtCalendar, MenuInv, BoardInv
<1>5. command["HEALTH"] = NONE /\ command["CHANNEL_SELECT"] = NONE
      /\ command["SETTING_SELECT"] = NONE
  BY <1>3 DEF Asking, MenuInv, AskInv, BoardInv
<1> QED
  BY <1>1, <1>2, <1>3, <1>4, <1>5 DEF MenuInv, AskInv, Asking

\* A call of the Calendar that does not end it; it may make the Board scroll.
LEMMA CalendarKeeps ==
    ASSUME MenuInv, NEW s, NEW new \in [SceneId -> Stage], GoesOn("CALENDAR", s, new),
           \A x \in SceneId \ {"CALENDAR", "BOARD"} : new[x] = stage[x],
           new["CALENDAR"] \notin {"gone", "done"},
           new["BOARD"] \in {stage["BOARD"], "scroll"},
           UNCHANGED <<destroyReq, command, fader, mCommands, mbDestroySyncTask>>,
           board' \in [count : BOOLEAN, read : BOOLEAN, exit : BOOLEAN],
           board'.exit = board.exit,
           calendar' \in [searching : BOOLEAN, canceled : BOOLEAN,
                          then : {NONE, "scroll", "leaving"}, month : Month,
                          mark : Month \union {NONE}, whole : BOOLEAN],
           new["CALENDAR"] = "waitTask" => calendar'.then # NONE,
           task1q' \in Seq(Job)
    PROVE  MenuInv'
<1> USE Names
<1>1. /\ "CALENDAR" \in Live /\ phase = "calc" /\ "CALENDAR" \notin destroyReq
      /\ SameReserve /\ Live' = Live /\ UNCHANGED <<parent, mbCreatedReserved>>
      /\ TreeInv' /\ TurnInv' /\ phase' \in {"calc", "command"}
  BY CallFacts
<1>2. stage' = new /\ UNCHANGED <<job, task, look, mode>>
  BY DEF GoesOn
<1>3. /\ AtCalendar /\ ~Ending /\ stage["CHANNEL_SELECT"] = "gone"
      /\ \A x \in SceneId : command[x] = NONE
  BY <1>1, CalendarAt
<1>4. MapInv'
  BY <1>1, <1>2, <1>3 DEF MapInv, AtCalendar, At, SameReserve
<1>5. /\ stage["BOARD"] \in {"childCst", "childDst", "scroll"}
      /\ new["BOARD"] \in {"childCst", "childDst", "scroll"} /\ "BOARD" \in Live
      /\ reserved = NONE
  BY <1>3, ShapeLive, CommandNew DEF AtCalendar, At, Live
<1>6. StageInv'
  <2>1. \A x \in SceneId : new[x] = "gone" <=> stage[x] = "gone"
    BY <1>1, <1>5 DEF MenuInv, StageInv
  <2> QED
    BY <1>1, <1>2, <1>5, <2>1 DEF MenuInv, StageInv, SameReserve
<1>7. DoomInv'
  <2>1. "BOARD" \notin destroyReq
    BY <1>5 DEF MenuInv, DoomInv
  <2> QED
    BY <1>1, <1>2, <1>3, <1>5, <2>1, TreeFacts DEF MenuInv, DoomInv
<1>8. AskInv'
  BY <1>2, <1>3 DEF MenuInv, AskInv, Asking
<1>9. BoardInv'
  <2>1. ~Ending'
    BY <1>1, <1>3 DEF Ending, SameReserve
  <2> QED
    BY <1>2, <1>3, <1>5, <2>1 DEF MenuInv, BoardInv
<1>10. CreatedInv'
  BY <1>1, CreatedKept
<1>11. WorkInv'
  BY <1>1, <1>2 DEF MenuInv, WorkInv
<1> QED
  BY <1>1, <1>4, <1>6, <1>7, <1>8, <1>9, <1>10, <1>11 DEF MenuInv

\* The same, where only the stage of the Calendar changes.
LEMMA CalendarMoves ==
    ASSUME MenuInv, NEW s, NEW t \in Stage \ {"gone", "done"}, CalendarGoes(s, t),
           calendar' \in [searching : BOOLEAN, canceled : BOOLEAN,
                          then : {NONE, "scroll", "leaving"}, month : Month,
                          mark : Month \union {NONE}, whole : BOOLEAN],
           t = "waitTask" => calendar'.then # NONE,
           task1q' \in Seq(Job)
    PROVE  MenuInv'
<1> DEFINE new == [stage EXCEPT !["CALENDAR"] = t]
<1>1. /\ GoesOn("CALENDAR", s, new)
      /\ UNCHANGED <<destroyReq, command, fader, mCommands, mbDestroySyncTask, board>>
  BY DEF CalendarGoes
<1>2. /\ new \in [SceneId -> Stage] /\ new["CALENDAR"] = t
      /\ \A x \in SceneId \ {"CALENDAR"} : new[x] = stage[x]
  BY Names DEF MenuInv, StageInv
<1>3. board \in [count : BOOLEAN, read : BOOLEAN, exit : BOOLEAN]
  BY DEF MenuInv, BoardInv
<1> HIDE DEF new
<1> QED
  BY <1>1, <1>2, <1>3, CalendarKeeps, Names

CalendarType == [searching : BOOLEAN, canceled : BOOLEAN,
                 then : {NONE, "scroll", "leaving"}, month : Month,
                 mark : Month \union {NONE}, whole : BOOLEAN]

\* The calls of the Calendar.
LEMMA CalendarSteps ==
    ASSUME MenuInv,
           \/ CalendarShown \/ CalendarScrolls \/ CalendarExits \/ CalendarPicks
           \/ CalendarWaited \/ CalendarScrolled \/ CalendarLeaves
    PROVE  MenuInv'
<1> USE Names DEF CalendarType
<1>1. {"normal", "scroll", "waitTask", "leaving", "waitExit", "done"} \subseteq Stage
  BY DEF Stage
<1>2. /\ calendar \in CalendarType /\ task1q \in Seq(Job)
      /\ stage["CALENDAR"] = "waitTask" => calendar.then # NONE
  BY DEF MenuInv, WorkInv
<1>3. ASSUME NEW then \in {"scroll", "leaving"}, CancelSearch(then)
      PROVE  calendar' \in CalendarType /\ calendar'.then # NONE /\ task1q' \in Seq(Job)
  BY <1>2, <1>3 DEF CancelSearch, NONE
<1>4. CASE CalendarShown
  <2>1. GoesOn("CALENDAR", "in", [stage EXCEPT !["CALENDAR"] = "normal"])
        /\ UNCHANGED calendar /\ Keep
    BY <1>4 DEF CalendarShown, Goes
  <2> QED
    BY <1>1, <1>2, <2>1, CalendarMoves DEF CalendarGoes, Keep
<1>5. CASE CalendarScrolls \/ CalendarExits
  <2>1. PICK s \in {"normal", "waitExit"}, t \in {"scroll", "leaving"} :
            \/ CalendarGoes(s, t) /\ UNCHANGED <<calendar, task1q>>
            \/ CalendarGoes(s, "waitTask") /\ CancelSearch(t)
    BY <1>5 DEF CalendarScrolls, CalendarExits
  <2>2. CASE CalendarGoes(s, t) /\ UNCHANGED <<calendar, task1q>>
    BY <1>1, <1>2, <2>2, CalendarMoves
  <2>3. CASE CalendarGoes(s, "waitTask") /\ CancelSearch(t)
    BY <1>1, <1>3, <2>3, CalendarMoves
  <2> QED
    BY <2>1, <2>2, <2>3
<1>6. CASE CalendarPicks
  <2>1. CASE CalendarGoes("normal", "waitExit") /\ UNCHANGED <<calendar, task1q>>
    BY <1>1, <1>2, <2>1, CalendarMoves
  <2>2. CASE ~(CalendarGoes("normal", "waitExit") /\ UNCHANGED <<calendar, task1q>>)
    <3> DEFINE new == [stage EXCEPT !["CALENDAR"] = "waitExit", !["BOARD"] = "scroll"]
    <3>1. /\ GoesOn("CALENDAR", "normal", new)
          /\ board' = [board EXCEPT !.read = TRUE]
          /\ task1q' = Append(task1q, JobOf("read"))
          /\ UNCHANGED <<destroyReq, command, fader, mCommands, mbDestroySyncTask, calendar>>
      BY <1>6, <2>2 DEF CalendarPicks, Reads
    <3>2. /\ new \in [SceneId -> Stage] /\ new["CALENDAR"] = "waitExit"
          /\ new["BOARD"] = "scroll"
          /\ \A x \in SceneId \ {"CALENDAR", "BOARD"} : new[x] = stage[x]
      BY <1>1 DEF MenuInv, StageInv
    <3>3. /\ board' \in [count : BOOLEAN, read : BOOLEAN, exit : BOOLEAN]
          /\ board'.exit = board.exit
      BY <3>1 DEF MenuInv, BoardInv
    <3>4. task1q' \in Seq(Job)
      BY <1>2, <3>1, JobTypes, AppendProperties
    <3> HIDE DEF new
    <3> QED
      BY <1>2, <3>1, <3>2, <3>3, <3>4, CalendarKeeps
  <2> QED
    BY <2>1, <2>2
<1>7. CASE CalendarWaited
  <2>1. /\ CalendarGoes("waitTask", calendar.then) /\ UNCHANGED task1q
        /\ calendar' = [calendar EXCEPT !.then = NONE]
    BY <1>7 DEF CalendarWaited
  <2>2. calendar.then \in {"scroll", "leaving"}
    BY <1>2, <2>1 DEF CalendarGoes, GoesOn
  <2> QED
    BY <1>1, <1>2, <2>1, <2>2, CalendarMoves
<1>8. CASE CalendarScrolled
  <2>1. PICK month \in Month :
            ExecSearchTask([calendar EXCEPT !.month = month, !.mark = NONE])
    BY <1>8 DEF CalendarScrolled
  <2>2. calendar' \in CalendarType
    BY <1>2, <2>1 DEF ExecSearchTask
  <2>3. task1q' \in Seq(Job)
    <3>1. <<JobOf("search")>> \in Seq(Job)
      BY JobTypes
    <3> QED
      BY <1>2, <2>1, <3>1, ConcatProperties DEF ExecSearchTask
  <2> QED
    BY <1>1, <1>8, <2>2, <2>3, CalendarMoves DEF CalendarScrolled
<1>9. CASE CalendarLeaves
  <2>1. /\ Goes("CALENDAR", "leaving", "done") /\ RequestDestruction("CALENDAR")
        /\ UNCHANGED <<command, fader, mCommands, mbDestroySyncTask, task1q, board>>
    BY <1>9 DEF CalendarLeaves, Dies
  <2>2. /\ "CALENDAR" \in Live /\ SameReserve /\ Live' = Live
        /\ stage' = [stage EXCEPT !["CALENDAR"] = "done"] /\ stage \in [SceneId -> Stage]
        /\ mbDestroySyncTask \in BOOLEAN /\ fader \in Faders
    BY <2>1, CallStart
  <2>3. /\ AtCalendar /\ ~Ending /\ stage["CHANNEL_SELECT"] = "gone"
        /\ \A x \in SceneId : command[x] = NONE
    BY <2>2, CalendarAt
  <2>4. MapInv'
    BY <2>1, QuietPlace
  <2>5. \A x \in SceneId \ {"CALENDAR"} : stage'[x] = stage[x]
    BY <2>2
  <2>6. AskInv'
    BY <2>1, <2>5 DEF MenuInv, AskInv, Asking
  <2>7. BoardInv'
    <3>1. ~Ending'
      BY <2>1, <2>2, <2>3 DEF Ending, SameReserve
    <3> QED
      BY <2>1, <2>3, <2>5, <3>1 DEF MenuInv, BoardInv
  <2>8. stage'["BOARD"] \notin {"cdbInit", "init"} /\ "CALENDAR" \notin Lasting
    BY <2>3, <2>5 DEF AtCalendar, Lasting
  <2> QED
    BY <1>1, <2>1, <2>2, <2>4, <2>6, <2>7, <2>8, CallKeeps DEF Faders
<1> QED
  BY <1>4, <1>5, <1>6, <1>7, <1>8, <1>9

-----------------------------------------------------------------------------
(* The settings menu; and all calls.                                       *)

\* A scene that asks for nothing but its end goes on.
LEMMA QuietKeeps ==
    ASSUME MenuInv,
           NEW id \in SceneId \ ({"ROOT", "LIMIT_OVER", "REBOOT", "SETTING"} \union Asking),
           NEW s, NEW t \in Stage \ {"gone", "waitTask"}, Goes(id, s, t),
           \/ UNCHANGED destroyReq /\ t # "done"
           \/ t = "done" /\ id \notin Lasting /\ RequestDestruction(id),
           UNCHANGED <<command, fader, mCommands, mbDestroySyncTask, task1q, board>>
    PROVE  MenuInv'
<1> USE Names DEF Asking
<1>1. /\ SameReserve /\ stage' = [stage EXCEPT ![id] = t] /\ stage \in [SceneId -> Stage]
      /\ mbDestroySyncTask \in BOOLEAN /\ fader \in Faders
  BY CallStart
<1>2. \A x \in SceneId \ {id} : stage'[x] = stage[x]
  BY <1>1
<1>3. MapInv'
  BY QuietPlace
<1>4. AskInv'
  BY <1>1, <1>2 DEF MenuInv, AskInv
<1>5. BoardInv'
  <2>1. Ending' <=> Ending
    BY <1>1 DEF Ending, SameReserve
  <2>2. "CHANNEL_SELECT" \in Live' <=> "CHANNEL_SELECT" \in Live
    BY <1>1 DEF SameReserve, Live
  <2> QED
    BY <1>1, <1>2, <2>1, <2>2 DEF MenuInv, BoardInv
<1>6. stage'["BOARD"] \in {"cdbInit", "init"} =>
          fader' = "black" /\ stage'["CHANNEL_SELECT"] \in {"gone", "in"}
  BY <1>2 DEF MenuInv, StageInv
<1> QED
  BY <1>1, <1>3, <1>4, <1>5, <1>6, CallKeeps DEF Faders

\* A call of SettingSelect where no screen is open or on its way.
LEMMA SelectMoves ==
    ASSUME MenuInv, NEW s, NEW t \in Stage \ {"gone", "waitTask"},
           Goes("SETTING_SELECT", s, t), Open(Settings), MapInv', ~Ending',
           \/ UNCHANGED destroyReq /\ t # "done"
           \/ t = "done" /\ RequestDestruction("SETTING_SELECT"),
           UNCHANGED board, fader' \in Faders, mbDestroySyncTask' \in BOOLEAN,
           UNCHANGED task1q \/ task1q' = Append(task1q, JobOf("sync")),
           \/ UNCHANGED command
           \/ \E root \in Roots : command' = [command EXCEPT !["SETTING_SELECT"] = root],
           command'["SETTING_SELECT"] # NONE <=> t \in {"out1", "blackout", "done"},
           t = "done" /\ command'["SETTING_SELECT"] = "BOARD" => fader' = "black"
    PROVE  MenuInv'
<1> USE Names
<1>1. /\ "SETTING_SELECT" \in Live /\ Live' = Live /\ SameReserve
      /\ stage' = [stage EXCEPT !["SETTING_SELECT"] = t] /\ stage \in [SceneId -> Stage]
  BY CallStart
<1>2. /\ \A x \in SceneId \ {"SETTING_SELECT"} : stage'[x] = stage[x]
      /\ stage'["SETTING_SELECT"] = t
  BY <1>1
<1>3. \A x \in Asking \ {"SETTING_SELECT"} : stage[x] = "gone"
  BY ShapeLive, CommandNew DEF MenuInv, StageInv, Open, At, Live, Asking
<1>4. /\ \A x \in SceneId \ {"SETTING_SELECT"} : command'[x] = command[x]
      /\ command' \in [SceneId -> Roots \union {NONE}]
  BY DEF MenuInv, AskInv
<1>5. ~Ending
  BY NotOpen DEF Ending, Open, At
<1>6. AskInv'
  <2>1. \A x \in SceneId \ Asking : command'[x] = NONE
    BY <1>4 DEF MenuInv, AskInv, Asking
  <2>2. command["HEALTH"] = NONE
    BY <1>3 DEF MenuInv, AskInv, Asking
  <2>3. command'["HEALTH"] = NONE /\ stage'["HEALTH"] = "gone"
    BY <1>2, <1>3, <1>4, <2>2 DEF Asking
  <2> QED
    BY <1>2, <1>4, <2>1, <2>3 DEF AskInv
<1>7. BoardInv'
  <2>1. command["BOARD"] = NONE /\ command["CHANNEL_SELECT"] = NONE /\ ~board.exit
    BY <1>3, <1>5 DEF MenuInv, BoardInv, Asking
  <2>2. /\ command'["BOARD"] = NONE /\ command'["CHANNEL_SELECT"] = NONE
        /\ stage'["BOARD"] = "gone" /\ stage'["CHANNEL_SELECT"] = "gone"
    BY <1>2, <1>3, <1>4, <2>1 DEF Asking
  <2>3. board' \in [count : BOOLEAN, read : BOOLEAN, exit : BOOLEAN] /\ ~board'.exit
    BY <2>1 DEF MenuInv, BoardInv
  <2> QED
    BY <2>2, <2>3 DEF BoardInv
<1>8. stage'["BOARD"] = "gone" /\ "SETTING_SELECT" \notin Lasting
  BY <1>2, <1>3 DEF Asking, Lasting
<1> QED
  BY <1>1, <1>6, <1>7, <1>8, CallKeeps DEF Faders

\* Where it is when it has no screen open, and what that says of the next place.
LEMMA SelectAt ==
    ASSUME MenuInv, NEW s, NEW t, Goes("SETTING_SELECT", s, t),
           \/ s \notin {"wait2", "wait3"}
           \/ ~HasChild("SETTING_SELECT") /\ reserved = NONE
    PROVE  /\ Open(Settings) /\ phase' = "command"
           /\ UNCHANGED mCommands => MapInv' /\ ~Ending'
           /\ s \in {"out1", "blackout", "done"} <=> command["SETTING_SELECT"] # NONE
           /\ command \in [SceneId -> Roots \union {NONE}]
           /\ fader \in Faders /\ mbDestroySyncTask \in BOOLEAN
           /\ stage'["SETTING_SELECT"] = t
<1> USE Names
<1>1. /\ "SETTING_SELECT" \in Live /\ Live' = Live /\ SameReserve /\ phase = "calc"
      /\ order[it] = "SETTING_SELECT" /\ it \in Nat /\ it \in DOMAIN order
      /\ stage["SETTING_SELECT"] = s
      /\ stage' = [stage EXCEPT !["SETTING_SELECT"] = t] /\ stage \in [SceneId -> Stage]
      /\ mbDestroySyncTask \in BOOLEAN /\ fader \in Faders
  BY CallStart
<1>2. Open(Settings)
  BY <1>1, SettingScenes DEF MenuInv
<1>3. phase' = "command"
  <2>1. IsTree(order) /\ Len(order) = 4 /\ order[4] = "SETTING_SELECT"
    BY <1>2, ShapeItems, ShapeTrees DEF Open, At
  <2>2. it = 4
    BY <1>1, <2>1 DEF IsTree, IsInjective
  <2> QED
    BY <2>1, <2>2 DEF Goes, GoesOn, Advance
<1>4. UNCHANGED mCommands => MapInv' /\ ~Ending'
  <2> SUFFICES ASSUME UNCHANGED mCommands PROVE MapInv' /\ ~Ending'
    OBVIOUS
  <2>1. Open(Settings)'
    BY <1>1, <1>2 DEF Open, At, SameReserve
  <2> QED
    BY <2>1, NotOpen DEF Open, At, Ending, MapInv, AtSettings
<1> QED
  BY <1>1, <1>2, <1>3, <1>4 DEF MenuInv, AskInv

\* The calls of SettingButton, SettingSelect and the two screens.
LEMMA SettingSteps ==
    ASSUME MenuInv,
           \/ SettingButtonShown \/ SelectStarts \/ SelectTurns \/ SelectSetting
           \/ SelectFadesOut \/ SelectBack \/ SelectLeaves
           \/ SelectOpens("page2", "wait2", "CHANNEL_EDIT")
           \/ SelectOpens("page3", "wait3", "MEMORY")
           \/ SelectChildGone \/ ScreenLeaves
    PROVE  MenuInv'
<1> USE Names
<1>1. {"normal", "page1", "page2", "page3", "out1", "blackout", "done", "wait2", "wait3"}
          \subseteq Stage \ {"gone", "waitTask"}
  BY DEF Stage
<1>2. CASE SettingButtonShown
  <2>1. Goes("SETTING_BUTTON", "in", "normal") /\ Keep
    BY <1>2 DEF SettingButtonShown
  <2> QED
    BY <1>1, <2>1, QuietKeeps DEF Keep, Asking
<1>3. CASE ScreenLeaves
  <2>1. PICK id \in {"CHANNEL_EDIT", "MEMORY"} : Dies(id, "in")
    BY <1>3 DEF ScreenLeaves
  <2>2. id \notin Lasting /\ id \notin Asking
    BY DEF Lasting, Asking
  <2> QED
    BY <1>1, <2>1, <2>2, QuietKeeps DEF Dies
<1>4. CASE SelectStarts \/ SelectTurns \/ SelectChildGone
  <2>1. PICK s, t :
            /\ Goes("SETTING_SELECT", s, t) /\ Keep
            /\ t \in {"page1", "page2", "page3"}
            /\ s \notin {"out1", "blackout", "done"}
            /\ \/ s \notin {"wait2", "wait3"}
               \/ ~HasChild("SETTING_SELECT") /\ reserved = NONE
    BY <1>4 DEF SelectStarts, SelectTurns, SelectChildGone
  <2>2. /\ Open(Settings) /\ MapInv' /\ ~Ending' /\ command["SETTING_SELECT"] = NONE
        /\ fader \in Faders /\ mbDestroySyncTask \in BOOLEAN
    BY <2>1, SelectAt DEF Keep
  <2> QED
    BY <1>1, <2>1, <2>2, SelectMoves DEF Keep
<1>5. CASE SelectSetting \/ SelectBack
  <2>1. PICK t \in {"out1", "blackout"}, root \in Roots :
            /\ Goes("SETTING_SELECT", "page1", t)
            /\ ReserveAllDestruction("SETTING_SELECT", root)
            /\ UNCHANGED <<destroyReq, mCommands, board>>
            /\ fader' \in {fader, FadedOut(fader)}
    BY <1>5 DEF SelectSetting, SelectBack
  <2>2. /\ Open(Settings) /\ MapInv' /\ ~Ending' /\ fader \in Faders
        /\ command \in [SceneId -> Roots \union {NONE}]
    BY <2>1, SelectAt
  <2>3. /\ command' = [command EXCEPT !["SETTING_SELECT"] = root]
        /\ mbDestroySyncTask' = FALSE /\ task1q' = Append(task1q, JobOf("sync"))
        /\ fader' \in Faders
    BY <2>1, <2>2 DEF ReserveAllDestruction, FadedOut, Faders
  <2>4. command'["SETTING_SELECT"] # NONE
    BY <2>2, <2>3 DEF NONE
  <2> QED
    BY <1>1, <2>1, <2>2, <2>3, <2>4, SelectMoves
<1>6. CASE SelectFadesOut
  <2>1. /\ Goes("SETTING_SELECT", "out1", "blackout") /\ fader' = FadedOut(fader)
        /\ UNCHANGED <<destroyReq, command, mCommands, mbDestroySyncTask, task1q, board>>
    BY <1>6 DEF SelectFadesOut
  <2>2. /\ Open(Settings) /\ MapInv' /\ ~Ending' /\ command["SETTING_SELECT"] # NONE
        /\ fader \in Faders /\ mbDestroySyncTask \in BOOLEAN
    BY <2>1, SelectAt
  <2>3. fader' \in Faders
    BY <2>1, <2>2 DEF FadedOut, Faders
  <2> QED
    BY <1>1, <2>1, <2>2, <2>3, SelectMoves
<1>7. CASE SelectLeaves
  <2>1. /\ Goes("SETTING_SELECT", "blackout", "done") /\ fader = "black"
        /\ RequestDestruction("SETTING_SELECT")
        /\ UNCHANGED <<command, fader, mCommands, mbDestroySyncTask, task1q, board>>
    BY <1>7 DEF SelectLeaves, Dies
  <2>2. /\ Open(Settings) /\ MapInv' /\ ~Ending' /\ command["SETTING_SELECT"] # NONE
        /\ fader \in Faders /\ mbDestroySyncTask \in BOOLEAN
    BY <2>1, SelectAt
  <2> QED
    BY <1>1, <2>1, <2>2, SelectMoves
<1>8. ASSUME NEW page \in {"page2", "page3"}, NEW wait \in {"wait2", "wait3"},
             NEW id \in Screens, SelectOpens(page, wait, id)
      PROVE  MenuInv'
  <2>1. /\ Goes("SETTING_SELECT", page, wait)
        /\ mCommands' = Pushed(mCommands, <<CreateChild(id, "SETTING_SELECT", NONE)>>)
        /\ UNCHANGED <<destroyReq, command, fader, mbDestroySyncTask, task1q, board>>
    BY <1>8 DEF SelectOpens
  <2>2. /\ Open(Settings) /\ command["SETTING_SELECT"] = NONE /\ phase' = "command"
        /\ fader \in Faders /\ mbDestroySyncTask \in BOOLEAN
        /\ stage'["SETTING_SELECT"] = wait
    BY <2>1, SelectAt
  <2>3. mCommands' = <<Child(id)>>
    <3>1. Above(id) = "SETTING_SELECT"
      BY AboveIs
    <3> QED
      BY <2>1, <2>2, <3>1, PushedShort DEF Child, Open, At
  <2>4. MapInv'
    <3>1. At(Settings, <<Child(id)>>, NoCommand)'
      BY <2>1, <2>2, <2>3, CallStart DEF Open, At, SameReserve
    <3> QED
      BY <2>2, <3>1 DEF MapInv, AtScreen
  <2>5. ~Ending'
    BY <2>3, CommandNew DEF Ending
  <2> QED
    BY <1>1, <2>1, <2>2, <2>4, <2>5, SelectMoves
<1> QED
  BY <1>2, <1>3, <1>4, <1>5, <1>6, <1>7, <1>8

\* Every call of calc(), but for a Board that does what the user wants although it
\* was told to exit.
LEMMA CallSteps ==
    ASSUME MenuInv, UserStep \/ OwnStep, BoardWants => ~board.exit PROVE MenuInv'
BY SplashSteps, BoardOpens, BoardBegins, BoardTurns, BoardAsks, ChannelsSteps,
   CalendarSteps, SettingSteps
   DEF UserStep, OwnStep, BoardWants

-----------------------------------------------------------------------------
(* The rest of the frame.                                                  *)

BoardType == [count : BOOLEAN, read : BOOLEAN, exit : BOOLEAN]

\* A step that leaves the scenes and the commands as they are.
LEMMA FrameKeeps ==
    ASSUME MenuInv, SameSituation,
           UNCHANGED <<parent, destroyReq, command, stage, mbCreatedReserved>>,
           board' \in BoardType, board'.exit = board.exit,
           \/ UNCHANGED fader
           \/ fader = "in" /\ fader' = "shown"
           \/ fader = "out" /\ fader' = "black",
           phase' = "end" => destroyReq = {},
           phase' = "calc" => destroyReq = {} \/ (phase = "calc" /\ it' >= it),
           MapInv', TurnInv', WorkInv'
    PROVE  MenuInv'
<1> USE DEF SameSituation
<1>1. Live' = Live
  BY DEF Live
<1>2. TreeInv' /\ CreatedInv'
  BY <1>1 DEF MenuInv, TreeInv, CreatedInv
<1>3. StageInv'
  BY <1>1 DEF MenuInv, StageInv, InitStage
<1>4. DoomInv'
  <2>1. stage["CHANNEL_SELECT"] = "done" => "CHANNEL_SELECT" \in destroyReq
    <3>1. reserved = "CHANNEL_SELECT" => stage["CHANNEL_SELECT"] = "in"
      BY Names DEF MenuInv, StageInv, InitStage
    <3>2. stage["CHANNEL_SELECT"] # "gone" => "CHANNEL_SELECT" \in Live \union {reserved}
      BY Names DEF MenuInv, StageInv
    <3> QED
      BY <3>1, <3>2 DEF MenuInv, DoomInv
  <2>2. phase' = "calc" /\ stage'["CHANNEL_SELECT"] = "done" => it' > 2
    <3>1. it \in Nat /\ it' \in Nat
      BY DEF MenuInv, TurnInv
    <3> QED
      BY <2>1, <3>1 DEF MenuInv, DoomInv
  <2> QED
    BY <1>1, <2>2 DEF MenuInv, DoomInv
<1>5. AskInv'
  BY DEF MenuInv, AskInv
<1>6. BoardInv'
  <2>1. Ending' <=> Ending
    BY DEF Ending
  <2>2. fader \in {"out", "black"} => fader' \in {"out", "black"}
    OBVIOUS
  <2> QED
    BY <1>1, <2>1, <2>2 DEF MenuInv, BoardInv, BoardType
<1> QED
  BY <1>2, <1>3, <1>4, <1>5, <1>6 DEF MenuInv

\* The manager has looked for a command and found none to execute.
LEMMA CommandPlace ==
    ASSUME MapInv, SameSituation, UNCHANGED <<stage, fader>>,
           \/ reserved # NONE
           \/ mCommands = <<>>
           \/ Head(mCommands).type = "ALL"
    PROVE  MapInv'
<1> USE CommandNew, Names DEF At, SameSituation
<1>0. ASSUME NEW o, NEW a, At(o, <<a>>, NoCommand) PROVE a.type = "ALL"
  BY <1>0, HeadsAndTails
<1>1. CASE AtStart \/ AtTop
  BY <1>1 DEF AtStart, AtTop, MapInv
<1>2. CASE AtChange
  <2>1. PICK c \in Changes :
          /\ \/ /\ At(Top(c[1]), <<Change(c[1], c[2])>>, NoCommand)
                /\ phase = "command"
                /\ stage[c[1]] = "done"
             \/ At(Top(c[1]), <<>>, Change(c[1], c[2])) /\ stage[c[1]] = "done"
             \/ At(Alone, <<>>, Change(c[1], c[2]))
          /\ c[2] = "BOARD" => fader = "black"
    BY <1>2 DEF AtChange
  <2>2. ~At(Top(c[1]), <<Change(c[1], c[2])>>, NoCommand)
    BY <1>0
  <2> QED
    BY <2>1, <2>2 DEF AtChange, MapInv
<1>3. CASE AtOpening
  BY <1>3 DEF AtOpening, MapInv
<1>4. CASE AtBoard \/ AtChannels \/ AtCalendar
  BY <1>4 DEF AtBoard, AtChannels, AtCalendar, MapInv
<1>5. CASE AtBoardAndNext
  <2>1. /\ ~At(BoardOpen, <<ChannelsAgain>>, NoCommand)
        /\ ~At(BoardOpen, <<CalendarAsked>>, NoCommand)
    BY <1>0
  <2> QED
    BY <1>5, <2>1 DEF AtBoardAndNext, MapInv
<1>6. CASE AtSettings \/ AtNothing
  BY <1>6 DEF AtSettings, AtNothing, MapInv
<1>7. CASE AtScreen
  <2>1. \A x : ~At(Settings, <<Child(x)>>, NoCommand)
    BY <1>0
  <2> QED
    BY <1>7, <2>1 DEF AtScreen, MapInv
<1>8. CASE AtEnd
  BY <1>8 DEF AtEnd, MapInv
<1> QED
  BY <1>1, <1>2, <1>3, <1>4, <1>5, <1>6, <1>7, <1>8 DEF MapInv

\* The iterator goes on.
LEMMA AdvanceFacts ==
    ASSUME MenuInv, phase = "calc", Advance, UNCHANGED order
    PROVE  /\ OnInFrame /\ it \in Nat /\ it' \in Nat /\ (it' > it \/ phase' = "command")
           /\ phase' \in {"calc", "command"} /\ TurnInv'
<1>1. IsTree(order) /\ it \in DOMAIN order /\ it \in Nat
  BY TreeFacts DEF MenuInv, TurnInv
<1>2. CASE it < Len(order)
  BY <1>1, <1>2 DEF Advance, TurnInv, OnInFrame, IsTree
<1>3. CASE ~(it < Len(order))
  BY <1>1, <1>3 DEF Advance, TurnInv, OnInFrame
<1> QED
  BY <1>2, <1>3

\* The steps of the frame that execute nothing, and those of the NAND thread.
LEMMA FrameSteps ==
    ASSUME MenuInv,
           \/ Idle \/ AwaitReserved \/ NothingToExec \/ EndCalc \/ NextFrame \/ FadeDone
           \/ NandStep
           \/ UNCHANGED managerVars,
           UNCHANGED mode
    PROVE  MenuInv'
<1> USE DEF treeVars, sceneVars, reserveVars, mainVars, task1Vars
<1>1. /\ SameSituation
      /\ UNCHANGED <<parent, destroyReq, command, stage, mbCreatedReserved, board,
                     mbDestroySyncTask, task1q, job, task, look, calendar>>
      /\ \/ UNCHANGED fader
         \/ fader = "in" /\ fader' = "shown"
         \/ fader = "out" /\ fader' = "black"
  <2> USE DEF SameSituation
  <2>1. CASE Idle
    BY <2>1 DEF Idle
  <2>2. CASE AwaitReserved \/ NothingToExec \/ EndCalc
    BY <2>2 DEF AwaitReserved, NothingToExec, EndCalc
  <2>3. CASE NextFrame
    BY <2>3 DEF NextFrame
  <2>4. CASE FadeDone
    BY <2>4 DEF FadeDone
  <2>5. CASE NandStep
    BY <2>5 DEF NandStep
  <2>6. CASE UNCHANGED managerVars
    BY <2>6 DEF managerVars
  <2> QED
    BY <2>1, <2>2, <2>3, <2>4, <2>5, <2>6
<1>2. WorkInv'
  BY <1>1 DEF MenuInv, WorkInv, SameSituation, Live
<1>3. board' \in BoardType /\ board'.exit = board.exit
  BY <1>1 DEF MenuInv, BoardInv, BoardType
<1>4. /\ phase \in {"calc", "command", "detach", "end"} /\ it \in Nat
      /\ IF phase = "calc" THEN it \in DOMAIN order ELSE it = 1
      /\ 1 \in DOMAIN order
  <2>1. 1 \in DOMAIN order
    BY TreeFacts DEF MenuInv, IsTree
  <2> QED
    BY <2>1 DEF MenuInv, TurnInv
<1>5. CASE AwaitReserved \/ NothingToExec
  <2>1. /\ phase = "command" /\ phase' = "detach" /\ UNCHANGED <<it, fader>>
        /\ reserved # NONE \/ mCommands = <<>> \/ Head(mCommands).type = "ALL"
    BY <1>5 DEF AwaitReserved, NothingToExec
  <2>2. MapInv'
    BY <1>1, <2>1, CommandPlace DEF MenuInv
  <2>3. TurnInv'
    BY <1>4, <2>1 DEF TurnInv
  <2> QED
    BY <1>1, <1>2, <1>3, <2>1, <2>2, <2>3, FrameKeeps
<1>6. ASSUME OnInFrame, it' \in Nat PROVE MapInv'
  BY <1>1, <1>4, <1>6, SamePlace DEF MenuInv
<1>7. CASE Idle
  <2>1. phase = "calc" /\ Advance
    BY <1>7 DEF Idle
  <2>2. /\ OnInFrame /\ it' \in Nat /\ (it' > it \/ phase' = "command")
        /\ phase' \in {"calc", "command"} /\ TurnInv'
    BY <1>1, <2>1, AdvanceFacts DEF SameSituation
  <2>3. MapInv'
    BY <1>6, <2>2 DEF TurnInv
  <2>4. phase' = "calc" => it' >= it
    BY <1>4, <2>2 DEF TurnInv
  <2> QED
    BY <1>1, <1>2, <1>3, <2>1, <2>2, <2>3, <2>4, FrameKeeps
<1>8. CASE EndCalc
  <2>1. phase = "detach" /\ phase' = "end" /\ UNCHANGED it /\ Doomed = {}
    BY <1>8 DEF EndCalc
  <2>2. destroyReq = {}
    <3>1. \A x \in destroyReq : \E i \in DOMAIN order : order[i] = x
      BY InRangeIsLive DEF MenuInv, DoomInv
    <3> QED
      BY <2>1, <3>1 DEF Doomed
  <2>3. TurnInv' /\ it' \in Nat /\ OnInFrame
    BY <1>4, <2>1 DEF TurnInv, OnInFrame
  <2>4. MapInv'
    BY <1>6, <2>3
  <2> QED
    BY <1>1, <1>2, <1>3, <2>1, <2>2, <2>3, <2>4, FrameKeeps
<1>9. CASE NextFrame \/ FadeDone
  <2>1. phase = "end" /\ phase' = "calc" /\ it' = 1
    BY <1>9 DEF NextFrame, FadeDone
  <2>2. destroyReq = {}
    BY <2>1 DEF MenuInv, DoomInv
  <2>3. TurnInv' /\ it' \in Nat /\ OnInFrame
    BY <1>1, <1>4, <2>1 DEF TurnInv, OnInFrame, SameSituation
  <2>4. MapInv'
    BY <1>6, <2>3
  <2> QED
    BY <1>1, <1>2, <1>3, <2>1, <2>2, <2>3, <2>4, FrameKeeps
<1>10. CASE NandStep \/ UNCHANGED managerVars
  <2>1. UNCHANGED <<phase, it>>
    BY <1>10 DEF NandStep, vars, managerVars
  <2>2. TurnInv' /\ it' \in Nat /\ OnInFrame
    BY <1>1, <1>4, <2>1 DEF TurnInv, OnInFrame, SameSituation
  <2>3. MapInv'
    BY <1>6, <2>2
  <2>4. phase' = "end" => destroyReq = {}
    BY <2>1 DEF MenuInv, DoomInv
  <2>5. phase' = "calc" => phase = "calc" /\ it' >= it
    BY <1>4, <2>1
  <2> QED
    BY <1>1, <1>2, <1>3, <2>2, <2>3, <2>4, <2>5, FrameKeeps
<1> QED
  BY <1>5, <1>7, <1>8, <1>9, <1>10

-----------------------------------------------------------------------------
(* Task1.                                                                  *)

TaskType == [scene : {NONE, "held", "freed"}, month : Month \union {NONE},
             met : BOOLEAN, told : BOOLEAN]

\* The Task1 thread knows nothing of the tree but where getScene is in it.
LEMMA TaskTypes ==
    ASSUME MenuInv, Task1Step
    PROVE  /\ SameSituation
           /\ UNCHANGED <<parent, destroyReq, command, stage, fader, mbCreatedReserved,
                          phase, it>>
           /\ board' \in BoardType /\ board'.exit = board.exit
           /\ task1q' \in Seq(Job) /\ job' \in Job /\ task' \in TaskType
           /\ look' \in Live \union {NONE} /\ calendar' \in CalendarType
           /\ calendar'.then = calendar.then /\ mbDestroySyncTask' \in BOOLEAN
<1> USE DEF treeVars, sceneVars, reserveVars, mainVars, task1Vars, SameSituation
<1>1. /\ task1q \in Seq(Job) /\ job \in Job /\ task \in TaskType
      /\ look \in Live \union {NONE} /\ calendar \in CalendarType
      /\ mbDestroySyncTask \in BOOLEAN /\ board \in BoardType
  BY DEF MenuInv, WorkInv, BoardInv, TaskType, CalendarType, BoardType
<1>2. CASE StartJob
  <2>1. Head(task1q) \in Job /\ Tail(task1q) \in Seq(Job)
    BY <1>1, <1>2, HeadTailProperties DEF StartJob
  <2>2. look' \in Live \union {NONE}
    BY <1>2, TreeFacts DEF StartJob, MenuInv
  <2> QED
    BY <1>1, <1>2, <2>1, <2>2 DEF StartJob
<1>3. CASE LookOn
  <2>1. look' \in Live \union {NONE}
    <3>1. IsTree(order) /\ look \in Live
      BY <1>1, <1>3, TreeFacts DEF LookOn, MenuInv
    <3>2. IndexOf(look) \in DOMAIN order
      BY <3>1, InRangeIsLive DEF IndexOf, MenuInv
    <3>3. IndexOf(look) + 1 <= Len(order) => order[IndexOf(look) + 1] \in Live
      BY <3>1, <3>2, InRangeIsLive DEF IsTree, MenuInv
    <3> QED
      BY <1>3, <3>3 DEF LookOn
  <2> QED
    BY <1>1, <1>3, <2>1 DEF LookOn
<1>4. CASE Found \/ SearchDate \/ MeetRecord
  <2>1. task' \in TaskType /\ look' \in Live \union {NONE}
    <3>1. calendar.month \in Month
      BY <1>1 DEF CalendarType
    <3> QED
      BY <1>1, <1>4, <3>1, TreeFacts DEF Found, SearchDate, MeetRecord, TaskType, MenuInv
  <2> QED
    BY <1>1, <1>4, <2>1 DEF Found, SearchDate, MeetRecord
<1>5. CASE UseRecord
  <2>1. calendar' \in CalendarType /\ calendar'.then = calendar.then
    <3>1. task.month \in Month \union {NONE}
      BY <1>1 DEF TaskType
    <3> QED
      BY <1>1, <1>5, <3>1 DEF UseRecord, CalendarType
  <2> QED
    BY <1>1, <1>5, <2>1 DEF UseRecord
<1>6. CASE JobTells
  <2>1. /\ calendar' \in CalendarType /\ calendar'.then = calendar.then
        /\ board' \in BoardType /\ board'.exit = board.exit
    <3>1. (task.month # NONE) \in BOOLEAN
      OBVIOUS
    <3> QED
      BY <1>1, <1>6, <3>1 DEF JobTells, CalendarType, BoardType
  <2>2. task' \in TaskType
    BY <1>1, <1>6 DEF JobTells, TaskType
  <2> QED
    BY <1>1, <1>6, <2>1, <2>2 DEF JobTells
<1>7. CASE FinishJob
  <2>1. /\ calendar' \in CalendarType /\ calendar'.then = calendar.then
        /\ board' \in BoardType /\ board'.exit = board.exit
    BY <1>1, <1>7 DEF FinishJob, CalendarType, BoardType
  <2>2. task' \in TaskType
    BY <1>7 DEF FinishJob, TaskType, NoTask
  <2>3. job' \in Job /\ mbDestroySyncTask' \in BOOLEAN
    BY <1>1, <1>7, JobTypes DEF FinishJob
  <2> QED
    BY <1>1, <1>7, <2>1, <2>2, <2>3 DEF FinishJob
<1> QED
  BY <1>2, <1>3, <1>4, <1>5, <1>6, <1>7 DEF Task1Step

\* The steps of Task1.
LEMMA TaskSteps ==
    ASSUME MenuInv, Task1Step, UNCHANGED mode PROVE MenuInv'
<1>1. /\ SameSituation
      /\ UNCHANGED <<parent, destroyReq, command, stage, fader, mbCreatedReserved,
                     phase, it>>
      /\ board' \in BoardType /\ board'.exit = board.exit
  BY TaskTypes
<1>2. WorkInv'
  <2>1. /\ task1q' \in Seq(Job) /\ job' \in Job /\ task' \in TaskType
        /\ look' \in Live \union {NONE} /\ calendar' \in CalendarType
        /\ calendar'.then = calendar.then /\ mbDestroySyncTask' \in BOOLEAN
        /\ UNCHANGED <<stage, fader>>
    BY TaskTypes
  <2> QED
    BY <1>1, <2>1 DEF MenuInv, WorkInv, TaskType, CalendarType, SameSituation, Live
<1>3. TurnInv' /\ OnInFrame /\ it \in Nat /\ it' \in Nat
  BY <1>1 DEF MenuInv, TurnInv, OnInFrame, SameSituation
<1>4. MapInv'
  BY <1>1, <1>3, SamePlace DEF MenuInv
<1>5. phase' = "end" => destroyReq = {}
  BY <1>1 DEF MenuInv, DoomInv
<1>6. phase' = "calc" => phase = "calc" /\ it' >= it
  BY <1>1, <1>3
<1> QED
  BY <1>1, <1>2, <1>3, <1>4, <1>5, <1>6, FrameKeeps
=============================================================================
