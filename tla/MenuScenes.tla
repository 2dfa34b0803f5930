----------------------------- MODULE MenuScenes -----------------------------
(***************************************************************************)
(* What the scenes of the menu do in calc(): the splash screens            *)
(* (skHealth, LimitOver), Reboot, the Board with its channel selection and *)
(* its calendar, and the settings menu with the screens it opens           *)
(* (src/src/scene/...).  Each action is one call of calc() on one scene;   *)
(* `it' walks the tree.  Together with SceneManager this is a frame of the  *)
(* main loop, and the two threads the scenes give work to.                 *)
(*                                                                         *)
(* A calc() that does nothing is Idle: it waits for an animation, for the  *)
(* user, or for a part of the system that is not modelled.  Idle is not    *)
(* possible where the code certainly goes on (MustAct).                    *)
(***************************************************************************)
EXTENDS SceneManager

CONSTANTS
    Boot,       \* the initial scenes and modes to start from
    MaxJobs     \* bound: optional jobs are posted while Task1 has fewer

VARIABLES
    mode,       \* "normal", "safe" (safe mode) or "full" (NAND full)
    stray       \* history, which no action reads (see Remembers)

vars == <<managerVars, mode, stray>>

ASSUME MenuAssumption ==
    /\ Boot \subseteq SceneId \X {"normal", "safe", "full"}
    /\ MaxJobs \in Nat

\* RootScene::proc_boot_scene starts with a child of the root.
ASSUME BootAssumption ==
    Boot \subseteq {"HEALTH", "LIMIT_OVER", "REBOOT", "BOARD", "SETTING_BG",
                   "SETTING"} \X {"normal", "safe", "full"}

\* it->do_calc(), for a scene whose calc() is to be called.
Calculated(id) ==
    /\ id \notin destroyReq
    /\ HasChild(id) => id \in ParentCalc
Turn(id) == phase = "calc" /\ order[it] = id /\ Calculated(id)
Advance ==
    IF it < Len(order) THEN it' = it + 1 /\ UNCHANGED phase
                       ELSE it' = 1 /\ phase' = "command"

\* A scene in stage s goes on, and the stages become new.
GoesOn(id, s, new) ==
    /\ Turn(id)
    /\ stage[id] = s
    /\ stage' = new
    /\ Advance
    /\ UNCHANGED <<treeVars, reserveVars, nandq, tokens, job, task, look, mode>>

\* It goes to stage t.
Goes(id, s, t) == GoesOn(id, s, [stage EXCEPT ![id] = t]) /\ UNCHANGED calendar

Keep == UNCHANGED <<destroyReq, command, fader, mCommands, mbDestroySyncTask,
                    task1q, board>>
RequestDestruction(id) == destroyReq' = destroyReq \union {id}

-----------------------------------------------------------------------------
(* Jobs of Task1.                                                           *)

\* reserveAllSceneDestruction: the sync job goes behind all jobs posted.
ReserveAllDestruction(id, root) ==
    /\ command' = [command EXCEPT ![id] = root]
    /\ mbDestroySyncTask' = FALSE
    /\ task1q' = Append(task1q, JobOf("sync"))

RoomForJobs == Len(task1q) < MaxJobs

-----------------------------------------------------------------------------
(* skHealth, LimitOver and Reboot.                                          *)

\* The user passes the screen.
PassSplash(id) ==
    /\ id \in {"HEALTH", "LIMIT_OVER"}
    /\ Goes(id, "in", "out")
    /\ fader' = "shown" \* LimitOver sets it in calcFadein, skHealth in create
    /\ UNCHANGED <<destroyReq, command, mCommands, mbDestroySyncTask, task1q,
                   board>>

\* Its animation has ended, and the screen fades out.
FadeSplash(id) ==
    /\ id \in {"HEALTH", "LIMIT_OVER"}
    /\ Goes(id, "out", "out")
    /\ fader = "shown"
    /\ fader' = FadedOut(fader)
    /\ UNCHANGED <<destroyReq, command, mCommands, mbDestroySyncTask, task1q,
                   board>>

LeaveHealth ==
    /\ Goes("HEALTH", "out", "done")
    /\ fader = "black"
    /\ ReserveAllDestruction("HEALTH", "BOARD")
    /\ RequestDestruction("HEALTH")
    /\ UNCHANGED <<fader, mCommands, board>>

\* reserveSceneChange and requestSceneDestruction in the same frame.
ChangeScene(id, new) ==
    /\ mCommands' = Pushed(mCommands,
                        <<ReserveChange(new, id, parent[id], Next_(id))>>)
    /\ RequestDestruction(id)
    /\ UNCHANGED <<command, mbDestroySyncTask, task1q, board>>

LeaveLimitOver ==
    /\ Goes("LIMIT_OVER", "out", "done")
    /\ fader = "black"
    /\ ChangeScene("LIMIT_OVER", "BOARD")
    /\ UNCHANGED fader

LeaveReboot ==
    /\ Goes("REBOOT", "in", "done")
    /\ \E new \in {"SETTING_BG", "SETTING"} : ChangeScene("REBOOT", new)
    /\ fader' = FadedIn(fader)

-----------------------------------------------------------------------------
(* Board.                                                                   *)

\* Mutant: the children come in another order.
BoardCdbInitArrowFirst ==
    /\ Goes("BOARD", "cdbInit", "init")
    /\ mCommands' = Pushed(mCommands,
           <<CreateChild("ARROW", "BOARD", NONE),
             CreateChild("CHANNEL_SELECT", "BOARD", NONE),
             CreateChild("BUTTON", "BOARD", NONE)>>)
    /\ UNCHANGED <<destroyReq, command, fader, mbDestroySyncTask, task1q, board>>

\* stt_wait_cdb_init, once the system is ready: three children, two jobs.
BoardCdbInit ==
    /\ Goes("BOARD", "cdbInit", "init")
    /\ mCommands' = Pushed(mCommands,
           <<CreateChild("BUTTON", "BOARD", NONE),
             CreateChild("CHANNEL_SELECT", "BOARD", NONE),
             CreateChild("ARROW", "BOARD", NONE)>>)
    /\ \/ /\ task1q' = task1q \o <<JobOf("count"), JobOf("read")>>
          /\ board' = [board EXCEPT !.count = TRUE, !.read = TRUE]
       \/ UNCHANGED <<task1q, board>> \* the message board is too full to read
    /\ UNCHANGED <<destroyReq, command, fader, mbDestroySyncTask>>

\* Mutant: the children are not waited for.
BoardInitAtOnce ==
    /\ mode = "normal"
    /\ Goes("BOARD", "init", "childDst")
    /\ fader' = FadedIn(fader)
    /\ UNCHANGED <<destroyReq, command, mCommands, mbDestroySyncTask, task1q,
                   board>>

\* stt_wait_init, when the last of its children is there.
BoardInit ==
    /\ "ARROW" \in Live
    /\ mode = "normal"
    /\ Goes("BOARD", "init", "childDst")
    /\ fader' = FadedIn(fader)
    /\ UNCHANGED <<destroyReq, command, mCommands, mbDestroySyncTask, task1q,
                   board>>

\* In safe mode the Board only waits for the screen to go black.
BoardInitSafe ==
    /\ "ARROW" \in Live
    /\ mode = "safe"
    /\ Goes("BOARD", "init", "done")
    /\ fader' = FadedIn(fader)
    /\ UNCHANGED <<destroyReq, command, mCommands, mbDestroySyncTask, task1q,
                   board>>

\* Mutant: the warning is over before the fade-in is.
BoardInitFullAtOnce ==
    /\ "ARROW" \in Live
    /\ mode = "full"
    /\ Goes("BOARD", "init", "toSettings")
    /\ fader' = FadedOut(FadedIn(fader))
    /\ ReserveAllDestruction("BOARD", "SETTING_BG")
    /\ UNCHANGED <<destroyReq, mCommands, board>>

\* With the NAND memory full, in safe mode or not: the warning runs frames of its own, in which
\* the fade-in ends, and the screen fades out again.
BoardInitFull ==
    /\ "ARROW" \in Live
    /\ mode = "full"
    /\ Goes("BOARD", "init", "toSettings")
    /\ fader' = "out"
    /\ ReserveAllDestruction("BOARD", "SETTING_BG")
    /\ UNCHANGED <<destroyReq, mCommands, board>>

\* stt_wait_child_dst.
BoardAlone == /\ Live \intersect {"CHANNEL_SELECT", "CALENDAR"} = {}
              /\ reserved = NONE

\* Mutant: requestExit is not respected.
BoardTakesOverExiting ==
    /\ BoardAlone
    /\ Goes("BOARD", "childDst", "normal")
    /\ Keep

BoardTakesOver ==
    /\ BoardAlone
    /\ ~board.exit
    /\ Goes("BOARD", "childDst", "normal")
    /\ Keep

\* cmn_start_scroll: the Board turns to another date and reads its messages,
\* whether or not it is still reading those of the last.
Reads == [board EXCEPT !.read = TRUE]

\* Mail came in: count the messages again.  Or the date changed while the
\* channels are shown.
BoardRecount ==
    /\ ~BoardAlone
    /\ RoomForJobs
    /\ Goes("BOARD", "childDst", "childDst")
    /\ board' = [board EXCEPT !.count = TRUE]
    /\ task1q' = Append(task1q, JobOf("count"))
    /\ UNCHANGED <<destroyReq, command, fader, mCommands, mbDestroySyncTask>>
BoardNewDay ==
    /\ "CHANNEL_SELECT" \in Live
    /\ RoomForJobs
    /\ Goes("BOARD", "childDst", "scroll")
    /\ board' = [Reads EXCEPT !.count = TRUE]
    /\ task1q' = task1q \o <<JobOf("count"), JobOf("read")>>
    /\ UNCHANGED <<destroyReq, command, fader, mCommands, mbDestroySyncTask>>

\* The user turns to the next or the last date.
BoardScrolls ==
    /\ RoomForJobs
    /\ Goes("BOARD", "normal", "scroll")
    /\ board' = Reads
    /\ task1q' = Append(task1q, JobOf("read"))
    /\ UNCHANGED <<destroyReq, command, fader, mCommands, mbDestroySyncTask>>

\* stt_wait_scroll: it waits for the animation, and for the messages of the last
\* date to be cleaned up.  Unlike stt_wait_child_dst it does not look at
\* mbExitRequest.
BoardScrollEnds ==
    /\ Goes("BOARD", "scroll", IF BoardAlone THEN "normal" ELSE "childDst")
    /\ Keep

\* The user goes to the channels, for which the Board turns to the date of
\* today, or opens the calendar.  At the end of a scroll that began while the
\* channels were there the buttons are not connected with the Board, but they are
\* as soon as the user has opened a message and closed it, which is part of these
\* steps.
BoardToChannels ==
    /\ RoomForJobs
    /\ \/ /\ Goes("BOARD", "normal", "childCst")
          /\ board' = [board EXCEPT !.count = TRUE]
          /\ task1q' = Append(task1q, JobOf("count"))
       \/ /\ Goes("BOARD", "normal", "scroll")
          /\ board' = [Reads EXCEPT !.count = TRUE]
          /\ task1q' = task1q \o <<JobOf("read"), JobOf("count")>>
    /\ mCommands' = Pushed(mCommands,
                        <<CreateChild("CHANNEL_SELECT", "BOARD", "ARROW")>>)
    /\ UNCHANGED <<destroyReq, command, fader, mbDestroySyncTask>>

BoardToCalendar ==
    /\ Goes("BOARD", "normal", "childCst")
    /\ mCommands' = Pushed(mCommands,
                        <<CreateChild("CALENDAR", "BOARD", "BUTTON")>>)
    /\ UNCHANGED <<destroyReq, command, fader, mbDestroySyncTask, task1q, board>>

\* stt_wait_child_cst.
BoardChildCame ==
    /\ Live \intersect {"CHANNEL_SELECT", "CALENDAR"} # {}
    /\ Goes("BOARD", "childCst", "childDst")
    /\ Keep

\* The user opened a message that leads to the settings (stt_focus).
BoardToSettings ==
    /\ Goes("BOARD", "normal", "toSettings")
    /\ fader' = FadedOut(fader)
    /\ ReserveAllDestruction("BOARD", "SETTING")
    /\ UNCHANGED <<destroyReq, mCommands, board>>

\* The worker of the SD card has stopped.
BoardSDStopped ==
    /\ Goes("BOARD", "toSettings", "done")
    /\ Keep

IsResetAcceptable == ~board.count /\ ~board.read

BoardLeaves ==
    /\ fader = "black"
    /\ IsResetAcceptable
    /\ Goes("BOARD", "done", "done")
    /\ RequestDestruction("BOARD")
    /\ UNCHANGED <<command, fader, mCommands, mbDestroySyncTask, task1q, board>>

-----------------------------------------------------------------------------
(* ChannelSelect and Calendar, the children of the Board that come and go.  *)

\* FADING_IN, until the screen is there.
ChannelsShown ==
    /\ fader = "shown"
    /\ Goes("CHANNEL_SELECT", "in", "normal")
    /\ Keep

\* The settings button.
ChannelsToSettings ==
    /\ fader = "shown"
    /\ Goes("CHANNEL_SELECT", "normal", "setting")
    /\ fader' = FadedOut(fader)
    /\ board' = [board EXCEPT !.exit = TRUE]
    /\ ReserveAllDestruction("CHANNEL_SELECT", "SETTING_BG")
    /\ UNCHANGED <<destroyReq, mCommands>>

\* The button of the message board.
ChannelsToBoard ==
    /\ fader = "shown"
    /\ mode # "safe"
    /\ Goes("CHANNEL_SELECT", "normal", "board")
    /\ Keep

\* requestSceneDestruction, and nothing else.
Dies(id, s) ==
    /\ Goes(id, s, "done")
    /\ RequestDestruction(id)
    /\ UNCHANGED <<command, fader, mCommands, mbDestroySyncTask, task1q, board>>

\* Once the screen is black, or the channels have faded: the Board may be in the
\* middle of a scroll, if the date changed meanwhile.
ChannelsLeave ==
    \/ fader = "black" /\ Dies("CHANNEL_SELECT", "setting")
    \/ Dies("CHANNEL_SELECT", "board")

CalendarShown == /\ "BUTTON" \in Live
                 /\ Goes("CALENDAR", "in", "normal")
                 /\ Keep

CalendarGoes(s, t) ==
    /\ GoesOn("CALENDAR", s, [stage EXCEPT !["CALENDAR"] = t])
    /\ UNCHANGED <<destroyReq, command, fader, mCommands, mbDestroySyncTask, board>>

\* start_scroll_r, start_scroll_l and start_exit: a search is cut short first.
\* If the user does two of them in a frame, the later one counts.
CancelSearch(then) ==
    /\ calendar' = [calendar EXCEPT !.canceled = TRUE, !.then = then]
    /\ UNCHANGED task1q

\* Mutant: the search of the last month is not waited for.
CalendarScrollsAtOnce ==
    /\ CalendarGoes("normal", "scroll")
    /\ UNCHANGED <<calendar, task1q>>

CalendarScrolls ==
    \/ /\ ~calendar.searching
       /\ CalendarGoes("normal", "scroll")
       /\ UNCHANGED <<calendar, task1q>>
    \/ /\ calendar.searching
       /\ CalendarGoes("normal", "waitTask")
       /\ CancelSearch("scroll")

\* By the button, or after a date was chosen.
CalendarExits ==
    \E s \in {"normal", "waitExit"} :
        \/ /\ ~calendar.searching
           /\ CalendarGoes(s, "leaving")
           /\ UNCHANGED <<calendar, task1q>>
        \/ /\ calendar.searching
           /\ CalendarGoes(s, "waitTask")
           /\ CancelSearch("leaving")

\* onTrigDate: the Board turns to the date, if it is another one.
CalendarPicks ==
    \/ /\ CalendarGoes("normal", "waitExit")
       /\ UNCHANGED <<calendar, task1q>>
    \/ /\ RoomForJobs
       /\ GoesOn("CALENDAR", "normal",
                 [stage EXCEPT !["CALENDAR"] = "waitExit", !["BOARD"] = "scroll"])
       /\ board' = Reads
       /\ task1q' = Append(task1q, JobOf("read"))
       /\ UNCHANGED <<destroyReq, command, fader, mCommands, mbDestroySyncTask,
                      calendar>>

\* on_wait_task.
CalendarWaited ==
    /\ ~calendar.searching
    /\ CalendarGoes("waitTask", calendar.then)
    /\ calendar' = [calendar EXCEPT !.then = NONE]
    /\ UNCHANGED task1q

\* on_scroll, at the end: the dates are those of another month, without marks.
CalendarScrolled ==
    /\ CalendarGoes("scroll", "normal")
    /\ \E month \in Month \ {calendar.month} :
           ExecSearchTask([calendar EXCEPT !.month = month, !.mark = NONE])

CalendarLeaves == Dies("CALENDAR", "leaving")

-----------------------------------------------------------------------------
(* SettingButton and SettingSelect, the children of SettingBg, and the two  *)
(* screens behind them, which the user leaves.                              *)

SettingButtonShown ==
    /\ fader = "shown"
    /\ Goes("SETTING_BUTTON", "in", "normal")
    /\ Keep

\* stt_wait_button_fadein; from a reboot the second page comes first.
SelectStarts ==
    /\ fader = "shown"
    /\ "SETTING_BUTTON" \in Live
    /\ stage["SETTING_BUTTON"] # "in"
    /\ \E page \in {"page1", "page2"} :
           Goes("SETTING_SELECT", "waitButton", page)
    /\ Keep

\* From one page to another.
SelectTurns ==
    /\ \/ Goes("SETTING_SELECT", "page1", "page2")
       \/ Goes("SETTING_SELECT", "page2", "page3")
       \/ Goes("SETTING_SELECT", "page2", "page1")
       \/ Goes("SETTING_SELECT", "page3", "page2")
    /\ Keep

\* The Wii settings; the screen fades out when the buttons have.
SelectSetting ==
    /\ Goes("SETTING_SELECT", "page1", "out1")
    /\ ReserveAllDestruction("SETTING_SELECT", "SETTING")
    /\ UNCHANGED <<destroyReq, fader, mCommands, board>>
SelectFadesOut ==
    /\ Goes("SETTING_SELECT", "out1", "blackout")
    /\ fader' = FadedOut(fader)
    /\ UNCHANGED <<destroyReq, command, mCommands, mbDestroySyncTask, task1q,
                   board>>

\* Back to the Board (stt_wait_button_decided).
SelectBack ==
    /\ Goes("SETTING_SELECT", "page1", "blackout")
    /\ fader' = FadedOut(fader)
    /\ ReserveAllDestruction("SETTING_SELECT", "BOARD")
    /\ UNCHANGED <<destroyReq, mCommands, board>>

SelectLeaves == fader = "black" /\ Dies("SETTING_SELECT", "blackout")

\* The channels or the saved data; the screens open as children.
SelectOpens(page, wait, id) ==
    /\ Goes("SETTING_SELECT", page, wait)
    /\ mCommands' = Pushed(mCommands, <<CreateChild(id, "SETTING_SELECT", NONE)>>)
    /\ UNCHANGED <<destroyReq, command, fader, mbDestroySyncTask, task1q, board>>

\* Mutant: a scene in preparation is not looked for.
SelectChildGoneEarly ==
    /\ ~HasChild("SETTING_SELECT")
    /\ \/ Goes("SETTING_SELECT", "wait2", "page2")
       \/ Goes("SETTING_SELECT", "wait3", "page3")
    /\ Keep

\* stt_wait_child.
SelectChildGone ==
    /\ ~HasChild("SETTING_SELECT")
    /\ reserved = NONE
    /\ \/ Goes("SETTING_SELECT", "wait2", "page2")
       \/ Goes("SETTING_SELECT", "wait3", "page3")
    /\ Keep

ScreenLeaves == \E id \in {"CHANNEL_EDIT", "MEMORY"} : Dies(id, "in")

-----------------------------------------------------------------------------
(* The frame.                                                               *)

\* What the code does in this very call, if it is called.
MustAct(id) ==
    \/ id = "LIMIT_OVER" /\ stage[id] = "out" /\ fader = "black"
    \/ id = "BOARD" /\ stage[id] = "init" /\ "ARROW" \in Live
    \/ id = "BOARD" /\ stage[id] = "childDst" /\ BoardAlone /\ ~board.exit
    \/ /\ id = "BOARD" /\ stage[id] = "childCst"
       /\ Live \intersect {"CHANNEL_SELECT", "CALENDAR"} # {}
    \/ id = "CALENDAR" /\ stage[id] = "waitTask" /\ ~calendar.searching
    \/ id = "BOARD" /\ stage[id] = "done" /\ fader = "black" /\ IsResetAcceptable
    \/ id = "CHANNEL_SELECT" /\ stage[id] = "in" /\ fader = "shown"
    \/ id = "SETTING_SELECT" /\ stage[id] = "blackout" /\ fader = "black"
    \/ /\ id = "SETTING_SELECT" /\ stage[id] = "waitButton"
       /\ fader = "shown" /\ stage["SETTING_BUTTON"] = "normal"

\* do_calc of this scene changes nothing, or is not called.
Idle ==
    /\ phase = "calc"
    /\ Calculated(order[it]) => ~MustAct(order[it])
    /\ Advance
    /\ UNCHANGED <<treeVars, sceneVars, mCommands, reserveVars,
                   mbDestroySyncTask, nandq, tokens, task1Vars, mode>>

\* What the player decides, or the mail.
UserStep ==
    \/ BoardRecount
    \/ BoardNewDay
    \/ BoardScrolls
    \/ BoardToChannels
    \/ BoardToCalendar
    \/ BoardToSettings
    \/ ChannelsToSettings
    \/ ChannelsToBoard
    \/ CalendarScrolls
    \/ CalendarExits
    \/ CalendarPicks
    \/ SelectTurns
    \/ SelectSetting
    \/ SelectBack
    \/ SelectOpens("page2", "wait2", "CHANNEL_EDIT")
    \/ SelectOpens("page3", "wait3", "MEMORY")
    \/ ScreenLeaves

\* What the scenes do of themselves, when an animation or a worker is done.
OwnStep ==
    \/ \E id \in {"HEALTH", "LIMIT_OVER"} : PassSplash(id) \/ FadeSplash(id)
    \/ LeaveHealth
    \/ LeaveLimitOver
    \/ LeaveReboot
    \/ BoardCdbInit
    \/ BoardInit
    \/ BoardInitSafe
    \/ BoardInitFull
    \/ BoardTakesOver
    \/ BoardChildCame
    \/ BoardSDStopped
    \/ BoardLeaves
    \/ ChannelsShown
    \/ ChannelsLeave
    \/ BoardScrollEnds
    \/ CalendarShown
    \/ CalendarWaited
    \/ CalendarScrolled
    \/ CalendarLeaves
    \/ SettingButtonShown
    \/ SelectStarts
    \/ SelectFadesOut
    \/ SelectLeaves
    \/ SelectChildGone

Init ==
    /\ \E b \in Boot :
          /\ mode = b[2]
          /\ mCommands = <<CreateChild(b[1], "ROOT", NONE)>>
    /\ stray = "no"
    /\ order = <<"ROOT">>
    /\ parent = [x \in SceneId |-> NONE]
    /\ destroyReq = {}
    /\ command = [x \in SceneId |-> NONE]
    /\ stage = [x \in SceneId |-> "gone"]
    /\ fader = "black"
    /\ board = NewBoard
    /\ reserved = NONE
    /\ mReservedCommand = NoCommand
    /\ mbCreatedReserved = FALSE
    /\ mbDestroySyncTask = FALSE
    /\ phase = "calc"
    /\ it = 1
    /\ nandq = <<>>
    /\ tokens = <<>>
    /\ task1q = <<>>
    /\ job = NoJob
    /\ task = NoTask
    /\ look = NONE
    /\ calendar = NewCalendar

MainStep == (ManagerStep /\ UNCHANGED mode) \/ UserStep \/ OwnStep \/ Idle

\* The history: "no", until the end of a scroll gives the input back to a Board
\* that was told to exit; "back", until it is destroyed or asks for something the
\* user wants; and then "asked" for ever.
BoardWants == BoardToChannels \/ BoardToCalendar \/ BoardToSettings
Remembers ==
    stray' = IF stray = "no" /\ BoardScrollEnds /\ BoardAlone /\ board.exit THEN "back"
             ELSE IF stray = "back" /\ BoardWants THEN "asked"
             ELSE IF stray = "back" /\ stage'["BOARD"] = "gone" THEN "no"
             ELSE stray

Next == (MainStep \/ (ThreadStep /\ UNCHANGED mode)) /\ Remembers

Spec == Init /\ [][Next]_vars

\* The main loop runs for ever, the threads whenever it waits for the next
\* picture; a fade ends, and so do the animations the scenes wait for.
Fairness ==
    /\ WF_vars(MainStep /\ Remembers)
    /\ WF_vars(NandStep /\ UNCHANGED mode /\ Remembers)
    /\ WF_vars(Task1Step /\ UNCHANGED mode /\ Remembers)
    /\ SF_vars(FadeDone /\ UNCHANGED mode /\ Remembers)
    /\ SF_vars(BoardScrollEnds /\ Remembers)
    /\ SF_vars((BoardSDStopped \/ ChannelsLeave \/ SelectFadesOut) /\ Remembers)
FairSpec == Spec /\ Fairness

-----------------------------------------------------------------------------
(* Properties.                                                              *)

Stage == {"gone", "cdbInit", "init", "childDst", "childCst", "normal",
          "toSettings", "done", "waitButton", "page1", "page2", "page3", "out1",
          "blackout", "wait2", "wait3", "in", "out", "setting", "board",
          "scroll", "waitTask", "waitExit", "leaving"}
Job == [kind : {NONE, "count", "read", "search", "sync"}, late : BOOLEAN,
        over : BOOLEAN]

\* A Board that was told to exit took the input back at the end of a scroll and
\* did what the user wanted: what the Board then asks for comes behind a request to
\* destroy everything, itself included, and the properties that say so except it.
Strayed == stray = "asked"

\* Type invariant; it also says that no command was ever dropped for want of
\* room, since the queue is never full.
TypeOK ==
    /\ order \in Seq(SceneId) /\ IsInjective(order)
    /\ parent \in [SceneId -> SceneId \union {NONE}]
    /\ destroyReq \subseteq SceneId
    /\ command \in [SceneId -> SceneId \union {NONE}]
    /\ stage \in [SceneId -> Stage]
    /\ fader \in {"black", "in", "shown", "out"}
    /\ mCommands \in Seq(Command) /\ Len(mCommands) < MAX_COMMANDS
    /\ reserved \in SceneId \union {NONE}
    /\ mReservedCommand \in Command
    /\ {mbCreatedReserved, mbDestroySyncTask} \subseteq BOOLEAN
    /\ phase \in {"calc", "command", "detach", "end"}
    /\ it \in Nat
    /\ nandq \in Seq({"load", "token"} \X SceneId)
    /\ tokens \in Seq(SceneId)
    /\ task1q \in Seq(Job)
    /\ job \in Job
    /\ task \in [scene : {NONE, "held", "freed"}, month : Month \union {NONE},
                met : BOOLEAN, told : BOOLEAN]
    /\ look \in SceneId \union {NONE}
    /\ calendar \in [searching : BOOLEAN, canceled : BOOLEAN,
                    then : {NONE, "scroll", "leaving"}, month : Month,
                    mark : Month \union {NONE}, whole : BOOLEAN]
    /\ board \in [count : BOOLEAN, read : BOOLEAN, exit : BOOLEAN]
    /\ mode \in {"normal", "safe", "full"}
    /\ stray \in {"no", "back", "asked"}

\* create() of a scene uses the files prepare() has requested: it is called,
\* and the scene no longer reserved, only when they have all been read.
LoadedBeforeCreate ==
    [][reserved # NONE /\ reserved' # reserved => IsLoaded(reserved)]_vars

\* A command names its parent and the child to insert before by pointer, some
\* frames before they are used: neither has been destroyed by then, and the
\* child is still a child of that parent; unless the Board strayed.
PointersLive ==
    \/ Strayed
    \/ \A c \in Range(mCommands) \union {mReservedCommand} :
          /\ Dangling \notin {c.par, c.chi}
          /\ c.chi # NONE => parent[c.chi] = c.par

\* While the Board takes the user's input, no scene that takes it from the
\* Board is there or on its way; and so for the pages of SettingSelect; unless the
\* Board strayed.
OneTakesInput ==
    LET coming == Live \union {reserved} \union {c.new : c \in Range(mCommands)}
    IN  \/ Strayed
        \/ /\ stage["BOARD"] = "normal" =>
                  coming \intersect {"CHANNEL_SELECT", "CALENDAR"} = {}
           /\ stage["SETTING_SELECT"] \in {"page1", "page2", "page3"} =>
                  coming \intersect {"CHANNEL_EDIT", "MEMORY"} = {}

\* getScene finds a scene by its ID: there is one of each ID, and the scenes that
\* use another without asking whether it is there find it.
LookupsSucceed ==
    /\ reserved \notin Live
    /\ stage["BOARD"] \in {"childDst", "normal", "childCst"} =>
           {"BUTTON", "ARROW"} \subseteq Live
    /\ stage["CALENDAR"] \in {"normal", "done"} => "BUTTON" \in Live
    /\ stage["CHANNEL_SELECT"] \in {"normal", "setting"} =>
           {"BUTTON", "BOARD"} \subseteq Live
    /\ stage["SETTING_SELECT"] \in {"page1", "page2", "page3", "wait2", "wait3"}
           => "SETTING_BUTTON" \in Live

\* No scene is destroyed that a job of Task1 uses or that its getScene looks at,
\* unless the job has said that it is done and has one store left; or, of the
\* jobs of the Board, if it was posted after the request to destroy everything,
\* or while another of its kind was outstanding.
ScenesOutliveJobs ==
    task.scene = "freed" =>
        \/ task.told
        \/ job.kind # "search" /\ (job.late \/ job.over)

\* The marks of the Calendar are of the month it shows, whatever search was
\* running when the user turned to it, and when no search is left to run they
\* are all there.
MarksAreTrue ==
    /\ calendar.mark \in {NONE, calendar.month}
    /\ stage["CALENDAR"] \in {"normal", "waitExit"} =>
           calendar.searching \/ calendar.whole

\* Two requests to destroy everything would share one mbDestroySyncTask: there
\* is never more than one, unless the Board strayed.
OneDestroyAll ==
    \/ Strayed
    \/ Cardinality({x \in Live : command[x] # NONE})
          + Cardinality({i \in DOMAIN mCommands : mCommands[i].type = "ALL"}) <= 1

\* A scene that was reserved joins the tree at last, unless the Board strayed and
\* its parent is gone.
ReservedArrives == reserved # NONE ~> reserved = NONE \/ Strayed

\* A request to destroy everything is carried out, unless the Board strayed and
\* made a second one that resets the flag of the first; and a user who leaves the
\* Calendar, or turns to another month, gets there although a search was running.
RequestsEnd ==
    /\ RequestPending ~> ~RequestPending \/ Strayed
    /\ stage["CALENDAR"] = "waitTask" ~> stage["CALENDAR"] # "waitTask"
=============================================================================
