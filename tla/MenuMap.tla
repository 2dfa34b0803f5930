------------------------------ MODULE MenuMap ------------------------------
(***************************************************************************)
(* The map of the menu: every situation in which the scenes of MenuScenes  *)
(* can be between two steps, as the shape of the tree, the commands the    *)
(* manager has yet to execute and the one it executes, with what the       *)
(* scenes, the fader and the frame are doing there.  It is the inductive   *)
(* invariant behind the theorems on the scenes (MenuScenesProofs): no      *)
(* property of them is inductive without it, since what a scene may do in  *)
(* its next calc() depends on how it came to be there.                     *)
(***************************************************************************)
EXTENDS MenuScenes

\* The first scenes of a tree that is built anew, and all whose parent is the
\* root; and the screens of the settings menu.
Roots    == {"BOARD", "SETTING_BG", "SETTING"}
TopLevel == Roots \union {"HEALTH", "LIMIT_OVER", "REBOOT"}
Screens  == {"CHANNEL_EDIT", "MEMORY"}

\* The parent of a scene: it is always the same.
Above(x) ==
    CASE x \in TopLevel -> "ROOT"
      [] x \in {"BUTTON", "ARROW", "CHANNEL_SELECT", "CALENDAR"} -> "BOARD"
      [] x \in {"SETTING_BUTTON", "SETTING_SELECT"} -> "SETTING_BG"
      [] x \in Screens -> "SETTING_SELECT"
      [] OTHER -> NONE

-----------------------------------------------------------------------------
(* The trees and the commands.                                              *)

Alone         == <<"ROOT">>
Top(x)        == <<"ROOT", x>>
ButtonOnly    == <<"ROOT", "BOARD", "BUTTON">>
ArrowToCome   == <<"ROOT", "BOARD", "BUTTON", "CHANNEL_SELECT">>
BoardOpen     == <<"ROOT", "BOARD", "BUTTON", "ARROW">>
WithChannels  == <<"ROOT", "BOARD", "BUTTON", "CHANNEL_SELECT", "ARROW">>
WithCalendar  == <<"ROOT", "BOARD", "CALENDAR", "BUTTON", "ARROW">>
NoSelect      == <<"ROOT", "SETTING_BG", "SETTING_BUTTON">>
Settings      == <<"ROOT", "SETTING_BG", "SETTING_BUTTON", "SETTING_SELECT">>
WithScreen(x) == <<"ROOT", "SETTING_BG", "SETTING_BUTTON", "SETTING_SELECT", x>>

Child(x)      == CreateChild(x, Above(x), NONE)
ChannelsAgain == CreateChild("CHANNEL_SELECT", "BOARD", "ARROW")
CalendarAsked == CreateChild("CALENDAR", "BOARD", "BUTTON")
Change(x, y)  == ReserveChange(y, x, "ROOT", NONE)
Changes == {<<"LIMIT_OVER", "BOARD">>, <<"REBOOT", "SETTING_BG">>,
            <<"REBOOT", "SETTING">>}

\* The tree is o, the commands cs are queued and c is being executed.
At(o, cs, c) == /\ order = o
                /\ mCommands = cs
                /\ mReservedCommand = c
                /\ reserved = c.new

-----------------------------------------------------------------------------
(* The places.                                                              *)

\* The first scene of a tree is to come.
AtStart == \E x \in TopLevel :
    /\ At(Alone, <<Child(x)>>, NoCommand) \/ At(Alone, <<>>, Child(x))
    /\ x = "BOARD" => fader = "black"

\* The scenes that live alone.
AtTop == \E x \in {"HEALTH", "LIMIT_OVER", "REBOOT", "SETTING"} :
    /\ At(Top(x), <<>>, NoCommand)
    /\ x # "HEALTH" => stage[x] # "done"

\* LimitOver or Reboot gives way to another scene.
AtChange == \E c \in Changes :
    /\ \/ /\ At(Top(c[1]), <<Change(c[1], c[2])>>, NoCommand)
          /\ phase = "command"
          /\ stage[c[1]] = "done"
       \/ At(Top(c[1]), <<>>, Change(c[1], c[2])) /\ stage[c[1]] = "done"
       \/ At(Alone, <<>>, Change(c[1], c[2]))
    /\ c[2] = "BOARD" => fader = "black"

\* The Board, until the last of its first children is there.
AtOpening ==
    \/ At(Top("BOARD"), <<>>, NoCommand) /\ stage["BOARD"] = "cdbInit"
    \/ /\ \/ At(Top("BOARD"),
                <<Child("BUTTON"), Child("CHANNEL_SELECT"), Child("ARROW")>>,
                NoCommand)
          \/ At(Top("BOARD"), <<Child("CHANNEL_SELECT"), Child("ARROW")>>,
                Child("BUTTON"))
          \/ At(ButtonOnly, <<Child("CHANNEL_SELECT"), Child("ARROW")>>, NoCommand)
          \/ At(ButtonOnly, <<Child("ARROW")>>, Child("CHANNEL_SELECT"))
          \/ At(ArrowToCome, <<Child("ARROW")>>, NoCommand)
          \/ At(ArrowToCome, <<>>, Child("ARROW"))
       /\ stage["BOARD"] = "init"

AtBoard ==
    /\ At(BoardOpen, <<>>, NoCommand)
    /\ stage["BOARD"] \in {"childCst", "childDst", "normal", "scroll",
                           "toSettings", "done"}

\* The Board has asked for one of the children that come and go.
AtBoardAndNext ==
    \/ /\ At(BoardOpen, <<ChannelsAgain>>, NoCommand)
       /\ stage["BOARD"] \in {"childCst", "scroll"}
       /\ phase = "command" \/ (phase = "calc" /\ it > 2)
    \/ /\ At(BoardOpen, <<CalendarAsked>>, NoCommand)
       /\ stage["BOARD"] = "childCst"
       /\ phase = "command" \/ (phase = "calc" /\ it > 2)
    \/ /\ At(BoardOpen, <<>>, ChannelsAgain)
       /\ stage["BOARD"] \in {"childCst", "childDst", "scroll"}
    \/ /\ At(BoardOpen, <<>>, CalendarAsked)
       /\ stage["BOARD"] = "childCst"

AtChannels ==
    /\ At(WithChannels, <<>>, NoCommand)
    /\ stage["BOARD"] \in {"init", "childCst", "childDst", "scroll", "toSettings",
                           "done"}

AtCalendar ==
    /\ At(WithCalendar, <<>>, NoCommand)
    /\ stage["BOARD"] \in {"childCst", "childDst", "scroll"}

\* The settings menu, and its screens.
AtSettings ==
    \/ At(Top("SETTING_BG"), <<Child("SETTING_BUTTON"), Child("SETTING_SELECT")>>,
          NoCommand)
    \/ At(Top("SETTING_BG"), <<Child("SETTING_SELECT")>>, Child("SETTING_BUTTON"))
    \/ At(NoSelect, <<Child("SETTING_SELECT")>>, NoCommand)
    \/ At(NoSelect, <<>>, Child("SETTING_SELECT"))
    \/ At(Settings, <<>>, NoCommand)
AtScreen == \E x \in Screens :
    /\ \/ At(Settings, <<Child(x)>>, NoCommand) /\ phase = "command"
       \/ At(Settings, <<>>, Child(x))
       \/ At(WithScreen(x), <<>>, NoCommand)
    /\ stage["SETTING_SELECT"] \in {"wait2", "wait3"}

\* Everything is to go.
AtEnd == \E root \in Roots, o \in {Alone, BoardOpen, NoSelect} :
    /\ At(o, <<ReserveAll(root)>>, NoCommand)
    /\ root = "BOARD" => fader = "black"
    /\ o = BoardOpen => stage["BOARD"] \in {"childCst", "childDst", "scroll",
                                            "normal", "done"}

\* Safe mode without a scene: the Board has left and asked for nothing.
AtNothing == At(Alone, <<>>, NoCommand)

MapInv == \/ AtStart \/ AtTop \/ AtChange \/ AtOpening \/ AtBoard
          \/ AtBoardAndNext \/ AtChannels \/ AtCalendar \/ AtSettings
          \/ AtScreen \/ AtEnd \/ AtNothing

-----------------------------------------------------------------------------
(* What holds everywhere.                                                   *)

TreeInv == parent = [x \in SceneId |-> IF x \in Live THEN Above(x) ELSE NONE]

\* A scene has a stage while its object exists.
StageInv ==
    /\ stage \in [SceneId -> Stage]
    /\ \A x \in SceneId :
          stage[x] = "gone" <=> x = "ROOT" \/ x \notin Live \union {reserved}
    /\ reserved # NONE => stage[reserved] = InitStage(reserved)
    /\ stage["BOARD"] \in {"cdbInit", "init"} =>
           fader = "black" /\ stage["CHANNEL_SELECT"] \in {"gone", "in"}

\* Who is to be destroyed; and ChannelSelect is gone before the Board's turn.
Lasting == {"ROOT", "BUTTON", "ARROW", "SETTING_BG", "SETTING_BUTTON", "SETTING"}
DoomInv ==
    /\ destroyReq \subseteq Live \ Lasting
    /\ \A x \in destroyReq : stage[x] = "done"
    /\ \A x \in Live \ {"BOARD"} : stage[x] = "done" => x \in destroyReq
    /\ phase = "end" => destroyReq = {}
    /\ phase = "calc" /\ stage["CHANNEL_SELECT"] = "done" => it > 2

TurnInv ==
    /\ phase \in {"calc", "command", "detach", "end"}
    /\ it \in Nat
    /\ IF phase = "calc" THEN it \in DOMAIN order ELSE it = 1

\* The requests to destroy everything, and requestExit of the Board.
Asking == {"HEALTH", "BOARD", "CHANNEL_SELECT", "SETTING_SELECT"}
Ending == order = BoardOpen /\ \E root \in Roots : mCommands = <<ReserveAll(root)>>
AskInv ==
    /\ command \in [SceneId -> Roots \union {NONE}]
    /\ \A x \in SceneId \ Asking : command[x] = NONE
    /\ command["HEALTH"] # NONE <=> stage["HEALTH"] = "done"
    /\ command["HEALTH"] # NONE => fader = "black"
    /\ command["SETTING_SELECT"] # NONE <=>
           stage["SETTING_SELECT"] \in {"out1", "blackout", "done"}
    /\ stage["SETTING_SELECT"] = "done" /\ command["SETTING_SELECT"] = "BOARD" =>
           fader = "black"
BoardInv ==
    /\ board \in [count : BOOLEAN, read : BOOLEAN, exit : BOOLEAN]
    /\ command["BOARD"] # NONE =>
          /\ stage["BOARD"] \in {"toSettings", "done"}
          /\ command["BOARD"] # "BOARD"
          /\ ~board.exit
    /\ command["BOARD"] # NONE /\ "CHANNEL_SELECT" \in Live =>
           stage["CHANNEL_SELECT"] = "in" /\ fader \in {"out", "black"}
    /\ stage["BOARD"] = "toSettings" => command["BOARD"] # NONE
    /\ command["CHANNEL_SELECT"] # NONE =>
          /\ stage["CHANNEL_SELECT"] \in {"setting", "done"}
          /\ command["CHANNEL_SELECT"] # "BOARD"
    /\ board.exit <=> command["CHANNEL_SELECT"] # NONE \/ Ending
    /\ stage["CHANNEL_SELECT"] = "setting" => board.exit

\* A Board that takes input although it was told to exit has it from a scroll.
StrayInv ==
    /\ stray \in {"no", "back", "asked"}
    /\ board.exit /\ stage["BOARD"] = "normal" => stray = "back"

CreatedInv ==
    /\ mbCreatedReserved \in BOOLEAN
    /\ mbCreatedReserved /\ mReservedCommand.type = "CHANGE" => order = Alone
    /\ mbCreatedReserved => reserved # NONE

\* The Task1 thread and the Calendar, as far as the types go.
WorkInv ==
    /\ task1q \in Seq(Job)
    /\ job \in Job
    /\ task \in [scene : {NONE, "held", "freed"}, month : Month \union {NONE},
                 met : BOOLEAN, told : BOOLEAN]
    /\ look \in Live \union {NONE}
    /\ calendar \in [searching : BOOLEAN, canceled : BOOLEAN,
                     then : {NONE, "scroll", "leaving"}, month : Month,
                     mark : Month \union {NONE}, whole : BOOLEAN]
    /\ stage["CALENDAR"] = "waitTask" => calendar.then # NONE
    /\ fader \in {"black", "in", "shown", "out"}
    /\ mbDestroySyncTask \in BOOLEAN
    /\ mode \in {"normal", "safe", "full"}

MenuInv == /\ MapInv /\ TreeInv /\ StageInv /\ DoomInv /\ TurnInv
           /\ AskInv /\ BoardInv /\ CreatedInv /\ WorkInv
-----------------------------------------------------------------------------
(* The jobs of Task1 and the scenes they use.                               *)

\* A scene waits for its jobs of that kind.
Awaited(kind) == \/ kind = "count" /\ board.count
                 \/ kind = "read" /\ board.read
                 \/ kind = "search" /\ calendar.searching

\* A job whose scene is to outlive it.
Kept(j) == \/ j.kind = "search"
           \/ j.kind \in {"count", "read"} /\ ~j.late /\ ~j.over

\* It is the only one of its kind, and its scene waits for it: the scene is there
\* and has not asked to be destroyed.
KeptInv ==
    /\ \A i \in DOMAIN task1q : Kept(task1q[i]) =>
          /\ Awaited(task1q[i].kind)
          /\ job.kind = task1q[i].kind => task.told
          /\ \A h \in DOMAIN task1q : h < i => task1q[h].kind # task1q[i].kind
    /\ Kept(job) /\ ~task.told =>
          /\ Awaited(job.kind)
          /\ task.scene # "freed"
          /\ look \in {NONE, "ROOT", "BOARD", SceneOf(job.kind)}
    /\ \A kind \in {"count", "read", "search"} :
          Awaited(kind) => SceneOf(kind) \in Live \ destroyReq

\* The sync job is behind all jobs but those posted after the request to destroy
\* everything, and the request is there until it has been carried out.
SyncInv ==
    /\ \A i \in DOMAIN task1q : task1q[i].kind = "sync" =>
          /\ RequestPending /\ ~mbDestroySyncTask
          /\ \A j \in DOMAIN task1q : i < j => task1q[j].late /\ task1q[j].kind # "sync"
    /\ job.kind = "sync" => RequestPending /\ ~mbDestroySyncTask
    /\ mbDestroySyncTask => RequestPending /\ (job # NoJob => job.late)
    /\ mbDestroySyncTask \/ job.kind = "sync" =>
          \A i \in DOMAIN task1q : task1q[i].late /\ task1q[i].kind # "sync"

TaskInv ==
    /\ job = NoJob \/ job.kind = "sync" => task = NoTask /\ look = NONE
    /\ job # NoJob => job.kind # NONE
    /\ \A i \in DOMAIN task1q : task1q[i].kind # NONE
    /\ task.told => look = NONE /\ job.kind \in {"read", "search"}
    /\ task.met => job.kind = "search"

\* The search of the Calendar.
SearchInv ==
    /\ "CALENDAR" \notin Live => calendar = NewCalendar
    /\ calendar.searching => stage["CALENDAR"] \notin {"scroll", "leaving", "done"}
    /\ calendar.canceled =>
          \/ job.kind = "search" /\ task.told /\ task.scene = "held"
          \/ calendar.searching /\ stage["CALENDAR"] = "waitTask"
    /\ calendar.mark \in {NONE, calendar.month}
    /\ job.kind = "search" /\ ~task.told => task.month \in {NONE, calendar.month}
    /\ "CALENDAR" \in Live /\ stage["CALENDAR"] \in {"in", "normal", "waitExit"} =>
          calendar.searching \/ calendar.whole

WorkersInv == KeptInv /\ SyncInv /\ TaskInv /\ SearchInv
=============================================================================
