---------------------------- MODULE SceneManager ----------------------------
(***************************************************************************)
(* scene::Manager (src/src/scene/sceneSystem/iplSceneManager.cpp) and the  *)
(* part of scene::Base it drives: a tree of scenes, of which every frame   *)
(* calls calc() on each, then executes at most one command, then destroys  *)
(* the scenes that asked for it.  A new scene is first "reserved": its     *)
(* files are requested from the NAND thread, followed by a token, and it   *)
(* joins the tree when the token comes back.                               *)
(*                                                                         *)
(* This module has the manager and the threads it talks to; what the       *)
(* scenes themselves do in calc() is in MenuScenes.  A scene is named by   *)
(* its ID: at most one object of an ID exists (LookupsSucceed, MenuScenes). *)
(* A pointer to an object becomes Dangling when that object is destroyed.  *)
(***************************************************************************)
EXTENDS Naturals, FiniteSets, SequencesExt, Functions

\* iplSceneCreator: the scenes modelled, by the heap their size selects.
Big    == {"BOARD", "CHANNEL_SELECT", "CALENDAR", "HEALTH", "LIMIT_OVER",
           "SETTING", "SETTING_SELECT", "CHANNEL_EDIT", "MEMORY"}
Medium == {"BUTTON", "SETTING_BUTTON"}
Small  == {"ROOT", "ARROW", "SETTING_BG", "REBOOT"}
SceneId == Big \union Medium \union Small

NONE     == "NONE"      \* a NULL pointer, or no scene
Dangling == "DANGLING"  \* a pointer to freed memory
Pointer  == SceneId \union {NONE, Dangling}

MAX_COMMANDS == 8

\* prepare() of these requests files; of the jammed ones ahead of all others.
\* Files requested one after another are loaded one after another, so they
\* count as one.
Loading == SceneId \ {"ROOT", "ARROW", "REBOOT"}
Jammed  == {"HEALTH", "LIMIT_OVER"}

\* isReady() of these looks at the file itself and needs no token.
OwnReady == {"HEALTH", "LIMIT_OVER"}

\* Their calc() is called although they have children.
ParentCalc == {"BOARD", "CHANNEL_SELECT", "SETTING_BG", "SETTING_SELECT"}

VARIABLES
    order,      \* the tree: the scenes in it, parents first, as ++it visits
    parent,     \*   them, and mpParent
    destroyReq, \* the scenes with SCN_STATE_DESTROY_REQ
    command,    \* mCommand of a scene: the next root, for reserveAll...
    stage,      \* the state variable of each scene's own
    fader,      \* status of the fader of the screen
    mCommands,  \* the commands the manager has yet to execute
    reserved,   \* mpReservedScene
    mReservedCommand,
    mbCreatedReserved,
    mbDestroySyncTask,
    phase,      \* where calc() is: scenes, command, detach, or the frame's end
    it,         \* its iterator, as an index of order
    nandq,      \* the NAND thread: files to load and tokens to send
    tokens,     \* its end-message queue
    task1q,     \* the Task1 thread: the jobs posted,
    job,        \*   the one being executed,
    task,       \*   what it holds,
    look,       \*   and where getScene is that it has called
    board,      \* mbDoCountTask, mbDoReadTask and mbExitRequest of the Board
    calendar    \* the search of the Calendar and what it is for

treeVars    == <<order, parent>>
sceneVars   == <<destroyReq, command, stage, fader, board, calendar>>
reserveVars == <<reserved, mReservedCommand, mbCreatedReserved>>
mainVars    == <<phase, it>>
task1Vars   == <<task1q, job, task, look>>
managerVars == <<treeVars, sceneVars, mCommands, reserveVars,
                 mbDestroySyncTask, mainVars, nandq, tokens, task1Vars>>

NoCommand == [type |-> NONE, new |-> NONE, prev |-> NONE, par |-> NONE,
              chi |-> NONE]
CreateChild(id, par, chi) ==
    [NoCommand EXCEPT !.type = "CHILD", !.new = id, !.par = par, !.chi = chi]
ReserveChange(id, prev, par, chi) ==
    [type |-> "CHANGE", new |-> id, prev |-> prev, par |-> par, chi |-> chi]
ReserveAll(root) == [NoCommand EXCEPT !.type = "ALL", !.new = root]
Command == [type : {NONE, "CHILD", "CHANGE", "ALL"},
            new : SceneId \union {NONE}, prev : SceneId \union {NONE},
            par : Pointer, chi : Pointer]

\* Queue::push, as often as there are commands in cs: one that finds the
\* queue full is dropped, and nobody looks.
Pushed(q, cs) == IF Len(q \o cs) <= MAX_COMMANDS THEN q \o cs
                 ELSE SubSeq(q \o cs, 1, MAX_COMMANDS)

-----------------------------------------------------------------------------
(* The tree.                                                                *)

Live == Range(order)
IndexOf(id) == CHOOSE i \in DOMAIN order : order[i] = id
HasChild(id) == \E x \in Live : parent[x] = id

\* The last index of the subtree of order[k].
LastBelow(k) == CHOOSE m \in k .. Len(order) :
    /\ \A j \in k + 1 .. m : parent[order[j]] \in {order[i] : i \in k .. j - 1}
    /\ m < Len(order) => parent[order[m + 1]] \notin {order[i] : i \in k .. m}

SubtreeAt(k) == {order[i] : i \in k .. LastBelow(k)}
Next_(id) == \* getNext()
    LET k == LastBelow(IndexOf(id)) + 1
    IN  IF k <= Len(order) /\ parent[order[k]] = parent[id] THEN order[k]
        ELSE NONE

\* Tree::insert before chi, or Tree::attach behind the children of par.
AttachAt(par, chi) ==
    IF chi # NONE THEN IndexOf(chi) ELSE LastBelow(IndexOf(par)) + 1

\* destroyScene is recursive and starts with the children.
DestroyedBefore(x, y) ==
    \/ IndexOf(x) \in IndexOf(y) + 1 .. LastBelow(IndexOf(y))
    \/ IndexOf(x) < LastBelow(IndexOf(x)) + 1 /\ LastBelow(IndexOf(x)) < IndexOf(y)

\* do_destroy pushes the command of every scene that has one: the sequence of
\* these commands, of which there is one.
CommandsOf(D) ==
    LET S == {x \in DOMAIN command : x \in D /\ command[x] # NONE}
    IN  {[i \in DOMAIN s |-> ReserveAll(command[s[i]])] :
            s \in {t \in [1 .. Cardinality(S) -> S] :
                      \A i, j \in DOMAIN t :
                          i < j => DestroyedBefore(t[i], t[j])}}

\* The command once the scenes in D are gone.
After(c, D) == [c EXCEPT !.par = IF @ \in D THEN Dangling ELSE @,
                         !.chi = IF @ \in D THEN Dangling ELSE @]

-----------------------------------------------------------------------------
(* Making and destroying scenes.                                            *)

InitStage(id) == CASE id = "BOARD" -> "cdbInit"
                   [] id = "SETTING_SELECT" -> "waitButton"
                   [] OTHER -> "in"
NewBoard == [count |-> FALSE, read |-> FALSE, exit |-> FALSE]

\* The dates of the Calendar are of a month, and two in a row are told apart.
\* A mark is where a date has a message: of one date, and the month it was
\* found in.  A search is whole when it was not cut short.
Month == {"even", "odd"}
NewCalendar == [searching |-> FALSE, canceled |-> FALSE, then |-> NONE,
                month |-> "even", mark |-> NONE, whole |-> FALSE]

\* The object of a scene as its constructor leaves it.
Construct(id) ==
    /\ stage' = [stage EXCEPT ![id] = InitStage(id)]
    /\ board' = IF id = "BOARD" THEN NewBoard ELSE board
    /\ calendar' = IF id = "CALENDAR" THEN NewCalendar ELSE calendar

\* Mutant: the token is sent before the files are requested.
PreparedTokenFirst(q, id) ==
    LET load == IF id \in Loading THEN <<<<"load", id>>>> ELSE <<>>
    IN  IF id \in Jammed THEN load \o Append(q, <<"token", id>>)
        ELSE Append(q, <<"token", id>>) \o load

\* do_prepare: the files of the scene, then its token.
Prepared(q, id) ==
    LET load  == IF id \in Loading THEN <<<<"load", id>>>> ELSE <<>>
        files == IF id \in Jammed THEN load \o q ELSE q \o load
    IN  Append(files, <<"token", id>>)
IsLoaded(id) == <<"load", id>> \notin Range(nandq)

\* What create() of a scene does to the queue and to the fader.
CreatePushes(id) ==
    IF id = "SETTING_BG"
    THEN <<CreateChild("SETTING_BUTTON", id, NONE),
           CreateChild("SETTING_SELECT", id, NONE)>>
    ELSE <<>>
FadedIn(f)  == IF f = "black" THEN "in" ELSE f   \* ColorFader::fadeIn
FadedOut(f) == IF f = "shown" THEN "out" ELSE f  \* ColorFader::fadeOut
CreateFade(id) == CASE id = "HEALTH" -> "shown"
                    [] id = "SETTING_BG" -> FadedIn(fader)
                    [] OTHER -> fader

\* A request to destroy everything that has not been carried out yet.
RequestPending == \/ \E x \in Live : command[x] # NONE
                  \/ \E c \in Range(mCommands) : c.type = "ALL"

\* A job of Task1, with what is to be known about the moment it was posted:
\* whether a destroy-all was pending, and whether one of its kind was.
JobOf(kind) ==
    [kind |-> kind, late |-> RequestPending,
     over |-> kind \in {j.kind : j \in Range(task1q) \union {job}}]
SceneOf(kind) == IF kind = "search" THEN "CALENDAR" ELSE "BOARD"

\* exec_search_task: the search goes ahead of the other jobs.
ExecSearchTask(c) ==
    /\ calendar' = [c EXCEPT !.searching = TRUE, !.whole = FALSE]
    /\ task1q' = <<JobOf("search")>> \o task1q

NoJob  == [kind |-> NONE, late |-> FALSE, over |-> FALSE]
NoTask == [scene |-> NONE, month |-> NONE, met |-> FALSE, told |-> FALSE]

\* The scenes in D cease to exist.
Destroy(D) ==
    /\ destroyReq' = destroyReq \ D
    /\ parent' = [x \in SceneId |-> IF x \in D THEN NONE ELSE parent[x]]
    /\ stage' = [x \in SceneId |-> IF x \in D THEN "gone" ELSE stage[x]]
    /\ board' = IF "BOARD" \in D THEN NewBoard ELSE board
    /\ command'  = [x \in SceneId |-> IF x \in D THEN NONE ELSE command[x]]
    /\ calendar' = IF "CALENDAR" \in D THEN NewCalendar ELSE calendar
    /\ task' = IF \/ look \in D
                  \/ task.scene = "held" /\ SceneOf(job.kind) \in D
               THEN [task EXCEPT !.scene = "freed"] ELSE task
    /\ look' = IF look \in D THEN NONE ELSE look
    /\ mReservedCommand' = After(mReservedCommand, D)

-----------------------------------------------------------------------------
(* Manager::calc, after the scenes.                                         *)

\* createScene(command): the scene exists, outside of the tree.
Reserve(c, created) ==
    /\ Construct(c.new)
    /\ nandq' = Prepared(nandq, c.new)
    /\ reserved' = c.new
    /\ mReservedCommand' = c
    /\ mbCreatedReserved' = created
    /\ mCommands' = Tail(mCommands)
    /\ phase' = "detach"
    /\ UNCHANGED <<treeVars, destroyReq, command, fader, mbDestroySyncTask, it,
                   tokens, task1Vars>>

ExecCreateChild ==
    /\ phase = "command"
    /\ reserved = NONE
    /\ mCommands # <<>>
    /\ Head(mCommands).type = "CHILD"
    /\ Reserve(Head(mCommands), TRUE)

ExecReserveChange ==
    /\ phase = "command"
    /\ reserved = NONE
    /\ mCommands # <<>>
    /\ Head(mCommands).type = "CHANGE"
    /\ Reserve(Head(mCommands), FALSE)

\* Mutant: the job of Task1 is not waited for.
ExecReserveAllAtOnce ==
    /\ phase = "command"
    /\ reserved = NONE
    /\ mCommands # <<>>
    /\ Head(mCommands).type = "ALL"
    /\ Destroy(Live)
    /\ order' = <<"ROOT">>
    /\ \E cs \in CommandsOf(Live) :
           mCommands' = Tail(Pushed(Pushed(
               [i \in DOMAIN mCommands |-> After(mCommands[i], Live)],
               cs), <<CreateChild(Head(mCommands).new, "ROOT", NONE)>>))
    /\ mbDestroySyncTask' = FALSE
    /\ phase' = "detach"
    /\ UNCHANGED <<fader, reserved, mbCreatedReserved, it, nandq, tokens, task1q,
                   job>>

\* Everything goes, and a new root asks for its first scene.  The command
\* leaves the queue last.
ExecReserveAll ==
    /\ phase = "command"
    /\ reserved = NONE
    /\ mCommands # <<>>
    /\ Head(mCommands).type = "ALL"
    /\ mbDestroySyncTask
    /\ Destroy(Live)
    /\ order' = <<"ROOT">>
    /\ \E cs \in CommandsOf(Live) :
           mCommands' = Tail(Pushed(Pushed(
               [i \in DOMAIN mCommands |-> After(mCommands[i], Live)],
               cs), <<CreateChild(Head(mCommands).new, "ROOT", NONE)>>))
    /\ mbDestroySyncTask' = FALSE
    /\ phase' = "detach"
    /\ UNCHANGED <<fader, reserved, mbCreatedReserved, it, nandq, tokens, task1q,
                   job>>

\* isReady: one token is taken, whosever it is.
Token == IF tokens = <<>> THEN NONE ELSE Head(tokens)
IsReady == \/ Token = mReservedCommand.new
           \/ reserved \in OwnReady /\ IsLoaded(reserved)
TakeToken == tokens' = IF tokens = <<>> THEN <<>> ELSE Tail(tokens)

\* The scene would be linked with freed memory: what becomes of the menu then is
\* not followed.
LinksFreed == Dangling \in {mReservedCommand.par, mReservedCommand.chi}
AttachToFreed ==
    /\ phase = "command"
    /\ reserved # NONE
    /\ mbCreatedReserved
    /\ IsReady
    /\ LinksFreed
    /\ UNCHANGED managerVars

AttachReserved ==
    /\ phase = "command"
    /\ reserved # NONE
    /\ mbCreatedReserved
    /\ IsReady
    /\ TakeToken
    /\ ~LinksFreed
    /\ LET par == IF mReservedCommand.par = NONE THEN "ROOT"
                  ELSE mReservedCommand.par
           at  == AttachAt(par, mReservedCommand.chi)
       IN  /\ order' = InsertAt(order, at, reserved)
           /\ parent' = [parent EXCEPT ![reserved] = par]
    /\ mCommands' = Pushed(mCommands, CreatePushes(reserved))
    /\ fader' = CreateFade(reserved)
    /\ IF reserved = "CALENDAR" THEN ExecSearchTask(calendar)
       ELSE UNCHANGED <<calendar, task1q>>
    /\ reserved' = NONE
    /\ mReservedCommand' = NoCommand
    /\ mbCreatedReserved' = FALSE
    /\ phase' = "detach"
    /\ UNCHANGED <<destroyReq, command, stage, board, mbDestroySyncTask, it,
                   nandq, job, task, look>>

\* The token, if there was one, is of another scene: it is gone.
AwaitReserved ==
    /\ phase = "command"
    /\ reserved # NONE
    /\ mbCreatedReserved
    /\ ~IsReady
    /\ TakeToken
    /\ phase' = "detach"
    /\ UNCHANGED <<treeVars, sceneVars, mCommands, reserveVars,
                   mbDestroySyncTask, it, nandq, task1Vars>>

NothingToExec ==
    /\ phase = "command"
    /\ \/ reserved # NONE /\ ~mbCreatedReserved
       \/ /\ reserved = NONE
          /\ mCommands # <<>> =>
                 Head(mCommands).type = "ALL" /\ ~mbDestroySyncTask
    /\ phase' = "detach"
    /\ UNCHANGED <<treeVars, sceneVars, mCommands, reserveVars,
                   mbDestroySyncTask, it, nandq, tokens, task1Vars>>

\* detach(): backwards through the tree, so the last one comes first.
Doomed == {i \in DOMAIN order : order[i] \in destroyReq}

\* Mutant: a scene that was to replace this one is not told.
DetachForgets ==
    /\ phase = "detach"
    /\ Doomed # {}
    /\ LET k == CHOOSE i \in Doomed : \A j \in Doomed : j <= i
           D == SubtreeAt(k)
       IN  /\ Destroy(D)
           /\ order' = SubSeq(order, 1, k - 1)
                          \o SubSeq(order, LastBelow(k) + 1, Len(order))
           /\ \E cs \in CommandsOf(D) :
                  mCommands' = Pushed([i \in DOMAIN mCommands |->
                                          After(mCommands[i], D)], cs)
    /\ UNCHANGED <<fader, reserved, mbCreatedReserved, mbDestroySyncTask,
                   mainVars, nandq, tokens, task1q, job>>

Detach ==
    /\ phase = "detach"
    /\ Doomed # {}
    /\ LET k == CHOOSE i \in Doomed : \A j \in Doomed : j <= i
           D == SubtreeAt(k)
       IN  /\ mbCreatedReserved' =
                  (mbCreatedReserved \/ mReservedCommand.prev = order[k])
           /\ Destroy(D)
           /\ order' = SubSeq(order, 1, k - 1)
                          \o SubSeq(order, LastBelow(k) + 1, Len(order))
           /\ \E cs \in CommandsOf(D) :
                  mCommands' = Pushed([i \in DOMAIN mCommands |->
                                          After(mCommands[i], D)], cs)
    /\ UNCHANGED <<fader, reserved, mbDestroySyncTask, mainVars, nandq, tokens,
                   task1q, job>>

EndCalc ==
    /\ phase = "detach"
    /\ Doomed = {}
    /\ phase' = "end"
    /\ UNCHANGED <<treeVars, sceneVars, mCommands, reserveVars,
                   mbDestroySyncTask, it, nandq, tokens, task1Vars>>

\* The rest of the frame; the fader takes some 20 of them to change.
NextFrame ==
    /\ phase = "end"
    /\ phase' = "calc"
    /\ it' = 1
    /\ UNCHANGED fader
    /\ UNCHANGED <<treeVars, destroyReq, command, stage, board, calendar,
                   mCommands, reserveVars, mbDestroySyncTask, nandq, tokens, task1Vars>>

FadeDone ==
    /\ phase = "end"
    /\ fader \in {"in", "out"}
    /\ fader' = IF fader = "in" THEN "shown" ELSE "black"
    /\ phase' = "calc"
    /\ it' = 1
    /\ UNCHANGED <<treeVars, destroyReq, command, stage, board, calendar,
                   mCommands, reserveVars, mbDestroySyncTask, nandq, tokens, task1Vars>>

ManagerStep ==
    \/ ExecCreateChild
    \/ ExecReserveChange
    \/ ExecReserveAll
    \/ AttachReserved
    \/ AttachToFreed
    \/ AwaitReserved
    \/ NothingToExec
    \/ Detach
    \/ EndCalc
    \/ NextFrame
    \/ FadeDone

-----------------------------------------------------------------------------
(* The NAND thread and Task1.                                               *)

NandStep ==
    /\ nandq # <<>>
    /\ nandq' = Tail(nandq)
    /\ tokens' = IF Head(nandq)[1] = "token"
                 THEN Append(tokens, Head(nandq)[2]) ELSE tokens
    /\ UNCHANGED <<treeVars, sceneVars, mCommands, reserveVars,
                   mbDestroySyncTask, mainVars, task1Vars>>

\* Each task looks its scene up first.
StartJob ==
    /\ job = NoJob
    /\ task1q # <<>>
    /\ job' = Head(task1q)
    /\ task1q' = Tail(task1q)
    /\ look' = IF Head(task1q).kind = "sync" THEN NONE ELSE "ROOT"
    /\ UNCHANGED <<treeVars, sceneVars, mCommands, reserveVars, task,
                   mbDestroySyncTask, mainVars, nandq, tokens>>

\* getScene: one step of the iterator of the tree, which goes to the child, or
\* to the next scene of this one or of a scene above it.
LookOn ==
    /\ look \notin {NONE, SceneOf(job.kind)}
    /\ look' = LET k == IndexOf(look) + 1
               IN  IF k <= Len(order) THEN order[k] ELSE NONE
    /\ UNCHANGED <<treeVars, sceneVars, mCommands, reserveVars, task1q, job, task,
                   mbDestroySyncTask, mainVars, nandq, tokens>>

\* The task has found its scene, and keeps the pointer.
Found ==
    /\ look = SceneOf(job.kind)
    /\ task.scene = NONE
    /\ task' = [task EXCEPT !.scene = "held"]
    /\ look' = NONE
    /\ UNCHANGED <<treeVars, sceneVars, mCommands, reserveVars, task1q, job,
                   mbDestroySyncTask, mainVars, nandq, tokens>>

\* The task is at work, and not in its callback.
Working(kinds) == /\ job.kind \in kinds
                  /\ task.scene = "held"
                  /\ ~task.told
                  /\ look = NONE

\* search_task_, at one of its dates: it searches it unless it was told to stop.
SearchDate ==
    /\ Working({"search"})
    /\ task.month = NONE
    /\ ~calendar.canceled
    /\ task' = [task EXCEPT !.month = calendar.month]
    /\ UNCHANGED <<treeVars, sceneVars, mCommands, reserveVars, task1q, job, look,
                   mbDestroySyncTask, mainVars, nandq, tokens>>

\* The database has a record for it: the callback looks the scene up again.  So
\* do the callbacks of the Board, which find the same Board as the task did.
MeetRecord ==
    /\ Working({"search"})
    /\ ~task.met
    /\ task.month # NONE
    /\ task' = [task EXCEPT !.met = TRUE]
    /\ look' = "ROOT"
    /\ UNCHANGED <<treeVars, sceneVars, mCommands, reserveVars, task1q, job,
                   mbDestroySyncTask, mainVars, nandq, tokens>>

\* It uses the record; that of the Calendar marks the date.
UseRecord ==
    /\ task.met
    /\ look = SceneOf(job.kind)
    /\ calendar' = [calendar EXCEPT !.mark = task.month]
    /\ look' = NONE
    /\ UNCHANGED <<treeVars, destroyReq, command, stage, fader, board, mCommands,
                   reserveVars, task1q, job, task, mbDestroySyncTask, mainVars,
                   nandq, tokens>>

\* Mutant: a search that is cut short does not say that it has ended.
JobTellsIfWhole ==
    /\ Working({"read", "search"})
    /\ job.kind = "search" => calendar.canceled \/ task.month # NONE
    /\ task' = [task EXCEPT !.told = TRUE]
    /\ IF job.kind = "read"
       THEN board' = [board EXCEPT !.read = FALSE] /\ UNCHANGED calendar
       ELSE /\ calendar' = [calendar EXCEPT !.searching = @ /\ calendar.canceled,
                                            !.whole = task.month # NONE]
            /\ UNCHANGED board
    /\ UNCHANGED <<treeVars, destroyReq, command, stage, fader, mCommands,
                   reserveVars, task1q, job, look, mbDestroySyncTask, mainVars,
                   nandq, tokens>>

\* Two of the tasks end with two stores into their scene; this is the first,
\* for which the main thread waits.
JobTells ==
    /\ Working({"read", "search"})
    /\ job.kind = "search" => calendar.canceled \/ task.month # NONE
    /\ task' = [task EXCEPT !.told = TRUE]
    /\ IF job.kind = "read"
       THEN board' = [board EXCEPT !.read = FALSE] /\ UNCHANGED calendar
       ELSE /\ calendar' = [calendar EXCEPT !.searching = FALSE,
                                            !.whole = task.month # NONE]
            /\ UNCHANGED board
    /\ UNCHANGED <<treeVars, destroyReq, command, stage, fader, mCommands,
                   reserveVars, task1q, job, look, mbDestroySyncTask, mainVars,
                   nandq, tokens>>

\* The last store, and the job is done.
FinishJob ==
    /\ job # NoJob
    /\ look = NONE
    /\ ~Working({"read", "search"})
    /\ LET held == task.scene = "held"
       IN  /\ board' = [board EXCEPT !.count =
                            @ /\ ~(held /\ job.kind = "count")]
           /\ calendar' = [calendar EXCEPT !.canceled =
                               @ /\ ~(held /\ job.kind = "search")]
    /\ mbDestroySyncTask' = (mbDestroySyncTask \/ job.kind = "sync")
    /\ job' = NoJob
    /\ task' = NoTask
    /\ UNCHANGED <<treeVars, destroyReq, command, stage, fader, mCommands,
                   reserveVars, mainVars, nandq, tokens, task1q, look>>

Task1Step ==
    \/ StartJob
    \/ LookOn
    \/ Found
    \/ SearchDate
    \/ MeetRecord
    \/ UseRecord
    \/ JobTells
    \/ FinishJob
ThreadStep == NandStep \/ Task1Step
=============================================================================
