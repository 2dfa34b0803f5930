-------------------------- MODULE MenuScenesProofs --------------------------
(***************************************************************************)
(* Proofs about SceneManager and MenuScenes, for every choice of initial   *)
(* scenes and any number of jobs: first that a scene has its files when it *)
(* is created; then that the manager keeps the map of the menu, which the  *)
(* calls of the scenes and the threads keep by MenuMapProofs, and what     *)
(* follows from the map.                                                   *)
(***************************************************************************)
EXTENDS MenuMapProofs

-----------------------------------------------------------------------------
(* The commands.  skHealth and LimitOver, which attach without their token,  *)
(* are only ever the first scene: no command asks for one of them but that  *)
(* of the boot, before anything else has happened.                          *)

Fresh ==
    /\ order = <<"ROOT">>
    /\ it = 1
    /\ Len(mCommands) = 1
    /\ reserved = NONE
    /\ nandq = <<>>
    /\ tokens = <<>>

\* A record that is a command; and one for a scene that may come at any time.
IsCommand(c) == {"type", "new"} \subseteq DOMAIN c /\ c.new \in SceneId
Plain(c) == IsCommand(c) /\ c.new \notin OwnReady
PlainSeq(cs) == cs \in Seq(Range(cs)) /\ \A i \in DOMAIN cs : Plain(cs[i])

CommandInv ==
    /\ mCommands \in Seq(Range(mCommands))
    /\ \A i \in DOMAIN mCommands :
          /\ IsCommand(mCommands[i])
          /\ mCommands[i].new \in OwnReady => Fresh /\ mCommands[i].type = "CHILD"
    /\ command \in [SceneId -> Roots \union {NONE}]
    /\ "ROOT" \notin destroyReq

\* A sequence over any set is one over its own elements.
LEMMA OwnRange ==
    ASSUME NEW S, NEW q \in Seq(S)
    PROVE  q \in Seq(Range(q)) /\ Range(q) \subseteq S
BY RangeOfSeq, SeqOfRange

\* What Pushed leaves in the queue was in it or is pushed.
LEMMA PushedFrom ==
    ASSUME NEW q, q \in Seq(Range(q)), NEW cs, cs \in Seq(Range(cs))
    PROVE  /\ Pushed(q, cs) \in Seq(Range(Pushed(q, cs)))
           /\ \A i \in DOMAIN Pushed(q, cs) :
                 \/ \E j \in DOMAIN q : Pushed(q, cs)[i] = q[j]
                 \/ \E j \in DOMAIN cs : Pushed(q, cs)[i] = cs[j]
<1> DEFINE S == Range(q) \union Range(cs)
           p == Pushed(q, cs)
<1>1. q \in Seq(S) /\ cs \in Seq(S)
  BY SeqMonotonic
<1>2. q \o cs \in Seq(S) /\ Len(q \o cs) \in Nat
  BY <1>1, ConcatProperties, LenProperties
<1>3. p \in Seq(S)
  <2> DEFINE t == q \o cs
  <2> HIDE DEF t
  <2>1. \A k \in 0 .. Len(t) : SubSeq(t, 1, k) \in Seq(S)
    BY <1>2, SubSeqProperties DEF t
  <2>2. p = IF Len(t) <= 8 THEN t ELSE SubSeq(t, 1, 8)
    BY DEF t, Pushed, MAX_COMMANDS
  <2>3. t \in Seq(S) /\ Len(t) \in Nat
    BY <1>2 DEF t
  <2> HIDE DEF p
  <2>4. CASE Len(t) <= 8
    BY <2>2, <2>3, <2>4
  <2>5. CASE ~ Len(t) <= 8
    <3>1. 8 \in 0 .. Len(t)
      BY <2>3, <2>5
    <3> QED
      BY <2>1, <2>2, <2>5, <3>1
  <2> QED
    BY <2>4, <2>5
<1>4. p \in Seq(Range(p)) /\ Range(p) \subseteq S
  BY <1>3, OwnRange
<1>5. \A i \in DOMAIN p : p[i] \in S
  BY <1>4 DEF Range
<1> QED
  BY <1>4, <1>5 DEF Range

LEMMA OnePlain ==
    ASSUME NEW c, Plain(c) PROVE PlainSeq(<<c>>)
BY DEF PlainSeq, Range

\* createChildScene and its likes ask for what they name.
LEMMA CommandFields ==
    ASSUME NEW id, NEW prev, NEW par, NEW chi
    PROVE  /\ IsCommand(CreateChild(id, par, chi)) <=> id \in SceneId
           /\ CreateChild(id, par, chi).new = id
           /\ CreateChild(id, par, chi).type = "CHILD"
           /\ IsCommand(ReserveChange(id, prev, par, chi)) <=> id \in SceneId
           /\ ReserveChange(id, prev, par, chi).new = id
           /\ IsCommand(ReserveAll(id)) <=> id \in SceneId
           /\ ReserveAll(id).new = id
BY DEF IsCommand, CreateChild, ReserveChange, ReserveAll, NoCommand

\* Pushing plain commands keeps the queue as it should be, once the boot is over.
LEMMA PushPlain ==
    ASSUME CommandInv, ~Fresh, NEW cs, PlainSeq(cs)
    PROVE  PlainSeq(Pushed(mCommands, cs))
<1>1. \A i \in DOMAIN mCommands : Plain(mCommands[i])
  BY DEF CommandInv, Plain
<1> QED
  BY <1>1, PushedFrom DEF CommandInv, PlainSeq

-----------------------------------------------------------------------------
(* What calc() of a scene does with the manager: it asks, and no more.      *)

Asks ==
    \/ UNCHANGED mCommands
    \/ \E cs : PlainSeq(cs) /\ mCommands' = Pushed(mCommands, cs)

CalcFacts ==
    /\ order[it] # "ROOT"
    /\ UNCHANGED <<order, reserveVars, nandq, tokens>>
    /\ \E id \in SceneId \ {"ROOT"} : destroyReq' \subseteq destroyReq \union {id}
    /\ \/ UNCHANGED command
       \/ \E id \in SceneId : \E root \in Roots :
             command' = [command EXCEPT ![id] = root]
    /\ Asks

LEMMA GoesFacts ==
    ASSUME NEW id \in SceneId \ {"ROOT"}, NEW s, NEW new, GoesOn(id, s, new)
    PROVE  /\ order[it] # "ROOT"
           /\ UNCHANGED <<order, reserveVars, nandq, tokens>>
BY DEF GoesOn, Turn, treeVars

\* A scene that asks the manager for nothing.
LEMMA NothingAsked ==
    ASSUME NEW id \in SceneId \ {"ROOT"}, NEW s, NEW new, GoesOn(id, s, new),
           UNCHANGED mCommands, UNCHANGED command,
           \/ UNCHANGED destroyReq
           \/ RequestDestruction(id)
    PROVE  CalcFacts
BY GoesFacts DEF CalcFacts, Asks, RequestDestruction

\* One that asks for other scenes.
LEMMA ScenesAsked ==
    ASSUME NEW id \in SceneId \ {"ROOT"}, NEW s, NEW new, GoesOn(id, s, new),
           NEW cs, PlainSeq(cs), mCommands' = Pushed(mCommands, cs),
           UNCHANGED command,
           \/ UNCHANGED destroyReq
           \/ RequestDestruction(id)
    PROVE  CalcFacts
BY GoesFacts DEF CalcFacts, Asks, RequestDestruction

\* One that asks for everything to be destroyed.
LEMMA DestructionAsked ==
    ASSUME NEW id \in SceneId \ {"ROOT"}, NEW s, NEW new, GoesOn(id, s, new),
           NEW root \in Roots, ReserveAllDestruction(id, root),
           UNCHANGED mCommands,
           \/ UNCHANGED destroyReq
           \/ RequestDestruction(id)
    PROVE  CalcFacts
BY GoesFacts DEF CalcFacts, Asks, RequestDestruction, ReserveAllDestruction

LEMMA DiesFacts ==
    ASSUME NEW id \in SceneId \ {"ROOT"}, NEW s, Dies(id, s) PROVE CalcFacts
BY NothingAsked DEF Dies, Goes

LEMMA ChildAsked ==
    ASSUME NEW id \in SceneId \ OwnReady, NEW par, NEW chi
    PROVE  PlainSeq(<<CreateChild(id, par, chi)>>)
<1>1. Plain(CreateChild(id, par, chi))
  BY CommandFields DEF Plain
<1> QED
  BY <1>1, OnePlain

LEMMA ChangeAsked ==
    ASSUME NEW id \in SceneId \ {"ROOT"}, NEW s, NEW t, Goes(id, s, t),
           NEW new \in SceneId \ OwnReady, ChangeScene(id, new)
    PROVE  CalcFacts
<1>1. PlainSeq(<<ReserveChange(new, id, parent[id], Next_(id))>>)
  BY CommandFields, OnePlain DEF Plain
<1> QED
  BY <1>1, ScenesAsked DEF Goes, ChangeScene

LEMMA SceneNames ==
    /\ {"HEALTH", "LIMIT_OVER", "REBOOT", "BOARD", "CHANNEL_SELECT", "CALENDAR",
        "SETTING_BUTTON", "SETTING_SELECT", "CHANNEL_EDIT", "MEMORY"}
           \subseteq SceneId \ {"ROOT"}
    /\ {"BOARD", "BUTTON", "ARROW", "CHANNEL_SELECT", "CALENDAR", "SETTING_BG",
        "SETTING_BUTTON", "SETTING_SELECT", "SETTING", "CHANNEL_EDIT", "MEMORY"}
           \subseteq SceneId \ OwnReady
BY DEF SceneId, Big, Medium, Small, OwnReady

LEMMA SplashFacts ==
    ASSUME \/ \E id \in {"HEALTH", "LIMIT_OVER"} : PassSplash(id) \/ FadeSplash(id)
           \/ LeaveHealth
           \/ LeaveLimitOver
           \/ LeaveReboot
    PROVE  CalcFacts
<1>1. CASE \E id \in {"HEALTH", "LIMIT_OVER"} : PassSplash(id) \/ FadeSplash(id)
  BY <1>1, NothingAsked, SceneNames DEF PassSplash, FadeSplash, Goes
<1>2. CASE LeaveHealth
  BY <1>2, DestructionAsked, SceneNames DEF LeaveHealth, Goes, Roots
<1>3. CASE LeaveLimitOver
  BY <1>3, ChangeAsked, SceneNames DEF LeaveLimitOver
<1>4. CASE LeaveReboot
  BY <1>4, ChangeAsked, SceneNames DEF LeaveReboot
<1> QED
  BY <1>1, <1>2, <1>3, <1>4

LEMMA BoardFacts ==
    ASSUME \/ BoardCdbInit \/ BoardInit \/ BoardInitSafe \/ BoardInitFull
           \/ BoardTakesOver \/ BoardRecount \/ BoardNewDay \/ BoardScrolls
           \/ BoardScrollEnds \/ BoardToChannels \/ BoardToCalendar
           \/ BoardChildCame \/ BoardToSettings \/ BoardSDStopped \/ BoardLeaves
    PROVE  CalcFacts
<1> USE SceneNames
<1>1. CASE BoardCdbInit
  <2> DEFINE cs == <<CreateChild("BUTTON", "BOARD", NONE),
                     CreateChild("CHANNEL_SELECT", "BOARD", NONE),
                     CreateChild("ARROW", "BOARD", NONE)>>
  <2>1. PlainSeq(cs)
    <3>1. \A i \in DOMAIN cs : Plain(cs[i])
      BY CommandFields DEF Plain
    <3> QED
      BY <3>1 DEF PlainSeq, Range
  <2> QED
    BY <1>1, <2>1, ScenesAsked DEF BoardCdbInit, Goes
<1>2. CASE BoardInit \/ BoardInitSafe \/ BoardRecount \/ BoardNewDay
           \/ BoardScrolls \/ BoardLeaves
  BY <1>2, NothingAsked DEF BoardInit, BoardInitSafe, BoardRecount, BoardNewDay,
     BoardScrolls, BoardLeaves, Goes
<1>3. CASE BoardTakesOver \/ BoardScrollEnds \/ BoardChildCame \/ BoardSDStopped
  BY <1>3, NothingAsked DEF BoardTakesOver, BoardScrollEnds, BoardChildCame,
     BoardSDStopped, Goes, Keep
<1>4. CASE BoardInitFull \/ BoardToSettings
  BY <1>4, DestructionAsked DEF BoardInitFull, BoardToSettings, Goes, Roots
<1>5. CASE BoardToChannels
  BY <1>5, ChildAsked, ScenesAsked DEF BoardToChannels, Goes
<1>6. CASE BoardToCalendar
  BY <1>6, ChildAsked, ScenesAsked DEF BoardToCalendar, Goes
<1> QED
  BY <1>1, <1>2, <1>3, <1>4, <1>5, <1>6

LEMMA ChildFacts ==
    ASSUME \/ ChannelsShown \/ ChannelsToSettings \/ ChannelsToBoard
           \/ ChannelsLeave \/ CalendarShown \/ CalendarScrolls \/ CalendarExits
           \/ CalendarPicks \/ CalendarWaited \/ CalendarScrolled
           \/ CalendarLeaves
    PROVE  CalcFacts
<1> USE SceneNames
<1>1. CASE ChannelsShown \/ ChannelsToBoard \/ CalendarShown
  BY <1>1, NothingAsked DEF ChannelsShown, ChannelsToBoard, CalendarShown, Goes,
     Keep
<1>2. CASE ChannelsToSettings
  BY <1>2, DestructionAsked DEF ChannelsToSettings, Goes, Roots
<1>3. CASE ChannelsLeave \/ CalendarLeaves
  BY <1>3, DiesFacts DEF ChannelsLeave, CalendarLeaves
<1>4. ASSUME NEW s, NEW t, CalendarGoes(s, t) PROVE CalcFacts
  BY <1>4, NothingAsked DEF CalendarGoes
<1>5. CASE CalendarScrolls \/ CalendarExits \/ CalendarWaited \/ CalendarScrolled
  BY <1>4, <1>5 DEF CalendarScrolls, CalendarExits, CalendarWaited,
     CalendarScrolled
<1>6. CASE CalendarPicks
  BY <1>4, <1>6, NothingAsked DEF CalendarPicks
<1> QED
  BY <1>1, <1>2, <1>3, <1>5, <1>6

LEMMA SettingFacts ==
    ASSUME \/ SettingButtonShown \/ SelectStarts \/ SelectTurns \/ SelectSetting
           \/ SelectFadesOut \/ SelectBack \/ SelectLeaves
           \/ SelectOpens("page2", "wait2", "CHANNEL_EDIT")
           \/ SelectOpens("page3", "wait3", "MEMORY")
           \/ SelectChildGone \/ ScreenLeaves
    PROVE  CalcFacts
<1> USE SceneNames
<1>1. CASE SettingButtonShown \/ SelectStarts \/ SelectTurns \/ SelectChildGone
  BY <1>1, NothingAsked DEF SettingButtonShown, SelectStarts, SelectTurns,
     SelectChildGone, Goes, Keep
<1>2. CASE SelectFadesOut
  BY <1>2, NothingAsked DEF SelectFadesOut, Goes
<1>3. CASE SelectSetting \/ SelectBack
  BY <1>3, DestructionAsked DEF SelectSetting, SelectBack, Goes, Roots
<1>4. CASE SelectLeaves \/ ScreenLeaves
  BY <1>4, DiesFacts DEF SelectLeaves, ScreenLeaves
<1>5. CASE \/ SelectOpens("page2", "wait2", "CHANNEL_EDIT")
           \/ SelectOpens("page3", "wait3", "MEMORY")
  BY <1>5, ChildAsked, ScenesAsked DEF SelectOpens, Goes
<1> QED
  BY <1>1, <1>2, <1>3, <1>4, <1>5

LEMMA SceneSteps ==
    ASSUME UserStep \/ OwnStep PROVE CalcFacts
BY SplashFacts, BoardFacts, ChildFacts, SettingFacts DEF UserStep, OwnStep

-----------------------------------------------------------------------------
(* What destruction does with the commands.                                  *)

LEMMA ScenesFinite == IsFiniteSet(SceneId)
<1> DEFINE s == <<"BOARD", "CHANNEL_SELECT", "CALENDAR", "HEALTH", "LIMIT_OVER",
                  "SETTING", "SETTING_SELECT", "CHANNEL_EDIT", "MEMORY",
                  "BUTTON", "SETTING_BUTTON", "ROOT", "ARROW", "SETTING_BG",
                  "REBOOT">>
<1>1. s \in Seq(SceneId)
  BY DEF SceneId, Big, Medium, Small
<1>2. \A x \in SceneId : \E n \in 1 .. Len(s) : s[n] = x
  <2>1. Len(s) = 15
    OBVIOUS
  <2>2. \A n \in 1 .. 15 : n \in 1 .. Len(s)
    BY <2>1
  <2>3. /\ s[1] = "BOARD" /\ s[2] = "CHANNEL_SELECT" /\ s[3] = "CALENDAR"
        /\ s[4] = "HEALTH" /\ s[5] = "LIMIT_OVER" /\ s[6] = "SETTING"
        /\ s[7] = "SETTING_SELECT" /\ s[8] = "CHANNEL_EDIT" /\ s[9] = "MEMORY"
        /\ s[10] = "BUTTON" /\ s[11] = "SETTING_BUTTON" /\ s[12] = "ROOT"
        /\ s[13] = "ARROW" /\ s[14] = "SETTING_BG" /\ s[15] = "REBOOT"
    OBVIOUS
  <2> QED
    BY <2>2, <2>3 DEF SceneId, Big, Medium, Small
<1> QED
  BY <1>1, <1>2 DEF IsFiniteSet

LEMMA AfterPlain ==
    ASSUME NEW q, PlainSeq(q), NEW D
    PROVE  PlainSeq([i \in DOMAIN q |-> After(q[i], D)])
<1> DEFINE p == [i \in DOMAIN q |-> After(q[i], D)]
<1>1. DOMAIN q = 1 .. Len(q) /\ Len(q) \in Nat
  BY LenProperties DEF PlainSeq
<1>2. p \in Seq(Range(p))
  BY <1>1 DEF Range
<1>3. \A i \in DOMAIN p : Plain(p[i])
  BY DEF PlainSeq, Plain, IsCommand, After
<1> QED
  BY <1>2, <1>3 DEF PlainSeq

LEMMA CommandsPlain ==
    ASSUME NEW D, CommandInv, NEW cs \in CommandsOf(D)
    PROVE  PlainSeq(cs)
<1> DEFINE S == {x \in DOMAIN command : x \in D /\ command[x] # NONE}
<1>1. S \subseteq SceneId
  BY DEF CommandInv
<1>2. Cardinality(S) \in Nat
  BY <1>1, ScenesFinite, FS_Subset, FS_CardinalityType
<1>3. PICK s \in [1 .. Cardinality(S) -> S] :
          cs = [i \in DOMAIN s |-> ReserveAll(command[s[i]])]
  BY DEF CommandsOf
<1>4. \A i \in DOMAIN s : command[s[i]] \in Roots
  BY <1>1, <1>3 DEF CommandInv
<1>5. ASSUME NEW i \in DOMAIN cs PROVE Plain(cs[i])
  <2>1. i \in DOMAIN s /\ cs[i] = ReserveAll(command[s[i]])
    BY <1>3
  <2>2. command[s[i]] \in SceneId \ OwnReady
    BY <1>4, <2>1, SceneNames DEF Roots
  <2> QED
    BY <2>1, <2>2, CommandFields DEF Plain
<1>6. cs \in Seq(Range(cs))
  <2> DEFINE n == Cardinality(S)
  <2>1. n \in Nat /\ DOMAIN cs = 1 .. n
    BY <1>2, <1>3
  <2>2. cs = [i \in DOMAIN cs |-> cs[i]]
    BY <1>3
  <2> HIDE DEF n
  <2>3. cs \in [1 .. n -> Range(cs)]
    BY <2>1, <2>2 DEF Range
  <2> QED
    BY <2>1, <2>3, SeqDef
<1> QED
  BY <1>5, <1>6 DEF PlainSeq

LEMMA PlainPushed ==
    ASSUME NEW q, PlainSeq(q), NEW cs, PlainSeq(cs)
    PROVE  PlainSeq(Pushed(q, cs))
BY PushedFrom DEF PlainSeq

LEMMA TailFacts ==
    ASSUME NEW S, NEW q \in Seq(S), q # <<>>
    PROVE  /\ Tail(q) \in Seq(S) /\ Head(q) = q[1] /\ 1 \in DOMAIN q
           /\ \A i \in DOMAIN Tail(q) : i + 1 \in DOMAIN q /\ Tail(q)[i] = q[i + 1]
BY HeadTailProperties, LenProperties, EmptySeq

LEMMA PlainTail ==
    ASSUME NEW q, PlainSeq(q), q # <<>> PROVE PlainSeq(Tail(q))
BY TailFacts, OwnRange DEF PlainSeq

-----------------------------------------------------------------------------
(* The files and the tokens.  What the NAND thread has yet to do is for the  *)
(* scene in preparation, but for the tokens that skHealth and LimitOver left *)
(* behind.  A token is the last thing asked for a scene, and there is one.    *)

LoadInv ==
    /\ nandq \in Seq({"load", "token"} \X SceneId)
    /\ tokens \in Seq(SceneId)
    /\ reserved \in SceneId \union {NONE}
    /\ "new" \in DOMAIN mReservedCommand
    /\ reserved # NONE => mReservedCommand.new = reserved
    /\ \A i \in DOMAIN nandq :
          /\ nandq[i][2] \in OwnReady \union {reserved}
          /\ nandq[i][1] = "load" => nandq[i][2] = reserved
    /\ \A i \in DOMAIN tokens : tokens[i] \in OwnReady \union {reserved}
    /\ \A i, j \in DOMAIN tokens : tokens[i] = tokens[j] => i = j
    /\ \A i \in DOMAIN nandq : \A j \in DOMAIN tokens : nandq[i][2] # tokens[j]
    /\ \A i, j \in DOMAIN nandq :
          nandq[i][1] = "token" /\ nandq[i][2] = nandq[j][2] => j <= i

queueVars == <<reserved, mReservedCommand, nandq, tokens>>

LEMMA LoadKept == LoadInv /\ UNCHANGED queueVars => LoadInv'
BY DEF LoadInv, queueVars

\* A scene that is ready has its files.
LEMMA ReadyIsLoaded ==
    ASSUME LoadInv, reserved # NONE, IsReady
    PROVE  /\ IsLoaded(reserved)
           /\ \A i \in DOMAIN nandq : nandq[i][1] = "token" /\ nandq[i][2] \in OwnReady
           /\ \/ tokens # <<>> /\ Head(tokens) = reserved
              \/ reserved \in OwnReady
<1>1. reserved \in SceneId /\ NONE \notin SceneId
  BY DEF LoadInv, SceneId, Big, Medium, Small, NONE
<1>2. \A i \in DOMAIN nandq : /\ nandq[i] = <<nandq[i][1], nandq[i][2]>>
                              /\ nandq[i][1] \in {"load", "token"}
  BY DEF LoadInv
<1>3. CASE Token = mReservedCommand.new
  <2>1. tokens # <<>> /\ Head(tokens) = reserved
    BY <1>1, <1>3 DEF Token, LoadInv
  <2>2. 1 \in DOMAIN tokens /\ tokens[1] = reserved
    BY <2>1, TailFacts DEF LoadInv
  <2>3. \A i \in DOMAIN nandq : nandq[i][2] # reserved
    BY <2>2 DEF LoadInv
  <2>4. \A i \in DOMAIN nandq : nandq[i][1] = "token" /\ nandq[i][2] \in OwnReady
    BY <1>2, <2>3 DEF LoadInv
  <2>5. IsLoaded(reserved)
    BY <2>3 DEF IsLoaded, Range
  <2> QED
    BY <2>1, <2>4, <2>5
<1>4. CASE reserved \in OwnReady /\ IsLoaded(reserved)
  <2>1. \A i \in DOMAIN nandq : nandq[i] # <<"load", reserved>>
    BY <1>4 DEF IsLoaded, Range
  <2>2. \A i \in DOMAIN nandq : nandq[i][1] = "token"
    BY <1>2, <2>1 DEF LoadInv
  <2> QED
    BY <1>4, <2>2 DEF LoadInv
<1> QED
  BY <1>3, <1>4 DEF IsReady

\* Taking a token keeps what is known about the others.
LEMMA TokenTaken ==
    ASSUME LoadInv, TakeToken
    PROVE  /\ tokens' \in Seq(SceneId)
           /\ \A i \in DOMAIN tokens' : \E k \in DOMAIN tokens :
                 tokens'[i] = tokens[k] /\ k = i + 1
           /\ \A i, j \in DOMAIN tokens' : tokens'[i] = tokens'[j] => i = j
<1>1. CASE tokens = <<>>
  BY <1>1 DEF LoadInv, TakeToken
<1>2. CASE tokens # <<>>
  <2>1. tokens' = Tail(tokens)
    BY <1>2 DEF TakeToken
  <2>2. /\ Tail(tokens) \in Seq(SceneId)
        /\ \A i \in DOMAIN Tail(tokens) :
              i + 1 \in DOMAIN tokens /\ Tail(tokens)[i] = tokens[i + 1]
    BY <1>2, TailFacts DEF LoadInv
  <2>3. DOMAIN Tail(tokens) \subseteq Nat
    BY <2>2, LenProperties
  <2> QED
    BY <2>1, <2>2, <2>3 DEF LoadInv
<1> QED
  BY <1>1, <1>2

LEMMA LoadAttach ==
    ASSUME LoadInv, AttachReserved PROVE LoadInv'
<1>1. /\ reserved # NONE /\ IsReady /\ TakeToken
      /\ reserved' = NONE /\ mReservedCommand' = NoCommand /\ nandq' = nandq
  BY DEF AttachReserved
<1>2. \A i \in DOMAIN nandq : nandq[i][1] = "token" /\ nandq[i][2] \in OwnReady
  BY <1>1, ReadyIsLoaded
<1>3. \A i \in DOMAIN tokens' : tokens'[i] \in OwnReady
  <2>1. CASE reserved \in OwnReady
    BY <1>1, <2>1, TokenTaken DEF LoadInv
  <2>2. CASE tokens # <<>> /\ Head(tokens) = reserved
    <3>1. tokens[1] = reserved /\ 1 \in DOMAIN tokens
      BY <2>2, TailFacts DEF LoadInv
    <3>2. ASSUME NEW i \in DOMAIN tokens' PROVE tokens'[i] \in OwnReady
      <4>1. PICK k \in DOMAIN tokens : tokens'[i] = tokens[k] /\ k = i + 1
        BY <1>1, TokenTaken
      <4>2. i \in Nat /\ i # 0
        BY <1>1, TokenTaken, LenProperties
      <4>3. tokens[k] # reserved
        BY <3>1, <4>1, <4>2 DEF LoadInv
      <4> QED
        BY <4>1, <4>3 DEF LoadInv
    <3> QED
      BY <3>2
  <2> QED
    BY <1>1, <2>1, <2>2, ReadyIsLoaded
<1>4. \A i \in DOMAIN nandq : \A j \in DOMAIN tokens' : nandq[i][2] # tokens'[j]
  BY <1>1, TokenTaken DEF LoadInv
<1>5. "new" \in DOMAIN NoCommand
  BY DEF NoCommand
<1> QED
  BY <1>1, <1>2, <1>3, <1>4, <1>5, TokenTaken DEF LoadInv

LEMMA LoadAwait ==
    ASSUME LoadInv, AwaitReserved PROVE LoadInv'
BY TokenTaken DEF AwaitReserved, reserveVars, LoadInv

\* do_prepare puts the files of the scene behind what is there, and its token
\* last, unless the thread has nothing to do.
LEMMA PreparedFacts ==
    ASSUME NEW q \in Seq({"load", "token"} \X SceneId), NEW x \in SceneId,
           x \in Jammed => q = <<>>
    PROVE  LET p == Prepared(q, x)
           IN  /\ p \in Seq({"load", "token"} \X SceneId)
               /\ \A i \in DOMAIN p :
                     \/ i \in DOMAIN q /\ p[i] = q[i]
                     \/ i \notin DOMAIN q /\ i < Len(p) /\ p[i] = <<"load", x>>
                     \/ i \notin DOMAIN q /\ i = Len(p) /\ p[i] = <<"token", x>>
<1> DEFINE T == {"load", "token"} \X SceneId
           load == IF x \in Loading THEN <<<<"load", x>>>> ELSE <<>>
           files == IF x \in Jammed THEN load \o q ELSE q \o load
           p == Append(files, <<"token", x>>)
<1>1. load \in Seq(T) /\ <<"load", x>> \in T /\ <<"token", x>> \in T
  OBVIOUS
<1>2. files = q \o load
  <2>1. CASE x \in Jammed
    BY <1>1, <2>1, ConcatEmptySeq
  <2>2. CASE x \notin Jammed
    BY <2>2
  <2> QED
    BY <2>1, <2>2
<1>3. Len(load) \in {0, 1} /\ (Len(load) = 1 => load[1] = <<"load", x>>)
  OBVIOUS
<1>4. /\ files \in Seq(T)
      /\ Len(files) = Len(q) + Len(load)
      /\ Len(q) \in Nat
      /\ DOMAIN q = 1 .. Len(q)
      /\ \A i \in 1 .. Len(files) :
            files[i] = IF i <= Len(q) THEN q[i] ELSE load[i - Len(q)]
  <2> HIDE DEF load, files
  <2> QED
    BY <1>1, <1>2, ConcatProperties, LenProperties
<1> HIDE DEF load, files
<1>5. /\ p \in Seq(T)
      /\ Len(p) = Len(files) + 1
      /\ DOMAIN p = 1 .. Len(p)
      /\ \A i \in 1 .. Len(files) : p[i] = files[i]
      /\ p[Len(p)] = <<"token", x>>
  BY <1>1, <1>4, AppendProperties, LenProperties
<1> HIDE DEF p
<1>6. ASSUME NEW i \in DOMAIN p
      PROVE  \/ i \in DOMAIN q /\ p[i] = q[i]
             \/ i \notin DOMAIN q /\ i < Len(p) /\ p[i] = <<"load", x>>
             \/ i \notin DOMAIN q /\ i = Len(p) /\ p[i] = <<"token", x>>
  <2>1. i \in Nat /\ i >= 1 /\ i <= Len(q) + Len(load) + 1
    BY <1>3, <1>4, <1>5
  <2>2. CASE i <= Len(q)
    BY <1>3, <1>4, <1>5, <2>1, <2>2
  <2>3. CASE i = Len(p)
    BY <1>3, <1>4, <1>5, <2>3
  <2>4. CASE i > Len(q) /\ i # Len(p)
    <3>1. Len(load) = 1 /\ i = Len(q) + 1 /\ i < Len(p)
      <4>1. /\ Len(p) = Len(q) + Len(load) + 1 /\ Len(q) \in Nat
            /\ Len(load) = 0 \/ Len(load) = 1
        BY <1>3, <1>4, <1>5
      <4>2. CASE Len(load) = 0
        <5>1. i <= Len(q) + 1 /\ Len(p) = Len(q) + 1
          BY <2>1, <4>1, <4>2
        <5> QED
          BY <2>1, <2>4, <4>1, <5>1
      <4>3. CASE Len(load) = 1
        <5>1. i <= Len(q) + 2 /\ Len(p) = Len(q) + 2
          BY <2>1, <4>1, <4>3
        <5> QED
          BY <2>1, <2>4, <4>1, <4>3, <5>1
      <4> QED
        BY <4>1, <4>2, <4>3
    <3>2. p[i] = load[1]
      <4>1. i \in 1 .. Len(files) /\ i - Len(q) = 1 /\ ~(i <= Len(q))
        BY <1>4, <2>1, <3>1
      <4>2. files[i] = load[i - Len(q)]
        BY <1>4, <4>1
      <4>3. p[i] = files[i]
        BY <1>5, <4>1
      <4> QED
        BY <4>1, <4>2, <4>3
    <3> QED
      BY <1>3, <1>4, <2>1, <2>4, <3>1, <3>2
  <2> QED
    BY <1>4, <2>1, <2>2, <2>3, <2>4
<1>7. Prepared(q, x) = p
  BY DEF Prepared, p, files, load
<1> QED
  BY <1>5, <1>6, <1>7

LEMMA LoadReserve ==
    ASSUME LoadInv, CommandInv, reserved = NONE, mCommands # <<>>,
           NEW created, Reserve(Head(mCommands), created)
    PROVE  LoadInv'
<1> DEFINE c == Head(mCommands)
           x == c.new
<1>1. c = mCommands[1] /\ 1 \in DOMAIN mCommands
  BY TailFacts DEF CommandInv
<1>2. x \in SceneId /\ "new" \in DOMAIN c /\ (x \in OwnReady => Fresh)
  BY <1>1 DEF CommandInv, IsCommand
<1>3. /\ nandq' = Prepared(nandq, x) /\ reserved' = x /\ mReservedCommand' = c
      /\ tokens' = tokens
  BY DEF Reserve
<1>4. x \in Jammed => nandq = <<>>
  BY <1>2 DEF Jammed, OwnReady, Fresh
<1>5. /\ nandq' \in Seq({"load", "token"} \X SceneId)
      /\ \A i \in DOMAIN nandq' :
            \/ i \in DOMAIN nandq /\ nandq'[i] = nandq[i]
            \/ /\ i \notin DOMAIN nandq /\ i < Len(nandq')
               /\ nandq'[i] = <<"load", x>>
            \/ /\ i \notin DOMAIN nandq /\ i = Len(nandq')
               /\ nandq'[i] = <<"token", x>>
  <2> HIDE DEF x
  <2> QED
    BY <1>2, <1>3, <1>4, PreparedFacts DEF LoadInv
<1> HIDE DEF c, x
\* What was there is not the scene's.
<1>6. \A i \in DOMAIN nandq :
          nandq[i][2] # x /\ nandq[i][1] = "token" /\ nandq[i][2] \in OwnReady
  <2>1. NONE \notin SceneId
    BY DEF NONE, SceneId, Big, Medium, Small
  <2>2. \A i \in DOMAIN nandq : nandq[i][2] \in SceneId
                                /\ nandq[i][1] \in {"load", "token"}
    BY DEF LoadInv
  <2>3. x \in OwnReady => DOMAIN nandq = {}
    BY <1>2 DEF Fresh
  <2> QED
    BY <2>1, <2>2, <2>3 DEF LoadInv
<1>7. \A i \in DOMAIN tokens : tokens[i] # x /\ tokens[i] \in OwnReady
  <2>1. NONE \notin SceneId
    BY DEF NONE, SceneId, Big, Medium, Small
  <2>2. \A i \in DOMAIN tokens : tokens[i] \in SceneId
    BY DEF LoadInv
  <2>3. x \in OwnReady => DOMAIN tokens = {}
    BY <1>2 DEF Fresh
  <2> QED
    BY <2>1, <2>2, <2>3 DEF LoadInv
<1>8. \A i \in DOMAIN nandq' :
          /\ nandq'[i][2] \in OwnReady \union {x}
          /\ nandq'[i][1] = "load" => nandq'[i][2] = x
  BY <1>5, <1>6
<1>9. \A i \in DOMAIN nandq' : \A j \in DOMAIN tokens : nandq'[i][2] # tokens[j]
  BY <1>5, <1>7 DEF LoadInv
<1>10. ASSUME NEW i \in DOMAIN nandq', NEW j \in DOMAIN nandq',
              nandq'[i][1] = "token", nandq'[i][2] = nandq'[j][2]
       PROVE  j <= i
  <2>1. Len(nandq') \in Nat /\ DOMAIN nandq' = 1 .. Len(nandq')
    BY <1>5, LenProperties
  <2>2. CASE i \in DOMAIN nandq /\ nandq'[i] = nandq[i]
    BY <1>5, <1>6, <1>10, <2>2 DEF LoadInv
  <2>3. CASE nandq'[i] = <<"load", x>>
    BY <1>10, <2>3
  <2>4. CASE i = Len(nandq')
    BY <2>1, <2>4
  <2> QED
    BY <1>5, <2>2, <2>3, <2>4
<1>11. "new" \in DOMAIN c /\ c.new = x
  BY <1>2 DEF x
<1>12. tokens \in Seq(SceneId) /\ \A i, j \in DOMAIN tokens :
                                   tokens[i] = tokens[j] => i = j
  BY DEF LoadInv
<1> QED
  BY <1>2, <1>3, <1>5, <1>7, <1>8, <1>9, <1>10, <1>11, <1>12 DEF LoadInv

LEMMA LoadNand ==
    ASSUME LoadInv, NandStep PROVE LoadInv'
<1> DEFINE h == Head(nandq)
<1>1. /\ nandq # <<>> /\ nandq' = Tail(nandq)
      /\ tokens' = IF h[1] = "token" THEN Append(tokens, h[2]) ELSE tokens
      /\ UNCHANGED <<reserved, mReservedCommand>>
  BY DEF NandStep, reserveVars
<1>2. /\ nandq' \in Seq({"load", "token"} \X SceneId)
      /\ h = nandq[1] /\ 1 \in DOMAIN nandq
      /\ \A i \in DOMAIN nandq' : i + 1 \in DOMAIN nandq /\ nandq'[i] = nandq[i + 1]
  BY <1>1, TailFacts DEF LoadInv
<1>3. DOMAIN nandq' \subseteq Nat \ {0}
  BY <1>2, LenProperties
<1>4. h[2] \in SceneId /\ h[1] \in {"load", "token"}
  BY <1>2 DEF LoadInv
<1>5. /\ \A i \in DOMAIN nandq' :
            /\ nandq'[i][2] \in OwnReady \union {reserved}
            /\ nandq'[i][1] = "load" => nandq'[i][2] = reserved
      /\ \A i, j \in DOMAIN nandq' :
            nandq'[i][1] = "token" /\ nandq'[i][2] = nandq'[j][2] => j <= i
  <2>1. ASSUME NEW i \in DOMAIN nandq'
        PROVE  /\ nandq'[i][2] \in OwnReady \union {reserved}
               /\ nandq'[i][1] = "load" => nandq'[i][2] = reserved
    <3>1. i + 1 \in DOMAIN nandq /\ nandq'[i] = nandq[i + 1]
      BY <1>2
    <3> QED
      BY <3>1 DEF LoadInv
  <2>2. ASSUME NEW i \in DOMAIN nandq', NEW j \in DOMAIN nandq',
               nandq'[i][1] = "token", nandq'[i][2] = nandq'[j][2]
        PROVE  j <= i
    <3>1. i + 1 \in DOMAIN nandq /\ j + 1 \in DOMAIN nandq
      BY <1>2
    <3>2. nandq'[i] = nandq[i + 1] /\ nandq'[j] = nandq[j + 1]
      BY <1>2
    <3>3. j + 1 <= i + 1
      BY <2>2, <3>1, <3>2 DEF LoadInv
    <3> QED
      BY <1>3, <3>3
  <2> QED
    BY <2>1, <2>2
<1>6. CASE h[1] # "token"
  BY <1>1, <1>2, <1>5, <1>6 DEF LoadInv
<1>7. CASE h[1] = "token"
  <2>1. /\ tokens' \in Seq(SceneId)
        /\ DOMAIN tokens' = 1 .. Len(tokens) + 1 /\ DOMAIN tokens = 1 .. Len(tokens)
        /\ Len(tokens) \in Nat
        /\ \A i \in 1 .. Len(tokens) : tokens'[i] = tokens[i]
        /\ tokens'[Len(tokens) + 1] = h[2]
    BY <1>1, <1>4, <1>7, AppendProperties, LenProperties DEF LoadInv
  <2>2. \A j \in DOMAIN tokens : tokens[j] # h[2]
    BY <1>2 DEF LoadInv
  \* The token was the last of its scene's.
  <2>3. \A i \in DOMAIN nandq' : nandq'[i][2] # h[2]
    BY <1>2, <1>3, <1>7 DEF LoadInv
  <2>4. ASSUME NEW i \in DOMAIN tokens'
        PROVE  tokens'[i] \in OwnReady \union {reserved}
    <3>1. h[2] \in OwnReady \union {reserved}
      BY <1>2 DEF LoadInv
    <3>2. CASE i = Len(tokens) + 1
      BY <2>1, <3>1, <3>2
    <3>3. CASE i \in DOMAIN tokens
      BY <2>1, <3>3 DEF LoadInv
    <3> QED
      BY <2>1, <3>2, <3>3
  <2>5. \A i, j \in DOMAIN tokens' : tokens'[i] = tokens'[j] => i = j
    BY <2>1, <2>2 DEF LoadInv
  <2>6. \A i \in DOMAIN nandq' : \A j \in DOMAIN tokens' : nandq'[i][2] # tokens'[j]
    <3>1. ASSUME NEW i \in DOMAIN nandq', NEW j \in DOMAIN tokens
          PROVE  nandq'[i][2] # tokens[j]
      <4>1. i + 1 \in DOMAIN nandq /\ nandq'[i] = nandq[i + 1]
        BY <1>2
      <4> QED
        BY <4>1 DEF LoadInv
    <3> QED
      BY <2>1, <2>3, <3>1
  <2> QED
    BY <1>1, <1>2, <1>5, <2>1, <2>4, <2>5, <2>6 DEF LoadInv
<1> QED
  BY <1>6, <1>7

-----------------------------------------------------------------------------
(* Each step keeps both invariants.                                         *)

\* Steps that leave the manager's queues as they are.
QuietFacts ==
    /\ UNCHANGED <<order, mCommands, command, destroyReq, queueVars>>
    /\ Fresh => it' = 1

LEMMA QuietSteps ==
    ASSUME \/ NothingToExec \/ EndCalc \/ NextFrame \/ FadeDone \/ Idle
           \/ Task1Step
    PROVE  QuietFacts
<1> USE DEF QuietFacts, queueVars, treeVars, sceneVars, reserveVars
<1>1. CASE NothingToExec \/ EndCalc
  BY <1>1 DEF NothingToExec, EndCalc, Fresh
<1>2. CASE NextFrame \/ FadeDone
  BY <1>2 DEF NextFrame, FadeDone
<1>3. CASE Idle
  <2>1. Advance /\ UNCHANGED <<order, mCommands, command, destroyReq, queueVars>>
    BY <1>3 DEF Idle
  <2>2. ASSUME Fresh PROVE it' = 1
    <3>1. it = 1 /\ Len(order) = 1
      BY <2>2 DEF Fresh
    <3> QED
      BY <2>1, <3>1 DEF Advance
  <2> QED
    BY <2>1, <2>2
<1>4. CASE Task1Step
  <2> USE DEF mainVars, Fresh
  <2>1. CASE StartJob \/ LookOn \/ Found \/ SearchDate
    BY <2>1 DEF StartJob, LookOn, Found, SearchDate
  <2>2. CASE MeetRecord \/ UseRecord \/ JobTells \/ FinishJob
    BY <2>2 DEF MeetRecord, UseRecord, JobTells, FinishJob
  <2> QED
    BY <1>4, <2>1, <2>2 DEF Task1Step
<1> QED
  BY <1>1, <1>2, <1>3, <1>4

LEMMA CommandQuiet ==
    ASSUME CommandInv, QuietFacts PROVE CommandInv'
BY DEF CommandInv, QuietFacts, queueVars, Fresh, IsCommand

\* Once the boot is over all commands are plain.
LEMMA CommandPlain ==
    ASSUME PlainSeq(mCommands'),
           command' \in [SceneId -> Roots \union {NONE}],
           "ROOT" \notin destroyReq'
    PROVE  CommandInv'
BY LenProperties DEF CommandInv, PlainSeq, Plain, IsCommand

LEMMA AllPlain ==
    ASSUME CommandInv,
           ~Fresh \/ (mCommands # <<>> /\ Head(mCommands).type # "CHILD")
    PROVE  PlainSeq(mCommands)
<1>1. ASSUME NEW i \in DOMAIN mCommands, mCommands[i].new \in OwnReady PROVE FALSE
  <2>1. Fresh /\ mCommands[i].type = "CHILD"
    BY <1>1 DEF CommandInv
  <2>2. mCommands # <<>> /\ Head(mCommands) = mCommands[1]
    BY <2>1, TailFacts DEF CommandInv
  <2>3. i = 1
    BY <2>1, LenProperties DEF CommandInv, Fresh
  <2> QED
    BY <2>1, <2>2, <2>3
<1> QED
  BY <1>1 DEF CommandInv, PlainSeq, Plain

LEMMA CommandCalc ==
    ASSUME CommandInv, CalcFacts PROVE CommandInv'
<1>1. ~Fresh
  BY DEF CalcFacts, Fresh
<1>2. PlainSeq(mCommands')
  <2>1. CASE UNCHANGED mCommands
    BY <1>1, <2>1, AllPlain
  <2>2. CASE \E cs : PlainSeq(cs) /\ mCommands' = Pushed(mCommands, cs)
    BY <1>1, <2>2, PushPlain
  <2> QED
    BY <2>1, <2>2 DEF CalcFacts, Asks
<1>3. command' \in [SceneId -> Roots \union {NONE}]
  BY DEF CalcFacts, CommandInv
<1>4. "ROOT" \notin destroyReq'
  BY DEF CalcFacts, CommandInv
<1> QED
  BY <1>2, <1>3, <1>4, CommandPlain

\* The first command is taken out.
LEMMA CommandTaken ==
    ASSUME CommandInv, mCommands # <<>>, mCommands' = Tail(mCommands),
           UNCHANGED <<command, destroyReq>>
    PROVE  CommandInv'
<1>1. /\ mCommands' \in Seq(Range(mCommands))
      /\ \A i \in DOMAIN mCommands' :
            i + 1 \in DOMAIN mCommands /\ mCommands'[i] = mCommands[i + 1]
  BY TailFacts DEF CommandInv
<1>2. mCommands' \in Seq(Range(mCommands'))
  BY <1>1, OwnRange
<1>3. ASSUME NEW i \in DOMAIN mCommands' PROVE Plain(mCommands'[i])
  <2>1. i + 1 \in DOMAIN mCommands /\ i \in Nat \ {0}
    BY <1>1, LenProperties
  <2>2. ~(Fresh /\ mCommands[i + 1].new \in OwnReady)
    BY <2>1, LenProperties DEF CommandInv, Fresh
  <2> QED
    BY <1>1, <2>1, <2>2 DEF CommandInv, Plain
<1> QED
  BY <1>2, <1>3, CommandPlain DEF CommandInv, PlainSeq

LEMMA DestroyFacts ==
    ASSUME CommandInv, LoadInv, NEW D, Destroy(D)
    PROVE  /\ command' \in [SceneId -> Roots \union {NONE}]
           /\ "ROOT" \notin destroyReq'
           /\ "new" \in DOMAIN mReservedCommand'
           /\ mReservedCommand'.new = mReservedCommand.new
<1>1. command' = [x \in SceneId |-> IF x \in D THEN NONE ELSE command[x]]
  BY DEF Destroy
<1>2. command' \in [SceneId -> Roots \union {NONE}]
  BY <1>1 DEF CommandInv
<1>3. mReservedCommand' = After(mReservedCommand, D) /\ destroyReq' = destroyReq \ D
  BY DEF Destroy
<1> QED
  BY <1>2, <1>3 DEF CommandInv, LoadInv, After

LEMMA DestroyAllKeeps ==
    ASSUME CommandInv, LoadInv, ExecReserveAll PROVE CommandInv' /\ LoadInv'
<1> DEFINE h == Head(mCommands)
           q == [i \in DOMAIN mCommands |-> After(mCommands[i], Live)]
           first == <<CreateChild(h.new, "ROOT", NONE)>>
<1>1. PICK cs \in CommandsOf(Live) :
          mCommands' = Tail(Pushed(Pushed(q, cs), first))
  BY DEF ExecReserveAll
<1>2. /\ mCommands # <<>> /\ h.type = "ALL" /\ Destroy(Live)
      /\ UNCHANGED <<reserved, nandq, tokens>>
  BY DEF ExecReserveAll
<1>3. PlainSeq(mCommands) /\ h = mCommands[1] /\ 1 \in DOMAIN mCommands
  <2>1. "ALL" # "CHILD"
    OBVIOUS
  <2> QED
    BY <1>2, <2>1, AllPlain, TailFacts DEF CommandInv
<1>4. PlainSeq(q) /\ PlainSeq(cs)
  BY <1>3, AfterPlain, CommandsPlain
<1>5. PlainSeq(first)
  <2>1. h.new \in SceneId \ OwnReady
    BY <1>3 DEF PlainSeq, Plain, IsCommand
  <2> QED
    BY <2>1, ChildAsked
<1> DEFINE p == Pushed(q, cs)
<1>6. PlainSeq(p)
  <2> HIDE DEF q
  <2> QED
    BY <1>4, PlainPushed
<1>7. PlainSeq(Pushed(p, first)) /\ Pushed(p, first) # <<>>
  <2> HIDE DEF p, first
  <2>1. PlainSeq(Pushed(p, first))
    BY <1>5, <1>6, PlainPushed
  <2>2. Pushed(p, first) # <<>>
    <3> DEFINE S == Range(p) \union Range(first)
    <3>1. p \in Seq(S) /\ first \in Seq(S)
      BY <1>5, <1>6, SeqMonotonic DEF PlainSeq
    <3>2. Len(first) = 1
      BY DEF first
    <3>3. p \o first \in Seq(S) /\ Len(p \o first) = Len(p) + 1 /\ Len(p) \in Nat
      BY <3>1, <3>2, ConcatProperties, LenProperties
    <3>4. CASE Len(p \o first) <= MAX_COMMANDS
      BY <3>3, <3>4, EmptySeq DEF Pushed
    <3>5. CASE ~(Len(p \o first) <= MAX_COMMANDS)
      <4>1. Len(SubSeq(p \o first, 1, MAX_COMMANDS)) = MAX_COMMANDS
        BY <3>3, <3>5, SubSeqProperties DEF MAX_COMMANDS
      <4> QED
        BY <3>5, <4>1, EmptySeq DEF Pushed, MAX_COMMANDS
    <3> QED
      BY <3>4, <3>5
  <2> QED
    BY <2>1, <2>2
<1>8. PlainSeq(mCommands')
  <2> HIDE DEF p, first, q
  <2> QED
    BY <1>1, <1>7, PlainTail DEF p
<1>9. CommandInv'
  BY <1>2, <1>8, DestroyFacts, CommandPlain
<1>10. LoadInv'
  BY <1>2, DestroyFacts DEF LoadInv
<1> QED
  BY <1>9, <1>10

LEMMA DetachKeeps ==
    ASSUME CommandInv, LoadInv, Detach PROVE CommandInv' /\ LoadInv'
<1>1. PICK D : /\ Destroy(D)
               /\ \E cs \in CommandsOf(D) :
                     mCommands' = Pushed([i \in DOMAIN mCommands |->
                                             After(mCommands[i], D)], cs)
  BY DEF Detach
<1>2. Doomed # {} /\ UNCHANGED <<reserved, nandq, tokens>>
  BY DEF Detach
\* At the boot there is only the root, which is never destroyed this way.
<1>3. ~Fresh
  <2>1. Fresh => Doomed = {}
    BY DEF Fresh, Doomed, CommandInv
  <2> QED
    BY <1>2, <2>1
<1>4. PlainSeq(mCommands')
  BY <1>1, <1>3, AllPlain, AfterPlain, CommandsPlain, PlainPushed
<1>5. CommandInv'
  BY <1>1, <1>4, DestroyFacts, CommandPlain
<1>6. LoadInv'
  BY <1>1, <1>2, DestroyFacts DEF LoadInv
<1> QED
  BY <1>5, <1>6

LEMMA AttachKeeps ==
    ASSUME CommandInv, LoadInv, AttachReserved PROVE CommandInv' /\ LoadInv'
<1>1. /\ reserved # NONE
      /\ mCommands' = Pushed(mCommands, CreatePushes(reserved))
      /\ UNCHANGED <<command, destroyReq>>
  BY DEF AttachReserved
<1>2. ~Fresh
  BY <1>1 DEF Fresh
<1>3. PlainSeq(CreatePushes(reserved))
  <2>1. CASE reserved = "SETTING_BG"
    <3> DEFINE cs == <<CreateChild("SETTING_BUTTON", reserved, NONE),
                       CreateChild("SETTING_SELECT", reserved, NONE)>>
    <3>1. \A i \in DOMAIN cs : Plain(cs[i])
      BY CommandFields, SceneNames DEF Plain
    <3> QED
      BY <2>1, <3>1 DEF PlainSeq, Range, CreatePushes
  <2>2. CASE reserved # "SETTING_BG"
    BY <2>2 DEF PlainSeq, CreatePushes, Range
  <2> QED
    BY <2>1, <2>2
<1>4. PlainSeq(mCommands')
  BY <1>1, <1>2, <1>3, PushPlain
<1> QED
  BY <1>1, <1>4, CommandPlain, LoadAttach DEF CommandInv

-----------------------------------------------------------------------------
(* The theorem.                                                             *)

IInv == CommandInv /\ LoadInv

LEMMA InvariantInit == Init => IInv
<1> SUFFICES ASSUME Init PROVE IInv
  OBVIOUS
<1>1. PICK b \in Boot : mCommands = <<CreateChild(b[1], "ROOT", NONE)>>
  BY DEF Init
<1>2. b[1] \in SceneId
  BY MenuAssumption
<1>3. /\ mCommands \in Seq(Range(mCommands)) /\ Len(mCommands) = 1
      /\ DOMAIN mCommands = {1} /\ mCommands[1] = CreateChild(b[1], "ROOT", NONE)
  BY <1>1 DEF Range
<1>4. Fresh
  BY <1>3 DEF Init, Fresh
<1>5. CommandInv
  <2>1. /\ IsCommand(mCommands[1]) /\ mCommands[1].type = "CHILD"
    <3>1. /\ IsCommand(CreateChild(b[1], "ROOT", NONE))
          /\ CreateChild(b[1], "ROOT", NONE).type = "CHILD"
      <4>1. IsCommand(CreateChild(b[1], "ROOT", NONE)) <=> b[1] \in SceneId
        BY CommandFields
      <4>2. CreateChild(b[1], "ROOT", NONE).type = "CHILD"
        BY CommandFields
      <4> QED
        BY <1>2, <4>1, <4>2
    <3> QED
      BY <1>3, <3>1
  <2>2. /\ command \in [SceneId -> Roots \union {NONE}]
        /\ "ROOT" \notin destroyReq
    BY DEF Init
  <2> QED
    BY <1>3, <1>4, <2>1, <2>2 DEF CommandInv
<1>6. LoadInv
  <2>1. "new" \in DOMAIN NoCommand
    BY DEF NoCommand
  <2> QED
    BY <2>1 DEF LoadInv, Init
<1> QED
  BY <1>5, <1>6 DEF IInv

LEMMA InvariantNext == IInv /\ [Next]_vars => IInv'
<1> SUFFICES ASSUME CommandInv, LoadInv, [Next]_vars PROVE CommandInv' /\ LoadInv'
  BY DEF IInv
<1>1. CASE UserStep \/ OwnStep
  <2>1. CalcFacts
    BY <1>1, SceneSteps
  <2> QED
    BY <2>1, CommandCalc, LoadKept DEF CalcFacts, queueVars, reserveVars
<1>2. CASE \/ NothingToExec \/ EndCalc \/ NextFrame \/ FadeDone \/ Idle
           \/ Task1Step
  <2>1. QuietFacts
    BY <1>2, QuietSteps
  <2> QED
    BY <2>1, CommandQuiet, LoadKept DEF QuietFacts
<1>3. CASE ExecCreateChild \/ ExecReserveChange
  <2>1. PICK created : Reserve(Head(mCommands), created)
    BY <1>3 DEF ExecCreateChild, ExecReserveChange
  <2>2. reserved = NONE /\ mCommands # <<>>
    BY <1>3 DEF ExecCreateChild, ExecReserveChange
  <2>3. CommandInv'
    BY <2>1, <2>2, CommandTaken DEF Reserve
  <2> QED
    BY <2>1, <2>2, <2>3, LoadReserve
<1>4. CASE ExecReserveAll
  BY <1>4, DestroyAllKeeps
<1>5. CASE Detach
  BY <1>5, DetachKeeps
<1>6. CASE AttachReserved
  BY <1>6, AttachKeeps
<1>7. CASE AwaitReserved
  <2>1. ~Fresh /\ UNCHANGED <<mCommands, command, destroyReq>>
    BY <1>7 DEF AwaitReserved, Fresh, sceneVars
  <2>2. PlainSeq(mCommands')
    BY <2>1, AllPlain
  <2> QED
    BY <1>7, <2>1, <2>2, CommandPlain, LoadAwait DEF CommandInv
<1>8. CASE NandStep
  <2>1. ~Fresh /\ UNCHANGED <<mCommands, command, destroyReq>>
    BY <1>8 DEF NandStep, Fresh, sceneVars
  <2>2. PlainSeq(mCommands')
    BY <2>1, AllPlain
  <2> QED
    BY <1>8, <2>1, <2>2, CommandPlain, LoadNand DEF CommandInv
<1>9. CASE UNCHANGED managerVars
  <2>1. QuietFacts
    BY <1>9 DEF managerVars, treeVars, sceneVars, reserveVars, mainVars,
       QuietFacts, queueVars, Fresh
  <2> QED
    BY <2>1, CommandQuiet, LoadKept DEF QuietFacts
<1> QED
  BY <1>1, <1>2, <1>3, <1>4, <1>5, <1>6, <1>7, <1>8, <1>9
     DEF Next, MainStep, ManagerStep, ThreadStep, AttachToFreed, vars

\* Only attachReservedScene ends a preparation.
LEMMA OnlyAttach ==
    ASSUME [Next]_vars, reserved # NONE, reserved' # reserved
    PROVE  AttachReserved
<1> USE DEF reserveVars
<1>1. CASE UserStep \/ OwnStep
  BY <1>1, SceneSteps DEF CalcFacts
<1>2. CASE \/ NothingToExec \/ EndCalc \/ NextFrame \/ FadeDone \/ Idle
           \/ Task1Step
  BY <1>2, QuietSteps DEF QuietFacts, queueVars
<1>3. CASE ExecCreateChild \/ ExecReserveChange \/ ExecReserveAll
  BY <1>3 DEF ExecCreateChild, ExecReserveChange, ExecReserveAll
<1>4. CASE Detach \/ AwaitReserved \/ NandStep
  BY <1>4 DEF Detach, AwaitReserved, NandStep
<1>5. CASE UNCHANGED managerVars
  BY <1>5 DEF managerVars
<1> QED
  BY <1>1, <1>2, <1>3, <1>4, <1>5
     DEF Next, MainStep, ManagerStep, ThreadStep, AttachToFreed, vars

\* Whatever scenes the console starts with and whatever the player does, create()
\* of a scene is called only when all files that its prepare() has requested are
\* there, although the manager takes any token that comes and two of the splash
\* screens leave theirs behind (Manager::attachReservedScene, isReady).
THEOREM CreatedWhenLoaded == Spec => LoadedBeforeCreate
<1>1. Init => IInv
  BY InvariantInit
<1>2. IInv /\ [Next]_vars => IInv'
  BY InvariantNext
<1>3. IInv /\ [Next]_vars
          => [reserved # NONE /\ reserved' # reserved => IsLoaded(reserved)]_vars
  <2> SUFFICES ASSUME IInv, [Next]_vars, reserved # NONE, reserved' # reserved
               PROVE  IsLoaded(reserved)
    OBVIOUS
  <2>1. AttachReserved
    BY OnlyAttach
  <2> QED
    BY <2>1, ReadyIsLoaded DEF AttachReserved, IInv
<1> QED
  BY <1>1, <1>2, <1>3, PTL DEF Spec, LoadedBeforeCreate

-----------------------------------------------------------------------------
(* The manager makes a scene.                                              *)

\* Without a command there is no request.
LEMMA NothingEnds == mCommands' = <<>> => ~Ending'
<1>1. \A a : <<a>> # <<>>
  BY HeadsAndTails
<1> QED
  BY <1>1 DEF Ending

\* The next child, or the scene that replaces another, is made.
LEMMA TakesNext ==
    ASSUME MenuInv, phase = "command", reserved = NONE, mCommands # <<>>,
           Head(mCommands).type \in {"CHILD", "CHANGE"},
           UNCHANGED <<order, fader>>, mCommands' = Tail(mCommands),
           mReservedCommand' = Head(mCommands), reserved' = Head(mCommands).new,
           stage' = [stage EXCEPT ![reserved'] = InitStage(reserved')]
    PROVE  /\ MapInv' /\ ~Ending' /\ reserved' \in SceneId \ {"ROOT"}
           /\ reserved' \notin Live
           /\ reserved' = "BOARD" => order \in {Alone, Top("LIMIT_OVER")} /\ fader = "black"
           /\ reserved' = "CHANNEL_SELECT" => "BOARD" \in Live
<1> USE CommandNew, Names, HeadsAndTails, ShapeLive DEF At, Live
<1>0. stage \in [SceneId -> Stage] /\ "ALL" # "CHILD" /\ "ALL" # "CHANGE"
  BY DEF MenuInv, StageInv
<1>1. CASE AtStart
  <2>1. PICK x \in TopLevel : /\ At(Alone, <<Child(x)>>, NoCommand)
                              /\ x = "BOARD" => fader = "black"
    BY <1>1 DEF AtStart
  <2>2. At(Alone, <<>>, Child(x))'
    BY <2>1
  <2>3. MapInv' /\ reserved' = x
    BY <2>1, <2>2 DEF MapInv, AtStart
  <2> QED
    BY <2>1, <2>2, <2>3 DEF Ending
<1>2. CASE AtChange
  <2>1. PICK c \in Changes :
          /\ At(Top(c[1]), <<Change(c[1], c[2])>>, NoCommand) /\ stage[c[1]] = "done"
          /\ c[2] = "BOARD" => fader = "black"
    BY <1>2 DEF AtChange, Changes
  <2>2. At(Top(c[1]), <<>>, Change(c[1], c[2]))' /\ reserved' = c[2]
    BY <2>1
  <2>3. /\ c[1] \in {"LIMIT_OVER", "REBOOT"} /\ c[2] \in {"BOARD", "SETTING_BG", "SETTING"}
        /\ c[2] = "BOARD" => c[1] = "LIMIT_OVER"
    BY DEF Changes
  <2>4. stage'[c[1]] = "done"
    BY <1>0, <2>1, <2>2, <2>3
  <2>5. AtChange'
    BY <2>1, <2>2, <2>4 DEF AtChange
  <2> QED
    BY <2>1, <2>2, <2>3, <2>5 DEF MapInv, Ending
<1>3. CASE AtOpening
  <2> DEFINE all == <<Child("BUTTON"), Child("CHANNEL_SELECT"), Child("ARROW")>>
             two == <<Child("CHANNEL_SELECT"), Child("ARROW")>>
             one == <<Child("ARROW")>>
  <2>0. /\ Head(all) = Child("BUTTON") /\ Tail(all) = two
        /\ Head(two) = Child("CHANNEL_SELECT") /\ Tail(two) = one
        /\ Head(one) = Child("ARROW") /\ Tail(one) = <<>>
    OBVIOUS
  <2>1. /\ \/ At(Top("BOARD"), all, NoCommand)
           \/ At(ButtonOnly, two, NoCommand)
           \/ At(ArrowToCome, one, NoCommand)
        /\ stage["BOARD"] = "init"
    BY <1>3 DEF AtOpening
  <2> HIDE DEF all, two, one
  <2>2. /\ \/ At(Top("BOARD"), two, Child("BUTTON"))'
           \/ At(ButtonOnly, one, Child("CHANNEL_SELECT"))'
           \/ At(ArrowToCome, <<>>, Child("ARROW"))'
        /\ stage'["BOARD"] = "init"
    BY <1>0, <2>0, <2>1
  <2>3. AtOpening'
    BY <2>2 DEF AtOpening, two, one
  <2>4. ~Ending'
    BY <2>2, NotOpen DEF Ending
  <2> QED
    BY <2>1, <2>2, <2>3, <2>4 DEF MapInv
<1>4. CASE AtBoardAndNext
  <2>1. CASE /\ At(BoardOpen, <<ChannelsAgain>>, NoCommand)
             /\ stage["BOARD"] \in {"childCst", "scroll"}
    <3>1. At(BoardOpen, <<>>, ChannelsAgain)'
      BY <2>1
    <3>2. stage'["BOARD"] \in {"childCst", "scroll"}
      BY <1>0, <2>1
    <3>3. AtBoardAndNext'
      BY <3>1, <3>2 DEF AtBoardAndNext
    <3>4. ~Ending'
      <4>1. mCommands' = <<>>
        BY <3>1
      <4> QED
        BY <4>1, NothingEnds
    <3> QED
      BY <2>1, <3>1, <3>3, <3>4 DEF MapInv
  <2>2. CASE At(BoardOpen, <<CalendarAsked>>, NoCommand) /\ stage["BOARD"] = "childCst"
    <3>1. At(BoardOpen, <<>>, CalendarAsked)'
      BY <2>2
    <3>2. stage'["BOARD"] = "childCst"
      BY <1>0, <2>2
    <3>3. AtBoardAndNext'
      BY <3>1, <3>2 DEF AtBoardAndNext
    <3>4. ~Ending'
      BY <3>1 DEF Ending
    <3> QED
      BY <2>2, <3>1, <3>3, <3>4 DEF MapInv
  <2> QED
    BY <1>4, <2>1, <2>2 DEF AtBoardAndNext
<1>5. CASE AtSettings
  <2> DEFINE two == <<Child("SETTING_BUTTON"), Child("SETTING_SELECT")>>
             one == <<Child("SETTING_SELECT")>>
  <2>0. /\ Head(two) = Child("SETTING_BUTTON") /\ Tail(two) = one
        /\ Head(one) = Child("SETTING_SELECT") /\ Tail(one) = <<>>
    OBVIOUS
  <2>1. \/ At(Top("SETTING_BG"), two, NoCommand)
        \/ At(NoSelect, one, NoCommand)
    BY <1>5 DEF AtSettings
  <2> HIDE DEF one, two
  <2>2. \/ At(Top("SETTING_BG"), one, Child("SETTING_BUTTON"))'
        \/ At(NoSelect, <<>>, Child("SETTING_SELECT"))'
    BY <2>0, <2>1
  <2>3. AtSettings'
    BY <2>2 DEF AtSettings, one
  <2>4. ~Ending'
    BY <2>2, NotOpen DEF Ending
  <2> QED
    BY <2>1, <2>2, <2>3, <2>4 DEF MapInv
<1>6. CASE AtScreen
  <2>1. PICK x \in Screens :
            /\ At(Settings, <<Child(x)>>, NoCommand)
            /\ stage["SETTING_SELECT"] \in {"wait2", "wait3"}
    BY <1>6 DEF AtScreen
  <2>2. At(Settings, <<>>, Child(x))' /\ reserved' = x
    BY <2>1
  <2>3. stage'["SETTING_SELECT"] = stage["SETTING_SELECT"]
    BY <1>0, <2>2
  <2>4. AtScreen' /\ ~Ending'
    BY <2>1, <2>2, <2>3, NotOpen DEF AtScreen, Ending
  <2> QED
    BY <2>1, <2>2, <2>4 DEF MapInv
<1>7. CASE AtEnd
  BY <1>0, <1>7 DEF AtEnd
<1>8. CASE AtTop \/ AtBoard \/ AtChannels \/ AtCalendar \/ AtNothing
  BY <1>8 DEF AtTop, AtBoard, AtChannels, AtCalendar, AtNothing
<1> QED
  BY <1>1, <1>2, <1>3, <1>4, <1>5, <1>6, <1>7, <1>8 DEF MenuInv, MapInv

\* createScene: a scene is made, outside of the tree.
LEMMA CreateSteps ==
    ASSUME MenuInv, ExecCreateChild \/ ExecReserveChange, UNCHANGED mode PROVE MenuInv'
<1> USE Names
<1> DEFINE c == Head(mCommands)
           id == c.new
<1>1. /\ phase = "command" /\ reserved = NONE /\ mCommands # <<>>
      /\ \/ c.type = "CHILD" /\ mbCreatedReserved' = TRUE
         \/ c.type = "CHANGE" /\ mbCreatedReserved' = FALSE
      /\ Construct(id) /\ reserved' = id /\ mReservedCommand' = c
      /\ mCommands' = Tail(mCommands) /\ phase' = "detach"
      /\ UNCHANGED <<order, parent, destroyReq, command, fader, mbDestroySyncTask, it,
                     task1q, job, task, look>>
  BY DEF ExecCreateChild, ExecReserveChange, Reserve, treeVars, task1Vars
<1>2. /\ stage' = [stage EXCEPT ![reserved'] = InitStage(reserved')]
      /\ board' = IF reserved' = "BOARD" THEN NewBoard ELSE board
      /\ calendar' = IF reserved' = "CALENDAR" THEN NewCalendar ELSE calendar
  BY <1>1 DEF Construct
<1>3. /\ MapInv' /\ ~Ending' /\ reserved' \in SceneId \ {"ROOT"} /\ reserved' \notin Live
      /\ reserved' = "BOARD" => order \in {Alone, Top("LIMIT_OVER")} /\ fader = "black"
      /\ reserved' = "CHANNEL_SELECT" => "BOARD" \in Live
  <2>1. c.type \in {"CHILD", "CHANGE"}
    BY <1>1
  <2> QED
    BY <1>1, <1>2, <2>1, TakesNext
<1> HIDE DEF c, id
<1>4. /\ stage \in [SceneId -> Stage] /\ InitStage(reserved') \in Stage \ {"gone", "done"}
      /\ \A x \in SceneId \ {reserved'} : stage'[x] = stage[x]
      /\ stage'[reserved'] = InitStage(reserved')
      /\ stage[reserved'] = "gone"
  <2>1. stage \in [SceneId -> Stage]
    BY DEF MenuInv, StageInv
  <2>2. InitStage(reserved') \in Stage \ {"gone", "done"}
    BY DEF InitStage, Stage
  <2>3. stage[reserved'] = "gone"
    BY <1>1, <1>3 DEF MenuInv, StageInv
  <2> QED
    BY <1>2, <1>3, <2>1, <2>2, <2>3
<1>5. Live' = Live
  BY <1>1 DEF Live
<1>6. TreeInv' /\ TurnInv'
  BY <1>1, <1>5 DEF MenuInv, TreeInv, TurnInv
<1>7. StageInv'
  <2>1. stage' \in [SceneId -> Stage]
    BY <1>2, <1>4
  <2>2. ASSUME NEW x \in SceneId
        PROVE  stage'[x] = "gone" <=> x = "ROOT" \/ x \notin Live \union {reserved'}
    BY <1>1, <1>3, <1>4 DEF MenuInv, StageInv
  <2>3. stage'["BOARD"] \in {"cdbInit", "init"} =>
            fader' = "black" /\ stage'["CHANNEL_SELECT"] \in {"gone", "in"}
    <3>1. CASE reserved' = "BOARD"
      <4>1. "CHANNEL_SELECT" \notin Live
        BY <1>3, <3>1, ShapeLive DEF Live
      <4>2. stage["CHANNEL_SELECT"] = "gone"
        BY <1>1, <4>1 DEF MenuInv, StageInv
      <4> QED
        BY <1>1, <1>3, <1>4, <3>1, <4>2
    <3>2. CASE reserved' # "BOARD"
      <4>1. stage'["BOARD"] = stage["BOARD"]
        BY <1>4, <3>2
      <4>2. stage'["CHANNEL_SELECT"] \in {stage["CHANNEL_SELECT"], "in"}
        BY <1>4 DEF InitStage
      <4> QED
        BY <1>1, <4>1, <4>2 DEF MenuInv, StageInv
    <3> QED
      BY <3>1, <3>2
  <2> QED
    BY <1>4, <1>5, <2>1, <2>2, <2>3 DEF StageInv
<1>8. DoomInv'
  <2>1. reserved' \notin destroyReq
    BY <1>3 DEF MenuInv, DoomInv
  <2>2. Live \subseteq SceneId
    BY TreeFacts DEF MenuInv
  <2> QED
    BY <1>1, <1>3, <1>4, <1>5, <2>1, <2>2 DEF MenuInv, DoomInv
<1>9. InitStage(reserved') \in {"cdbInit", "waitButton", "in"}
  BY DEF InitStage
<1>10. AskInv'
  <2>1. stage'["HEALTH"] = "done" <=> stage["HEALTH"] = "done"
    BY <1>4
  <2>2. \A x \in {"out1", "blackout", "done"} :
            stage'["SETTING_SELECT"] = x <=> stage["SETTING_SELECT"] = x
    BY <1>4, <1>9
  <2> QED
    BY <1>1, <2>1, <2>2 DEF MenuInv, AskInv
<1>11. BoardInv'
  <2>1. ~Ending
    <3>1. \A root : ReserveAll(root).type = "ALL"
      BY CommandNew
    <3>2. "ALL" # "CHILD" /\ "ALL" # "CHANGE"
      OBVIOUS
    <3> QED
      BY <1>1, <3>1, <3>2, HeadsAndTails DEF Ending, c
  <2>2. board' \in [count : BOOLEAN, read : BOOLEAN, exit : BOOLEAN]
    BY <1>2 DEF NewBoard, MenuInv, BoardInv
  <2>3. CASE reserved' = "BOARD"
    <3>1. stage["CHANNEL_SELECT"] = "gone" /\ stage["BOARD"] = "gone"
      <4>1. "CHANNEL_SELECT" \notin Live /\ "BOARD" \notin Live
        BY <1>3, <2>3, ShapeLive DEF Live
      <4> QED
        BY <1>1, <4>1 DEF MenuInv, StageInv
    <3>2. command["BOARD"] = NONE /\ command["CHANNEL_SELECT"] = NONE
      BY <3>1 DEF MenuInv, BoardInv
    <3>3. stage'["CHANNEL_SELECT"] = "gone" /\ stage'["BOARD"] = "cdbInit"
      BY <1>4, <2>3, <3>1 DEF InitStage
    <3>4. board'.exit = FALSE
      BY <1>2, <2>3 DEF NewBoard
    <3> QED
      BY <1>1, <1>3, <2>2, <3>2, <3>3, <3>4 DEF BoardInv
  <2>4. CASE reserved' = "CHANNEL_SELECT"
    <3>1. stage["CHANNEL_SELECT"] = "gone" /\ stage'["CHANNEL_SELECT"] = "in"
      BY <1>4, <2>4 DEF InitStage
    <3>2. stage'["BOARD"] = stage["BOARD"]
      BY <1>4, <2>4
    <3>3. board' = board
      BY <1>2, <2>4
    <3> QED
      BY <1>1, <1>3, <1>5, <2>1, <2>2, <2>4, <3>1, <3>2, <3>3 DEF MenuInv, BoardInv
  <2>5. CASE reserved' \notin {"BOARD", "CHANNEL_SELECT"}
    <3>1. /\ stage'["BOARD"] = stage["BOARD"]
          /\ stage'["CHANNEL_SELECT"] = stage["CHANNEL_SELECT"] /\ board' = board
      BY <1>2, <1>4, <2>5
    <3> QED
      BY <1>1, <1>3, <1>5, <2>1, <2>2, <3>1 DEF MenuInv, BoardInv
  <2> QED
    BY <2>3, <2>4, <2>5
<1>12. CreatedInv'
  <2>1. reserved' # NONE
    BY <1>3
  <2> QED
    BY <1>1, <2>1 DEF CreatedInv
<1>13. WorkInv'
  <2>1. calendar' \in CalendarType /\ (stage'["CALENDAR"] = "waitTask" => calendar'.then # NONE)
    <3>1. CASE reserved' = "CALENDAR"
      BY <1>2, <1>4, <1>9, <3>1 DEF NewCalendar, CalendarType, Month
    <3>2. CASE reserved' # "CALENDAR"
      BY <1>2, <1>4, <3>2 DEF MenuInv, WorkInv, CalendarType
    <3> QED
      BY <3>1, <3>2
  <2> QED
    BY <1>1, <1>5, <2>1 DEF MenuInv, WorkInv, CalendarType
<1> QED
  BY <1>3, <1>6, <1>7, <1>8, <1>10, <1>11, <1>12, <1>13 DEF MenuInv

-----------------------------------------------------------------------------
(* The manager destroys everything.                                        *)

\* Destruction of scenes of which none has a command, and of which one has.
LEMMA NoCommandsOf ==
    ASSUME command \in [SceneId -> Roots \union {NONE}], NEW D, \A x \in D : x \in SceneId,
           \A x \in D : command[x] = NONE
    PROVE  \A cs \in CommandsOf(D) : cs = <<>>
<1> DEFINE S == {x \in DOMAIN command : x \in D /\ command[x] # NONE}
<1>1. S = {} /\ Cardinality(S) = 0
  BY FS_EmptySet
<1> HIDE DEF S
<1>2. ASSUME NEW cs \in CommandsOf(D) PROVE cs = <<>>
  <2>1. PICK s \in [1 .. Cardinality(S) -> S] :
            cs = [i \in DOMAIN s |-> ReserveAll(command[s[i]])]
    BY <1>2 DEF CommandsOf, S
  <2>2. DOMAIN s = {}
    BY <1>1, <2>1
  <2> QED
    BY <2>1, <2>2
<1> QED
  BY <1>2

\* One scene of those destroyed has a command.
LEMMA OneCommandOf ==
    ASSUME command \in [SceneId -> Roots \union {NONE}], NEW D, NEW x \in D, x \in SceneId,
           command[x] # NONE, \A y \in D : y # x => command[y] = NONE
    PROVE  \A cs \in CommandsOf(D) : cs = <<ReserveAll(command[x])>>
<1> DEFINE S == {y \in DOMAIN command : y \in D /\ command[y] # NONE}
<1>1. S = {x} /\ Cardinality(S) = 1
  <2>1. S = {x}
    OBVIOUS
  <2> QED
    BY <2>1, FS_Singleton
<1> HIDE DEF S
<1>2. ASSUME NEW cs \in CommandsOf(D) PROVE cs = <<ReserveAll(command[x])>>
  <2>1. PICK s \in [1 .. Cardinality(S) -> S] :
            cs = [i \in DOMAIN s |-> ReserveAll(command[s[i]])]
    BY <1>2 DEF CommandsOf, S
  <2>2. DOMAIN s = 1 .. 1 /\ s[1] = x
    <3>1. DOMAIN s = 1 .. Cardinality(S) /\ \A i \in 1 .. Cardinality(S) : s[i] \in S
      OBVIOUS
    <3>2. DOMAIN s = 1 .. 1 /\ \A i \in 1 .. 1 : s[i] \in {x}
      BY <1>1, <3>1
    <3> QED
      BY <3>2
  <2>3. cs = [i \in 1 .. 1 |-> ReserveAll(command[x])]
    <3>1. \A i \in 1 .. 1 : s[i] = x
      BY <2>2
    <3> QED
      BY <2>1, <2>2, <3>1
  <2> DEFINE a == ReserveAll(command[x])
  <2> HIDE DEF a
  <2>4. [i \in 1 .. 1 |-> a] = <<a>>
    OBVIOUS
  <2> QED
    BY <2>3, <2>4 DEF a
<1> QED
  BY <1>2

\* The commands of the map point to nobody who could be destroyed.
LEMMA AfterKeeps ==
    ASSUME NEW D, NONE \notin D
    PROVE  /\ After(NoCommand, D) = NoCommand
           /\ \A root : After(ReserveAll(root), D) = ReserveAll(root)
           /\ "ROOT" \notin D => \A x, y : After(Change(x, y), D) = Change(x, y)
<1>1. After(NoCommand, D) = NoCommand
  BY DEF After, NoCommand
<1>2. ASSUME NEW root PROVE After(ReserveAll(root), D) = ReserveAll(root)
  BY DEF After, NoCommand, ReserveAll
<1>3. ASSUME "ROOT" \notin D, NEW x, NEW y PROVE After(Change(x, y), D) = Change(x, y)
  BY <1>3 DEF After, NoCommand, Change, ReserveChange
<1> QED
  BY <1>1, <1>2, <1>3

\* One command, once scenes are gone.
LEMMA AfterShort ==
    ASSUME NEW D
    PROVE  /\ mCommands = <<>> => [i \in DOMAIN mCommands |-> After(mCommands[i], D)] = <<>>
           /\ \A c : mCommands = <<c>> =>
                  [i \in DOMAIN mCommands |-> After(mCommands[i], D)] = <<After(c, D)>>
<1>1. ASSUME mCommands = <<>>
      PROVE  [i \in DOMAIN mCommands |-> After(mCommands[i], D)] = <<>>
  BY <1>1
<1>2. ASSUME NEW c, mCommands = <<c>>
      PROVE  [i \in DOMAIN mCommands |-> After(mCommands[i], D)] = <<After(c, D)>>
  <2> DEFINE a == After(c, D)
  <2>1. DOMAIN mCommands = 1 .. 1 /\ mCommands[1] = c
    BY <1>2
  <2>2. \A i \in 1 .. 1 : After(mCommands[i], D) = a
    BY <2>1
  <2>3. [i \in DOMAIN mCommands |-> After(mCommands[i], D)] = [i \in 1 .. 1 |-> a]
    BY <2>1, <2>2
  <2> HIDE DEF a
  <2>4. [i \in 1 .. 1 |-> a] = <<a>>
    OBVIOUS
  <2> QED
    BY <2>3, <2>4 DEF a
<1> QED
  BY <1>1, <1>2

\* A request to destroy everything is executed at the end of a tree only, and
\* no scene of it has another such request.
LEMMA EndFacts ==
    ASSUME MenuInv, reserved = NONE, mCommands # <<>>, Head(mCommands).type = "ALL"
    PROVE  /\ AtEnd
           /\ \A x \in SceneId : command[x] = NONE
           /\ ~("BOARD" \in Live) => ~board.exit
<1> USE CommandNew, Names, HeadsAndTails
<1>1. AtEnd
  <2>0. "ALL" # "CHILD" /\ "ALL" # "CHANGE"
    OBVIOUS
  <2>1. ~AtStart
    BY <2>0 DEF AtStart, At
  <2>2. ~AtChange
    BY <2>0 DEF AtChange, At
  <2>3. ~AtOpening
    BY <2>0 DEF AtOpening, At
  <2>4. ~AtBoardAndNext
    BY <2>0 DEF AtBoardAndNext, At
  <2>5. ~AtSettings
    BY <2>0 DEF AtSettings, At
  <2>6. ~AtScreen
    BY <2>0 DEF AtScreen, At
  <2>7. ~(AtTop \/ AtBoard \/ AtChannels \/ AtCalendar \/ AtNothing)
    BY DEF AtTop, AtBoard, AtChannels, AtCalendar, AtNothing, At
  <2> QED
    BY <2>1, <2>2, <2>3, <2>4, <2>5, <2>6, <2>7 DEF MenuInv, MapInv
<1>2. PICK root \in Roots, o \in {Alone, BoardOpen, NoSelect} :
          At(o, <<ReserveAll(root)>>, NoCommand)
  BY <1>1 DEF AtEnd
<1>3. /\ "HEALTH" \notin Live /\ "CHANNEL_SELECT" \notin Live
      /\ "SETTING_SELECT" \notin Live
      /\ "BOARD" \in Live <=> order = BoardOpen
  BY <1>2, ShapeLive, NotOpen DEF At, Live
<1>4. /\ stage["HEALTH"] = "gone" /\ stage["CHANNEL_SELECT"] = "gone"
      /\ stage["SETTING_SELECT"] = "gone" /\ ("BOARD" \notin Live => stage["BOARD"] = "gone")
  BY <1>3, OthersGone
<1>5. command["HEALTH"] = NONE /\ command["SETTING_SELECT"] = NONE
  BY <1>4 DEF MenuInv, AskInv
<1>6. command["CHANNEL_SELECT"] = NONE
  BY <1>4 DEF MenuInv, BoardInv
<1>7. CASE "BOARD" \in Live
  <2>1. Ending
    BY <1>2, <1>3, <1>7 DEF Ending, At
  <2>2. command["BOARD"] = NONE
    BY <2>1 DEF MenuInv, BoardInv
  <2> QED
    BY <1>1, <1>5, <1>6, <1>7, <2>2 DEF MenuInv, AskInv, Asking
<1>8. CASE "BOARD" \notin Live
  <2>1. ~Ending
    BY <1>3, <1>8 DEF Ending
  <2>2. command["BOARD"] = NONE
    BY <1>4, <1>8 DEF MenuInv, BoardInv
  <2> QED
    BY <1>1, <1>5, <1>6, <1>8, <2>1, <2>2 DEF MenuInv, AskInv, Asking, BoardInv
<1> QED
  BY <1>7, <1>8

\* Everything is destroyed, and the tree begins again.
LEMMA EverythingGoes ==
    ASSUME MenuInv, ExecReserveAll, UNCHANGED mode PROVE MenuInv'
<1> USE Names
<1>1. /\ phase = "command" /\ reserved = NONE /\ mCommands # <<>>
      /\ Head(mCommands).type = "ALL"
      /\ Destroy(Live) /\ order' = <<"ROOT">>
      /\ mbDestroySyncTask' = FALSE /\ phase' = "detach"
      /\ UNCHANGED <<fader, reserved, mbCreatedReserved, it, task1q, job>>
  BY DEF ExecReserveAll
<1>2. PICK cs \in CommandsOf(Live) :
           mCommands' = Tail(Pushed(Pushed(
               [i \in DOMAIN mCommands |-> After(mCommands[i], Live)],
               cs), <<CreateChild(Head(mCommands).new, "ROOT", NONE)>>))
  BY DEF ExecReserveAll
<1>3. AtEnd /\ (\A x \in SceneId : command[x] = NONE) /\ (~("BOARD" \in Live) => ~board.exit)
  BY <1>1, EndFacts
<1>4. PICK root \in Roots, o \in {Alone, BoardOpen, NoSelect} :
          At(o, <<ReserveAll(root)>>, NoCommand) /\ (root = "BOARD" => fader = "black")
  BY <1>3 DEF AtEnd
<1>5. Live \subseteq SceneId /\ NONE \notin Live
  BY TreeFacts DEF MenuInv
<1>6. cs = <<>>
  BY <1>2, <1>3, <1>5, NoCommandsOf DEF MenuInv, AskInv
<1>7. mCommands' = <<Child(root)>>
  <2>1. [i \in DOMAIN mCommands |-> After(mCommands[i], Live)] = <<ReserveAll(root)>>
    <3>1. mCommands = <<ReserveAll(root)>>
      BY <1>4 DEF At
    <3>2. After(ReserveAll(root), Live) = ReserveAll(root)
      BY <1>5, AfterKeeps
    <3> QED
      BY <3>1, <3>2, AfterShort
  <2>2. Head(mCommands).new = root
    BY <1>4, HeadsAndTails, CommandNew DEF At
  <2>3. CreateChild(root, "ROOT", NONE) = Child(root)
    BY AboveIs DEF Child
  <2>4. mCommands' = Tail(Pushed(Pushed(<<ReserveAll(root)>>, <<>>), <<Child(root)>>))
    BY <1>2, <1>6, <2>1, <2>2, <2>3
  <2> DEFINE a == ReserveAll(root)
             b == Child(root)
  <2> HIDE DEF a, b
  <2>5. Pushed(Pushed(<<a>>, <<>>), <<b>>) = <<a, b>>
    BY PushedShort
  <2>6. Tail(<<a, b>>) = <<b>>
    BY HeadsAndTails
  <2> QED
    BY <2>4, <2>5, <2>6 DEF a, b
<1>8. mReservedCommand' = NoCommand
  <2>1. mReservedCommand' = After(mReservedCommand, Live) /\ mReservedCommand = NoCommand
    BY <1>1, <1>4 DEF Destroy, At
  <2> QED
    BY <1>5, <2>1, AfterKeeps
<1>9. At(Alone, <<Child(root)>>, NoCommand)'
  BY <1>1, <1>7, <1>8, CommandNew DEF At, Alone
<1>10. MapInv' /\ ~Ending'
  <2>1. AtStart'
    BY <1>1, <1>4, <1>9 DEF AtStart
  <2>2. ~Ending'
    BY <1>9, NotOpen DEF Ending, At
  <2> QED
    BY <2>1, <2>2 DEF MapInv
<1>11. Live' = {"ROOT"}
  BY <1>9, ShapeLive DEF At, Live
<1>12. /\ destroyReq' = {}
       /\ stage' = [x \in SceneId |-> "gone"]
       /\ command' = [x \in SceneId |-> NONE]
       /\ parent' = [x \in SceneId |-> NONE]
  <2>1. \A x \in SceneId \ Live : stage[x] = "gone"
    BY <1>1, <1>5, OthersGone
  <2>2. \A x \in SceneId \ Live : parent[x] = NONE
    BY <1>5 DEF MenuInv, TreeInv
  <2>3. destroyReq \subseteq Live
    BY DEF MenuInv, DoomInv
  <2> QED
    BY <1>1, <1>3, <2>1, <2>2, <2>3 DEF Destroy
<1>13. TreeInv'
  BY <1>11, <1>12, AboveIs DEF TreeInv
<1>14. StageInv'
  BY <1>1, <1>11, <1>12 DEF StageInv, Stage
<1>15. DoomInv' /\ TurnInv'
  BY <1>1, <1>12, <1>11 DEF MenuInv, DoomInv, TurnInv
<1>16. AskInv'
  BY <1>12 DEF AskInv
<1>17. BoardInv'
  <2>1. board' \in [count : BOOLEAN, read : BOOLEAN, exit : BOOLEAN] /\ ~board'.exit
    <3>1. CASE "BOARD" \in Live
      BY <1>1, <3>1 DEF Destroy, NewBoard
    <3>2. CASE "BOARD" \notin Live
      BY <1>1, <1>3, <3>2 DEF Destroy, MenuInv, BoardInv
    <3> QED
      BY <3>1, <3>2
  <2> QED
    BY <1>10, <1>12, <2>1 DEF BoardInv
<1>18. CreatedInv'
  BY <1>1, <1>8, CommandNew DEF MenuInv, CreatedInv, NoCommand
<1>19. WorkInv'
  <2>1. look' = NONE
    BY <1>1 DEF Destroy, MenuInv, WorkInv
  <2>2. task' \in [scene : {NONE, "held", "freed"}, month : Month \union {NONE},
                   met : BOOLEAN, told : BOOLEAN]
    BY <1>1 DEF Destroy, MenuInv, WorkInv
  <2>3. calendar' \in CalendarType
    BY <1>1 DEF Destroy, MenuInv, WorkInv, CalendarType, NewCalendar, Month
  <2> QED
    BY <1>1, <1>12, <2>1, <2>2, <2>3 DEF MenuInv, WorkInv, CalendarType
<1> QED
  BY <1>10, <1>13, <1>14, <1>15, <1>16, <1>17, <1>18, <1>19 DEF MenuInv

-----------------------------------------------------------------------------
(* A scene joins the tree.                                                 *)

\* A scene is found at its index.
LEMMA IndexIn ==
    ASSUME MenuInv, NEW k \in Nat, k \in DOMAIN order
    PROVE  IndexOf(order[k]) = k
<1>1. IsTree(order)
  BY TreeFacts DEF MenuInv
<1> QED
  BY <1>1, IndexOfAt

\* Where a new scene joins each of the trees.
LEMMA BehindTheLast ==
    ASSUME MenuInv
    PROVE  AttachAt(order[Len(order)], NONE) = Len(order) + 1
<1>1. IsTree(order)
  BY TreeFacts DEF MenuInv
<1>2. Len(order) \in DOMAIN order
  BY <1>1 DEF IsTree
<1>3. IndexOf(order[Len(order)]) = Len(order) /\ LastBelow(Len(order)) = Len(order)
  BY <1>1, <1>2, IndexOfAt, LastBelowLast
<1> QED
  BY <1>3 DEF AttachAt

\* The place behind the children of the only child of the root.
LEMMA BehindTheChildren ==
    ASSUME MenuInv, Len(order) > 2, \A j \in 3 .. Len(order) : Above(order[j]) = order[2]
    PROVE  AttachAt(order[2], NONE) = Len(order) + 1
<1>1. IsTree(order) /\ Live \subseteq SceneId
  BY TreeFacts DEF MenuInv
<1>2. 2 \in 1 .. Len(order) /\ 2 \in DOMAIN order
  BY <1>1 DEF IsTree
<1>3. \A j \in 2 + 1 .. Len(order) : parent[order[j]] = order[2]
  <2>1. ASSUME NEW j \in 3 .. Len(order) PROVE parent[order[j]] = order[2]
    <3>1. j \in DOMAIN order
      BY <1>1 DEF IsTree
    <3>2. order[j] \in Live
      BY <3>1, InRangeIsLive DEF MenuInv
    <3> QED
      BY <1>1, <2>1, <3>2 DEF MenuInv, TreeInv
  <2> QED
    BY <2>1
<1>4. IndexOf(order[2]) = 2 /\ LastBelow(2) = Len(order)
  BY <1>1, <1>2, <1>3, IndexOfAt, LastBelowFamily
<1> QED
  BY <1>4 DEF AttachAt

\* The place at which each scene joins each tree.
LEMMA JoinsAt ==
    ASSUME MenuInv
    PROVE  /\ order = Alone => AttachAt("ROOT", NONE) = 2
           /\ order = Top("BOARD") => AttachAt("BOARD", NONE) = 3
           /\ order = ButtonOnly => AttachAt("BOARD", NONE) = 4
           /\ order = ArrowToCome => AttachAt("BOARD", NONE) = 5
           /\ order = BoardOpen => /\ AttachAt("BOARD", "ARROW") = 4
                                   /\ AttachAt("BOARD", "BUTTON") = 3
           /\ order = Top("SETTING_BG") => AttachAt("SETTING_BG", NONE) = 3
           /\ order = NoSelect => AttachAt("SETTING_BG", NONE) = 4
           /\ order = Settings => AttachAt("SETTING_SELECT", NONE) = 5
<1>1. ASSUME order = Alone PROVE AttachAt("ROOT", NONE) = 2
  <2>1. Len(order) = 1 /\ order[1] = "ROOT"
    BY <1>1, ShapeItems
  <2> QED
    BY <2>1, BehindTheLast
<1>2. ASSUME order = Top("BOARD") PROVE AttachAt("BOARD", NONE) = 3
  <2>1. Len(order) = 2 /\ order[2] = "BOARD"
    BY <1>2, ShapeItems
  <2> QED
    BY <2>1, BehindTheLast
<1>3. ASSUME order = Top("SETTING_BG") PROVE AttachAt("SETTING_BG", NONE) = 3
  <2>1. Len(order) = 2 /\ order[2] = "SETTING_BG"
    BY <1>3, ShapeItems
  <2> QED
    BY <2>1, BehindTheLast
<1>4. ASSUME order = Settings PROVE AttachAt("SETTING_SELECT", NONE) = 5
  <2>1. Len(order) = 4 /\ order[4] = "SETTING_SELECT"
    BY <1>4, ShapeItems
  <2> QED
    BY <2>1, BehindTheLast
<1>5. ASSUME order = ButtonOnly PROVE AttachAt("BOARD", NONE) = 4
  <2>1. /\ Len(order) = 3 /\ order[2] = "BOARD"
        /\ \A j \in 3 .. 3 : order[j] = "BUTTON"
    BY <1>5, ShapeItems
  <2>2. \A j \in 3 .. Len(order) : Above(order[j]) = order[2]
    BY <2>1, AboveIs
  <2> QED
    BY <2>1, <2>2, BehindTheChildren
<1>6. ASSUME order = ArrowToCome PROVE AttachAt("BOARD", NONE) = 5
  <2>1. /\ Len(order) = 4 /\ order[2] = "BOARD"
        /\ \A j \in 3 .. 4 : order[j] \in {"BUTTON", "CHANNEL_SELECT"}
    BY <1>6, ShapeItems
  <2>2. \A j \in 3 .. Len(order) : Above(order[j]) = order[2]
    BY <2>1, AboveIs
  <2> QED
    BY <2>1, <2>2, BehindTheChildren
<1>7. ASSUME order = NoSelect PROVE AttachAt("SETTING_BG", NONE) = 4
  <2>1. /\ Len(order) = 3 /\ order[2] = "SETTING_BG"
        /\ \A j \in 3 .. 3 : order[j] = "SETTING_BUTTON"
    BY <1>7, ShapeItems
  <2>2. \A j \in 3 .. Len(order) : Above(order[j]) = order[2]
    BY <2>1, AboveIs
  <2> QED
    BY <2>1, <2>2, BehindTheChildren
<1>8. ASSUME order = BoardOpen
      PROVE  AttachAt("BOARD", "ARROW") = 4 /\ AttachAt("BOARD", "BUTTON") = 3
  <2>1. IsTree(order)
    BY TreeFacts DEF MenuInv
  <2>2. order[3] = "BUTTON" /\ order[4] = "ARROW" /\ Len(order) = 4
    BY <1>8, ShapeItems
  <2>3. 3 \in DOMAIN order /\ 4 \in DOMAIN order
    BY <2>1, <2>2 DEF IsTree
  <2>4. IndexOf("ARROW") = 4 /\ IndexOf("BUTTON") = 3
    BY <2>2, <2>3, IndexIn
  <2> QED
    BY <2>4 DEF AttachAt, NONE
<1> QED
  BY <1>1, <1>2, <1>3, <1>4, <1>5, <1>6, <1>7, <1>8

\* The scene in preparation joins the tree.
Joined(r) ==
    /\ order' = r
    /\ parent' = [parent EXCEPT ![reserved] = Above(reserved)]
    /\ mCommands' = Pushed(mCommands, CreatePushes(reserved))
    /\ reserved' = NONE /\ mReservedCommand' = NoCommand
    /\ UNCHANGED stage /\ phase' = "detach"
    /\ fader' = CreateFade(reserved)

\* What AttachReserved does, given the place and the tree it makes.
LEMMA Joins ==
    ASSUME MenuInv, AttachReserved, NEW x \in SceneId, NEW chi \in SceneId \union {NONE},
           Above(x) \in SceneId,
           mReservedCommand.new = x, mReservedCommand.par = Above(x),
           mReservedCommand.chi = chi,
           NEW n, AttachAt(Above(x), chi) = n, NEW r, InsertAt(order, n, x) = r
    PROVE  Joined(r) /\ reserved = x
<1> USE Names
<1>1. reserved = x
  BY TreeFacts DEF MenuInv
<1>2. Above(x) # NONE /\ Dangling \notin {Above(x), chi}
  OBVIOUS
<1>3. order' = InsertAt(order, AttachAt(Above(x), chi), reserved)
      /\ parent' = [parent EXCEPT ![reserved] = Above(x)]
  BY <1>2 DEF AttachReserved
<1>4. /\ mCommands' = Pushed(mCommands, CreatePushes(reserved))
      /\ reserved' = NONE /\ mReservedCommand' = NoCommand
      /\ UNCHANGED stage /\ phase' = "detach"
      /\ fader' = CreateFade(reserved)
  BY DEF AttachReserved
<1> QED
  BY <1>1, <1>3, <1>4 DEF Joined

\* What a command says of the parent and of the child to insert before.
LEMMA ChildIs ==
    /\ \A x : Child(x).par = Above(x) /\ Child(x).chi = NONE
    /\ \A x, y : Change(x, y).par = "ROOT" /\ Change(x, y).chi = NONE
    /\ ChannelsAgain.par = "BOARD" /\ ChannelsAgain.chi = "ARROW"
    /\ CalendarAsked.par = "BOARD" /\ CalendarAsked.chi = "BUTTON"
BY DEF Child, Change, ChannelsAgain, CalendarAsked, CreateChild, ReserveChange, NoCommand

\* A child of the root joins it.
LEMMA TopJoins ==
    ASSUME MenuInv, AttachReserved, AtStart \/ AtChange, reserved # NONE, mbCreatedReserved
    PROVE  /\ MapInv' /\ Joined(order') /\ order = Alone /\ reserved \in TopLevel
           /\ order' # BoardOpen /\ Live' = Live \union {reserved}
<1> USE Names, CommandNew
<1>1. PICK x \in TopLevel : /\ At(Alone, <<>>, mReservedCommand) /\ reserved = x
                            /\ mReservedCommand.par = "ROOT" /\ mReservedCommand.chi = NONE
                            /\ mReservedCommand.new = x
  <2>1. CASE AtStart
    <3>1. PICK x \in TopLevel : At(Alone, <<>>, Child(x))
      BY <2>1 DEF AtStart, At
    <3> QED
      BY <3>1, ChildIs, AboveIs DEF At
  <2>2. CASE AtChange
    <3>1. PICK c \in Changes :
              \/ At(Top(c[1]), <<>>, Change(c[1], c[2]))
              \/ At(Alone, <<>>, Change(c[1], c[2]))
      BY <2>2 DEF AtChange, At
    <3>2. mReservedCommand.type = "CHANGE"
      BY <3>1 DEF At
    <3>3. order = Alone
      BY <3>2 DEF MenuInv, CreatedInv
    <3>4. At(Alone, <<>>, Change(c[1], c[2]))
      BY <3>1, <3>3 DEF At
    <3>5. c[2] \in TopLevel
      BY DEF Changes
    <3> QED
      BY <3>4, <3>5, ChildIs DEF At
  <2> QED
    BY <2>1, <2>2
<1>2. Joined(Top(x)) /\ reserved = x
  <2>1. order = Alone
    BY <1>1 DEF At
  <2>2. AttachAt("ROOT", NONE) = 2
    BY <2>1, JoinsAt
  <2>3. InsertAt(order, 2, x) = Top(x)
    BY <2>1, Growth
  <2>4. Above(x) = "ROOT" /\ x \in SceneId
    BY AboveIs
  <2> QED
    BY <1>1, <2>2, <2>3, <2>4, Joins
<1>3. stage[x] = InitStage(x)
  BY <1>1, <1>2 DEF MenuInv, StageInv
<1>4. CASE x = "SETTING_BG"
  <2>1. CreatePushes(x) = <<Child("SETTING_BUTTON"), Child("SETTING_SELECT")>>
    BY <1>4, AboveIs DEF CreatePushes, Child
  <2>2. mCommands' = <<Child("SETTING_BUTTON"), Child("SETTING_SELECT")>>
    <3> DEFINE a == Child("SETTING_BUTTON")
               b == Child("SETTING_SELECT")
    <3>1. mCommands' = Pushed(<<>>, <<a, b>>)
      BY <1>1, <1>2, <2>1 DEF At, Joined
    <3> HIDE DEF a, b
    <3>2. mCommands' = <<a, b>>
      BY <3>1, PushedShort
    <3> QED
      BY <3>2 DEF a, b
  <2>3. AtSettings'
    BY <1>2, <1>4, <2>2 DEF AtSettings, At, Joined
  <2> QED
    BY <1>1, <1>2, <2>3, NotOpen, ShapeLive DEF MapInv, Joined, At, Live
<1>5. CASE x # "SETTING_BG"
  <2>1. mCommands' = <<>>
    BY <1>1, <1>2, <1>5, PushedShort DEF At, Joined, CreatePushes
  <2>2. At(Top(x), <<>>, NoCommand)'
    BY <1>2, <2>1 DEF At, Joined
  <2>3. stage'[x] = InitStage(x)
    BY <1>2, <1>3 DEF Joined
  <2>4. CASE x = "BOARD"
    <3>1. AtOpening'
      BY <2>2, <2>3, <2>4 DEF AtOpening, InitStage
    <3> QED
      BY <1>1, <1>2, <3>1, NotOpen, ShapeLive DEF MapInv, Joined, At, Live
  <2>5. CASE x # "BOARD"
    <3>1. x \in {"HEALTH", "LIMIT_OVER", "REBOOT", "SETTING"} /\ stage'[x] # "done"
      BY <1>5, <2>3, <2>5 DEF InitStage
    <3>2. AtTop'
      BY <2>2, <3>1 DEF AtTop
    <3> QED
      BY <1>1, <1>2, <3>2, NotOpen, ShapeLive DEF MapInv, Joined, At, Live
  <2> QED
    BY <2>4, <2>5
<1> QED
  BY <1>4, <1>5

\* The first children of the Board join it, one after another.
LEMMA OpeningJoins ==
    ASSUME MenuInv, AttachReserved, AtOpening, reserved # NONE
    PROVE  /\ MapInv' /\ Joined(order') /\ order # BoardOpen /\ order' # BoardOpen
           /\ stage["BOARD"] = "init" /\ "BOARD" \in Live
           /\ reserved \in {"BUTTON", "CHANNEL_SELECT", "ARROW"}
           /\ Live' = Live \union {reserved}
<1> USE Names, CommandNew
<1> DEFINE two == <<Child("CHANNEL_SELECT"), Child("ARROW")>>
           one == <<Child("ARROW")>>
<1>1. /\ \/ At(Top("BOARD"), two, Child("BUTTON"))
         \/ At(ButtonOnly, one, Child("CHANNEL_SELECT"))
         \/ At(ArrowToCome, <<>>, Child("ARROW"))
      /\ stage["BOARD"] = "init"
  BY DEF AtOpening, At
<1>2. /\ Pushed(two, <<>>) = two /\ Pushed(one, <<>>) = one /\ Pushed(<<>>, <<>>) = <<>>
  <2> DEFINE a == Child("CHANNEL_SELECT")
             b == Child("ARROW")
  <2> HIDE DEF a, b
  <2>1. Pushed(<<a, b>>, <<>>) = <<a, b>> /\ Pushed(<<b>>, <<>>) = <<b>>
    BY PushedShort
  <2> QED
    BY <2>1, PushedShort DEF a, b
<1> HIDE DEF two, one
<1>3. CASE At(Top("BOARD"), two, Child("BUTTON"))
  <2>1. Joined(ButtonOnly) /\ reserved = "BUTTON"
    <3>1. AttachAt("BOARD", NONE) = 3 /\ InsertAt(order, 3, "BUTTON") = ButtonOnly
      BY <1>3, JoinsAt, Growth DEF At
    <3>2. Above("BUTTON") = "BOARD"
      BY AboveIs
    <3>3. mReservedCommand = Child("BUTTON")
      BY <1>3 DEF At
    <3>4. /\ mReservedCommand.new = "BUTTON" /\ mReservedCommand.par = Above("BUTTON")
          /\ mReservedCommand.chi = NONE
      BY <3>3, ChildIs, CommandNew
    <3> QED
      BY <3>1, <3>2, <3>4, Joins
  <2>2. mCommands' = two
    BY <1>2, <1>3, <2>1 DEF At, Joined, CreatePushes
  <2>3. At(ButtonOnly, two, NoCommand)'
    BY <2>1, <2>2 DEF At, Joined
  <2>4. stage'["BOARD"] = "init"
    BY <1>1, <2>1 DEF Joined
  <2>5. MapInv'
    BY <2>3, <2>4 DEF MapInv, AtOpening, two
  <2> QED
    BY <1>1, <1>3, <2>1, <2>3, <2>5, NotOpen, ShapeLive DEF At, Joined, Live
<1>4. CASE At(ButtonOnly, one, Child("CHANNEL_SELECT"))
  <2>1. Joined(ArrowToCome) /\ reserved = "CHANNEL_SELECT"
    <3>1. AttachAt("BOARD", NONE) = 4 /\ InsertAt(order, 4, "CHANNEL_SELECT") = ArrowToCome
      BY <1>4, JoinsAt, Growth DEF At
    <3>2. Above("CHANNEL_SELECT") = "BOARD"
      BY AboveIs
    <3>3. mReservedCommand = Child("CHANNEL_SELECT")
      BY <1>4 DEF At
    <3>4. /\ mReservedCommand.new = "CHANNEL_SELECT" /\ mReservedCommand.par = Above("CHANNEL_SELECT")
          /\ mReservedCommand.chi = NONE
      BY <3>3, ChildIs, CommandNew
    <3> QED
      BY <3>1, <3>2, <3>4, Joins
  <2>2. mCommands' = one
    BY <1>2, <1>4, <2>1 DEF At, Joined, CreatePushes
  <2>3. At(ArrowToCome, one, NoCommand)'
    BY <2>1, <2>2 DEF At, Joined
  <2>4. stage'["BOARD"] = "init"
    BY <1>1, <2>1 DEF Joined
  <2>5. MapInv'
    BY <2>3, <2>4 DEF MapInv, AtOpening, one
  <2> QED
    BY <1>1, <1>4, <2>1, <2>3, <2>5, NotOpen, ShapeLive DEF At, Joined, Live
<1>5. CASE At(ArrowToCome, <<>>, Child("ARROW"))
  <2>1. Joined(WithChannels) /\ reserved = "ARROW"
    <3>1. AttachAt("BOARD", NONE) = 5 /\ InsertAt(order, 5, "ARROW") = WithChannels
      BY <1>5, JoinsAt, Growth DEF At
    <3>2. Above("ARROW") = "BOARD"
      BY AboveIs
    <3>3. mReservedCommand = Child("ARROW")
      BY <1>5 DEF At
    <3>4. /\ mReservedCommand.new = "ARROW" /\ mReservedCommand.par = Above("ARROW")
          /\ mReservedCommand.chi = NONE
      BY <3>3, ChildIs, CommandNew
    <3> QED
      BY <3>1, <3>2, <3>4, Joins
  <2>2. mCommands' = <<>>
    BY <1>2, <1>5, <2>1 DEF At, Joined, CreatePushes
  <2>3. At(WithChannels, <<>>, NoCommand)'
    BY <2>1, <2>2 DEF At, Joined
  <2>4. stage'["BOARD"] = "init"
    BY <1>1, <2>1 DEF Joined
  <2>5. MapInv'
    BY <2>3, <2>4 DEF MapInv, AtChannels
  <2> QED
    BY <1>1, <1>5, <2>1, <2>3, <2>5, NotOpen, ShapeLive DEF At, Joined, Live
<1> QED
  BY <1>1, <1>3, <1>4, <1>5

\* ChannelSelect or the Calendar comes back.
LEMMA NextJoins ==
    ASSUME MenuInv, AttachReserved, AtBoardAndNext, reserved # NONE
    PROVE  /\ MapInv' /\ Joined(order') /\ mCommands = <<>> /\ order' # BoardOpen
           /\ stage["BOARD"] \in {"childCst", "childDst", "scroll"} /\ "BOARD" \in Live
           /\ reserved \in {"CHANNEL_SELECT", "CALENDAR"} /\ Live' = Live \union {reserved}
<1> USE Names, CommandNew
<1>1. \/ /\ At(BoardOpen, <<>>, ChannelsAgain)
         /\ stage["BOARD"] \in {"childCst", "childDst", "scroll"}
      \/ At(BoardOpen, <<>>, CalendarAsked) /\ stage["BOARD"] = "childCst"
  BY DEF AtBoardAndNext, At
<1>2. CASE /\ At(BoardOpen, <<>>, ChannelsAgain)
           /\ stage["BOARD"] \in {"childCst", "childDst", "scroll"}
  <2>1. Joined(WithChannels) /\ reserved = "CHANNEL_SELECT"
    <3>1. /\ AttachAt("BOARD", "ARROW") = 4
          /\ InsertAt(order, 4, "CHANNEL_SELECT") = WithChannels
      BY <1>2, JoinsAt, Growth DEF At
    <3> QED
      BY <1>2, <3>1, ChildIs, AboveIs, Joins DEF At
  <2>2. mCommands' = <<>>
    BY <1>2, <2>1, PushedShort DEF At, Joined, CreatePushes
  <2>3. At(WithChannels, <<>>, NoCommand)'
    BY <2>1, <2>2 DEF At, Joined
  <2>4. stage'["BOARD"] \in {"childCst", "childDst", "scroll"}
    BY <1>2, <2>1 DEF Joined
  <2>5. MapInv'
    BY <2>3, <2>4 DEF MapInv, AtChannels
  <2> QED
    BY <1>2, <2>1, <2>3, <2>5, NotOpen, ShapeLive DEF At, Joined, Live
<1>3. CASE At(BoardOpen, <<>>, CalendarAsked) /\ stage["BOARD"] = "childCst"
  <2>1. Joined(WithCalendar) /\ reserved = "CALENDAR"
    <3>1. AttachAt("BOARD", "BUTTON") = 3 /\ InsertAt(order, 3, "CALENDAR") = WithCalendar
      BY <1>3, JoinsAt, Growth DEF At
    <3> QED
      BY <1>3, <3>1, ChildIs, AboveIs, Joins DEF At
  <2>2. mCommands' = <<>>
    BY <1>3, <2>1, PushedShort DEF At, Joined, CreatePushes
  <2>3. At(WithCalendar, <<>>, NoCommand)'
    BY <2>1, <2>2 DEF At, Joined
  <2>4. stage'["BOARD"] = "childCst"
    BY <1>3, <2>1 DEF Joined
  <2>5. MapInv'
    BY <2>3, <2>4 DEF MapInv, AtCalendar
  <2> QED
    BY <1>3, <2>1, <2>3, <2>5, NotOpen, ShapeLive DEF At, Joined, Live
<1> QED
  BY <1>1, <1>2, <1>3

\* The children of the settings menu, and the screens behind them.
LEMMA SettingsJoin ==
    ASSUME MenuInv, AttachReserved, AtSettings \/ AtScreen, reserved # NONE
    PROVE  /\ MapInv' /\ Joined(order') /\ order' # BoardOpen
           /\ "BOARD" \notin Live
           /\ reserved \in {"SETTING_BUTTON", "SETTING_SELECT"} \union Screens
           /\ Live' = Live \union {reserved}
<1> USE Names, CommandNew
<1> DEFINE one == <<Child("SETTING_SELECT")>>
<1>1. \/ At(Top("SETTING_BG"), one, Child("SETTING_BUTTON"))
      \/ At(NoSelect, <<>>, Child("SETTING_SELECT"))
      \/ \E x \in Screens : /\ At(Settings, <<>>, Child(x))
                            /\ stage["SETTING_SELECT"] \in {"wait2", "wait3"}
  BY DEF AtSettings, AtScreen, At
<1>2. Pushed(one, <<>>) = one /\ Pushed(<<>>, <<>>) = <<>>
  <2> DEFINE a == Child("SETTING_SELECT")
  <2> HIDE DEF a
  <2>1. Pushed(<<a>>, <<>>) = <<a>>
    BY PushedShort
  <2> QED
    BY <2>1, PushedShort DEF a
<1> HIDE DEF one
<1>3. CASE At(Top("SETTING_BG"), one, Child("SETTING_BUTTON"))
  <2>1. Joined(NoSelect) /\ reserved = "SETTING_BUTTON"
    <3>1. /\ AttachAt("SETTING_BG", NONE) = 3
          /\ InsertAt(order, 3, "SETTING_BUTTON") = NoSelect
      BY <1>3, JoinsAt, Growth DEF At
    <3>2. Above("SETTING_BUTTON") = "SETTING_BG"
      BY AboveIs
    <3>3. mReservedCommand = Child("SETTING_BUTTON")
      BY <1>3 DEF At
    <3>4. /\ mReservedCommand.new = "SETTING_BUTTON" /\ mReservedCommand.par = Above("SETTING_BUTTON")
          /\ mReservedCommand.chi = NONE
      BY <3>3, ChildIs, CommandNew
    <3> QED
      BY <3>1, <3>2, <3>4, Joins
  <2>2. mCommands' = one
    BY <1>2, <1>3, <2>1 DEF At, Joined, CreatePushes
  <2>3. At(NoSelect, one, NoCommand)'
    BY <2>1, <2>2 DEF At, Joined
  <2>4. MapInv'
    BY <2>3 DEF MapInv, AtSettings, one
  <2> QED
    BY <1>3, <2>1, <2>3, <2>4, NotOpen, ShapeLive DEF At, Joined, Live
<1>4. CASE At(NoSelect, <<>>, Child("SETTING_SELECT"))
  <2>1. Joined(Settings) /\ reserved = "SETTING_SELECT"
    <3>1. /\ AttachAt("SETTING_BG", NONE) = 4
          /\ InsertAt(order, 4, "SETTING_SELECT") = Settings
      BY <1>4, JoinsAt, Growth DEF At
    <3>2. Above("SETTING_SELECT") = "SETTING_BG"
      BY AboveIs
    <3>3. mReservedCommand = Child("SETTING_SELECT")
      BY <1>4 DEF At
    <3>4. /\ mReservedCommand.new = "SETTING_SELECT" /\ mReservedCommand.par = Above("SETTING_SELECT")
          /\ mReservedCommand.chi = NONE
      BY <3>3, ChildIs, CommandNew
    <3> QED
      BY <3>1, <3>2, <3>4, Joins
  <2>2. mCommands' = <<>>
    BY <1>2, <1>4, <2>1 DEF At, Joined, CreatePushes
  <2>3. At(Settings, <<>>, NoCommand)'
    BY <2>1, <2>2 DEF At, Joined
  <2>4. MapInv'
    BY <2>3 DEF MapInv, AtSettings
  <2> QED
    BY <1>4, <2>1, <2>3, <2>4, NotOpen, ShapeLive DEF At, Joined, Live
<1>5. ASSUME NEW x \in Screens, At(Settings, <<>>, Child(x)),
             stage["SETTING_SELECT"] \in {"wait2", "wait3"}
      PROVE  /\ MapInv' /\ Joined(order') /\ order' # BoardOpen
             /\ "BOARD" \notin Live /\ reserved = x /\ Live' = Live \union {reserved}
  <2>1. Joined(WithScreen(x)) /\ reserved = x
    <3>1. AttachAt("SETTING_SELECT", NONE) = 5 /\ InsertAt(order, 5, x) = WithScreen(x)
      BY <1>5, JoinsAt, Growth DEF At
    <3>2. Above(x) = "SETTING_SELECT"
      BY AboveIs
    <3>3. mReservedCommand = Child(x)
      BY <1>5 DEF At
    <3>4. /\ mReservedCommand.new = x /\ mReservedCommand.par = Above(x)
          /\ mReservedCommand.chi = NONE
      BY <3>3, ChildIs, CommandNew
    <3> QED
      BY <3>1, <3>2, <3>4, Joins
  <2>2. mCommands' = <<>>
    BY <1>2, <1>5, <2>1 DEF At, Joined, CreatePushes
  <2>3. At(WithScreen(x), <<>>, NoCommand)'
    BY <2>1, <2>2 DEF At, Joined
  <2>4. stage'["SETTING_SELECT"] \in {"wait2", "wait3"}
    BY <1>5, <2>1 DEF Joined
  <2>5. MapInv'
    BY <2>3, <2>4 DEF MapInv, AtScreen
  <2> QED
    BY <1>5, <2>1, <2>3, <2>5, NotOpen, ShapeLive DEF At, Joined, Live
<1> QED
  BY <1>1, <1>3, <1>4, <1>5

\* The scene in preparation joins the tree, and nothing else has changed.
LEMMA AttachPlace ==
    ASSUME MenuInv, AttachReserved
    PROVE  /\ MapInv' /\ Joined(order') /\ Live' = Live \union {reserved} /\ ~Ending
           /\ ~Ending'
           /\ stage["BOARD"] \notin {"toSettings", "done"}
           /\ reserved \in {"HEALTH", "SETTING_BG"} => order = Alone
<1> USE Names
<1>1. reserved # NONE /\ mbCreatedReserved
  BY DEF AttachReserved
<1>2. "BOARD" \notin Live => stage["BOARD"] \notin {"toSettings", "done"}
  BY DEF MenuInv, StageInv, InitStage
<1>3. CASE AtStart \/ AtChange
  <2>1. /\ MapInv' /\ Joined(order') /\ Live' = Live \union {reserved}
        /\ order = Alone /\ reserved \in TopLevel
        /\ order' # BoardOpen
    BY <1>1, <1>3, TopJoins
  <2>2. "BOARD" \notin Live
    BY <2>1, ShapeLive DEF Live
  <2> QED
    BY <1>2, <2>1, <2>2, NotOpen DEF Ending
<1>4. CASE AtOpening
  <2>1. /\ MapInv' /\ Joined(order') /\ Live' = Live \union {reserved}
        /\ order # BoardOpen /\ order' # BoardOpen
        /\ stage["BOARD"] = "init" /\ reserved \in {"BUTTON", "CHANNEL_SELECT", "ARROW"}
    BY <1>1, <1>4, OpeningJoins
  <2> QED
    BY <2>1 DEF Ending
<1>5. CASE AtBoardAndNext
  <2>1. /\ MapInv' /\ Joined(order') /\ Live' = Live \union {reserved}
        /\ mCommands = <<>> /\ order' # BoardOpen
        /\ stage["BOARD"] \in {"childCst", "childDst", "scroll"}
        /\ reserved \in {"CHANNEL_SELECT", "CALENDAR"}
    BY <1>1, <1>5, NextJoins
  <2> QED
    BY <2>1 DEF Ending
<1>6. CASE AtSettings \/ AtScreen
  <2>1. /\ MapInv' /\ Joined(order') /\ Live' = Live \union {reserved} /\ order' # BoardOpen
        /\ "BOARD" \notin Live
        /\ reserved \in {"SETTING_BUTTON", "SETTING_SELECT"} \union Screens
    BY <1>1, <1>6, SettingsJoin
  <2>2. order # BoardOpen
    BY <2>1, ShapeLive DEF Live
  <2> QED
    BY <1>2, <2>1, <2>2 DEF Ending
<1>7. ~(AtTop \/ AtBoard \/ AtChannels \/ AtCalendar \/ AtEnd \/ AtNothing)
  BY <1>1, CommandNew DEF AtTop, AtBoard, AtChannels, AtCalendar, AtEnd, AtNothing, At
<1> QED
  BY <1>3, <1>4, <1>5, <1>6, <1>7 DEF MenuInv, MapInv

\* attachReservedScene.
LEMMA AttachSteps ==
    ASSUME MenuInv, AttachReserved, UNCHANGED mode PROVE MenuInv'
<1> USE Names
<1>1. /\ MapInv' /\ Joined(order') /\ Live' = Live \union {reserved} /\ ~Ending /\ ~Ending'
      /\ stage["BOARD"] \notin {"toSettings", "done"}
      /\ reserved \in {"HEALTH", "SETTING_BG"} => order = Alone
  BY AttachPlace
<1>2. /\ reserved # NONE /\ reserved' = NONE /\ mReservedCommand' = NoCommand
      /\ mbCreatedReserved' = FALSE /\ phase = "command" /\ phase' = "detach"
      /\ fader' = CreateFade(reserved)
      /\ parent' = [parent EXCEPT ![reserved] = Above(reserved)]
      /\ UNCHANGED <<destroyReq, command, stage, board, mbDestroySyncTask, it, job, task, look>>
      /\ IF reserved = "CALENDAR" THEN ExecSearchTask(calendar)
         ELSE UNCHANGED <<calendar, task1q>>
  BY <1>1 DEF AttachReserved, Joined
<1>3. reserved \in SceneId \ {"ROOT"} /\ reserved \notin Live
  BY <1>2, TreeFacts DEF MenuInv
<1>4. /\ stage[reserved] = InitStage(reserved)
      /\ stage[reserved] \in {"cdbInit", "waitButton", "in"}
      /\ \A x \in SceneId \ Live : x # reserved => stage[x] = "gone"
  BY <1>2 DEF MenuInv, StageInv, InitStage
<1>5. TreeInv'
  <2>1. ASSUME NEW x \in SceneId
        PROVE  parent'[x] = IF x \in Live' THEN Above(x) ELSE NONE
    BY <1>1, <1>2, <1>3 DEF MenuInv, TreeInv
  <2>2. parent' = [x \in SceneId |-> parent'[x]]
    BY <1>2 DEF MenuInv, TreeInv
  <2> QED
    BY <2>1, <2>2 DEF TreeInv
<1>6. fader' # fader => order = Alone
  BY <1>1, <1>2 DEF CreateFade
<1>7. fader' \in {"black", "in", "shown", "out"}
  BY <1>2 DEF CreateFade, FadedIn, MenuInv, WorkInv
<1>8. order = Alone => \A x \in SceneId : x # reserved => stage[x] = "gone"
  BY <1>4, ShapeLive, TreeFacts DEF Live, MenuInv, StageInv
<1>9. StageInv'
  <2>1. \A x \in SceneId :
            stage'[x] = "gone" <=> x = "ROOT" \/ x \notin Live' \union {reserved'}
    BY <1>1, <1>2, <1>3 DEF MenuInv, StageInv
  <2>2. stage'["BOARD"] \in {"cdbInit", "init"} =>
            fader' = "black" /\ stage'["CHANNEL_SELECT"] \in {"gone", "in"}
    <3>1. CASE fader' = fader
      BY <1>2, <3>1 DEF MenuInv, StageInv
    <3>2. CASE fader' # fader
      <4>1. reserved \in {"HEALTH", "SETTING_BG"} /\ stage["BOARD"] = "gone"
        BY <1>2, <1>6, <1>8, <3>2 DEF CreateFade
      <4> QED
        BY <1>2, <4>1
    <3> QED
      BY <3>1, <3>2
  <2> QED
    BY <1>2, <2>1, <2>2 DEF MenuInv, StageInv
<1>10. DoomInv'
  BY <1>1, <1>2, <1>4 DEF MenuInv, DoomInv
<1>11. TurnInv'
  BY <1>2 DEF MenuInv, TurnInv
<1>12. AskInv'
  <2>1. command["HEALTH"] = NONE
    <3>1. "HEALTH" \notin Live
      BY <1>2, AloneScenes, CommandNew DEF MenuInv, Open, At
    <3> QED
      BY <1>4, <3>1 DEF MenuInv, AskInv
  <2>2. stage["SETTING_SELECT"] = "done" => fader' = fader
    BY <1>4, <1>6, <1>8
  <2> QED
    BY <1>2, <2>1, <2>2 DEF MenuInv, AskInv
<1>13. BoardInv'
  <2>1. command["BOARD"] = NONE
    BY <1>1 DEF MenuInv, BoardInv
  <2> QED
    BY <1>1, <1>2, <2>1 DEF MenuInv, BoardInv
<1>14. CreatedInv'
  BY <1>2, CommandNew DEF CreatedInv, NoCommand
<1>15. WorkInv'
  <2>1. CASE reserved = "CALENDAR"
    <3>1. /\ calendar' = [calendar EXCEPT !.searching = TRUE, !.whole = FALSE]
          /\ task1q' = <<JobOf("search")>> \o task1q
      BY <1>2, <2>1 DEF ExecSearchTask
    <3>2. task1q' \in Seq(Job)
      BY <3>1, JobTypes DEF MenuInv, WorkInv
    <3>3. calendar' \in CalendarType /\ calendar'.then = calendar.then
      BY <3>1 DEF MenuInv, WorkInv, CalendarType
    <3> QED
      BY <1>1, <1>2, <1>7, <3>2, <3>3 DEF MenuInv, WorkInv, CalendarType
  <2>2. CASE reserved # "CALENDAR"
    BY <1>1, <1>2, <1>7, <2>2 DEF MenuInv, WorkInv
  <2> QED
    BY <2>1, <2>2
<1> QED
  BY <1>1, <1>5, <1>9, <1>10, <1>11, <1>12, <1>13, <1>14, <1>15 DEF MenuInv

-----------------------------------------------------------------------------
(* Scenes are destroyed.                                                   *)

\* A scene that has asked for it is destroyed with the scenes below it.
Dropped(k, D, r) ==
    /\ phase = "detach"
    /\ order' = r
    /\ Destroy(D)
    /\ mbCreatedReserved' = (mbCreatedReserved \/ mReservedCommand.prev = order[k])
    /\ \E cs \in CommandsOf(D) :
           mCommands' = Pushed([i \in DOMAIN mCommands |-> After(mCommands[i], D)], cs)
    /\ UNCHANGED <<fader, reserved, mbDestroySyncTask, phase, it, task1q, job>>

\* What Detach does, given the last scene that is to go and where its subtree ends.
LEMMA DetachIs ==
    ASSUME MenuInv, Detach, NEW k \in Doomed, \A j \in Doomed : j <= k,
           NEW l, LastBelow(k) = l
    PROVE  Dropped(k, {order[i] : i \in k .. l}, Without(order, k, l))
<1> DEFINE m == CHOOSE i \in Doomed : \A j \in Doomed : j <= i
<1>1. m = k
  <2>1. Doomed \subseteq Nat
    <3>1. IsTree(order)
      BY TreeFacts DEF MenuInv
    <3> QED
      BY <3>1 DEF Doomed, IsTree
  <2>2. m \in Doomed /\ \A j \in Doomed : j <= m
    OBVIOUS
  <2> HIDE DEF m
  <2> QED
    BY <2>1, <2>2
<1>2. /\ phase = "detach"
      /\ mbCreatedReserved' = (mbCreatedReserved \/ mReservedCommand.prev = order[m])
      /\ Destroy(SubtreeAt(m))
      /\ order' = SubSeq(order, 1, m - 1) \o SubSeq(order, LastBelow(m) + 1, Len(order))
      /\ \E cs \in CommandsOf(SubtreeAt(m)) :
             mCommands' = Pushed([i \in DOMAIN mCommands |->
                                     After(mCommands[i], SubtreeAt(m))], cs)
      /\ UNCHANGED <<fader, reserved, mbDestroySyncTask, phase, it, task1q, job>>
  BY DEF Detach, mainVars
<1> HIDE DEF m
<1>3. SubtreeAt(m) = {order[i] : i \in k .. l}
  BY <1>1 DEF SubtreeAt
<1> QED
  BY <1>1, <1>2, <1>3 DEF Dropped, Without

\* What is to be executed then.
LEMMA DropsQuietly ==
    ASSUME MenuInv, NEW k, NEW D, NEW r, Dropped(k, D, r), D \subseteq SceneId,
           \A x \in D : command[x] = NONE
    PROVE  /\ mCommands = <<>> => mCommands' = <<>>
           /\ \A root : mCommands = <<ReserveAll(root)>> => mCommands' = <<ReserveAll(root)>>
<1>1. PICK cs \in CommandsOf(D) :
           mCommands' = Pushed([i \in DOMAIN mCommands |-> After(mCommands[i], D)], cs)
  BY DEF Dropped
<1>2. cs = <<>>
  BY NoCommandsOf, <1>1 DEF MenuInv, AskInv
<1>3. NONE \notin D
  BY Names
<1>4. ASSUME mCommands = <<>> PROVE mCommands' = <<>>
  BY <1>1, <1>2, <1>4, AfterShort, PushedShort
<1>5. ASSUME NEW root, mCommands = <<ReserveAll(root)>>
      PROVE  mCommands' = <<ReserveAll(root)>>
  <2> DEFINE a == ReserveAll(root)
  <2>1. After(a, D) = a
    BY <1>3, AfterKeeps
  <2>2. [i \in DOMAIN mCommands |-> After(mCommands[i], D)] = <<After(a, D)>>
    BY <1>5, AfterShort
  <2> HIDE DEF a
  <2>3. mCommands' = Pushed(<<a>>, <<>>)
    BY <1>1, <1>2, <2>1, <2>2
  <2>4. mCommands' = <<a>>
    BY <2>3, PushedShort
  <2> QED
    BY <2>4 DEF a
<1> QED
  BY <1>4, <1>5

\* A scene that goes leaves its command in the queue.
LEMMA DropsAsker ==
    ASSUME MenuInv, NEW k, NEW D, NEW r, Dropped(k, D, r),
           NEW x \in D, x \in SceneId, command[x] # NONE,
           \A y \in D : y # x => command[y] = NONE, mCommands = <<>>
    PROVE  mCommands' = <<ReserveAll(command[x])>>
<1>1. PICK cs \in CommandsOf(D) :
           mCommands' = Pushed([i \in DOMAIN mCommands |-> After(mCommands[i], D)], cs)
  BY DEF Dropped
<1> DEFINE a == ReserveAll(command[x])
<1>2. cs = <<a>>
  BY OneCommandOf, <1>1 DEF MenuInv, AskInv
<1> HIDE DEF a
<1>3. mCommands' = Pushed(<<>>, <<a>>)
  BY <1>1, <1>2, AfterShort
<1>4. mCommands' = <<a>>
  BY <1>3, PushedShort
<1> QED
  BY <1>4 DEF a

\* The scenes that go are not named by the command in execution.
LEMMA DropReserved ==
    ASSUME NEW k, NEW D, NEW r, Dropped(k, D, r), D \subseteq SceneId \ {"ROOT"}
    PROVE  /\ mReservedCommand = NoCommand => mReservedCommand' = NoCommand
           /\ \A x, y : mReservedCommand = Change(x, y) => mReservedCommand' = Change(x, y)
<1>1. mReservedCommand' = After(mReservedCommand, D)
  BY DEF Dropped, Destroy
<1> QED
  BY <1>1, AfterKeeps, Names

\* The rest of the scenes and of the manager.
LEMMA DropKeeps ==
    ASSUME MenuInv, NEW k \in DOMAIN order, NEW D, NEW r, Dropped(k, D, r),
           D \subseteq Live \ {"ROOT"}, Live' = Live \ D,
           mReservedCommand' = mReservedCommand,
           mReservedCommand = NoCommand \/ (order' = Alone /\ reserved # NONE),
           "BOARD" \in D => "CHANNEL_SELECT" \notin Live' /\ ~Ending',
           "BOARD" \notin D =>
               ((command'["CHANNEL_SELECT"] # NONE \/ Ending')
                   <=> (command["CHANNEL_SELECT"] # NONE \/ Ending)),
           MapInv', UNCHANGED mode
    PROVE  MenuInv'
<1> USE Names
<1>1. /\ phase = "detach"
      /\ UNCHANGED <<fader, reserved, mbDestroySyncTask, phase, it, task1q, job>>
      /\ mbCreatedReserved' = (mbCreatedReserved \/ mReservedCommand.prev = order[k])
      /\ destroyReq' = destroyReq \ D
      /\ parent' = [x \in SceneId |-> IF x \in D THEN NONE ELSE parent[x]]
      /\ stage' = [x \in SceneId |-> IF x \in D THEN "gone" ELSE stage[x]]
      /\ board' = IF "BOARD" \in D THEN NewBoard ELSE board
      /\ command'  = [x \in SceneId |-> IF x \in D THEN NONE ELSE command[x]]
      /\ calendar' = IF "CALENDAR" \in D THEN NewCalendar ELSE calendar
      /\ task' \in {task, [task EXCEPT !.scene = "freed"]}
      /\ look' = IF look \in D THEN NONE ELSE look
  BY DEF Dropped, Destroy
<1>2. reserved \notin Live /\ Live \subseteq SceneId /\ order[k] \in Live
  BY TreeFacts, InRangeIsLive DEF MenuInv
<1>3. TreeInv'
  BY <1>1 DEF MenuInv, TreeInv
<1>4. reserved \notin D
  BY <1>2
<1>5. stage \in [SceneId -> Stage] /\ "gone" \in Stage
  BY DEF MenuInv, StageInv, Stage
<1>6. /\ \A x \in SceneId \ D : stage'[x] = stage[x] /\ command'[x] = command[x]
      /\ \A x \in D : x \in SceneId /\ stage'[x] = "gone" /\ command'[x] = NONE
      /\ "ROOT" \notin D
  BY <1>1, <1>2
<1>7. StageInv'
  <2>1. stage' \in [SceneId -> Stage]
    BY <1>1, <1>5
  <2>2. \A x \in SceneId :
            stage'[x] = "gone" <=> x = "ROOT" \/ x \notin Live' \union {reserved'}
    BY <1>1, <1>4, <1>6 DEF MenuInv, StageInv
  <2>3. reserved' # NONE => stage'[reserved'] = InitStage(reserved')
    <3>1. reserved # NONE => reserved \in SceneId
      BY TreeFacts DEF MenuInv
    <3> QED
      BY <1>1, <1>4, <1>6, <3>1 DEF MenuInv, StageInv
  <2>4. stage'["BOARD"] \in {"cdbInit", "init"} =>
            fader' = "black" /\ stage'["CHANNEL_SELECT"] \in {"gone", "in"}
    BY <1>1, <1>6 DEF MenuInv, StageInv
  <2> QED
    BY <2>1, <2>2, <2>3, <2>4 DEF StageInv
<1>8. DoomInv'
  <2>1. destroyReq' \subseteq Live' \ Lasting /\ \A x \in destroyReq' : stage'[x] = "done"
    BY <1>1, <1>2, <1>6 DEF MenuInv, DoomInv
  <2>2. \A x \in Live' \ {"BOARD"} : stage'[x] = "done" => x \in destroyReq'
    BY <1>1, <1>2, <1>6 DEF MenuInv, DoomInv
  <2> QED
    BY <1>1, <2>1, <2>2 DEF DoomInv
<1>9. TurnInv'
  BY <1>1 DEF MenuInv, TurnInv
<1>10. AskInv'
  <2>1. command' \in [SceneId -> Roots \union {NONE}]
    BY <1>1 DEF MenuInv, AskInv
  <2>2. \A x \in SceneId \ Asking : command'[x] = NONE
    BY <1>6 DEF MenuInv, AskInv
  <2>3. /\ command'["HEALTH"] # NONE <=> stage'["HEALTH"] = "done"
        /\ command'["HEALTH"] # NONE => fader' = "black"
    BY <1>1, <1>6 DEF MenuInv, AskInv
  <2>4. /\ command'["SETTING_SELECT"] # NONE <=>
               stage'["SETTING_SELECT"] \in {"out1", "blackout", "done"}
        /\ stage'["SETTING_SELECT"] = "done" /\ command'["SETTING_SELECT"] = "BOARD" =>
               fader' = "black"
    BY <1>1, <1>6 DEF MenuInv, AskInv
  <2> QED
    BY <2>1, <2>2, <2>3, <2>4 DEF AskInv
<1>11. BoardInv'
  <2>1. board' \in [count : BOOLEAN, read : BOOLEAN, exit : BOOLEAN]
    BY <1>1 DEF NewBoard, MenuInv, BoardInv
  <2>2. CASE "BOARD" \in D
    <3>1. /\ stage'["BOARD"] = "gone" /\ command'["BOARD"] = NONE /\ board'.exit = FALSE
      BY <1>1, <1>6, <2>2 DEF NewBoard
    <3>2. stage'["CHANNEL_SELECT"] \in {"gone", "in"}
      BY <1>7, <2>2 DEF StageInv, InitStage
    <3>3. command'["CHANNEL_SELECT"] = NONE
      BY <1>6, <3>2 DEF MenuInv, BoardInv
    <3> QED
      BY <2>1, <2>2, <3>1, <3>2, <3>3 DEF BoardInv
  <2>3. CASE "BOARD" \notin D
    <3>1. /\ stage'["BOARD"] = stage["BOARD"] /\ command'["BOARD"] = command["BOARD"]
          /\ board' = board
      BY <1>1, <1>6, <2>3
    <3>2. \/ "CHANNEL_SELECT" \notin D /\ stage'["CHANNEL_SELECT"] = stage["CHANNEL_SELECT"]
              /\ command'["CHANNEL_SELECT"] = command["CHANNEL_SELECT"]
          \/ stage'["CHANNEL_SELECT"] = "gone" /\ command'["CHANNEL_SELECT"] = NONE
              /\ "CHANNEL_SELECT" \notin Live'
      BY <1>6
    <3>3. board'.exit <=> command'["CHANNEL_SELECT"] # NONE \/ Ending'
      BY <2>3, <3>1 DEF MenuInv, BoardInv
    <3> QED
      BY <1>1, <2>1, <3>1, <3>2, <3>3 DEF MenuInv, BoardInv
  <2> QED
    BY <2>2, <2>3
<1>12. CreatedInv'
  <2>1. CASE mReservedCommand = NoCommand
    <3>1. mReservedCommand.prev # order[k] /\ reserved = NONE
      <4>1. mReservedCommand.prev = NONE /\ mReservedCommand.new = NONE
        BY <2>1 DEF NoCommand
      <4> QED
        BY <1>2, <4>1, TreeFacts DEF MenuInv
    <3>2. ~mbCreatedReserved
      BY <3>1 DEF MenuInv, CreatedInv
    <3> QED
      BY <1>1, <3>1, <3>2 DEF CreatedInv
  <2>2. CASE order' = Alone /\ reserved # NONE
    BY <1>1, <2>2 DEF MenuInv, CreatedInv
  <2> QED
    BY <2>1, <2>2
<1>13. WorkInv'
  <2>1. calendar' \in CalendarType /\ (stage'["CALENDAR"] = "waitTask" => calendar'.then # NONE)
    BY <1>1, <1>6 DEF MenuInv, WorkInv, CalendarType, NewCalendar, Month
  <2>2. look' \in Live' \union {NONE}
    BY <1>1 DEF MenuInv, WorkInv
  <2>3. task' \in [scene : {NONE, "held", "freed"}, month : Month \union {NONE},
                   met : BOOLEAN, told : BOOLEAN]
    BY <1>1 DEF MenuInv, WorkInv
  <2>4. mode' \in {"normal", "safe", "full"}
    BY DEF MenuInv, WorkInv
  <2> QED
    BY <1>1, <2>1, <2>2, <2>3, <2>4 DEF MenuInv, WorkInv, CalendarType
<1> QED
  BY <1>3, <1>7, <1>8, <1>9, <1>10, <1>11, <1>12, <1>13 DEF MenuInv

\* The last scene that has asked for it goes first.
LEMMA DoomIs ==
    ASSUME MenuInv, NEW k \in 1 .. Len(order), order[k] \in destroyReq,
           \A j \in k + 1 .. Len(order) : order[j] \notin destroyReq
    PROVE  k \in Doomed /\ \A j \in Doomed : j <= k
<1>1. IsTree(order)
  BY TreeFacts DEF MenuInv
<1>2. k \in Doomed
  BY <1>1 DEF IsTree, Doomed
<1>3. ASSUME NEW j \in Doomed PROVE j <= k
  <2>1. j \in 1 .. Len(order) /\ order[j] \in destroyReq /\ Len(order) \in Nat
    BY <1>1 DEF Doomed, IsTree
  <2>2. ~(j > k)
    <3>1. j > k => j \in k + 1 .. Len(order)
      BY <2>1
    <3> QED
      BY <2>1, <3>1
  <2> QED
    BY <2>1, <2>2
<1> QED
  BY <1>2, <1>3

\* The last of the tree goes alone.
LEMMA LastDrops ==
    ASSUME MenuInv, Detach, NEW n \in 1 .. 5, Len(order) = n, order[n] \in destroyReq
    PROVE  Dropped(n, {order[n]}, Without(order, n, n))
<1>1. IsTree(order)
  BY TreeFacts DEF MenuInv
<1>2. n \in Doomed /\ \A j \in Doomed : j <= n
  BY DoomIs
<1>3. LastBelow(n) = n
  BY <1>1, LastBelowLast
<1>4. Dropped(n, {order[i] : i \in n .. n}, Without(order, n, n))
  BY <1>2, <1>3, DetachIs
<1>5. {order[i] : i \in n .. n} = {order[n]}
  OBVIOUS
<1> QED
  BY <1>4, <1>5

\* So does a scene without children before it.
LEMMA LeafDrops ==
    ASSUME MenuInv, Detach, NEW k \in 1 .. Len(order) - 1, order[k] \in destroyReq,
           \A j \in k + 1 .. Len(order) : order[j] \notin destroyReq,
           Above(order[k + 1]) # order[k]
    PROVE  Dropped(k, {order[k]}, Without(order, k, k))
<1>1. IsTree(order) /\ Live \subseteq SceneId
  BY TreeFacts DEF MenuInv
<1>2. k \in 1 .. Len(order) /\ k + 1 \in DOMAIN order
  BY <1>1 DEF IsTree
<1>3. k \in Doomed /\ \A j \in Doomed : j <= k
  BY <1>2, DoomIs
<1>4. parent[order[k + 1]] = Above(order[k + 1])
  <2>1. order[k + 1] \in Live
    BY <1>2, InRangeIsLive DEF MenuInv
  <2> QED
    BY <1>1, <2>1 DEF MenuInv, TreeInv
<1>5. LastBelow(k) = k
  BY <1>1, <1>4, LastBelowLeaf
<1>6. Dropped(k, {order[i] : i \in k .. k}, Without(order, k, k))
  BY <1>3, <1>5, DetachIs
<1>7. {order[i] : i \in k .. k} = {order[k]}
  <2>1. k \in Nat
    BY <1>1 DEF IsTree
  <2>2. k .. k = {k}
    BY <2>1
  <2> QED
    BY <2>2
<1> QED
  BY <1>6, <1>7

\* The second of the tree goes with all behind it.
LEMMA FamilyDrops ==
    ASSUME MenuInv, Detach, Len(order) > 2, order[2] \in destroyReq,
           \A j \in 3 .. Len(order) : order[j] \notin destroyReq,
           \A j \in 3 .. Len(order) : Above(order[j]) = order[2]
    PROVE  Dropped(2, {order[i] : i \in 2 .. Len(order)}, Without(order, 2, Len(order)))
<1>1. IsTree(order) /\ Live \subseteq SceneId
  BY TreeFacts DEF MenuInv
<1>2. 2 \in 1 .. Len(order) /\ 2 \in DOMAIN order
  BY <1>1 DEF IsTree
<1>3. \A j \in 2 + 1 .. Len(order) : parent[order[j]] = order[2]
  <2>1. ASSUME NEW j \in 3 .. Len(order) PROVE parent[order[j]] = order[2]
    <3>1. j \in DOMAIN order
      BY <1>1 DEF IsTree
    <3>2. order[j] \in Live
      BY <3>1, InRangeIsLive DEF MenuInv
    <3> QED
      BY <1>1, <2>1, <3>2 DEF MenuInv, TreeInv
  <2> QED
    BY <2>1
<1>4. LastBelow(2) = Len(order)
  BY <1>1, <1>2, <1>3, LastBelowFamily
<1>5. 2 \in Doomed /\ \A j \in Doomed : j <= 2
  BY <1>2, DoomIs
<1> QED
  BY <1>4, <1>5, DetachIs

\* What goes from each of the trees, and what is left of them.
LEMMA TopDrops ==
    ASSUME MenuInv, Detach, NEW x \in TopLevel, order = Top(x), x \in destroyReq
    PROVE  Dropped(2, {x}, Alone)
<1>1. Len(order) = 2 /\ order[2] = x
  BY ShapeItems
<1>2. Without(order, 2, 2) = Alone
  BY Cuts
<1> QED
  BY <1>1, <1>2, LastDrops

\* SettingSelect is the last of its tree,
LEMMA SettingsDrop ==
    ASSUME MenuInv, Detach, order = Settings, "SETTING_SELECT" \in destroyReq
    PROVE  Dropped(4, {"SETTING_SELECT"}, NoSelect)
<1>1. Len(order) = 4 /\ order[4] = "SETTING_SELECT"
  BY ShapeItems
<1>2. Without(order, 4, 4) = NoSelect
  BY Cuts
<1> QED
  BY <1>1, <1>2, LastDrops

\* and so is a screen.
LEMMA ScreenDrops ==
    ASSUME MenuInv, Detach, NEW x \in Screens, order = WithScreen(x), x \in destroyReq
    PROVE  Dropped(5, {x}, Settings)
<1>1. Len(order) = 5 /\ order[5] = x
  BY ShapeItems
<1>2. Without(order, 5, 5) = Settings
  BY Cuts
<1> QED
  BY <1>1, <1>2, LastDrops

\* ChannelSelect goes from between its sisters,
LEMMA ChannelsDrop ==
    ASSUME MenuInv, Detach, order = WithChannels, "CHANNEL_SELECT" \in destroyReq
    PROVE  Dropped(4, {"CHANNEL_SELECT"}, BoardOpen)
<1>1. Len(order) = 5 /\ order[4] = "CHANNEL_SELECT" /\ order[5] = "ARROW"
  BY ShapeItems
<1>2. Without(order, 4, 4) = BoardOpen
  BY Cuts
<1>3. "ARROW" \notin destroyReq
  BY DEF MenuInv, DoomInv, Lasting
<1>4. \A j \in 4 + 1 .. Len(order) : order[j] \notin destroyReq
  BY <1>1, <1>3
<1>5. Above(order[4 + 1]) # order[4]
  BY <1>1, AboveIs
<1> QED
  BY <1>1, <1>2, <1>4, <1>5, LeafDrops

\* and the Calendar.
LEMMA CalendarDrops ==
    ASSUME MenuInv, Detach, order = WithCalendar, "CALENDAR" \in destroyReq
    PROVE  Dropped(3, {"CALENDAR"}, BoardOpen)
<1>1. Len(order) = 5 /\ order[3] = "CALENDAR" /\ order[4] = "BUTTON" /\ order[5] = "ARROW"
  BY ShapeItems
<1>2. Without(order, 3, 3) = BoardOpen
  BY Cuts
<1>3. "ARROW" \notin destroyReq /\ "BUTTON" \notin destroyReq
  BY DEF MenuInv, DoomInv, Lasting
<1>4. \A j \in 3 + 1 .. Len(order) : order[j] \notin destroyReq
  <2>1. \A j \in 3 + 1 .. 5 : j = 4 \/ j = 5
    OBVIOUS
  <2> QED
    BY <1>1, <1>3, <2>1
<1>5. Above(order[3 + 1]) # order[3]
  BY <1>1, AboveIs
<1> QED
  BY <1>1, <1>2, <1>4, <1>5, LeafDrops

\* The Board takes its children along.
LEMMA BoardDrops ==
    ASSUME MenuInv, Detach, "BOARD" \in destroyReq, "CHANNEL_SELECT" \notin destroyReq
    PROVE  /\ order = BoardOpen => Dropped(2, {"BOARD", "BUTTON", "ARROW"}, Alone)
           /\ order = WithChannels =>
                  Dropped(2, {"BOARD", "BUTTON", "CHANNEL_SELECT", "ARROW"}, Alone)
<1>1. "ARROW" \notin destroyReq /\ "BUTTON" \notin destroyReq
  BY DEF MenuInv, DoomInv, Lasting
<1>2. ASSUME order = BoardOpen PROVE Dropped(2, {"BOARD", "BUTTON", "ARROW"}, Alone)
  <2>1. Len(order) = 4 /\ order[2] = "BOARD" /\ order[3] = "BUTTON" /\ order[4] = "ARROW"
    BY <1>2, ShapeItems
  <2>2. \A j \in 3 .. Len(order) :
            order[j] \notin destroyReq /\ Above(order[j]) = order[2]
    <3>1. \A j \in 3 .. 4 : j = 3 \/ j = 4
      OBVIOUS
    <3> QED
      BY <1>1, <2>1, <3>1, AboveIs
  <2>3. Dropped(2, {order[i] : i \in 2 .. 4}, Without(order, 2, 4))
    BY <2>1, <2>2, FamilyDrops
  <2>4. {order[i] : i \in 2 .. 4} = {"BOARD", "BUTTON", "ARROW"}
    <3>1. 2 .. 4 = {2, 3, 4}
      OBVIOUS
    <3> QED
      BY <2>1, <3>1
  <2> QED
    BY <1>2, <2>3, <2>4, Cuts
<1>3. ASSUME order = WithChannels
      PROVE  Dropped(2, {"BOARD", "BUTTON", "CHANNEL_SELECT", "ARROW"}, Alone)
  <2>1. /\ Len(order) = 5 /\ order[2] = "BOARD" /\ order[3] = "BUTTON"
        /\ order[4] = "CHANNEL_SELECT" /\ order[5] = "ARROW"
    BY <1>3, ShapeItems
  <2>2. \A j \in 3 .. Len(order) :
            order[j] \notin destroyReq /\ Above(order[j]) = order[2]
    <3>1. \A j \in 3 .. 5 : j = 3 \/ j = 4 \/ j = 5
      OBVIOUS
    <3> QED
      BY <1>1, <2>1, <3>1, AboveIs
  <2>3. Dropped(2, {order[i] : i \in 2 .. 5}, Without(order, 2, 5))
    BY <2>1, <2>2, FamilyDrops
  <2>4. {order[i] : i \in 2 .. 5} = {"BOARD", "BUTTON", "CHANNEL_SELECT", "ARROW"}
    <3>1. 2 .. 5 = {2, 3, 4, 5}
      OBVIOUS
    <3> QED
      BY <2>1, <3>1
  <2> QED
    BY <1>3, <2>3, <2>4, Cuts
<1> QED
  BY <1>2, <1>3

\* Where scenes are destroyed of which none is to be replaced: nothing is reserved.
LEMMA DropEnds ==
    ASSUME MenuInv, NEW k \in 2 .. 5, NEW D, NEW r, NEW o, NEW cs, Dropped(k, D, r),
           At(o, cs, NoCommand), k \in DOMAIN o,
           D \subseteq Range(o) \ {"ROOT"}, Range(r) = Range(o) \ D,
           "BOARD" \in D => "CHANNEL_SELECT" \notin Range(r) /\ r # BoardOpen,
           "BOARD" \notin D =>
               ((command'["CHANNEL_SELECT"] # NONE \/ Ending')
                   <=> (command["CHANNEL_SELECT"] # NONE \/ Ending)),
           MapInv', UNCHANGED mode
    PROVE  MenuInv'
<1> USE DEF At
<1>1. order' = r /\ Live = Range(o) /\ Live' = Range(r) /\ k \in DOMAIN order
  BY DEF Dropped, Live
<1>2. Live \subseteq SceneId
  BY TreeFacts DEF MenuInv
<1>3. D \subseteq Live \ {"ROOT"} /\ Live' = Live \ D
  BY <1>1
<1>4. D \subseteq SceneId \ {"ROOT"}
  BY <1>2, <1>3
<1>5. mReservedCommand' = NoCommand /\ mReservedCommand = NoCommand
  BY <1>4, DropReserved
<1>6. "BOARD" \in D => "CHANNEL_SELECT" \notin Live' /\ ~Ending'
  BY <1>1 DEF Ending
<1> QED
  BY <1>1, <1>3, <1>5, <1>6, DropKeeps

\* The splash screens.
LEMMA HealthDrops ==
    ASSUME MenuInv, Detach, At(Top("HEALTH"), <<>>, NoCommand), "HEALTH" \in destroyReq,
           UNCHANGED mode
    PROVE  MenuInv'
<1> USE Names
<1>1. Dropped(2, {"HEALTH"}, Alone)
  BY TopDrops DEF At
<1>2. stage["HEALTH"] = "done" /\ command["HEALTH"] \in Roots /\ fader = "black"
  BY DEF MenuInv, DoomInv, AskInv
<1>3. PICK root \in Roots : root = command["HEALTH"] /\ mCommands' = <<ReserveAll(root)>>
  BY <1>1, <1>2, DropsAsker DEF At
<1>4. /\ mReservedCommand' = NoCommand /\ order' = Alone /\ reserved' = NONE
      /\ fader' = "black"
  <2>1. mReservedCommand = NoCommand /\ reserved = NONE
    BY CommandNew DEF At
  <2>2. mReservedCommand' = NoCommand
    BY <1>1, <2>1, DropReserved
  <2> QED
    BY <1>1, <1>2, <2>1, <2>2 DEF Dropped
<1>5. AtEnd'
  <2>1. At(Alone, <<ReserveAll(root)>>, NoCommand)'
    BY <1>3, <1>4, CommandNew DEF At
  <2> QED
    BY <1>2, <1>4, <2>1, NotOpen DEF AtEnd
<1>6. (command'["CHANNEL_SELECT"] # NONE \/ Ending')
          <=> (command["CHANNEL_SELECT"] # NONE \/ Ending)
  <2>1. command'["CHANNEL_SELECT"] = command["CHANNEL_SELECT"]
    BY <1>1 DEF Dropped, Destroy
  <2> QED
    BY <1>4, <2>1, NotOpen DEF Ending, At
<1>7. Range(Alone) = Range(Top("HEALTH")) \ {"HEALTH"} /\ 2 \in DOMAIN Top("HEALTH")
  <2>1. Range(Alone) = Range(Top("HEALTH")) \ {"HEALTH"}
    BY ShapeLive
  <2>2. DOMAIN Top("HEALTH") = 1 .. Len(Top("HEALTH")) /\ Len(Top("HEALTH")) = 2
    BY ShapeTrees, ShapeItems DEF IsTree
  <2> QED
    BY <2>1, <2>2
<1> QED
  BY <1>1, <1>5, <1>6, <1>7, ShapeLive, DropEnds DEF MapInv

\* LimitOver and Reboot, for which a scene is ready.
LEMMA ChangedDrops ==
    ASSUME MenuInv, Detach, NEW c \in Changes, At(Top(c[1]), <<>>, Change(c[1], c[2])),
           c[2] = "BOARD" => fader = "black", c[1] \in destroyReq, UNCHANGED mode
    PROVE  MenuInv'
<1> USE Names
<1>1. c[1] \in {"LIMIT_OVER", "REBOOT"} /\ c[2] \in {"BOARD", "SETTING_BG", "SETTING"}
  BY DEF Changes
<1>2. Dropped(2, {c[1]}, Alone)
  BY <1>1, TopDrops DEF At
<1>3. command[c[1]] = NONE
  BY <1>1 DEF MenuInv, AskInv, Asking
<1>4. mCommands' = <<>>
  BY <1>1, <1>2, <1>3, DropsQuietly DEF At
<1>5. /\ mReservedCommand' = Change(c[1], c[2]) /\ mReservedCommand = Change(c[1], c[2])
      /\ order' = Alone /\ reserved' = reserved /\ fader' = fader /\ reserved = c[2]
  <2>1. mReservedCommand = Change(c[1], c[2]) /\ reserved = c[2]
    BY CommandNew DEF At
  <2>2. {c[1]} \subseteq SceneId \ {"ROOT"}
    BY <1>1
  <2>3. mReservedCommand' = Change(c[1], c[2])
    BY <1>2, <2>1, <2>2, DropReserved
  <2> QED
    BY <1>2, <2>1, <2>3 DEF Dropped
<1>6. AtChange' /\ ~Ending'
  <2>1. At(Alone, <<>>, Change(c[1], c[2]))'
    BY <1>4, <1>5, CommandNew DEF At
  <2> QED
    BY <1>5, <2>1, NotOpen DEF AtChange, Ending
<1>7. Live = {"ROOT", c[1]} /\ Live' = {"ROOT"} /\ ~Ending /\ 2 \in DOMAIN order
  BY <1>1, <1>5, ShapeLive, ShapeTrees, ShapeItems, NotOpen DEF Live, At, Ending, IsTree
<1>8. command'["CHANNEL_SELECT"] = command["CHANNEL_SELECT"]
  BY <1>1, <1>2 DEF Dropped, Destroy
<1>9. MapInv'
  BY <1>6 DEF MapInv
<1>10. /\ reserved # NONE /\ "BOARD" \notin {c[1]}
       /\ {c[1]} \subseteq Live \ {"ROOT"} /\ Live' = Live \ {c[1]}
  BY <1>1, <1>5, <1>7
<1>11. mReservedCommand = NoCommand \/ (order' = Alone /\ reserved # NONE)
  BY <1>5, <1>10
<1>12. "BOARD" \notin {c[1]} =>
               ((command'["CHANNEL_SELECT"] # NONE \/ Ending')
                   <=> (command["CHANNEL_SELECT"] # NONE \/ Ending))
  BY <1>6, <1>7, <1>8
<1> QED
  BY <1>2, <1>5, <1>7, <1>9, <1>10, <1>11, <1>12, DropKeeps

\* ChannelSelect and the Calendar.
LEMMA ChannelsGo ==
    ASSUME MenuInv, Detach, AtChannels, "CHANNEL_SELECT" \in destroyReq, UNCHANGED mode
    PROVE  MenuInv'
<1> USE Names
<1>1. At(WithChannels, <<>>, NoCommand)
  BY DEF AtChannels
<1>2. Dropped(4, {"CHANNEL_SELECT"}, BoardOpen)
  BY <1>1, ChannelsDrop DEF At
<1>3. stage["CHANNEL_SELECT"] = "done"
  BY DEF MenuInv, DoomInv
<1>4. stage["BOARD"] \in {"childCst", "childDst", "scroll", "toSettings", "done"}
  BY <1>3 DEF AtChannels, MenuInv, StageInv
<1>5. /\ mReservedCommand' = NoCommand /\ order' = BoardOpen /\ reserved' = NONE
      /\ stage'["BOARD"] = stage["BOARD"] /\ fader' = fader
  <2>1. mReservedCommand' = NoCommand
    BY <1>1, <1>2, DropReserved DEF At
  <2>2. order' = BoardOpen /\ reserved' = NONE /\ fader' = fader
    BY <1>1, <1>2, CommandNew DEF At, Dropped
  <2>3. stage' = [x \in SceneId |-> IF x \in {"CHANNEL_SELECT"} THEN "gone" ELSE stage[x]]
    BY <1>2 DEF Dropped, Destroy
  <2> QED
    BY <2>1, <2>2, <2>3
<1>6. command'["CHANNEL_SELECT"] = NONE
  BY <1>2 DEF Dropped, Destroy
<1>7. ~Ending
  BY <1>1, NotOpen DEF Ending, At
<1>8. ASSUME MapInv',
              (command'["CHANNEL_SELECT"] # NONE \/ Ending')
                  <=> (command["CHANNEL_SELECT"] # NONE \/ Ending)
       PROVE  MenuInv'
  <2>1. 4 \in DOMAIN WithChannels
    BY ShapeTrees, ShapeItems DEF IsTree
  <2>2. /\ {"CHANNEL_SELECT"} \subseteq Range(WithChannels) \ {"ROOT"}
        /\ Range(BoardOpen) = Range(WithChannels) \ {"CHANNEL_SELECT"}
    BY ShapeLive
  <2> QED
    BY <1>1, <1>2, <1>8, <2>1, <2>2, DropEnds
<1>9. CASE command["CHANNEL_SELECT"] # NONE
  <2>1. /\ command["CHANNEL_SELECT"] \in Roots /\ command["CHANNEL_SELECT"] # "BOARD"
        /\ board.exit
    BY <1>9 DEF MenuInv, AskInv, BoardInv
  <2>2. PICK root \in Roots : root # "BOARD" /\ mCommands' = <<ReserveAll(root)>>
    BY <1>1, <1>2, <1>9, <2>1, DropsAsker DEF At
  <2>3. stage["BOARD"] \in {"childCst", "childDst", "scroll", "done"}
    BY <1>3, <1>4, <2>1 DEF MenuInv, BoardInv
  <2>4. At(BoardOpen, <<ReserveAll(root)>>, NoCommand)'
    BY <1>5, <2>2, CommandNew DEF At
  <2>5. AtEnd'
    BY <1>5, <2>2, <2>3, <2>4, NotOpen DEF AtEnd
  <2>6. Ending'
    BY <2>4 DEF Ending, At
  <2>7. /\ MapInv'
        /\ (command'["CHANNEL_SELECT"] # NONE \/ Ending')
               <=> (command["CHANNEL_SELECT"] # NONE \/ Ending)
    BY <1>9, <2>5, <2>6 DEF MapInv
  <2> QED
    BY <1>8, <2>7
<1>10. CASE command["CHANNEL_SELECT"] = NONE
  <2>1. mCommands' = <<>>
    BY <1>1, <1>2, <1>10, DropsQuietly DEF At
  <2>2. At(BoardOpen, <<>>, NoCommand)'
    BY <1>5, <2>1, CommandNew DEF At
  <2>3. AtBoard'
    BY <1>4, <1>5, <2>2 DEF AtBoard
  <2>4. ~Ending'
    BY <2>1 DEF Ending
  <2>5. /\ MapInv'
        /\ (command'["CHANNEL_SELECT"] # NONE \/ Ending')
               <=> (command["CHANNEL_SELECT"] # NONE \/ Ending)
    BY <1>6, <1>7, <1>10, <2>3, <2>4 DEF MapInv
  <2> QED
    BY <1>8, <2>5
<1> QED
  BY <1>9, <1>10

\* The Calendar goes, and the Board is as before.
LEMMA CalendarGoesFrom ==
    ASSUME MenuInv, Detach, AtCalendar, "CALENDAR" \in destroyReq, UNCHANGED mode
    PROVE  MenuInv'
<1> USE Names
<1>1. /\ At(WithCalendar, <<>>, NoCommand)
      /\ stage["BOARD"] \in {"childCst", "childDst", "scroll"}
  BY DEF AtCalendar
<1>2. Dropped(3, {"CALENDAR"}, BoardOpen)
  BY <1>1, CalendarDrops DEF At
<1>3. command["CALENDAR"] = NONE
  BY DEF MenuInv, AskInv, Asking
<1>4. mCommands' = <<>>
  BY <1>1, <1>2, <1>3, DropsQuietly DEF At
<1>5. mReservedCommand' = NoCommand
  BY <1>1, <1>2, DropReserved DEF At
<1>6. order' = BoardOpen /\ reserved' = NONE
  BY <1>1, <1>2, CommandNew DEF At, Dropped
<1>7. /\ stage'["BOARD"] = stage["BOARD"]
      /\ command'["CHANNEL_SELECT"] = command["CHANNEL_SELECT"]
  BY <1>2 DEF Dropped, Destroy
<1>8. AtBoard'
  <2>1. At(BoardOpen, <<>>, NoCommand)'
    BY <1>4, <1>5, <1>6, CommandNew DEF At
  <2> QED
    BY <1>1, <1>7, <2>1 DEF AtBoard
<1>9. ~Ending' /\ ~Ending
  BY <1>1, <1>4 DEF Ending, At
<1>10. MapInv' /\ ((command'["CHANNEL_SELECT"] # NONE \/ Ending')
                       <=> (command["CHANNEL_SELECT"] # NONE \/ Ending))
  BY <1>7, <1>8, <1>9 DEF MapInv
<1>11. 3 \in DOMAIN WithCalendar
  BY ShapeTrees, ShapeItems DEF IsTree
<1>12. /\ {"CALENDAR"} \subseteq Range(WithCalendar) \ {"ROOT"}
       /\ Range(BoardOpen) = Range(WithCalendar) \ {"CALENDAR"}
  BY ShapeLive
<1> QED
  BY <1>1, <1>2, <1>10, <1>11, <1>12, DropEnds

\* The Board, with its children: alone, or with ChannelSelect.
LEMMA BoardCommands ==
    ASSUME MenuInv, NEW k, NEW D, NEW r, Dropped(k, D, r), "BOARD" \in D,
           D \subseteq {"BOARD", "BUTTON", "CHANNEL_SELECT", "ARROW"},
           "CHANNEL_SELECT" \in D \/ command["CHANNEL_SELECT"] = NONE, mCommands = <<>>
    PROVE  \/ mCommands' = <<>>
           \/ \E root \in Roots \ {"BOARD"} : mCommands' = <<ReserveAll(root)>>
<1> USE Names
<1>1. /\ command["BUTTON"] = NONE /\ command["ARROW"] = NONE
      /\ command \in [SceneId -> Roots \union {NONE}]
  BY DEF MenuInv, AskInv, Asking
<1>2. command["BOARD"] # NONE => command["BOARD"] # "BOARD" /\ command["CHANNEL_SELECT"] = NONE
  BY DEF MenuInv, BoardInv
<1>3. command["CHANNEL_SELECT"] # NONE => command["CHANNEL_SELECT"] # "BOARD"
  BY DEF MenuInv, BoardInv
<1>4. D \subseteq SceneId
  OBVIOUS
<1>5. CASE command["BOARD"] # NONE
  <2>1. \A y \in D : y # "BOARD" => command[y] = NONE
    BY <1>1, <1>2, <1>5
  <2>2. mCommands' = <<ReserveAll(command["BOARD"])>>
    BY <1>5, <2>1, DropsAsker
  <2> QED
    BY <1>1, <1>2, <1>5, <2>2
<1>6. CASE command["CHANNEL_SELECT"] # NONE
  <2>1. "CHANNEL_SELECT" \in D /\ command["BOARD"] = NONE
    BY <1>2, <1>6
  <2>2. \A y \in D : y # "CHANNEL_SELECT" => command[y] = NONE
    BY <1>1, <2>1
  <2>3. mCommands' = <<ReserveAll(command["CHANNEL_SELECT"])>>
    BY <1>6, <2>1, <2>2, DropsAsker
  <2> QED
    BY <1>1, <1>3, <1>6, <2>3
<1>7. CASE command["BOARD"] = NONE /\ command["CHANNEL_SELECT"] = NONE
  <2>1. \A y \in D : command[y] = NONE
    BY <1>1, <1>7
  <2> QED
    BY <1>4, <2>1, DropsQuietly
<1> QED
  BY <1>5, <1>6, <1>7

\* The Board goes; its request is queued, or in safe mode nothing.
LEMMA BoardGoes ==
    ASSUME MenuInv, Detach, AtBoard \/ AtChannels, "BOARD" \in destroyReq,
           "CHANNEL_SELECT" \notin destroyReq, UNCHANGED mode
    PROVE  MenuInv'
<1> USE Names
<1>1. PICK o \in {BoardOpen, WithChannels} : At(o, <<>>, NoCommand)
  BY DEF AtBoard, AtChannels
<1>2. PICK D : /\ Dropped(2, D, Alone)
               /\ \/ o = BoardOpen /\ D = {"BOARD", "BUTTON", "ARROW"}
                  \/ o = WithChannels /\ D = {"BOARD", "BUTTON", "CHANNEL_SELECT", "ARROW"}
  BY <1>1, BoardDrops DEF At
<1>3. o = BoardOpen => command["CHANNEL_SELECT"] = NONE
  <2>1. ASSUME o = BoardOpen PROVE stage["CHANNEL_SELECT"] = "gone"
    <3>1. "CHANNEL_SELECT" \notin Live /\ reserved = NONE
      BY <1>1, <2>1, ShapeLive, CommandNew DEF Live, At
    <3> QED
      BY <3>1, OthersGone
  <2> QED
    BY <2>1 DEF MenuInv, BoardInv
<1>4. \/ mCommands' = <<>>
      \/ \E root \in Roots \ {"BOARD"} : mCommands' = <<ReserveAll(root)>>
  BY <1>1, <1>2, <1>3, BoardCommands DEF At
<1>5. mReservedCommand' = NoCommand
  BY <1>1, <1>2, DropReserved DEF At
<1>6. order' = Alone /\ reserved' = NONE
  BY <1>1, <1>2, CommandNew DEF At, Dropped
<1>7. MapInv'
  <2>1. CASE mCommands' = <<>>
    <3>1. AtNothing'
      BY <1>5, <1>6, <2>1, CommandNew DEF AtNothing, At
    <3> QED
      BY <3>1 DEF MapInv
  <2>2. ASSUME NEW root \in Roots \ {"BOARD"}, mCommands' = <<ReserveAll(root)>>
        PROVE  MapInv'
    <3>1. At(Alone, <<ReserveAll(root)>>, NoCommand)'
      BY <1>5, <1>6, <2>2, CommandNew DEF At
    <3>2. AtEnd'
      BY <3>1, NotOpen DEF AtEnd
    <3> QED
      BY <3>2 DEF MapInv
  <2> QED
    BY <1>4, <2>1, <2>2
<1>8. 2 \in DOMAIN o
  BY ShapeTrees, ShapeItems DEF IsTree
<1>9. /\ D \subseteq Range(o) \ {"ROOT"} /\ Range(Alone) = Range(o) \ D
      /\ "CHANNEL_SELECT" \notin Range(Alone)
  BY <1>2, ShapeLive
<1> QED
  BY <1>1, <1>2, <1>7, <1>8, <1>9, NotOpen, DropEnds

\* The Board of a ChannelSelect that has asked for another tree.
LEMMA LastBoardGoes ==
    ASSUME MenuInv, Detach, AtEnd, "BOARD" \in destroyReq, UNCHANGED mode
    PROVE  MenuInv'
<1> USE Names
<1>1. PICK root \in Roots, o \in {Alone, BoardOpen, NoSelect} :
          At(o, <<ReserveAll(root)>>, NoCommand) /\ (root = "BOARD" => fader = "black")
  BY DEF AtEnd
<1>2. o = BoardOpen
  <2>1. "BOARD" \in Live
    BY DEF MenuInv, DoomInv
  <2> QED
    BY <1>1, <2>1, ShapeLive DEF At, Live
<1>3. "CHANNEL_SELECT" \notin destroyReq
  BY <1>1, <1>2, ShapeLive DEF MenuInv, DoomInv, At, Live
<1>4. Dropped(2, {"BOARD", "BUTTON", "ARROW"}, Alone)
  BY <1>1, <1>2, <1>3, BoardDrops DEF At
<1>5. \A x \in SceneId : command[x] = NONE
  <2>1. /\ reserved = NONE /\ mCommands # <<>> /\ Head(mCommands).type = "ALL"
    BY <1>1, HeadsAndTails, CommandNew DEF At
  <2> QED
    BY <2>1, EndFacts
<1>6. mCommands' = <<ReserveAll(root)>>
  BY <1>1, <1>4, <1>5, DropsQuietly DEF At
<1>7. mReservedCommand' = NoCommand
  BY <1>1, <1>4, DropReserved DEF At
<1>8. order' = Alone /\ reserved' = NONE /\ fader' = fader
  BY <1>1, <1>4, CommandNew DEF At, Dropped
<1>9. MapInv'
  <2>1. At(Alone, <<ReserveAll(root)>>, NoCommand)'
    BY <1>6, <1>7, <1>8, CommandNew DEF At
  <2>2. AtEnd'
    BY <1>1, <1>8, <2>1, NotOpen DEF AtEnd
  <2> QED
    BY <2>2 DEF MapInv
<1>10. 2 \in DOMAIN o
  BY <1>2, ShapeTrees, ShapeItems DEF IsTree
<1>11. /\ {"BOARD", "BUTTON", "ARROW"} \subseteq Range(o) \ {"ROOT"}
       /\ Range(Alone) = Range(o) \ {"BOARD", "BUTTON", "ARROW"}
       /\ "CHANNEL_SELECT" \notin Range(Alone)
  BY <1>2, ShapeLive
<1> QED
  BY <1>1, <1>4, <1>9, <1>10, <1>11, NotOpen, DropEnds

\* SettingSelect and the screens behind it.
LEMMA SelectGoes ==
    ASSUME MenuInv, Detach, AtSettings, "SETTING_SELECT" \in destroyReq, UNCHANGED mode
    PROVE  MenuInv'
<1> USE Names
<1>1. At(Settings, <<>>, NoCommand)
  <2>1. "SETTING_SELECT" \in Live
    BY DEF MenuInv, DoomInv
  <2> QED
    BY <2>1, ShapeLive DEF AtSettings, At, Live
<1>2. Dropped(4, {"SETTING_SELECT"}, NoSelect)
  BY <1>1, SettingsDrop DEF At
<1>3. /\ command["SETTING_SELECT"] \in Roots
      /\ command["SETTING_SELECT"] = "BOARD" => fader = "black"
  BY DEF MenuInv, DoomInv, AskInv
<1>4. PICK root \in Roots : /\ mCommands' = <<ReserveAll(root)>>
                            /\ root = "BOARD" => fader = "black"
  BY <1>1, <1>2, <1>3, DropsAsker DEF At
<1>5. mReservedCommand' = NoCommand
  BY <1>1, <1>2, DropReserved DEF At
<1>6. order' = NoSelect /\ reserved' = NONE /\ fader' = fader
  BY <1>1, <1>2, CommandNew DEF At, Dropped
<1>7. command'["CHANNEL_SELECT"] = command["CHANNEL_SELECT"]
  BY <1>2 DEF Dropped, Destroy
<1>8. AtEnd'
  <2>1. At(NoSelect, <<ReserveAll(root)>>, NoCommand)'
    BY <1>4, <1>5, <1>6, CommandNew DEF At
  <2> QED
    BY <1>4, <1>6, <2>1, NotOpen DEF AtEnd
<1>9. ~Ending' /\ ~Ending
  BY <1>1, <1>6, NotOpen DEF Ending, At
<1>10. MapInv' /\ ((command'["CHANNEL_SELECT"] # NONE \/ Ending')
                       <=> (command["CHANNEL_SELECT"] # NONE \/ Ending))
  BY <1>7, <1>8, <1>9 DEF MapInv
<1>11. 4 \in DOMAIN Settings
  BY ShapeTrees, ShapeItems DEF IsTree
<1>12. /\ {"SETTING_SELECT"} \subseteq Range(Settings) \ {"ROOT"}
       /\ Range(NoSelect) = Range(Settings) \ {"SETTING_SELECT"}
  BY ShapeLive
<1> QED
  BY <1>1, <1>2, <1>10, <1>11, <1>12, DropEnds

\* A screen of the settings goes.
LEMMA ScreenGoes ==
    ASSUME MenuInv, Detach, NEW x \in Screens, x \in destroyReq,
           At(WithScreen(x), <<>>, NoCommand), UNCHANGED mode
    PROVE  MenuInv'
<1> USE Names
<1>1. Dropped(5, {x}, Settings)
  BY ScreenDrops DEF At
<1>2. command[x] = NONE
  BY DEF MenuInv, AskInv, Asking
<1>3. mCommands' = <<>>
  BY <1>1, <1>2, DropsQuietly DEF At
<1>4. mReservedCommand' = NoCommand
  BY <1>1, DropReserved DEF At
<1>5. order' = Settings /\ reserved' = NONE
  BY <1>1, CommandNew DEF At, Dropped
<1>6. command'["CHANNEL_SELECT"] = command["CHANNEL_SELECT"]
  BY <1>1 DEF Dropped, Destroy
<1>7. AtSettings'
  BY <1>3, <1>4, <1>5, CommandNew DEF At, AtSettings
<1>8. ~Ending' /\ ~Ending
  BY <1>5, NotOpen DEF Ending, At
<1>9. MapInv' /\ ((command'["CHANNEL_SELECT"] # NONE \/ Ending')
                      <=> (command["CHANNEL_SELECT"] # NONE \/ Ending))
  BY <1>6, <1>7, <1>8 DEF MapInv
<1>10. 5 \in DOMAIN WithScreen(x)
  BY ShapeTrees, ShapeItems DEF IsTree
<1>11. /\ {x} \subseteq Range(WithScreen(x)) \ {"ROOT"}
       /\ Range(Settings) = Range(WithScreen(x)) \ {x}
  BY ShapeLive
<1> QED
  BY <1>1, <1>9, <1>10, <1>11, DropEnds

\* A scene that has asked for its destruction goes, wherever it is.
LEMMA DetachSteps ==
    ASSUME MenuInv, Detach, UNCHANGED mode PROVE MenuInv'
<1> USE Names
<1>1. PICK x \in destroyReq : x \in Live /\ x \notin Lasting /\ stage[x] = "done"
  <2>1. destroyReq # {}
    BY DEF Detach, Doomed
  <2> QED
    BY <2>1 DEF MenuInv, DoomInv
<1>2. phase = "detach"
  BY DEF Detach
<1>3. CASE AtStart \/ AtNothing
  BY <1>1, <1>3, ShapeLive DEF AtStart, AtNothing, At, Live, Lasting
<1>4. CASE AtTop
  <2>1. PICK y \in {"HEALTH", "LIMIT_OVER", "REBOOT", "SETTING"} :
            At(Top(y), <<>>, NoCommand) /\ (y # "HEALTH" => stage[y] # "done")
    BY <1>4 DEF AtTop
  <2>2. x = y
    BY <1>1, <2>1, ShapeLive DEF At, Live, Lasting
  <2> QED
    BY <1>1, <2>1, <2>2, HealthDrops
<1>5. CASE AtChange
  <2>1. PICK c \in Changes :
            /\ \/ At(Top(c[1]), <<>>, Change(c[1], c[2]))
               \/ At(Alone, <<>>, Change(c[1], c[2]))
            /\ c[2] = "BOARD" => fader = "black"
    BY <1>2, <1>5 DEF AtChange
  <2>2. order # Alone
    BY <1>1, ShapeLive DEF Live, Lasting
  <2>3. At(Top(c[1]), <<>>, Change(c[1], c[2]))
    BY <2>1, <2>2 DEF At
  <2>4. x = c[1]
    BY <1>1, <2>3, ShapeLive DEF At, Live, Lasting
  <2> QED
    BY <1>1, <2>1, <2>3, <2>4, ChangedDrops
<1>6. CASE AtOpening
  <2>1. stage["BOARD"] \in {"cdbInit", "init"} /\ x \in {"BOARD", "CHANNEL_SELECT"}
    BY <1>1, <1>6, ShapeLive DEF AtOpening, At, Live, Lasting
  <2> QED
    BY <1>1, <2>1 DEF MenuInv, StageInv
<1>7. CASE AtBoard
  <2>1. x = "BOARD" /\ "CHANNEL_SELECT" \notin Live
    BY <1>1, <1>7, ShapeLive DEF AtBoard, At, Live, Lasting
  <2>2. "CHANNEL_SELECT" \notin destroyReq
    BY <2>1 DEF MenuInv, DoomInv
  <2> QED
    BY <1>1, <1>7, <2>1, <2>2, BoardGoes
<1>8. CASE AtBoardAndNext
  <2>1. x = "BOARD" /\ stage["BOARD"] \in {"childCst", "childDst", "scroll"}
    BY <1>1, <1>8, ShapeLive DEF AtBoardAndNext, At, Live, Lasting
  <2> QED
    BY <1>1, <2>1
<1>9. CASE AtChannels
  <2>1. x \in {"BOARD", "CHANNEL_SELECT"}
    BY <1>1, <1>9, ShapeLive DEF AtChannels, At, Live, Lasting
  <2> QED
    BY <1>1, <1>9, <2>1, BoardGoes, ChannelsGo
<1>10. CASE AtCalendar
  <2>1. x \in {"BOARD", "CALENDAR"} /\ stage["BOARD"] \in {"childCst", "childDst", "scroll"}
    BY <1>1, <1>10, ShapeLive DEF AtCalendar, At, Live, Lasting
  <2> QED
    BY <1>1, <1>10, <2>1, CalendarGoesFrom
<1>11. CASE AtSettings
  <2>1. x = "SETTING_SELECT"
    BY <1>1, <1>11, ShapeLive DEF AtSettings, At, Live, Lasting
  <2> QED
    BY <1>1, <1>11, <2>1, SelectGoes
<1>12. CASE AtScreen
  <2>1. PICK y \in Screens : /\ \/ At(Settings, <<>>, Child(y))
                                \/ At(WithScreen(y), <<>>, NoCommand)
                             /\ stage["SETTING_SELECT"] \in {"wait2", "wait3"}
    BY <1>2, <1>12 DEF AtScreen
  <2>2. x # "SETTING_SELECT"
    BY <1>1, <2>1
  <2>3. x = y /\ At(WithScreen(y), <<>>, NoCommand)
    BY <1>1, <2>1, <2>2, ShapeLive DEF At, Live, Lasting
  <2> QED
    BY <1>1, <2>3, ScreenGoes
<1>13. CASE AtEnd
  <2>1. x = "BOARD"
    BY <1>1, <1>13, ShapeLive DEF AtEnd, At, Live, Lasting
  <2> QED
    BY <1>1, <1>13, <2>1, LastBoardGoes
<1> QED
  BY <1>3, <1>4, <1>5, <1>6, <1>7, <1>8, <1>9, <1>10, <1>11, <1>12, <1>13
     DEF MenuInv, MapInv

-----------------------------------------------------------------------------
(* The map is never left.                                                  *)

\* The boot scene is the first of a tree, and the screen is dark.
LEMMA MapInit == Init => MenuInv
<1> SUFFICES ASSUME Init PROVE MenuInv
  OBVIOUS
<1> USE Names
<1>1. PICK b \in Boot : mode = b[2] /\ mCommands = <<CreateChild(b[1], "ROOT", NONE)>>
  BY DEF Init
<1>2. b[1] \in TopLevel /\ mode \in {"normal", "safe", "full"}
  BY <1>1, BootAssumption
<1>3. /\ order = <<"ROOT">> /\ parent = [x \in SceneId |-> NONE] /\ destroyReq = {}
      /\ command = [x \in SceneId |-> NONE] /\ stage = [x \in SceneId |-> "gone"]
      /\ fader = "black" /\ board = NewBoard /\ reserved = NONE
      /\ mReservedCommand = NoCommand /\ mbCreatedReserved = FALSE
      /\ mbDestroySyncTask = FALSE /\ phase = "calc" /\ it = 1
      /\ task1q = <<>> /\ job = NoJob /\ task = NoTask /\ look = NONE
      /\ calendar = NewCalendar
  BY DEF Init
<1>4. At(Alone, <<Child(b[1])>>, NoCommand)
  <2>1. Child(b[1]) = CreateChild(b[1], "ROOT", NONE)
    BY <1>2, AboveIs DEF Child
  <2> QED
    BY <1>1, <1>3, <2>1, CommandNew DEF At, Alone
<1>5. MapInv /\ ~Ending
  <2>1. AtStart
    BY <1>2, <1>3, <1>4 DEF AtStart
  <2> QED
    BY <1>4, <2>1, NotOpen DEF MapInv, Ending, At
<1>6. Live = {"ROOT"} /\ order = Alone
  BY <1>3, ShapeLive DEF Alone, Live
<1>7. TreeInv
  BY <1>3, <1>6, AboveIs DEF TreeInv
<1>8. StageInv
  BY <1>3, <1>6 DEF StageInv, Stage
<1>9. DoomInv /\ AskInv
  BY <1>3, <1>6 DEF DoomInv, AskInv
<1>10. TurnInv
  <2>1. 1 \in DOMAIN order
    BY <1>3
  <2> QED
    BY <1>3, <2>1 DEF TurnInv
<1>11. BoardInv
  BY <1>3, <1>5 DEF BoardInv, NewBoard
<1>12. CreatedInv
  BY <1>3 DEF CreatedInv
<1>13. WorkInv
  <2>1. task1q \in Seq(Job) /\ job \in Job
    BY <1>3 DEF NoJob, Job
  <2>2. task \in [scene : {NONE, "held", "freed"}, month : Month \union {NONE},
                  met : BOOLEAN, told : BOOLEAN]
    BY <1>3 DEF NoTask
  <2>3. calendar \in [searching : BOOLEAN, canceled : BOOLEAN,
                      then : {NONE, "scroll", "leaving"}, month : Month,
                      mark : Month \union {NONE}, whole : BOOLEAN]
    BY <1>3 DEF NewCalendar, Month
  <2>4. stage["CALENDAR"] # "waitTask"
    BY <1>3
  <2> QED
    BY <1>2, <1>3, <2>1, <2>2, <2>3, <2>4 DEF WorkInv
<1> QED
  BY <1>5, <1>7, <1>8, <1>9, <1>10, <1>11, <1>12, <1>13 DEF MenuInv

-----------------------------------------------------------------------------
(* A Board that takes input although it was told to exit.                  *)

\* Only the Board itself begins to take input, and only ChannelSelect tells it to
\* exit, among the scenes.
LEMMA InputByCalls ==
    ASSUME MenuInv, UserStep \/ OwnStep
    PROVE  /\ board'.exit => board.exit \/ ChannelsToSettings
           /\ stage'["BOARD"] = "normal" =>
                  stage["BOARD"] = "normal" \/ BoardTakesOver \/ BoardScrollEnds
<1> USE Names
<1>0. stage \in [SceneId -> Stage] /\ board \in [count : BOOLEAN, read : BOOLEAN, exit : BOOLEAN]
  BY DEF MenuInv, StageInv, BoardInv
<1>1. ASSUME NEW id \in SceneId, NEW s, NEW t, Goes(id, s, t), id # "BOARD" \/ t # "normal"
      PROVE  stage'["BOARD"] = "normal" => stage["BOARD"] = "normal"
  BY <1>0, <1>1, GoesStage
<1>2. ASSUME NEW s, NEW t, CalendarGoes(s, t)
      PROVE  UNCHANGED board /\ stage'["BOARD"] = stage["BOARD"]
  BY <1>0, <1>2 DEF CalendarGoes, GoesOn
<1>3. ASSUME NEW id \in SceneId \ {"BOARD"}, NEW s, Dies(id, s)
      PROVE  UNCHANGED board /\ (stage'["BOARD"] = "normal" => stage["BOARD"] = "normal")
  BY <1>1, <1>3 DEF Dies
<1>4. CASE \/ \E id \in {"HEALTH", "LIMIT_OVER"} : PassSplash(id) \/ FadeSplash(id)
           \/ LeaveHealth \/ LeaveLimitOver \/ LeaveReboot
  BY <1>1, <1>4 DEF PassSplash, FadeSplash, LeaveHealth, LeaveLimitOver, LeaveReboot,
     ChangeScene
<1>5. CASE BoardCdbInit \/ BoardInit \/ BoardInitSafe \/ BoardInitFull
  BY <1>0, <1>1, <1>5 DEF BoardCdbInit, BoardInit, BoardInitSafe, BoardInitFull
<1>6. CASE BoardRecount \/ BoardNewDay \/ BoardScrolls \/ BoardToChannels
  BY <1>0, <1>1, <1>6 DEF BoardRecount, BoardNewDay, BoardScrolls, BoardToChannels, Reads
<1>7. CASE \/ BoardToCalendar \/ BoardToSettings \/ BoardChildCame \/ BoardSDStopped
           \/ BoardLeaves
  BY <1>0, <1>1, <1>7 DEF BoardToCalendar, BoardToSettings, BoardChildCame, BoardSDStopped,
     BoardLeaves, Keep
<1>8. CASE BoardTakesOver \/ BoardScrollEnds
  BY <1>8 DEF BoardTakesOver, BoardScrollEnds, Keep
<1>9. CASE ChannelsShown \/ ChannelsToBoard \/ ChannelsToSettings \/ ChannelsLeave
  BY <1>1, <1>3, <1>9 DEF ChannelsShown, ChannelsToBoard, ChannelsToSettings, ChannelsLeave,
     Keep
<1>10. CASE CalendarShown \/ CalendarLeaves
  BY <1>1, <1>3, <1>10 DEF CalendarShown, CalendarLeaves, Keep
<1>11. CASE CalendarScrolls \/ CalendarExits \/ CalendarWaited \/ CalendarScrolled
  BY <1>2, <1>11 DEF CalendarScrolls, CalendarExits, CalendarWaited, CalendarScrolled
<1>12. CASE CalendarPicks
  <2>1. CASE CalendarGoes("normal", "waitExit")
    BY <1>2, <2>1
  <2>2. CASE /\ GoesOn("CALENDAR", "normal",
                       [stage EXCEPT !["CALENDAR"] = "waitExit", !["BOARD"] = "scroll"])
             /\ board' = Reads
    BY <1>0, <2>2 DEF GoesOn, Reads
  <2> QED
    BY <1>12, <2>1, <2>2 DEF CalendarPicks
<1>13. CASE \/ SettingButtonShown \/ SelectStarts \/ SelectTurns \/ SelectSetting
            \/ SelectFadesOut \/ SelectBack
  BY <1>1, <1>13 DEF SettingButtonShown, SelectStarts, SelectTurns, SelectSetting,
     SelectFadesOut, SelectBack, Keep
<1>14. CASE \/ SelectLeaves \/ SelectOpens("page2", "wait2", "CHANNEL_EDIT")
            \/ SelectOpens("page3", "wait3", "MEMORY") \/ SelectChildGone \/ ScreenLeaves
  BY <1>1, <1>3, <1>14 DEF SelectLeaves, SelectOpens, SelectChildGone, ScreenLeaves, Keep
<1> QED
  BY <1>4, <1>5, <1>6, <1>7, <1>8, <1>9, <1>10, <1>11, <1>12, <1>13, <1>14
     DEF UserStep, OwnStep

\* Nothing else makes the Board take input or exit.
LEMMA InputElsewhere ==
    ASSUME MenuInv, ManagerStep \/ ThreadStep \/ Idle \/ UNCHANGED vars
    PROVE  /\ board'.exit => board.exit
           /\ stage'["BOARD"] = "normal" => stage["BOARD"] = "normal"
<1> USE Names
<1>0. stage \in [SceneId -> Stage] /\ board \in [count : BOOLEAN, read : BOOLEAN, exit : BOOLEAN]
  BY DEF MenuInv, StageInv, BoardInv
<1>1. ASSUME NEW D, Destroy(D)
      PROVE  /\ board'.exit => board.exit
             /\ stage'["BOARD"] = "normal" => stage["BOARD"] = "normal"
  BY <1>0, <1>1 DEF Destroy, NewBoard
<1>2. CASE ExecCreateChild \/ ExecReserveChange
  BY <1>0, <1>2 DEF ExecCreateChild, ExecReserveChange, Reserve, Construct, InitStage, NewBoard
<1>3. CASE ExecReserveAll \/ Detach
  BY <1>1, <1>3 DEF ExecReserveAll, Detach
<1>4. CASE AttachReserved \/ AttachToFreed \/ AwaitReserved \/ NothingToExec \/ EndCalc
  BY <1>4 DEF AttachReserved, AttachToFreed, AwaitReserved, NothingToExec, EndCalc,
     managerVars, sceneVars
<1>5. CASE NextFrame \/ FadeDone \/ Idle \/ UNCHANGED vars
  BY <1>5 DEF NextFrame, FadeDone, Idle, vars, managerVars, sceneVars
<1>6. CASE NandStep \/ StartJob \/ LookOn \/ Found \/ SearchDate \/ MeetRecord \/ UseRecord
  BY <1>6 DEF NandStep, StartJob, LookOn, Found, SearchDate, MeetRecord, UseRecord, sceneVars
<1>7. CASE JobTells \/ FinishJob
  BY <1>0, <1>7 DEF JobTells, FinishJob
<1> QED
  BY <1>2, <1>3, <1>4, <1>5, <1>6, <1>7 DEF ManagerStep, ThreadStep, Task1Step

\* What the history remembers, step by step.
LEMMA StrayNext ==
    ASSUME MenuInv, StrayInv, [Next]_vars, ~Strayed'
    PROVE  StrayInv' /\ (BoardWants => ~board.exit)
<1> USE Names
<1>0. stage \in [SceneId -> Stage]
  BY DEF MenuInv, StageInv
<1>1. CASE UNCHANGED vars
  <2>1. UNCHANGED <<stage, board, stray>>
    BY <1>1 DEF vars, managerVars, sceneVars
  <2>2. ~BoardWants
    <3>1. ASSUME NEW t \in {"childCst", "scroll", "toSettings"}, Goes("BOARD", "normal", t)
          PROVE  FALSE
      <4>1. stage["BOARD"] = "normal" /\ stage' = [stage EXCEPT !["BOARD"] = t]
        BY <3>1 DEF Goes, GoesOn
      <4> QED
        BY <1>0, <2>1, <4>1
    <3> QED
      BY <3>1 DEF BoardWants, BoardToChannels, BoardToCalendar, BoardToSettings
  <2> QED
    BY <2>1, <2>2 DEF StrayInv
<1>2. CASE Next
  <2>1. Remembers /\ stray' # "asked"
    BY <1>2 DEF Next, Strayed
  <2>2. BoardWants => stage["BOARD"] = "normal"
    BY DEF BoardWants, BoardToChannels, BoardToCalendar, BoardToSettings, Goes, GoesOn
  <2>3. stray = "back" => ~BoardWants
    BY <2>1 DEF Remembers
  <2>4. BoardWants => ~board.exit
    BY <2>2, <2>3 DEF StrayInv
  <2>5. stray' \in {"no", "back"}
    BY <2>1 DEF Remembers, StrayInv
  <2>6. ASSUME board'.exit, stage'["BOARD"] = "normal" PROVE stray' = "back"
    <3>1. CASE stray = "back"
      BY <2>1, <2>3, <2>6, <3>1 DEF Remembers
    <3>2. CASE stray # "back"
      <4>1. UserStep \/ OwnStep \/ ManagerStep \/ ThreadStep \/ Idle
        BY <1>2 DEF Next, MainStep
      <4>2. ~(board.exit /\ stage["BOARD"] = "normal") /\ stray = "no"
        BY <2>1, <3>2 DEF StrayInv, Remembers
      <4>3. CASE ChannelsToSettings
        <5>1. Goes("CHANNEL_SELECT", "normal", "setting")
          BY <4>3 DEF ChannelsToSettings
        <5>2. /\ "CHANNEL_SELECT" \in Live /\ stage["CHANNEL_SELECT"] = "normal"
              /\ stage'["BOARD"] = stage["BOARD"]
          BY <5>1, ChannelsStart
        <5>3. AtChannels
          BY <5>2, ChannelsAt
        <5> QED
          BY <2>6, <5>2, <5>3 DEF AtChannels
      <4>4. CASE BoardTakesOver
        BY <2>6, <4>4 DEF BoardTakesOver, Keep
      <4>5. CASE BoardScrollEnds
        <5> DEFINE t == IF BoardAlone THEN "normal" ELSE "childDst"
        <5>1. Goes("BOARD", "scroll", t) /\ UNCHANGED board
          BY <4>5 DEF BoardScrollEnds, Keep
        <5>2. stage' = [stage EXCEPT !["BOARD"] = t]
          BY <5>1 DEF Goes, GoesOn
        <5>3. BoardAlone
          BY <1>0, <2>6, <5>2
        <5> QED
          BY <2>1, <2>6, <4>2, <4>5, <5>1, <5>3 DEF Remembers
      <4>6. CASE ~ChannelsToSettings /\ ~BoardTakesOver /\ ~BoardScrollEnds
        BY <2>6, <4>1, <4>2, <4>6, InputByCalls, InputElsewhere
      <4> QED
        BY <4>3, <4>4, <4>5, <4>6
    <3> QED
      BY <3>1, <3>2
  <2> QED
    BY <2>4, <2>5, <2>6 DEF StrayInv
<1> QED
  BY <1>1, <1>2

\* A Board that strayed has strayed for ever.
LEMMA StrayedStays == Strayed /\ [Next]_vars => Strayed'
BY DEF Strayed, Next, Remembers, vars

\* No step leaves the map, unless the Board strays.
Mapped == MenuInv /\ StrayInv
LEMMA MapNext == (Strayed \/ Mapped) /\ [Next]_vars => (Strayed \/ Mapped)'
<1> SUFFICES ASSUME MenuInv, StrayInv, [Next]_vars, ~Strayed' PROVE MenuInv'
  BY StrayedStays, StrayNext DEF Mapped
<1>0. BoardWants => ~board.exit
  BY StrayNext
<1>1. CASE UserStep \/ OwnStep
  BY <1>0, <1>1, CallSteps
<1>2. CASE Idle
  BY <1>2, FrameSteps DEF Idle
<1>3. CASE ManagerStep /\ UNCHANGED mode
  BY <1>3, CreateSteps, EverythingGoes, AttachSteps, DetachSteps, FrameSteps
     DEF ManagerStep, AttachToFreed
<1>4. CASE ThreadStep /\ UNCHANGED mode
  BY <1>4, FrameSteps, TaskSteps DEF ThreadStep
<1>5. CASE UNCHANGED vars
  BY <1>5, FrameSteps DEF vars
<1> QED
  BY <1>1, <1>2, <1>3, <1>4, <1>5 DEF Next, MainStep

\* The menu never leaves its map, unless the Board strays: unless a Board that was
\* told to exit takes the input back at the end of a scroll and asks for something
\* (stt_wait_scroll).
THEOREM MapHolds == Spec => [](Strayed \/ Mapped)
<1>1. Init => Mapped
  BY MapInit DEF Mapped, StrayInv, Init, NewBoard
<1> QED
  BY <1>1, MapNext, PTL DEF Spec

-----------------------------------------------------------------------------
(* What the map says of the commands.                                      *)

\* The commands there can be: only those for the children that come and go name
\* a child to insert before, and it is there.
Aimed == {ChannelsAgain, CalendarAsked}
Unaimed == {NoCommand} \union {Child(x) : x \in SceneId}
               \union {ReserveAll(x) : x \in Roots}
               \union {Change(c[1], c[2]) : c \in Changes}
Few(cs) == \/ cs = <<>>
           \/ \E a \in Unaimed : cs = <<a>>
           \/ \E a \in Aimed : cs = <<a>> /\ order = BoardOpen
           \/ \E a, b \in Unaimed : cs = <<a, b>>
           \/ \E a, b, c \in Unaimed : cs = <<a, b, c>>

\* The commands of the map.
LEMMA FewCommands ==
    /\ Few(<<>>)
    /\ \A a \in Unaimed : Few(<<a>>)
    /\ \A a \in Aimed : order = BoardOpen => Few(<<a>>)
    /\ \A a, b \in Unaimed : Few(<<a, b>>)
    /\ \A a, b, c \in Unaimed : Few(<<a, b, c>>)
    /\ \A x \in SceneId : Child(x) \in Unaimed
    /\ NoCommand \in Unaimed
    /\ \A x \in Roots : ReserveAll(x) \in Unaimed
    /\ \A c \in Changes : Change(c[1], c[2]) \in Unaimed
    /\ ChannelsAgain \in Aimed /\ CalendarAsked \in Aimed
<1>1. /\ \A x \in SceneId : Child(x) \in Unaimed
      /\ NoCommand \in Unaimed
      /\ \A x \in Roots : ReserveAll(x) \in Unaimed
      /\ \A c \in Changes : Change(c[1], c[2]) \in Unaimed
      /\ ChannelsAgain \in Aimed /\ CalendarAsked \in Aimed
  BY DEF Unaimed, Aimed
<1>2. /\ Few(<<>>)
      /\ \A a \in Unaimed : Few(<<a>>)
      /\ \A a \in Aimed : order = BoardOpen => Few(<<a>>)
  BY DEF Few
<1>3. \A a, b \in Unaimed : Few(<<a, b>>)
  BY DEF Few
<1>4. \A a, b, c \in Unaimed : Few(<<a, b, c>>)
  BY DEF Few
<1> QED
  BY <1>1, <1>2, <1>3, <1>4

\* Every place has few commands, and an aimed one only where its child is.
LEMMA CommandsAre ==
    ASSUME MapInv
    PROVE  /\ Few(mCommands)
           /\ \/ mReservedCommand \in Unaimed
              \/ mReservedCommand \in Aimed /\ order = BoardOpen
<1> USE FewCommands, Names DEF At
<1>4. CASE AtStart
  BY <1>4 DEF AtStart
<1>5. CASE AtTop \/ AtBoard \/ AtChannels \/ AtCalendar \/ AtNothing
  BY <1>5 DEF AtTop, AtBoard, AtChannels, AtCalendar, AtNothing
<1>6. CASE AtChange
  BY <1>6 DEF AtChange
<1>7. CASE AtOpening
  BY <1>7 DEF AtOpening
<1>8. CASE AtBoardAndNext
  BY <1>8 DEF AtBoardAndNext
<1>9. CASE AtSettings
  BY <1>9 DEF AtSettings
<1>10. CASE AtScreen
  BY <1>10 DEF AtScreen
<1>11. CASE AtEnd
  BY <1>11 DEF AtEnd
<1> QED
  BY <1>4, <1>5, <1>6, <1>7, <1>8, <1>9, <1>10, <1>11 DEF MapInv

\* The elements of a short sequence.
LEMMA ShortRange ==
    /\ Range(<<>>) = {}
    /\ \A a : Range(<<a>>) = {a}
    /\ \A a, b : Range(<<a, b>>) = {a, b}
    /\ \A a, b, c : Range(<<a, b, c>>) = {a, b, c}
<1>1. Range(<<>>) = {}
  BY DEF Range
<1>2. \A a : Range(<<a>>) = {a}
  BY DEF Range
<1>3. \A a, b : Range(<<a, b>>) = {a, b}
  BY DEF Range
<1>4. \A a, b, c : Range(<<a, b, c>>) = {a, b, c}
  BY DEF Range
<1> QED
  BY <1>1, <1>2, <1>3, <1>4

\* The scenes named by a command are those of the tree it was given for.
LEMMA PointersByMap == MenuInv => PointersLive
<1> SUFFICES ASSUME MenuInv, NEW c \in Range(mCommands) \union {mReservedCommand}
             PROVE  /\ Dangling \notin {c.par, c.chi}
                    /\ c.chi # NONE => parent[c.chi] = c.par
  BY DEF PointersLive
<1> USE Names
<1>1. c \in Unaimed \/ (c \in Aimed /\ order = BoardOpen)
  <2>1. Few(mCommands) /\ (c \in Range(mCommands) \/ c = mReservedCommand)
    BY CommandsAre DEF MenuInv
  <2>2. CASE c = mReservedCommand
    BY <2>2, CommandsAre DEF MenuInv
  <2>3. CASE c \in Range(mCommands)
    BY <2>1, <2>3, ShortRange DEF Few
  <2> QED
    BY <2>1, <2>2, <2>3
<1>2. CASE c \in Unaimed
  <2>1. \A x \in SceneId : Above(x) # Dangling
    BY AboveIs DEF NONE, Dangling
  <2>2. c.chi = NONE /\ (c.par \in {NONE, "ROOT"} \/ \E x \in SceneId : c.par = Above(x))
    <3>1. CASE c = NoCommand
      BY <3>1 DEF NoCommand
    <3>2. CASE \E x \in SceneId : c = Child(x)
      BY <3>2, ChildIs
    <3>3. CASE \E x \in Roots : c = ReserveAll(x)
      BY <3>3 DEF NoCommand, ReserveAll
    <3>4. CASE \E d \in Changes : c = Change(d[1], d[2])
      BY <3>4, ChildIs
    <3> QED
      BY <1>2, <3>1, <3>2, <3>3, <3>4 DEF Unaimed
  <2>3. "ROOT" # Dangling
    BY DEF Dangling
  <2> QED
    BY <2>1, <2>2, <2>3
<1>3. CASE c \in Aimed /\ order = BoardOpen
  <2>1. Live = {"ROOT", "BOARD", "BUTTON", "ARROW"}
    BY <1>3, ShapeLive DEF Live
  <2>2. parent["ARROW"] = "BOARD" /\ parent["BUTTON"] = "BOARD"
    BY <2>1, AboveIs DEF MenuInv, TreeInv
  <2>3. c.par = "BOARD" /\ c.chi \in {"ARROW", "BUTTON"}
    BY <1>3, ChildIs DEF Aimed
  <2>4. {"BOARD", "ARROW", "BUTTON"} \subseteq SceneId
    OBVIOUS
  <2> QED
    BY <2>2, <2>3, <2>4
<1> QED
  BY <1>1, <1>2, <1>3

-----------------------------------------------------------------------------
(* What the map says of the scenes.                                        *)

\* A scene that is past its first stage is in the tree.
LEMMA PastInit ==
    ASSUME MenuInv, NEW x \in SceneId, stage[x] \notin {"gone", InitStage(x)}
    PROVE  x \in Live
BY Names DEF MenuInv, StageInv

\* The stage in which a scene is constructed.
LEMMA InitStages ==
    /\ InitStage("BOARD") = "cdbInit" /\ InitStage("SETTING_SELECT") = "waitButton"
    /\ \A x \in SceneId \ {"BOARD", "SETTING_SELECT"} : InitStage(x) = "in"
BY Names DEF InitStage

\* Where SettingSelect is in the tree, at any time of the frame.
LEMMA SelectPlaces ==
    ASSUME MapInv, "SETTING_SELECT" \in Live
    PROVE  /\ "SETTING_BUTTON" \in Live
           /\ stage["SETTING_SELECT"] \notin {"wait2", "wait3"} => Open(Settings)
<1> USE ShapeLive DEF At, Live, Open
<1>1. CASE AtStart \/ AtTop
  BY <1>1, Names DEF AtStart, AtTop
<1>2. CASE AtChange
  BY <1>2, Names DEF AtChange, Changes
<1>3. CASE AtOpening
  BY <1>3, Names DEF AtOpening
<1>4. CASE AtBoard \/ AtBoardAndNext \/ AtChannels \/ AtCalendar
  BY <1>4, Names DEF AtBoard, AtBoardAndNext, AtChannels, AtCalendar
<1>5. CASE AtSettings \/ AtNothing
  BY <1>5, Names DEF AtSettings, AtNothing
<1>6. CASE AtScreen
  BY <1>6 DEF AtScreen
<1>7. CASE AtEnd
  BY <1>7, Names DEF AtEnd
<1> QED
  BY <1>1, <1>2, <1>3, <1>4, <1>5, <1>6, <1>7 DEF MapInv

\* The Board takes input only with its two children, and the pages of
\* SettingSelect only without a screen.
LEMMA OneTakesInputByMap == MenuInv => OneTakesInput
<1> DEFINE news == {c.new : c \in Range(mCommands)}
<1> SUFFICES ASSUME MenuInv
             PROVE  /\ stage["BOARD"] = "normal" =>
                         (Live \union {reserved} \union news)
                             \intersect {"CHANNEL_SELECT", "CALENDAR"} = {}
                    /\ stage["SETTING_SELECT"] \in {"page1", "page2", "page3"} =>
                         (Live \union {reserved} \union news)
                             \intersect {"CHANNEL_EDIT", "MEMORY"} = {}
  BY DEF OneTakesInput
<1> USE Names, InitStages
<1>1. /\ mCommands = <<>> => news = {}
      /\ \A a : mCommands = <<a>> => news = {a.new}
  BY ShortRange
<1> HIDE DEF news
<1>2. ASSUME stage["BOARD"] = "normal"
      PROVE  Open(BoardOpen) \/ \E root \in Roots : At(BoardOpen, <<ReserveAll(root)>>, NoCommand)
  <2>1. "BOARD" \in Live
    BY <1>2, PastInit
  <2>2. Open(BoardOpen) \/ AtEnd
    BY <1>2, <2>1, BoardScenes DEF MenuInv
  <2>3. CASE AtEnd
    BY <2>1, <2>3, ShapeLive DEF AtEnd, At, Live
  <2> QED
    BY <2>2, <2>3
<1>3. ASSUME stage["SETTING_SELECT"] \in {"page1", "page2", "page3"} PROVE Open(Settings)
  <2>1. "SETTING_SELECT" \in Live
    BY <1>3, PastInit
  <2> QED
    BY <1>3, <2>1, SelectPlaces DEF MenuInv
<1>4. \A o : Open(o) => Live = Range(o) /\ reserved = NONE /\ news = {}
  BY <1>1, CommandNew DEF Open, At, Live
<1>5. Live \union {reserved} \union news
          \subseteq {"ROOT", "BOARD", "BUTTON", "ARROW", NONE} \union Roots
         \/ stage["BOARD"] # "normal"
  <2>1. ASSUME NEW root \in Roots, At(BoardOpen, <<ReserveAll(root)>>, NoCommand)
        PROVE  Live = Range(BoardOpen) /\ reserved = NONE /\ news = {root}
    BY <1>1, <2>1, CommandNew DEF At, Live
  <2> QED
    BY <1>2, <1>4, <2>1, ShapeLive
<1>6. Live \union {reserved} \union news =
          {"ROOT", "SETTING_BG", "SETTING_BUTTON", "SETTING_SELECT", NONE}
         \/ stage["SETTING_SELECT"] \notin {"page1", "page2", "page3"}
  BY <1>3, <1>4, ShapeLive
<1> QED
  BY <1>5, <1>6

\* Every scene that looks another up has a place in which that one is.
LEMMA LookupsByMap == MenuInv => LookupsSucceed
<1> SUFFICES ASSUME MenuInv PROVE LookupsSucceed
  OBVIOUS
<1> USE Names, InitStages
<1>1. reserved \notin Live
  BY TreeFacts DEF MenuInv
<1>2. ASSUME stage["BOARD"] \in {"childDst", "normal", "childCst"}
      PROVE  {"BUTTON", "ARROW"} \subseteq Live
  <2>1. "BOARD" \in Live
    BY <1>2, PastInit
  <2>2. AtBoard \/ AtBoardAndNext \/ AtChannels \/ AtCalendar \/ AtEnd
    BY <1>2, <2>1, BoardScenes DEF MenuInv
  <2>3. CASE AtEnd
    BY <2>1, <2>3, ShapeLive DEF AtEnd, At, Live
  <2> QED
    BY <2>2, <2>3, ShapeLive DEF AtBoard, AtBoardAndNext, AtChannels, AtCalendar, At, Live
<1>3. ASSUME stage["CALENDAR"] \in {"normal", "done"} PROVE "BUTTON" \in Live
  <2>1. "CALENDAR" \in Live
    BY <1>3, PastInit
  <2>2. AtCalendar
    BY <2>1, BoardScenes DEF MenuInv
  <2> QED
    BY <2>2, ShapeLive DEF AtCalendar, At, Live
<1>4. ASSUME stage["CHANNEL_SELECT"] \in {"normal", "setting"}
      PROVE  {"BUTTON", "BOARD"} \subseteq Live
  <2>1. "CHANNEL_SELECT" \in Live
    BY <1>4, PastInit
  <2>2. stage["BOARD"] # "init"
    BY <1>4 DEF MenuInv, StageInv
  <2>3. AtChannels
    BY <2>1, <2>2, BoardScenes DEF MenuInv
  <2> QED
    BY <2>3, ShapeLive DEF AtChannels, At, Live
<1>5. ASSUME stage["SETTING_SELECT"] \in {"page1", "page2", "page3", "wait2", "wait3"}
      PROVE  "SETTING_BUTTON" \in Live
  <2>1. "SETTING_SELECT" \in Live
    BY <1>5, PastInit
  <2> QED
    BY <2>1, SelectPlaces DEF MenuInv
<1> QED
  BY <1>1, <1>2, <1>3, <1>4, <1>5 DEF LookupsSucceed

\* Of the scenes that can ask for everything to be destroyed, only the Board and
\* ChannelSelect are ever in the tree together.
LEMMA WhoAsks ==
    ASSUME MenuInv
    PROVE  \A x, y \in Live : command[x] # NONE /\ command[y] # NONE => x = y
<1> SUFFICES ASSUME NEW x \in Live, NEW y \in Live, command[x] # NONE,
                    command[y] # NONE, x # y
             PROVE  FALSE
  OBVIOUS
<1> USE Names
<1>1. Live \subseteq SceneId /\ {x, y} \subseteq Asking
  <2>1. Live \subseteq SceneId
    BY TreeFacts DEF MenuInv
  <2> QED
    BY <2>1 DEF MenuInv, AskInv
<1>2. {x, y} \subseteq {"BOARD", "CHANNEL_SELECT"}
  <2> USE ShapeLive, <1>1 DEF At, Live, Asking
  <2>1. CASE AtStart \/ AtTop
    BY <2>1 DEF AtStart, AtTop
  <2>2. CASE AtChange
    BY <2>2 DEF AtChange, Changes
  <2>3. CASE AtOpening
    BY <2>3 DEF AtOpening
  <2>4. CASE AtBoard \/ AtBoardAndNext \/ AtChannels \/ AtCalendar
    BY <2>4 DEF AtBoard, AtBoardAndNext, AtChannels, AtCalendar
  <2>5. CASE AtSettings \/ AtNothing
    BY <2>5 DEF AtSettings, AtNothing
  <2>6. CASE AtScreen
    BY <2>6 DEF AtScreen, Screens
  <2>7. CASE AtEnd
    BY <2>7 DEF AtEnd
  <2> QED
    BY <2>1, <2>2, <2>3, <2>4, <2>5, <2>6, <2>7 DEF MenuInv, MapInv
<1>3. command["BOARD"] # NONE /\ command["CHANNEL_SELECT"] # NONE
          /\ "CHANNEL_SELECT" \in Live
  BY <1>2
<1>4. stage["CHANNEL_SELECT"] = "in"
  BY <1>3 DEF MenuInv, BoardInv
<1>5. stage["CHANNEL_SELECT"] \in {"setting", "done"}
  BY <1>3 DEF MenuInv, BoardInv
<1> QED
  BY <1>4, <1>5

\* A command to destroy everything is the only one, and no scene has another.
LEMMA AllIsAlone ==
    ASSUME MenuInv
    PROVE  \/ \A i \in DOMAIN mCommands : mCommands[i].type # "ALL"
           \/ /\ DOMAIN mCommands = {1}
              /\ \A x \in Live : command[x] = NONE
<1> USE Names
<1>1. CASE AtEnd
  <2>1. PICK root \in Roots, o \in {Alone, BoardOpen, NoSelect} :
            At(o, <<ReserveAll(root)>>, NoCommand)
    BY <1>1 DEF AtEnd
  <2>2. DOMAIN mCommands = {1}
    BY <2>1 DEF At
  <2>3. CASE o = BoardOpen
    <3>1. Live = {"ROOT", "BOARD", "BUTTON", "ARROW"} /\ Ending
      BY <2>1, <2>3, ShapeLive DEF At, Live, Ending
    <3>2. command["BOARD"] = NONE
      BY <3>1 DEF MenuInv, BoardInv
    <3> QED
      BY <2>2, <3>1, <3>2 DEF MenuInv, AskInv, Asking
  <2>4. CASE o # BoardOpen
    <3>1. Live \subseteq {"ROOT", "SETTING_BG", "SETTING_BUTTON"}
      BY <2>1, <2>4, ShapeLive DEF At, Live
    <3> QED
      BY <2>2, <3>1 DEF MenuInv, AskInv, Asking
  <2> QED
    BY <2>3, <2>4
<1>2. CASE ~AtEnd
  <2> DEFINE Others(cs) == \A i \in DOMAIN cs : cs[i].type # "ALL"
  <2>1. /\ Others(<<>>)
        /\ \A a : a.type # "ALL" => Others(<<a>>)
        /\ \A a, b : a.type # "ALL" /\ b.type # "ALL" => Others(<<a, b>>)
        /\ \A a, b, c : a.type # "ALL" /\ b.type # "ALL" /\ c.type # "ALL"
               => Others(<<a, b, c>>)
    OBVIOUS
  <2> SUFFICES Others(mCommands)
    OBVIOUS
  <2> HIDE DEF Others
  <2>2. CASE AtStart \/ AtTop
    BY <2>1, <2>2, CommandNew DEF At, AtStart, AtTop
  <2>3. CASE AtChange
    BY <2>1, <2>3, CommandNew DEF At, AtChange
  <2>4. CASE AtOpening
    BY <2>1, <2>4, CommandNew DEF At, AtOpening
  <2>5. CASE AtBoard \/ AtBoardAndNext \/ AtChannels \/ AtCalendar
    BY <2>1, <2>5, CommandNew DEF At, AtBoard, AtBoardAndNext, AtChannels, AtCalendar
  <2>6. CASE AtSettings \/ AtNothing
    BY <2>1, <2>6, CommandNew DEF At, AtSettings, AtNothing
  <2>7. CASE AtScreen
    BY <2>1, <2>7, CommandNew DEF At, AtScreen
  <2> QED
    BY <1>2, <2>2, <2>3, <2>4, <2>5, <2>6, <2>7 DEF MenuInv, MapInv
<1> QED
  BY <1>1, <1>2

\* No two requests to destroy everything: neither two scenes, nor a scene and a
\* command, nor two commands.
LEMMA OneDestroyAllByMap == MenuInv => OneDestroyAll
<1> SUFFICES ASSUME MenuInv PROVE OneDestroyAll
  OBVIOUS
<1> DEFINE A == {x \in Live : command[x] # NONE}
           B == {i \in DOMAIN mCommands : mCommands[i].type = "ALL"}
<1>1. Cardinality(A) = 0 \/ Cardinality(A) = 1
  <2>1. A = {} \/ \E x : A = {x}
    BY WhoAsks
  <2> QED
    BY <2>1, FS_EmptySet, FS_Singleton
<1>2. B = {} \/ (A = {} /\ B \subseteq {1})
  BY AllIsAlone
<1>3. Cardinality({}) = 0 /\ Cardinality({1}) = 1
  BY FS_EmptySet, FS_Singleton
<1>4. Cardinality(A) + Cardinality(B) <= 1
  <2> HIDE DEF A, B
  <2>1. CASE B = {}
    BY <1>1, <1>3, <2>1
  <2>2. CASE A = {} /\ B = {1}
    BY <1>3, <2>2
  <2> QED
    BY <1>2, <2>1, <2>2
<1> QED
  BY <1>4 DEF OneDestroyAll

\* Whatever is destroyed in between, a command that is executed finds the parent
\* and the child it was given alive, the one still the parent of the other
\* (reserveChildScene, do_destroy, attachReservedScene); unless the Board strayed.
THEOREM CommandsPointersLive == Spec => []PointersLive
<1>1. Strayed \/ Mapped => PointersLive
  BY PointersByMap DEF PointersLive, Mapped
<1> QED
  BY <1>1, MapHolds, PTL

\* The Board, and a page of the settings, takes the user's input only while no
\* scene that takes it over is there, in preparation or asked for
\* (stt_wait_child_cst, stt_wait_child_dst, stt_wait_child); unless the Board strayed.
THEOREM InputIsTakenOnce == Spec => []OneTakesInput
<1>1. Strayed \/ Mapped => OneTakesInput
  BY OneTakesInputByMap DEF OneTakesInput, Mapped
<1> QED
  BY <1>1, MapHolds, PTL

\* Unless the Board strayed, getScene never returns NULL to a scene that uses what it
\* returns, and there is never a second object of one ID.
THEOREM ScenesFindEachOther == Spec => [](Strayed \/ LookupsSucceed)
<1>1. Strayed \/ Mapped => Strayed \/ LookupsSucceed
  BY LookupsByMap DEF Mapped
<1> QED
  BY <1>1, MapHolds, PTL

\* Everything is asked to be destroyed once at a time, so that one flag for the
\* sync job is enough (reserveAllSceneDestruction, execReserveAllCommand); unless the
\* Board strayed.
THEOREM DestroyedOnceAtATime == Spec => []OneDestroyAll
<1>1. Strayed \/ Mapped => OneDestroyAll
  BY OneDestroyAllByMap DEF OneDestroyAll, Mapped
<1> QED
  BY <1>1, MapHolds, PTL

-----------------------------------------------------------------------------
(* The types.                                                               *)

LEMMA CommandTypes ==
    /\ Unaimed \subseteq Command /\ Aimed \subseteq Command
    /\ \A cs : Few(cs) => cs \in Seq(Command) /\ Len(cs) < MAX_COMMANDS
<1> DEFINE Fields == {"type", "new", "prev", "par", "chi"}
<1>1. /\ NoCommand \in Command
      /\ \A x \in SceneId, p \in SceneId \union {NONE}, c \in SceneId \union {NONE} :
            CreateChild(x, p, c) \in Command
      /\ \A x \in Roots : ReserveAll(x) \in Command
      /\ \A c \in Changes : Change(c[1], c[2]) \in Command
  <2>1. NoCommand \in Command
    BY DEF NoCommand, Command, Pointer
  <2>2. ASSUME NEW x \in SceneId, NEW p \in SceneId \union {NONE},
               NEW c \in SceneId \union {NONE}
        PROVE  CreateChild(x, p, c) \in Command
    <3>1. CreateChild(x, p, c) = [i \in Fields |-> CreateChild(x, p, c)[i]]
      BY DEF CreateChild, NoCommand
    <3> QED
      BY <3>1 DEF CreateChild, NoCommand, Command, Pointer
  <2>3. ASSUME NEW x \in Roots PROVE ReserveAll(x) \in Command
    <3>1. ReserveAll(x) = [i \in Fields |-> ReserveAll(x)[i]]
      BY DEF ReserveAll, NoCommand
    <3>2. x \in SceneId
      BY Names
    <3> QED
      BY <3>1, <3>2 DEF ReserveAll, NoCommand, Command, Pointer
  <2>4. ASSUME NEW c \in Changes PROVE Change(c[1], c[2]) \in Command
    BY Names DEF Changes, Change, ReserveChange, Command, Pointer
  <2> QED
    BY <2>1, <2>2, <2>3, <2>4
<1>2. \A x \in SceneId : Above(x) \in SceneId \union {NONE}
  BY AboveIs, Names
<1>3. Unaimed \subseteq Command
  BY <1>1, <1>2 DEF Unaimed, Child
<1>4. Aimed \subseteq Command
  BY <1>1, Names DEF Aimed, ChannelsAgain, CalendarAsked
<1>5. ASSUME NEW cs, Few(cs) PROVE cs \in Seq(Command) /\ Len(cs) < MAX_COMMANDS
  <2>1. \/ cs = <<>>
        \/ \E a \in Command : cs = <<a>>
        \/ \E a, b \in Command : cs = <<a, b>>
        \/ \E a, b, c \in Command : cs = <<a, b, c>>
    BY <1>3, <1>4, <1>5 DEF Few
  <2>2. \A a \in Command : <<a>> \in Seq(Command) /\ Len(<<a>>) = 1
    OBVIOUS
  <2>3. \A a, b \in Command : <<a, b>> \in Seq(Command) /\ Len(<<a, b>>) = 2
    OBVIOUS
  <2>4. \A a, b, c \in Command :
            <<a, b, c>> \in Seq(Command) /\ Len(<<a, b, c>>) = 3
    OBVIOUS
  <2>5. <<>> \in Seq(Command) /\ Len(<<>>) = 0
    OBVIOUS
  <2>6. cs \in Seq(Command) /\ Len(cs) \in {0, 1, 2, 3}
    BY <2>1, <2>2, <2>3, <2>4, <2>5
  <2> QED
    <3>1. 0 < 8 /\ 1 < 8 /\ 2 < 8 /\ 3 < 8
      OBVIOUS
    <3> QED
      BY <2>6, <3>1 DEF MAX_COMMANDS
<1> QED
  BY <1>3, <1>4, <1>5

\* The map says most of the types, the invariant of the files those of the queue
\* of the NAND thread.
LEMMA TypesByMap == Mapped /\ LoadInv => TypeOK
<1> SUFFICES ASSUME MenuInv, StrayInv, LoadInv PROVE TypeOK
  BY DEF Mapped
<1> USE Names
<1>1. order \in Seq(SceneId) /\ IsInjective(order) /\ Live \subseteq SceneId
  BY TreeFacts DEF MenuInv, IsTree
<1>2. parent \in [SceneId -> SceneId \union {NONE}]
  BY AboveIs DEF MenuInv, TreeInv
<1>3. /\ destroyReq \subseteq SceneId
      /\ command \in [SceneId -> SceneId \union {NONE}]
      /\ stage \in [SceneId -> Stage]
  BY <1>1 DEF MenuInv, DoomInv, AskInv, StageInv
<1>4. /\ mCommands \in Seq(Command) /\ Len(mCommands) < MAX_COMMANDS
      /\ mReservedCommand \in Command
  BY CommandsAre, CommandTypes DEF MenuInv
<1>5. /\ nandq \in Seq({"load", "token"} \X SceneId) /\ tokens \in Seq(SceneId)
      /\ reserved \in SceneId \union {NONE}
  BY DEF LoadInv
<1>6. /\ phase \in {"calc", "command", "detach", "end"} /\ it \in Nat
      /\ {mbCreatedReserved, mbDestroySyncTask} \subseteq BOOLEAN
      /\ board \in [count : BOOLEAN, read : BOOLEAN, exit : BOOLEAN]
  <2>1. phase \in {"calc", "command", "detach", "end"} /\ it \in Nat
    BY DEF MenuInv, TurnInv
  <2>2. mbCreatedReserved \in BOOLEAN /\ mbDestroySyncTask \in BOOLEAN
    BY DEF MenuInv, CreatedInv, WorkInv
  <2>3. board \in [count : BOOLEAN, read : BOOLEAN, exit : BOOLEAN]
    BY DEF MenuInv, BoardInv
  <2> QED
    BY <2>1, <2>2, <2>3
<1>7. look \in SceneId \union {NONE}
  BY <1>1 DEF MenuInv, WorkInv

<1> QED
  BY <1>1, <1>2, <1>3, <1>4, <1>5, <1>6, <1>7 DEF TypeOK, MenuInv, WorkInv, StrayInv

\* In every reachable state the variables keep to their types, and the queue of
\* commands is never full: Queue::push has never dropped one; unless the Board strayed.
THEOREM MenuTypeCorrect == Spec => [](Strayed \/ TypeOK)
<1>1. Init => (Strayed \/ Mapped) /\ IInv
  BY MapInit, InvariantInit DEF Mapped, StrayInv, Init, NewBoard
<1>2. (Strayed \/ Mapped) /\ IInv /\ [Next]_vars => ((Strayed \/ Mapped) /\ IInv)'
  BY MapNext, InvariantNext
<1>3. (Strayed \/ Mapped) /\ IInv => Strayed \/ TypeOK
  BY TypesByMap DEF IInv
<1> QED
  BY <1>1, <1>2, <1>3, PTL DEF Spec
=============================================================================
