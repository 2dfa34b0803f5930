--------------------------- MODULE SaveDataProofs ---------------------------
(***************************************************************************)
(* Proofs about SaveData, for any number of Files, changes and starts.     *)
(***************************************************************************)
EXTENDS SaveData, SequenceTheorems, TLAPS

-----------------------------------------------------------------------------
(* Types.  Beyond TypeOK: File::write has a File in hand, and ChannelTitle   *)
(* waits for a File.                                                        *)

Writing == {"type", "create", "open", "write", "close"}

TypeInv ==
    /\ TypeOK
    /\ npc \in Writing => Head(nandq) \in File
    /\ mode = "launch" => titleFile \in File

\* What appending, taking and looking at the first do to the queue.
LEMMA QueueTypes ==
    ASSUME NEW S, NEW q \in Seq(S), NEW x \in S
    PROVE  /\ Append(q, x) \in Seq(S) /\ Append(q, x) # <<>>
           /\ Len(Append(q, x)) = Len(q) + 1
           /\ \A i \in 1..Len(q) : Append(q, x)[i] = q[i]
           /\ Append(q, x)[Len(q) + 1] = x
           /\ q # <<>> => /\ Head(Append(q, x)) = Head(q)
                          /\ Head(q) \in S /\ Head(q) = q[1]
                          /\ Tail(q) \in Seq(S) /\ Len(Tail(q)) = Len(q) - 1
                          /\ \A i \in 1..Len(Tail(q)) : Tail(q)[i] = q[i + 1]
<1>1. /\ Append(q, x) \in Seq(S) /\ Len(Append(q, x)) = Len(q) + 1
      /\ \A i \in 1..Len(q) : Append(q, x)[i] = q[i]
      /\ Append(q, x)[Len(q) + 1] = x
  BY AppendProperties
<1>2. q # <<>> => /\ Head(q) \in S /\ Head(q) = q[1]
                  /\ Tail(q) \in Seq(S) /\ Len(Tail(q)) = Len(q) - 1
                  /\ \A i \in 1..Len(Tail(q)) : Tail(q)[i] = q[i + 1]
  BY HeadTailProperties
<1>3. Len(q) \in Nat /\ (q # <<>> => Len(q) > 0)
  BY EmptySeq
<1>4. Append(q, x) # <<>>
  BY <1>1, <1>3, EmptySeq
<1>5. ASSUME q # <<>>
      PROVE  Head(Append(q, x)) = Head(q)
  <2>1. Head(Append(q, x)) = Append(q, x)[1]
    BY <1>1, <1>4, HeadTailProperties
  <2>2. 1 \in 1..Len(q)
    BY <1>3, <1>5
  <2> QED  BY <1>1, <1>2, <1>5, <2>1, <2>2
<1> QED  BY <1>1, <1>2, <1>4, <1>5

\* The console as it is switched on is well typed.
LEMMA TypeInit == Init => TypeInv
<1> SUFFICES ASSUME Init PROVE TypeInv
  OBVIOUS
<1>1. \A k \in {"absent", "blank", "torn", "bad", "old", "new"} : Plain(k) \in Content
  BY DEF Plain, Content
<1>2. [kind : {"old", "new"}, val : SUBSET Move] \subseteq Content
  BY DEF Content, Change
<1>3. disk \in Content /\ mData \in Content /\ tmp \in Content
  BY <1>1, <1>2 DEF Init
<1>4. acked \subseteq Change
  BY <1>3 DEF Init, Content
<1>5. boots \in 1..MaxBoots
  BY SaveAssumption DEF Init
<1>6. nandq \in Seq(File \union {EDIT})
  BY DEF Init
<1> QED
  BY <1>3, <1>4, <1>5, <1>6 DEF Init, TypeInv, TypeOK, Writing

\* So is what is left when it is switched off.
LEMMA OffType ==
    ASSUME TypeInv, Off, UNCHANGED <<disk, hurt, boots>>, acked' \subseteq Change
    PROVE  TypeInv'
<1>1. Plain("torn") \in Content /\ Plain("absent") \in Content
  BY DEF Plain, Content
<1>2. nandq' \in Seq(File \union {EDIT})
  BY DEF Off
<1> QED
  BY <1>1, <1>2 DEF TypeInv, TypeOK, Off, Writing

\* A posted File is well typed.
LEMMA PostType ==
    ASSUME TypeInv, NEW f \in File, NEW data \in Content, Post(f, data)
    PROVE  /\ fdata' \in [File -> SUBSET Change]
           /\ failed' \in [File -> BOOLEAN] /\ rival' \in [File -> BOOLEAN]
           /\ nandq' \in Seq(File \union {EDIT}) /\ nandq' # <<>>
           /\ nandq # <<>> => Head(nandq') = Head(nandq)
BY QueueTypes DEF Post, TypeInv, TypeOK, Content

\* A deleted File is, too.
LEMMA DeletedType ==
    ASSUME TypeInv, NEW f \in File, Deleted(f)
    PROVE  /\ fstate' \in [File -> {"free", "queued", "done", "fatal"}]
           /\ fdata' \in [File -> SUBSET Change]
           /\ failed' \in [File -> BOOLEAN] /\ rival' \in [File -> BOOLEAN]
BY DEF Deleted, TypeInv, TypeOK

\* Every step keeps the types.
LEMMA TypeNext == TypeInv /\ [Next]_vars => TypeInv'
<1> SUFFICES ASSUME TypeInv, [Next]_vars
             PROVE  TypeInv'
  OBVIOUS
<1> USE SaveAssumption
<1>0. /\ \A S \in SUBSET Change : Whole(S) \in Content
      /\ \A k \in {"absent", "blank", "torn", "bad", "old", "new"} : Plain(k) \in Content
      /\ \A c \in Content : c.val \subseteq Change
      /\ \A m \in Move : m \in Change
      /\ PAGE \in Change
  BY DEF Whole, Plain, Content, Change
<1>1. CASE Load
  <2>1. /\ disk' \in Content /\ mData' \in Content
        /\ init' \in {"posted", "loaded", "done", "dead"} /\ bNeedFlush' \in BOOLEAN
        /\ acked' \subseteq Change
    <3>1. disk \in Content /\ mData \in Content /\ acked \subseteq Change
          /\ bNeedFlush \in BOOLEAN /\ disk.val \ {PAGE} \in SUBSET Change
      BY <1>0 DEF TypeInv, TypeOK
    <3>2. CASE SkipLoad
      BY <3>1, <3>2 DEF SkipLoad
    <3>3. CASE CreateNew
      BY <1>0, <3>1, <3>3 DEF CreateNew
    <3>4. CASE ReplaceBroken
      BY <1>0, <3>1, <3>4 DEF ReplaceBroken
    <3>5. CASE LoadIntact
      BY <1>0, <3>1, <3>5 DEF LoadIntact
    <3>6. CASE LoadFails
      BY <1>0, <3>1, <3>6 DEF LoadFails
    <3> QED  BY <1>1, <3>2, <3>3, <3>4, <3>5, <3>6 DEF Load
  <2>2. mType' \in BOOLEAN
    BY <1>1 DEF Load, TypeInv, TypeOK
  <2> QED
    BY <1>1, <2>1, <2>2 DEF Load, TypeInv, TypeOK, Writing, file, nand, scenes
<1>2. CASE InitFlush
  <2>1. PICK f \in File :
           /\ Post(f, mData)
           /\ fstate' = [g \in File |-> CASE g = f -> "queued"
                                          [] g = mpUpdatedFile -> "free"
                                          [] OTHER -> fstate[g]]
           /\ mpUpdatedFile' = f
    BY <1>2 DEF InitFlush
  <2>2. fstate' \in [File -> {"free", "queued", "done", "fatal"}]
    BY <2>1 DEF TypeInv, TypeOK
  <2>3. mData \in Content
    BY DEF TypeInv, TypeOK
  <2> QED
    BY <1>2, <2>1, <2>2, <2>3, PostType
       DEF InitFlush, TypeInv, TypeOK, Writing, store, scenes
<1>3. CASE InitNoFlush \/ InitFails
  <2>1. /\ init' \in {"done", "dead"} /\ mType' \in BOOLEAN
        /\ UNCHANGED <<store, boots, mode, mData, bNeedFlush, mpFile, mpUpdatedFile, nand,
                       file, scenes, acked>>
    BY <1>3 DEF InitNoFlush, InitFails, TypeInv, TypeOK
  <2> QED
    BY <2>1 DEF TypeInv, TypeOK, Writing, store, file, nand, scenes
<1>4. CASE NandStep
  <2>1. /\ current \in File \union {EDIT} /\ nandq # <<>>
        /\ Tail(nandq) \in Seq(File \union {EDIT})
        /\ npc \in Writing => current \in File
        /\ fstate \in [File -> {"free", "queued", "done", "fatal"}]
    BY <1>4, QueueTypes DEF NandStep, NandRuns, current, TypeInv, TypeOK
  <2>2. ASSUME NEW to \in Writing, Goes(to), current \in File
        PROVE  /\ npc' = to /\ nandq' = nandq /\ Head(nandq') \in File
               /\ fstate' = fstate /\ mType' = mType /\ edit' = edit
    BY <2>2 DEF Goes, current
  <2>3. ASSUME Dies
        PROVE  /\ npc' = "dead" /\ nandq' = nandq /\ mType' = TRUE /\ edit' = edit
               /\ fstate' \in [File -> {"free", "queued", "done", "fatal"}]
    BY <2>1, <2>3 DEF Dies
  <2>4. ASSUME Done
        PROVE  /\ npc' = "idle" /\ nandq' \in Seq(File \union {EDIT})
               /\ mType' = mType /\ edit' = edit
               /\ fstate' \in [File -> {"free", "queued", "done", "fatal"}]
    BY <2>1, <2>4 DEF Done
  <2>5. FailsSoftly => failed' \in [File -> BOOLEAN]
    BY DEF FailsSoftly, TypeInv, TypeOK
  <2>6. /\ disk' \in Content /\ tmp' \in Content /\ hurt' \in BOOLEAN
        /\ failed' \in [File -> BOOLEAN]
    <3>1. npc \in Writing => fdata[current] \subseteq Change
      BY <2>1 DEF TypeInv, TypeOK
    <3>2. disk \in Content /\ tmp \in Content /\ hurt \in BOOLEAN
          /\ failed \in [File -> BOOLEAN]
      BY DEF TypeInv, TypeOK
    <3>3. CASE ServeEdit \/ StartWrite \/ GetType
      BY <2>5, <3>2, <3>3 DEF ServeEdit, StartWrite, GetType, store
    <3>4. CASE Create
      BY <1>0, <2>5, <3>2, <3>4 DEF Create
    <3>5. CASE SafeOpen
      BY <3>2, <3>5 DEF SafeOpen
    <3>6. CASE Write
      <4>1. Whole(fdata[current]) \in Content
        BY <1>0, <3>1, <3>6 DEF Write, Writing
      <4> QED  BY <1>0, <2>5, <3>2, <3>6, <4>1 DEF Write
    <3>7. CASE SafeClose
      BY <1>0, <2>1, <3>2, <3>7 DEF SafeClose, Renamed, store, Writing
    <3> QED
      BY <1>4, <3>3, <3>4, <3>5, <3>6, <3>7 DEF NandStep
  <2>7. /\ nandq' \in Seq(File \union {EDIT})
        /\ npc' # "idle" => nandq' # <<>>
        /\ npc' \in Writing => Head(nandq') \in File
        /\ npc' \in Writing \union {"idle", "dead"}
        /\ fstate' \in [File -> {"free", "queued", "done", "fatal"}]
        /\ mType' \in BOOLEAN /\ edit' \in {"closed", "loading", "open"}
    BY <1>4, <2>1, <2>2, <2>3, <2>4
       DEF NandStep, ServeEdit, StartWrite, GetType, Create, SafeOpen, Write, SafeClose,
           TypeInv, TypeOK, Writing
  <2> QED
    BY <1>4, <2>6, <2>7 DEF NandStep, task3, TypeInv, TypeOK, Writing
<1>5. CASE KeySave \/ MoveChannel \/ PrepareForBoot
  <2>1. PICK f \in File, data \in Content :
           /\ mData' = data /\ Post(f, data)
           /\ fstate' = [fstate EXCEPT ![f] = "queued"] /\ mpFile' = f
           /\ {keyFile', selFile', titleFile'} \subseteq {keyFile, selFile, titleFile, f}
           /\ mode' = mode /\ (mode = "launch" => titleFile' = titleFile)
    <3>1. CASE KeySave
      BY <3>1 DEF KeySave, flushAsync, TypeInv, TypeOK
    <3>2. CASE MoveChannel
      <4>1. PICK m \in Move, f \in File :
               mData' = [mData EXCEPT !.val = @ \union {m}] /\ flushAsync(f, mData')
               /\ selFile' = f
        BY <3>2 DEF MoveChannel
      <4>2. mData' \in Content
        BY <4>1, <1>0 DEF Content, TypeInv, TypeOK
      <4> QED  BY <3>2, <4>1, <4>2 DEF MoveChannel, flushAsync
    <3>3. CASE PrepareForBoot
      <4>1. PICK f \in File, v \in {mData.val \ {PAGE}, mData.val \union {PAGE}} :
               mData' = [mData EXCEPT !.val = v] /\ flushAsync(f, mData') /\ titleFile' = f
        BY <3>3 DEF PrepareForBoot
      <4>2. mData' \in Content
        BY <4>1, <1>0 DEF Content, TypeInv, TypeOK
      <4> QED  BY <3>3, <4>1, <4>2 DEF PrepareForBoot, flushAsync, ScenesRun
    <3> QED  BY <1>5, <3>1, <3>2, <3>3
  <2>2. fstate' \in [File -> {"free", "queued", "done", "fatal"}]
    BY <2>1 DEF TypeInv, TypeOK
  <2> QED
    BY <1>5, <2>1, <2>2, PostType
       DEF KeySave, MoveChannel, PrepareForBoot, TypeInv, TypeOK, Writing, store, task3
<1>6. CASE KeyPoll \/ MovePoll
  <2>1. /\ {keyFile', selFile'} \subseteq {keyFile, selFile, NULL}
        /\ mpFile' \in {mpFile, NULL}
        /\ \/ UNCHANGED <<file, acked>>
           \/ \E f \in File : Deleted(f) /\ acked' = acked \union Saved(f)
    <3>1. keyFile # NULL => keyFile \in File
      BY DEF TypeInv, TypeOK
    <3>2. selFile # NULL => selFile \in File
      BY DEF TypeInv, TypeOK
    <3> QED
      BY <1>6, <3>1, <3>2 DEF KeyPoll, MovePoll, isFinished
  <2>2. \A f \in File : Saved(f) \subseteq Change
    BY DEF Saved, TypeInv, TypeOK
  <2>3. /\ acked' \subseteq Change
        /\ fstate' \in [File -> {"free", "queued", "done", "fatal"}]
        /\ fdata' \in [File -> SUBSET Change]
        /\ failed' \in [File -> BOOLEAN] /\ rival' \in [File -> BOOLEAN]
    BY <2>1, <2>2, DeletedType DEF file, TypeInv, TypeOK
  <2> QED
    BY <1>6, <2>1, <2>3
       DEF KeyPoll, MovePoll, TypeInv, TypeOK, Writing, store, task3, nand
<1>7. CASE OpenEdit
  <2>1. /\ Append(nandq, EDIT) \in Seq(File \union {EDIT}) /\ Append(nandq, EDIT) # <<>>
        /\ nandq # <<>> => Head(Append(nandq, EDIT)) = Head(nandq)
    BY QueueTypes DEF TypeInv, TypeOK
  <2> QED
    BY <1>7, <2>1 DEF OpenEdit, TypeInv, TypeOK, Writing, store, task3, file
<1>8. CASE CloseEdit
  BY <1>8 DEF CloseEdit, TypeInv, TypeOK, Writing, store, file, nand
<1>9. CASE EnterLaunch
  BY <1>9 DEF EnterLaunch, ScenesRun, TypeInv, TypeOK, Writing, store, task3, file, nand,
              scenes
<1>10. CASE ShowError \/ OtherError \/ RequestReset \/ AcceptReset
  <2>1. /\ mode' \in {"reset", "fading", "error"} /\ mType' \in BOOLEAN
        /\ UNCHANGED <<store, boots, mData, mpFile, task3, file, nand, scenes, acked>>
    BY <1>10 DEF ShowError, OtherError, RequestReset, AcceptReset, TypeInv, TypeOK
  <2> QED
    BY <2>1 DEF TypeInv, TypeOK, Writing, store, task3, file, nand, scenes
<1>11. CASE Launch
  <2>1. Saved(titleFile) \subseteq Change
    BY <1>11 DEF Launch, Saved, TypeInv, TypeOK
  <2> QED  BY <1>11, <2>1, OffType DEF Launch, TypeInv, TypeOK
<1>12. CASE Restart \/ PowerCut
  BY <1>12, OffType DEF Restart, PowerCut, TypeInv, TypeOK
<1>13. CASE Boot
  BY <1>13 DEF Boot, TypeInv, TypeOK, Writing, store, task3, file, nand, scenes
<1>14. CASE UNCHANGED vars
  BY <1>14 DEF vars, TypeInv, TypeOK, Writing
<1> QED
  BY <1>1, <1>2, <1>3, <1>4, <1>5, <1>6, <1>7, <1>8, <1>9, <1>10, <1>11, <1>12, <1>13, <1>14
     DEF Next, Task3Step, UserStep, MainStep

\* Every variable keeps to its values, and the NAND thread to its queue.
THEOREM SaveTypeCorrect == Spec => []TypeOK
<1>1. TypeInv => TypeOK
  BY DEF TypeInv
<1> QED
  BY TypeInit, TypeNext, <1>1, PTL DEF Spec
-----------------------------------------------------------------------------
(* Files and pointers to them.                                              *)

\* What may be outstanding when: the user acts in one place at a time, and a
\* load finds nothing on its way to the file.
ControlInv ==
    /\ selFile = NULL \/ titleFile = NULL
    /\ init \in {"posted", "loaded"} =>
          selFile = NULL /\ titleFile = NULL /\ nandq = <<>>
    /\ edit # "closed" => init = "done" /\ selFile = NULL /\ titleFile = NULL
    /\ edit = "open" => nandq = <<>>

\* Who holds a File, holds one of its own that exists.
PointerInv ==
    /\ \A f \in {mpFile, mpUpdatedFile, keyFile, selFile, titleFile} \ {NULL} :
          fstate[f] # "free"
    /\ \A f \in {keyFile, selFile, titleFile} \ {NULL} : f # mpUpdatedFile
    /\ keyFile # NULL => keyFile # selFile /\ keyFile # titleFile

\* The queue has each File that is not done once, mpFile as the last File,
\* and the job of ChannelEdit behind all of them.
QueueInv ==
    /\ \A i, k \in DOMAIN nandq : nandq[i] = nandq[k] => i = k
    /\ \A f \in File :
          fstate[f] \in {"queued", "fatal"} <=> \E i \in DOMAIN nandq : nandq[i] = f
    /\ \A i \in DOMAIN nandq : nandq[i] = EDIT => i = Len(nandq) /\ edit = "loading"
    /\ \A i, k \in DOMAIN nandq :
          nandq[i] = mpFile /\ mpFile # NULL /\ nandq[k] \in File => k <= i

FileInv == ControlInv /\ PointerInv /\ QueueInv

\* At the start there are no Files.
LEMMA FileInit == Init => FileInv
BY DEF Init, FileInv, ControlInv, PointerInv, QueueInv

\* What the NAND thread does to its queue and to the state of the Files.
LEMMA NandEffect ==
    ASSUME TypeInv, NandStep
    PROVE  /\ nandq # <<>>
           /\ UNCHANGED <<mode, mData, mpFile, init, mpUpdatedFile, fdata, rival, keyFile,
                          selFile, titleFile, acked>>
           /\ \/ UNCHANGED <<nandq, fstate, edit>>
              \/ /\ current \in File /\ fstate' = [fstate EXCEPT ![current] = "fatal"]
                 /\ UNCHANGED <<nandq, edit>>
              \/ /\ current \in File /\ fstate' = [fstate EXCEPT ![current] = "done"]
                 /\ nandq' = Tail(nandq) /\ edit' = edit
              \/ /\ current = EDIT /\ edit' = "open"
                 /\ nandq' = Tail(nandq) /\ fstate' = fstate
<1>1. nandq # <<>> /\ current \in File \union {EDIT}
  BY QueueTypes DEF NandStep, NandRuns, current, TypeInv, TypeOK
<1>2. npc \in Writing => current \in File
  BY DEF TypeInv, current
<1>3. \A to : Goes(to) => UNCHANGED <<nandq, fstate, edit>>
  BY DEF Goes
<1>4. Dies => /\ UNCHANGED <<nandq, edit>>
              /\ \/ fstate' = fstate
                 \/ current \in File /\ fstate' = [fstate EXCEPT ![current] = "fatal"]
  BY <1>1 DEF Dies
<1> QED
  BY <1>1, <1>2, <1>3, <1>4
     DEF NandStep, ServeEdit, StartWrite, GetType, Create, SafeOpen, Write, SafeClose, Done,
         Writing, task3

\* A scene saves: it gets a File that was free, which the manager remembers.
Saves(f) ==
    /\ UserActs
    /\ Post(f, mData') /\ fstate' = [fstate EXCEPT ![f] = "queued"] /\ mpFile' = f
    /\ \/ mode = "run" /\ keyFile = NULL /\ keyFile' = f /\ UNCHANGED <<selFile, titleFile>>
       \/ selFile' = f /\ UNCHANGED <<keyFile, titleFile>>
       \/ titleFile' = f /\ UNCHANGED <<keyFile, selFile>>
    /\ UNCHANGED <<store, mode, init, mpUpdatedFile, npc, edit, acked>>

LEMMA SaveEffect ==
    ASSUME KeySave \/ MoveChannel \/ PrepareForBoot
    PROVE  \E f \in File : Saves(f)
BY DEF KeySave, MoveChannel, PrepareForBoot, flushAsync, Saves, task3

\* A scene polls, and its File is done: the File is deleted and forgotten.
Polls(f) ==
    /\ fstate[f] = "done" /\ Deleted(f) /\ acked' = acked \union Saved(f)
    /\ mpFile' = NULL
    /\ \/ keyFile = f /\ keyFile' = NULL /\ selFile' = selFile
       \/ selFile = f /\ selFile' = NULL /\ keyFile' = keyFile
    /\ UNCHANGED <<store, mode, mData, init, mpUpdatedFile, nandq, npc, titleFile, edit>>

\* ... or it is not going to be: only the manager forgets it.
PollsFatal(f) ==
    /\ fstate[f] = "fatal" /\ f \in {keyFile, selFile} /\ mpFile' = NULL
    /\ UNCHANGED <<store, mode, mData, init, mpUpdatedFile, file, nandq, npc, keyFile,
                   selFile, titleFile, edit, acked>>

LEMMA PollEffect ==
    ASSUME TypeInv, KeyPoll \/ MovePoll
    PROVE  \E f \in File : Polls(f) \/ PollsFatal(f)
<1>1. {keyFile, selFile} \subseteq File \union {NULL}
  BY DEF TypeInv, TypeOK
<1> QED
  BY <1>1 DEF KeyPoll, MovePoll, isFinished, Polls, PollsFatal, task3, nand

\* The other steps leave the Files alone; init moves on without posting.
Quiet ==
    /\ UNCHANGED <<file, nandq, mpFile, mpUpdatedFile, keyFile, selFile, titleFile, edit>>
    /\ init' = init \/ init \in {"posted", "loaded"}

LEMMA QuietSteps ==
    ASSUME Load \/ InitNoFlush \/ InitFails \/ EnterLaunch \/ ShowError \/ OtherError
             \/ RequestReset \/ AcceptReset \/ Boot \/ UNCHANGED vars
    PROVE  Quiet
BY DEF Load, SkipLoad, CreateNew, ReplaceBroken, LoadIntact, LoadFails, InitNoFlush,
       InitFails, EnterLaunch, ShowError, OtherError, RequestReset, AcceptReset, Boot, vars,
       Quiet, file, nand, scenes, task3
\* Nobody acts while something else of his is under way.
LEMMA ControlNext ==
    TypeInv /\ FileInv /\ [Next]_vars => ControlInv'
<1> SUFFICES ASSUME TypeInv, FileInv, [Next]_vars
             PROVE  ControlInv'
  OBVIOUS
<1> USE DEF ControlInv
<1>0. ControlInv /\ QueueInv
  BY DEF FileInv
<1>1. CASE Quiet
  BY <1>0, <1>1 DEF Quiet, file
<1>2. ASSUME NEW f \in File, Saves(f)
      PROVE  ControlInv'
  BY <1>0, <1>2 DEF Saves, UserActs
<1>3. ASSUME NEW f \in File, Polls(f) \/ PollsFatal(f)
      PROVE  ControlInv'
  BY <1>0, <1>3 DEF Polls, PollsFatal
<1>4. CASE InitFlush
  BY <1>0, <1>4 DEF InitFlush, scenes
<1>5. CASE NandStep
  <2>1. /\ nandq # <<>>
        /\ UNCHANGED <<init, selFile, titleFile>>
        /\ \/ nandq' = nandq /\ edit' = edit
           \/ nandq' = Tail(nandq) /\ edit' = edit
           \/ nandq' = Tail(nandq) /\ edit' = "open" /\ current = EDIT
    BY <1>5, NandEffect
  <2>2. ASSUME current = EDIT
        PROVE  edit = "loading" /\ Tail(nandq) = <<>>
    <3>1. /\ nandq \in Seq(File \union {EDIT}) /\ nandq[1] = EDIT /\ 1 \in DOMAIN nandq
          /\ Tail(nandq) \in Seq(File \union {EDIT}) /\ Len(Tail(nandq)) = Len(nandq) - 1
      BY <2>1, <2>2, QueueTypes, EmptySeq DEF current, TypeInv, TypeOK
    <3>2. Len(nandq) = 1 /\ edit = "loading"
      BY <1>0, <3>1 DEF QueueInv
    <3>3. Len(Tail(nandq)) = 0
      BY <3>1, <3>2
    <3> QED  BY <3>1, <3>2, <3>3, EmptySeq
  <2> QED
    BY <1>0, <2>1, <2>2
<1>6. CASE OpenEdit
  BY <1>0, <1>6 DEF OpenEdit, UserActs, task3
<1>7. CASE CloseEdit
  BY <1>0, <1>7 DEF CloseEdit, nand
<1>8. CASE Off
  BY <1>8 DEF Off
<1> QED
  BY <1>1, <1>2, <1>3, <1>4, <1>5, <1>6, <1>7, <1>8, QuietSteps, SaveEffect, PollEffect
     DEF Next, Task3Step, UserStep, MainStep, Launch, Restart, PowerCut

\* A File is freed by the one who holds it, or by initManagerTask after the
\* queue was empty.
LEMMA PointerNext ==
    TypeInv /\ FileInv /\ [Next]_vars => PointerInv'
<1> SUFFICES ASSUME TypeInv, FileInv, [Next]_vars
             PROVE  PointerInv'
  OBVIOUS
<1> USE DEF PointerInv
<1>0. /\ PointerInv /\ ControlInv
      /\ {mpFile, mpUpdatedFile, keyFile, selFile, titleFile} \subseteq File \union {NULL}
      /\ fstate \in [File -> {"free", "queued", "done", "fatal"}]
  BY DEF FileInv, TypeInv, TypeOK
<1>1. CASE Quiet
  BY <1>0, <1>1 DEF Quiet, file
<1>2. ASSUME NEW f \in File, Saves(f)
      PROVE  PointerInv'
  <2>1. /\ fstate[f] = "free" /\ mpFile' = f /\ mpUpdatedFile' = mpUpdatedFile
        /\ fstate' = [fstate EXCEPT ![f] = "queued"]
    BY <1>2 DEF Saves, Post
  <2>2. f \notin {mpFile, mpUpdatedFile, keyFile, selFile, titleFile}
    BY <1>0, <2>1, SaveAssumption
  <2>3. \/ keyFile' = f /\ UNCHANGED <<selFile, titleFile>>
        \/ selFile' = f /\ UNCHANGED <<keyFile, titleFile>>
        \/ titleFile' = f /\ UNCHANGED <<keyFile, selFile>>
    BY <1>2 DEF Saves
  <2> QED
    BY <1>0, <2>1, <2>2, <2>3, SaveAssumption
<1>3. ASSUME NEW f \in File, Polls(f)
      PROVE  PointerInv'
  <2>1. /\ fstate' = [fstate EXCEPT ![f] = "free"]
        /\ mpFile' = NULL /\ mpUpdatedFile' = mpUpdatedFile /\ titleFile' = titleFile
        /\ \/ keyFile = f /\ keyFile' = NULL /\ selFile' = selFile
           \/ selFile = f /\ selFile' = NULL /\ keyFile' = keyFile
    BY <1>3 DEF Polls, Deleted
  <2>2. f # NULL
    BY SaveAssumption
  <2> QED
    BY <1>0, <2>1, <2>2 DEF ControlInv
<1>4. ASSUME NEW f \in File, PollsFatal(f)
      PROVE  PointerInv'
  BY <1>0, <1>4 DEF PollsFatal, file
<1>5. CASE InitFlush
  <2>1. PICK f \in File :
           /\ fstate[f] = "free" /\ mpUpdatedFile' = f
           /\ fstate' = [g \in File |-> CASE g = f -> "queued"
                                          [] g = mpUpdatedFile -> "free"
                                          [] OTHER -> fstate[g]]
    BY <1>5 DEF InitFlush, Post
  <2>2. f \notin {mpUpdatedFile, keyFile, selFile, titleFile}
    BY <1>0, <2>1, SaveAssumption
  <2>3. /\ fstate'[f] # "free"
        /\ \A g \in File : g \notin {f, mpUpdatedFile} => fstate'[g] = fstate[g]
    BY <2>1, <2>2
  <2>4. mpFile' = NULL /\ UNCHANGED <<keyFile, selFile, titleFile>>
    BY <1>5 DEF InitFlush, scenes
  <2> QED
    BY <1>0, <2>1, <2>2, <2>3, <2>4, SaveAssumption
<1>6. CASE NandStep
  <2>1. /\ UNCHANGED <<mpFile, mpUpdatedFile, keyFile, selFile, titleFile>>
        /\ \/ fstate' = fstate
           \/ current \in File /\ fstate' = [fstate EXCEPT ![current] = "fatal"]
           \/ current \in File /\ fstate' = [fstate EXCEPT ![current] = "done"]
    BY <1>6, NandEffect
  <2> QED
    BY <1>0, <2>1, SaveAssumption
<1>7. CASE OpenEdit \/ CloseEdit
  BY <1>0, <1>7 DEF OpenEdit, CloseEdit, file, task3
<1>8. CASE Off
  BY <1>8 DEF Off
<1> QED
  BY <1>1, <1>2, <1>3, <1>4, <1>5, <1>6, <1>7, <1>8, QuietSteps, SaveEffect, PollEffect
     DEF Next, Task3Step, UserStep, MainStep, Launch, Restart, PowerCut
\* The queue, index by index, after an append and after a removal.
LEMMA QueueIndices ==
    ASSUME NEW S, NEW q \in Seq(S), NEW x \in S
    PROVE  /\ Len(q) \in Nat /\ DOMAIN q = 1..Len(q)
           /\ DOMAIN Append(q, x) = 1..(Len(q) + 1) /\ Len(Append(q, x)) = Len(q) + 1
           /\ \A i \in DOMAIN q : Append(q, x)[i] = q[i]
           /\ Append(q, x)[Len(q) + 1] = x
           /\ q # <<>> => /\ Len(q) > 0 /\ Head(q) = q[1] /\ Len(Tail(q)) = Len(q) - 1
                          /\ DOMAIN Tail(q) = 1..(Len(q) - 1)
                          /\ \A i \in DOMAIN Tail(q) : Tail(q)[i] = q[i + 1]
                                                       /\ i + 1 \in DOMAIN q
<1>1. Len(q) \in Nat /\ DOMAIN q = 1..Len(q)
  BY LenProperties
<1>2. DOMAIN Append(q, x) = 1..(Len(q) + 1)
  BY QueueTypes, LenProperties
<1>3. ASSUME q # <<>>
      PROVE  /\ DOMAIN Tail(q) = 1..(Len(q) - 1) /\ Len(q) > 0
             /\ \A i \in 1..(Len(q) - 1) : i + 1 \in 1..Len(q)
  <2>1. Tail(q) \in Seq(S) /\ Len(Tail(q)) = Len(q) - 1
    BY <1>3, QueueTypes
  <2>2. DOMAIN Tail(q) = 1..Len(Tail(q))
    BY <2>1, LenProperties
  <2> QED  BY <1>1, <1>3, <2>1, <2>2, EmptySeq
<1> QED  BY <1>1, <1>2, <1>3, QueueTypes

\* A File is appended when it is free and leaves the queue when it is done.
LEMMA QueueNext ==
    TypeInv /\ FileInv /\ [Next]_vars => QueueInv'
<1> SUFFICES ASSUME TypeInv, FileInv, [Next]_vars
             PROVE  QueueInv'
  OBVIOUS
<1>0. /\ QueueInv /\ ControlInv /\ EDIT \notin File /\ NULL \notin File
      /\ fstate \in [File -> {"free", "queued", "done", "fatal"}]
      /\ {mpFile, mpUpdatedFile} \subseteq File \union {NULL}
  BY SaveAssumption DEF FileInv, TypeInv, TypeOK
<1>q. nandq \in Seq(File \union {EDIT})
  BY DEF TypeInv, TypeOK
<1>1. CASE Quiet
  BY <1>0, <1>1 DEF QueueInv, Quiet, file
<1>2. ASSUME NEW f \in File, Saves(f)
      PROVE  QueueInv'
  <2>1. /\ fstate[f] = "free" /\ nandq' = Append(nandq, f) /\ mpFile' = f
        /\ fstate' = [fstate EXCEPT ![f] = "queued"]
        /\ edit = "closed"
    BY <1>2 DEF Saves, Post, UserActs
  <2>2. /\ Len(nandq) \in Nat /\ DOMAIN nandq = 1..Len(nandq)
        /\ DOMAIN nandq' = 1..(Len(nandq) + 1)
        /\ \A i \in DOMAIN nandq : nandq'[i] = nandq[i]
        /\ nandq'[Len(nandq) + 1] = f
    BY <1>q, <2>1, QueueIndices
  <2>3. \A i \in DOMAIN nandq : nandq[i] # f /\ nandq[i] # EDIT
    BY <1>0, <2>1 DEF QueueInv
  <2>4. \A i, k \in DOMAIN nandq' : nandq'[i] = nandq'[k] => i = k
    BY <1>0, <2>2, <2>3 DEF QueueInv
  <2>5. \A g \in File :
           fstate'[g] \in {"queued", "fatal"} <=> \E i \in DOMAIN nandq' : nandq'[i] = g
    <3>1. fstate'[f] \in {"queued", "fatal"} /\ Len(nandq) + 1 \in DOMAIN nandq'
      BY <1>0, <2>1, <2>2
    <3>2. ASSUME NEW g \in File \ {f}
          PROVE  (\E i \in DOMAIN nandq' : nandq'[i] = g)
                    <=> \E i \in DOMAIN nandq : nandq[i] = g
      BY <2>2
    <3> QED  BY <1>0, <2>1, <2>2, <3>1, <3>2 DEF QueueInv
  <2>6. \A i \in DOMAIN nandq' : nandq'[i] # EDIT
    BY <1>0, <2>2, <2>3
  <2>7. \A i, k \in DOMAIN nandq' : nandq'[i] = mpFile' => k <= i
    BY <2>1, <2>2, <2>3
  <2> QED  BY <2>4, <2>5, <2>6, <2>7 DEF QueueInv
<1>3. ASSUME NEW f \in File, Polls(f)
      PROVE  QueueInv'
  <2>1. /\ fstate[f] = "done" /\ fstate' = [fstate EXCEPT ![f] = "free"]
        /\ mpFile' = NULL /\ UNCHANGED <<nandq, edit>>
    BY <1>3 DEF Polls, Deleted
  <2>2. \A g \in File : fstate'[g] \in {"queued", "fatal"}
                          <=> fstate[g] \in {"queued", "fatal"}
    BY <1>0, <2>1
  <2> QED  BY <1>0, <2>1, <2>2 DEF QueueInv
<1>4. ASSUME NEW f \in File, PollsFatal(f)
      PROVE  QueueInv'
  BY <1>0, <1>4 DEF QueueInv, PollsFatal, file
<1>5. CASE InitFlush
  <2>1. PICK f \in File :
           /\ fstate[f] = "free" /\ nandq' = Append(nandq, f) /\ mpUpdatedFile' = f
           /\ fstate' = [g \in File |-> CASE g = f -> "queued"
                                          [] g = mpUpdatedFile -> "free"
                                          [] OTHER -> fstate[g]]
    BY <1>5 DEF InitFlush, Post
  <2>2. nandq = <<>> /\ mpFile' = NULL
    BY <1>0, <1>5 DEF InitFlush, ControlInv
  <2>3. DOMAIN nandq' = {1} /\ nandq'[1] = f /\ DOMAIN nandq = {}
    BY <2>1, <2>2
  <2>4. fstate[f] # fstate[mpUpdatedFile] \/ mpUpdatedFile = NULL
    BY <2>1 DEF FileInv, PointerInv
  <2>5. /\ fstate'[f] = "queued"
        /\ \A g \in File \ {f} : fstate'[g] \notin {"queued", "fatal"}
    <3>1. f # mpUpdatedFile
      BY <1>0, <2>1, <2>4
    <3>2. \A g \in File : fstate[g] \notin {"queued", "fatal"}
      BY <1>0, <2>3 DEF QueueInv
    <3> QED  BY <2>1, <3>1, <3>2
  <2> QED  BY <1>0, <2>2, <2>3, <2>5 DEF QueueInv
<1>6. CASE NandStep
  <2>0. nandq # <<>> /\ mpFile' = mpFile
    BY <1>6, NandEffect
  <2>q. /\ Len(nandq) \in Nat \ {0} /\ DOMAIN nandq = 1..Len(nandq) /\ current = nandq[1]
        /\ Len(Tail(nandq)) = Len(nandq) - 1 /\ DOMAIN Tail(nandq) = 1..(Len(nandq) - 1)
        /\ \A i \in DOMAIN Tail(nandq) : Tail(nandq)[i] = nandq[i + 1]
                                         /\ i + 1 \in DOMAIN nandq
    BY <1>q, <2>0, QueueIndices DEF current
  <2>1. CASE UNCHANGED <<nandq, fstate, edit>>
    BY <1>0, <2>0, <2>1 DEF QueueInv
  <2>2. CASE /\ current \in File /\ fstate' = [fstate EXCEPT ![current] = "fatal"]
             /\ UNCHANGED <<nandq, edit>>
    <3>1. \E i \in DOMAIN nandq : nandq[i] = current
      BY <2>q
    <3>2. \A g \in File : fstate'[g] \in {"queued", "fatal"}
                            <=> fstate[g] \in {"queued", "fatal"}
      BY <1>0, <2>2, <3>1 DEF QueueInv
    <3> QED  BY <1>0, <2>0, <2>2, <3>2 DEF QueueInv
  <2>3. CASE /\ nandq' = Tail(nandq)
             /\ \/ /\ current \in File /\ fstate' = [fstate EXCEPT ![current] = "done"]
                   /\ edit' = edit
                \/ current = EDIT /\ edit' = "open" /\ fstate' = fstate
    <3>1. \A i, k \in DOMAIN nandq' : nandq'[i] = nandq'[k] => i = k
      BY <1>0, <2>q, <2>3 DEF QueueInv
    <3>2. \A i, k \in DOMAIN nandq' :
             nandq'[i] = mpFile /\ mpFile # NULL /\ nandq'[k] \in File => k <= i
      BY <1>0, <2>q, <2>3 DEF QueueInv
    <3>3. \A g : (\E i \in DOMAIN nandq' : nandq'[i] = g)
                    <=> g # current /\ \E i \in DOMAIN nandq : nandq[i] = g
      <4>1. \A i \in DOMAIN nandq' : nandq'[i] # current
        BY <1>0, <2>q, <2>3 DEF QueueInv
      <4>2. \A i \in DOMAIN nandq : i # 1 => i - 1 \in DOMAIN nandq'
                                             /\ nandq'[i - 1] = nandq[i]
        BY <2>q, <2>3
      <4>3. ASSUME NEW g, NEW i \in DOMAIN nandq, g # current, nandq[i] = g
            PROVE  \E k \in DOMAIN nandq' : nandq'[k] = g
        BY <2>q, <4>2, <4>3
      <4>4. ASSUME NEW g, NEW i \in DOMAIN nandq', nandq'[i] = g
            PROVE  g # current /\ \E k \in DOMAIN nandq : nandq[k] = g
        BY <2>q, <2>3, <4>1, <4>4
      <4> QED  BY <4>3, <4>4
    <3>4. \A i \in DOMAIN nandq' : nandq'[i] = EDIT => i = Len(nandq') /\ edit = "loading"
      BY <1>0, <2>q, <2>3 DEF QueueInv
    <3>5. CASE current \in File /\ fstate' = [fstate EXCEPT ![current] = "done"]
                 /\ edit' = edit
      <4>1. \A g \in File : fstate'[g] \in {"queued", "fatal"}
                               <=> g # current /\ fstate[g] \in {"queued", "fatal"}
        BY <1>0, <3>5
      <4>2. \A g \in File : fstate'[g] \in {"queued", "fatal"}
                               <=> \E i \in DOMAIN nandq' : nandq'[i] = g
        BY <1>0, <3>3, <4>1 DEF QueueInv
      <4> QED  BY <2>0, <3>1, <3>2, <3>4, <3>5, <4>2 DEF QueueInv
    <3>6. CASE current = EDIT /\ edit' = "open" /\ fstate' = fstate
      <4>1. \A i \in DOMAIN nandq' : nandq'[i] # EDIT
        BY <3>3, <3>6
      <4>2. \A g \in File : fstate'[g] \in {"queued", "fatal"}
                               <=> \E i \in DOMAIN nandq' : nandq'[i] = g
        BY <1>0, <3>3, <3>6 DEF QueueInv
      <4> QED  BY <2>0, <3>1, <3>2, <3>6, <4>1, <4>2 DEF QueueInv
    <3> QED  BY <2>3, <3>5, <3>6
  <2> QED
    BY <1>6, <2>1, <2>2, <2>3, NandEffect
<1>7. CASE OpenEdit
  <2>1. /\ nandq' = Append(nandq, EDIT) /\ edit = "closed" /\ edit' = "loading"
        /\ UNCHANGED <<fstate, mpFile>>
    BY <1>7 DEF OpenEdit, UserActs, file
  <2>2. /\ Len(nandq) \in Nat /\ DOMAIN nandq = 1..Len(nandq)
        /\ DOMAIN nandq' = 1..(Len(nandq) + 1) /\ Len(nandq') = Len(nandq) + 1
        /\ \A i \in DOMAIN nandq : nandq'[i] = nandq[i]
        /\ nandq'[Len(nandq) + 1] = EDIT
    BY <1>q, <2>1, QueueIndices
  <2>3. \A i \in DOMAIN nandq : nandq[i] # EDIT
    BY <1>0, <2>1 DEF QueueInv
  <2>4. \A i, k \in DOMAIN nandq' : nandq'[i] = nandq'[k] => i = k
    BY <1>0, <2>2, <2>3 DEF QueueInv
  <2>5. \A g \in File : (\E i \in DOMAIN nandq' : nandq'[i] = g)
                           <=> \E i \in DOMAIN nandq : nandq[i] = g
    BY <1>0, <2>2
  <2>6. \A i, k \in DOMAIN nandq' :
           nandq'[i] = mpFile /\ mpFile # NULL /\ nandq'[k] \in File => k <= i
    BY <1>0, <2>2 DEF QueueInv
  <2> QED  BY <1>0, <2>1, <2>2, <2>3, <2>4, <2>5, <2>6 DEF QueueInv
<1>8. CASE CloseEdit
  <2>1. nandq = <<>> /\ UNCHANGED <<nandq, fstate, mpFile>>
    BY <1>0, <1>8 DEF CloseEdit, ControlInv, nand, file
  <2>2. DOMAIN nandq = {}
    BY <2>1
  <2> QED  BY <1>0, <2>1, <2>2 DEF QueueInv
<1>9. CASE Off
  BY <1>9 DEF Off, QueueInv
<1> QED
  BY <1>1, <1>2, <1>3, <1>4, <1>5, <1>6, <1>7, <1>8, <1>9, QuietSteps, SaveEffect, PollEffect
     DEF Next, Task3Step, UserStep, MainStep, Launch, Restart, PowerCut
FileOK == TypeInv /\ FileInv

\* Types, control, pointers and queue together.
LEMMA FileNext == FileOK /\ [Next]_vars => FileOK'
BY TypeNext, ControlNext, PointerNext, QueueNext DEF FileOK, FileInv

LEMMA FileAlways == Spec => []FileOK
<1>1. Init => FileOK
  BY TypeInit, FileInit DEF FileOK
<1> QED
  BY <1>1, FileNext, PTL DEF Spec

\* Whatever the scenes, Task3 and the NAND thread do, none of them has the
\* pointer of a File that was deleted.
THEOREM NoFileDangles == Spec => []NoDanglingFile
<1>1. FileOK => NoDanglingFile
  BY DEF FileOK, FileInv, PointerInv, QueueInv, NoDanglingFile, Range
<1> QED
  BY <1>1, FileAlways, PTL

-----------------------------------------------------------------------------
(* The reset waits for the File of mpFile.  That is the one to wait for: the *)
(* scenes' Files that are not it were asked for beside the keyboard's, and   *)
(* while that one is outstanding, it is before mpFile in the queue.         *)

WaitInv ==
    /\ keyFile # NULL => \A f \in {selFile, titleFile} \ {NULL} : rival[f]
    /\ \A f \in {selFile, titleFile} \ {NULL} :
          /\ fstate[f] = "queued" /\ ~rival[f] => mpFile = f
          /\ keyFile # NULL /\ fstate[keyFile] = "queued"
               => mpFile = f /\ fstate[f] = "queued"
    /\ keyFile # NULL /\ fstate[keyFile] = "queued" /\ selFile = NULL /\ titleFile = NULL
          => mpFile = keyFile

\* mpFile is overwritten by those the user may start and cleared by the polls.
LEMMA WaitNext ==
    FileOK /\ WaitInv /\ [Next]_vars => WaitInv'
<1> SUFFICES ASSUME FileOK, WaitInv, [Next]_vars
             PROVE  WaitInv'
  OBVIOUS
<1> USE DEF WaitInv
<1>0. /\ ControlInv /\ PointerInv /\ QueueInv /\ NULL \notin File
      /\ fstate \in [File -> {"free", "queued", "done", "fatal"}]
      /\ rival \in [File -> BOOLEAN]
      /\ {mpFile, mpUpdatedFile, keyFile, selFile, titleFile} \subseteq File \union {NULL}
  BY SaveAssumption DEF FileOK, FileInv, TypeInv, TypeOK
<1>1. CASE Quiet
  BY <1>1 DEF Quiet, file
<1>2. ASSUME NEW f \in File, Saves(f)
      PROVE  WaitInv'
  <2>1. /\ fstate[f] = "free" /\ selFile = NULL /\ titleFile = NULL /\ mpFile' = f
        /\ fstate' = [fstate EXCEPT ![f] = "queued"]
        /\ rival' = [rival EXCEPT ![f] = keyFile # NULL]
        /\ \/ keyFile = NULL /\ keyFile' = f /\ UNCHANGED <<selFile, titleFile>>
           \/ selFile' = f /\ UNCHANGED <<keyFile, titleFile>>
           \/ titleFile' = f /\ UNCHANGED <<keyFile, selFile>>
    BY <1>2 DEF Saves, Post, UserActs
  <2>2. f # NULL /\ f # keyFile
    BY <1>0, <2>1 DEF PointerInv
  <2>3. rival'[f] <=> keyFile # NULL
    BY <1>0, <2>1
  <2>4. fstate'[f] = "queued"
    BY <1>0, <2>1
  <2>5. CASE keyFile = NULL /\ keyFile' = f /\ UNCHANGED <<selFile, titleFile>>
    BY <2>1, <2>5
  <2>6. CASE selFile' = f /\ UNCHANGED <<keyFile, titleFile>>
    BY <2>1, <2>2, <2>3, <2>4, <2>6
  <2>7. CASE titleFile' = f /\ UNCHANGED <<keyFile, selFile>>
    BY <2>1, <2>2, <2>3, <2>4, <2>7
  <2> QED  BY <2>1, <2>5, <2>6, <2>7
<1>3. ASSUME NEW f \in File, Polls(f)
      PROVE  WaitInv'
  <2>1. /\ fstate[f] = "done" /\ titleFile' = titleFile
        /\ fstate' = [fstate EXCEPT ![f] = "free"] /\ rival' = [rival EXCEPT ![f] = FALSE]
        /\ \/ keyFile = f /\ keyFile' = NULL /\ selFile' = selFile
           \/ selFile = f /\ selFile' = NULL /\ keyFile' = keyFile
    BY <1>3 DEF Polls, Deleted
  <2>2. f # NULL
    BY <1>0
  <2> QED  BY <1>0, <2>1, <2>2 DEF PointerInv, ControlInv
<1>4. ASSUME NEW f \in File, PollsFatal(f)
      PROVE  WaitInv'
  <2>1. /\ fstate[f] = "fatal" /\ f \in {keyFile, selFile} /\ f # NULL
        /\ UNCHANGED <<fstate, rival, keyFile, selFile, titleFile>>
    BY <1>0, <1>4 DEF PollsFatal, file
  <2> QED  BY <1>0, <2>1 DEF ControlInv
<1>5. CASE InitFlush
  <2>1. PICK f \in File :
           /\ fstate[f] = "free"
           /\ fstate' = [g \in File |-> CASE g = f -> "queued"
                                          [] g = mpUpdatedFile -> "free"
                                          [] OTHER -> fstate[g]]
    BY <1>5 DEF InitFlush, Post
  <2>2. /\ init = "loaded" /\ nandq = <<>> /\ selFile = NULL /\ titleFile = NULL
        /\ UNCHANGED <<keyFile, selFile, titleFile>>
    BY <1>0, <1>5 DEF InitFlush, ControlInv, scenes
  <2>3. \A g \in File : fstate[g] # "queued"
    BY <1>0, <2>2 DEF QueueInv
  <2>4. keyFile # NULL => fstate'[keyFile] = fstate[keyFile]
    <3>1. keyFile # NULL => keyFile \in File /\ keyFile # f /\ keyFile # mpUpdatedFile
      BY <1>0, <2>1 DEF PointerInv
    <3> QED  BY <2>1, <3>1
  <2> QED  BY <1>0, <2>2, <2>3, <2>4
<1>6. CASE NandStep
  <2>1. /\ UNCHANGED <<mpFile, rival, keyFile, selFile, titleFile>>
        /\ nandq # <<>>
        /\ \/ fstate' = fstate
           \/ current \in File /\ fstate' = [fstate EXCEPT ![current] = "fatal"]
           \/ current \in File /\ fstate' = [fstate EXCEPT ![current] = "done"]
    BY <1>6, NandEffect DEF FileOK
  <2>2. \A g \in File : fstate'[g] = "queued" <=>
                           fstate[g] = "queued" /\ (fstate' = fstate \/ g # current)
    BY <1>0, <2>1
  <2>3. ASSUME keyFile # NULL, fstate[keyFile] = "queued", mpFile # NULL, mpFile = current
        PROVE  keyFile = current
    <3>1. nandq[1] = current /\ 1 \in DOMAIN nandq /\ DOMAIN nandq = 1..Len(nandq)
          /\ Len(nandq) \in Nat
      BY <2>1, QueueIndices DEF current, FileOK, TypeInv, TypeOK
    <3>2. PICK k \in DOMAIN nandq : nandq[k] = keyFile
      BY <1>0, <2>3 DEF QueueInv
    <3>3. k <= 1
      BY <1>0, <2>3, <3>1, <3>2 DEF QueueInv
    <3> QED  BY <3>1, <3>2, <3>3
  <2>4. /\ keyFile # NULL => keyFile \in File
        /\ selFile # NULL => selFile \in File
        /\ titleFile # NULL => titleFile \in File
    BY <1>0
  <2> QED  BY <2>1, <2>2, <2>3, <2>4
<1>7. CASE OpenEdit \/ CloseEdit
  BY <1>7 DEF OpenEdit, CloseEdit, file
<1>8. CASE Off
  BY <1>8 DEF Off
<1> QED
  BY <1>1, <1>2, <1>3, <1>4, <1>5, <1>6, <1>7, <1>8, QuietSteps, SaveEffect, PollEffect
     DEF Next, Task3Step, UserStep, MainStep, Launch, Restart, PowerCut, FileOK

\* The reset does not cut off a write of a scene, but the one that the
\* keyboard's poll has made the manager forget.
THEOREM ResetWaitsForWrites == Spec => ResetWaits
<1> DEFINE Waits == mode = "reset" /\ mode' = "fading" =>
                       \A f \in {keyFile, selFile, titleFile} \ {NULL} :
                          fstate[f] \in {"done", "fatal"} \/ rival[f]
<1>1. Init => WaitInv
  BY DEF Init, WaitInv
<1>2. ASSUME FileOK, WaitInv, [Next]_vars
      PROVE  [Waits]_vars
  <2>1. SUFFICES ASSUME mode = "reset", mode' = "fading",
                        NEW f \in {keyFile, selFile, titleFile} \ {NULL}
                 PROVE  fstate[f] \in {"done", "fatal"} \/ rival[f]
    OBVIOUS
  <2>2. isResetAcceptable
    BY <1>2, <2>1
       DEF Next, Task3Step, Load, InitFlush, InitNoFlush, InitFails, NandStep, UserStep,
           KeySave, MoveChannel, PrepareForBoot, OpenEdit, CloseEdit, OtherError,
           RequestReset, PowerCut, Boot, Off, MainStep, KeyPoll, MovePoll, EnterLaunch,
           Launch, ShowError, AcceptReset, Restart, vars
  <2>3. f \in File /\ fstate[f] \in {"queued", "done", "fatal"}
    BY <1>2, <2>1 DEF FileOK, FileInv, PointerInv, TypeInv, TypeOK
  <2> QED
    BY <1>2, <2>2, <2>3 DEF WaitInv, isResetAcceptable
<1> QED
  BY <1>1, <1>2, FileAlways, FileNext, WaitNext, PTL DEF Spec, ResetWaits
-----------------------------------------------------------------------------
(* What was seen saved is kept.  Secured is that and what a scene may yet    *)
(* see: the data of the Files that were written without an error.  A write   *)
(* that is queued has all of it, and all of the writes before it.            *)

Secured == acked \union UNION {fdata[f] : f \in {g \in File : fstate[g] = "done" /\ ~failed[g]}}

\* The settings were loaded since the console was switched on.
Loaded == init \in {"loaded", "done"} \/ (init = "posted" /\ mpUpdatedFile # NULL)

\* The page is in memory and in a write only from the moment a title starts.
PageInv ==
    /\ \A f \in File : PAGE \in fdata[f] => f = titleFile
    /\ Loaded /\ titleFile = NULL => PAGE \notin mData.val

DiskInv == ~hurt => Secured \subseteq disk.val /\ (disk.kind # "new" => Secured = {})

MemoryInv == ~hurt /\ Loaded => mData.kind = "new" /\ Secured \subseteq mData.val

OrderInv == ~hurt =>
    \A i \in DOMAIN nandq : nandq[i] \in File =>
       /\ Secured \subseteq fdata[nandq[i]] /\ fdata[nandq[i]] \subseteq mData.val
       /\ \A k \in DOMAIN nandq :
             i < k /\ nandq[k] \in File => fdata[nandq[i]] \subseteq fdata[nandq[k]]

\* What the copy in /tmp/sys is at each place of File::write.
CopyInv == ~hurt =>
    /\ npc = "create" => disk.kind = "absent"
    /\ npc = "write" => tmp = disk
    /\ npc = "close" => /\ tmp = Whole(fdata[current]) \/ failed[current]
                        /\ \/ tmp.kind = "torn"
                           \/ tmp = disk
                           \/ tmp = Whole(fdata[current])

DataInv == PageInv /\ DiskInv /\ MemoryInv /\ OrderInv /\ CopyInv

\* At the start nothing is secured but what the file says.
LEMMA DataInit == Init => DataInv
<1> SUFFICES ASSUME Init PROVE DataInv
  OBVIOUS
<1>1. Secured = acked
  BY DEF Init, Secured
<1>2. ~Loaded /\ nandq = <<>> /\ npc = "idle"
  BY DEF Init, Loaded
<1>3. \A f \in File : fdata[f] = {}
  BY DEF Init
<1>4. acked \subseteq disk.val /\ (disk.kind # "new" => acked = {})
  BY DEF Init
<1> QED
  BY <1>1, <1>2, <1>3, <1>4 DEF DataInv, PageInv, DiskInv, MemoryInv, OrderInv, CopyInv

\* x is secured if it is acked or in a File that was written.
LEMMA SecuredMember ==
    \A x : x \in Secured <=>
              \/ x \in acked
              \/ \E f \in File : fstate[f] = "done" /\ ~failed[f] /\ x \in fdata[f]
BY DEF Secured

\* A scene's save adds to the settings, the page only when a title starts.
LEMMA SaveMemory ==
    ASSUME TypeInv, KeySave \/ MoveChannel \/ PrepareForBoot
    PROVE  /\ mData'.kind = mData.kind /\ mData.val \ {PAGE} \subseteq mData'.val
           /\ PAGE \in mData'.val => PAGE \in mData.val \/ titleFile' # NULL
<1>1. mData \in Content
  BY DEF TypeInv, TypeOK
<1>2. CASE KeySave
  BY <1>2 DEF KeySave
<1>3. CASE MoveChannel
  <2>1. PICK m \in Move : mData' = [mData EXCEPT !.val = @ \union {m}]
    BY <1>3 DEF MoveChannel
  <2> QED  BY <1>1, <2>1, SaveAssumption DEF Content
<1>4. CASE PrepareForBoot
  <2>1. PICK f \in File, v \in {mData.val \ {PAGE}, mData.val \union {PAGE}} :
           mData' = [mData EXCEPT !.val = v] /\ titleFile' = f
    BY <1>4 DEF PrepareForBoot
  <2> QED  BY <1>1, <2>1, SaveAssumption DEF Content
<1> QED  BY <1>2, <1>3, <1>4

\* Only a write that ends without an error adds to what is secured.
LEMMA SecuredNext ==
    ASSUME FileOK, [Next]_vars
    PROVE  /\ Task3Step \/ UserStep \/ MainStep \/ UNCHANGED vars => Secured' \subseteq Secured
           /\ NandStep /\ ~SafeClose => Secured' \subseteq Secured
<1>0. /\ fstate \in [File -> {"free", "queued", "done", "fatal"}]
      /\ failed \in [File -> BOOLEAN] /\ fdata \in [File -> SUBSET Change]
      /\ {keyFile, selFile, titleFile} \subseteq File \union {NULL}
      /\ NULL \notin File
      /\ mode = "launch" => titleFile \in File
  BY SaveAssumption DEF FileOK, TypeInv, TypeOK
<1>1. ASSUME acked' \subseteq acked, UNCHANGED <<fstate, fdata, failed>>
      PROVE  Secured' \subseteq Secured
  BY <1>1 DEF Secured
<1>2. CASE Load \/ InitNoFlush \/ InitFails \/ EnterLaunch \/ ShowError \/ OtherError
             \/ RequestReset \/ AcceptReset \/ Boot \/ OpenEdit \/ CloseEdit
             \/ UNCHANGED vars
  BY <1>1, <1>2
     DEF Load, SkipLoad, CreateNew, ReplaceBroken, LoadIntact, LoadFails, InitNoFlush,
         InitFails, EnterLaunch, ShowError, OtherError, RequestReset, AcceptReset, Boot,
         OpenEdit, CloseEdit, vars, file
<1>3. ASSUME NEW f \in File, Saves(f)
      PROVE  Secured' \subseteq Secured
  <2>1. /\ acked' = acked /\ fstate'[f] = "queued"
        /\ \A g \in File \ {f} : /\ fstate'[g] = fstate[g] /\ fdata'[g] = fdata[g]
                                 /\ failed'[g] <=> failed[g]
    BY <1>0, <1>3 DEF Saves, Post
  <2> QED  BY <2>1 DEF Secured
<1>4. ASSUME NEW f \in File, Polls(f) \/ PollsFatal(f)
      PROVE  Secured' \subseteq Secured
  <2>1. CASE Polls(f)
    <3>1. /\ acked' \subseteq Secured /\ fstate'[f] = "free"
          /\ \A g \in File \ {f} : /\ fstate'[g] = fstate[g] /\ fdata'[g] = fdata[g]
                                   /\ failed'[g] <=> failed[g]
      BY <1>0, <2>1 DEF Polls, Deleted, Saved, Secured
    <3> QED  BY <3>1 DEF Secured
  <2>2. CASE PollsFatal(f)
    BY <1>1, <2>2 DEF PollsFatal, file
  <2> QED  BY <1>4, <2>1, <2>2
<1>5. CASE InitFlush
  <2>1. PICK f \in File :
           /\ Post(f, mData)
           /\ fstate' = [g \in File |-> CASE g = f -> "queued"
                                          [] g = mpUpdatedFile -> "free"
                                          [] OTHER -> fstate[g]]
    BY <1>5 DEF InitFlush
  <2>2. f # mpUpdatedFile
    BY <1>0, <2>1 DEF Post, FileOK, FileInv, PointerInv
  <2>3. /\ acked' = acked /\ fstate'[f] = "queued"
        /\ \A g \in File \ {f} : /\ fstate'[g] \in {fstate[g], "free"}
                                 /\ fdata'[g] = fdata[g]
                                 /\ failed'[g] <=> failed[g]
    BY <1>0, <1>5, <2>1, <2>2 DEF InitFlush, Post
  <2> QED  BY <2>3 DEF Secured
<1>6. CASE NandStep /\ ~SafeClose
  <2>1. acked' = acked /\ fdata' = fdata /\ (npc \in Writing => current \in File)
    BY <1>6 DEF NandStep, FileOK, TypeInv, current
  <2>2. \A g \in File : fstate'[g] = "done" /\ ~failed'[g] =>
                           fstate[g] = "done" /\ ~failed[g]
    <3>1. \A to : Goes(to) => fstate' = fstate
      BY DEF Goes
    <3>2. Dies => \A g \in File : fstate'[g] = "done" => fstate[g] = "done"
      BY <1>0 DEF Dies
    <3>3. FailsSoftly => \A g \in File : failed[g] => failed'[g]
      BY <1>0 DEF FailsSoftly
    <3>4. FailsSoftly /\ Done /\ current \in File =>
             \A g \in File : fstate'[g] = "done" /\ ~failed'[g] => fstate[g] = "done"
      BY <1>0 DEF FailsSoftly, Done
    <3> QED
      BY <1>6, <2>1, <3>1, <3>2, <3>3, <3>4
         DEF NandStep, ServeEdit, StartWrite, GetType, Create, SafeOpen, Write, Writing
  <2> QED  BY <2>1, <2>2 DEF Secured
<1>7. CASE Off /\ acked' \subseteq Secured
  BY <1>7 DEF Off, Secured
<1>8. CASE Launch
  <2>1. acked' \subseteq Secured
    BY <1>0, <1>8 DEF Launch, Saved, Secured
  <2> QED  BY <1>7, <1>8, <2>1 DEF Launch
<1>9. CASE Restart \/ PowerCut
  BY <1>7, <1>9 DEF Restart, PowerCut, Secured
<1> QED
  BY <1>2, <1>3, <1>4, <1>5, <1>6, <1>8, <1>9, SaveEffect, PollEffect
     DEF Task3Step, UserStep, MainStep, FileOK
\* The page enters a write with the start of a title, and memory with it.
LEMMA PageNext ==
    FileOK /\ PageInv /\ [Next]_vars => PageInv'
<1> SUFFICES ASSUME FileOK, PageInv, [Next]_vars
             PROVE  PageInv'
  OBVIOUS
<1> USE DEF PageInv
<1>0. /\ fdata \in [File -> SUBSET Change] /\ mData \in Content /\ NULL \notin File
      /\ ControlInv /\ PointerInv
      /\ {mpUpdatedFile, titleFile} \subseteq File \union {NULL}
  BY SaveAssumption DEF FileOK, FileInv, TypeInv, TypeOK
<1>1. CASE Load
  <2>1. fdata' = fdata /\ titleFile' = titleFile
    BY <1>1 DEF Load, file, scenes
  <2>2. mpUpdatedFile' = mpUpdatedFile
    BY <1>1 DEF Load
  <2>3. CASE SkipLoad
    BY <2>1, <2>2, <2>3 DEF SkipLoad, Loaded
  <2>4. CASE CreateNew \/ ReplaceBroken \/ LoadIntact
    <3>1. PAGE \notin mData'.val
      BY <2>4 DEF CreateNew, ReplaceBroken, LoadIntact, Whole
    <3> QED  BY <2>1, <3>1
  <2>5. CASE LoadFails
    BY <2>1, <2>5 DEF LoadFails, Loaded
  <2> QED  BY <1>1, <2>3, <2>4, <2>5 DEF Load
<1>2. CASE InitFlush
  <2>1. PICK f \in File : fdata' = [fdata EXCEPT ![f] = mData.val]
    BY <1>2 DEF InitFlush, Post
  <2>2. /\ titleFile = NULL /\ UNCHANGED <<titleFile, mData>> /\ init = "loaded"
    BY <1>0, <1>2 DEF InitFlush, ControlInv, scenes
  <2>3. PAGE \notin mData.val
    BY <2>2 DEF Loaded
  <2> QED  BY <1>0, <2>1, <2>2, <2>3
<1>3. CASE KeySave \/ MoveChannel \/ PrepareForBoot
  <2>1. PICK f \in File : Saves(f)
    BY <1>3, SaveEffect
  <2>2. /\ fdata' = [fdata EXCEPT ![f] = mData'.val] /\ titleFile = NULL /\ init = "done"
        /\ titleFile' \in {NULL, f}
    BY <2>1 DEF Saves, Post, UserActs
  <2>3. PAGE \in mData'.val => titleFile' = f
    BY <1>3, <2>2, SaveMemory DEF Loaded, FileOK
  <2> QED  BY <1>0, <2>2, <2>3
<1>4. ASSUME NEW f \in File, Polls(f) \/ PollsFatal(f)
      PROVE  PageInv'
  <2>1. /\ \A g \in File : fdata'[g] \subseteq fdata[g]
        /\ UNCHANGED <<titleFile, mData, init, mpUpdatedFile>>
    BY <1>0, <1>4 DEF Polls, PollsFatal, Deleted, file
  <2> QED  BY <2>1 DEF Loaded
<1>5. CASE NandStep
  BY <1>5, NandEffect DEF Loaded, FileOK
<1>6. CASE CloseEdit
  BY <1>0, <1>6 DEF CloseEdit, ControlInv, file, Loaded
<1>7. CASE Off
  BY <1>7 DEF Off, Loaded
<1>8. CASE InitNoFlush \/ InitFails \/ EnterLaunch \/ ShowError \/ OtherError
             \/ RequestReset \/ AcceptReset \/ Boot \/ OpenEdit \/ UNCHANGED vars
  <2>1. /\ UNCHANGED <<fdata, titleFile, mData, mpUpdatedFile>>
        /\ init' = init \/ (init = "loaded" /\ init' \in {"done", "dead"})
    BY <1>8 DEF InitNoFlush, InitFails, EnterLaunch, ShowError, OtherError, RequestReset,
                AcceptReset, Boot, OpenEdit, vars, file, scenes, task3
  <2> QED  BY <2>1 DEF Loaded
<1> QED
  BY <1>1, <1>2, <1>3, <1>4, <1>5, <1>6, <1>7, <1>8, PollEffect
     DEF Next, Task3Step, UserStep, MainStep, Launch, Restart, PowerCut, FileOK

\* A load that finds the file intact has all of what is secured.
LEMMA LoadKeeps ==
    ASSUME FileOK, DataInv, Load, ~hurt
    PROVE  /\ disk' # disk => disk.kind = "bad" /\ disk'.kind # "new"
           /\ init' = "loaded" => mData'.kind = "new" /\ Secured' \subseteq mData'.val
           /\ init' \in {"loaded", "dead"} /\ Secured' \subseteq Secured
<1>1. acked' \subseteq acked /\ UNCHANGED <<fstate, fdata, failed>>
  BY DEF Load, SkipLoad, CreateNew, ReplaceBroken, LoadIntact, LoadFails, file
<1>2. Secured' \subseteq Secured
  BY <1>1 DEF Secured
<1>3. CASE SkipLoad
  BY <1>2, <1>3 DEF SkipLoad, DataInv, MemoryInv, Loaded
<1>4. CASE CreateNew
  BY <1>2, <1>4 DEF CreateNew, DataInv, DiskInv, Whole
<1>5. CASE ReplaceBroken
  BY <1>2, <1>5 DEF ReplaceBroken, DataInv, DiskInv, Whole, Plain
<1>6. CASE LoadIntact
  <2>1. titleFile = NULL
    BY <1>6 DEF LoadIntact, FileOK, FileInv, ControlInv
  <2>2. \A f \in File : PAGE \notin fdata[f]
    BY <2>1, SaveAssumption DEF DataInv, PageInv
  <2>3. PAGE \notin Secured'
    BY <1>1, <1>6, <2>2 DEF LoadIntact, Secured
  <2>4. Secured' \subseteq disk.val
    BY <1>2 DEF DataInv, DiskInv
  <2> QED  BY <1>2, <1>6, <2>3, <2>4 DEF LoadIntact, Whole
<1>7. CASE LoadFails
  BY <1>2, <1>7 DEF LoadFails, Plain
<1> QED
  BY <1>3, <1>4, <1>5, <1>6, <1>7 DEF Load
\* Nothing undoes that an incomplete copy has replaced the file.
LEMMA HurtStays == [Next]_vars => (hurt => hurt')
BY DEF Next, Task3Step, Load, InitFlush, InitNoFlush, InitFails, NandStep, ServeEdit,
       StartWrite, GetType, Create, SafeOpen, Write, SafeClose, Renamed, UserStep, KeySave,
       MoveChannel, PrepareForBoot, OpenEdit, CloseEdit, OtherError, RequestReset, PowerCut,
       Boot, MainStep, KeyPoll, MovePoll, EnterLaunch, Launch, ShowError, AcceptReset,
       Restart, store, vars

\* The File being written is the first of the queue, and not done.
LEMMA Current ==
    ASSUME FileOK, NandStep
    PROVE  /\ nandq # <<>> /\ 1 \in DOMAIN nandq /\ current = nandq[1]
           /\ npc \in Writing => current \in File /\ fstate[current] \in {"queued", "fatal"}
<1>1. nandq # <<>> /\ nandq \in Seq(File \union {EDIT})
  BY NandEffect DEF FileOK, TypeInv, TypeOK
<1>2. 1 \in DOMAIN nandq /\ current = nandq[1]
  BY <1>1, QueueIndices DEF current
<1> QED
  BY <1>1, <1>2 DEF FileOK, FileInv, QueueInv, TypeInv, current

\* SafeClose leaves the old file or the data of the write, and then all that
\* is secured is in these.
LEMMA CloseKeeps ==
    ASSUME FileOK, DataInv, NandStep, npc = "close", SafeClose, ~hurt'
    PROVE  \/ disk' = disk /\ Secured' \subseteq Secured
           \/ /\ disk' = Whole(fdata[current])
              /\ Secured' \subseteq fdata[current] /\ fdata[current] \subseteq mData.val
<1>1. /\ ~hurt /\ current \in File /\ fstate[current] \in {"queued", "fatal"}
      /\ 1 \in DOMAIN nandq /\ current = nandq[1]
      /\ fstate \in [File -> {"free", "queued", "done", "fatal"}]
  BY HurtStays, Current DEF FileOK, TypeInv, TypeOK, Next, Writing
<1>2. Secured \subseteq fdata[current] /\ fdata[current] \subseteq mData.val
  BY <1>1 DEF DataInv, OrderInv
<1>3. UNCHANGED <<acked, fdata, failed>>
  BY DEF NandStep, SafeClose
<1>4. CASE UNCHANGED store /\ Dies
  <2>1. \A g \in File : fstate'[g] = "done" => fstate[g] = "done"
    BY <1>1, <1>4 DEF Dies
  <2> QED  BY <1>3, <1>4, <2>1 DEF Secured, store
<1>5. CASE Renamed /\ Dies
  <2>1. \A g \in File : fstate'[g] = "done" => fstate[g] = "done"
    BY <1>1, <1>5 DEF Dies
  <2>2. Secured' \subseteq Secured
    BY <1>3, <2>1 DEF Secured
  <2>3. disk' = disk \/ disk' = Whole(fdata[current])
    BY <1>1, <1>5 DEF Renamed, DataInv, CopyInv
  <2> QED  BY <1>2, <2>2, <2>3
<1>6. CASE Renamed /\ Done /\ failed[current]
  <2>1. \A g \in File : fstate'[g] = "done" /\ ~failed[g] => fstate[g] = "done"
    BY <1>1, <1>6 DEF Done
  <2>2. Secured' \subseteq Secured
    BY <1>3, <2>1 DEF Secured
  <2>3. disk' = disk \/ disk' = Whole(fdata[current])
    BY <1>1, <1>6 DEF Renamed, DataInv, CopyInv
  <2> QED  BY <1>2, <2>2, <2>3
<1>7. CASE Renamed /\ Done /\ ~failed[current]
  <2>1. \A g \in File : fstate'[g] = "done" => fstate[g] = "done" \/ g = current
    BY <1>1, <1>7 DEF Done
  <2>2. Secured' \subseteq Secured \union fdata[current]
    BY <1>3, <2>1 DEF Secured
  <2>3. disk' = Whole(fdata[current])
    BY <1>1, <1>7 DEF Renamed, DataInv, CopyInv
  <2> QED  BY <1>2, <2>2, <2>3
<1> QED
  BY <1>4, <1>5, <1>6, <1>7 DEF SafeClose

\* The other steps leave the file, unless nothing is secured.
LEMMA DiskSteps ==
    ASSUME [Next]_vars, ~Load, ~NandStep
    PROVE  UNCHANGED <<disk, hurt>>
BY DEF Next, Task3Step, InitFlush, InitNoFlush, InitFails, UserStep, KeySave, MoveChannel,
       PrepareForBoot, OpenEdit, CloseEdit, OtherError, RequestReset, PowerCut, Boot,
       MainStep, KeyPoll, MovePoll, EnterLaunch, Launch, ShowError, AcceptReset, Restart,
       store, vars

\* What is secured is in the file, whatever step is taken.
LEMMA DiskNext ==
    FileOK /\ DataInv /\ [Next]_vars => DiskInv'
<1> SUFFICES ASSUME FileOK, DataInv, [Next]_vars, ~hurt'
             PROVE  Secured' \subseteq disk'.val /\ (disk'.kind # "new" => Secured' = {})
  BY DEF DiskInv
<1>0. ~hurt /\ Secured \subseteq disk.val /\ (disk.kind # "new" => Secured = {})
  BY HurtStays DEF DataInv, DiskInv
<1>1. CASE Load
  BY <1>0, <1>1, LoadKeeps
<1>2. CASE NandStep /\ SafeClose
  BY <1>0, <1>2, CloseKeeps DEF Whole, SafeClose
<1>3. CASE NandStep /\ ~SafeClose
  <2>1. Secured' \subseteq Secured
    BY <1>3, SecuredNext
  <2>2. disk' = disk \/ (disk.kind = "absent" /\ disk' = Plain("blank"))
    BY <1>0, <1>3 DEF NandStep, ServeEdit, StartWrite, GetType, Create, SafeOpen, Write,
                      store, DataInv, CopyInv
  <2> QED  BY <1>0, <2>1, <2>2 DEF Plain
<1>4. CASE ~Load /\ ~NandStep
  BY <1>0, <1>4, SecuredNext, DiskSteps DEF Next
<1> QED
  BY <1>1, <1>2, <1>3, <1>4

\* And in memory, once that is loaded.
LEMMA MemoryNext ==
    FileOK /\ DataInv /\ [Next]_vars => MemoryInv'
<1> SUFFICES ASSUME FileOK, DataInv, [Next]_vars, ~hurt', Loaded'
             PROVE  mData'.kind = "new" /\ Secured' \subseteq mData'.val
  BY DEF MemoryInv
<1>0. /\ ~hurt /\ (Loaded => mData.kind = "new" /\ Secured \subseteq mData.val)
  BY HurtStays DEF DataInv, MemoryInv
<1>1. CASE Load
  <2>1. init' = "loaded"
    BY <1>0, <1>1, LoadKeeps DEF Loaded
  <2> QED  BY <1>0, <1>1, <2>1, LoadKeeps
<1>2. CASE NandStep
  <2>1. UNCHANGED <<mData, init, mpUpdatedFile>>
    BY <1>2, NandEffect DEF FileOK
  <2>2. Secured' \subseteq Secured \/ Secured' \subseteq mData.val
    BY <1>2, SecuredNext, CloseKeeps DEF SafeClose
  <2> QED  BY <1>0, <2>1, <2>2 DEF Loaded
<1>3. CASE KeySave \/ MoveChannel \/ PrepareForBoot
  <2>1. /\ init = "done" /\ titleFile = NULL
    BY <1>3 DEF KeySave, MoveChannel, PrepareForBoot, UserActs
  <2>2. PAGE \notin mData.val
    BY <2>1 DEF DataInv, PageInv, Loaded
  <2>3. Secured' \subseteq Secured
    BY <1>3, SecuredNext DEF UserStep
  <2> QED  BY <1>0, <1>3, <2>1, <2>2, <2>3, SaveMemory DEF Loaded, FileOK
<1>4. CASE Off
  BY <1>4 DEF Off, Loaded
<1>5. CASE KeyPoll \/ MovePoll \/ InitFlush \/ InitNoFlush \/ EnterLaunch \/ ShowError
             \/ OtherError \/ RequestReset \/ AcceptReset \/ Boot \/ OpenEdit \/ CloseEdit
             \/ UNCHANGED vars
  <2>1. mData' = mData /\ Loaded
    BY <1>5 DEF KeyPoll, MovePoll, InitFlush, InitNoFlush, EnterLaunch, ShowError,
                OtherError, RequestReset, AcceptReset, Boot, OpenEdit, CloseEdit, vars,
                task3, Loaded, FileOK, FileInv, ControlInv
  <2>2. Secured' \subseteq Secured
    BY <1>5, SecuredNext DEF Task3Step, UserStep, MainStep
  <2> QED  BY <1>0, <2>1, <2>2
<1>6. CASE InitFails
  BY <1>6 DEF InitFails, Loaded
<1> QED
  BY <1>1, <1>2, <1>3, <1>4, <1>5, <1>6
     DEF Next, Task3Step, UserStep, MainStep, Launch, Restart, PowerCut
\* A write that is posted has all that the ones before it have.
LEMMA OrderNext ==
    FileOK /\ DataInv /\ [Next]_vars => OrderInv'
<1> SUFFICES ASSUME FileOK, DataInv, [Next]_vars, ~hurt'
             PROVE  OrderInv'
  BY DEF OrderInv
<1>0. /\ ~hurt /\ OrderInv /\ EDIT \notin File
      /\ nandq \in Seq(File \union {EDIT}) /\ fdata \in [File -> SUBSET Change]
      /\ \A i \in DOMAIN nandq : nandq[i] \in File => fstate[nandq[i]] \in {"queued", "fatal"}
  BY HurtStays, SaveAssumption DEF DataInv, FileOK, FileInv, QueueInv, TypeInv, TypeOK
<1>1. ASSUME /\ nandq' = nandq /\ mData' = mData /\ Secured' \subseteq Secured
             /\ \A f \in File : fstate[f] \in {"queued", "fatal"} => fdata'[f] = fdata[f]
      PROVE  OrderInv'
  BY <1>0, <1>1 DEF OrderInv
<1>2. CASE nandq' = <<>>
  <2>1. DOMAIN nandq' = {}
    BY <1>2
  <2> QED  BY <2>1 DEF OrderInv
<1>3. CASE Load
  <2>1. nandq = <<>> /\ nandq' = nandq
    BY <1>3 DEF Load, SkipLoad, CreateNew, ReplaceBroken, LoadIntact, LoadFails, nand, FileOK,
                FileInv, ControlInv
  <2> QED  BY <1>2, <2>1
<1>4. CASE InitFlush
  <2>1. PICK f \in File : nandq' = Append(nandq, f) /\ fdata' = [fdata EXCEPT ![f] = mData.val]
    BY <1>4 DEF InitFlush, Post
  <2>2. nandq = <<>> /\ mData' = mData /\ Loaded
    BY <1>4 DEF InitFlush, Loaded, FileOK, FileInv, ControlInv
  <2>3. DOMAIN nandq' = {1} /\ nandq'[1] = f
    BY <2>1, <2>2
  <2>4. fdata'[f] = mData'.val /\ Secured' \subseteq mData'.val
    BY <1>0, <1>4, <2>1, <2>2, SecuredNext DEF Task3Step, DataInv, MemoryInv
  <2> QED  BY <2>3, <2>4 DEF OrderInv
<1>5. CASE KeySave \/ MoveChannel \/ PrepareForBoot
  <2>1. PICK f \in File : Saves(f)
    BY <1>5, SaveEffect
  <2>2. /\ init = "done" /\ titleFile = NULL /\ nandq' = Append(nandq, f)
        /\ fstate[f] = "free" /\ fdata' = [fdata EXCEPT ![f] = mData'.val]
    BY <2>1 DEF Saves, Post, UserActs
  <2>3. PAGE \notin mData.val /\ Secured \subseteq mData.val
    BY <1>0, <2>2 DEF DataInv, PageInv, MemoryInv, Loaded
  <2>4. mData.val \subseteq mData'.val /\ Secured' \subseteq Secured
    BY <1>5, <2>3, SaveMemory, SecuredNext DEF UserStep, FileOK
  <2>5. /\ Len(nandq) \in Nat /\ DOMAIN nandq = 1..Len(nandq)
        /\ DOMAIN nandq' = 1..(Len(nandq) + 1)
        /\ \A i \in DOMAIN nandq : nandq'[i] = nandq[i]
        /\ nandq'[Len(nandq) + 1] = f
    BY <1>0, <2>2, QueueIndices
  <2>6. fdata'[f] = mData'.val
    BY <1>0, <2>2
  <2>7. \A i \in DOMAIN nandq : nandq[i] \in File => /\ fdata'[nandq[i]] = fdata[nandq[i]]
                                                    /\ fdata[nandq[i]] \subseteq mData.val
                                                    /\ Secured \subseteq fdata[nandq[i]]
    BY <1>0, <2>2 DEF OrderInv
  <2>8. ASSUME NEW i \in DOMAIN nandq', nandq'[i] \in File
        PROVE  Secured' \subseteq fdata'[nandq'[i]] /\ fdata'[nandq'[i]] \subseteq mData'.val
    BY <2>3, <2>4, <2>5, <2>6, <2>7, <2>8
  <2>9. ASSUME NEW i \in DOMAIN nandq', NEW k \in DOMAIN nandq', nandq'[i] \in File,
               nandq'[k] \in File, i < k
        PROVE  fdata'[nandq'[i]] \subseteq fdata'[nandq'[k]]
    <3>1. i \in DOMAIN nandq /\ nandq'[i] = nandq[i]
      BY <2>5, <2>9
    <3>2. CASE k \in DOMAIN nandq
      BY <1>0, <2>5, <2>7, <2>9, <3>1, <3>2 DEF OrderInv
    <3>3. CASE k = Len(nandq) + 1
      BY <2>5, <2>6, <2>8, <2>9, <3>3
    <3> QED  BY <2>5, <2>9, <3>2, <3>3
  <2> QED  BY <2>8, <2>9 DEF OrderInv
<1>6. CASE OpenEdit
  <2>1. /\ nandq' = Append(nandq, EDIT) /\ mData' = mData /\ fdata' = fdata
        /\ Secured' \subseteq Secured
    BY <1>6, SecuredNext DEF OpenEdit, UserStep, file
  <2>2. /\ Len(nandq) \in Nat /\ DOMAIN nandq = 1..Len(nandq)
        /\ DOMAIN nandq' = 1..(Len(nandq) + 1)
        /\ \A i \in DOMAIN nandq : nandq'[i] = nandq[i]
        /\ nandq'[Len(nandq) + 1] = EDIT
    BY <1>0, <2>1, QueueIndices
  <2>3. \A i \in DOMAIN nandq' : nandq'[i] \in File => i \in DOMAIN nandq /\ nandq'[i] = nandq[i]
    BY <1>0, <2>2
  <2> QED  BY <1>0, <2>1, <2>3 DEF OrderInv
<1>7. CASE NandStep
  <2>1. mData' = mData /\ fdata' = fdata /\ nandq # <<>> /\ nandq' \in {nandq, Tail(nandq)}
    BY <1>7, NandEffect DEF FileOK
  <2>2. \/ Secured' \subseteq Secured
        \/ /\ Secured' \subseteq fdata[current] /\ current = nandq[1] /\ current \in File
           /\ 1 \in DOMAIN nandq
    BY <1>7, SecuredNext, CloseKeeps, Current DEF SafeClose, Writing
  <2>3. CASE nandq' = nandq
    <3>1. Secured' \subseteq Secured
      <4>1. CASE SafeClose
        <5>1. ~Done
          <6>1. Len(Tail(nandq)) = Len(nandq) - 1 /\ Len(nandq) \in Nat
            BY <1>0, <2>1, QueueIndices
          <6> QED  BY <2>3, <6>1 DEF Done
        <5>2. Dies /\ UNCHANGED <<acked, fdata, failed>>
          BY <1>7, <4>1, <5>1 DEF NandStep, SafeClose
        <5>3. \A g \in File : fstate'[g] = "done" => fstate[g] = "done"
          BY <5>2 DEF Dies, FileOK, TypeInv, TypeOK
        <5> QED  BY <5>2, <5>3 DEF Secured
      <4> QED  BY <1>7, <4>1, SecuredNext
    <3> QED  BY <1>1, <2>1, <2>3, <3>1
  <2>4. CASE nandq' = Tail(nandq)
    <3>1. /\ Len(nandq) \in Nat /\ DOMAIN nandq = 1..Len(nandq)
          /\ DOMAIN nandq' = 1..(Len(nandq) - 1)
          /\ \A i \in DOMAIN nandq' : nandq'[i] = nandq[i + 1] /\ i + 1 \in DOMAIN nandq
      BY <1>0, <2>1, <2>4, QueueIndices
    <3>2. ASSUME NEW i \in DOMAIN nandq', nandq'[i] \in File
          PROVE  Secured' \subseteq fdata[nandq[i + 1]]
      <4>1. /\ i + 1 \in DOMAIN nandq /\ nandq[i + 1] \in File /\ 1 < i + 1
        BY <3>1, <3>2
      <4>2. Secured \subseteq fdata[nandq[i + 1]]
        BY <1>0, <4>1 DEF OrderInv
      <4>3. ASSUME 1 \in DOMAIN nandq, nandq[1] \in File
            PROVE  fdata[nandq[1]] \subseteq fdata[nandq[i + 1]]
        BY <1>0, <4>1, <4>3 DEF OrderInv
      <4> QED  BY <2>2, <4>2, <4>3
    <3>3. ASSUME NEW i \in DOMAIN nandq', nandq'[i] \in File,
                 NEW k \in DOMAIN nandq', i < k, nandq'[k] \in File
          PROVE  fdata[nandq'[i]] \subseteq fdata[nandq'[k]]
      <4>1. /\ i + 1 \in DOMAIN nandq /\ k + 1 \in DOMAIN nandq
            /\ nandq'[i] = nandq[i + 1] /\ nandq'[k] = nandq[k + 1]
        BY <3>1
      <4>2. i + 1 < k + 1
        BY <3>1, <3>3
      <4> QED  BY <1>0, <3>3, <4>1, <4>2 DEF OrderInv
    <3>4. ASSUME NEW i \in DOMAIN nandq', nandq'[i] \in File
          PROVE  Secured' \subseteq fdata'[nandq'[i]] /\ fdata'[nandq'[i]] \subseteq mData'.val
      <4>1. i + 1 \in DOMAIN nandq /\ nandq'[i] = nandq[i + 1]
        BY <3>1
      <4>2. Secured' \subseteq fdata[nandq[i + 1]]
        BY <3>2, <3>4
      <4>3. fdata[nandq[i + 1]] \subseteq mData.val
        BY <1>0, <3>4, <4>1 DEF OrderInv
      <4> QED  BY <2>1, <4>1, <4>2, <4>3
    <3> QED
      BY <2>1, <3>3, <3>4 DEF OrderInv
  <2> QED  BY <2>1, <2>3, <2>4
<1>8. ASSUME NEW f \in File, Polls(f) \/ PollsFatal(f), KeyPoll \/ MovePoll
      PROVE  OrderInv'
  <2>1. /\ nandq' = nandq /\ Secured' \subseteq Secured
        /\ mData' = mData
    BY <1>8, SecuredNext DEF Polls, PollsFatal, MainStep, KeyPoll, MovePoll
  <2>2. \A g \in File : fstate[g] \in {"queued", "fatal"} => fdata'[g] = fdata[g]
    BY <1>0, <1>8 DEF Polls, PollsFatal, Deleted, file
  <2> QED  BY <1>1, <2>1, <2>2
<1>9. CASE InitNoFlush \/ InitFails \/ EnterLaunch \/ ShowError \/ OtherError \/ RequestReset
             \/ AcceptReset \/ Boot \/ CloseEdit \/ UNCHANGED vars
  <2>1. UNCHANGED <<nandq, mData, fdata>>
    BY <1>9 DEF InitNoFlush, InitFails, EnterLaunch, ShowError, OtherError, RequestReset,
                AcceptReset, Boot, CloseEdit, vars, nand, file
  <2>2. Secured' \subseteq Secured
    BY <1>9, SecuredNext DEF Task3Step, UserStep, MainStep
  <2> QED  BY <1>1, <2>1, <2>2
<1>10. CASE Off
  BY <1>2, <1>10 DEF Off
<1> QED
  BY <1>3, <1>4, <1>5, <1>6, <1>7, <1>8, <1>9, <1>10, PollEffect
     DEF Next, Task3Step, UserStep, MainStep, Launch, Restart, PowerCut, FileOK
\* Nobody touches the copy, or the file, while File::write is at work.
LEMMA CopyNext ==
    FileOK /\ DataInv /\ [Next]_vars => CopyInv'
<1> SUFFICES ASSUME FileOK, DataInv, [Next]_vars, ~hurt'
             PROVE  CopyInv'
  BY DEF CopyInv
<1>0. /\ ~hurt /\ CopyInv /\ (npc # "idle" => nandq # <<>>)
      /\ nandq \in Seq(File \union {EDIT})
      /\ npc \in Writing => current \in File /\ nandq # <<>>
                            /\ fstate[current] \in {"queued", "fatal"}
      /\ fdata \in [File -> SUBSET Change] /\ failed \in [File -> BOOLEAN]
  <2>1. nandq # <<>> => 1 \in DOMAIN nandq /\ current = nandq[1]
    BY QueueIndices DEF FileOK, TypeInv, TypeOK, current
  <2> QED
    BY <2>1, HurtStays DEF DataInv, FileOK, FileInv, QueueInv, TypeInv, TypeOK, Writing, current
<1>1. CASE Load
  <2>1. nandq = <<>> /\ npc' = npc
    BY <1>1 DEF Load, SkipLoad, CreateNew, ReplaceBroken, LoadIntact, LoadFails, nand, FileOK,
                FileInv, ControlInv
  <2>2. npc \notin Writing
    BY <1>0, <2>1
  <2> QED  BY <2>1, <2>2 DEF CopyInv, Writing
<1>2. ASSUME /\ UNCHANGED <<disk, tmp, npc>>
             /\ npc \in Writing => /\ Head(nandq') = Head(nandq)
                                   /\ fdata'[current] = fdata[current]
                                   /\ failed'[current] <=> failed[current]
      PROVE  CopyInv'
  <2>1. npc \in Writing => current' = current
    BY <1>2 DEF current
  <2> QED  BY <1>0, <1>2, <2>1 DEF CopyInv, Writing
<1>3. CASE InitFlush
  <2>1. nandq = <<>> /\ UNCHANGED <<disk, tmp, npc>>
    BY <1>3 DEF InitFlush, store, FileOK, FileInv, ControlInv
  <2> QED  BY <1>0, <1>2, <2>1
<1>4. ASSUME NEW f \in File, Saves(f)
      PROVE  CopyInv'
  <2>1. /\ UNCHANGED <<disk, tmp, npc>> /\ fstate[f] = "free" /\ nandq' = Append(nandq, f)
        /\ fdata' = [fdata EXCEPT ![f] = mData'.val] /\ failed' = [failed EXCEPT ![f] = FALSE]
    BY <1>4 DEF Saves, Post, store
  <2>2. nandq # <<>> => Head(nandq') = Head(nandq)
    BY <1>0, <2>1, QueueTypes
  <2>3. npc \in Writing => /\ fdata'[current] = fdata[current]
                           /\ failed'[current] <=> failed[current]
    BY <1>0, <2>1
  <2> QED  BY <1>0, <1>2, <2>1, <2>2, <2>3
<1>5. ASSUME NEW f \in File, Polls(f) \/ PollsFatal(f)
      PROVE  CopyInv'
  <2>1. UNCHANGED <<disk, tmp, npc, nandq>>
    BY <1>5 DEF Polls, PollsFatal, store
  <2>2. npc \in Writing => /\ fdata'[current] = fdata[current]
                           /\ failed'[current] <=> failed[current]
    BY <1>0, <1>5 DEF Polls, PollsFatal, Deleted, file
  <2> QED  BY <1>2, <2>1, <2>2
<1>6. CASE OpenEdit
  <2>1. UNCHANGED <<disk, tmp, npc, fdata, failed>> /\ nandq' = Append(nandq, EDIT)
    BY <1>6 DEF OpenEdit, store, file
  <2>2. nandq # <<>> => Head(nandq') = Head(nandq)
    BY <1>0, <2>1, QueueTypes
  <2> QED  BY <1>0, <1>2, <2>1, <2>2
<1>7. CASE InitNoFlush \/ InitFails \/ EnterLaunch \/ ShowError \/ OtherError \/ RequestReset
             \/ AcceptReset \/ Boot \/ CloseEdit \/ UNCHANGED vars
  <2>1. UNCHANGED <<disk, tmp, npc, nandq, fdata, failed>>
    BY <1>7 DEF InitNoFlush, InitFails, EnterLaunch, ShowError, OtherError, RequestReset,
                AcceptReset, Boot, CloseEdit, vars, store, nand, file
  <2> QED  BY <1>2, <2>1
<1>8. CASE Off
  BY <1>8 DEF Off, CopyInv
<1>9. CASE NandStep
  <2>0. fdata' = fdata
    BY <1>9, NandEffect DEF FileOK
  <2>1. \A to : Goes(to) => npc' = to /\ current' = current
    BY DEF Goes, current
  <2>2. Dies => npc' = "dead"
    BY DEF Dies
  <2>3. Done => npc' = "idle"
    BY DEF Done
  <2>4. CASE npc' \notin Writing
    BY <2>4 DEF CopyInv, Writing
  <2>5. CASE ServeEdit \/ SafeClose
    <3>1. npc' \in {"idle", "dead"}
      BY <2>2, <2>3, <2>5 DEF ServeEdit, SafeClose
    <3> QED  BY <2>4, <3>1 DEF Writing
  <2>6. CASE StartWrite
    BY <2>1, <2>6 DEF StartWrite, CopyInv
  <2>7. CASE GetType
    <3>1. CASE disk.kind = "absent" /\ Goes("create") /\ UNCHANGED store
      BY <2>1, <3>1 DEF CopyInv, store
    <3>2. CASE Goes("open") \/ Dies
      BY <2>1, <2>2, <3>2 DEF CopyInv
    <3> QED  BY <2>7, <3>1, <3>2 DEF GetType
  <2>8. CASE Create
    <3>1. npc' \in {"open", "idle", "dead"}
      BY <2>1, <2>2, <2>3, <2>8 DEF Create
    <3> QED  BY <3>1 DEF CopyInv
  <2>9. CASE SafeOpen
    BY <2>1, <2>2, <2>9 DEF SafeOpen, CopyInv
  <2>10. CASE Write
    <3>1. tmp = disk /\ UNCHANGED disk /\ current \in File
      BY <1>0, <2>10 DEF Write, CopyInv, Writing
    <3>2. CASE tmp' = Whole(fdata[current]) /\ Goes("close") /\ UNCHANGED failed
      BY <2>0, <2>1, <3>2 DEF CopyInv
    <3>3. CASE tmp' \in {tmp, Plain("torn")} /\ FailsSoftly /\ Goes("close")
      <4>1. failed'[current]
        BY <1>0, <3>1, <3>3 DEF FailsSoftly
      <4>2. tmp'.kind = "torn" \/ tmp' = disk'
        BY <3>1, <3>3 DEF Plain
      <4> QED  BY <2>1, <3>3, <4>1, <4>2 DEF CopyInv
    <3>4. CASE Dies
      BY <2>2, <3>4 DEF CopyInv
    <3> QED  BY <2>10, <3>2, <3>3, <3>4 DEF Write
  <2> QED
    BY <1>9, <2>5, <2>6, <2>7, <2>8, <2>9, <2>10 DEF NandStep
<1> QED
  BY <1>1, <1>3, <1>4, <1>5, <1>6, <1>7, <1>8, <1>9, SaveEffect, PollEffect
     DEF Next, Task3Step, UserStep, MainStep, Launch, Restart, PowerCut, FileOK

LEMMA DataAlways == Spec => [](FileOK /\ DataInv)
<1>1. Init => FileOK /\ DataInv
  BY TypeInit, FileInit, DataInit DEF FileOK
<1>2. FileOK /\ DataInv /\ [Next]_vars => (FileOK /\ DataInv)'
  BY FileNext, PageNext, DiskNext, MemoryNext, OrderNext, CopyNext DEF DataInv
<1> QED
  BY <1>1, <1>2, PTL DEF Spec

\* What a scene has seen saved stays in the file, whenever the console is
\* switched off and on again and whatever fails, but for the one case in which
\* File::write itself renames an incomplete copy.
THEOREM SavedStaysInFile == Spec => []Durable
<1>1. FileOK /\ DataInv => Durable
  BY DEF DataInv, DiskInv, Secured, Durable
<1> QED
  BY <1>1, DataAlways, PTL

\* A load does not take back what the scenes have saved, the second one of
\* refreshAsync included.
THEOREM SavedStaysInMemory == Spec => []MemoryKeepsSaved
<1>1. FileOK /\ DataInv => MemoryKeepsSaved
  BY DEF DataInv, MemoryInv, Secured, Loaded, MemoryKeepsSaved
<1> QED
  BY <1>1, DataAlways, PTL
=============================================================================
