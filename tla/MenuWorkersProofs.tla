------------------------- MODULE MenuWorkersProofs -------------------------
(***************************************************************************)
(* Proofs about Task1 in MenuScenes, for every choice of initial scenes    *)
(* and any number of jobs: which scene waits for which job, where the sync *)
(* job is in the queue while everything is to be destroyed, and that the   *)
(* search of the Calendar marks the month it shows.  The invariant is      *)
(* WorkersInv of MenuMap; the map itself (MenuInv) holds by                *)
(* MenuScenesProofs.                                                       *)
(***************************************************************************)
EXTENDS MenuScenesProofs

-----------------------------------------------------------------------------
(* What Task1 has; requests that stay pending.                             *)

\* The types of what Task1 has and of what the scenes wait with.
LEMMA WorkTypes ==
    ASSUME MenuInv
    PROVE  /\ task1q \in Seq(Job) /\ job \in Job /\ task \in TaskType
           /\ look \in Live \union {NONE} /\ calendar \in CalendarType
           /\ mbDestroySyncTask \in BOOLEAN /\ board \in BoardType
           /\ Len(task1q) \in Nat /\ DOMAIN task1q = 1 .. Len(task1q)
           /\ \A i \in DOMAIN task1q : task1q[i] \in Job
<1>1. task1q \in Seq(Job)
  BY DEF MenuInv, WorkInv
<1>2. Len(task1q) \in Nat /\ DOMAIN task1q = 1 .. Len(task1q)
  BY <1>1, LenProperties
<1>3. \A i \in DOMAIN task1q : task1q[i] \in Job
  BY <1>1, <1>2, ElementOfSeq
<1> QED
  BY <1>1, <1>2, <1>3 DEF MenuInv, WorkInv, BoardInv, TaskType, CalendarType, BoardType

\* The job that is posted now.
LEMMA JobIs ==
    ASSUME NEW kind
    PROVE  /\ JobOf(kind).kind = kind
           /\ JobOf(kind).late <=> RequestPending
           /\ ~JobOf(kind).over =>
                 job.kind # kind /\ \A i \in DOMAIN task1q : task1q[i].kind # kind
<1>1. Range(task1q) = {task1q[i] : i \in DOMAIN task1q}
  BY DEF Range
<1> QED
  BY <1>1 DEF JobOf

\* The first n elements.
LEMMA FirstOnes ==
    ASSUME NEW S, NEW s \in Seq(S), NEW n \in Nat, n <= Len(s)
    PROVE  /\ DOMAIN SubSeq(s, 1, n) = 1 .. n
           /\ \A i \in 1 .. n : SubSeq(s, 1, n)[i] = s[i]
<1>1. /\ Len(s) \in Nat
      /\ \A i \in 1 .. n : i \in 1 .. Len(s)
  BY LenProperties
<1>2. /\ SubSeq(s, 1, n) \in Seq(S)
      /\ Len(SubSeq(s, 1, n)) = IF 1 <= n THEN n - 1 + 1 ELSE 0
      /\ \A i \in 1 .. n - 1 + 1 : SubSeq(s, 1, n)[i] = s[1 + i - 1]
  BY <1>1, SubSeqProperties
<1>3. Len(SubSeq(s, 1, n)) = n
  BY <1>2
<1>4. \A i \in 1 .. n : SubSeq(s, 1, n)[i] = s[i]
  BY <1>2
<1> QED
  BY <1>2, <1>3, <1>4, LenProperties

\* The commands that are pushed leave those in the queue.
LEMMA PushedKeeps ==
    ASSUME MenuInv, NEW cs, cs \in Seq(Range(cs))
    PROVE  \A i \in DOMAIN mCommands : /\ i \in DOMAIN Pushed(mCommands, cs)
                                       /\ Pushed(mCommands, cs)[i] = mCommands[i]
<1>1. mCommands \in Seq(Command) /\ Len(mCommands) < MAX_COMMANDS
  BY CommandsAre, CommandTypes DEF MenuInv
<1> DEFINE S == Command \union Range(cs)
<1>2. mCommands \in Seq(S) /\ cs \in Seq(S)
  BY <1>1, SeqMonotonic
<1>3. /\ Len(mCommands) \in Nat /\ Len(cs) \in Nat /\ DOMAIN mCommands = 1 .. Len(mCommands)
      /\ mCommands \o cs \in Seq(S)
      /\ Len(mCommands \o cs) = Len(mCommands) + Len(cs)
      /\ \A i \in 1 .. Len(mCommands) : (mCommands \o cs)[i] = mCommands[i]
  BY <1>2, ConcatProperties, LenProperties
<1> HIDE DEF S
<1>4. CASE Len(mCommands \o cs) <= MAX_COMMANDS
  <2>1. Pushed(mCommands, cs) = mCommands \o cs
    BY <1>4 DEF Pushed
  <2>2. DOMAIN (mCommands \o cs) = 1 .. Len(mCommands \o cs)
    BY <1>3, LenProperties
  <2> QED
    BY <1>3, <2>1, <2>2
<1>5. CASE ~(Len(mCommands \o cs) <= MAX_COMMANDS)
  <2>1. Pushed(mCommands, cs) = SubSeq(mCommands \o cs, 1, MAX_COMMANDS)
    BY <1>5 DEF Pushed
  <2>2. MAX_COMMANDS \in Nat /\ MAX_COMMANDS <= Len(mCommands \o cs)
    BY <1>3, <1>5 DEF MAX_COMMANDS
  <2>3. /\ DOMAIN Pushed(mCommands, cs) = 1 .. MAX_COMMANDS
        /\ \A i \in 1 .. MAX_COMMANDS : Pushed(mCommands, cs)[i] = (mCommands \o cs)[i]
    BY <1>3, <2>1, <2>2, FirstOnes
  <2>4. \A i \in DOMAIN mCommands : i \in 1 .. MAX_COMMANDS
    BY <1>1, <1>3, <2>2
  <2> QED
    BY <1>3, <2>3, <2>4
<1> QED
  BY <1>4, <1>5

\* A request to destroy everything stays pending over the step.
PendingStays == RequestPending => RequestPending'

\* A request stays pending while the scenes and their commands do, and the queue only
\* grows.
LEMMA PendingKept ==
    ASSUME MenuInv, UNCHANGED command, Live \subseteq Live',
           \/ UNCHANGED mCommands
           \/ \E cs : cs \in Seq(Range(cs)) /\ mCommands' = Pushed(mCommands, cs)
    PROVE  PendingStays
<1>1. \A i \in DOMAIN mCommands : i \in DOMAIN mCommands' /\ mCommands'[i] = mCommands[i]
  BY PushedKeeps
<1>2. Range(mCommands) \subseteq Range(mCommands')
  BY <1>1 DEF Range
<1> QED
  BY <1>2 DEF PendingStays, RequestPending

-----------------------------------------------------------------------------
(* The posting of jobs, by the Board.                                      *)

\* The kinds of job that the Board posts, and those that use a scene.
BoardJobs == {"count", "read"}
JobKinds == {"count", "read", "search"}

\* The same after the step.
AwaitedNext(kind) == \/ kind = "count" /\ board'.count
                     \/ kind = "read" /\ board'.read
                     \/ kind = "search" /\ calendar'.searching

\* The scenes that wait for a job are there, and go on waiting.
ScenesWait ==
    \A kind \in JobKinds :
        /\ Awaited(kind) => AwaitedNext(kind)
        /\ AwaitedNext(kind) => SceneOf(kind) \in Live' \ destroyReq'

\* The Board posts jobs, behind those there are, or none.
Posts ==
    /\ task1q' \in Seq(Job)
    /\ \A i \in DOMAIN task1q : i \in DOMAIN task1q' /\ task1q'[i] = task1q[i]
    /\ \A i \in DOMAIN task1q' \ DOMAIN task1q :
          /\ \A h \in DOMAIN task1q : h < i
          /\ task1q'[i].kind \in BoardJobs
          /\ task1q'[i].kind = "count" => board'.count
          /\ task1q'[i].kind = "read" => board'.read
          /\ task1q'[i].late <=> RequestPending
          /\ ~task1q'[i].over => /\ job.kind # task1q'[i].kind
                                 /\ \A h \in DOMAIN task1q : task1q[h].kind # task1q'[i].kind
          /\ \A h \in DOMAIN task1q' \ DOMAIN task1q :
                h # i => task1q'[h].kind # task1q'[i].kind

\* KeptInv after the step, in terms of the kinds awaited then.
LEMMA NextKept ==
    ASSUME \A i \in DOMAIN task1q' : Kept(task1q'[i]) =>
               /\ AwaitedNext(task1q'[i].kind)
               /\ job'.kind = task1q'[i].kind => task'.told
               /\ \A h \in DOMAIN task1q' : h < i => task1q'[h].kind # task1q'[i].kind,
           Kept(job') /\ ~task'.told =>
               /\ AwaitedNext(job'.kind)
               /\ task'.scene # "freed"
               /\ look' \in {NONE, "ROOT", "BOARD", SceneOf(job'.kind)},
           \A kind \in JobKinds :
               AwaitedNext(kind) => SceneOf(kind) \in Live' \ destroyReq'
    PROVE  KeptInv'
BY DEF KeptInv, Kept, Awaited, AwaitedNext, SceneOf, JobKinds

\* The jobs that were there are kept as they were, and those that come last are
\* the only ones of their kinds or count as posted over others.
LEMMA PostedKept ==
    ASSUME MenuInv, KeptInv, Posts, UNCHANGED <<job, task, look>>, ScenesWait
    PROVE  KeptInv'
<1>1. /\ DOMAIN task1q = 1 .. Len(task1q) /\ Len(task1q) \in Nat
      /\ DOMAIN task1q' = 1 .. Len(task1q') /\ Len(task1q') \in Nat
  BY WorkTypes, LenProperties DEF Posts
<1>2. ASSUME NEW i \in DOMAIN task1q', Kept(task1q'[i])
      PROVE  /\ AwaitedNext(task1q'[i].kind)
             /\ job'.kind = task1q'[i].kind => task'.told
             /\ \A h \in DOMAIN task1q' : h < i => task1q'[h].kind # task1q'[i].kind
  <2>1. CASE i \in DOMAIN task1q
    <3>1. task1q'[i] = task1q[i] /\ \A h \in DOMAIN task1q' :
              h < i => h \in DOMAIN task1q /\ task1q'[h] = task1q[h]
      BY <1>1, <2>1 DEF Posts
    <3>2. /\ Awaited(task1q[i].kind)
          /\ job.kind = task1q[i].kind => task.told
          /\ \A h \in DOMAIN task1q : h < i => task1q[h].kind # task1q[i].kind
      BY <1>2, <2>1, <3>1 DEF KeptInv
    <3>3. task1q[i].kind \in JobKinds
      BY <1>2, <3>1 DEF Kept, JobKinds
    <3> QED
      BY <3>1, <3>2, <3>3 DEF ScenesWait
  <2>2. CASE i \notin DOMAIN task1q
    <3>1. /\ task1q'[i].kind \in BoardJobs
          /\ task1q'[i].kind = "count" => board'.count
          /\ task1q'[i].kind = "read" => board'.read
          /\ ~task1q'[i].over
      BY <1>2, <2>2 DEF Posts, Kept, BoardJobs
    <3>2. /\ job.kind # task1q'[i].kind
          /\ \A h \in DOMAIN task1q : task1q[h].kind # task1q'[i].kind
          /\ \A h \in DOMAIN task1q' \ DOMAIN task1q :
                h # i => task1q'[h].kind # task1q'[i].kind
      BY <1>2, <2>2, <3>1 DEF Posts
    <3>3. \A h \in DOMAIN task1q' : h < i => task1q'[h].kind # task1q'[i].kind
      <4> TAKE h \in DOMAIN task1q'
      <4>1. CASE h \in DOMAIN task1q
        BY <3>2, <4>1 DEF Posts
      <4>2. CASE h \notin DOMAIN task1q
        BY <1>1, <3>2, <4>2
      <4> QED
        BY <4>1, <4>2
    <3>4. AwaitedNext(task1q'[i].kind)
      BY <3>1 DEF AwaitedNext, BoardJobs
    <3> QED
      BY <3>2, <3>3, <3>4
  <2> QED
    BY <2>1, <2>2
<1>3. ASSUME Kept(job'), ~task'.told
      PROVE  /\ AwaitedNext(job'.kind)
             /\ task'.scene # "freed"
             /\ look' \in {NONE, "ROOT", "BOARD", SceneOf(job'.kind)}
  <2>1. job.kind \in JobKinds
    BY <1>3 DEF Kept, JobKinds
  <2> QED
    BY <1>3, <2>1 DEF KeptInv, ScenesWait
<1>4. \A kind \in JobKinds :
          AwaitedNext(kind) => SceneOf(kind) \in Live' \ destroyReq'
  BY DEF ScenesWait
<1> QED
  BY <1>2, <1>3, <1>4, NextKept

\* The jobs behind a sync job are late, since its request is pending when they
\* are posted.
LEMMA PostedSync ==
    ASSUME MenuInv, SyncInv, Posts, PendingStays,
           UNCHANGED <<job, mbDestroySyncTask>>
    PROVE  SyncInv'
<1>1. /\ DOMAIN task1q = 1 .. Len(task1q) /\ Len(task1q) \in Nat
      /\ DOMAIN task1q' = 1 .. Len(task1q') /\ Len(task1q') \in Nat
  BY WorkTypes, LenProperties DEF Posts
<1>2. ASSUME NEW i \in DOMAIN task1q' \ DOMAIN task1q
      PROVE  task1q'[i].kind # "sync" /\ (RequestPending => task1q'[i].late)
  BY DEF Posts, BoardJobs
<1>3. ASSUME NEW i \in DOMAIN task1q', task1q'[i].kind = "sync"
      PROVE  /\ RequestPending /\ ~mbDestroySyncTask
             /\ \A j \in DOMAIN task1q' : i < j => task1q'[j].late /\ task1q'[j].kind # "sync"
  <2>1. i \in DOMAIN task1q /\ task1q[i].kind = "sync"
    BY <1>2, <1>3 DEF Posts
  <2>2. /\ RequestPending /\ ~mbDestroySyncTask
        /\ \A j \in DOMAIN task1q : i < j => task1q[j].late /\ task1q[j].kind # "sync"
    BY <2>1 DEF SyncInv
  <2>3. ASSUME NEW j \in DOMAIN task1q', i < j
        PROVE  task1q'[j].late /\ task1q'[j].kind # "sync"
    <3>1. CASE j \in DOMAIN task1q
      BY <2>2, <2>3, <3>1 DEF Posts
    <3>2. CASE j \notin DOMAIN task1q
      BY <1>2, <2>2, <3>2
    <3> QED
      BY <3>1, <3>2
  <2> QED
    BY <2>2, <2>3
<1>4. ASSUME mbDestroySyncTask \/ job.kind = "sync", NEW i \in DOMAIN task1q'
      PROVE  task1q'[i].late /\ task1q'[i].kind # "sync"
  <2>1. CASE i \in DOMAIN task1q
    BY <1>4, <2>1 DEF SyncInv, Posts
  <2>2. CASE i \notin DOMAIN task1q
    BY <1>2, <1>4, <2>2 DEF SyncInv
  <2> QED
    BY <2>1, <2>2
<1> QED
  BY <1>3, <1>4 DEF SyncInv, PendingStays

\* The job that Task1 has is not touched by what is posted.
LEMMA PostedTask ==
    ASSUME MenuInv, TaskInv, Posts, UNCHANGED <<job, task, look>> PROVE TaskInv'
<1>1. \A i \in DOMAIN task1q' : task1q'[i].kind # NONE
  <2> TAKE i \in DOMAIN task1q'
  <2>1. CASE i \in DOMAIN task1q
    BY <2>1 DEF Posts, TaskInv
  <2>2. CASE i \notin DOMAIN task1q
    BY <2>2 DEF Posts, BoardJobs, NONE
  <2> QED
    BY <2>1, <2>2
<1> QED
  BY <1>1 DEF TaskInv

\* None, one or two of different kinds.
LEMMA PostsNone ==
    ASSUME MenuInv, UNCHANGED task1q PROVE Posts
BY WorkTypes DEF Posts

\* One job of the Board.
LEMMA PostsOne ==
    ASSUME MenuInv, NEW kind \in BoardJobs, task1q' = Append(task1q, JobOf(kind)),
           kind = "count" => board'.count, kind = "read" => board'.read
    PROVE  Posts
<1>1. JobOf(kind) \in Job
  BY JobTypes DEF BoardJobs
<1>2. /\ task1q' \in Seq(Job) /\ Len(task1q') = Len(task1q) + 1
      /\ \A i \in 1 .. Len(task1q) : task1q'[i] = task1q[i]
      /\ task1q'[Len(task1q) + 1] = JobOf(kind)
  BY <1>1, WorkTypes, AppendProperties
<1>3. DOMAIN task1q' = 1 .. Len(task1q) + 1 /\ DOMAIN task1q = 1 .. Len(task1q)
      /\ Len(task1q) \in Nat
  BY <1>2, WorkTypes, LenProperties
<1>4. DOMAIN task1q' \ DOMAIN task1q = {Len(task1q) + 1}
  BY <1>3
<1> DEFINE n == Len(task1q)
           j == JobOf(kind)
<1>5. j.kind = kind /\ (j.late <=> RequestPending)
  BY JobIs
<1>6. ~j.over => job.kind # kind /\ \A h \in DOMAIN task1q : task1q[h].kind # kind
  BY JobIs
<1> HIDE DEF n, j
<1>7. task1q'[n + 1] = j /\ \A i \in DOMAIN task1q' \ DOMAIN task1q : i = n + 1
  BY <1>2, <1>4 DEF n, j
<1>8. \A i \in DOMAIN task1q : i \in DOMAIN task1q' /\ task1q'[i] = task1q[i] /\ i < n + 1
  BY <1>2, <1>3 DEF n
<1> QED
  BY <1>2, <1>5, <1>6, <1>7, <1>8 DEF Posts

\* A count job and a read job.
LEMMA PostsTwo ==
    ASSUME MenuInv, NEW k1 \in BoardJobs, NEW k2 \in BoardJobs, k1 # k2,
           task1q' = task1q \o <<JobOf(k1), JobOf(k2)>>, board'.count, board'.read
    PROVE  Posts
<1> DEFINE js == <<JobOf(k1), JobOf(k2)>>
           n == Len(task1q)
<1>1. JobOf(k1) \in Job /\ JobOf(k2) \in Job
  BY JobTypes DEF BoardJobs
<1>2. js \in Seq(Job) /\ Len(js) = 2 /\ js[1] = JobOf(k1) /\ js[2] = JobOf(k2)
  <2> DEFINE a == JobOf(k1)
             b == JobOf(k2)
  <2>1. a \in Job /\ b \in Job
    BY <1>1
  <2> HIDE DEF a, b
  <2>2. <<a, b>> \in Seq(Job) /\ Len(<<a, b>>) = 2 /\ <<a, b>>[1] = a /\ <<a, b>>[2] = b
    BY <2>1
  <2> QED
    BY <2>2 DEF a, b
<1> HIDE DEF js
<1>3. /\ task1q' \in Seq(Job) /\ Len(task1q') = n + 2
      /\ \A i \in 1 .. n + 2 : task1q'[i] = IF i <= n THEN task1q[i] ELSE js[i - n]
  BY <1>2, WorkTypes, ConcatProperties DEF js
<1>4. DOMAIN task1q' = 1 .. n + 2 /\ DOMAIN task1q = 1 .. n /\ n \in Nat
  BY <1>3, WorkTypes, LenProperties
<1> HIDE DEF n
<1>5. task1q'[n + 1] = JobOf(k1) /\ task1q'[n + 2] = JobOf(k2)
  <2>1. /\ n + 1 \in 1 .. n + 2 /\ ~(n + 1 <= n) /\ (n + 1) - n = 1
        /\ n + 2 \in 1 .. n + 2 /\ ~(n + 2 <= n) /\ (n + 2) - n = 2
    BY <1>4
  <2>2. task1q'[n + 1] = js[(n + 1) - n] /\ task1q'[n + 2] = js[(n + 2) - n]
    BY <1>3, <2>1
  <2> QED
    BY <1>2, <2>1, <2>2
<1>6. DOMAIN task1q' \ DOMAIN task1q = {n + 1, n + 2}
  BY <1>4
<1>7. \A i \in DOMAIN task1q : i \in DOMAIN task1q' /\ task1q'[i] = task1q[i]
  BY <1>3, <1>4
<1>8. ASSUME NEW i \in {n + 1, n + 2}
      PROVE  /\ \A h \in DOMAIN task1q : h < i
             /\ \E kind \in {k1, k2} : task1q'[i] = JobOf(kind)
             /\ \A h \in {n + 1, n + 2} : h # i => task1q'[h].kind # task1q'[i].kind
  <2>1. \A h \in DOMAIN task1q : h < i
    BY <1>4
  <2>2. \E kind \in {k1, k2} : task1q'[i] = JobOf(kind)
    BY <1>5
  <2>3. task1q'[n + 1].kind = k1 /\ task1q'[n + 2].kind = k2
    BY <1>5, JobIs
  <2> QED
    BY <2>1, <2>2, <2>3
<1>9. ASSUME NEW kind \in {k1, k2}, NEW j, j = JobOf(kind)
      PROVE  /\ j.kind \in BoardJobs /\ (j.late <=> RequestPending)
             /\ ~j.over => /\ job.kind # j.kind
                           /\ \A h \in DOMAIN task1q : task1q[h].kind # j.kind
  <2>1. j.kind = kind /\ (j.late <=> RequestPending)
    BY <1>9, JobIs
  <2>2. ~j.over => job.kind # kind /\ \A h \in DOMAIN task1q : task1q[h].kind # kind
    BY <1>9, JobIs
  <2> QED
    BY <2>1, <2>2
<1>10. ASSUME NEW i \in {n + 1, n + 2}
       PROVE  /\ task1q'[i].kind \in BoardJobs
              /\ task1q'[i].late <=> RequestPending
              /\ ~task1q'[i].over => /\ job.kind # task1q'[i].kind
                                     /\ \A h \in DOMAIN task1q : task1q[h].kind # task1q'[i].kind
  <2>1. PICK kind \in {k1, k2} : task1q'[i] = JobOf(kind)
    BY <1>8
  <2> QED
    BY <1>9, <2>1
<1>11. task1q' \in Seq(Job)
  BY <1>3
<1>12. ASSUME NEW i \in DOMAIN task1q' \ DOMAIN task1q
       PROVE  /\ \A h \in DOMAIN task1q : h < i
              /\ task1q'[i].kind \in BoardJobs
              /\ task1q'[i].late <=> RequestPending
              /\ ~task1q'[i].over => /\ job.kind # task1q'[i].kind
                                     /\ \A h \in DOMAIN task1q : task1q[h].kind # task1q'[i].kind
              /\ \A h \in DOMAIN task1q' \ DOMAIN task1q :
                    h # i => task1q'[h].kind # task1q'[i].kind
  <2>1. i \in {n + 1, n + 2}
    BY <1>6
  <2>2. \A h \in DOMAIN task1q' \ DOMAIN task1q :
            h # i => task1q'[h].kind # task1q'[i].kind
    BY <1>6, <1>8, <2>1
  <2> QED
    BY <1>8, <1>10, <2>1, <2>2
<1> QED
  BY <1>7, <1>11, <1>12 DEF Posts

-----------------------------------------------------------------------------
(* The steps of the main thread that destroy nothing.                      *)

\* A step of the main thread that destroys nothing.
LEMMA MainWork ==
    ASSUME MenuInv, WorkersInv, Posts, ScenesWait, PendingStays, SearchInv',
           UNCHANGED <<job, task, look, mbDestroySyncTask>>
    PROVE  WorkersInv'
<1>1. KeptInv'
  BY PostedKept DEF WorkersInv
<1>2. SyncInv'
  BY PostedSync DEF WorkersInv
<1>3. TaskInv'
  BY PostedTask DEF WorkersInv
<1> QED
  BY <1>1, <1>2, <1>3 DEF WorkersInv

\* The search goes on as it did.
LEMMA SearchSame ==
    ASSUME WorkersInv, UNCHANGED <<calendar, job, task>>,
           stage'["CALENDAR"] = stage["CALENDAR"],
           "CALENDAR" \in Live' <=> "CALENDAR" \in Live
    PROVE  SearchInv'
BY DEF WorkersInv, SearchInv

\* A scene that asks for less than the destruction of everything.
LEMMA CallPending ==
    ASSUME MenuInv, CalcFacts, UNCHANGED command PROVE PendingStays
<1>1. Live' = Live
  BY DEF CalcFacts, Live
<1>2. \/ UNCHANGED mCommands
      \/ \E cs : cs \in Seq(Range(cs)) /\ mCommands' = Pushed(mCommands, cs)
  BY DEF CalcFacts, Asks, PlainSeq
<1> QED
  BY <1>1, <1>2, PendingKept

\* What a call leaves to the others.
LEMMA CallOthers ==
    ASSUME MenuInv, NEW id \in SceneId, NEW s, NEW t, Goes(id, s, t)
    PROVE  /\ UNCHANGED <<job, task, look, calendar>> /\ Live' = Live
           /\ id \in Live /\ id \notin destroyReq /\ stage[id] = s
           /\ \A x \in SceneId \ {id} : stage'[x] = stage[x]
           /\ stage'[id] = t
<1>1. UNCHANGED <<job, task, look, calendar, order>> /\ stage' = [stage EXCEPT ![id] = t]
  BY DEF Goes, GoesOn, treeVars
<1>2. stage \in [SceneId -> Stage]
  BY DEF MenuInv, StageInv
<1>3. id \in Live /\ id \notin destroyReq /\ stage[id] = s /\ Live' = Live
  BY CallFacts DEF Goes
<1> QED
  BY <1>1, <1>2, <1>3

\* The scenes that give Task1 nothing to do.
LEMMA OthersWork ==
    ASSUME MenuInv, WorkersInv, CalcFacts, NEW id \in SceneId \ {"BOARD", "CALENDAR"},
           NEW s, NEW t, Goes(id, s, t),
           UNCHANGED <<board, command, mbDestroySyncTask, task1q>>,
           UNCHANGED destroyReq \/ RequestDestruction(id)
    PROVE  WorkersInv'
<1>1. /\ UNCHANGED <<job, task, look, calendar>> /\ Live' = Live
      /\ stage'["CALENDAR"] = stage["CALENDAR"]
  BY CallOthers, Names
<1>2. ScenesWait
  <2>1. \A kind \in JobKinds : AwaitedNext(kind) <=> Awaited(kind)
    BY <1>1 DEF AwaitedNext, Awaited
  <2>2. \A kind \in JobKinds : Awaited(kind) => SceneOf(kind) \in Live \ destroyReq
    BY DEF WorkersInv, KeptInv, JobKinds
  <2>3. \A kind \in JobKinds : SceneOf(kind) # id
    BY DEF SceneOf
  <2> QED
    BY <1>1, <2>1, <2>2, <2>3 DEF ScenesWait, RequestDestruction
<1>3. SearchInv'
  BY <1>1, SearchSame
<1> QED
  BY <1>1, <1>2, <1>3, PostsNone, CallPending, MainWork

\* The Board, which posts jobs and goes when none is left.
LEMMA BoardWork ==
    ASSUME MenuInv, WorkersInv, CalcFacts, NEW s, NEW t, Goes("BOARD", s, t), Posts,
           UNCHANGED <<command, mbDestroySyncTask>>,
           board.count => board'.count, board.read => board'.read,
           \/ UNCHANGED destroyReq
           \/ RequestDestruction("BOARD") /\ ~board'.count /\ ~board'.read
    PROVE  WorkersInv'
<1>1. /\ UNCHANGED <<job, task, look, calendar>> /\ Live' = Live
      /\ stage'["CALENDAR"] = stage["CALENDAR"]
      /\ "BOARD" \in Live /\ "BOARD" \notin destroyReq
  BY CallOthers, Names
<1>2. ScenesWait
  <2>1. \A kind \in JobKinds : Awaited(kind) => AwaitedNext(kind)
    BY <1>1 DEF AwaitedNext, Awaited
  <2>2. AwaitedNext("search") => "CALENDAR" \in Live' \ destroyReq'
    BY <1>1 DEF AwaitedNext, WorkersInv, KeptInv, Awaited, SceneOf, RequestDestruction
  <2>3. \A kind \in BoardJobs : AwaitedNext(kind) => "BOARD" \in Live' \ destroyReq'
    BY <1>1 DEF AwaitedNext, BoardJobs
  <2> QED
    BY <2>1, <2>2, <2>3 DEF ScenesWait, JobKinds, BoardJobs, SceneOf
<1>3. SearchInv'
  BY <1>1, SearchSame
<1> QED
  BY <1>1, <1>2, <1>3, CallPending, MainWork

-----------------------------------------------------------------------------
(* Requests to destroy everything, which post the sync job.                *)

\* Of the requests to destroy everything there is never more than one.
OneRequest == \A x \in Live : command[x] # NONE =>
                  /\ \A y \in Live : command[y] # NONE => x = y
                  /\ \A i \in DOMAIN mCommands : mCommands[i].type # "ALL"
LEMMA OneAsks == MenuInv => OneRequest
BY WhoAsks, AllIsAlone DEF OneRequest
\* The same after the step.
LEMMA OneAsksNext ==
    MenuInv' => \A x \in Live' : command'[x] # NONE =>
                   /\ \A y \in Live' : command'[y] # NONE => x = y
                   /\ \A i \in DOMAIN mCommands' : mCommands'[i].type # "ALL"
<1>1. MenuInv' => OneRequest'
  BY OneAsks, PTL
<1> QED
  BY <1>1 DEF OneRequest

\* The scene that asks for the destruction of everything is the first to do so.
LEMMA FirstRequest ==
    ASSUME MenuInv, MenuInv', NEW id \in Live, NEW root \in Roots,
           ReserveAllDestruction(id, root), command[id] = NONE, Live' = Live,
           UNCHANGED mCommands
    PROVE  ~RequestPending /\ RequestPending'
<1>1. command \in [SceneId -> Roots \union {NONE}] /\ Live \subseteq SceneId
  <2>1. MapInv /\ command \in [SceneId -> Roots \union {NONE}]
    BY DEF MenuInv, AskInv
  <2> QED
    BY <2>1, TreeFacts
<1>2. root # NONE
  BY Names
<1>3. command' = [command EXCEPT ![id] = root]
  BY DEF ReserveAllDestruction
<1>4. command'[id] # NONE /\ \A x \in Live : x # id => command'[x] = command[x]
  BY <1>1, <1>2, <1>3
<1>5. /\ \A y \in Live : command'[y] # NONE => id = y
      /\ \A i \in DOMAIN mCommands : mCommands[i].type # "ALL"
  BY <1>4, OneAsksNext
<1>6. \A x \in Live : command[x] = NONE
  BY <1>4, <1>5
<1>7. Range(mCommands) = {mCommands[i] : i \in DOMAIN mCommands}
  BY DEF Range
<1>8. ~RequestPending
  BY <1>5, <1>6, <1>7 DEF RequestPending
<1>9. RequestPending'
  BY <1>4 DEF RequestPending
<1> QED
  BY <1>8, <1>9

\* The sync job goes behind the others.
LEMMA SyncPosted ==
    ASSUME MenuInv, task1q' = Append(task1q, JobOf("sync"))
    PROVE  /\ DOMAIN task1q = 1 .. Len(task1q) /\ Len(task1q) \in Nat
           /\ DOMAIN task1q' = 1 .. Len(task1q) + 1
           /\ \A i \in DOMAIN task1q : task1q'[i] = task1q[i]
           /\ task1q'[Len(task1q) + 1].kind = "sync"
<1>1. JobOf("sync") \in Job /\ JobOf("sync").kind = "sync"
  BY JobTypes, JobIs
<1>2. task1q \in Seq(Job) /\ Len(task1q) \in Nat /\ DOMAIN task1q = 1 .. Len(task1q)
  BY WorkTypes
<1> DEFINE j == JobOf("sync")
<1> HIDE DEF j
<1>3. j \in Job /\ task1q' = Append(task1q, j) /\ j.kind = "sync"
  BY <1>1 DEF j
<1>4. /\ task1q' \in Seq(Job) /\ Len(task1q') = Len(task1q) + 1
      /\ \A i \in 1 .. Len(task1q) : task1q'[i] = task1q[i]
      /\ task1q'[Len(task1q) + 1] = j
  BY <1>2, <1>3, AppendProperties
<1>5. DOMAIN task1q' = 1 .. Len(task1q) + 1
  BY <1>4, LenProperties
<1> QED
  BY <1>2, <1>3, <1>4, <1>5

\* A request leaves the jobs that are kept as they were.
LEMMA RequestKept ==
    ASSUME MenuInv, KeptInv, task1q' = Append(task1q, JobOf("sync")), ScenesWait,
           UNCHANGED <<job, task, look>>
    PROVE  KeptInv'
<1>1. /\ DOMAIN task1q = 1 .. Len(task1q) /\ Len(task1q) \in Nat
      /\ DOMAIN task1q' = 1 .. Len(task1q) + 1
      /\ \A i \in DOMAIN task1q : task1q'[i] = task1q[i]
      /\ task1q'[Len(task1q) + 1].kind = "sync"
  BY SyncPosted
<1>2. ASSUME NEW i \in DOMAIN task1q', Kept(task1q'[i])
      PROVE  /\ AwaitedNext(task1q'[i].kind)
             /\ job'.kind = task1q'[i].kind => task'.told
             /\ \A h \in DOMAIN task1q' : h < i => task1q'[h].kind # task1q'[i].kind
  <2>1. i # Len(task1q) + 1
    BY <1>1, <1>2 DEF Kept
  <2>2. i \in DOMAIN task1q /\ \A h \in DOMAIN task1q' : h < i => h \in DOMAIN task1q
    BY <1>1, <2>1
  <2>3. task1q'[i] = task1q[i] /\ Kept(task1q[i])
    BY <1>1, <1>2, <2>2
  <2>4. /\ Awaited(task1q[i].kind)
        /\ job.kind = task1q[i].kind => task.told
        /\ \A h \in DOMAIN task1q : h < i => task1q[h].kind # task1q[i].kind
    BY <2>2, <2>3 DEF KeptInv
  <2>5. task1q[i].kind \in JobKinds
    BY <2>3 DEF Kept, JobKinds
  <2>6. \A h \in DOMAIN task1q' : h < i => task1q'[h].kind # task1q'[i].kind
    BY <1>1, <2>2, <2>3, <2>4
  <2> QED
    BY <2>3, <2>4, <2>5, <2>6 DEF ScenesWait
<1>3. ASSUME Kept(job'), ~task'.told
      PROVE  /\ AwaitedNext(job'.kind)
             /\ task'.scene # "freed"
             /\ look' \in {NONE, "ROOT", "BOARD", SceneOf(job'.kind)}
  <2>1. job.kind \in JobKinds
    BY <1>3 DEF Kept, JobKinds
  <2> QED
    BY <1>3, <2>1 DEF KeptInv, ScenesWait
<1>4. \A kind \in JobKinds :
          AwaitedNext(kind) => SceneOf(kind) \in Live' \ destroyReq'
  BY DEF ScenesWait
<1> QED
  BY <1>2, <1>3, <1>4, NextKept

\* Nothing is behind the sync job that has just been posted.
LEMMA RequestSync ==
    ASSUME MenuInv, SyncInv, task1q' = Append(task1q, JobOf("sync")), ~RequestPending,
           RequestPending', ~mbDestroySyncTask', UNCHANGED job
    PROVE  SyncInv'
<1>1. /\ DOMAIN task1q = 1 .. Len(task1q) /\ Len(task1q) \in Nat
      /\ DOMAIN task1q' = 1 .. Len(task1q) + 1
      /\ \A i \in DOMAIN task1q : task1q'[i] = task1q[i]
      /\ task1q'[Len(task1q) + 1].kind = "sync"
  BY SyncPosted
<1>2. (\A i \in DOMAIN task1q : task1q[i].kind # "sync") /\ job.kind # "sync"
  BY DEF SyncInv
<1>3. ASSUME NEW i \in DOMAIN task1q', task1q'[i].kind = "sync"
      PROVE  ~\E j \in DOMAIN task1q' : i < j
  <2>1. i = Len(task1q) + 1
    BY <1>1, <1>2, <1>3
  <2> QED
    BY <1>1, <2>1
<1> QED
  BY <1>2, <1>3 DEF SyncInv

\* A request does not touch the job that Task1 has.
LEMMA RequestTask ==
    ASSUME MenuInv, TaskInv, task1q' = Append(task1q, JobOf("sync")),
           UNCHANGED <<job, task, look>>
    PROVE  TaskInv'
<1>1. /\ DOMAIN task1q = 1 .. Len(task1q) /\ Len(task1q) \in Nat
      /\ DOMAIN task1q' = 1 .. Len(task1q) + 1
      /\ \A i \in DOMAIN task1q : task1q'[i] = task1q[i]
      /\ task1q'[Len(task1q) + 1].kind = "sync"
  BY SyncPosted
<1>2. \A i \in DOMAIN task1q' : task1q'[i].kind # NONE
  <2> TAKE i \in DOMAIN task1q'
  <2>1. CASE i = Len(task1q) + 1
    BY <1>1, <2>1 DEF NONE
  <2>2. CASE i # Len(task1q) + 1
    <3>1. i \in DOMAIN task1q
      BY <1>1, <2>2
    <3> QED
      BY <1>1, <3>1 DEF TaskInv
  <2> QED
    BY <2>1, <2>2
<1> QED
  BY <1>2 DEF TaskInv

\* A scene asks for the destruction of everything.
LEMMA RequestWork ==
    ASSUME MenuInv, MenuInv', WorkersInv, NEW id \in SceneId \ {"CALENDAR"}, NEW s, NEW t,
           Goes(id, s, t), NEW root \in Roots, ReserveAllDestruction(id, root),
           command[id] = NONE, UNCHANGED mCommands,
           board'.count = board.count, board'.read = board.read,
           UNCHANGED destroyReq \/ (RequestDestruction(id) /\ id # "BOARD")
    PROVE  WorkersInv'
<1>1. /\ UNCHANGED <<job, task, look, calendar>> /\ Live' = Live /\ id \in Live
      /\ stage'["CALENDAR"] = stage["CALENDAR"]
  BY CallOthers, Names
<1>2. task1q' = Append(task1q, JobOf("sync")) /\ ~mbDestroySyncTask'
  BY DEF ReserveAllDestruction
<1>3. ~RequestPending /\ RequestPending'
  BY <1>1, FirstRequest
<1>4. ScenesWait
  <2>1. \A kind \in JobKinds : AwaitedNext(kind) <=> Awaited(kind)
    BY <1>1 DEF AwaitedNext, Awaited, JobKinds
  <2>2. \A kind \in JobKinds : Awaited(kind) => SceneOf(kind) \in Live \ destroyReq
    BY DEF WorkersInv, KeptInv, JobKinds
  <2>3. \A kind \in JobKinds : SceneOf(kind) # id \/ UNCHANGED destroyReq
    BY DEF SceneOf, JobKinds
  <2> QED
    BY <1>1, <2>1, <2>2, <2>3 DEF ScenesWait, RequestDestruction
<1>5. KeptInv'
  BY <1>1, <1>2, <1>4, RequestKept DEF WorkersInv
<1>6. SyncInv'
  BY <1>1, <1>2, <1>3, RequestSync DEF WorkersInv
<1>7. TaskInv'
  BY <1>1, <1>2, RequestTask DEF WorkersInv
<1>8. SearchInv'
  BY <1>1, SearchSame
<1> QED
  BY <1>5, <1>6, <1>7, <1>8 DEF WorkersInv

-----------------------------------------------------------------------------
(* The Board, and the scenes without jobs.                                 *)

\* What the Board does of its own, but for its requests.
LEMMA BoardStepsWork ==
    ASSUME MenuInv, WorkersInv,
           \/ BoardCdbInit \/ BoardInit \/ BoardInitSafe \/ BoardTakesOver \/ BoardRecount
           \/ BoardNewDay \/ BoardScrolls \/ BoardScrollEnds \/ BoardToChannels
           \/ BoardToCalendar \/ BoardChildCame \/ BoardSDStopped \/ BoardLeaves
    PROVE  WorkersInv'
<1>1. CalcFacts
  BY BoardFacts
<1>2. board \in BoardType
  BY WorkTypes
<1>3. "count" \in BoardJobs /\ "read" \in BoardJobs
  BY DEF BoardJobs
<1> DEFINE Same == /\ UNCHANGED <<command, mbDestroySyncTask, destroyReq, task1q, board>>
<1>4. ASSUME NEW s, NEW t, Goes("BOARD", s, t), Same PROVE WorkersInv'
  <2>1. Posts
    BY <1>4, PostsNone
  <2> QED
    BY <1>1, <1>4, <2>1, BoardWork
<1>5. CASE BoardCdbInit
  <2>1. Goes("BOARD", "cdbInit", "init") /\ UNCHANGED <<command, mbDestroySyncTask, destroyReq>>
    BY <1>5 DEF BoardCdbInit
  <2>2. \/ /\ task1q' = task1q \o <<JobOf("count"), JobOf("read")>>
           /\ board'.count /\ board'.read
        \/ UNCHANGED <<task1q, board>>
    BY <1>2, <1>5 DEF BoardCdbInit, BoardType
  <2>3. CASE UNCHANGED <<task1q, board>>
    BY <1>4, <2>1, <2>3
  <2>4. CASE /\ task1q' = task1q \o <<JobOf("count"), JobOf("read")>>
             /\ board'.count /\ board'.read
    <3>1. Posts
      BY <1>3, <2>4, PostsTwo
    <3> QED
      BY <1>1, <2>1, <2>4, <3>1, BoardWork
  <2> QED
    BY <2>2, <2>3, <2>4
<1>6. CASE BoardInit \/ BoardInitSafe
  <2>1. (\E t : Goes("BOARD", "init", t)) /\ Same
    BY <1>6 DEF BoardInit, BoardInitSafe
  <2> QED
    BY <1>4, <2>1
<1>7. CASE BoardTakesOver \/ BoardScrollEnds \/ BoardChildCame \/ BoardSDStopped
  <2>1. (\E s, t : Goes("BOARD", s, t)) /\ Same
    BY <1>7 DEF BoardTakesOver, BoardScrollEnds, BoardChildCame, BoardSDStopped, Keep
  <2> QED
    BY <1>4, <2>1
<1>8. CASE BoardToCalendar
  <2>1. Goes("BOARD", "normal", "childCst") /\ Same
    BY <1>8 DEF BoardToCalendar
  <2> QED
    BY <1>4, <2>1
<1>9. CASE BoardRecount
  <2>1. /\ Goes("BOARD", "childDst", "childDst")
        /\ UNCHANGED <<command, mbDestroySyncTask, destroyReq>>
        /\ task1q' = Append(task1q, JobOf("count"))
        /\ board'.count /\ board'.read = board.read
    BY <1>2, <1>9 DEF BoardRecount, BoardType
  <2>2. Posts
    BY <1>3, <2>1, PostsOne
  <2> QED
    BY <1>1, <2>1, <2>2, BoardWork
<1>10. CASE BoardNewDay
  <2>1. /\ Goes("BOARD", "childDst", "scroll")
        /\ UNCHANGED <<command, mbDestroySyncTask, destroyReq>>
        /\ task1q' = task1q \o <<JobOf("count"), JobOf("read")>>
        /\ board'.count /\ board'.read
    BY <1>2, <1>10 DEF BoardNewDay, BoardType, Reads
  <2>2. Posts
    BY <1>3, <2>1, PostsTwo
  <2> QED
    BY <1>1, <2>1, <2>2, BoardWork
<1>11. CASE BoardScrolls
  <2>1. /\ Goes("BOARD", "normal", "scroll")
        /\ UNCHANGED <<command, mbDestroySyncTask, destroyReq>>
        /\ task1q' = Append(task1q, JobOf("read"))
        /\ board'.read /\ board'.count = board.count
    BY <1>2, <1>11 DEF BoardScrolls, BoardType, Reads
  <2>2. Posts
    BY <1>3, <2>1, PostsOne
  <2> QED
    BY <1>1, <2>1, <2>2, BoardWork
<1>12. CASE BoardToChannels
  <2>1. UNCHANGED <<command, mbDestroySyncTask, destroyReq>>
    BY <1>12 DEF BoardToChannels
  <2>2. \/ /\ Goes("BOARD", "normal", "childCst")
           /\ task1q' = Append(task1q, JobOf("count"))
           /\ board'.count /\ board'.read = board.read
        \/ /\ Goes("BOARD", "normal", "scroll")
           /\ task1q' = task1q \o <<JobOf("read"), JobOf("count")>>
           /\ board'.count /\ board'.read
    BY <1>2, <1>12 DEF BoardToChannels, BoardType, Reads
  <2>3. Posts
    BY <1>3, <2>2, PostsOne, PostsTwo
  <2> QED
    BY <1>1, <2>1, <2>2, <2>3, BoardWork
<1>13. CASE BoardLeaves
  <2>1. /\ Goes("BOARD", "done", "done") /\ RequestDestruction("BOARD")
        /\ UNCHANGED <<command, mbDestroySyncTask, task1q, board>>
        /\ ~board.count /\ ~board.read
    BY <1>13 DEF BoardLeaves, IsResetAcceptable
  <2>2. Posts
    BY <2>1, PostsNone
  <2> QED
    BY <1>1, <2>1, <2>2, BoardWork
<1> QED
  BY <1>5, <1>6, <1>7, <1>8, <1>9, <1>10, <1>11, <1>12, <1>13

\* The requests to destroy everything.
LEMMA RequestsWork ==
    ASSUME MenuInv, MenuInv', WorkersInv,
           \/ LeaveHealth \/ BoardInitFull \/ BoardToSettings \/ ChannelsToSettings
           \/ SelectSetting \/ SelectBack
    PROVE  WorkersInv'
<1> USE Names
<1>1. board \in BoardType
  BY WorkTypes
<1>2. ASSUME NEW id \in Asking, NEW s, NEW t, Goes(id, s, t)
      PROVE  stage[id] = s
  BY <1>2, CallOthers DEF Asking
<1>3. /\ command["HEALTH"] # NONE => stage["HEALTH"] = "done"
      /\ command["BOARD"] # NONE => stage["BOARD"] \in {"toSettings", "done"}
      /\ command["CHANNEL_SELECT"] # NONE => stage["CHANNEL_SELECT"] \in {"setting", "done"}
      /\ command["SETTING_SELECT"] # NONE =>
             stage["SETTING_SELECT"] \in {"out1", "blackout", "done"}
  BY DEF MenuInv, AskInv, BoardInv
<1>4. CASE LeaveHealth
  <2>1. /\ Goes("HEALTH", "out", "done") /\ ReserveAllDestruction("HEALTH", "BOARD")
        /\ RequestDestruction("HEALTH") /\ UNCHANGED <<mCommands, board>>
    BY <1>4 DEF LeaveHealth
  <2>2. command["HEALTH"] = NONE
    BY <1>2, <1>3, <2>1 DEF Asking
  <2> QED
    BY <2>1, <2>2, RequestWork
<1>5. CASE BoardInitFull
  <2>1. /\ Goes("BOARD", "init", "toSettings")
        /\ ReserveAllDestruction("BOARD", "SETTING_BG")
        /\ UNCHANGED <<destroyReq, mCommands, board>>
    BY <1>5 DEF BoardInitFull
  <2>2. command["BOARD"] = NONE
    BY <1>2, <1>3, <2>1 DEF Asking
  <2> QED
    BY <2>1, <2>2, RequestWork
<1>6. CASE BoardToSettings
  <2>1. /\ Goes("BOARD", "normal", "toSettings")
        /\ ReserveAllDestruction("BOARD", "SETTING")
        /\ UNCHANGED <<destroyReq, mCommands, board>>
    BY <1>6 DEF BoardToSettings
  <2>2. command["BOARD"] = NONE
    BY <1>2, <1>3, <2>1 DEF Asking
  <2> QED
    BY <2>1, <2>2, RequestWork
<1>7. CASE ChannelsToSettings
  <2>1. /\ Goes("CHANNEL_SELECT", "normal", "setting")
        /\ ReserveAllDestruction("CHANNEL_SELECT", "SETTING_BG")
        /\ board' = [board EXCEPT !.exit = TRUE]
        /\ UNCHANGED <<destroyReq, mCommands>>
    BY <1>7 DEF ChannelsToSettings
  <2>2. command["CHANNEL_SELECT"] = NONE
    BY <1>2, <1>3, <2>1 DEF Asking
  <2>3. board'.count = board.count /\ board'.read = board.read
    BY <1>1, <2>1 DEF BoardType
  <2> QED
    BY <2>1, <2>2, <2>3, RequestWork
<1>8. CASE SelectSetting
  <2>1. /\ Goes("SETTING_SELECT", "page1", "out1")
        /\ ReserveAllDestruction("SETTING_SELECT", "SETTING")
        /\ UNCHANGED <<destroyReq, mCommands, board>>
    BY <1>8 DEF SelectSetting
  <2>2. command["SETTING_SELECT"] = NONE
    BY <1>2, <1>3, <2>1 DEF Asking
  <2> QED
    BY <2>1, <2>2, RequestWork
<1>9. CASE SelectBack
  <2>1. /\ Goes("SETTING_SELECT", "page1", "blackout")
        /\ ReserveAllDestruction("SETTING_SELECT", "BOARD")
        /\ UNCHANGED <<destroyReq, mCommands, board>>
    BY <1>9 DEF SelectBack
  <2>2. command["SETTING_SELECT"] = NONE
    BY <1>2, <1>3, <2>1 DEF Asking
  <2> QED
    BY <2>1, <2>2, RequestWork
<1> QED
  BY <1>4, <1>5, <1>6, <1>7, <1>8, <1>9

\* The scenes that have no work for Task1.
LEMMA QuietScenesWork ==
    ASSUME MenuInv, WorkersInv, CalcFacts,
           \/ \E id \in {"HEALTH", "LIMIT_OVER"} : PassSplash(id) \/ FadeSplash(id)
           \/ LeaveLimitOver \/ LeaveReboot
           \/ ChannelsShown \/ ChannelsToBoard \/ ChannelsLeave
           \/ SettingButtonShown \/ SelectStarts \/ SelectTurns
           \/ SelectFadesOut \/ SelectLeaves
           \/ SelectOpens("page2", "wait2", "CHANNEL_EDIT")
           \/ SelectOpens("page3", "wait3", "MEMORY")
           \/ SelectChildGone \/ ScreenLeaves
    PROVE  WorkersInv'
<1> DEFINE Quiet(id) ==
        /\ \E s, t : Goes(id, s, t)
        /\ UNCHANGED <<board, command, mbDestroySyncTask, task1q>>
        /\ UNCHANGED destroyReq \/ RequestDestruction(id)
<1>1. \A id \in SceneId \ {"BOARD", "CALENDAR"} : Quiet(id) => WorkersInv'
  BY OthersWork
<1>2. \A id, s : Dies(id, s) => Quiet(id)
  BY DEF Dies
<1>3. \A id : (\E s, t : Goes(id, s, t)) /\ Keep => Quiet(id)
  BY DEF Keep
<1>4. ASSUME NEW id \in {"HEALTH", "LIMIT_OVER"}, PassSplash(id) \/ FadeSplash(id)
      PROVE  Quiet(id)
  BY <1>4 DEF PassSplash, FadeSplash
<1>5. LeaveLimitOver => Quiet("LIMIT_OVER")
  BY DEF LeaveLimitOver, ChangeScene
<1>6. LeaveReboot => Quiet("REBOOT")
  BY DEF LeaveReboot, ChangeScene
<1>7. SelectFadesOut => Quiet("SETTING_SELECT")
  BY DEF SelectFadesOut
<1>8. \A page, wait, id : SelectOpens(page, wait, id) => Quiet("SETTING_SELECT")
  BY DEF SelectOpens
<1> HIDE DEF Quiet
<1>9. ChannelsShown \/ ChannelsToBoard \/ ChannelsLeave => Quiet("CHANNEL_SELECT")
  BY <1>2, <1>3 DEF ChannelsShown, ChannelsToBoard, ChannelsLeave
<1>10. SettingButtonShown => Quiet("SETTING_BUTTON")
  BY <1>3 DEF SettingButtonShown
<1>11. SelectStarts \/ SelectTurns \/ SelectLeaves \/ SelectChildGone => Quiet("SETTING_SELECT")
  BY <1>2, <1>3 DEF SelectStarts, SelectTurns, SelectLeaves, SelectChildGone
<1>12. ScreenLeaves => \E id \in {"CHANNEL_EDIT", "MEMORY"} : Quiet(id)
  BY <1>2 DEF ScreenLeaves
<1>13. {"HEALTH", "LIMIT_OVER", "REBOOT", "CHANNEL_SELECT", "SETTING_BUTTON",
        "SETTING_SELECT", "CHANNEL_EDIT", "MEMORY"} \subseteq SceneId \ {"BOARD", "CALENDAR"}
  BY Names
<1> QED
  BY <1>1, <1>4, <1>5, <1>6, <1>7, <1>8, <1>9, <1>10, <1>11, <1>12, <1>13

-----------------------------------------------------------------------------
(* The search of the Calendar.                                             *)

\* exec_search_task: the search goes before the others.
LEMMA SearchPosted ==
    ASSUME MenuInv, task1q' = <<JobOf("search")>> \o task1q
    PROVE  /\ DOMAIN task1q = 1 .. Len(task1q) /\ Len(task1q) \in Nat
           /\ DOMAIN task1q' = 1 .. Len(task1q) + 1
           /\ \A i \in DOMAIN task1q' : i # 1 =>
                 i - 1 \in DOMAIN task1q /\ task1q'[i] = task1q[i - 1]
           /\ task1q'[1].kind = "search"
           /\ task1q'[1].late <=> RequestPending
<1> DEFINE j == JobOf("search")
           n == Len(task1q)
<1>1. j \in Job /\ j.kind = "search" /\ (j.late <=> RequestPending)
  BY JobTypes, JobIs
<1>2. task1q \in Seq(Job) /\ n \in Nat /\ DOMAIN task1q = 1 .. n
  BY WorkTypes
<1> HIDE DEF j, n
<1>3. <<j>> \in Seq(Job) /\ Len(<<j>>) = 1 /\ <<j>>[1] = j
  BY <1>1
<1>4. task1q' = <<j>> \o task1q
  BY DEF j
<1>5. /\ task1q' \in Seq(Job) /\ Len(task1q') = 1 + n
      /\ \A i \in 1 .. 1 + n : task1q'[i] = IF i <= 1 THEN <<j>>[i] ELSE task1q[i - 1]
  BY <1>2, <1>3, <1>4, ConcatProperties DEF n
<1>6. DOMAIN task1q' = 1 .. n + 1
  BY <1>2, <1>5, LenProperties
<1>7. \A i \in 1 .. n + 1 : i # 1 => ~(i <= 1) /\ i - 1 \in 1 .. n
  BY <1>2
<1>8. \A i \in DOMAIN task1q' : i # 1 => i - 1 \in DOMAIN task1q /\ task1q'[i] = task1q[i - 1]
  BY <1>2, <1>5, <1>6, <1>7
<1>9. task1q'[1] = j
  BY <1>2, <1>3, <1>5
<1> QED
  BY <1>1, <1>2, <1>6, <1>8, <1>9 DEF n

\* The search that begins is the only one, and the Calendar waits for it.
LEMMA SearchKept ==
    ASSUME MenuInv, KeptInv, task1q' = <<JobOf("search")>> \o task1q, ScenesWait,
           ~calendar.searching, calendar'.searching, UNCHANGED <<job, task, look>>
    PROVE  KeptInv'
<1>1. /\ DOMAIN task1q = 1 .. Len(task1q) /\ Len(task1q) \in Nat
      /\ DOMAIN task1q' = 1 .. Len(task1q) + 1
      /\ \A i \in DOMAIN task1q' : i # 1 =>
            i - 1 \in DOMAIN task1q /\ task1q'[i] = task1q[i - 1]
      /\ task1q'[1].kind = "search"
  BY SearchPosted
<1>2. /\ \A i \in DOMAIN task1q : task1q[i].kind # "search"
      /\ job.kind = "search" => task.told
  BY DEF KeptInv, Kept, Awaited
<1>3. ASSUME NEW i \in DOMAIN task1q', Kept(task1q'[i])
      PROVE  /\ AwaitedNext(task1q'[i].kind)
             /\ job'.kind = task1q'[i].kind => task'.told
             /\ \A h \in DOMAIN task1q' : h < i => task1q'[h].kind # task1q'[i].kind
  <2>1. CASE i = 1
    BY <1>1, <1>2, <2>1 DEF AwaitedNext
  <2>2. CASE i # 1
    <3>1. i - 1 \in DOMAIN task1q /\ task1q'[i] = task1q[i - 1]
      BY <1>1, <2>2
    <3>2. /\ Awaited(task1q[i - 1].kind)
          /\ job.kind = task1q[i - 1].kind => task.told
          /\ \A h \in DOMAIN task1q : h < i - 1 => task1q[h].kind # task1q[i - 1].kind
      BY <1>3, <3>1 DEF KeptInv
    <3>3. task1q[i - 1].kind \in JobKinds
      BY <1>3, <3>1 DEF Kept, JobKinds
    <3>4. ASSUME NEW h \in DOMAIN task1q', h < i
          PROVE  task1q'[h].kind # task1q'[i].kind
      <4>1. CASE h = 1
        BY <1>1, <1>2, <3>1, <4>1
      <4>2. CASE h # 1
        <5>1. h - 1 \in DOMAIN task1q /\ task1q'[h] = task1q[h - 1] /\ h - 1 < i - 1
          BY <1>1, <3>4, <4>2
        <5> QED
          BY <3>1, <3>2, <5>1
      <4> QED
        BY <4>1, <4>2
    <3> QED
      BY <3>1, <3>2, <3>3, <3>4 DEF ScenesWait
  <2> QED
    BY <2>1, <2>2
<1>4. ASSUME Kept(job'), ~task'.told
      PROVE  /\ AwaitedNext(job'.kind)
             /\ task'.scene # "freed"
             /\ look' \in {NONE, "ROOT", "BOARD", SceneOf(job'.kind)}
  <2>1. job.kind \in JobKinds
    BY <1>4 DEF Kept, JobKinds
  <2> QED
    BY <1>4, <2>1 DEF KeptInv, ScenesWait
<1>5. \A kind \in JobKinds :
          AwaitedNext(kind) => SceneOf(kind) \in Live' \ destroyReq'
  BY DEF ScenesWait
<1> QED
  BY <1>3, <1>4, <1>5, NextKept

\* A search goes before a sync job, if there is one.
LEMMA SearchSync ==
    ASSUME MenuInv, SyncInv, task1q' = <<JobOf("search")>> \o task1q, PendingStays,
           UNCHANGED <<job, mbDestroySyncTask>>
    PROVE  SyncInv'
<1>1. /\ DOMAIN task1q = 1 .. Len(task1q) /\ Len(task1q) \in Nat
      /\ DOMAIN task1q' = 1 .. Len(task1q) + 1
      /\ \A i \in DOMAIN task1q' : i # 1 =>
            i - 1 \in DOMAIN task1q /\ task1q'[i] = task1q[i - 1]
      /\ task1q'[1].kind = "search"
      /\ task1q'[1].late <=> RequestPending
  BY SearchPosted
<1>2. ASSUME NEW i \in DOMAIN task1q', task1q'[i].kind = "sync"
      PROVE  /\ RequestPending /\ ~mbDestroySyncTask
             /\ \A j \in DOMAIN task1q' : i < j => task1q'[j].late /\ task1q'[j].kind # "sync"
  <2>1. i # 1
    BY <1>1, <1>2
  <2>2. i - 1 \in DOMAIN task1q /\ task1q[i - 1].kind = "sync"
    BY <1>1, <1>2, <2>1
  <2>3. /\ RequestPending /\ ~mbDestroySyncTask
        /\ \A j \in DOMAIN task1q : i - 1 < j => task1q[j].late /\ task1q[j].kind # "sync"
    BY <2>2 DEF SyncInv
  <2>4. ASSUME NEW j \in DOMAIN task1q', i < j
        PROVE  task1q'[j].late /\ task1q'[j].kind # "sync"
    <3>1. j # 1 /\ i - 1 < j - 1
      BY <1>1, <2>4
    <3> QED
      BY <1>1, <2>3, <3>1
  <2> QED
    BY <2>3, <2>4
<1>3. ASSUME mbDestroySyncTask \/ job.kind = "sync", NEW i \in DOMAIN task1q'
      PROVE  task1q'[i].late /\ task1q'[i].kind # "sync"
  BY <1>1, <1>3 DEF SyncInv
<1> QED
  BY <1>2, <1>3 DEF SyncInv, PendingStays

\* A search that is posted leaves the job that Task1 has alone.
LEMMA SearchTask ==
    ASSUME MenuInv, TaskInv, task1q' = <<JobOf("search")>> \o task1q,
           UNCHANGED <<job, task, look>>
    PROVE  TaskInv'
<1>1. /\ \A i \in DOMAIN task1q' : i # 1 =>
            i - 1 \in DOMAIN task1q /\ task1q'[i] = task1q[i - 1]
      /\ task1q'[1].kind = "search"
  BY SearchPosted
<1>2. \A i \in DOMAIN task1q' : task1q'[i].kind # NONE
  BY <1>1 DEF TaskInv, NONE
<1> QED
  BY <1>2 DEF TaskInv

\* A search begins, and no other was there.
LEMMA SearchWork ==
    ASSUME MenuInv, WorkersInv, task1q' = <<JobOf("search")>> \o task1q, ScenesWait,
           PendingStays, SearchInv', ~calendar.searching, calendar'.searching,
           UNCHANGED <<job, task, look, mbDestroySyncTask>>
    PROVE  WorkersInv'
<1>1. KeptInv'
  BY SearchKept DEF WorkersInv
<1>2. SyncInv'
  BY SearchSync DEF WorkersInv
<1>3. TaskInv'
  BY SearchTask DEF WorkersInv
<1> QED
  BY <1>1, <1>2, <1>3 DEF WorkersInv

\* What a call of the Calendar leaves to the others: the Board is there and stays.
LEMMA CalendarOthers ==
    ASSUME MenuInv, NEW s, NEW new, GoesOn("CALENDAR", s, new)
    PROVE  /\ UNCHANGED <<job, task, look>> /\ Live' = Live
           /\ "CALENDAR" \in Live /\ "CALENDAR" \notin destroyReq
           /\ stage["CALENDAR"] = s /\ stage' = new
           /\ "BOARD" \in Live /\ "BOARD" \notin destroyReq
<1>1. "CALENDAR" \in SceneId
  BY Names
<1>2. /\ "CALENDAR" \in Live /\ "CALENDAR" \notin destroyReq /\ stage["CALENDAR"] = s
      /\ Live' = Live
  BY <1>1, CallFacts
<1>3. UNCHANGED <<job, task, look>> /\ stage' = new
  BY DEF GoesOn
<1>4. AtCalendar
  BY <1>2, CalendarAt
<1>5. "BOARD" \in Live
  BY <1>4, ShapeLive DEF AtCalendar, At, Live
<1>6. stage["BOARD"] # "done"
  BY <1>4 DEF AtCalendar
<1>7. "BOARD" \notin destroyReq
  BY <1>6 DEF MenuInv, DoomInv
<1> QED
  BY <1>2, <1>3, <1>5, <1>7

\* The Calendar waits for its search before it goes, and the Board is there.
LEMMA CalendarWaits ==
    ASSUME MenuInv, WorkersInv, NEW s, NEW new, GoesOn("CALENDAR", s, new),
           board.count => board'.count, board.read => board'.read,
           calendar.searching => calendar'.searching,
           \/ UNCHANGED destroyReq
           \/ RequestDestruction("CALENDAR") /\ ~calendar'.searching
    PROVE  ScenesWait
<1>1. /\ Live' = Live /\ "CALENDAR" \in Live /\ "CALENDAR" \notin destroyReq
      /\ "BOARD" \in Live /\ "BOARD" \notin destroyReq
  BY CalendarOthers
<1>2. \A kind \in JobKinds : Awaited(kind) => AwaitedNext(kind)
  BY DEF Awaited, AwaitedNext, JobKinds
<1>3. AwaitedNext("search") => "CALENDAR" \in Live' \ destroyReq'
  BY <1>1 DEF AwaitedNext, RequestDestruction
<1>4. "BOARD" \in Live' \ destroyReq'
  BY <1>1 DEF RequestDestruction
<1> QED
  BY <1>2, <1>3, <1>4 DEF ScenesWait, SceneOf, JobKinds

\* The Calendar goes on with the search that it has, if any.
LEMMA CalendarWork ==
    ASSUME MenuInv, WorkersInv, CalcFacts, NEW s, NEW new, GoesOn("CALENDAR", s, new),
           Posts, UNCHANGED <<command, mbDestroySyncTask>>,
           board.count => board'.count, board.read => board'.read,
           calendar.searching => calendar'.searching,
           \/ UNCHANGED destroyReq
           \/ RequestDestruction("CALENDAR") /\ ~calendar'.searching,
           SearchInv'
    PROVE  WorkersInv'
<1>1. UNCHANGED <<job, task, look>>
  BY CalendarOthers
<1>2. ScenesWait
  BY CalendarWaits
<1>3. PendingStays
  BY CallPending
<1> QED
  BY <1>1, <1>2, <1>3, MainWork

-----------------------------------------------------------------------------
(* The Calendar.                                                           *)

\* The search of the Calendar, when the Calendar itself goes from s to t: what of
\* SearchInv is not about the job.
LEMMA CalendarSearch ==
    ASSUME MenuInv, WorkersInv, NEW s, NEW new, GoesOn("CALENDAR", s, new),
           calendar'.searching => new["CALENDAR"] \notin {"scroll", "leaving", "done"},
           calendar'.searching = calendar.searching /\ calendar'.month = calendar.month,
           calendar'.mark = calendar.mark /\ calendar'.whole = calendar.whole,
           \/ calendar'.canceled = calendar.canceled
           \/ calendar.searching /\ new["CALENDAR"] = "waitTask",
           calendar.searching /\ s = "waitTask" => new["CALENDAR"] = "waitTask",
           new["CALENDAR"] \in {"in", "normal", "waitExit"} =>
               s \in {"in", "normal", "waitExit"}
    PROVE  SearchInv'
<1>1. /\ UNCHANGED <<job, task>> /\ "CALENDAR" \in Live' /\ stage["CALENDAR"] = s
      /\ stage' = new /\ "CALENDAR" \in Live
  BY CalendarOthers
<1>2. /\ calendar.canceled =>
          \/ job.kind = "search" /\ task.told /\ task.scene = "held"
          \/ calendar.searching /\ stage["CALENDAR"] = "waitTask"
      /\ calendar.mark \in {NONE, calendar.month}
      /\ job.kind = "search" /\ ~task.told => task.month \in {NONE, calendar.month}
      /\ stage["CALENDAR"] \in {"in", "normal", "waitExit"} =>
          calendar.searching \/ calendar.whole
  BY <1>1 DEF WorkersInv, SearchInv
<1>3. calendar'.canceled =>
          \/ job.kind = "search" /\ task.told /\ task.scene = "held"
          \/ calendar'.searching /\ stage'["CALENDAR"] = "waitTask"
  BY <1>1, <1>2
<1> QED
  BY <1>1, <1>2, <1>3 DEF SearchInv

\* The Calendar turns to another month, where a new search begins.
LEMMA CalendarScrolledWork ==
    ASSUME MenuInv, WorkersInv, CalendarScrolled PROVE WorkersInv'
<1>1. PICK m \in Month : ExecSearchTask([calendar EXCEPT !.month = m, !.mark = NONE])
  BY DEF CalendarScrolled
<1> DEFINE new == [stage EXCEPT !["CALENDAR"] = "normal"]
<1>2. /\ GoesOn("CALENDAR", "scroll", new)
      /\ UNCHANGED <<destroyReq, command, fader, mCommands, mbDestroySyncTask, board>>
  BY DEF CalendarScrolled, CalendarGoes
<1>3. new["CALENDAR"] = "normal"
  BY Names DEF MenuInv, StageInv
<1> HIDE DEF new
<1>4. calendar \in CalendarType
  BY WorkTypes
<1>5. /\ task1q' = <<JobOf("search")>> \o task1q
      /\ calendar'.searching /\ calendar'.month = m /\ calendar'.mark = NONE
      /\ calendar'.canceled = calendar.canceled
  BY <1>1, <1>4 DEF ExecSearchTask, CalendarType
<1>6. /\ UNCHANGED <<job, task, look>> /\ Live' = Live
      /\ stage["CALENDAR"] = "scroll" /\ stage' = new /\ "CALENDAR" \in Live
  BY <1>2, CalendarOthers
<1>7. ~calendar.searching
  BY <1>6 DEF WorkersInv, SearchInv
<1>8. ScenesWait
  BY <1>2, <1>5, <1>7, CalendarWaits
<1>9. PendingStays
  BY <1>2, <1>6, PendingKept
<1>10. SearchInv'
  <2>1. job.kind = "search" => task.told
    BY <1>7 DEF WorkersInv, KeptInv, Kept, Awaited
  <2>2. calendar.canceled => job.kind = "search" /\ task.told /\ task.scene = "held"
    BY <1>7 DEF WorkersInv, SearchInv
  <2> QED
    BY <1>3, <1>5, <1>6, <2>1, <2>2 DEF SearchInv
<1> QED
  BY <1>2, <1>5, <1>6, <1>7, <1>8, <1>9, <1>10, SearchWork

\* The Calendar goes on.
LEMMA CalendarStepsWork ==
    ASSUME MenuInv, WorkersInv, CalcFacts,
           \/ CalendarShown \/ CalendarScrolls \/ CalendarExits \/ CalendarPicks
           \/ CalendarWaited \/ CalendarLeaves
    PROVE  WorkersInv'
<1> USE Names
<1>1. stage \in [SceneId -> Stage] /\ board \in BoardType /\ calendar \in CalendarType
  BY WorkTypes DEF MenuInv, StageInv
<1> DEFINE To(t) == [stage EXCEPT !["CALENDAR"] = t]
<1>2. \A t : To(t)["CALENDAR"] = t
  BY <1>1
<1>3. ASSUME NEW s, NEW t, GoesOn("CALENDAR", s, To(t)),
             UNCHANGED <<command, mbDestroySyncTask, task1q, board>>,
             \/ UNCHANGED destroyReq
             \/ RequestDestruction("CALENDAR") /\ ~calendar.searching,
             calendar'.searching = calendar.searching, SearchInv'
      PROVE  WorkersInv'
  <2>1. Posts
    BY <1>3, PostsNone
  <2> QED
    BY <1>3, <2>1, CalendarWork
<1>4. ASSUME NEW s, NEW t, GoesOn("CALENDAR", s, To(t)) PROVE stage["CALENDAR"] = s
  BY <1>4, CalendarOthers
<1> HIDE DEF To
<1>5. ASSUME NEW s, NEW t, GoesOn("CALENDAR", s, To(t)), UNCHANGED calendar,
             calendar.searching => t \notin {"scroll", "leaving", "done"},
             s # "waitTask", t \in {"in", "normal", "waitExit"} => s \in {"in", "normal"}
      PROVE  SearchInv'
  BY <1>2, <1>5, CalendarSearch
<1>6. ASSUME NEW s, NEW t, CalendarGoes(s, t)
      PROVE  /\ GoesOn("CALENDAR", s, To(t))
             /\ UNCHANGED <<destroyReq, command, mbDestroySyncTask, board>>
  BY <1>6 DEF CalendarGoes, To
<1>7. ASSUME NEW s, s # "waitTask", CalendarGoes(s, "waitTask"), calendar.searching,
             NEW then, CancelSearch(then)
      PROVE  WorkersInv'
  <2>1. /\ calendar'.searching = calendar.searching /\ calendar'.month = calendar.month
        /\ calendar'.mark = calendar.mark /\ calendar'.whole = calendar.whole
        /\ UNCHANGED task1q
    BY <1>1, <1>7 DEF CancelSearch, CalendarType
  <2>2. SearchInv'
    BY <1>2, <1>6, <1>7, <2>1, CalendarSearch
  <2> QED
    BY <1>3, <1>6, <1>7, <2>1, <2>2
<1>8. CASE CalendarShown
  <2>1. /\ GoesOn("CALENDAR", "in", To("normal"))
        /\ UNCHANGED <<calendar, command, mbDestroySyncTask, task1q, board, destroyReq>>
    BY <1>8 DEF CalendarShown, Goes, Keep, To
  <2>2. SearchInv'
    BY <1>5, <2>1
  <2> QED
    BY <1>3, <2>1, <2>2
<1>9. CASE CalendarScrolls
  <2>1. CASE /\ ~calendar.searching /\ CalendarGoes("normal", "scroll")
             /\ UNCHANGED <<calendar, task1q>>
    BY <1>3, <1>5, <1>6, <2>1
  <2>2. CASE /\ calendar.searching /\ CalendarGoes("normal", "waitTask")
             /\ CancelSearch("scroll")
    BY <1>7, <2>2
  <2> QED
    BY <1>9, <2>1, <2>2 DEF CalendarScrolls
<1>10. CASE CalendarExits
  <2>1. PICK s \in {"normal", "waitExit"} :
            \/ /\ ~calendar.searching /\ CalendarGoes(s, "leaving")
               /\ UNCHANGED <<calendar, task1q>>
            \/ /\ calendar.searching /\ CalendarGoes(s, "waitTask")
               /\ CancelSearch("leaving")
    BY <1>10 DEF CalendarExits
  <2>2. CASE ~calendar.searching /\ CalendarGoes(s, "leaving") /\ UNCHANGED <<calendar, task1q>>
    BY <1>3, <1>5, <1>6, <2>2
  <2>3. CASE calendar.searching /\ CalendarGoes(s, "waitTask") /\ CancelSearch("leaving")
    BY <1>7, <2>3
  <2> QED
    BY <2>1, <2>2, <2>3
<1>11. CASE CalendarPicks
  <2>1. CASE CalendarGoes("normal", "waitExit") /\ UNCHANGED <<calendar, task1q>>
    BY <1>3, <1>5, <1>6, <2>1
  <2>2. CASE /\ GoesOn("CALENDAR", "normal",
                       [stage EXCEPT !["CALENDAR"] = "waitExit", !["BOARD"] = "scroll"])
             /\ board' = Reads
             /\ task1q' = Append(task1q, JobOf("read"))
             /\ UNCHANGED <<destroyReq, command, mbDestroySyncTask, calendar>>
    <3> DEFINE new == [stage EXCEPT !["CALENDAR"] = "waitExit", !["BOARD"] = "scroll"]
    <3>1. new["CALENDAR"] = "waitExit"
      BY <1>1
    <3> HIDE DEF new
    <3>2. GoesOn("CALENDAR", "normal", new)
      BY <2>2 DEF new
    <3>3. board'.read /\ board'.count = board.count
      BY <1>1, <2>2 DEF Reads, BoardType
    <3>4. Posts
      BY <2>2, <3>3, PostsOne DEF BoardJobs
    <3>5. SearchInv'
      BY <2>2, <3>1, <3>2, CalendarSearch
    <3> QED
      BY <2>2, <3>2, <3>3, <3>4, <3>5, CalendarWork
  <2> QED
    BY <1>11, <2>1, <2>2 DEF CalendarPicks
<1>12. CASE CalendarWaited
  <2>1. /\ ~calendar.searching /\ CalendarGoes("waitTask", calendar.then)
        /\ calendar' = [calendar EXCEPT !.then = NONE] /\ UNCHANGED task1q
    BY <1>12 DEF CalendarWaited
  <2>2. stage["CALENDAR"] = "waitTask"
    BY <1>4, <1>6, <2>1
  <2>3. calendar.then \in {"scroll", "leaving"}
    BY <1>1, <2>2 DEF MenuInv, WorkInv, CalendarType
  <2>4. /\ calendar'.searching = calendar.searching /\ calendar'.month = calendar.month
        /\ calendar'.mark = calendar.mark /\ calendar'.whole = calendar.whole
        /\ calendar'.canceled = calendar.canceled
    BY <1>1, <2>1 DEF CalendarType
  <2>5. SearchInv'
    BY <1>2, <1>6, <2>1, <2>3, <2>4, CalendarSearch
  <2> QED
    BY <1>3, <1>6, <2>1, <2>4, <2>5
<1>13. CASE CalendarLeaves
  <2>1. /\ GoesOn("CALENDAR", "leaving", To("done")) /\ RequestDestruction("CALENDAR")
        /\ UNCHANGED <<calendar, command, mbDestroySyncTask, task1q, board>>
    BY <1>13 DEF CalendarLeaves, Dies, Goes, To
  <2>2. ~calendar.searching
    <3>1. stage["CALENDAR"] = "leaving"
      BY <1>4, <2>1
    <3> QED
      BY <3>1 DEF WorkersInv, SearchInv
  <2>3. SearchInv'
    BY <1>5, <2>1, <2>2
  <2> QED
    BY <1>3, <2>1, <2>2, <2>3
<1> QED
  BY <1>8, <1>9, <1>10, <1>11, <1>12, <1>13

\* Every call of calc().
LEMMA CallsWork ==
    ASSUME MenuInv, MenuInv', WorkersInv, UserStep \/ OwnStep
    PROVE  WorkersInv'
<1>1. CalcFacts
  BY SceneSteps
<1>2. CASE UserStep
  BY <1>1, <1>2, BoardStepsWork, RequestsWork, CalendarStepsWork, QuietScenesWork DEF UserStep
<1>3. CASE OwnStep
  BY <1>1, <1>3, BoardStepsWork, RequestsWork, CalendarStepsWork, QuietScenesWork,
     CalendarScrolledWork DEF OwnStep
<1> QED
  BY <1>2, <1>3

-----------------------------------------------------------------------------
(* The frame; scenes that are created and attached.                        *)

\* The rest of the frame gives Task1 no work.
LEMMA FrameWork ==
    ASSUME MenuInv, WorkersInv,
           \/ Idle \/ AwaitReserved \/ NothingToExec \/ EndCalc \/ NextFrame \/ FadeDone
           \/ NandStep
           \/ UNCHANGED managerVars
    PROVE  WorkersInv'
<1>1. /\ UNCHANGED <<order, mCommands, command, destroyReq, stage, board, calendar>>
      /\ UNCHANGED <<task1q, job, task, look, mbDestroySyncTask>>
  BY DEF Idle, AwaitReserved, NothingToExec, EndCalc, NextFrame, FadeDone, NandStep,
         managerVars, treeVars, sceneVars, task1Vars
<1>2. Live' = Live
  BY <1>1 DEF Live
<1>3. Posts
  BY <1>1, PostsNone
<1>4. ScenesWait
  BY <1>1, <1>2 DEF WorkersInv, KeptInv, ScenesWait, Awaited, AwaitedNext, JobKinds
<1>5. PendingStays
  BY <1>1, <1>2, PendingKept
<1>6. SearchInv'
  BY <1>1, <1>2, SearchSame
<1> QED
  BY <1>1, <1>3, <1>4, <1>5, <1>6, MainWork

\* A command that leaves the queue leaves the request for everything in it, if it
\* is not that itself.
LEMMA TailPending ==
    ASSUME MenuInv, mCommands # <<>>, Head(mCommands).type # "ALL",
           mCommands' = Tail(mCommands), UNCHANGED command, Live' = Live
    PROVE  PendingStays
<1>1. mCommands \in Seq(Command)
  BY CommandsAre, CommandTypes DEF MenuInv
<1>2. /\ Head(mCommands) = mCommands[1]
      /\ Len(mCommands) \in Nat /\ DOMAIN mCommands = 1 .. Len(mCommands)
      /\ DOMAIN Tail(mCommands) = 1 .. Len(mCommands) - 1
      /\ \A k \in 1 .. Len(mCommands) - 1 : Tail(mCommands)[k] = mCommands[k + 1]
  BY <1>1, HeadTailProperties, LenProperties, EmptySeq
<1>3. ASSUME NEW c \in Range(mCommands), c.type = "ALL" PROVE c \in Range(Tail(mCommands))
  <2>1. PICK i \in DOMAIN mCommands : c = mCommands[i]
    BY <1>3 DEF Range
  <2>2. i # 1
    BY <1>2, <1>3, <2>1
  <2>3. i - 1 \in 1 .. Len(mCommands) - 1 /\ (i - 1) + 1 = i
    BY <1>2, <2>1, <2>2
  <2>4. c = Tail(mCommands)[i - 1]
    BY <1>2, <2>1, <2>3
  <2> QED
    BY <1>2, <2>3, <2>4 DEF Range
<1> QED
  BY <1>3 DEF PendingStays, RequestPending

\* A scene in preparation has nothing to wait for.
LEMMA CreateWork ==
    ASSUME MenuInv, WorkersInv, ExecCreateChild \/ ExecReserveChange PROVE WorkersInv'
<1> USE Names
<1> DEFINE c == Head(mCommands)
           id == c.new
<1>1. /\ phase = "command" /\ reserved = NONE /\ mCommands # <<>>
      /\ c.type \in {"CHILD", "CHANGE"}
      /\ Construct(id) /\ reserved' = id /\ mReservedCommand' = c
      /\ mCommands' = Tail(mCommands)
      /\ UNCHANGED <<order, parent, destroyReq, command, fader, mbDestroySyncTask, it,
                     task1q, job, task, look>>
  BY DEF ExecCreateChild, ExecReserveChange, Reserve, treeVars, task1Vars
<1>2. /\ stage' = [stage EXCEPT ![reserved'] = InitStage(reserved')]
      /\ board' = IF reserved' = "BOARD" THEN NewBoard ELSE board
      /\ calendar' = IF reserved' = "CALENDAR" THEN NewCalendar ELSE calendar
  BY <1>1 DEF Construct
<1>3. reserved' \in SceneId \ {"ROOT"} /\ reserved' \notin Live
  BY <1>1, <1>2, TakesNext
<1>4. Live' = Live
  BY <1>1 DEF Live
<1>5. PendingStays
  <2>1. c.type # "ALL"
    BY <1>1
  <2> QED
    BY <1>1, <1>4, <2>1, TailPending
<1> HIDE DEF c, id
<1>6. ScenesWait
  <2>1. \A kind \in JobKinds : Awaited(kind) => SceneOf(kind) \in Live \ destroyReq
    BY DEF WorkersInv, KeptInv, JobKinds
  <2>2. \A kind \in JobKinds : AwaitedNext(kind) <=> Awaited(kind)
    <3>1. (AwaitedNext("count") <=> Awaited("count")) /\ (AwaitedNext("read") <=> Awaited("read"))
      BY <1>2, <1>3, <2>1 DEF Awaited, AwaitedNext, JobKinds, SceneOf, NewBoard
    <3>2. AwaitedNext("search") <=> Awaited("search")
      BY <1>2, <1>3, <2>1 DEF Awaited, AwaitedNext, JobKinds, SceneOf, NewCalendar
    <3> QED
      BY <3>1, <3>2 DEF JobKinds
  <2> QED
    BY <1>1, <1>4, <2>1, <2>2 DEF ScenesWait
<1>7. UNCHANGED calendar
  BY <1>2, <1>3 DEF WorkersInv, SearchInv
<1>8. SearchInv'
  <2>1. CASE reserved' = "CALENDAR"
    <3>1. calendar = NewCalendar /\ "CALENDAR" \notin Live
      BY <1>3, <2>1 DEF WorkersInv, SearchInv
    <3>2. ~calendar.searching /\ calendar.mark = NONE
      BY <3>1 DEF NewCalendar
    <3> QED
      BY <1>1, <1>4, <1>7, <3>1, <3>2 DEF WorkersInv, SearchInv
  <2>2. CASE reserved' # "CALENDAR"
    <3>1. stage'["CALENDAR"] = stage["CALENDAR"]
      BY <1>2, <2>2 DEF MenuInv, StageInv
    <3> QED
      BY <1>1, <1>4, <1>7, <3>1, SearchSame
  <2> QED
    BY <2>1, <2>2
<1>9. Posts
  BY <1>1, PostsNone
<1> QED
  BY <1>1, <1>5, <1>6, <1>8, <1>9, MainWork

\* A scene joins the tree; the Calendar begins its search.
LEMMA AttachWork ==
    ASSUME MenuInv, WorkersInv, AttachReserved PROVE WorkersInv'
<1> USE Names
<1>1. /\ reserved # NONE /\ reserved' = NONE
      /\ mCommands' = Pushed(mCommands, CreatePushes(reserved))
      /\ IF reserved = "CALENDAR" THEN ExecSearchTask(calendar)
         ELSE UNCHANGED <<calendar, task1q>>
      /\ UNCHANGED <<destroyReq, command, stage, board, mbDestroySyncTask, job, task, look>>
  BY DEF AttachReserved
<1>2. Live' = Live \union {reserved}
  BY AttachPlace
<1>3. CreatePushes(reserved) \in Seq(Range(CreatePushes(reserved)))
  <2>1. CASE reserved = "SETTING_BG"
    <3> DEFINE a == CreateChild("SETTING_BUTTON", reserved, NONE)
               b == CreateChild("SETTING_SELECT", reserved, NONE)
    <3>1. CreatePushes(reserved) = <<a, b>>
      BY <2>1 DEF CreatePushes
    <3> HIDE DEF a, b
    <3>2. <<a, b>> \in Seq({a, b}) /\ Range(<<a, b>>) = {a, b}
      BY ShortRange
    <3> QED
      BY <3>1, <3>2
  <2>2. CASE reserved # "SETTING_BG"
    BY <2>2, ShortRange DEF CreatePushes
  <2> QED
    BY <2>1, <2>2
<1>4. PendingStays
  BY <1>1, <1>2, <1>3, PendingKept
<1>5. CASE reserved = "CALENDAR"
  <2>1. /\ calendar' = [calendar EXCEPT !.searching = TRUE, !.whole = FALSE]
        /\ task1q' = <<JobOf("search")>> \o task1q
    BY <1>1, <1>5 DEF ExecSearchTask
  <2>2. "CALENDAR" \notin Live /\ stage["CALENDAR"] = "in"
    BY <1>5, TreeFacts, InitStages DEF MenuInv, StageInv
  <2>3. calendar = NewCalendar
    BY <2>2 DEF WorkersInv, SearchInv
  <2>4. /\ calendar'.searching /\ ~calendar'.canceled /\ calendar'.mark = NONE
        /\ ~calendar.searching
    BY <2>1, <2>3 DEF NewCalendar
  <2>5. job.kind = "search" => task.told
    BY <2>4 DEF WorkersInv, KeptInv, Kept, Awaited
  <2>6. SearchInv'
    BY <1>1, <1>2, <1>5, <2>2, <2>4, <2>5 DEF SearchInv
  <2>7. ScenesWait
    <3>1. \A kind \in BoardJobs : AwaitedNext(kind) <=> Awaited(kind)
      BY <1>1 DEF Awaited, AwaitedNext, BoardJobs
    <3>2. \A kind \in BoardJobs : Awaited(kind) => SceneOf(kind) \in Live \ destroyReq
      BY DEF WorkersInv, KeptInv, BoardJobs
    <3>3. ~Awaited("search")
      BY <2>4 DEF Awaited
    <3>4. "CALENDAR" \in Live' \ destroyReq'
      BY <1>1, <1>2, <1>5, <2>2 DEF MenuInv, DoomInv
    <3> QED
      BY <1>1, <1>2, <3>1, <3>2, <3>3, <3>4 DEF ScenesWait, JobKinds, BoardJobs, SceneOf
  <2> QED
    BY <1>1, <1>4, <2>1, <2>4, <2>6, <2>7, SearchWork
<1>6. CASE reserved # "CALENDAR"
  <2>1. UNCHANGED <<calendar, task1q>>
    BY <1>1, <1>6
  <2>2. SearchInv'
    BY <1>1, <1>2, <1>6, <2>1, SearchSame
  <2>3. ScenesWait
    BY <1>1, <1>2, <2>1 DEF WorkersInv, KeptInv, ScenesWait, Awaited, AwaitedNext, JobKinds
  <2>4. Posts
    BY <2>1, PostsNone
  <2> QED
    BY <1>1, <1>4, <2>2, <2>3, <2>4, MainWork
<1> QED
  BY <1>5, <1>6

-----------------------------------------------------------------------------
(* Scenes that are destroyed.                                              *)

\* The scenes D go: those of Task1 that go have asked for it.
Leave(D) ==
    /\ \E k, r : Dropped(k, D, r)
    /\ D \subseteq Live \ {"ROOT"}
    /\ Live' = Live \ D
    /\ "BOARD" \in D => "BOARD" \in destroyReq
    /\ "CALENDAR" \in D => "CALENDAR" \in destroyReq

\* Detach destroys a subtree of scenes that have asked for it.
LEMMA DetachLeaves ==
    ASSUME MenuInv, Detach PROVE \E D : Leave(D)
<1> USE Names
<1>1. PICK x \in destroyReq : x \in Live /\ x \notin Lasting /\ stage[x] = "done"
  <2>1. destroyReq # {}
    BY DEF Detach, Doomed
  <2> QED
    BY <2>1 DEF MenuInv, DoomInv
<1>2. phase = "detach"
  BY DEF Detach
<1>3. ASSUME NEW o, order = o, NEW k, NEW D, NEW r, Dropped(k, D, r),
             D \subseteq Range(o) \ {"ROOT"}, Range(r) = Range(o) \ D,
             "BOARD" \in D => "BOARD" \in destroyReq,
             "CALENDAR" \in D => "CALENDAR" \in destroyReq
      PROVE  \E d : Leave(d)
  <2>1. order' = r
    BY <1>3 DEF Dropped
  <2>2. Live = Range(o) /\ Live' = Range(r)
    BY <1>3, <2>1 DEF Live
  <2>3. Leave(D)
    BY <1>3, <2>2 DEF Leave
  <2> QED
    BY <2>3
<1>4. ASSUME NEW y \in TopLevel, order = Top(y), y \in destroyReq PROVE \E d : Leave(d)
  <2>1. Dropped(2, {y}, Alone)
    BY <1>4, TopDrops
  <2>2. Range(Top(y)) = {"ROOT", y} /\ Range(Alone) = {"ROOT"} /\ y # "ROOT"
    BY <1>4, ShapeLive
  <2> QED
    BY <1>3, <1>4, <2>1, <2>2
<1>5. ASSUME order \in {BoardOpen, WithChannels}, "BOARD" \in destroyReq,
             "CHANNEL_SELECT" \notin destroyReq
      PROVE  \E d : Leave(d)
  <2>1. CASE order = BoardOpen
    BY <1>3, <1>5, <2>1, BoardDrops, ShapeLive
  <2>2. CASE order = WithChannels
    BY <1>3, <1>5, <2>2, BoardDrops, ShapeLive
  <2> QED
    BY <1>5, <2>1, <2>2
<1>6. CASE AtStart \/ AtNothing
  BY <1>1, <1>6, ShapeLive DEF AtStart, AtNothing, At, Live, Lasting
<1>7. CASE AtTop
  <2>1. PICK y \in {"HEALTH", "LIMIT_OVER", "REBOOT", "SETTING"} : At(Top(y), <<>>, NoCommand)
    BY <1>7 DEF AtTop
  <2>2. x = y /\ order = Top(y)
    BY <1>1, <2>1, ShapeLive DEF At, Live, Lasting
  <2> QED
    BY <1>4, <2>2
<1>8. CASE AtChange
  <2>1. PICK c \in Changes : order = Top(c[1]) \/ order = Alone
    BY <1>2, <1>8 DEF AtChange, At
  <2>2. order # Alone
    BY <1>1, ShapeLive DEF Live, Lasting
  <2>3. x = c[1] /\ order = Top(c[1])
    BY <1>1, <2>1, <2>2, ShapeLive DEF Live, Lasting
  <2>4. c[1] \in TopLevel
    BY DEF Changes
  <2> QED
    BY <1>4, <2>3, <2>4
<1>9. CASE AtOpening
  <2>1. stage["BOARD"] \in {"cdbInit", "init"} /\ x \in {"BOARD", "CHANNEL_SELECT"}
    BY <1>1, <1>9, ShapeLive DEF AtOpening, At, Live, Lasting
  <2> QED
    BY <1>1, <2>1 DEF MenuInv, StageInv
<1>10. CASE AtBoard
  <2>1. x = "BOARD" /\ "CHANNEL_SELECT" \notin Live /\ order = BoardOpen
    BY <1>1, <1>10, ShapeLive DEF AtBoard, At, Live, Lasting
  <2>2. "CHANNEL_SELECT" \notin destroyReq
    BY <2>1 DEF MenuInv, DoomInv
  <2> QED
    BY <1>1, <1>5, <2>1, <2>2
<1>11. CASE AtBoardAndNext
  <2>1. x = "BOARD" /\ stage["BOARD"] \in {"childCst", "childDst", "scroll"}
    BY <1>1, <1>11, ShapeLive DEF AtBoardAndNext, At, Live, Lasting
  <2> QED
    BY <1>1, <2>1
<1>12. CASE AtChannels
  <2>1. x \in {"BOARD", "CHANNEL_SELECT"} /\ order = WithChannels
    BY <1>1, <1>12, ShapeLive DEF AtChannels, At, Live, Lasting
  <2>2. CASE "CHANNEL_SELECT" \in destroyReq
    <3>1. Dropped(4, {"CHANNEL_SELECT"}, BoardOpen)
      BY <2>1, <2>2, ChannelsDrop
    <3> QED
      BY <1>3, <2>1, <3>1, ShapeLive
  <2>3. CASE "CHANNEL_SELECT" \notin destroyReq
    BY <1>1, <1>5, <2>1, <2>3
  <2> QED
    BY <2>2, <2>3
<1>13. CASE AtCalendar
  <2>1. /\ x \in {"BOARD", "CALENDAR"} /\ order = WithCalendar
        /\ stage["BOARD"] \in {"childCst", "childDst", "scroll"}
    BY <1>1, <1>13, ShapeLive DEF AtCalendar, At, Live, Lasting
  <2>2. x = "CALENDAR"
    BY <1>1, <2>1
  <2>3. Dropped(3, {"CALENDAR"}, BoardOpen)
    BY <1>1, <2>1, <2>2, CalendarDrops
  <2> QED
    BY <1>1, <1>3, <2>1, <2>2, <2>3, ShapeLive
<1>14. CASE AtSettings
  <2>1. x = "SETTING_SELECT" /\ order = Settings
    BY <1>1, <1>14, ShapeLive DEF AtSettings, At, Live, Lasting
  <2>2. Dropped(4, {"SETTING_SELECT"}, NoSelect)
    BY <1>1, <2>1, SettingsDrop
  <2> QED
    BY <1>3, <2>1, <2>2, ShapeLive
<1>15. CASE AtScreen
  <2>1. PICK y \in Screens : /\ order \in {Settings, WithScreen(y)}
                             /\ stage["SETTING_SELECT"] \in {"wait2", "wait3"}
    BY <1>15 DEF AtScreen, At
  <2>2. x # "SETTING_SELECT"
    BY <1>1, <2>1
  <2>3. x = y /\ order = WithScreen(y)
    BY <1>1, <2>1, <2>2, ShapeLive DEF Live, Lasting
  <2>4. Dropped(5, {y}, Settings)
    BY <1>1, <2>3, ScreenDrops
  <2>5. {y} \subseteq Range(WithScreen(y)) \ {"ROOT"} /\ Range(Settings) = Range(WithScreen(y)) \ {y}
    BY ShapeLive
  <2> QED
    BY <1>3, <2>3, <2>4, <2>5
<1>16. CASE AtEnd
  <2>1. x = "BOARD" /\ order = BoardOpen
    BY <1>1, <1>16, ShapeLive DEF AtEnd, At, Live, Lasting
  <2>2. "CHANNEL_SELECT" \notin destroyReq
    BY <2>1, ShapeLive DEF MenuInv, DoomInv, Live
  <2> QED
    BY <1>1, <1>5, <2>1, <2>2
<1> QED
  BY <1>6, <1>7, <1>8, <1>9, <1>10, <1>11, <1>12, <1>13, <1>14, <1>15, <1>16
     DEF MenuInv, MapInv

\* The request for everything survives the scene that made it.
LEMMA LeavePending ==
    ASSUME MenuInv, NEW D, Leave(D) PROVE PendingStays
<1> USE Names
<1>1. PICK k, r : Dropped(k, D, r)
  BY DEF Leave
<1>2. /\ D \subseteq Live /\ Live' = Live \ D /\ Live \subseteq SceneId
      /\ command \in [SceneId -> Roots \union {NONE}]
      /\ command' = [x \in SceneId |-> IF x \in D THEN NONE ELSE command[x]]
  BY <1>1, TreeFacts DEF Leave, MenuInv, AskInv, Dropped, Destroy
<1>3. ASSUME NEW x \in Live \ D, command[x] # NONE PROVE RequestPending'
  BY <1>2, <1>3 DEF RequestPending
<1>4. ASSUME NEW x \in D, command[x] # NONE PROVE RequestPending'
  <2> DEFINE q == [i \in DOMAIN mCommands |-> After(mCommands[i], D)]
             c == ReserveAll(command[x])
  <2>1. PICK cs \in CommandsOf(D) : mCommands' = Pushed(q, cs)
    BY <1>1 DEF Dropped
  <2>2. \A y \in D : y # x => command[y] = NONE
    BY <1>2, <1>4, WhoAsks
  <2>3. cs = <<c>>
    BY <1>2, <1>4, <2>2, OneCommandOf
  <2>4. mCommands \in Seq(Command) /\ Len(mCommands) < MAX_COMMANDS
    BY CommandsAre, CommandTypes DEF MenuInv
  <2>5. /\ Len(mCommands) \in Nat /\ DOMAIN mCommands = 1 .. Len(mCommands)
    BY <2>4, LenProperties
  <2>6. q \in Seq(Range(q)) /\ Len(q) = Len(mCommands)
    <3>1. q = [i \in 1 .. Len(mCommands) |-> After(mCommands[i], D)]
      BY <2>5
    <3>2. \A i \in 1 .. Len(mCommands) : After(mCommands[i], D) \in Range(q)
      BY <3>1 DEF Range
    <3> HIDE DEF q
    <3>3. q \in [1 .. Len(mCommands) -> Range(q)]
      BY <3>1, <3>2
    <3> QED
      BY <2>5, <3>3, SeqDef, LenProperties
  <2>7. c.type = "ALL"
    BY CommandNew
  <2> HIDE DEF q, c
  <2> DEFINE S == Range(q) \union {c}
  <2>8. q \in Seq(S) /\ <<c>> \in Seq(S) /\ Len(<<c>>) = 1 /\ <<c>>[1] = c
    BY <2>6, SeqMonotonic
  <2> HIDE DEF S
  <2>9. /\ q \o <<c>> \in Seq(S) /\ Len(q \o <<c>>) = Len(mCommands) + 1
        /\ (q \o <<c>>)[Len(mCommands) + 1] = c
    <3>1. /\ q \o <<c>> \in Seq(S) /\ Len(q \o <<c>>) = Len(q) + 1
          /\ \A i \in 1 .. Len(q) + 1 :
                (q \o <<c>>)[i] = IF i <= Len(q) THEN q[i] ELSE <<c>>[i - Len(q)]
      BY <2>8, ConcatProperties
    <3>2. Len(mCommands) + 1 \in 1 .. Len(mCommands) + 1 /\ ~(Len(mCommands) + 1 <= Len(mCommands))
          /\ (Len(mCommands) + 1) - Len(mCommands) = 1
      BY <2>5
    <3> QED
      BY <2>6, <2>8, <3>1, <3>2
  <2>10. mCommands' = q \o <<c>>
    BY <2>1, <2>3, <2>4, <2>5, <2>9 DEF Pushed, MAX_COMMANDS
  <2>11. c \in Range(mCommands')
    <3>1. Len(mCommands) + 1 \in DOMAIN (q \o <<c>>)
      BY <2>5, <2>9, LenProperties
    <3> QED
      BY <2>9, <2>10, <3>1 DEF Range
  <2> QED
    BY <2>7, <2>11 DEF RequestPending
<1>5. ASSUME NEW c \in Range(mCommands), c.type = "ALL" PROVE RequestPending'
  <2>1. PICK i \in DOMAIN mCommands : c = mCommands[i]
    BY <1>5 DEF Range
  <2>2. DOMAIN mCommands = {1} /\ \A x \in Live : command[x] = NONE
    BY <1>5, <2>1, AllIsAlone
  <2>3. PICK root \in Roots : mCommands = <<ReserveAll(root)>>
    <3>1. Few(mCommands)
      BY CommandsAre DEF MenuInv
    <3>2. PICK a \in Unaimed \union Aimed : mCommands = <<a>>
      <4>1. ASSUME NEW a, NEW b, mCommands = <<a, b>> PROVE FALSE
        <5>1. 2 \in DOMAIN <<a, b>>
          OBVIOUS
        <5> QED
          BY <2>2, <4>1, <5>1
      <4>2. ASSUME NEW a, NEW b, NEW d, mCommands = <<a, b, d>> PROVE FALSE
        <5>1. 2 \in DOMAIN <<a, b, d>>
          OBVIOUS
        <5> QED
          BY <2>2, <4>2, <5>1
      <4>3. mCommands # <<>>
        BY <2>2
      <4> QED
        BY <3>1, <4>1, <4>2, <4>3 DEF Few
    <3>3. a.type = "ALL"
      BY <1>5, <2>1, <2>2, <3>2
    <3>4. NoCommand.type # "ALL"
      BY DEF NoCommand, NONE
    <3>5. \E root \in Roots : a = ReserveAll(root)
      BY <3>3, <3>4, CommandNew DEF Unaimed, Aimed
    <3> QED
      BY <3>2, <3>5
  <2>4. mCommands' = <<ReserveAll(root)>>
    BY <1>1, <1>2, <2>2, <2>3, DropsQuietly
  <2>5. ReserveAll(root) \in Range(mCommands')
    BY <2>4, ShortRange
  <2> QED
    BY <2>5, CommandNew DEF RequestPending
<1> QED
  BY <1>3, <1>4, <1>5 DEF PendingStays, RequestPending

\* No scene goes that waits for a job, or that a kept job looks at.
LEMMA LeaveKept ==
    ASSUME MenuInv, WorkersInv, NEW D, Leave(D)
    PROVE  /\ \A kind \in JobKinds : Awaited(kind) => SceneOf(kind) \in Live' \ D
           /\ \A kind \in JobKinds : AwaitedNext(kind) <=> Awaited(kind)
           /\ Kept(job) /\ ~task.told => UNCHANGED <<task, look>>
<1> USE Names
<1>1. PICK k, r : Dropped(k, D, r)
  BY DEF Leave
<1>2. /\ D \subseteq Live \ {"ROOT"} /\ Live' = Live \ D
      /\ "BOARD" \in D => "BOARD" \in destroyReq
      /\ "CALENDAR" \in D => "CALENDAR" \in destroyReq
      /\ board' = IF "BOARD" \in D THEN NewBoard ELSE board
      /\ calendar' = IF "CALENDAR" \in D THEN NewCalendar ELSE calendar
      /\ task' = IF look \in D \/ (task.scene = "held" /\ SceneOf(job.kind) \in D)
                 THEN [task EXCEPT !.scene = "freed"] ELSE task
      /\ look' = IF look \in D THEN NONE ELSE look
  BY <1>1 DEF Leave, Dropped, Destroy
<1>3. ASSUME NEW kind \in JobKinds, Awaited(kind)
      PROVE  SceneOf(kind) \in Live' \ D
  <2>1. SceneOf(kind) \in Live \ destroyReq
    BY <1>3 DEF WorkersInv, KeptInv, JobKinds
  <2>2. SceneOf(kind) \in {"BOARD", "CALENDAR"}
    BY DEF SceneOf
  <2> QED
    BY <1>2, <2>1, <2>2
<1>4. /\ AwaitedNext("count") <=> Awaited("count")
      /\ AwaitedNext("read") <=> Awaited("read")
      /\ AwaitedNext("search") <=> Awaited("search")
  <2>1. "BOARD" \in D => ~board.count /\ ~board.read
    BY <1>3 DEF Awaited, JobKinds, SceneOf
  <2>2. "CALENDAR" \in D => ~calendar.searching
    BY <1>3 DEF Awaited, JobKinds, SceneOf
  <2>3. ~NewBoard.count /\ ~NewBoard.read /\ ~NewCalendar.searching
    BY DEF NewBoard, NewCalendar
  <2> QED
    BY <1>2, <2>1, <2>2, <2>3 DEF Awaited, AwaitedNext
<1>5. ASSUME Kept(job), ~task.told PROVE UNCHANGED <<task, look>>
  <2>1. job.kind \in JobKinds
    BY <1>5 DEF Kept, JobKinds
  <2>2. Awaited(job.kind) /\ look \in {NONE, "ROOT", "BOARD", SceneOf(job.kind)}
    BY <1>5 DEF WorkersInv, KeptInv
  <2>3. SceneOf(job.kind) \in Live \ D
    BY <1>2, <1>3, <2>1, <2>2
  <2>4. "BOARD" \notin D
    <3>1. CASE SceneOf(job.kind) = "BOARD"
      BY <2>3, <3>1
    <3>2. CASE SceneOf(job.kind) = "CALENDAR"
      <4>1. AtCalendar
        BY <2>3, <3>2, CalendarAt
      <4>2. stage["BOARD"] # "done"
        BY <4>1 DEF AtCalendar
      <4> QED
        BY <1>2, <4>2 DEF MenuInv, DoomInv
    <3> QED
      BY <3>1, <3>2 DEF SceneOf
  <2>5. NONE \notin D
    BY <1>2, TreeFacts DEF MenuInv
  <2> QED
    BY <1>2, <2>2, <2>3, <2>4, <2>5
<1> QED
  BY <1>3, <1>4, <1>5 DEF JobKinds

\* Scenes are destroyed that have asked for it.
LEMMA DetachWork ==
    ASSUME MenuInv, WorkersInv, Detach PROVE WorkersInv'
<1> USE Names
<1>1. PICK D : Leave(D)
  BY DetachLeaves
<1>2. PICK k, r : Dropped(k, D, r)
  BY <1>1 DEF Leave
<1>3. /\ D \subseteq Live \ {"ROOT"} /\ Live' = Live \ D
      /\ destroyReq' = destroyReq \ D
      /\ stage' = [x \in SceneId |-> IF x \in D THEN "gone" ELSE stage[x]]
      /\ calendar' = IF "CALENDAR" \in D THEN NewCalendar ELSE calendar
      /\ task' = IF look \in D \/ (task.scene = "held" /\ SceneOf(job.kind) \in D)
                 THEN [task EXCEPT !.scene = "freed"] ELSE task
      /\ look' = IF look \in D THEN NONE ELSE look
      /\ UNCHANGED <<task1q, job, mbDestroySyncTask>>
  BY <1>1, <1>2 DEF Leave, Dropped, Destroy
<1>4. /\ \A kind \in JobKinds : Awaited(kind) => SceneOf(kind) \in Live' \ D
      /\ \A kind \in JobKinds : AwaitedNext(kind) <=> Awaited(kind)
      /\ Kept(job) /\ ~task.told => UNCHANGED <<task, look>>
  BY <1>1, LeaveKept
<1>5. task \in TaskType /\ NONE \notin D /\ job \in Job
  BY <1>3, WorkTypes, TreeFacts DEF MenuInv
<1>6. task'.told = task.told /\ task'.met = task.met /\ task'.month = task.month
  BY <1>3, <1>5 DEF TaskType
<1>7. look = NONE => look' = NONE
  BY <1>3
<1>8. KeptInv'
  <2>1. ASSUME NEW i \in DOMAIN task1q', Kept(task1q'[i])
        PROVE  /\ AwaitedNext(task1q'[i].kind)
               /\ job'.kind = task1q'[i].kind => task'.told
               /\ \A h \in DOMAIN task1q' : h < i => task1q'[h].kind # task1q'[i].kind
    <3>1. task1q[i].kind \in JobKinds
      BY <1>3, <2>1 DEF Kept, JobKinds
    <3> QED
      BY <1>3, <1>4, <1>6, <2>1, <3>1 DEF WorkersInv, KeptInv
  <2>2. ASSUME Kept(job'), ~task'.told
        PROVE  /\ AwaitedNext(job'.kind)
               /\ task'.scene # "freed"
               /\ look' \in {NONE, "ROOT", "BOARD", SceneOf(job'.kind)}
    <3>1. job.kind \in JobKinds
      BY <1>3, <2>2 DEF Kept, JobKinds
    <3>2. UNCHANGED <<task, look>>
      BY <1>3, <1>4, <1>6, <2>2
    <3> QED
      BY <1>3, <1>4, <2>2, <3>1, <3>2 DEF WorkersInv, KeptInv
  <2>3. \A kind \in JobKinds :
            AwaitedNext(kind) => SceneOf(kind) \in Live' \ destroyReq'
    BY <1>3, <1>4 DEF WorkersInv, KeptInv, JobKinds
  <2> QED
    BY <2>1, <2>2, <2>3, NextKept
<1>9. SyncInv'
  <2>1. PendingStays
    BY <1>1, LeavePending
  <2>2. SyncInv
    BY DEF WorkersInv
  <2> QED
    BY <1>3, <2>1, <2>2 DEF SyncInv, PendingStays
<1>10. TaskInv'
  <2>1. TaskInv
    BY DEF WorkersInv
  <2>2. job = NoJob \/ job.kind = "sync" => task' = NoTask /\ look' = NONE
    <3>1. NoTask.scene # "held"
      BY DEF NoTask, NONE
    <3> QED
      BY <1>3, <1>5, <1>7, <2>1, <3>1 DEF TaskInv
  <2> QED
    BY <1>3, <1>6, <1>7, <2>1, <2>2 DEF TaskInv
<1>11. SearchInv'
  <2>1. SearchInv
    BY DEF WorkersInv
  <2>2. CASE "CALENDAR" \in D
    <3>1. ~Awaited("search") /\ "CALENDAR" \notin Live' /\ calendar' = NewCalendar
      BY <1>3, <1>4, <2>2 DEF JobKinds, SceneOf
    <3>2. job.kind = "search" => task.told
      BY <3>1 DEF WorkersInv, KeptInv, Kept
    <3>3. ~calendar'.searching /\ ~calendar'.canceled /\ calendar'.mark = NONE
      BY <3>1 DEF NewCalendar
    <3> QED
      BY <1>3, <1>6, <3>1, <3>2, <3>3 DEF SearchInv
  <2>3. CASE "CALENDAR" \notin D
    <3>1. /\ UNCHANGED calendar /\ stage'["CALENDAR"] = stage["CALENDAR"]
          /\ "CALENDAR" \in Live' <=> "CALENDAR" \in Live
      BY <1>3, <2>3
    <3>2. job.kind = "search" /\ task.told /\ task.scene = "held" => task'.scene = "held"
      <4>1. task.told => look \notin D
        BY <1>5, <2>1 DEF WorkersInv, TaskInv
      <4> QED
        BY <1>3, <2>3, <4>1 DEF SceneOf
    <3> QED
      BY <1>3, <1>6, <2>1, <3>1, <3>2 DEF SearchInv
  <2> QED
    BY <2>2, <2>3
<1> QED
  BY <1>8, <1>9, <1>10, <1>11 DEF WorkersInv

\* Everything goes, when the sync job has been done: no kept job is left.
LEMMA EverythingWork ==
    ASSUME MenuInv, WorkersInv, ExecReserveAll PROVE WorkersInv'
<1> USE Names
<1>1. /\ reserved = NONE /\ mCommands # <<>> /\ Head(mCommands).type = "ALL"
      /\ mbDestroySyncTask /\ Destroy(Live) /\ order' = <<"ROOT">> /\ ~mbDestroySyncTask'
      /\ UNCHANGED <<task1q, job>>
  BY DEF ExecReserveAll
<1>2. "CALENDAR" \notin Live
  <2>1. AtEnd
    BY <1>1, EndFacts
  <2> QED
    BY <2>1, ShapeLive DEF AtEnd, At, Live
<1>3. Live' = {"ROOT"}
  BY <1>1, ShapeLive DEF Live, Alone
<1>4. /\ board' = IF "BOARD" \in Live THEN NewBoard ELSE board
      /\ UNCHANGED calendar
      /\ task' = IF look \in Live \/ (task.scene = "held" /\ SceneOf(job.kind) \in Live)
                 THEN [task EXCEPT !.scene = "freed"] ELSE task
      /\ look' = IF look \in Live THEN NONE ELSE look
  BY <1>1, <1>2 DEF Destroy
<1>5. task \in TaskType /\ NONE \notin Live /\ job \in Job
  BY WorkTypes, TreeFacts DEF MenuInv
<1>6. task'.told = task.told /\ task'.met = task.met /\ task'.month = task.month
  BY <1>4, <1>5 DEF TaskType
<1>7. look = NONE => look' = NONE
  BY <1>4
<1>8. ~Awaited("search")
  BY <1>2 DEF WorkersInv, KeptInv, SceneOf
<1>9. \A kind \in JobKinds : ~AwaitedNext(kind)
  <2>1. "BOARD" \notin Live => ~Awaited("count") /\ ~Awaited("read")
    BY DEF WorkersInv, KeptInv, SceneOf
  <2>2. ~board'.count /\ ~board'.read
    BY <1>4, <2>1 DEF Awaited, NewBoard
  <2>3. ~calendar'.searching
    BY <1>4, <1>8 DEF Awaited
  <2> QED
    BY <2>2, <2>3 DEF AwaitedNext, JobKinds
<1>10. /\ \A i \in DOMAIN task1q : ~Kept(task1q[i]) /\ task1q[i].kind # "sync"
       /\ Kept(job) => job.kind = "search" /\ task.told
       /\ job.kind # "sync"
  <2>1. /\ \A i \in DOMAIN task1q : task1q[i].late /\ task1q[i].kind # "sync"
        /\ job # NoJob => job.late
        /\ job.kind # "sync"
    BY <1>1 DEF WorkersInv, SyncInv
  <2>2. \A i \in DOMAIN task1q : Kept(task1q[i]) => task1q[i].kind = "search"
    BY <2>1 DEF Kept
  <2>3. Kept(job) => job.kind = "search"
    BY <2>1 DEF Kept, NoJob, NONE
  <2> QED
    BY <1>8, <2>1, <2>2, <2>3 DEF WorkersInv, KeptInv
<1>11. KeptInv'
  <2>1. \A i \in DOMAIN task1q' : ~Kept(task1q'[i])
    BY <1>1, <1>10
  <2>2. Kept(job') => task'.told
    BY <1>1, <1>6, <1>10
  <2> QED
    BY <1>9, <2>1, <2>2, NextKept
<1>12. SyncInv'
  BY <1>1, <1>10 DEF SyncInv
<1>13. TaskInv'
  <2>1. TaskInv
    BY DEF WorkersInv
  <2>2. job = NoJob \/ job.kind = "sync" => task' = NoTask /\ look' = NONE
    <3>1. NoTask.scene # "held"
      BY DEF NoTask, NONE
    <3> QED
      BY <1>4, <1>5, <1>7, <2>1, <3>1 DEF TaskInv
  <2> QED
    BY <1>1, <1>6, <1>7, <2>1, <2>2 DEF TaskInv
<1>14. SearchInv'
  <2>1. calendar' = NewCalendar /\ "CALENDAR" \notin Live'
    BY <1>2, <1>3, <1>4 DEF WorkersInv, SearchInv
  <2>2. ~calendar'.searching /\ ~calendar'.canceled /\ calendar'.mark = NONE
    BY <2>1 DEF NewCalendar
  <2>3. job'.kind = "search" => task'.told
    BY <1>1, <1>6, <1>8 DEF WorkersInv, KeptInv, Kept
  <2> QED
    BY <2>1, <2>2, <2>3 DEF SearchInv
<1> QED
  BY <1>11, <1>12, <1>13, <1>14 DEF WorkersInv

-----------------------------------------------------------------------------
(* Task1: the next job, and the iterator of getScene.                      *)

\* What Task1 leaves to the main thread.
LEMMA TaskLeaves ==
    ASSUME MenuInv, Task1Step
    PROVE  /\ Live' = Live
           /\ UNCHANGED <<order, stage, destroyReq, command, mCommands>>
           /\ RequestPending' <=> RequestPending
<1>1. UNCHANGED <<order, stage, destroyReq, command, mCommands>>
  BY TaskTypes DEF SameSituation
<1> QED
  BY <1>1 DEF Live, RequestPending

\* The next job begins, which was the first of its kind.
LEMMA StartWork ==
    ASSUME MenuInv, WorkersInv, StartJob PROVE WorkersInv'
<1> USE Names
<1>1. /\ job = NoJob /\ task1q # <<>>
      /\ job' = Head(task1q) /\ task1q' = Tail(task1q)
      /\ look' = IF Head(task1q).kind = "sync" THEN NONE ELSE "ROOT"
      /\ UNCHANGED <<board, calendar, task, mbDestroySyncTask>>
  BY DEF StartJob, sceneVars
<1>2. /\ Live' = Live /\ UNCHANGED <<stage, destroyReq>>
      /\ RequestPending' <=> RequestPending
  BY TaskLeaves DEF Task1Step
<1>3. /\ task1q \in Seq(Job) /\ Len(task1q) \in Nat /\ DOMAIN task1q = 1 .. Len(task1q)
  BY WorkTypes
<1>4. /\ job' = task1q[1] /\ 1 \in DOMAIN task1q
      /\ \A i \in DOMAIN task1q' : i + 1 \in DOMAIN task1q /\ task1q'[i] = task1q[i + 1]
      /\ DOMAIN task1q' = 1 .. Len(task1q) - 1
  <2>1. Tail(task1q) \in Seq(Job) /\ Len(Tail(task1q)) = Len(task1q) - 1
    BY <1>1, <1>3, HeadTailProperties, EmptySeq
  <2> QED
    BY <1>1, <1>3, <2>1, TailFacts, LenProperties
<1>5. task = NoTask /\ job.kind = NONE
  BY <1>1 DEF WorkersInv, TaskInv, NoJob
<1>6. ~task.told /\ ~task.met /\ task.scene = NONE /\ task.month = NONE
  BY <1>5 DEF NoTask
<1>7. KeptInv /\ SyncInv /\ TaskInv /\ SearchInv
  BY DEF WorkersInv
<1>8. \A kind \in JobKinds : AwaitedNext(kind) <=> Awaited(kind)
  BY <1>1 DEF AwaitedNext, Awaited
<1>9. KeptInv'
  <2>1. ASSUME NEW i \in DOMAIN task1q', Kept(task1q'[i])
        PROVE  /\ AwaitedNext(task1q'[i].kind)
               /\ job'.kind = task1q'[i].kind => task'.told
               /\ \A h \in DOMAIN task1q' : h < i => task1q'[h].kind # task1q'[i].kind
    <3>1. i + 1 \in DOMAIN task1q /\ task1q'[i] = task1q[i + 1] /\ i \in Nat /\ 1 < i + 1
      BY <1>4
    <3>2. /\ Awaited(task1q[i + 1].kind)
          /\ \A h \in DOMAIN task1q : h < i + 1 => task1q[h].kind # task1q[i + 1].kind
      BY <1>7, <2>1, <3>1 DEF KeptInv
    <3>3. task1q[i + 1].kind \in JobKinds
      BY <2>1, <3>1 DEF Kept, JobKinds
    <3>4. job'.kind # task1q'[i].kind
      BY <1>4, <3>1, <3>2
    <3>5. \A h \in DOMAIN task1q' : h < i => h + 1 < i + 1
      BY <1>4, <3>1
    <3> QED
      BY <1>4, <1>8, <3>1, <3>2, <3>3, <3>4, <3>5
  <2>2. ASSUME Kept(job')
        PROVE  /\ AwaitedNext(job'.kind)
               /\ task'.scene # "freed"
               /\ look' \in {NONE, "ROOT", "BOARD", SceneOf(job'.kind)}
    <3>1. Awaited(job'.kind) /\ job'.kind \in JobKinds
      BY <1>4, <1>7, <2>2 DEF KeptInv, Kept, JobKinds
    <3> QED
      BY <1>1, <1>6, <1>8, <3>1 DEF NONE
  <2>3. \A kind \in JobKinds :
            AwaitedNext(kind) => SceneOf(kind) \in Live' \ destroyReq'
    BY <1>2, <1>7, <1>8 DEF KeptInv, JobKinds
  <2> QED
    BY <2>1, <2>2, <2>3, NextKept
<1>10. SyncInv'
  <2>1. ASSUME NEW i \in DOMAIN task1q', task1q'[i].kind = "sync"
        PROVE  /\ RequestPending /\ ~mbDestroySyncTask
               /\ \A j \in DOMAIN task1q' : i < j => task1q'[j].late /\ task1q'[j].kind # "sync"
    <3>1. i + 1 \in DOMAIN task1q /\ task1q[i + 1].kind = "sync"
      BY <1>4, <2>1
    <3>2. \A j \in DOMAIN task1q' : i < j => i + 1 < j + 1
      BY <1>4
    <3> QED
      BY <1>4, <1>7, <3>1, <3>2 DEF SyncInv
  <2>2. ASSUME job'.kind = "sync"
        PROVE  /\ RequestPending /\ ~mbDestroySyncTask
               /\ \A i \in DOMAIN task1q' : task1q'[i].late /\ task1q'[i].kind # "sync"
    <3>1. \A i \in DOMAIN task1q' : 1 < i + 1
      BY <1>4
    <3> QED
      BY <1>4, <1>7, <2>2, <3>1 DEF SyncInv
  <2>3. ASSUME mbDestroySyncTask
        PROVE  /\ RequestPending /\ job'.late
               /\ \A i \in DOMAIN task1q' : task1q'[i].late /\ task1q'[i].kind # "sync"
    BY <1>4, <1>7, <2>3 DEF SyncInv
  <2> QED
    BY <1>1, <1>2, <2>1, <2>2, <2>3 DEF SyncInv
<1>11. TaskInv'
  <2>1. job'.kind # NONE /\ \A i \in DOMAIN task1q' : task1q'[i].kind # NONE
    BY <1>4, <1>7 DEF TaskInv
  <2>2. job' # NoJob
    BY <2>1 DEF NoJob
  <2> QED
    BY <1>1, <1>5, <1>6, <2>1, <2>2 DEF TaskInv
<1>12. SearchInv'
  BY <1>1, <1>2, <1>5, <1>6, <1>7 DEF SearchInv, NONE
<1> QED
  BY <1>9, <1>10, <1>11, <1>12 DEF WorkersInv

\* Where the iterator comes to.
LEMMA NextLook ==
    ASSUME MenuInv, NEW b \in {"BOARD", "CALENDAR"}, b \in Live, look \in {"ROOT", "BOARD"},
           look # b, LookOn
    PROVE  look' \in {"BOARD", b}
<1> USE Names
<1>1. look' = LET k == IndexOf(look) + 1 IN IF k <= Len(order) THEN order[k] ELSE NONE
  BY DEF LookOn
<1>2. /\ IsTree(order) /\ MapInv
  BY TreeFacts DEF MenuInv
<1>3. "BOARD" \in Live
  <2>1. CASE b = "CALENDAR"
    <3>1. AtCalendar
      BY <2>1, CalendarAt
    <3> QED
      BY <3>1, ShapeLive DEF AtCalendar, At, Live
  <2> QED
    BY <2>1
<1>4. /\ Len(order) \in Nat /\ DOMAIN order = 1 .. Len(order) /\ 1 < Len(order)
      /\ order[1] = "ROOT" /\ order[2] = "BOARD"
  <2>1. PICK i \in DOMAIN order : order[i] = "BOARD"
    BY <1>3 DEF Live, Range
  <2>2. /\ Len(order) \in 1 .. 5 /\ DOMAIN order = 1 .. Len(order) /\ order[1] = "ROOT"
        /\ order[2] = "BOARD"
    BY <1>2, <1>3 DEF IsTree, Live
  <2>3. i \in 1 .. Len(order) /\ i # 1
    BY <2>1, <2>2
  <2> QED
    BY <2>2, <2>3
<1>5. CASE look = "ROOT"
  <2>1. IndexOf("ROOT") = 1
    BY <1>4, IndexIn
  <2> QED
    BY <1>1, <1>4, <1>5, <2>1
<1>6. CASE look = "BOARD"
  <2>1. IndexOf("BOARD") = 2
    BY <1>4, IndexIn
  <2>2. order = WithCalendar
    <3>1. AtCalendar
      BY <1>6, CalendarAt
    <3> QED
      BY <3>1 DEF AtCalendar, At
  <2>3. order[3] = "CALENDAR" /\ 3 <= Len(order)
    BY <2>2, ShapeItems
  <2> QED
    BY <1>1, <1>6, <2>1, <2>3
<1> QED
  BY <1>5, <1>6

\* getScene goes on.
LEMMA LookWork ==
    ASSUME MenuInv, WorkersInv, LookOn PROVE WorkersInv'
<1> USE Names
<1>1. /\ look \notin {NONE, SceneOf(job.kind)}
      /\ UNCHANGED <<board, calendar, task, mbDestroySyncTask, job, task1q>>
  BY DEF LookOn, sceneVars
<1>2. /\ Live' = Live /\ UNCHANGED <<stage, destroyReq>>
      /\ RequestPending' <=> RequestPending
  BY TaskLeaves DEF Task1Step
<1>3. KeptInv /\ SyncInv /\ TaskInv /\ SearchInv
  BY DEF WorkersInv
<1>4. \A kind \in JobKinds : AwaitedNext(kind) <=> Awaited(kind)
  BY <1>1 DEF AwaitedNext, Awaited
<1>5. KeptInv'
  <2>1. ASSUME Kept(job), ~task.told
        PROVE  look' \in {NONE, "ROOT", "BOARD", SceneOf(job.kind)}
    <3>1. /\ Awaited(job.kind) /\ job.kind \in JobKinds
          /\ look \in {"ROOT", "BOARD"}
      BY <1>1, <1>3, <2>1 DEF KeptInv, Kept, JobKinds
    <3>2. SceneOf(job.kind) \in Live
      BY <1>3, <3>1 DEF KeptInv, JobKinds
    <3>3. SceneOf(job.kind) \in {"BOARD", "CALENDAR"}
      BY DEF SceneOf
    <3> QED
      BY <1>1, <3>1, <3>2, <3>3, NextLook
  <2> QED
    BY <1>1, <1>2, <1>3, <1>4, <2>1 DEF KeptInv, Awaited
<1>6. SyncInv'
  BY <1>1, <1>2, <1>3 DEF SyncInv
<1>7. TaskInv'
  BY <1>1, <1>3 DEF TaskInv
<1>8. SearchInv'
  BY <1>1, <1>2, <1>3 DEF SearchInv
<1> QED
  BY <1>5, <1>6, <1>7, <1>8 DEF WorkersInv

-----------------------------------------------------------------------------
(* Task1: the steps of a job with its scene.                               *)

\* The steps in which Task1 works with its scene: the job goes on.
LEMMA StepWork ==
    ASSUME MenuInv, WorkersInv, Task1Step, UNCHANGED <<task1q, job, mbDestroySyncTask>>,
           job # NoJob, job.kind # "sync",
           \A kind \in JobKinds : AwaitedNext(kind) => Awaited(kind),
           \A kind \in JobKinds : Awaited(kind) /\ ~AwaitedNext(kind) =>
               kind = job.kind /\ ~task.told /\ task'.told,
           task.told => task'.told,
           ~task'.told => task'.scene # "freed" /\ look' \in {NONE, "ROOT"},
           task'.told => look' = NONE /\ job.kind \in {"read", "search"},
           task'.met => job.kind = "search",
           SearchInv'
    PROVE  WorkersInv'
<1>1. /\ Live' = Live /\ UNCHANGED <<stage, destroyReq>>
      /\ RequestPending' <=> RequestPending
  BY TaskLeaves
<1>2. KeptInv /\ SyncInv /\ TaskInv
  BY DEF WorkersInv
<1>3. KeptInv'
  <2>1. ASSUME NEW i \in DOMAIN task1q', Kept(task1q'[i])
        PROVE  /\ AwaitedNext(task1q'[i].kind)
               /\ job'.kind = task1q'[i].kind => task'.told
               /\ \A h \in DOMAIN task1q' : h < i => task1q'[h].kind # task1q'[i].kind
    <3>1. /\ Awaited(task1q[i].kind) /\ task1q[i].kind \in JobKinds
          /\ job.kind = task1q[i].kind => task.told
          /\ \A h \in DOMAIN task1q : h < i => task1q[h].kind # task1q[i].kind
      BY <1>2, <2>1 DEF KeptInv, Kept, JobKinds
    <3>2. AwaitedNext(task1q[i].kind)
      BY <3>1
    <3> QED
      BY <3>1, <3>2
  <2>2. ASSUME Kept(job'), ~task'.told
        PROVE  /\ AwaitedNext(job'.kind)
               /\ task'.scene # "freed"
               /\ look' \in {NONE, "ROOT", "BOARD", SceneOf(job'.kind)}
    <3>1. Awaited(job.kind) /\ job.kind \in JobKinds
      BY <1>2, <2>2 DEF KeptInv, Kept, JobKinds
    <3> QED
      BY <2>2, <3>1
  <2>3. \A kind \in JobKinds :
            AwaitedNext(kind) => SceneOf(kind) \in Live' \ destroyReq'
    BY <1>1, <1>2 DEF KeptInv, JobKinds
  <2> QED
    BY <2>1, <2>2, <2>3, NextKept
<1>4. SyncInv'
  BY <1>1, <1>2 DEF SyncInv
<1>5. TaskInv'
  BY <1>2 DEF TaskInv
<1> QED
  BY <1>3, <1>4, <1>5 DEF WorkersInv

\* A scene that is being looked for or used is that of a job.
LEMMA AtWork ==
    ASSUME WorkersInv, look # NONE \/ task.scene = "held"
    PROVE  job # NoJob /\ job.kind # "sync"
BY DEF WorkersInv, TaskInv, NoTask, NONE

\* The task has found its scene.
LEMMA FoundWork ==
    ASSUME MenuInv, WorkersInv, Found PROVE WorkersInv'
<1> USE Names
<1>1. /\ look = SceneOf(job.kind) /\ task.scene = NONE
      /\ task' = [task EXCEPT !.scene = "held"] /\ look' = NONE
      /\ UNCHANGED <<task1q, job, mbDestroySyncTask, board, calendar, stage>>
  BY DEF Found, sceneVars
<1>2. task \in TaskType
  BY WorkTypes
<1>3. /\ task'.scene = "held" /\ task'.told = task.told /\ task'.met = task.met
      /\ task'.month = task.month
  BY <1>1, <1>2 DEF TaskType
<1>4. look # NONE
  BY <1>1 DEF SceneOf
<1>5. job # NoJob /\ job.kind # "sync" /\ ~task.told
  BY <1>4, AtWork DEF WorkersInv, TaskInv
<1>6. \A kind \in JobKinds : AwaitedNext(kind) <=> Awaited(kind)
  BY <1>1 DEF AwaitedNext, Awaited
<1>7. Live' = Live
  BY TaskLeaves DEF Task1Step
<1>8. SearchInv'
  BY <1>1, <1>3, <1>5, <1>7 DEF WorkersInv, SearchInv
<1> QED
  BY <1>1, <1>3, <1>5, <1>6, <1>8, StepWork DEF Task1Step, WorkersInv, TaskInv

\* The search comes to a date, or to a record.
LEMMA SearchGoesOn ==
    ASSUME MenuInv, WorkersInv, SearchDate \/ MeetRecord PROVE WorkersInv'
<1> USE Names
<1>1. /\ Working({"search"})
      /\ \/ task' = [task EXCEPT !.month = calendar.month] /\ look' = look
         \/ task' = [task EXCEPT !.met = TRUE] /\ look' = "ROOT"
      /\ UNCHANGED <<task1q, job, mbDestroySyncTask, board, calendar, stage>>
  BY DEF SearchDate, MeetRecord, sceneVars
<1>2. job.kind = "search" /\ task.scene = "held" /\ ~task.told /\ look = NONE
  BY <1>1 DEF Working
<1>3. task \in TaskType
  BY WorkTypes
<1>4. /\ task'.scene = "held" /\ ~task'.told
      /\ task'.month = task.month \/ task'.month = calendar.month
      /\ look' \in {NONE, "ROOT"}
  BY <1>1, <1>2, <1>3 DEF TaskType
<1>5. job # NoJob /\ job.kind # "sync"
  BY <1>2, AtWork
<1>6. \A kind \in JobKinds : AwaitedNext(kind) <=> Awaited(kind)
  BY <1>1 DEF AwaitedNext, Awaited
<1>7. Live' = Live
  BY TaskLeaves DEF Task1Step
<1>8. SearchInv'
  BY <1>1, <1>2, <1>4, <1>7 DEF WorkersInv, SearchInv
<1> QED
  BY <1>1, <1>2, <1>4, <1>5, <1>6, <1>8, StepWork DEF Task1Step

\* A date is marked: it is of the month that the Calendar shows.
LEMMA RecordWork ==
    ASSUME MenuInv, WorkersInv, UseRecord PROVE WorkersInv'
<1> USE Names
<1>1. /\ task.met /\ look = SceneOf(job.kind) /\ look' = NONE
      /\ calendar' = [calendar EXCEPT !.mark = task.month]
      /\ UNCHANGED <<task1q, job, task, mbDestroySyncTask, board, stage>>
  BY DEF UseRecord
<1>2. calendar \in CalendarType /\ look \in Live \union {NONE}
  BY WorkTypes
<1>3. /\ calendar'.searching = calendar.searching /\ calendar'.canceled = calendar.canceled
      /\ calendar'.month = calendar.month /\ calendar'.whole = calendar.whole
      /\ calendar'.mark = task.month
  BY <1>1, <1>2 DEF CalendarType
<1>4. look # NONE
  BY <1>1 DEF SceneOf
<1>5. job # NoJob /\ job.kind = "search" /\ ~task.told
  BY <1>1, <1>4, AtWork DEF WorkersInv, TaskInv
<1>6. "CALENDAR" \in Live
  BY <1>1, <1>2, <1>4, <1>5 DEF SceneOf
<1>7. \A kind \in JobKinds : AwaitedNext(kind) <=> Awaited(kind)
  BY <1>1, <1>3 DEF AwaitedNext, Awaited
<1>8. Live' = Live
  BY TaskLeaves DEF Task1Step
<1>9. task.month \in {NONE, calendar.month}
  BY <1>5 DEF WorkersInv, SearchInv
<1>10. SearchInv'
  BY <1>1, <1>3, <1>5, <1>6, <1>8, <1>9 DEF WorkersInv, SearchInv
<1>11. task.scene # "freed"
  BY <1>5 DEF WorkersInv, KeptInv, Kept
<1> QED
  BY <1>1, <1>5, <1>7, <1>10, <1>11, StepWork DEF Task1Step

\* The scene hears that its job is done.
LEMMA TellWork ==
    ASSUME MenuInv, WorkersInv, JobTells PROVE WorkersInv'
<1> USE Names
<1>1. /\ Working({"read", "search"})
      /\ job.kind = "search" => calendar.canceled \/ task.month # NONE
      /\ task' = [task EXCEPT !.told = TRUE]
      /\ IF job.kind = "read"
         THEN board' = [board EXCEPT !.read = FALSE] /\ UNCHANGED calendar
         ELSE /\ calendar' = [calendar EXCEPT !.searching = FALSE,
                                              !.whole = task.month # NONE]
              /\ UNCHANGED board
      /\ UNCHANGED <<task1q, job, look, mbDestroySyncTask, stage>>
  BY DEF JobTells
<1>2. job.kind \in {"read", "search"} /\ task.scene = "held" /\ ~task.told /\ look = NONE
  BY <1>1 DEF Working
<1>3. task \in TaskType /\ board \in BoardType /\ calendar \in CalendarType
  BY WorkTypes
<1>4. /\ task'.scene = "held" /\ task'.told /\ task'.met = task.met
      /\ task'.month = task.month
  BY <1>1, <1>2, <1>3 DEF TaskType
<1>5. job # NoJob /\ job.kind # "sync"
  BY <1>2, AtWork
<1>6. /\ board'.count = board.count /\ (board'.read => board.read)
      /\ board'.read = board.read \/ job.kind = "read"
      /\ calendar'.searching => calendar.searching
      /\ calendar'.searching = calendar.searching \/ job.kind = "search"
      /\ calendar'.canceled = calendar.canceled /\ calendar'.month = calendar.month
      /\ calendar'.mark = calendar.mark
  BY <1>1, <1>2, <1>3 DEF BoardType, CalendarType
<1>7. /\ \A kind \in JobKinds : AwaitedNext(kind) => Awaited(kind)
      /\ \A kind \in JobKinds : Awaited(kind) /\ ~AwaitedNext(kind) => kind = job.kind
  BY <1>6 DEF AwaitedNext, Awaited
<1>8. Live' = Live
  BY TaskLeaves DEF Task1Step
<1>9. SearchInv /\ TaskInv
  BY DEF WorkersInv
<1>10. SearchInv'
  <2>1. CASE job.kind = "read"
    BY <1>1, <1>4, <1>8, <1>9, <2>1 DEF SearchInv
  <2>2. CASE job.kind = "search"
    <3>1. "CALENDAR" \in Live
      BY <1>2, <2>2 DEF WorkersInv, KeptInv, Kept, SceneOf
    <3>2. calendar.canceled => stage["CALENDAR"] = "waitTask"
      BY <1>2, <1>9 DEF SearchInv
    <3>3. calendar'.whole = (task.month # NONE) /\ ~calendar'.searching
      BY <1>1, <1>3, <2>2 DEF CalendarType
    <3>4. stage["CALENDAR"] \in {"in", "normal", "waitExit"} => calendar'.whole
      BY <1>1, <2>2, <3>2, <3>3
    <3> QED
      BY <1>1, <1>4, <1>6, <1>8, <1>9, <2>2, <3>1, <3>3, <3>4 DEF SearchInv
  <2> QED
    BY <1>2, <2>1, <2>2
<1> QED
  BY <1>1, <1>2, <1>4, <1>5, <1>7, <1>9, <1>10, StepWork DEF Task1Step, TaskInv

\* The job is done.
LEMMA FinishWork ==
    ASSUME MenuInv, WorkersInv, FinishJob PROVE WorkersInv'
<1> USE Names
<1> DEFINE held == task.scene = "held"
<1>1. /\ job # NoJob /\ look = NONE /\ ~Working({"read", "search"})
      /\ board' = [board EXCEPT !.count = @ /\ ~(held /\ job.kind = "count")]
      /\ calendar' = [calendar EXCEPT !.canceled = @ /\ ~(held /\ job.kind = "search")]
      /\ mbDestroySyncTask' = (mbDestroySyncTask \/ job.kind = "sync")
      /\ job' = NoJob /\ task' = NoTask
      /\ UNCHANGED <<stage, task1q, look>>
  BY DEF FinishJob
<1>2. board \in BoardType /\ calendar \in CalendarType
  BY WorkTypes
<1>3. /\ board'.read = board.read
      /\ board'.count <=> board.count /\ ~(held /\ job.kind = "count")
      /\ calendar'.searching = calendar.searching /\ calendar'.month = calendar.month
      /\ calendar'.mark = calendar.mark /\ calendar'.whole = calendar.whole
      /\ calendar'.canceled <=> calendar.canceled /\ ~(held /\ job.kind = "search")
  BY <1>1, <1>2 DEF BoardType, CalendarType
<1>4. /\ Live' = Live /\ UNCHANGED destroyReq
      /\ RequestPending' <=> RequestPending
  BY TaskLeaves DEF Task1Step
<1>5. KeptInv /\ SyncInv /\ TaskInv /\ SearchInv
  BY DEF WorkersInv
<1>6. /\ job'.kind = NONE /\ ~task'.told /\ ~task'.met
  BY <1>1 DEF NoJob, NoTask
<1>7. /\ \A kind \in JobKinds : AwaitedNext(kind) => Awaited(kind)
      /\ \A kind \in JobKinds : Awaited(kind) /\ ~AwaitedNext(kind) =>
             kind = "count" /\ job.kind = "count"
  BY <1>3 DEF AwaitedNext, Awaited
<1>8. KeptInv'
  <2>1. ASSUME NEW i \in DOMAIN task1q', Kept(task1q'[i])
        PROVE  /\ AwaitedNext(task1q'[i].kind)
               /\ job'.kind = task1q'[i].kind => task'.told
               /\ \A h \in DOMAIN task1q' : h < i => task1q'[h].kind # task1q'[i].kind
    <3>1. /\ Awaited(task1q[i].kind) /\ task1q[i].kind \in JobKinds
          /\ job.kind = task1q[i].kind => task.told
          /\ \A h \in DOMAIN task1q : h < i => task1q[h].kind # task1q[i].kind
      BY <1>1, <1>5, <2>1 DEF KeptInv, Kept, JobKinds
    <3>2. AwaitedNext(task1q[i].kind)
      BY <1>5, <1>7, <3>1 DEF TaskInv
    <3>3. job'.kind # task1q[i].kind
      BY <1>6, <3>1 DEF JobKinds, NONE
    <3> QED
      BY <1>1, <3>1, <3>2, <3>3
  <2>2. ~Kept(job')
    BY <1>6 DEF Kept, NONE
  <2>3. \A kind \in JobKinds :
            AwaitedNext(kind) => SceneOf(kind) \in Live' \ destroyReq'
    BY <1>4, <1>5, <1>7 DEF KeptInv, JobKinds
  <2> QED
    BY <2>1, <2>2, <2>3, NextKept
<1>9. SyncInv'
  BY <1>1, <1>4, <1>5, <1>6 DEF SyncInv, NONE
<1>10. TaskInv'
  BY <1>1, <1>5, <1>6 DEF TaskInv
<1>11. SearchInv'
  <2>1. "CALENDAR" \notin Live' => calendar' = NewCalendar
    <3> SUFFICES ASSUME "CALENDAR" \notin Live' PROVE calendar' = NewCalendar
      OBVIOUS
    <3>1. calendar = NewCalendar
      BY <1>4, <1>5 DEF SearchInv
    <3>2. calendar.canceled = FALSE
      BY <3>1 DEF NewCalendar
    <3>3. (calendar.canceled /\ ~(held /\ job.kind = "search")) = FALSE
      BY <3>2
    <3>4. calendar' = [calendar EXCEPT !.canceled = FALSE]
      BY <1>1, <3>3
    <3> QED
      BY <3>1, <3>4 DEF NewCalendar
  <2>2. calendar'.canceled => calendar'.searching /\ stage'["CALENDAR"] = "waitTask"
    BY <1>1, <1>3, <1>5 DEF SearchInv
  <2> QED
    BY <1>1, <1>3, <1>4, <1>5, <1>6, <2>1, <2>2 DEF SearchInv, NONE
<1> QED
  BY <1>8, <1>9, <1>10, <1>11 DEF WorkersInv

\* Every step of Task1.
LEMMA TasksWork ==
    ASSUME MenuInv, WorkersInv, Task1Step PROVE WorkersInv'
BY StartWork, LookWork, FoundWork, SearchGoesOn, RecordWork, TellWork, FinishWork
   DEF Task1Step

-----------------------------------------------------------------------------
(* The theorems.                                                            *)

\* No job and no scene but the root.
LEMMA WorkersInit == Init => WorkersInv
<1> SUFFICES ASSUME Init PROVE WorkersInv
  OBVIOUS
<1> USE Names
<1>1. /\ task1q = <<>> /\ job = NoJob /\ task = NoTask /\ look = NONE
      /\ calendar = NewCalendar /\ board = NewBoard /\ ~mbDestroySyncTask
      /\ Live = {"ROOT"}
  BY ShapeLive DEF Init, Live, Alone
<1>2. /\ DOMAIN task1q = {} /\ job.kind = NONE
      /\ ~task.told /\ ~task.met
      /\ ~calendar.searching /\ ~calendar.canceled /\ calendar.mark = NONE
      /\ ~board.count /\ ~board.read
  BY <1>1 DEF NoJob, NoTask, NewCalendar, NewBoard
<1>3. KeptInv
  BY <1>2 DEF KeptInv, Kept, Awaited, NONE
<1>4. SyncInv
  BY <1>1, <1>2 DEF SyncInv, NONE
<1>5. TaskInv
  BY <1>1, <1>2 DEF TaskInv
<1>6. SearchInv
  BY <1>1, <1>2 DEF SearchInv, NONE
<1> QED
  BY <1>3, <1>4, <1>5, <1>6 DEF WorkersInv

\* Every step of the menu.
LEMMA WorkersNext == MenuInv /\ MenuInv' /\ WorkersInv /\ [Next]_vars => WorkersInv'
<1> SUFFICES ASSUME MenuInv, MenuInv', WorkersInv, [Next]_vars PROVE WorkersInv'
  OBVIOUS
<1>1. CASE UserStep \/ OwnStep
  BY <1>1, CallsWork
<1>2. CASE Idle
  BY <1>2, FrameWork
<1>3. CASE ManagerStep
  BY <1>3, CreateWork, EverythingWork, AttachWork, DetachWork, FrameWork
     DEF ManagerStep, AttachToFreed
<1>4. CASE ThreadStep
  BY <1>4, FrameWork, TasksWork DEF ThreadStep
<1>5. CASE UNCHANGED vars
  BY <1>5, FrameWork DEF vars
<1> QED
  BY <1>1, <1>2, <1>3, <1>4, <1>5 DEF Next, MainStep

\* What Task1 and the scenes know of each other: a scene waits for the job that uses
\* it, the sync job is behind all jobs posted before it, and a search is of the
\* month that the Calendar shows (iplBoard.cpp, iplCalendar.cpp).  It holds with the
\* map, thus until the Board strays.
THEOREM WorkersHold == Spec => [](Strayed \/ WorkersInv)
<1>1. Init => Mapped /\ WorkersInv
  BY MapInit, WorkersInit DEF Mapped, StrayInv, Init, NewBoard
<1>2. (Strayed \/ (Mapped /\ WorkersInv)) /\ [Next]_vars
          => (Strayed \/ (Mapped /\ WorkersInv))'
  <2> SUFFICES ASSUME Strayed \/ (Mapped /\ WorkersInv), [Next]_vars, ~Strayed'
               PROVE  Mapped' /\ WorkersInv'
    OBVIOUS
  <2>1. ~Strayed
    BY StrayedStays
  <2>2. Mapped'
    BY <2>1, MapNext
  <2> QED
    BY <2>1, <2>2, WorkersNext DEF Mapped
<1> QED
  BY <1>1, <1>2, PTL DEF Spec

\* Under the invariant a job that has lost its scene does not use it again.
LEMMA KeptScenes == MenuInv /\ WorkersInv => ScenesOutliveJobs
<1> SUFFICES ASSUME MenuInv, WorkersInv, task.scene = "freed", ~task.told
             PROVE  job.kind # "search" /\ (job.late \/ job.over)
  BY DEF ScenesOutliveJobs
<1>1. ~Kept(job)
  BY DEF WorkersInv, KeptInv
<1>2. job.kind # "sync" /\ job.kind # NONE
  BY DEF WorkersInv, TaskInv, NoTask, NONE
<1>3. job.kind \in {NONE, "count", "read", "search", "sync"}
  BY WorkTypes DEF Job
<1> QED
  BY <1>1, <1>2, <1>3 DEF Kept

\* Under the invariant the marks are of the month shown.
LEMMA TrueMarks == MenuInv /\ WorkersInv => MarksAreTrue
<1> SUFFICES ASSUME MenuInv, WorkersInv PROVE MarksAreTrue
  OBVIOUS
<1>1. stage["CALENDAR"] \in {"normal", "waitExit"} => "CALENDAR" \in Live
  <2>1. "CALENDAR" \in SceneId /\ InitStage("CALENDAR") = "in"
    BY Names, InitStages
  <2> QED
    BY <2>1, PastInit
<1> QED
  BY <1>1 DEF MarksAreTrue, WorkersInv, SearchInv

\* Task1 does not use a scene that the main thread has freed, but for a job of the
\* Board that was posted after a request to destroy everything, or while one of its
\* kind was outstanding, and for the last store of a job that has told its scene;
\* unless the Board strayed.
THEOREM JobsOutlived == Spec => [](Strayed \/ ScenesOutliveJobs)
<1>1. (Strayed \/ Mapped) /\ (Strayed \/ WorkersInv) => Strayed \/ ScenesOutliveJobs
  BY KeptScenes DEF Mapped
<1> QED
  BY <1>1, MapHolds, WorkersHold, PTL

\* The Calendar shows the marks of its month, and all of them once its search is
\* over, whatever search Task1 was running when the user turned the page; unless
\* the Board strayed.
THEOREM MarksStayTrue == Spec => [](Strayed \/ MarksAreTrue)
<1>1. (Strayed \/ Mapped) /\ (Strayed \/ WorkersInv) => Strayed \/ MarksAreTrue
  BY TrueMarks DEF Mapped
<1> QED
  BY <1>1, MapHolds, WorkersHold, PTL
=============================================================================
