-------------------------- MODULE TaskThreadProofs --------------------------
(***************************************************************************)
(* Proofs about TaskThread for every number of slots, jobs and requesters; *)
(* the second half is about requesters that all run before the worker.     *)
(***************************************************************************)
EXTENDS TaskThread, SequenceTheorems, TLAPS

-----------------------------------------------------------------------------
(* Type correctness.  What the steps need beyond TypeOK: a worker past      *)
(* waitMessageBlock has a slot in hand, and a call has a job.               *)

TypeInv ==
    /\ TypeOK
    /\ wpc # "wait" => current \in Slot
    /\ wpc = "run" => run.task \in Job
    /\ wpc # "run" => run.task = NULL
    /\ \A r \in Requester : rpc[r] # "idle" => rjob[r] \in Job

\* The state create() leaves behind is well typed.
LEMMA TypeInit == Init => TypeInv
BY JobNumAssumption, EndNumAssumption
   DEF Init, TypeInv, TypeOK, Slot

\* What sending, jamming and receiving do to a queue of at most n elements.
LEMMA QueueTypes ==
    ASSUME NEW S, NEW n \in Nat, NEW q \in Seq(S), NEW x \in S
    PROVE  /\ Len(q) < n => /\ Append(q, x) \in Seq(S)
                            /\ Len(Append(q, x)) <= n
                            /\ <<x>> \o q \in Seq(S)
                            /\ Len(<<x>> \o q) <= n
           /\ q # <<>> => /\ Head(q) \in S
                          /\ Tail(q) \in Seq(S)
                          /\ Len(Tail(q)) < Len(q)
<1>1. <<x>> \in Seq(S) /\ Len(<<x>>) = 1
  OBVIOUS
<1>2. <<x>> \o q \in Seq(S) /\ Len(<<x>> \o q) = 1 + Len(q)
  BY <1>1, ConcatProperties
<1>3. Append(q, x) \in Seq(S) /\ Len(Append(q, x)) = Len(q) + 1
  BY AppendProperties
<1>4. q # <<>> => /\ Head(q) \in S
                  /\ Tail(q) \in Seq(S) /\ Len(Tail(q)) = Len(q) - 1
  BY HeadTailProperties
<1>5. Len(q) \in Nat
  OBVIOUS
<1> QED
  BY <1>2, <1>3, <1>4, <1>5

\* Every step of a requester, of the worker and of the owner of the end queue
\* keeps the types.
LEMMA TypeNext == TypeInv /\ [Next]_vars => TypeInv'
<1> SUFFICES ASSUME TypeInv, [Next]_vars
             PROVE  TypeInv'
  OBVIOUS
<1>1. ASSUME NEW r \in Requester, NEW j \in Job, Begin(r, j)
      PROVE  TypeInv'
  BY <1>1, JobNumAssumption
     DEF Begin, workerVars, slotVars, Slot, TypeInv, TypeOK
<1>2. ASSUME NEW r \in Requester, Scan(r)
      PROVE  TypeInv'
  <2>1. /\ rpc' \in [Requester -> {"idle", "scan", "blank", "task", "arg",
                                   "mesg", "send", "undo"}]
        /\ rslot' \in [Requester -> Slot]
        /\ refused' \subseteq Job
        /\ \A q \in Requester : rpc'[q] # "idle" => rpc[q] # "idle"
    <3>1. CASE pTask[rslot[r]] = NULL
      BY <1>2, <3>1 DEF Scan, TypeInv, TypeOK
    <3>2. CASE pTask[rslot[r]] # NULL /\ rslot[r] < JobNum
      <4>1. rslot' = [rslot EXCEPT ![r] = rslot[r] + 1] /\ UNCHANGED <<rpc, refused>>
        BY <1>2, <3>2, JobNumAssumption DEF Scan, Slot, TypeInv, TypeOK
      <4>2. rslot[r] + 1 \in Slot
        BY <3>2, JobNumAssumption DEF Slot, TypeInv, TypeOK
      <4> QED
        BY <4>1, <4>2 DEF TypeInv, TypeOK
    <3>3. CASE pTask[rslot[r]] # NULL /\ rslot[r] = JobNum
      <4>1. /\ rpc' = [rpc EXCEPT ![r] = "idle"]
            /\ refused' = refused \union {rjob[r]}
            /\ rslot' = rslot
        BY <1>2, <3>3, JobNumAssumption DEF Scan
      <4>2. rjob[r] \in Job
        BY <1>2 DEF Scan, TypeInv
      <4> QED
        BY <4>1, <4>2 DEF TypeInv, TypeOK
    <3> QED
      BY <1>2, <3>1, <3>2, <3>3 DEF Scan
  <2> QED
    BY <1>2, <2>1 DEF Scan, workerVars, slotVars, TypeInv, TypeOK
<1>3. ASSUME NEW r \in Requester, ClearBlank(r)
      PROVE  TypeInv'
  BY <1>3, JobNumAssumption, KindAssumption
     DEF ClearBlank, workerVars, slotVars, Unstarted, TypeInv, TypeOK
<1>4. ASSUME NEW r \in Requester, StoreTask(r)
      PROVE  TypeInv'
  BY <1>4, JobNumAssumption, KindAssumption
     DEF StoreTask, workerVars, slotVars, Unstarted, TypeInv, TypeOK
<1>5. ASSUME NEW r \in Requester, StoreArg(r)
      PROVE  TypeInv'
  BY <1>5, JobNumAssumption, KindAssumption
     DEF StoreArg, workerVars, slotVars, historyVars, TypeInv, TypeOK
<1>6. ASSUME NEW r \in Requester, StoreMesg(r)
      PROVE  TypeInv'
  BY <1>6, JobNumAssumption, KindAssumption
     DEF StoreMesg, workerVars, slotVars, historyVars, MesgOf, TypeInv, TypeOK
<1>7. ASSUME NEW r \in Requester, Send(r)
      PROVE  TypeInv'
  <2>1. /\ JobNum \in Nat /\ rslot[r] \in Slot /\ rjob[r] \in Job
        /\ queue \in Seq(Slot) /\ Len(queue) <= JobNum /\ accepted \in Seq(Job)
    BY <1>7, JobNumAssumption DEF Send, TypeInv, TypeOK
  <2>2. CASE Len(queue) < JobNum
    <3>0. /\ queue' = IF rjob[r] \in Jam THEN <<rslot[r]>> \o queue
                                         ELSE Append(queue, rslot[r])
          /\ accepted' = Append(accepted, rjob[r])
      <4>1. Len(queue) \in Nat
        BY <2>1, LenProperties
      <4> QED
        BY <1>7, <2>1, <2>2, <4>1 DEF Send
    <3>1. queue' \in Seq(Slot) /\ Len(queue') <= JobNum
      BY <3>0, <2>1, <2>2, QueueTypes
    <3>2. accepted' \in Seq(Job)
      BY <3>0, <2>1, AppendProperties
    <3>3. rpc' \in [Requester -> {"idle", "scan", "blank", "task", "arg",
                                  "mesg", "send", "undo"}]
      BY <1>7, <2>2 DEF Send, TypeInv, TypeOK
    <3> QED
      BY <1>7, <3>1, <3>2, <3>3
         DEF Send, workerVars, slotVars, TypeInv, TypeOK
  <2>3. CASE ~(Len(queue) < JobNum)
    BY <1>7, <2>1, <2>3 DEF Send, workerVars, slotVars, TypeInv, TypeOK
  <2> QED
    BY <2>2, <2>3
<1>8. ASSUME NEW r \in Requester, Undo(r)
      PROVE  TypeInv'
  BY <1>8, JobNumAssumption, KindAssumption
     DEF Undo, workerVars, slotVars, Unstarted, TypeInv, TypeOK
<1>9. CASE Receive
  <2>1. JobNum \in Nat /\ queue \in Seq(Slot) /\ Len(queue) <= JobNum
    BY JobNumAssumption DEF TypeInv, TypeOK
  <2>2. current' \in Slot /\ queue' \in Seq(Slot) /\ Len(queue') < Len(queue)
    BY <1>9, <2>1, QueueTypes DEF Receive
  <2>3. Len(queue') <= JobNum
    BY <2>1, <2>2, LenProperties
  <2> QED
    BY <1>9, <2>2, <2>3
       DEF Receive, slotVars, callVars, historyVars, TypeInv, TypeOK
<1>10. CASE Enter
  BY <1>10, JobNumAssumption, KindAssumption
     DEF Enter, slotVars, callVars, historyVars, TypeInv, TypeOK
<1>11. CASE EnterEmpty
  BY <1>11, JobNumAssumption, KindAssumption
     DEF EnterEmpty, slotVars, callVars, historyVars, TypeInv, TypeOK
<1>12. CASE Finish
  BY <1>12, JobNumAssumption, KindAssumption
     DEF Finish, slotVars, callVars, historyVars, TypeInv, TypeOK
<1>13. CASE EndMesg
  <2>1. /\ EndNum \in Nat /\ endq \in Seq(Job) /\ Len(endq) <= EndNum
        /\ endMesg[current] \in Job \union {NULL}
    BY <1>13, EndNumAssumption DEF EndMesg, TypeInv, TypeOK
  <2>2. endq' \in Seq(Job) /\ Len(endq') <= EndNum
    <3>1. CASE endMesg[current] # NULL /\ Len(endq) < EndNum
      BY <1>13, <2>1, <3>1, QueueTypes DEF EndMesg
    <3>2. CASE ~(endMesg[current] # NULL /\ Len(endq) < EndNum)
      BY <1>13, <2>1, <3>2 DEF EndMesg
    <3> QED
      BY <3>1, <3>2
  <2> QED
    BY <1>13, <2>2
       DEF EndMesg, slotVars, callVars, historyVars, TypeInv, TypeOK
<1>14. CASE Clear
  BY <1>14, JobNumAssumption, KindAssumption
     DEF Clear, callVars, Unstarted, TypeInv, TypeOK
<1>15. CASE Wipe
  BY <1>15, JobNumAssumption, KindAssumption
     DEF Wipe, callVars, Unstarted, TypeInv, TypeOK
<1>16. CASE TakeEndMesg
  <2>1. EndNum \in Nat /\ endq \in Seq(Job) /\ Len(endq) <= EndNum
    BY EndNumAssumption DEF TypeInv, TypeOK
  <2>2. endq' \in Seq(Job) /\ Len(endq') < Len(endq)
    BY <1>16, <2>1, QueueTypes DEF TakeEndMesg
  <2>3. Len(endq') <= EndNum
    BY <2>1, <2>2, LenProperties
  <2> QED
    BY <1>16, <2>2, <2>3
       DEF TakeEndMesg, slotVars, callVars, historyVars, TypeInv, TypeOK
<1>17. CASE UNCHANGED vars
  BY <1>17, JobNumAssumption, KindAssumption
     DEF vars, workerVars, slotVars, callVars, historyVars, TypeInv, TypeOK
<1> QED
  BY <1>1, <1>2, <1>3, <1>4, <1>5, <1>6, <1>7, <1>8, <1>9, <1>10, <1>11,
     <1>12, <1>13, <1>14, <1>15, <1>16, <1>17
     DEF Next, RequesterStep, WorkerStep

\* The message queue and the end queue never hold more than their arrays have
\* room for, and every pointer taken from a queue is a slot of mpJobList.
THEOREM TypeCorrect == Spec => []TypeOK
<1>1. Init => TypeInv
  BY TypeInit
<1>2. TypeInv /\ [Next]_vars => TypeInv'
  BY TypeNext
<1>3. TypeInv => TypeOK
  BY DEF TypeInv
<1> QED
  BY <1>1, <1>2, <1>3, PTL DEF Spec

-----------------------------------------------------------------------------
(* No job runs twice.  The invariant says where a job can be: a call that   *)
(* has not stored its job is the only one to know it, a job is in one slot  *)
(* at most, and a job that was started stays in its slot only until the     *)
(* worker clears it.                                                        *)

Unstored == {"scan", "blank", "task"}
Stored   == {"arg", "mesg", "send", "undo"}

OnceInv ==
    /\ \A j \in Job : runs[j] <= 1
    /\ \A j \in Job : runs[j] > 0 => j \in requested
    /\ \A s, t \in Slot : pTask[s] = pTask[t] /\ pTask[s] # NULL => s = t
    /\ \A s \in Slot : pTask[s] # NULL => pTask[s] \in requested
    /\ \A r \in Requester : rpc[r] # "idle" => rjob[r] \in requested
    /\ \A r, q \in Requester :
          rpc[r] # "idle" /\ rpc[q] # "idle" /\ rjob[r] = rjob[q] => r = q
    /\ \A r \in Requester : rpc[r] \in Unstored =>
          runs[rjob[r]] = 0 /\ \A s \in Slot : pTask[s] # rjob[r]
    /\ \A s \in Slot : pTask[s] # NULL /\ runs[pTask[s]] > 0 =>
          current = s /\ wpc \in {"run", "mesg", "clear"}

\* At first no job is anywhere.
LEMMA OnceInit == Init => OnceInv
BY NullAssumption DEF Init, OnceInv, Unstored

\* No step stores a job twice, or leaves one that was started in a slot whose
\* pointer the worker may still take up.
LEMMA OnceNext == TypeInv /\ OnceInv /\ [Next]_vars => OnceInv'
<1> SUFFICES ASSUME TypeInv, OnceInv, [Next]_vars
             PROVE  OnceInv'
  OBVIOUS
<1>1. ASSUME NEW r \in Requester, NEW j \in Job, Begin(r, j)
      PROVE  OnceInv'
  <2>1. /\ runs[j] = 0
        /\ \A s \in Slot : pTask[s] # j
        /\ \A q \in Requester : rpc[q] # "idle" => rjob[q] # j
    BY <1>1, NullAssumption DEF Begin, TypeInv, TypeOK, OnceInv
  <2>2. /\ \A q \in Requester \ {r} : rpc'[q] = rpc[q] /\ rjob'[q] = rjob[q]
        /\ rpc'[r] = "scan" /\ rjob'[r] = j
        /\ requested' = requested \union {j}
        /\ UNCHANGED <<pTask, runs, current, wpc>>
    BY <1>1 DEF Begin, workerVars, slotVars, TypeInv, TypeOK
  <2>3. \A q \in Requester : rpc'[q] # "idle" =>
            /\ q # r => rpc[q] # "idle" /\ rjob'[q] = rjob[q]
            /\ rjob'[q] \in requested'
    BY <2>2 DEF OnceInv
  <2>4. \A q \in Requester : rpc'[q] \in Unstored =>
            runs'[rjob'[q]] = 0 /\ \A s \in Slot : pTask'[s] # rjob'[q]
    BY <2>1, <2>2 DEF OnceInv
  <2>5. \A p, q \in Requester :
            rpc'[p] # "idle" /\ rpc'[q] # "idle" /\ rjob'[p] = rjob'[q] => p = q
    BY <2>1, <2>2, <2>3 DEF OnceInv
  <2> QED
    BY <2>2, <2>3, <2>4, <2>5 DEF OnceInv
<1>2. ASSUME NEW r \in Requester, Scan(r)
      PROVE  OnceInv'
  <2>1. /\ \A q \in Requester \ {r} : rpc'[q] = rpc[q]
        /\ rpc[r] \in Unstored
        /\ rpc'[r] = "idle" \/ rpc'[r] \in Unstored
        /\ UNCHANGED <<pTask, runs, current, wpc, rjob, requested>>
    BY <1>2 DEF Scan, workerVars, slotVars, TypeInv, TypeOK, Unstored
  <2>2. /\ "idle" \notin Unstored
        /\ \A q \in Requester : /\ rpc'[q] # "idle" => rpc[q] # "idle"
                               /\ rpc'[q] \in Unstored => rpc[q] \in Unstored
    BY <2>1 DEF Unstored
  <2> QED
    BY <2>1, <2>2 DEF OnceInv
<1>3. ASSUME NEW r \in Requester, ClearBlank(r)
      PROVE  OnceInv'
  BY <1>3, NullAssumption
     DEF ClearBlank, workerVars, TypeInv, TypeOK, OnceInv, Unstored
<1>4. ASSUME NEW r \in Requester, StoreTask(r)
      PROVE  OnceInv'
  BY <1>4, NullAssumption
     DEF StoreTask, workerVars, TypeInv, TypeOK, OnceInv, Unstored
<1>5. ASSUME NEW r \in Requester, StoreArg(r) \/ StoreMesg(r) \/ Send(r)
      PROVE  OnceInv'
  <2>1. /\ \A q \in Requester \ {r} : rpc'[q] = rpc[q]
        /\ rpc[r] # "idle"
        /\ rpc'[r] \notin Unstored
        /\ UNCHANGED <<pTask, runs, current, wpc, rjob, requested>>
    <3>1. CASE StoreArg(r)
      BY <3>1
         DEF StoreArg, workerVars, historyVars, TypeInv, TypeOK, Unstored
    <3>2. CASE StoreMesg(r)
      BY <3>2
         DEF StoreMesg, workerVars, historyVars, TypeInv, TypeOK, Unstored
    <3>3. CASE Send(r)
      BY <3>3 DEF Send, workerVars, slotVars, TypeInv, TypeOK, Unstored
    <3> QED
      BY <1>5, <3>1, <3>2, <3>3
  <2> QED
    BY <2>1 DEF OnceInv
<1>6. ASSUME NEW r \in Requester, Undo(r)
      PROVE  OnceInv'
  BY <1>6, NullAssumption
     DEF Undo, workerVars, TypeInv, TypeOK, OnceInv, Unstored
<1>7. CASE Receive \/ EnterEmpty \/ Finish \/ EndMesg \/ TakeEndMesg
  BY <1>7 DEF Receive, EnterEmpty, Finish, EndMesg, TakeEndMesg,
     slotVars, callVars, historyVars, TypeInv, TypeOK, OnceInv, Unstored
<1>8. CASE Enter
  <2> DEFINE j == pTask[current]
  <2>1. /\ current \in Slot /\ j = pTask[current]
        /\ j \in Job /\ j # NULL /\ wpc = "enter"
    BY <1>8 DEF Enter, TypeInv, TypeOK
  <2>2. runs[j] = 0
    BY <2>1 DEF TypeInv, TypeOK, OnceInv
  <2>3. /\ runs' = [runs EXCEPT ![j] = 1]
        /\ wpc' = "run"
        /\ UNCHANGED <<pTask, current, rpc, rjob, requested>>
    BY <1>8, <2>2 DEF Enter, slotVars, callVars, historyVars
  <2>4. \A r \in Requester : rpc[r] \in Unstored => rjob[r] # j
    BY <2>1 DEF OnceInv
  <2>5. \A s \in Slot : pTask[s] = j => s = current
    BY <2>1 DEF OnceInv
  <2>6. \A k \in Job : runs'[k] = IF k = j THEN 1 ELSE runs[k]
    BY <2>3 DEF TypeInv, TypeOK
  <2>7. \A r \in Requester : rpc[r] # "idle" => rjob[r] \in Job
    BY DEF TypeInv
  <2>8. \A s \in Slot : pTask[s] # NULL => pTask[s] \in Job
    BY DEF TypeInv, TypeOK
  <2> HIDE DEF j
  <2> QED
    BY <2>1, <2>2, <2>3, <2>4, <2>5, <2>6, <2>7, <2>8 DEF OnceInv, Unstored
<1>9. CASE Clear \/ Wipe
  <2>1. /\ current \in Slot
        /\ pTask' = [pTask EXCEPT ![current] = NULL]
        /\ wpc \in {"clear", "wipe"}
        /\ UNCHANGED <<runs, rpc, rjob, requested>>
    BY <1>9 DEF Clear, Wipe, callVars, TypeInv
  <2>2. \A s \in Slot : /\ s = current => pTask'[s] = NULL
                       /\ s # current => pTask'[s] = pTask[s]
    BY <2>1 DEF TypeInv, TypeOK
  <2>3. \A s \in Slot : pTask'[s] # NULL => runs[pTask'[s]] = 0
    BY <2>1, <2>2 DEF TypeInv, TypeOK, OnceInv
  <2>4. \A r \in Requester : rpc[r] \in Unstored => rjob[r] # NULL
    BY NullAssumption DEF TypeInv, Unstored
  <2> QED
    BY <2>1, <2>2, <2>3, <2>4 DEF OnceInv
<1>10. CASE UNCHANGED vars
  BY <1>10 DEF vars, slotVars, workerVars, callVars, historyVars, OnceInv
<1> QED
  BY <1>1, <1>2, <1>3, <1>4, <1>5, <1>6, <1>7, <1>8, <1>9, <1>10
     DEF Next, RequesterStep, WorkerStep

\* No job is executed twice, for any number of slots, of requesters and of jobs
\* and whatever their priorities (request, requestJam and run).
THEOREM NeverTwice == Spec => []AtMostOnce
<1>1. Init => TypeInv /\ OnceInv
  BY TypeInit, OnceInit
<1>2. TypeInv /\ OnceInv /\ [Next]_vars => (TypeInv /\ OnceInv)'
  BY TypeNext, OnceNext
<1>3. OnceInv => AtMostOnce
  BY DEF OnceInv, AtMostOnce
<1> QED
  BY <1>1, <1>2, <1>3, PTL DEF Spec

-----------------------------------------------------------------------------
(* No job is forgotten.  A job that sits in a slot and was not started has   *)
(* its pointer on the way to the worker; a job whose call is past the store  *)
(* was started, lost, or is in the slot.                                     *)

\* The pointer of slot s, holding a job, is with the worker, in the queue, or
\* about to be sent by the call that stored the job.
OnItsWay(s) ==
    \/ s \in Range(queue)
    \/ wpc = "enter" /\ current = s
    \/ \E r \in Requester :
          rpc[r] \in Stored /\ rslot[r] = s /\ rjob[r] = pTask[s]

Kept(j) == runs[j] > 0 \/ j \in lost

AccountInv ==
    /\ Range(accepted) \subseteq requested
    /\ \A r \in Requester : rpc[r] # "idle" => rjob[r] \notin Range(accepted)
    /\ \A s \in Slot :
          pTask[s] # NULL /\ runs[pTask[s]] = 0 => OnItsWay(s)
    /\ \A j \in Range(accepted) : Kept(j) \/ \E s \in Slot : pTask[s] = j
    /\ \A r \in Requester : rpc[r] \in Stored =>
          Kept(rjob[r]) \/ pTask[rslot[r]] = rjob[r]

\* The account of the jobs implies that none is forgotten: the pointer of a slot
\* whose call has returned is no longer about to be sent.
LEMMA AccountIsEnough ==
    TypeInv /\ OnceInv /\ AccountInv => NoSilentLoss
<1> SUFFICES ASSUME TypeInv, OnceInv, AccountInv,
                    NEW j \in Range(accepted), ~Kept(j)
             PROVE  \E s \in Slot :
                        /\ pTask[s] = j
                        /\ s \in Range(queue) \/ (wpc = "enter" /\ current = s)
  BY DEF NoSilentLoss, Kept
<1>1. j \in Job /\ runs[j] = 0
  BY RangeOfSeq DEF Kept, TypeInv, TypeOK
<1>2. PICK s \in Slot : pTask[s] = j
  BY DEF AccountInv
<1>3. OnItsWay(s)
  BY <1>1, <1>2, NullAssumption DEF AccountInv
<1>4. ~ \E r \in Requester : rpc[r] \in Stored /\ rjob[r] = j
  BY DEF AccountInv, Stored
<1> QED
  BY <1>2, <1>3, <1>4 DEF OnItsWay

\* At first nothing was accepted, and every slot is blank.
LEMMA AccountInit == Init => AccountInv
<1> SUFFICES ASSUME Init PROVE AccountInv
  OBVIOUS
<1>1. Range(accepted) = {}
  BY DEF Init, Range
<1> QED
  BY <1>1 DEF Init, AccountInv, Stored

\* Sending and receiving, seen as sets.
LEMMA RangeSend ==
    ASSUME NEW S, NEW q \in Seq(S), NEW x \in S
    PROVE  Range(Append(q, x)) = Range(q) \union {x}
<1>1. <<x>> \in Seq(S) /\ Range(<<x>>) = {x}
  BY DEF Range
<1>2. Append(q, x) = q \o <<x>>
  BY AppendIsConcat
<1>3. \A u, v \in Seq(S) : Range(u \o v) = Range(u) \union Range(v)
  BY RangeConcatenation
<1>4. Range(q \o <<x>>) = Range(q) \union Range(<<x>>)
  BY <1>1, <1>3, Zenon
<1> QED
  BY <1>1, <1>2, <1>4

\* Jamming: the pointer goes to the front.
LEMMA RangeJam ==
    ASSUME NEW S, NEW q \in Seq(S), NEW x \in S
    PROVE  Range(<<x>> \o q) = Range(q) \union {x}
<1>1. <<x>> \in Seq(S) /\ Range(<<x>>) = {x}
  BY DEF Range
<1>2. \A u, v \in Seq(S) : Range(u \o v) = Range(u) \union Range(v)
  BY RangeConcatenation
<1>3. Range(<<x>> \o q) = Range(<<x>>) \union Range(q)
  BY <1>1, <1>2, Zenon
<1> QED
  BY <1>1, <1>3

\* Receiving: what is left and what was taken make up the queue.
LEMMA RangeReceive ==
    ASSUME NEW S, NEW q \in Seq(S), q # <<>>
    PROVE  Range(q) = Range(Tail(q)) \union {Head(q)}
<1>1. q = <<Head(q)>> \o Tail(q) /\ Head(q) \in S /\ Tail(q) \in Seq(S)
  BY HeadTailProperties, ConcatSimplifications
<1>2. \A u \in Seq(S), x \in S : Range(<<x>> \o u) = Range(u) \union {x}
  BY RangeJam
<1>3. Range(<<Head(q)>> \o Tail(q)) = Range(Tail(q)) \union {Head(q)}
  BY <1>1, <1>2, Zenon
<1> QED
  BY <1>1, <1>3

\* Every step keeps the account.
LEMMA AccountNext ==
    TypeInv /\ OnceInv /\ AccountInv /\ [Next]_vars => AccountInv'
<1> SUFFICES ASSUME TypeInv, OnceInv, AccountInv, [Next]_vars
             PROVE  AccountInv'
  OBVIOUS
<1> USE DEF Kept
<1>0. /\ \A r \in Requester : rpc[r] # "idle" => rjob[r] \in Job
      /\ \A s \in Slot : pTask[s] # NULL => pTask[s] \in Job
      /\ \A r \in Requester : rslot[r] \in Slot
      /\ "idle" \notin Stored
      /\ \A j \in Job : j # NULL
  BY NullAssumption DEF TypeInv, TypeOK, Stored
<1>1. ASSUME NEW r \in Requester, NEW j \in Job, Begin(r, j)
      PROVE  AccountInv'
  <2>1. /\ rpc[r] = "idle" /\ j \notin requested
        /\ \A q \in Requester \ {r} : rpc'[q] = rpc[q] /\ rjob'[q] = rjob[q]
                                     /\ rslot'[q] = rslot[q]
        /\ rpc'[r] = "scan" /\ rjob'[r] = j
        /\ requested' = requested \union {j}
        /\ UNCHANGED <<pTask, runs, current, wpc, queue, accepted, lost>>
    BY <1>1 DEF Begin, workerVars, slotVars, TypeInv, TypeOK
  <2>2. Range(queue') = Range(queue) /\ Range(accepted') = Range(accepted)
    BY <2>1
  <2>3. \A s \in Slot : OnItsWay(s) => OnItsWay(s)'
    BY <2>1, <2>2, <1>0 DEF OnItsWay
  <2>4. \A q \in Requester : rpc'[q] \in Stored => q # r
    BY <2>1 DEF Stored
  <2> QED
    BY <2>1, <2>2, <2>3, <2>4, <1>0 DEF AccountInv
<1>2. ASSUME NEW r \in Requester, Scan(r)
      PROVE  AccountInv'
  <2>1. /\ \A q \in Requester \ {r} : rpc'[q] = rpc[q] /\ rslot'[q] = rslot[q]
        /\ rpc[r] = "scan"
        /\ rpc'[r] \notin Stored
        /\ UNCHANGED <<pTask, runs, current, wpc, queue, accepted, lost, rjob,
                       requested>>
    BY <1>2 DEF Scan, workerVars, slotVars, TypeInv, TypeOK, Stored
  <2>2. Range(queue') = Range(queue) /\ Range(accepted') = Range(accepted)
    BY <2>1
  <2>3. \A s \in Slot : OnItsWay(s) => OnItsWay(s)'
    BY <2>1, <2>2 DEF OnItsWay, Stored
  <2> QED
    BY <2>1, <2>2, <2>3, <1>0 DEF AccountInv
<1>3. ASSUME NEW r \in Requester, ClearBlank(r)
      PROVE  AccountInv'
  <2>1. /\ \A q \in Requester \ {r} : rpc'[q] = rpc[q]
        /\ rpc[r] = "blank" /\ rpc'[r] = "task"
        /\ \A s \in Slot : pTask'[s] = IF s = rslot[r] THEN NULL ELSE pTask[s]
        /\ UNCHANGED <<runs, current, wpc, queue, accepted, rjob, rslot,
                       requested>>
    BY <1>3 DEF ClearBlank, workerVars, TypeInv, TypeOK
  <2>2. lost \subseteq lost' /\ \A j \in Job :
            pTask[rslot[r]] = j => runs[j] > 0 \/ j \in lost'
    BY <1>3 DEF ClearBlank, Unstarted, TypeInv, TypeOK
  <2>3. Range(queue') = Range(queue) /\ Range(accepted') = Range(accepted)
    BY <2>1
  <2>4. \A s \in Slot : pTask'[s] # NULL /\ OnItsWay(s) => OnItsWay(s)'
    BY <2>1, <2>3 DEF OnItsWay, Stored
  <2>5. Range(accepted) \subseteq Job
    BY RangeOfSeq DEF TypeInv, TypeOK
  <2>6. \A q \in Requester : rpc'[q] \in Stored => q # r /\ rpc[q] \in Stored
    BY <2>1 DEF Stored
  <2> QED
    BY <2>1, <2>2, <2>3, <2>4, <2>5, <2>6, <1>0 DEF AccountInv
<1>4. ASSUME NEW r \in Requester, StoreTask(r)
      PROVE  AccountInv'
  <2>1. /\ \A q \in Requester \ {r} : rpc'[q] = rpc[q]
        /\ rpc[r] = "task" /\ rpc'[r] = "arg"
        /\ \A s \in Slot : pTask'[s] = IF s = rslot[r] THEN rjob[r] ELSE pTask[s]
        /\ UNCHANGED <<runs, current, wpc, queue, accepted, rjob, rslot,
                       requested>>
    BY <1>4 DEF StoreTask, workerVars, TypeInv, TypeOK
  <2>2. lost \subseteq lost' /\ \A j \in Job :
            pTask[rslot[r]] = j => runs[j] > 0 \/ j \in lost'
    BY <1>4 DEF StoreTask, Unstarted, TypeInv, TypeOK
  <2>3. Range(queue') = Range(queue) /\ Range(accepted') = Range(accepted)
    BY <2>1
  <2>4. \A s \in Slot : s # rslot[r] /\ OnItsWay(s) => OnItsWay(s)'
    BY <2>1, <2>3 DEF OnItsWay, Stored
  <2>5. OnItsWay(rslot[r])'
    BY <2>1, <1>0 DEF OnItsWay, Stored
  <2>6. Range(accepted) \subseteq Job
    BY RangeOfSeq DEF TypeInv, TypeOK
  <2>7. \A q \in Requester \ {r} : rpc'[q] \in Stored => rpc[q] \in Stored
    BY <2>1
  <2> QED
    BY <2>1, <2>2, <2>3, <2>4, <2>5, <2>6, <2>7, <1>0 DEF AccountInv
<1>5. ASSUME NEW r \in Requester, StoreArg(r) \/ StoreMesg(r)
      PROVE  AccountInv'
  <2>1. /\ \A q \in Requester \ {r} : rpc'[q] = rpc[q]
        /\ rpc[r] \in Stored /\ rpc'[r] \in Stored
        /\ UNCHANGED <<pTask, runs, current, wpc, queue, accepted, lost, rjob,
                       rslot, requested>>
    BY <1>5 DEF StoreArg, StoreMesg, workerVars, historyVars, TypeInv, TypeOK,
                Stored
  <2>2. Range(queue') = Range(queue) /\ Range(accepted') = Range(accepted)
    BY <2>1
  <2>3. \A s \in Slot : OnItsWay(s) => OnItsWay(s)'
    BY <2>1, <2>2 DEF OnItsWay
  <2> QED
    BY <2>1, <2>2, <2>3, <1>0 DEF AccountInv
<1>6. ASSUME NEW r \in Requester, Send(r)
      PROVE  AccountInv'
  <2>0. /\ queue \in Seq(Slot) /\ accepted \in Seq(Job)
        /\ rslot[r] \in Slot /\ rjob[r] \in Job
    BY <1>6 DEF Send, TypeInv, TypeOK
  <2>1. /\ \A q \in Requester \ {r} : rpc'[q] = rpc[q]
        /\ rpc[r] \in Stored /\ rpc'[r] \in {"idle", "undo"}
        /\ UNCHANGED <<pTask, runs, current, wpc, lost, rjob, rslot, requested>>
    BY <1>6 DEF Send, workerVars, slotVars, TypeInv, TypeOK, Stored
  <2>2. CASE rpc'[r] = "idle"
    <3>1. /\ queue' = IF rjob[r] \in Jam THEN <<rslot[r]>> \o queue
                                         ELSE Append(queue, rslot[r])
          /\ accepted' = Append(accepted, rjob[r])
      BY <1>6, <2>2 DEF Send, TypeInv, TypeOK
    <3>2. Range(queue') = Range(queue) \union {rslot[r]}
      BY <2>0, <3>1, RangeSend, RangeJam
    <3>3. Range(accepted') = Range(accepted) \union {rjob[r]}
      BY <2>0, <3>1, RangeSend
    <3>4. \A s \in Slot : OnItsWay(s) => OnItsWay(s)'
      BY <2>1, <2>2, <3>2 DEF OnItsWay
    <3>5. Kept(rjob[r]) \/ \E s \in Slot : pTask[s] = rjob[r]
      BY <2>0, <2>1 DEF AccountInv
    <3>6. \A q \in Requester \ {r} : rpc[q] # "idle" => rjob[q] # rjob[r]
      BY <2>1, <1>0 DEF OnceInv
    <3>7. rjob[r] \in requested
      BY <2>1, <1>0 DEF OnceInv
    <3> QED
      BY <2>1, <2>2, <3>2, <3>3, <3>4, <3>5, <3>6, <3>7, <1>0 DEF AccountInv
  <2>3. CASE rpc'[r] = "undo"
    <3>1. Range(queue') = Range(queue) /\ Range(accepted') = Range(accepted)
      BY <1>6, <2>3 DEF Send, TypeInv, TypeOK
    <3>2. rpc'[r] \in Stored
      BY <2>3 DEF Stored
    <3>3. \A s \in Slot : OnItsWay(s) => OnItsWay(s)'
      BY <2>1, <3>1, <3>2 DEF OnItsWay
    <3> QED
      BY <2>1, <3>1, <3>2, <3>3, <1>0 DEF AccountInv
  <2> QED
    BY <2>1, <2>2, <2>3
<1>7. ASSUME NEW r \in Requester, Undo(r)
      PROVE  AccountInv'
  <2>1. /\ \A q \in Requester \ {r} : rpc'[q] = rpc[q]
        /\ rpc[r] = "undo" /\ rpc'[r] = "idle"
        /\ \A s \in Slot : pTask'[s] = IF s = rslot[r] THEN NULL ELSE pTask[s]
        /\ UNCHANGED <<runs, current, wpc, queue, accepted, rjob, rslot,
                       requested>>
    BY <1>7 DEF Undo, workerVars, TypeInv, TypeOK
  <2>2. lost \subseteq lost' /\ \A j \in Job : pTask[rslot[r]] = j =>
            runs[j] > 0 \/ j \in lost' \/ j = rjob[r]
    BY <1>7 DEF Undo, Unstarted, TypeInv, TypeOK
  <2>3. Range(queue') = Range(queue) /\ Range(accepted') = Range(accepted)
    BY <2>1
  <2>4. ASSUME NEW s \in Slot, pTask'[s] # NULL, OnItsWay(s)
        PROVE  OnItsWay(s)'
    BY <2>1, <2>3, <2>4 DEF OnItsWay, Stored
  <2>5. Range(accepted) \subseteq Job
    BY RangeOfSeq DEF TypeInv, TypeOK
  <2>6. \A q \in Requester : rpc'[q] \in Stored =>
            q # r /\ rpc[q] \in Stored /\ rjob[q] # rjob[r]
    BY <2>1, <1>0 DEF Stored, OnceInv
  <2>7. rjob[r] \notin Range(accepted)
    BY <2>1 DEF AccountInv
  <2> QED
    BY <2>1, <2>2, <2>3, <2>4, <2>5, <2>6, <2>7, <1>0 DEF AccountInv
<1>8. CASE Receive
  <2>1. /\ wpc' = "enter" /\ current' = Head(queue)
        /\ queue # <<>> /\ queue' = Tail(queue) /\ wpc # "enter"
        /\ UNCHANGED <<pTask, runs, rpc, rjob, rslot, accepted, lost, requested>>
    BY <1>8 DEF Receive, slotVars, callVars, historyVars
  <2>2. Range(queue) = Range(queue') \union {current'}
    BY <2>1, RangeReceive DEF TypeInv, TypeOK
  <2>3. \A s \in Slot : OnItsWay(s) => OnItsWay(s)'
    BY <2>1, <2>2 DEF OnItsWay
  <2>4. Range(accepted') = Range(accepted)
    BY <2>1
  <2> QED
    BY <2>1, <2>3, <2>4 DEF AccountInv
<1>9. CASE Enter
  <2>1. /\ wpc = "enter" /\ current \in Slot /\ pTask[current] \in Job
        /\ runs' = [runs EXCEPT ![pTask[current]] = @ + 1]
        /\ wpc' = "run"
        /\ UNCHANGED <<pTask, queue, current, rpc, rjob, rslot, accepted, lost,
                       requested>>
    BY <1>9 DEF Enter, slotVars, callVars, historyVars, TypeInv, TypeOK
  <2>2. \A j \in Job : runs'[j] = IF j = pTask[current] THEN runs[j] + 1
                                                       ELSE runs[j]
    BY <2>1 DEF TypeInv, TypeOK
  <2>3. Range(queue') = Range(queue) /\ Range(accepted') = Range(accepted)
    BY <2>1
  <2>4. \A s \in Slot : s # current /\ OnItsWay(s) => OnItsWay(s)'
    BY <2>1, <2>3 DEF OnItsWay
  <2>5. /\ \A j \in Job : runs[j] > 0 => runs'[j] > 0
        /\ \A j \in Job : runs'[j] = 0 => runs[j] = 0
        /\ runs'[pTask[current]] # 0
    BY <2>1, <2>2 DEF TypeInv, TypeOK
  <2>6. ASSUME NEW s \in Slot, pTask[s] # NULL, runs'[pTask[s]] = 0
        PROVE  s # current /\ OnItsWay(s)'
    <3>1. pTask[s] \in Job
      BY <2>6, <1>0
    <3>2. runs[pTask[s]] = 0 /\ s # current
      BY <2>5, <2>6, <3>1
    <3> QED
      BY <2>4, <2>6, <3>2 DEF AccountInv
  <2>7. Range(accepted) \subseteq Job
    BY RangeOfSeq DEF TypeInv, TypeOK
  <2> QED
    BY <2>1, <2>3, <2>5, <2>6, <2>7, <1>0 DEF AccountInv
<1>10. CASE EnterEmpty \/ Finish \/ EndMesg \/ TakeEndMesg
  <2>1. /\ UNCHANGED <<pTask, queue, runs, current, rpc, rjob, rslot, accepted,
                       lost, requested>>
        /\ wpc = "enter" /\ wpc' # "enter" => pTask[current] = NULL
    BY <1>10 DEF EnterEmpty, Finish, EndMesg, TakeEndMesg, slotVars, callVars,
                 historyVars
  <2>2. Range(queue') = Range(queue) /\ Range(accepted') = Range(accepted)
    BY <2>1
  <2>3. \A s \in Slot : pTask[s] # NULL /\ OnItsWay(s) => OnItsWay(s)'
    BY <2>1, <2>2 DEF OnItsWay
  <2> QED
    BY <2>1, <2>2, <2>3 DEF AccountInv
<1>11. CASE Clear \/ Wipe
  <2>1. /\ wpc \in {"clear", "wipe"} /\ wpc' # "enter" /\ current \in Slot
        /\ \A s \in Slot : pTask'[s] = IF s = current THEN NULL ELSE pTask[s]
        /\ UNCHANGED <<runs, queue, rpc, rjob, rslot, accepted, requested>>
    BY <1>11 DEF Clear, Wipe, callVars, TypeInv, TypeOK
  <2>2. lost \subseteq lost' /\ \A j \in Job :
            pTask[current] = j => runs[j] > 0 \/ j \in lost'
    BY <1>11 DEF Clear, Wipe, Unstarted, TypeInv, TypeOK
  <2>3. Range(queue') = Range(queue) /\ Range(accepted') = Range(accepted)
    BY <2>1
  <2>4. \A s \in Slot : pTask'[s] # NULL /\ OnItsWay(s) => OnItsWay(s)'
    BY <2>1, <2>3 DEF OnItsWay
  <2>5. Range(accepted) \subseteq Job
    BY RangeOfSeq DEF TypeInv, TypeOK
  <2> QED
    BY <2>1, <2>2, <2>3, <2>4, <2>5, <1>0 DEF AccountInv
<1>12. CASE UNCHANGED vars
  <2>1. UNCHANGED <<pTask, queue, runs, current, rpc, rjob, rslot, accepted,
                    lost, requested, wpc>>
    BY <1>12 DEF vars, slotVars, workerVars, callVars, historyVars
  <2>2. Range(queue') = Range(queue) /\ Range(accepted') = Range(accepted)
    BY <2>1
  <2>3. \A s \in Slot : OnItsWay(s) => OnItsWay(s)'
    BY <2>1, <2>2 DEF OnItsWay
  <2> QED
    BY <2>1, <2>2, <2>3 DEF AccountInv
<1> QED
  BY <1>1, <1>2, <1>3, <1>4, <1>5, <1>6, <1>7, <1>8, <1>9, <1>10, <1>11, <1>12
     DEF Next, RequesterStep, WorkerStep

\* A job whose request returned true was started, was erased from its slot, or
\* waits in a slot whose pointer the worker will take up, for any number of
\* slots, of requesters and of jobs and whatever their priorities.
THEOREM NothingForgotten == Spec => []NoSilentLoss
<1>1. Init => TypeInv /\ OnceInv /\ AccountInv
  BY TypeInit, OnceInit, AccountInit
<1>2. /\ TypeInv /\ OnceInv /\ AccountInv /\ [Next]_vars
      => (TypeInv /\ OnceInv /\ AccountInv)'
  BY TypeNext, OnceNext, AccountNext
<1>3. TypeInv /\ OnceInv /\ AccountInv => NoSilentLoss
  BY AccountIsEnough
<1> QED
  BY <1>1, <1>2, <1>3, PTL DEF Spec
-----------------------------------------------------------------------------
(* The thread implements TaskExecutor.  The status of a job moves as the     *)
(* executor allows if a job that is lost or refused is in no slot and with   *)
(* no call that could still store it.                                        *)

RefineInv ==
    /\ run.task # NULL => runs[run.task] > 0
    /\ refused \subseteq requested /\ lost \subseteq requested
    /\ \A r \in Requester : rpc[r] # "idle" => rjob[r] \notin refused
    /\ \A r \in Requester : rpc[r] \in Unstored => rjob[r] \notin lost
    /\ \A s \in Slot : pTask[s] # NULL => pTask[s] \notin refused
    /\ \A s \in Slot : pTask[s] # NULL /\ runs[pTask[s]] = 0 => pTask[s] \notin lost
    /\ \A r \in Requester, s \in Slot :
          rpc[r] \in Stored /\ pTask[s] = rjob[r] => s = rslot[r]

\* Nothing is lost, refused or stored at first.
LEMMA RefineInit == Init => RefineInv
BY NullAssumption DEF Init, RefineInv, Unstored, Stored

\* What is erased from its slot is not stored again.
LEMMA RefineNext ==
    TypeInv /\ OnceInv /\ RefineInv /\ [Next]_vars => RefineInv'
<1> SUFFICES ASSUME TypeInv, OnceInv, RefineInv, [Next]_vars
             PROVE  RefineInv'
  OBVIOUS
<1>0. /\ \A r \in Requester : rpc[r] # "idle" => rjob[r] \in Job
      /\ \A s \in Slot : pTask[s] # NULL => pTask[s] \in Job
      /\ \A r \in Requester : rslot[r] \in Slot
      /\ "idle" \notin Stored \union Unstored
      /\ \A j \in Job : j # NULL
  BY NullAssumption DEF TypeInv, TypeOK, Stored, Unstored
<1>1. ASSUME NEW r \in Requester, NEW j \in Job, Begin(r, j)
      PROVE  RefineInv'
  <2>1. /\ j \notin requested
        /\ \A q \in Requester \ {r} : rpc'[q] = rpc[q] /\ rjob'[q] = rjob[q]
                                     /\ rslot'[q] = rslot[q]
        /\ rpc'[r] = "scan" /\ rjob'[r] = j
        /\ requested' = requested \union {j}
        /\ UNCHANGED <<pTask, run, runs, refused, lost>>
    BY <1>1 DEF Begin, workerVars, slotVars, TypeInv, TypeOK
  <2>2. "scan" \notin Stored
    BY DEF Stored
  <2> QED
    BY <2>1, <2>2, <1>0 DEF RefineInv
<1>2. ASSUME NEW r \in Requester, Scan(r)
      PROVE  RefineInv'
  <2>1. /\ \A q \in Requester \ {r} : rpc'[q] = rpc[q] /\ rslot'[q] = rslot[q]
        /\ rpc[r] = "scan" /\ rpc'[r] \in {"scan", "blank", "idle"}
        /\ refused' = refused \/ (rpc'[r] = "idle" /\ refused' = refused \union {rjob[r]})
        /\ UNCHANGED <<pTask, run, runs, lost, rjob, requested>>
    BY <1>2 DEF Scan, workerVars, slotVars, TypeInv, TypeOK
  <2>2. /\ rpc[r] \in Unstored /\ rpc'[r] \notin Stored
        /\ rjob[r] \in requested
        /\ \A q \in Requester : rpc'[q] # "idle" => rpc[q] # "idle"
        /\ \A q \in Requester : rpc'[q] # "idle" /\ rpc'[r] = "idle" => rjob[q] # rjob[r]
    BY <2>1, <1>0 DEF OnceInv, Unstored, Stored
  <2>3. \A s \in Slot : pTask[s] # rjob[r]
    BY <2>2 DEF OnceInv
  <2> QED
    BY <2>1, <2>2, <2>3, <1>0 DEF RefineInv
<1>3. ASSUME NEW r \in Requester, ClearBlank(r)
      PROVE  RefineInv'
  <2>1. /\ \A q \in Requester \ {r} : rpc'[q] = rpc[q]
        /\ rpc[r] = "blank" /\ rpc'[r] = "task"
        /\ \A s \in Slot : pTask'[s] = IF s = rslot[r] THEN NULL ELSE pTask[s]
        /\ \A j \in lost' \ lost : j \in Job /\ pTask[rslot[r]] = j
        /\ UNCHANGED <<run, runs, refused, rjob, rslot, requested>>
    BY <1>3 DEF ClearBlank, Unstarted, workerVars, TypeInv, TypeOK
  <2>2. rpc[r] \in Unstored /\ rpc'[r] \notin Stored /\ rpc[r] # "idle"
    BY <2>1 DEF Unstored, Stored
  <2>3. lost' \subseteq requested
    BY <2>1, <1>0 DEF OnceInv, RefineInv
  <2>4. \A q \in Requester : rpc'[q] \in Unstored => rjob[q] \notin lost'
    BY <2>1, <2>2, <1>0 DEF OnceInv, RefineInv
  <2>5. \A s \in Slot : pTask'[s] # NULL /\ runs[pTask'[s]] = 0 => pTask'[s] \notin lost'
    BY <2>1, <1>0 DEF OnceInv, RefineInv
  <2>6. \A q \in Requester : rpc'[q] # "idle" => rpc[q] # "idle"
    BY <2>1, <2>2
  <2> QED
    BY <2>1, <2>2, <2>3, <2>4, <2>5, <2>6, <1>0 DEF RefineInv
<1>4. ASSUME NEW r \in Requester, StoreTask(r)
      PROVE  RefineInv'
  <2>1. /\ \A q \in Requester \ {r} : rpc'[q] = rpc[q]
        /\ rpc[r] = "task" /\ rpc'[r] = "arg"
        /\ \A s \in Slot : pTask'[s] = IF s = rslot[r] THEN rjob[r] ELSE pTask[s]
        /\ \A j \in lost' \ lost : j \in Job /\ pTask[rslot[r]] = j
        /\ UNCHANGED <<run, runs, refused, rjob, rslot, requested>>
    BY <1>4 DEF StoreTask, Unstarted, workerVars, TypeInv, TypeOK
  <2>2. rpc[r] \in Unstored /\ rpc'[r] \notin Unstored /\ rpc[r] # "idle"
    BY <2>1 DEF Unstored, Stored
  <2>3. lost' \subseteq requested
    BY <2>1, <1>0 DEF OnceInv, RefineInv
  <2>4. \A q \in Requester : rpc[q] \in Unstored => rjob[q] \notin lost'
    BY <2>1, <2>2, <1>0 DEF OnceInv, RefineInv
  <2>5. \A s \in Slot : pTask'[s] # NULL /\ runs[pTask'[s]] = 0 => pTask'[s] \notin lost'
    BY <2>1, <2>2, <2>4, <1>0 DEF OnceInv, RefineInv
  <2>6. \A q \in Requester : rpc'[q] # "idle" => rpc[q] # "idle"
    BY <2>1, <2>2
  <2>7. \A q \in Requester, s \in Slot :
            rpc'[q] \in Stored /\ pTask'[s] = rjob[q] => s = rslot[q]
    <3>1. \A s \in Slot : pTask[s] # rjob[r]
      BY <2>2 DEF OnceInv
    <3>2. \A q \in Requester \ {r} : rpc[q] # "idle" => rjob[q] # rjob[r]
      BY <2>2 DEF OnceInv
    <3> QED
      BY <2>1, <2>6, <3>1, <3>2, <1>0 DEF RefineInv
  <2> QED
    BY <2>1, <2>2, <2>3, <2>4, <2>5, <2>6, <2>7, <1>0 DEF RefineInv
<1>5. ASSUME NEW r \in Requester, StoreArg(r) \/ StoreMesg(r) \/ Send(r)
      PROVE  RefineInv'
  <2>1. /\ \A q \in Requester \ {r} : rpc'[q] = rpc[q]
        /\ rpc[r] \in Stored /\ rpc'[r] \notin Unstored
        /\ UNCHANGED <<pTask, run, runs, refused, lost, rjob, rslot, requested>>
    BY <1>5 DEF StoreArg, StoreMesg, Send, workerVars, slotVars, historyVars, TypeInv,
                TypeOK, Stored, Unstored
  <2> QED
    BY <2>1, <1>0 DEF RefineInv
<1>6. ASSUME NEW r \in Requester, Undo(r)
      PROVE  RefineInv'
  <2>1. /\ \A q \in Requester \ {r} : rpc'[q] = rpc[q]
        /\ rpc[r] = "undo" /\ rpc'[r] = "idle"
        /\ \A s \in Slot : pTask'[s] = IF s = rslot[r] THEN NULL ELSE pTask[s]
        /\ \A j \in lost' \ lost : j \in Job /\ pTask[rslot[r]] = j
        /\ refused' = refused \union {rjob[r]}
        /\ UNCHANGED <<run, runs, rjob, rslot, requested>>
    BY <1>6 DEF Undo, Unstarted, workerVars, TypeInv, TypeOK
  <2>2. rpc[r] \in Stored /\ rpc[r] # "idle"
    BY <2>1 DEF Stored
  <2>3. lost' \subseteq requested /\ refused' \subseteq requested
    BY <2>1, <2>2, <1>0 DEF OnceInv, RefineInv
  <2>4. \A q \in Requester : rpc'[q] \in Unstored => rjob[q] \notin lost'
    BY <2>1, <2>2, <1>0 DEF OnceInv, RefineInv
  <2>5. \A s \in Slot : pTask'[s] # NULL => pTask'[s] \notin refused'
                                          /\ (runs[pTask'[s]] = 0 => pTask'[s] \notin lost')
    BY <2>1, <2>2, <1>0 DEF OnceInv, RefineInv
  <2>6. \A q \in Requester : rpc'[q] # "idle" => q # r /\ rpc[q] # "idle" /\ rjob[q] # rjob[r]
    BY <2>1, <2>2 DEF OnceInv
  <2> QED
    BY <2>1, <2>2, <2>3, <2>4, <2>5, <2>6, <1>0 DEF RefineInv
<1>7. CASE Receive \/ EnterEmpty \/ EndMesg \/ TakeEndMesg \/ UNCHANGED vars
  <2>1. UNCHANGED <<pTask, run, runs, refused, lost, rpc, rjob, rslot, requested>>
    BY <1>7 DEF Receive, EnterEmpty, EndMesg, TakeEndMesg, vars, slotVars, workerVars,
                callVars, historyVars
  <2> QED
    BY <2>1 DEF RefineInv
<1>8. CASE Enter
  <2>1. /\ current \in Slot /\ pTask[current] \in Job
        /\ run'.task = pTask[current]
        /\ runs' = [runs EXCEPT ![pTask[current]] = @ + 1]
        /\ UNCHANGED <<pTask, refused, lost, rpc, rjob, rslot, requested>>
    BY <1>8 DEF Enter, slotVars, callVars, historyVars, TypeInv, TypeOK
  <2>2. /\ \A j \in Job : runs'[j] = 0 => runs[j] = 0
        /\ runs'[pTask[current]] > 0
    BY <2>1 DEF TypeInv, TypeOK
  <2> QED
    BY <2>1, <2>2, <1>0 DEF RefineInv
<1>9. CASE Finish
  <2>1. run'.task = NULL
        /\ UNCHANGED <<pTask, runs, refused, lost, rpc, rjob, rslot, requested>>
    BY <1>9 DEF Finish, slotVars, callVars, historyVars
  <2> QED
    BY <2>1 DEF RefineInv
<1>10. CASE Clear \/ Wipe
  <2>1. /\ \A s \in Slot : pTask'[s] = IF s = current THEN NULL ELSE pTask[s]
        /\ current \in Slot
        /\ \A j \in lost' \ lost : j \in Job /\ pTask[current] = j
        /\ UNCHANGED <<run, runs, refused, rpc, rjob, rslot, requested>>
    BY <1>10 DEF Clear, Wipe, Unstarted, callVars, TypeInv, TypeOK
  <2>2. lost' \subseteq requested
    BY <2>1, <1>0 DEF OnceInv, RefineInv
  <2>3. \A q \in Requester : rpc[q] \in Unstored => rjob[q] \notin lost'
    BY <2>1, <1>0 DEF OnceInv, RefineInv
  <2>4. \A s \in Slot : pTask'[s] # NULL /\ runs[pTask'[s]] = 0 => pTask'[s] \notin lost'
    BY <2>1, <1>0 DEF OnceInv, RefineInv
  <2> QED
    BY <2>1, <2>2, <2>3, <2>4, <1>0 DEF RefineInv
<1> QED
  BY <1>1, <1>2, <1>3, <1>4, <1>5, <1>6, <1>7, <1>8, <1>9, <1>10
     DEF Next, RequesterStep, WorkerStep
\* A step moves at most one job, or refuses one and loses another.
Same(j) ==
    /\ run'.task = j <=> run.task = j
    /\ runs'[j] = runs[j]
    /\ j \in refused' <=> j \in refused
    /\ j \in lost' <=> j \in lost
    /\ j \in requested' <=> j \in requested

LEMMA SameStatus ==
    ASSUME NEW j \in Job, Same(j)
    PROVE  StatusOf(j)' = StatusOf(j)
BY DEF Same, StatusOf, Done

\* What the status of a job is, and becomes.
LEMMA StatusNow ==
    ASSUME TypeInv, RefineInv, NEW j \in Job
    PROVE  /\ run.task = j => StatusOf(j) = "running"
           /\ runs[j] > 0 /\ run.task # j => StatusOf(j) = "done"
           /\ runs[j] = 0 => run.task # j
           /\ runs[j] = 0 /\ j \in refused => StatusOf(j) = "refused"
           /\ runs[j] = 0 /\ j \in lost \ refused => StatusOf(j) = "lost"
           /\ runs[j] = 0 /\ j \in requested \ (lost \union refused)
                => StatusOf(j) = "posted"
           /\ j \notin requested /\ runs[j] = 0 => StatusOf(j) = "new"
<1>1. runs[j] \in Nat /\ j # NULL
  BY NullAssumption DEF TypeInv, TypeOK
<1>2. runs[j] = 0 => run.task # j
  BY <1>1 DEF RefineInv
<1>3. refused \subseteq requested /\ lost \subseteq requested
  BY DEF RefineInv
<1> QED
  BY <1>1, <1>2, <1>3 DEF StatusOf, Done

\* A step of the executor that moves one job.
LEMMA MoveOne ==
    ASSUME NEW j \in Job, NEW from, NEW to, StatusOf(j) \in from, StatusOf(j)' = to,
           \A i \in Job \ {j} : StatusOf(i)' = StatusOf(i)
    PROVE  Executor!Move(j, from, to)
BY DEF Executor!Move

\* An erased job is lost.
LEMMA Erase ==
    ASSUME TypeInv, OnceInv, RefineInv, (TypeInv /\ RefineInv)', NEW s \in Slot,
           lost' = lost \union Unstarted(s),
           UNCHANGED <<run, runs, refused, requested>>
    PROVE  Executor!Next \/ \A i \in Job : StatusOf(i)' = StatusOf(i)
<1>1. CASE Unstarted(s) = {}
  BY <1>1, SameStatus DEF Same
<1>2. ASSUME NEW k \in Unstarted(s)
      PROVE  Executor!Next
  <2>1. k \in Job /\ pTask[s] = k /\ runs[k] = 0 /\ k # NULL
    BY <1>2, NullAssumption DEF Unstarted
  <2>2. k \in requested \ (lost \union refused)
    BY <2>1 DEF OnceInv, RefineInv
  <2>3. StatusOf(k) = "posted"
    BY <2>1, <2>2, StatusNow
  <2>4. StatusOf(k)' = "lost"
    <3>1. k \in lost' \ refused' /\ runs'[k] = 0 /\ run'.task # k
      BY <1>2, <2>1, <2>2, StatusNow
    <3> QED  BY <2>1, <3>1 DEF StatusOf, Done
  <2>5. \A i \in Job \ {k} : StatusOf(i)' = StatusOf(i)
    <3>1. \A i \in Job \ {k} : i \in lost' <=> i \in lost
      BY <2>1 DEF Unstarted
    <3> QED  BY <3>1, SameStatus DEF Same
  <2>6. Executor!Lose(k)
    BY <2>1, <2>3, <2>4, <2>5, MoveOne DEF Executor!Lose
  <2> QED  BY <2>1, <2>6 DEF Executor!Next
<1> QED  BY <1>1, <1>2

\* Every step is a step of the executor, or changes no status.
LEMMA RefineStep ==
    ASSUME TypeInv, OnceInv, RefineInv, [Next]_vars, (TypeInv /\ OnceInv /\ RefineInv)'
    PROVE  [Executor!Next]_([j \in Job |-> StatusOf(j)])
<1> SUFFICES Executor!Next \/ \A i \in Job : StatusOf(i)' = StatusOf(i)
  OBVIOUS
<1>1. ASSUME NEW r \in Requester, NEW j \in Job, Begin(r, j)
      PROVE  Executor!Next
  <2>1. /\ j \notin requested /\ requested' = requested \union {j}
        /\ UNCHANGED <<run, runs, refused, lost>>
    BY <1>1 DEF Begin, workerVars
  <2>2. runs[j] = 0
    BY <2>1 DEF OnceInv, TypeInv, TypeOK
  <2>3. StatusOf(j) = "new"
    BY <2>1, <2>2, StatusNow
  <2>4. StatusOf(j)' = "posted"
    <3>1. j \in requested' \ (lost' \union refused') /\ runs'[j] = 0 /\ run'.task # j
      BY <2>1, <2>2, StatusNow DEF RefineInv
    <3> QED  BY <3>1 DEF StatusOf, Done
  <2>5. \A i \in Job \ {j} : StatusOf(i)' = StatusOf(i)
    BY <2>1, SameStatus DEF Same
  <2>6. Executor!Post(j)
    BY <2>3, <2>4, <2>5, MoveOne DEF Executor!Post
  <2> QED  BY <2>6 DEF Executor!Next
<1>2. ASSUME NEW r \in Requester, Scan(r), refused' # refused
      PROVE  Executor!Next
  <2>0. /\ rpc[r] = "scan" /\ refused' = refused \union {rjob[r]}
        /\ rjob[r] \in Job
        /\ UNCHANGED <<run, runs, requested, lost>>
    BY <1>2 DEF Scan, workerVars, TypeInv
  <2> PICK j \in Job : j = rjob[r]
    BY <2>0
  <2>1. /\ rpc[r] = "scan" /\ refused' = refused \union {j}
        /\ UNCHANGED <<run, runs, requested, lost>>
    BY <2>0
  <2>2. j \in Job /\ runs[j] = 0 /\ j \in requested \ (lost \union refused)
    BY <2>1 DEF TypeInv, OnceInv, RefineInv, Unstored
  <2>3. StatusOf(j) = "posted"
    BY <2>2, StatusNow
  <2>4. StatusOf(j)' = "refused"
    <3>1. j \in refused' /\ runs'[j] = 0 /\ run'.task # j
      BY <2>1, <2>2, StatusNow
    <3> QED  BY <3>1 DEF StatusOf, Done
  <2>5. \A i \in Job \ {j} : StatusOf(i)' = StatusOf(i)
    BY <2>1, SameStatus DEF Same
  <2>6. Executor!Refuse(j)
    BY <2>2, <2>3, <2>4, <2>5, MoveOne DEF Executor!Refuse
  <2> QED  BY <2>2, <2>6 DEF Executor!Next
<1>3. ASSUME NEW r \in Requester, ClearBlank(r) \/ StoreTask(r)
      PROVE  Executor!Next \/ \A i \in Job : StatusOf(i)' = StatusOf(i)
  <2>1. /\ lost' = lost \union Unstarted(rslot[r])
        /\ UNCHANGED <<run, runs, refused, requested>>
    BY <1>3 DEF ClearBlank, StoreTask, workerVars
  <2> QED  BY <2>1, Erase DEF TypeInv, TypeOK
<1>4. ASSUME NEW r \in Requester, Undo(r)
      PROVE  Executor!Next \/ \A i \in Job : StatusOf(i)' = StatusOf(i)
  <2>0. /\ rpc[r] = "undo" /\ refused' = refused \union {rjob[r]}
        /\ lost' = lost \union (Unstarted(rslot[r]) \ {rjob[r]})
        /\ rjob[r] \in Job
        /\ UNCHANGED <<run, runs, requested>>
    BY <1>4 DEF Undo, workerVars, TypeInv
  <2> PICK j \in Job : j = rjob[r]
    BY <2>0
  <2> PICK U \in SUBSET Job : U = Unstarted(rslot[r]) \ {j}
    BY DEF Unstarted
  <2>1. /\ rpc[r] = "undo" /\ refused' = refused \union {j} /\ lost' = lost \union U
        /\ UNCHANGED <<run, runs, requested>>
    BY <2>0
  <2>2. j \in Job /\ j \in requested \ refused
    BY <2>1 DEF TypeInv, OnceInv, RefineInv
  <2>3. \A k \in U : /\ k \in Job /\ k # j /\ k = pTask[rslot[r]] /\ runs[k] = 0
                     /\ k \in requested \ (lost \union refused)
    BY NullAssumption DEF Unstarted, OnceInv, RefineInv, TypeInv, TypeOK
  <2>4. \A i \in Job \ (U \union {j}) : StatusOf(i)' = StatusOf(i)
    BY <2>1, SameStatus DEF Same
  <2>5. \A k \in U : StatusOf(k) = "posted" /\ StatusOf(k)' = "lost"
    <3> SUFFICES ASSUME NEW k \in U
                 PROVE  StatusOf(k) = "posted" /\ StatusOf(k)' = "lost"
      OBVIOUS
    <3>1. StatusOf(k) = "posted" /\ run.task # k
      BY <2>3, StatusNow
    <3>2. k \in lost' \ refused' /\ runs'[k] = 0 /\ run'.task # k
      BY <2>1, <2>3, <3>1
    <3> QED  BY <3>1, <3>2 DEF StatusOf, Done
  <2>6. CASE runs[j] > 0
    <3>1. StatusOf(j)' = StatusOf(j)
      BY <2>1, <2>2, <2>3, <2>6 DEF StatusOf, Done
    <3>2. ASSUME NEW k \in U
          PROVE  Executor!Next
      <4>1. \A i \in Job \ {k} : StatusOf(i)' = StatusOf(i)
        BY <2>3, <2>4, <3>1
      <4>2. Executor!Lose(k)
        BY <2>3, <2>5, <4>1, MoveOne DEF Executor!Lose
      <4> QED  BY <2>3, <4>2 DEF Executor!Next
    <3> QED  BY <2>4, <3>1, <3>2
  <2>7. CASE runs[j] = 0
    <3>1. StatusOf(j) \in {"posted", "lost"} /\ run.task # j
      BY <2>2, <2>7, StatusNow
    <3>2. StatusOf(j)' = "refused"
      BY <2>1, <2>7, <3>1 DEF StatusOf, Done
    <3>3. CASE U = {}
      <4>1. Executor!Refuse(j)
        BY <2>2, <2>4, <3>1, <3>2, <3>3, MoveOne DEF Executor!Refuse
      <4> QED  BY <2>2, <4>1 DEF Executor!Next
    <3>4. ASSUME NEW k \in U
          PROVE  Executor!Next
      <4>1. \A i \in Job \ {j, k} : StatusOf(i)' = StatusOf(i)
        BY <2>3, <2>4
      <4>2. Executor!RefuseAndLose(j, k)
        BY <2>2, <2>3, <2>5, <3>1, <3>2, <4>1 DEF Executor!RefuseAndLose
      <4> QED  BY <2>2, <2>3, <4>2 DEF Executor!Next
    <3> QED  BY <3>3, <3>4
  <2> QED  BY <2>2, <2>6, <2>7 DEF TypeInv, TypeOK
<1>5. CASE Enter
  <2>0. pTask[current] \in Job
    BY <1>5 DEF Enter, TypeInv, TypeOK
  <2> PICK j \in Job : j = pTask[current]
    BY <2>0
  <2>1. /\ j \in Job /\ run'.task = j /\ run.task = NULL
        /\ runs' = [runs EXCEPT ![j] = @ + 1]
        /\ UNCHANGED <<requested, refused, lost>>
    BY <1>5 DEF Enter, historyVars, TypeInv, TypeOK
  <2>2. runs[j] = 0
    BY <1>5, <2>1, NullAssumption DEF Enter, OnceInv, TypeInv, TypeOK
  <2>3. j \in requested \ (lost \union refused)
    BY <1>5, <2>1, <2>2, NullAssumption DEF Enter, OnceInv, RefineInv, TypeInv
  <2>4. StatusOf(j) = "posted"
    BY <2>1, <2>2, <2>3, StatusNow
  <2>5. StatusOf(j)' = "running"
    <3>1. runs'[j] # 0 /\ run'.task = j
      BY <2>1, <2>2 DEF TypeInv, TypeOK
    <3> QED  BY <3>1 DEF StatusOf, Done
  <2>6. \A i \in Job \ {j} : StatusOf(i)' = StatusOf(i)
    <3>1. \A i \in Job \ {j} : Same(i)
      BY <2>1, NullAssumption DEF Same, TypeInv, TypeOK
    <3> QED  BY <3>1, SameStatus
  <2>7. \A i \in Job : StatusOf(i) # "running"
    BY <2>1, NullAssumption DEF StatusOf
  <2>8. Executor!Start(j)
    BY <2>1, <2>4, <2>5, <2>6, <2>7, MoveOne DEF Executor!Start, Executor!Idle
  <2> QED  BY <2>1, <2>8 DEF Executor!Next
<1>6. CASE Finish
  <2>0. run.task \in Job
    BY <1>6 DEF Finish, TypeInv
  <2> PICK j \in Job : j = run.task
    BY <2>0
  <2>1. j \in Job /\ run'.task = NULL /\ UNCHANGED <<runs, requested, refused, lost>>
    BY <1>6 DEF Finish, historyVars, TypeInv
  <2>2. runs[j] > 0
    BY <2>1, NullAssumption DEF RefineInv
  <2>3. \A i \in Job \ {j} : StatusOf(i)' = StatusOf(i)
    <3>1. \A i \in Job \ {j} : Same(i)
      BY <2>1, NullAssumption DEF Same
    <3> QED  BY <3>1, SameStatus
  <2>4. StatusOf(j) = "running"
    BY StatusNow
  <2>5. StatusOf(j)' = "done"
    <3>1. run'.task # j /\ runs'[j] > 0
      BY <2>1, <2>2, NullAssumption
    <3> QED  BY <3>1 DEF StatusOf, Done
  <2>6. Executor!Finish(j)
    BY <2>1, <2>3, <2>4, <2>5, MoveOne DEF Executor!Finish
  <2> QED  BY <2>1, <2>6 DEF Executor!Next
<1>7. CASE Clear \/ Wipe
  <2>1. /\ current \in Slot /\ lost' = lost \union Unstarted(current)
        /\ UNCHANGED <<run, runs, refused, requested>>
    BY <1>7 DEF Clear, Wipe, TypeInv
  <2> QED  BY <2>1, Erase
<1>8. ASSUME UNCHANGED <<run, runs, refused, requested, lost>>
      PROVE  \A i \in Job : StatusOf(i)' = StatusOf(i)
  BY <1>8, SameStatus DEF Same
<1>9. ASSUME NEW r \in Requester,
             (Scan(r) /\ refused' = refused) \/ StoreArg(r) \/ StoreMesg(r) \/ Send(r)
      PROVE  UNCHANGED <<run, runs, refused, requested, lost>>
  BY <1>9 DEF Scan, StoreArg, StoreMesg, Send, workerVars, historyVars
<1>10. CASE Receive \/ EnterEmpty \/ EndMesg \/ TakeEndMesg \/ UNCHANGED vars
  <2>1. UNCHANGED <<run, runs, refused, requested, lost>>
    BY <1>10 DEF Receive, EnterEmpty, EndMesg, TakeEndMesg, historyVars, vars, workerVars
  <2> QED  BY <2>1, <1>8
<1> QED
  BY <1>1, <1>2, <1>3, <1>4, <1>5, <1>6, <1>7, <1>8, <1>9, <1>10
     DEF Next, RequesterStep, WorkerStep

\* Any number of threads, of any priority, that post jobs by the unprotected
\* request and requestJam keep the life of each job within TaskExecutor.
THEOREM ThreadImplementsExecutor == Spec => ImplementsExecutor
<1>1. Init => TypeInv /\ OnceInv /\ RefineInv
  BY TypeInit, OnceInit, RefineInit
<1>2. /\ TypeInv /\ OnceInv /\ RefineInv /\ [Next]_vars
      => (TypeInv /\ OnceInv /\ RefineInv)'
  BY TypeNext, OnceNext, RefineNext
<1>3. Init => Executor!Init
  BY NullAssumption DEF Init, Executor!Init, StatusOf, Done
<1>4. /\ TypeInv /\ OnceInv /\ RefineInv /\ [Next]_vars
      /\ (TypeInv /\ OnceInv /\ RefineInv)'
      => [Executor!Next]_([j \in Job |-> StatusOf(j)])
  BY RefineStep
<1> QED
  BY <1>1, <1>2, <1>3, <1>4, PTL DEF Spec, ImplementsExecutor, Executor!Spec

-----------------------------------------------------------------------------
(* With every requester before the worker in priority, as those of the     *)
(* main thread's managers are.                                             *)

\* Every thread that posts jobs runs before the worker does.
Ahead == \A r \in Requester : Prio[r] < Prio[Worker]

-----------------------------------------------------------------------------
(* What the priorities give.                                                *)

\* When the worker steps no call is in progress, and when a requester does no
\* one before it has one.
LEMMA Scheduled ==
    ASSUME Ahead
    PROVE  /\ CanStep(Worker) => \A r \in Requester : rpc[r] = "idle"
           /\ \A r, q \in Requester :
                 CanStep(r) /\ Prio[q] < Prio[r] => rpc[q] = "idle"
<1>1. \A r \in Requester : r # Worker
  BY WorkerAssumption
<1> QED
  BY <1>1 DEF Ahead, CanStep, Busy

\* No two threads have the same priority.
LEMMA Distinct ==
    \A r, q \in Requester : r # q => Prio[r] < Prio[q] \/ Prio[q] < Prio[r]
<1>1. \A r \in Requester : Prio[r] \in Nat
  BY PrioAssumption
<1> QED  BY <1>1, PrioAssumption

\* Where a call has a slot.
Chosen == Stored \union {"blank", "task"}

\* A job that is stored stays until its call returns: a call that comes in
\* between finds the slot taken, and the one that was there before waits.
OwnInv ==
    /\ \A r \in Requester : rpc[r] \in Stored => pTask[rslot[r]] = rjob[r]
    /\ \A h, l \in Requester :
          Prio[h] < Prio[l] /\ rpc[h] \in Chosen /\ rpc[l] \in Stored
             => rslot[h] # rslot[l]
    /\ \A r \in Requester : rpc[r] # "idle" => runs[rjob[r]] = 0

\* The worker's steps find no call in progress.
LEMMA WorkerOwn ==
    ASSUME Ahead, TypeInv, WorkerStep
    PROVE  \A r \in Requester : rpc[r] = "idle" /\ rpc'[r] = "idle"
<1>1. \A r \in Requester : rpc[r] = "idle"
  BY Scheduled DEF WorkerStep
<1>2. rpc' = rpc
  BY DEF WorkerStep, Receive, Enter, EnterEmpty, Finish, EndMesg, Clear, Wipe, callVars
<1> QED  BY <1>1, <1>2

\* Every step keeps the stored jobs where they are.
LEMMA OwnNext ==
    ASSUME Ahead, TypeInv, OnceInv, OwnInv, [Next]_vars
    PROVE  OwnInv'
<1>0. /\ \A r \in Requester : rpc[r] # "idle" => rjob[r] \in Job
      /\ rslot \in [Requester -> Slot] /\ NULL \notin Job
      /\ "idle" \notin Stored /\ "scan" \notin Chosen /\ "idle" \notin Chosen
      /\ \A r \in Requester : rpc[r] \in Stored => rpc[r] \in Chosen
  BY NullAssumption DEF TypeInv, TypeOK, Stored, Chosen
<1>1. ASSUME NEW r \in Requester, NEW j \in Job, Begin(r, j)
      PROVE  OwnInv'
  <2>1. /\ \A q \in Requester \ {r} : rpc'[q] = rpc[q] /\ rjob'[q] = rjob[q]
                                      /\ rslot'[q] = rslot[q]
        /\ rpc'[r] = "scan" /\ rjob'[r] = j /\ j \notin requested
        /\ UNCHANGED <<pTask, runs>>
    BY <1>1 DEF Begin, workerVars, slotVars, TypeInv, TypeOK
  <2>2. runs[j] = 0 /\ "scan" \notin Stored
    BY <2>1 DEF OnceInv, TypeInv, TypeOK, Stored
  <2> QED  BY <1>0, <2>1, <2>2 DEF OwnInv
<1>2. ASSUME NEW r \in Requester, Scan(r)
      PROVE  OwnInv'
  <2>1. /\ \A q \in Requester \ {r} : rpc'[q] = rpc[q] /\ rslot'[q] = rslot[q]
        /\ rpc[r] = "scan"
        /\ rpc'[r] \in {"scan", "idle"} \/ (pTask[rslot'[r]] = NULL /\ rpc'[r] = "blank")
        /\ UNCHANGED <<pTask, runs, rjob>>
    BY <1>2 DEF Scan, workerVars, slotVars, TypeInv, TypeOK
  <2>2. rpc'[r] \notin Stored
    BY <2>1 DEF Stored
  <2>3. \A l \in Requester : l # r /\ rpc[l] \in Stored => pTask[rslot[l]] # NULL
    BY <1>0 DEF OwnInv
  <2> QED  BY <1>0, <2>1, <2>2, <2>3 DEF OwnInv
<1>3. ASSUME NEW r \in Requester, CanStep(r), ClearBlank(r) \/ StoreTask(r) \/ Undo(r)
      PROVE  OwnInv'
  <2>1. /\ \A q \in Requester \ {r} : rpc'[q] = rpc[q]
        /\ rpc[r] \in Chosen /\ rpc'[r] \in {"task", "arg", "idle"}
        /\ \A s \in Slot : s # rslot[r] => pTask'[s] = pTask[s]
        /\ rpc'[r] = "arg" => pTask'[rslot[r]] = rjob[r]
        /\ UNCHANGED <<runs, rjob, rslot>>
    BY <1>3 DEF ClearBlank, StoreTask, Undo, workerVars, TypeInv, TypeOK, Chosen, Stored
  <2>2. \A q \in Requester \ {r} : rpc[q] \in Stored => rslot[q] # rslot[r]
    BY <1>0, <1>3, <2>1, Scheduled, Distinct DEF OwnInv
  <2>3. \A h \in Requester : Prio[h] < Prio[r] => rpc[h] = "idle"
    BY <1>3, Scheduled
  <2>4. rpc'[r] \in Stored => rpc'[r] = "arg"
    BY <2>1 DEF Stored
  <2>5. Prio[r] < Prio[r] => FALSE
    BY PrioAssumption
  <2>6. \A q \in Requester : rpc'[q] \in Stored => pTask'[rslot'[q]] = rjob'[q]
    BY <1>0, <2>1, <2>2, <2>4 DEF OwnInv
  <2>7. ASSUME NEW h \in Requester, NEW l \in Requester, Prio[h] < Prio[l],
               rpc'[h] \in Chosen, rpc'[l] \in Stored
        PROVE  rslot[h] # rslot[l]
    <3>1. h # l
      BY <2>7, PrioAssumption
    <3>2. CASE h = r
      BY <2>1, <2>2, <2>7, <3>1, <3>2
    <3>3. CASE l = r
      BY <1>0, <2>1, <2>3, <2>7, <3>1, <3>3
    <3>4. CASE h # r /\ l # r
      BY <2>1, <2>7, <3>4 DEF OwnInv
    <3> QED  BY <3>2, <3>3, <3>4
  <2>8. \A q \in Requester : rpc'[q] # "idle" => rpc[q] # "idle"
    BY <1>0, <2>1
  <2> QED  BY <2>1, <2>6, <2>7, <2>8 DEF OwnInv
<1>4. ASSUME NEW r \in Requester, StoreArg(r) \/ StoreMesg(r) \/ Send(r)
      PROVE  OwnInv'
  <2>1. /\ \A q \in Requester \ {r} : rpc'[q] = rpc[q]
        /\ rpc[r] \in Stored
        /\ UNCHANGED <<pTask, runs, rjob, rslot>>
    BY <1>4 DEF StoreArg, StoreMesg, Send, workerVars, slotVars, TypeInv, TypeOK, Stored
  <2>2. \A q \in Requester : /\ rpc'[q] \in Stored => rpc[q] \in Stored
                             /\ rpc'[q] \in Chosen => rpc[q] \in Chosen
                             /\ rpc'[q] # "idle" => rpc[q] # "idle"
    BY <1>0, <2>1
  <2> QED  BY <2>1, <2>2 DEF OwnInv
<1>5. CASE WorkerStep
  BY <1>0, <1>5, WorkerOwn DEF OwnInv
<1>6. CASE TakeEndMesg \/ UNCHANGED vars
  BY <1>6 DEF TakeEndMesg, vars, slotVars, callVars, workerVars, OwnInv
<1> QED
  BY <1>1, <1>2, <1>3, <1>4, <1>5, <1>6 DEF Next, RequesterStep
\* At first no call is in progress.
LEMMA OwnInit == Init => OwnInv
BY DEF Init, OwnInv, Stored

-----------------------------------------------------------------------------
(* No torn job, and no end message before its job is done.                  *)

\* The argument and the end message of a slot belong to its function, until
\* then the call that stored the function is under way.
WholeInv ==
    \A s \in Slot : pTask[s] # NULL =>
        /\ \/ pTaskArg[s] = pTask[s]
           \/ \E r \in Requester : rpc[r] = "arg" /\ rslot[r] = s
        /\ \/ endMesg[s] = MesgOf(pTask[s])
           \/ \E r \in Requester : rpc[r] \in {"arg", "mesg"} /\ rslot[r] = s

\* At first every slot is blank.
LEMMA WholeInit == Init => WholeInv
BY DEF Init, WholeInv

\* Every step keeps the three fields of a slot together.
LEMMA WholeNext ==
    ASSUME Ahead, TypeInv, OwnInv, WholeInv, [Next]_vars
    PROVE  WholeInv'
<1>0. /\ pTask \in [Slot -> Job \union {NULL}] /\ pTaskArg \in [Slot -> Job \union {NULL}]
      /\ endMesg \in [Slot -> Job \union {NULL}] /\ rslot \in [Requester -> Slot]
      /\ NULL \notin Job
  BY NullAssumption DEF TypeInv, TypeOK
<1>1. ASSUME NEW r \in Requester, NEW j \in Job, Begin(r, j)
      PROVE  WholeInv'
  <2>1. /\ \A q \in Requester \ {r} : rpc'[q] = rpc[q] /\ rslot'[q] = rslot[q]
        /\ rpc[r] = "idle"
        /\ UNCHANGED <<pTask, pTaskArg, endMesg>>
    BY <1>1 DEF Begin, slotVars, TypeInv, TypeOK
  <2> QED  BY <2>1 DEF WholeInv
<1>2. ASSUME NEW r \in Requester, Scan(r)
      PROVE  WholeInv'
  <2>1. /\ \A q \in Requester \ {r} : rpc'[q] = rpc[q] /\ rslot'[q] = rslot[q]
        /\ rpc[r] = "scan"
        /\ UNCHANGED <<pTask, pTaskArg, endMesg>>
    BY <1>2 DEF Scan, slotVars, TypeInv, TypeOK
  <2> QED  BY <2>1 DEF WholeInv
<1>3. ASSUME NEW r \in Requester, ClearBlank(r) \/ StoreTask(r) \/ Undo(r)
      PROVE  WholeInv'
  <2>1. /\ \A q \in Requester \ {r} : rpc'[q] = rpc[q]
        /\ rpc[r] \notin {"arg", "mesg"}
        /\ \A s \in Slot : s # rslot[r] => pTask'[s] = pTask[s]
        /\ pTask'[rslot[r]] = NULL \/ rpc'[r] = "arg"
        /\ UNCHANGED <<rslot, pTaskArg, endMesg>>
    BY <1>3, <1>0 DEF ClearBlank, StoreTask, Undo, TypeInv, TypeOK
  <2>2. ASSUME NEW s \in Slot, s # rslot[r], pTask[s] # NULL
        PROVE  /\ \/ pTaskArg'[s] = pTask'[s]
                  \/ \E q \in Requester : rpc'[q] = "arg" /\ rslot'[q] = s
               /\ \/ endMesg'[s] = MesgOf(pTask'[s])
                  \/ \E q \in Requester : rpc'[q] \in {"arg", "mesg"} /\ rslot'[q] = s
    BY <2>1, <2>2 DEF WholeInv
  <2> QED  BY <2>1, <2>2 DEF WholeInv
<1>4. ASSUME NEW r \in Requester, StoreArg(r)
      PROVE  WholeInv'
  <2>1. /\ \A q \in Requester \ {r} : rpc'[q] = rpc[q]
        /\ rpc[r] = "arg" /\ rpc'[r] = "mesg"
        /\ \A s \in Slot : pTaskArg'[s] = IF s = rslot[r] THEN rjob[r] ELSE pTaskArg[s]
        /\ UNCHANGED <<rslot, pTask, endMesg>>
    BY <1>4, <1>0 DEF StoreArg, TypeInv, TypeOK
  <2>2. pTask[rslot[r]] = rjob[r]
    BY <2>1 DEF OwnInv, Stored
  <2> QED  BY <2>1, <2>2 DEF WholeInv
<1>5. ASSUME NEW r \in Requester, StoreMesg(r)
      PROVE  WholeInv'
  <2>1. /\ \A q \in Requester \ {r} : rpc'[q] = rpc[q]
        /\ rpc[r] = "mesg"
        /\ \A s \in Slot :
              endMesg'[s] = IF s = rslot[r] THEN MesgOf(rjob[r]) ELSE endMesg[s]
        /\ UNCHANGED <<rslot, pTask, pTaskArg>>
    BY <1>5, <1>0 DEF StoreMesg, TypeInv, TypeOK
  <2>2. pTask[rslot[r]] = rjob[r]
    BY <2>1 DEF OwnInv, Stored
  <2> QED  BY <2>1, <2>2 DEF WholeInv
<1>6. ASSUME NEW r \in Requester, Send(r)
      PROVE  WholeInv'
  <2>1. /\ \A q \in Requester \ {r} : rpc'[q] = rpc[q]
        /\ rpc[r] = "send"
        /\ UNCHANGED <<rslot, pTask, pTaskArg, endMesg>>
    BY <1>6 DEF Send, slotVars, TypeInv, TypeOK
  <2> QED  BY <2>1 DEF WholeInv
<1>7. CASE WorkerStep \/ TakeEndMesg \/ UNCHANGED vars
  <2>1. /\ \A s \in Slot : pTask'[s] = pTask[s] \/ pTask'[s] = NULL
        /\ UNCHANGED <<rpc, rslot, pTaskArg, endMesg>>
    BY <1>7, <1>0 DEF WorkerStep, Receive, Enter, EnterEmpty, Finish, EndMesg, Clear,
       Wipe, TakeEndMesg, slotVars, callVars, vars
  <2> QED  BY <2>1 DEF WholeInv
<1> QED
  BY <1>1, <1>2, <1>3, <1>4, <1>5, <1>6, <1>7 DEF Next, RequesterStep

\* The job in hand keeps its slot until the worker is done with it.
ServedInv ==
    /\ wpc \in {"run", "mesg"} =>
          /\ pTask[current] \in Job
          /\ runs[pTask[current]] > 0
          /\ \A r \in Requester : rpc[r] \in Chosen => rslot[r] # current
    /\ wpc = "run" => run.task = pTask[current]

\* At first the worker has no job in hand.
LEMMA ServedInit == Init => ServedInv
BY DEF Init, ServedInv

\* No call takes the slot of the job in hand.
LEMMA ServedNext ==
    ASSUME Ahead, TypeInv, ServedInv, [Next]_vars
    PROVE  ServedInv'
<1>0. /\ pTask \in [Slot -> Job \union {NULL}] /\ rslot \in [Requester -> Slot]
      /\ runs \in [Job -> Nat] /\ NULL \notin Job
      /\ "idle" \notin Chosen /\ "scan" \notin Chosen
  BY NullAssumption DEF TypeInv, TypeOK, Chosen, Stored
<1>1. ASSUME NEW r \in Requester, NEW j \in Job, Begin(r, j)
      PROVE  ServedInv'
  <2>1. /\ \A q \in Requester \ {r} : rpc'[q] = rpc[q] /\ rslot'[q] = rslot[q]
        /\ rpc'[r] = "scan"
        /\ UNCHANGED <<pTask, wpc, current, run, runs>>
    BY <1>1 DEF Begin, slotVars, workerVars, TypeInv, TypeOK
  <2> QED  BY <1>0, <2>1 DEF ServedInv
<1>2. ASSUME NEW r \in Requester, Scan(r)
      PROVE  ServedInv'
  <2>1. /\ \A q \in Requester \ {r} : rpc'[q] = rpc[q] /\ rslot'[q] = rslot[q]
        /\ rpc'[r] \in {"scan", "idle"} \/ pTask[rslot'[r]] = NULL
        /\ UNCHANGED <<pTask, wpc, current, run, runs>>
    BY <1>2 DEF Scan, slotVars, workerVars, TypeInv, TypeOK
  <2> QED  BY <1>0, <2>1 DEF ServedInv
<1>3. ASSUME NEW r \in Requester, ClearBlank(r) \/ StoreTask(r) \/ Undo(r)
      PROVE  ServedInv'
  <2>1. /\ \A q \in Requester \ {r} : rpc'[q] = rpc[q]
        /\ rpc[r] \in Chosen
        /\ \A s \in Slot : s # rslot[r] => pTask'[s] = pTask[s]
        /\ UNCHANGED <<rslot, wpc, current, run, runs>>
    BY <1>3, <1>0 DEF ClearBlank, StoreTask, Undo, workerVars, TypeInv, TypeOK,
       Chosen, Stored
  <2>2. wpc \in {"run", "mesg"} => current \in Slot
    BY DEF TypeInv
  <2> QED  BY <2>1, <2>2 DEF ServedInv
<1>4. ASSUME NEW r \in Requester, StoreArg(r) \/ StoreMesg(r) \/ Send(r)
      PROVE  ServedInv'
  <2>1. /\ \A q \in Requester \ {r} : rpc'[q] = rpc[q]
        /\ rpc[r] \in Chosen
        /\ UNCHANGED <<rslot, pTask, wpc, current, run, runs>>
    BY <1>4 DEF StoreArg, StoreMesg, Send, workerVars, slotVars, TypeInv, TypeOK,
       Chosen, Stored
  <2> QED  BY <2>1 DEF ServedInv
<1>5. CASE WorkerStep
  <2>1. \A r \in Requester : rpc'[r] \notin Chosen
    BY <1>0, <1>5, WorkerOwn
  <2>2. CASE Enter
    <3>1. /\ current \in Slot /\ pTask[current] \in Job
          /\ run'.task = pTask[current]
          /\ runs' = [runs EXCEPT ![pTask[current]] = @ + 1]
          /\ UNCHANGED <<pTask, current>>
      BY <1>0, <2>2 DEF Enter, slotVars, TypeInv
    <3>2. runs'[pTask[current]] > 0
      BY <1>0, <3>1
    <3> QED  BY <2>1, <3>1, <3>2 DEF ServedInv
  <2>3. CASE Finish \/ EndMesg
    <3>1. /\ wpc \in {"run", "mesg"} /\ wpc' # "run"
          /\ UNCHANGED <<pTask, current, runs>>
      BY <2>3 DEF Finish, EndMesg, slotVars
    <3> QED  BY <2>1, <3>1 DEF ServedInv
  <2>4. CASE Receive \/ EnterEmpty \/ Clear \/ Wipe
    BY <2>4 DEF Receive, EnterEmpty, Clear, Wipe, ServedInv
  <2> QED  BY <1>5, <2>2, <2>3, <2>4 DEF WorkerStep
<1>6. CASE TakeEndMesg \/ UNCHANGED vars
  BY <1>6 DEF TakeEndMesg, vars, slotVars, callVars, workerVars, ServedInv
<1> QED
  BY <1>1, <1>2, <1>3, <1>4, <1>5, <1>6 DEF Next, RequesterStep

\* The job in hand is executed with its own argument.
RunInv == wpc = "run" => run.task = run.arg

\* The worker starts a job when no call is between two of its stores.
LEMMA RunNext ==
    ASSUME Ahead, TypeInv, WholeInv, RunInv, [Next]_vars
    PROVE  RunInv'
<1>1. CASE WorkerStep
  <2>1. CASE Enter
    <3>1. /\ current \in Slot /\ pTask[current] # NULL
          /\ run' = [task |-> pTask[current], arg |-> pTaskArg[current]]
      BY <2>1 DEF Enter, TypeInv
    <3>2. \A r \in Requester : rpc[r] # "arg"
      BY <1>1, WorkerOwn
    <3> QED  BY <3>1, <3>2 DEF WholeInv, RunInv
  <2>2. wpc' # "run" \/ Enter
    BY <1>1 DEF WorkerStep, Receive, EnterEmpty, Finish, EndMesg, Clear, Wipe
  <2> QED  BY <2>1, <2>2 DEF RunInv
<1>2. UNCHANGED <<wpc, run>> \/ WorkerStep
  BY DEF Next, RequesterStep, Begin, Scan, ClearBlank, StoreTask, StoreArg, StoreMesg,
     Send, Undo, TakeEndMesg, vars, workerVars
<1> QED
  BY <1>1, <1>2 DEF RunInv

\* A call whose every step comes before the worker's next one hands over the
\* function together with its argument (request and requestJam).
THEOREM NoJobIsTorn ==
    ASSUME Ahead
    PROVE  Spec => []NoTornJob
<1>1. Init => TypeInv /\ OnceInv /\ OwnInv /\ WholeInv /\ RunInv
  BY TypeInit, OnceInit, OwnInit, WholeInit DEF Init, RunInv
<1>2. /\ TypeInv /\ OnceInv /\ OwnInv /\ WholeInv /\ RunInv /\ [Next]_vars
      => (TypeInv /\ OnceInv /\ OwnInv /\ WholeInv /\ RunInv)'
  BY TypeNext, OnceNext, OwnNext, WholeNext, RunNext
<1>3. RunInv => NoTornJob
  BY DEF RunInv, NoTornJob
<1> QED
  BY <1>1, <1>2, <1>3, PTL DEF Spec
-----------------------------------------------------------------------------
(* The order of the jobs, and the token as a barrier.                       *)

\* What a token stands for was executed to its end.
EndInv == \A t \in DOMAIN endq : Done(endq[t])

\* The worker sends the end message of the job it has just executed.
LEMMA EndNext ==
    ASSUME Ahead, TypeInv, OnceInv, WholeInv, ServedInv, EndInv, [Next]_vars
    PROVE  EndInv'
<1>0. /\ endq \in Seq(Job) /\ runs \in [Job -> Nat] /\ NULL \notin Job
      /\ \A t \in DOMAIN endq : endq[t] \in Job
  BY NullAssumption, ElementOfSeq, LenProperties DEF TypeInv, TypeOK
<1>1. CASE Enter
  <2>1. /\ pTask[current] \in Job /\ current \in Slot /\ wpc = "enter"
        /\ run'.task = pTask[current]
        /\ runs' = [runs EXCEPT ![pTask[current]] = @ + 1]
        /\ endq' = endq
    BY <1>1, <1>0 DEF Enter, TypeInv, TypeOK
  <2>2. runs[pTask[current]] = 0
    BY <1>0, <2>1 DEF OnceInv
  <2> QED  BY <1>0, <2>1, <2>2 DEF EndInv, Done
<1>2. CASE Finish
  <2>1. run'.task = NULL /\ UNCHANGED <<endq, runs>>
    BY <1>2 DEF Finish
  <2> QED  BY <1>0, <2>1 DEF EndInv, Done
<1>3. CASE EndMesg /\ WorkerStep
  <2>1. /\ wpc = "mesg" /\ UNCHANGED <<run, runs>>
        /\ endq' = IF endMesg[current] # NULL /\ Len(endq) < EndNum
                   THEN Append(endq, endMesg[current]) ELSE endq
    BY <1>3 DEF EndMesg
  <2>2. /\ current \in Slot /\ pTask[current] \in Job /\ runs[pTask[current]] > 0
        /\ run.task = NULL
    BY <2>1 DEF ServedInv, TypeInv
  <2>3. endMesg[current] = MesgOf(pTask[current])
    <3>1. \A r \in Requester : rpc[r] \notin {"arg", "mesg"}
      BY <1>3, WorkerOwn
    <3> QED  BY <1>0, <2>2, <3>1 DEF WholeInv
  <2>4. endMesg[current] # NULL => endMesg[current] = pTask[current]
    BY <2>3 DEF MesgOf
  <2>5. CASE endMesg[current] # NULL /\ Len(endq) < EndNum
    <3>1. endq' = Append(endq, pTask[current])
      BY <2>1, <2>4, <2>5
    <3>2. \A t \in DOMAIN endq' :
            endq'[t] = pTask[current] \/ (t \in DOMAIN endq /\ endq'[t] = endq[t])
      BY <1>0, <2>2, <3>1, AppendProperties
    <3>3. Done(pTask[current])'
      <4> PICK j \in Job : j = pTask[current]
        BY <2>2
      <4>1. Done(j)'
        BY <1>0, <2>1, <2>2 DEF Done
      <4>2. pTask' = pTask /\ current' = current
        BY <1>3 DEF EndMesg, slotVars
      <4> QED  BY <4>1, <4>2
    <3> QED  BY <2>1, <3>2, <3>3, <1>3 DEF EndInv, Done, EndMesg, slotVars
  <2>6. CASE ~(endMesg[current] # NULL /\ Len(endq) < EndNum)
    BY <2>1, <2>6 DEF EndInv, Done
  <2> QED  BY <2>5, <2>6
<1>4. CASE TakeEndMesg
  <2>1. endq' = Tail(endq) /\ endq # <<>> /\ UNCHANGED <<run, runs>>
    BY <1>4 DEF TakeEndMesg
  <2>2. \A t \in DOMAIN endq' : t + 1 \in DOMAIN endq /\ endq'[t] = endq[t + 1]
    BY <1>0, <2>1, HeadTailProperties
  <2> QED  BY <2>1, <2>2 DEF EndInv, Done
<1>5. UNCHANGED <<endq, run, runs>> \/ Enter \/ Finish \/ (EndMesg /\ WorkerStep) \/ TakeEndMesg
  BY DEF Next, RequesterStep, Begin, Scan, ClearBlank, StoreTask, StoreArg, StoreMesg,
     Send, Undo, WorkerStep, Receive, EnterEmpty, Clear, Wipe, vars, workerVars
<1> QED
  BY <1>1, <1>2, <1>3, <1>4, <1>5 DEF EndInv, Done
\* The pointer of slot s is still to be taken up.
Queued(s) == s \in Range(queue) \/ (wpc = "enter" /\ current = s)

\* Unless a job was lost a slot is queued once, for a job that was accepted and
\* not started, and the queue holds the jobs as they were accepted.
OrderInv ==
    /\ \A p, q \in DOMAIN queue : queue[p] = queue[q] => p = q
    /\ \A p \in DOMAIN queue : wpc = "enter" => queue[p] # current
    /\ \A s \in Slot : Queued(s) =>
          pTask[s] \in Range(accepted) /\ runs[pTask[s]] = 0
    /\ \A i, k \in DOMAIN accepted : i # k => accepted[i] # accepted[k]
    /\ \A i, k \in DOMAIN accepted : i < k /\ accepted[k] \notin Jam =>
          /\ \A p, q \in DOMAIN queue :
                pTask[queue[p]] = accepted[i] /\ pTask[queue[q]] = accepted[k] => p < q
          /\ \A p \in DOMAIN queue :
                wpc = "enter" /\ pTask[current] = accepted[k]
                   => pTask[queue[p]] # accepted[i]
          /\ runs[accepted[k]] > 0 => Done(accepted[i])

FifoInv == lost = {} => OrderInv

\* At first nothing is queued.
LEMMA FifoInit == Init => FifoInv
<1> SUFFICES ASSUME Init PROVE OrderInv
  BY DEF FifoInv
<1>1. DOMAIN queue = {} /\ DOMAIN accepted = {} /\ Range(queue) = {} /\ wpc = "wait"
  BY DEF Init, Range
<1> QED  BY <1>1 DEF OrderInv, Queued

\* Where an element of a queue is.
LEMMA InRange ==
    ASSUME NEW S, NEW q \in Seq(S)
    PROVE  /\ \A p \in DOMAIN q : q[p] \in S /\ q[p] \in Range(q) /\ p \in Nat
           /\ Range(q) \subseteq S
           /\ \A x \in Range(q) : \E p \in DOMAIN q : q[p] = x
<1>1. DOMAIN q \subseteq Nat /\ \A p \in DOMAIN q : q[p] \in S
  BY ElementOfSeq, LenProperties
<1> QED  BY <1>1 DEF Range

\* Jamming moves what is queued up by one.
LEMMA Jammed ==
    ASSUME NEW S, NEW q \in Seq(S), NEW x \in S
    PROVE  \A p \in DOMAIN (<<x>> \o q) :
              (p = 1 /\ (<<x>> \o q)[p] = x)
              \/ (p - 1 \in DOMAIN q /\ (<<x>> \o q)[p] = q[p - 1])
<1>1. <<x>> \in Seq(S) /\ Len(<<x>>) = 1
  OBVIOUS
<1> QED  BY <1>1, ConcatProperties, LenProperties

\* The order is about slots that are queued, and only about them.
LEMMA OrderFrame ==
    ASSUME TypeInv, OrderInv,
           UNCHANGED <<queue, accepted, run, runs>>,
           UNCHANGED <<wpc, current>> \/ wpc' # "enter",
           \A s \in Slot : s \in Range(queue) => pTask'[s] = pTask[s],
           wpc' = "enter" => pTask'[current] = pTask[current]
    PROVE  OrderInv'
<1>1. \A p \in DOMAIN queue : pTask'[queue[p]] = pTask[queue[p]]
  BY InRange DEF TypeInv, TypeOK
<1>2. Range(queue') = Range(queue) /\ Range(accepted') = Range(accepted)
  OBVIOUS
<1>3. \A s \in Slot : Queued(s)' => Queued(s) /\ pTask'[s] = pTask[s]
  BY <1>2 DEF Queued
<1>4. \A k \in DOMAIN accepted : Done(accepted[k])' <=> Done(accepted[k])
  BY DEF Done
<1>5. wpc' = "enter" => wpc = "enter" /\ current' = current
  OBVIOUS
<1> QED  BY <1>1, <1>2, <1>3, <1>4, <1>5 DEF OrderInv

\* Every step keeps the order, or loses a job.
LEMMA FifoNext ==
    ASSUME TypeInv, OnceInv, AccountInv, OwnInv, FifoInv, [Next]_vars, TypeInv'
    PROVE  FifoInv'
<1>0. /\ pTask \in [Slot -> Job \union {NULL}] /\ rslot \in [Requester -> Slot]
      /\ queue \in Seq(Slot) /\ accepted \in Seq(Job) /\ queue' \in Seq(Slot)
      /\ runs \in [Job -> Nat] /\ NULL \notin Job
      /\ \A r \in Requester : rpc[r] # "idle" => rjob[r] \in Job
      /\ \A p \in DOMAIN queue : queue[p] \in Slot /\ queue[p] \in Range(queue) /\ p \in Nat
      /\ \A m \in DOMAIN accepted :
            accepted[m] \in Job /\ accepted[m] \in Range(accepted) /\ m \in Nat
      /\ Range(queue) \subseteq Slot /\ Range(accepted) \subseteq Job
  BY NullAssumption, InRange DEF TypeInv, TypeOK
<1>a. lost \subseteq lost'
  BY DEF Next, RequesterStep, Begin, Scan, ClearBlank, StoreTask, StoreArg, StoreMesg,
     Send, Undo, WorkerStep, Receive, Enter, EnterEmpty, Finish, EndMesg, Clear, Wipe,
     TakeEndMesg, vars, historyVars
<1> SUFFICES ASSUME lost = {}, lost' = {}, OrderInv
             PROVE  OrderInv'
  BY <1>a DEF FifoInv
<1>1. ASSUME NEW r \in Requester, ClearBlank(r) \/ StoreTask(r) \/ Undo(r)
      PROVE  OrderInv'
  <2>1. /\ UNCHANGED <<queue, accepted, run, runs, wpc, current>>
        /\ \A s \in Slot : s # rslot[r] => pTask'[s] = pTask[s]
    BY <1>1, <1>0 DEF ClearBlank, StoreTask, Undo, workerVars
  <2>2. ~Queued(rslot[r])
    <3>1. CASE ClearBlank(r) \/ StoreTask(r)
      BY <1>0, <3>1 DEF ClearBlank, StoreTask, Unstarted, OrderInv
    <3>2. CASE Undo(r)
      <4>1. pTask[rslot[r]] = rjob[r] /\ rjob[r] \notin Range(accepted)
        BY <3>2 DEF Undo, OwnInv, AccountInv, Stored
      <4> QED  BY <1>0, <4>1 DEF OrderInv
    <3> QED  BY <1>1, <3>1, <3>2
  <2>3. /\ \A s \in Slot : s \in Range(queue) => pTask'[s] = pTask[s]
        /\ wpc' = "enter" => pTask'[current] = pTask[current]
    BY <2>1, <2>2 DEF Queued, TypeInv
  <2> QED  BY <2>1, <2>3, OrderFrame
<1>2. CASE Clear \/ Wipe
  <2>1. /\ UNCHANGED <<queue, accepted, run, runs>> /\ wpc' # "enter"
        /\ current \in Slot /\ Unstarted(current) = {}
        /\ \A s \in Slot : s # current => pTask'[s] = pTask[s]
    BY <1>2, <1>0 DEF Clear, Wipe, TypeInv
  <2>2. ~Queued(current)
    BY <1>0, <2>1 DEF Unstarted, OrderInv
  <2>3. \A s \in Slot : s \in Range(queue) => pTask'[s] = pTask[s]
    BY <2>1, <2>2 DEF Queued
  <2> QED  BY <2>1, <2>3, OrderFrame
<1>3. ASSUME NEW r \in Requester, Send(r), Len(queue) < JobNum
      PROVE  OrderInv'
  <2> DEFINE t == rslot[r]  j == rjob[r]
  <2>1. /\ t \in Slot /\ j \in Job /\ rpc[r] = "send"
        /\ queue' = IF j \in Jam THEN <<t>> \o queue ELSE Append(queue, t)
        /\ accepted' = Append(accepted, j)
        /\ UNCHANGED <<pTask, run, runs, wpc, current>>
    <3>1. ~(Len(queue) >= JobNum)
      BY <1>0, <1>3, JobNumAssumption, LenProperties
    <3> QED  BY <1>0, <1>3, <3>1 DEF Send, slotVars, workerVars
  <2>2. pTask[t] = j /\ j \notin Range(accepted) /\ runs[j] = 0
    BY <2>1 DEF OwnInv, AccountInv, Stored
  <2>3. ~Queued(t)
    BY <2>1, <2>2 DEF OrderInv
  <2>4. /\ \A m \in DOMAIN accepted' :
              (m \in DOMAIN accepted /\ accepted'[m] = accepted[m])
              \/ (m \notin DOMAIN accepted /\ accepted'[m] = j)
        /\ \A i \in DOMAIN accepted, m \in DOMAIN accepted' :
              m \notin DOMAIN accepted => i < m
        /\ \A i, m \in DOMAIN accepted' :
              i \notin DOMAIN accepted /\ m \notin DOMAIN accepted => i = m
    BY <1>0, <2>1, AppendProperties
  <2>5. Range(accepted') = Range(accepted) \union {j}
    BY <1>0, <2>1, RangeSend
  <2>6. /\ \A m \in DOMAIN accepted : accepted[m] # j
        /\ \A m \in DOMAIN accepted : Done(accepted[m])' <=> Done(accepted[m])
    BY <1>0, <2>1, <2>2 DEF Done
  <2>7. Range(queue') = Range(queue) \union {t}
    BY <1>0, <2>1, RangeSend, RangeJam
  <2>8. \A s \in Slot : Queued(s)' => Queued(s) \/ s = t
    BY <2>1, <2>7 DEF Queued
  <2>9. /\ \A p \in DOMAIN queue : queue[p] # t /\ pTask[queue[p]] # j
        /\ wpc = "enter" => current # t /\ pTask[current] # j
    BY <1>0, <2>2, <2>3 DEF OrderInv, Queued, TypeInv
  <2> HIDE DEF j, t
  <2>12. \A i, k \in DOMAIN accepted' : i \in Nat /\ k \in Nat
    BY <1>0, <2>1, AppendProperties, LenProperties
  <2>13. \A i, k \in DOMAIN accepted' : i # k => accepted'[i] # accepted'[k]
    BY <2>4, <2>6 DEF OrderInv
  <2>14. \A s \in Slot : Queued(s)' =>
             pTask'[s] \in Range(accepted') /\ runs'[pTask'[s]] = 0
    BY <2>1, <2>2, <2>5, <2>8 DEF OrderInv
  <2>10. CASE j \in Jam
    <3>1. queue' = <<t>> \o queue
      BY <2>1, <2>10
    <3>2. \A p \in DOMAIN queue' :
              (p = 1 /\ queue'[p] = t)
              \/ (p - 1 \in DOMAIN queue /\ queue'[p] = queue[p - 1])
      BY <1>0, <2>1, <3>1, Jammed
    <3>3. \A p \in DOMAIN queue' : p \in Nat
      BY <1>0, InRange
    <3>4. /\ \A p, q \in DOMAIN queue' : queue'[p] = queue'[q] => p = q
          /\ \A p \in DOMAIN queue' : wpc = "enter" => queue'[p] # current
      BY <2>9, <3>2, <3>3 DEF OrderInv
    <3>5. ASSUME NEW i \in DOMAIN accepted, NEW k \in DOMAIN accepted, i < k,
                 accepted[k] \notin Jam
          PROVE  /\ \A p, q \in DOMAIN queue' :
                       pTask[queue'[p]] = accepted[i] /\ pTask[queue'[q]] = accepted[k]
                          => p < q
                 /\ \A p \in DOMAIN queue' :
                       wpc = "enter" /\ pTask[current] = accepted[k]
                          => pTask[queue'[p]] # accepted[i]
      <4>1. /\ \A p, q \in DOMAIN queue :
                  pTask[queue[p]] = accepted[i] /\ pTask[queue[q]] = accepted[k] => p < q
            /\ \A p \in DOMAIN queue :
                  wpc = "enter" /\ pTask[current] = accepted[k]
                     => pTask[queue[p]] # accepted[i]
        BY <3>5 DEF OrderInv
      <4> QED  BY <2>2, <2>6, <3>2, <3>3, <4>1
    <3>6. ASSUME NEW i \in DOMAIN accepted', NEW k \in DOMAIN accepted', i < k,
                 accepted'[k] \notin Jam
          PROVE  /\ i \in DOMAIN accepted /\ k \in DOMAIN accepted
                 /\ accepted'[i] = accepted[i] /\ accepted'[k] = accepted[k]
      BY <2>4, <2>12, <2>10, <3>6
    <3>7. \A i, k \in DOMAIN accepted' : i < k /\ accepted'[k] \notin Jam =>
             (runs[accepted'[k]] > 0 => Done(accepted'[i]))
      BY <2>6, <3>6 DEF OrderInv
    <3>9. ASSUME NEW i \in DOMAIN accepted', NEW k \in DOMAIN accepted', i < k,
                 accepted'[k] \notin Jam
          PROVE  /\ \A p, q \in DOMAIN queue' :
                       pTask[queue'[p]] = accepted'[i] /\ pTask[queue'[q]] = accepted'[k]
                          => p < q
                 /\ \A p \in DOMAIN queue' :
                       wpc = "enter" /\ pTask[current] = accepted'[k]
                          => pTask[queue'[p]] # accepted'[i]
                 /\ runs[accepted'[k]] > 0 => Done(accepted'[i])
      BY <3>5, <3>6, <3>7, <3>9
    <3> QED
      <4>1. UNCHANGED <<pTask, run, runs, wpc, current>>
        BY <2>1
      <4>2. \A m \in DOMAIN accepted' : Done(accepted'[m]) => Done(accepted[m])'
        BY <4>1 DEF Done
      <4> QED  BY <2>13, <2>14, <3>4, <3>9, <4>1, <4>2 DEF OrderInv
  <2>11. CASE j \notin Jam
    <3>1. queue' = Append(queue, t)
      BY <2>1, <2>11
    <3>2. /\ \A p \in DOMAIN queue' :
                (p \in DOMAIN queue /\ queue'[p] = queue[p])
                \/ (p \notin DOMAIN queue /\ queue'[p] = t)
          /\ \A p \in DOMAIN queue, q \in DOMAIN queue' :
                q \notin DOMAIN queue => p < q
          /\ \A p, q \in DOMAIN queue' :
                p \notin DOMAIN queue /\ q \notin DOMAIN queue => p = q
      BY <1>0, <2>1, <3>1, AppendProperties
    <3>3. \A p \in DOMAIN queue : p \in Nat
      BY <1>0, InRange
    <3>4. /\ \A p, q \in DOMAIN queue' : queue'[p] = queue'[q] => p = q
          /\ \A p \in DOMAIN queue' : wpc = "enter" => queue'[p] # current
      BY <2>9, <3>2, <3>3 DEF OrderInv
    <3>5. ASSUME NEW i \in DOMAIN accepted, NEW k \in DOMAIN accepted, i < k,
                 accepted[k] \notin Jam
          PROVE  /\ \A p, q \in DOMAIN queue' :
                       pTask[queue'[p]] = accepted[i] /\ pTask[queue'[q]] = accepted[k]
                          => p < q
                 /\ \A p \in DOMAIN queue' :
                       wpc = "enter" /\ pTask[current] = accepted[k]
                          => pTask[queue'[p]] # accepted[i]
      <4>1. /\ \A p, q \in DOMAIN queue :
                  pTask[queue[p]] = accepted[i] /\ pTask[queue[q]] = accepted[k] => p < q
            /\ \A p \in DOMAIN queue :
                  wpc = "enter" /\ pTask[current] = accepted[k]
                     => pTask[queue[p]] # accepted[i]
        BY <3>5 DEF OrderInv
      <4> QED  BY <2>2, <2>6, <3>2, <3>3, <4>1
    <3>6. ASSUME NEW i \in DOMAIN accepted', NEW k \in DOMAIN accepted', i < k
          PROVE  /\ i \in DOMAIN accepted /\ accepted'[i] = accepted[i]
                 /\ k \in DOMAIN accepted => accepted'[k] = accepted[k]
                 /\ k \notin DOMAIN accepted => accepted'[k] = j
      BY <2>4, <2>12, <3>6
    <3>7. \A i, k \in DOMAIN accepted' : i < k /\ accepted'[k] \notin Jam =>
             (runs[accepted'[k]] > 0 => Done(accepted'[i]))
      BY <2>2, <2>6, <3>6 DEF OrderInv
    <3>8. ASSUME NEW i \in DOMAIN accepted, NEW p \in DOMAIN queue', NEW q \in DOMAIN queue',
                 pTask[queue'[p]] = accepted[i], pTask[queue'[q]] = j
          PROVE  p < q
      <4>1. p \in DOMAIN queue
        BY <2>2, <2>6, <3>2, <3>8
      <4>2. q \notin DOMAIN queue
        BY <2>9, <3>2, <3>8
      <4> QED  BY <3>2, <4>1, <4>2
    <3>9. ASSUME NEW i \in DOMAIN accepted', NEW k \in DOMAIN accepted', i < k,
                 accepted'[k] \notin Jam
          PROVE  /\ \A p, q \in DOMAIN queue' :
                       pTask[queue'[p]] = accepted'[i] /\ pTask[queue'[q]] = accepted'[k]
                          => p < q
                 /\ \A p \in DOMAIN queue' :
                       wpc = "enter" /\ pTask[current] = accepted'[k]
                          => pTask[queue'[p]] # accepted'[i]
                 /\ runs[accepted'[k]] > 0 => Done(accepted'[i])
      <4>1. CASE k \in DOMAIN accepted
        BY <3>5, <3>6, <3>7, <3>9, <4>1
      <4>2. CASE k \notin DOMAIN accepted
        BY <2>9, <3>6, <3>7, <3>8, <3>9, <4>2
      <4> QED  BY <4>1, <4>2
    <3> QED
      <4>1. UNCHANGED <<pTask, run, runs, wpc, current>>
        BY <2>1
      <4>2. \A m \in DOMAIN accepted' : Done(accepted'[m]) => Done(accepted[m])'
        BY <4>1 DEF Done
      <4> QED  BY <2>13, <2>14, <3>4, <3>9, <4>1, <4>2 DEF OrderInv
  <2> QED  BY <2>10, <2>11
<1>4. CASE Receive
  <2>1. /\ queue # <<>> /\ wpc = "wait" /\ wpc' = "enter"
        /\ current' = Head(queue) /\ queue' = Tail(queue)
        /\ UNCHANGED <<accepted, pTask, run, runs>>
    BY <1>4 DEF Receive, slotVars, historyVars
  <2>2. /\ 1 \in DOMAIN queue /\ current' = queue[1]
        /\ \A p \in DOMAIN queue' : /\ p \in Nat /\ p > 0
                                    /\ p + 1 \in DOMAIN queue
                                    /\ queue'[p] = queue[p + 1]
    BY <1>0, <2>1, HeadTailProperties
  <2>3. \A s \in Slot : Queued(s)' => Queued(s)
    BY <1>0, <2>1, RangeReceive DEF Queued
  <2>4. Range(accepted') = Range(accepted)
    BY <2>1
  <2>5. \A m \in DOMAIN accepted : Done(accepted[m])' <=> Done(accepted[m])
    BY <2>1 DEF Done
  <2>6. \A p, q \in DOMAIN queue' : queue'[p] = queue'[q] => p = q
    BY <2>2 DEF OrderInv
  <2>7. \A p \in DOMAIN queue' : queue'[p] # current'
    BY <2>2 DEF OrderInv
  <2>8. ASSUME NEW i \in DOMAIN accepted, NEW k \in DOMAIN accepted, i < k,
               accepted[k] \notin Jam
        PROVE  /\ \A p, q \in DOMAIN queue' :
                     pTask[queue'[p]] = accepted[i] /\ pTask[queue'[q]] = accepted[k] => p < q
               /\ \A p \in DOMAIN queue' :
                     pTask[current'] = accepted[k] => pTask[queue'[p]] # accepted[i]
    <3>1. \A p, q \in DOMAIN queue :
             pTask[queue[p]] = accepted[i] /\ pTask[queue[q]] = accepted[k] => p < q
      BY <2>8 DEF OrderInv
    <3> QED  BY <2>2, <3>1
  <2> QED  BY <2>1, <2>3, <2>4, <2>5, <2>6, <2>7, <2>8 DEF OrderInv
<1>5. CASE Enter
  <2> PICK j \in Job : j = pTask[current]
    BY <1>0, <1>5 DEF Enter, TypeInv
  <2>1. /\ current \in Slot /\ wpc = "enter" /\ wpc' = "run" /\ run'.task = j
        /\ runs' = [runs EXCEPT ![j] = @ + 1]
        /\ UNCHANGED <<accepted, queue, pTask, current>>
    BY <1>5 DEF Enter, slotVars, historyVars, TypeInv
  <2>2. Queued(current) /\ j \in Range(accepted) /\ runs[j] = 0
    BY <2>1 DEF Queued, OrderInv
  <2>3. /\ \A m \in Job \ {j} : runs'[m] = runs[m]
        /\ runs'[j] > 0
    BY <1>0, <2>1, <2>2
  <2>4. \A p \in DOMAIN queue : queue[p] # current
    BY <2>1 DEF OrderInv
  <2>5. ASSUME NEW s \in Slot, Queued(s)'
        PROVE  pTask'[s] \in Range(accepted') /\ runs'[pTask'[s]] = 0
    <3>1. s \in Range(queue)
      BY <2>1, <2>5 DEF Queued
    <3>2. s # current
      BY <1>0, <2>4, <3>1, InRange
    <3>3. Queued(s) /\ pTask[s] \in Range(accepted) /\ runs[pTask[s]] = 0
      BY <3>1 DEF Queued, OrderInv
    <3>4. pTask[s] # j
      BY <1>0, <2>1, <3>2, <3>3 DEF OnceInv
    <3>5. pTask[s] \in Job
      BY <1>0, <3>3
    <3>6. Range(accepted') = Range(accepted) /\ pTask'[s] = pTask[s]
      BY <2>1
    <3> QED  BY <2>3, <3>3, <3>4, <3>5, <3>6
  <2>6. ASSUME NEW i \in DOMAIN accepted, NEW k \in DOMAIN accepted, i < k,
               accepted[k] \notin Jam, runs'[accepted[k]] > 0
        PROVE  Done(accepted[i])'
    <3>1. CASE accepted[k] = j
      <4>1. accepted[i] # j /\ \A p \in DOMAIN queue : pTask[queue[p]] # accepted[i]
        BY <1>0, <2>1, <2>6, <3>1 DEF OrderInv
      <4>2. runs[accepted[i]] > 0
        <5>1. NoSilentLoss
          BY AccountIsEnough
        <5>2. \A s \in Slot : s \in Range(queue) => pTask[s] # accepted[i]
          BY <1>0, <4>1, InRange
        <5> QED  BY <1>0, <2>1, <4>1, <5>1, <5>2 DEF NoSilentLoss
      <4> QED  BY <1>0, <2>1, <2>3, <4>1, <4>2 DEF Done
    <3>2. CASE accepted[k] # j
      <4>1. runs[accepted[i]] > 0
        BY <1>0, <2>3, <2>6, <3>2 DEF OrderInv, Done
      <4> QED  BY <1>0, <2>1, <2>2, <2>3, <4>1 DEF Done
    <3> QED  BY <3>1, <3>2
  <2> QED  BY <2>1, <2>5, <2>6 DEF OrderInv
<1>6. CASE Finish
  <2>1. /\ run'.task = NULL
        /\ UNCHANGED <<queue, accepted, pTask, runs, current>> /\ wpc' # "enter"
    BY <1>6 DEF Finish, slotVars, historyVars
  <2>2. \A m \in DOMAIN accepted : Done(accepted[m]) => Done(accepted[m])'
    BY <1>0, <2>1 DEF Done
  <2>3. Range(queue') = Range(queue) /\ Range(accepted') = Range(accepted)
    BY <2>1
  <2> QED  BY <2>1, <2>2, <2>3 DEF OrderInv, Queued
<1>7. CASE /\ UNCHANGED <<pTask, queue, accepted, run, runs>>
           /\ UNCHANGED <<wpc, current>> \/ wpc' # "enter"
  BY <1>7, OrderFrame
<1>8. ASSUME NEW r \in Requester, RequesterStep(r)
      PROVE  OrderInv'
  <2>1. CASE (\E j \in Job : Begin(r, j)) \/ Scan(r) \/ StoreArg(r) \/ StoreMesg(r)
    <3>1. UNCHANGED <<pTask, queue, accepted, run, runs, wpc, current>>
      BY <2>1 DEF Begin, Scan, StoreArg, StoreMesg, slotVars, workerVars, historyVars
    <3> QED  BY <1>7, <3>1
  <2>2. CASE Send(r) /\ ~(Len(queue) < JobNum)
    <3>1. UNCHANGED <<pTask, queue, accepted, run, runs, wpc, current>>
      BY <2>2 DEF Send, slotVars, workerVars
    <3> QED  BY <1>7, <3>1
  <2> QED  BY <1>1, <1>3, <1>8, <2>1, <2>2 DEF RequesterStep
<1>9. CASE EnterEmpty \/ EndMesg \/ TakeEndMesg \/ UNCHANGED vars
  <2>1. /\ UNCHANGED <<pTask, queue, accepted, run, runs>>
        /\ UNCHANGED <<wpc, current>> \/ wpc' # "enter"
    BY <1>9 DEF EnterEmpty, EndMesg, TakeEndMesg, vars, slotVars, workerVars, historyVars
  <2> QED  BY <1>7, <2>1
<1> QED
  BY <1>2, <1>4, <1>5, <1>6, <1>8, <1>9 DEF Next, WorkerStep
\* Everything that holds of a thread whose requesters come first.
AheadInv ==
    /\ TypeInv
    /\ OnceInv
    /\ AccountInv
    /\ OwnInv
    /\ WholeInv
    /\ ServedInv
    /\ EndInv
    /\ FifoInv

\* It holds at first ...
LEMMA AheadInit == Init => AheadInv
<1>1. Init => EndInv
  BY DEF Init, EndInv
<1> QED
  BY <1>1, TypeInit, OnceInit, AccountInit, OwnInit, WholeInit, ServedInit, FifoInit
     DEF AheadInv

\* ... and every step keeps it.
LEMMA AheadNext ==
    ASSUME Ahead
    PROVE  AheadInv /\ [Next]_vars => AheadInv'
<1> SUFFICES ASSUME AheadInv, [Next]_vars PROVE AheadInv'
  OBVIOUS
<1>1. (TypeInv /\ OnceInv /\ AccountInv)'
  BY TypeNext, OnceNext, AccountNext DEF AheadInv
<1>2. (OwnInv /\ WholeInv)'
  BY OwnNext, WholeNext DEF AheadInv
<1>3. (ServedInv /\ EndInv)'
  BY ServedNext, EndNext DEF AheadInv
<1>4. FifoInv'
  BY <1>1, FifoNext DEF AheadInv
<1> QED  BY <1>1, <1>2, <1>3, <1>4 DEF AheadInv

\* The jobs posted by request start in the order in which they were accepted,
\* unless one was erased from its slot (request, requestJam and run).
THEOREM JobsStartInOrder ==
    ASSUME Ahead
    PROVE  Spec => []FifoUnlessLost
<1>1. AheadInv => FifoUnlessLost
  BY DEF AheadInv, FifoInv, OrderInv, FifoUnlessLost, Done
<1> QED
  BY <1>1, AheadInit, AheadNext, PTL DEF Spec

\* A token that comes out of the end queue stands for a job that has ended, as
\* has every job accepted before it, unless one was erased from its slot.
THEOREM TokensAreBarriers ==
    ASSUME Ahead
    PROVE  Spec => []TokenIsBarrier
<1>1. AheadInv => TokenIsBarrier
  BY DEF AheadInv, FifoInv, OrderInv, EndInv, TokenIsBarrier, Done
<1> QED
  BY <1>1, AheadInit, AheadNext, PTL DEF Spec

-----------------------------------------------------------------------------
(* One requester.                                                           *)

\* Nobody stores into the slot that findBlank returned.
BlankInv == \A r \in Requester : rpc[r] \in {"blank", "task"} => pTask[rslot[r]] = NULL

\* A lone requester stores into blank slots only, and erases nothing.
LEMMA BlankNext ==
    ASSUME Ahead, \A r, q \in Requester : r = q, TypeInv, OwnInv, BlankInv, [Next]_vars
    PROVE  /\ BlankInv'
           /\ [lost' # lost => /\ wpc \in {"clear", "wipe"}
                               /\ lost' \ lost = {pTask[current]}]_vars
<1>0. pTask \in [Slot -> Job \union {NULL}] /\ rslot \in [Requester -> Slot]
      /\ rpc \in [Requester -> {"idle", "scan", "blank", "task", "arg", "mesg", "send", "undo"}]
      /\ NULL \notin Job
  BY NullAssumption DEF TypeInv, TypeOK
<1>1. ASSUME NEW r \in Requester, RequesterStep(r)
      PROVE  BlankInv' /\ lost' = lost
  <2>1. rpc'[r] \in {"blank", "task"} => pTask'[rslot'[r]] = NULL
    BY <1>0, <1>1 DEF RequesterStep, Begin, Scan, ClearBlank, StoreTask, StoreArg,
       StoreMesg, Send, Undo, slotVars
  <2>2. BlankInv'
    BY <1>1, <2>1 DEF BlankInv
  <2>3. CASE ClearBlank(r) \/ StoreTask(r)
    <3>1. Unstarted(rslot[r]) = {}
      BY <1>0, <2>3 DEF ClearBlank, StoreTask, BlankInv, Unstarted
    <3> QED  BY <2>2, <2>3, <3>1 DEF ClearBlank, StoreTask
  <2>4. CASE Undo(r)
    <3>1. pTask[rslot[r]] = rjob[r]
      BY <2>4 DEF Undo, OwnInv, Stored
    <3>2. Unstarted(rslot[r]) \ {rjob[r]} = {}
      BY <3>1 DEF Unstarted
    <3> QED  BY <2>2, <2>4, <3>2 DEF Undo
  <2>5. lost' = lost \/ ClearBlank(r) \/ StoreTask(r) \/ Undo(r)
    BY <1>1 DEF RequesterStep, Begin, Scan, StoreArg, StoreMesg, Send, historyVars
  <2> QED  BY <2>2, <2>3, <2>4, <2>5
<1>2. CASE WorkerStep
  <2>1. BlankInv'
    BY <1>2, WorkerOwn DEF BlankInv
  <2>2. lost' = lost \/ Clear \/ Wipe
    BY <1>2 DEF WorkerStep, Receive, Enter, EnterEmpty, Finish, EndMesg, historyVars
  <2>3. CASE Clear \/ Wipe
    <3>1. /\ wpc \in {"clear", "wipe"}
          /\ lost' = lost \union Unstarted(current)
      BY <2>3 DEF Clear, Wipe
    <3>2. \A j \in Unstarted(current) : j = pTask[current]
      BY DEF Unstarted
    <3> QED  BY <2>1, <3>1, <3>2
  <2> QED  BY <2>1, <2>2, <2>3
<1>3. CASE TakeEndMesg \/ UNCHANGED vars
  BY <1>3 DEF TakeEndMesg, vars, slotVars, callVars, historyVars, BlankInv
<1> QED  BY <1>1, <1>2, <1>3 DEF Next

\* With one requester, ahead of the worker, a job is erased only by the worker
\* when it cleans up the slot it has in hand (run(), lines 135 to 143).
THEOREM OneRequesterLosesInCleanUp ==
    ASSUME Ahead, \A r, q \in Requester : r = q
    PROVE  Spec => LossOnlyInCleanUp
<1>1. Init => TypeInv /\ OnceInv /\ OwnInv /\ BlankInv
  BY TypeInit, OnceInit, OwnInit DEF Init, BlankInv
<1>2. TypeInv /\ OnceInv /\ OwnInv /\ BlankInv /\ [Next]_vars
      => (TypeInv /\ OnceInv /\ OwnInv /\ BlankInv)'
  BY TypeNext, OnceNext, OwnNext, BlankNext
<1>3. TypeInv /\ OnceInv /\ OwnInv /\ BlankInv /\ [Next]_vars
      => [lost' # lost => /\ wpc \in {"clear", "wipe"}
                          /\ lost' \ lost = {pTask[current]}]_vars
  BY BlankNext
<1> QED
  BY <1>1, <1>2, <1>3, PTL DEF Spec, LossOnlyInCleanUp
=============================================================================
