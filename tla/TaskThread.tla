----------------------------- MODULE TaskThread -----------------------------
(***************************************************************************)
(* EGG::TaskThread (src/libs/EGG/src/core/eggTaskThread.cpp): a thread     *)
(* that executes the jobs other threads post to it.  A job lives in one of *)
(* mJobNum slots (mpJobList), and a pointer to the slot travels through    *)
(* the message queue of the thread.  Nothing protects the slots: a request *)
(* is a scan, three stores and a send, and any thread of higher priority   *)
(* may run between two of them.                                            *)
(*                                                                         *)
(* The console has one core and the OS schedules by strict priority (a     *)
(* lower number runs first), so a thread takes a step only when no thread  *)
(* that comes before it has one to take.  OSSendMessage, OSJamMessage and  *)
(* OSReceiveMessage run with interrupts disabled: each is one step.        *)
(***************************************************************************)
EXTENDS Integers, Sequences, Functions

CONSTANTS
    Job,        \* the calls of request and requestJam, each call one element
    Jam,        \* those made through requestJam
    Token,      \* those whose endMesg is not NULL
    Requester,  \* the threads that post jobs
    Worker,     \* the TaskThread itself
    Prio,       \* OS priorities
    JobNum,     \* mJobNum, also the capacity of the message queue
    EndNum,     \* capacity of the end-message queue
    NULL

ASSUME JobNumAssumption == JobNum \in Nat \ {0}
ASSUME EndNumAssumption == EndNum \in Nat \ {0}
ASSUME KindAssumption   == Jam \subseteq Job /\ Token \subseteq Job
ASSUME NullAssumption   == NULL \notin Job
ASSUME WorkerAssumption == Worker \notin Requester
ASSUME PrioAssumption   ==
    /\ Prio \in [Requester \union {Worker} -> Nat]
    /\ \A t, u \in Requester \union {Worker} : Prio[t] = Prio[u] => t = u

Slot == 1 .. JobNum

VARIABLES
    pTask,     \* mpJobList: the function of every slot, given as its job,
    pTaskArg,  \*   the argument of every slot,
    endMesg,   \*   and its end message
    queue,     \* mMesgQueue of the thread: pointers to slots
    endq,      \* mpEndMesgQueue
    wpc,       \* where the worker is in run()
    current,   \* pJob in run(), also mpCurrentJob while a job is in hand
    run,       \* the function and the argument being executed
    rpc,       \* where each requester is in request() or requestJam()
    rslot,     \* pJob there (the index of the loop, in findBlank)
    rjob,      \* the job it posts
    requested, \* history: the jobs for which a call was made
    accepted,  \* history: the jobs whose call returned true, in that order
    refused,   \* history: the jobs whose call returned false
    lost,      \* history: jobs erased from their slot before they started
    runs       \* history: how often the function of each job was started

slotVars    == <<pTask, pTaskArg, endMesg>>
workerVars  == <<endq, wpc, current, run, runs>>
callVars    == <<rpc, rslot, rjob>>
historyVars == <<requested, accepted, refused, lost>>
vars == <<slotVars, queue, workerVars, callVars, historyVars>>

MesgOf(j) == IF j \in Token THEN j ELSE NULL

\* The job the slot holds, if its function was not started yet: the job that
\* storing into the slot destroys.
Unstarted(s) == {j \in Job : pTask[s] = j /\ runs[j] = 0}

-----------------------------------------------------------------------------
(* Strict priorities.                                                       *)

\* The body of a task may wait for a device, so a worker in "run" need not
\* keep the processor; everywhere else it does, until its queue is empty.
Busy(t) == IF t = Worker
           THEN wpc \notin {"wait", "run"} \/ (wpc = "wait" /\ queue # <<>>)
           ELSE rpc[t] # "idle"

CanStep(t) ==
    \A u \in Requester \union {Worker} : Prio[u] < Prio[t] => ~Busy(u)

-----------------------------------------------------------------------------
(* A requester in request() or requestJam().  A definition whose comment     *)
(* starts with "Mutant" is a faulty variant of the one that follows it,     *)
(* there to show that a property notices the fault; no specification uses   *)
(* it.                                                                      *)

Begin(r, j) ==
    /\ rpc[r] = "idle"
    /\ j \notin requested
    /\ rpc'   = [rpc EXCEPT ![r] = "scan"]
    /\ rslot' = [rslot EXCEPT ![r] = 1]
    /\ rjob'  = [rjob EXCEPT ![r] = j]
    /\ requested' = requested \union {j}
    /\ UNCHANGED <<slotVars, queue, workerVars, accepted, refused, lost>>

\* Mutant: findBlank returns the first slot without looking at it.
ScanUnchecked(r) ==
    /\ rpc[r] = "scan"
    /\ rpc' = [rpc EXCEPT ![r] = "blank"]
    /\ UNCHANGED <<slotVars, queue, workerVars, rslot, rjob, historyVars>>

\* findBlank: one turn of its loop.
Scan(r) ==
    /\ rpc[r] = "scan"
    /\ \/ /\ pTask[rslot[r]] = NULL
          /\ rpc' = [rpc EXCEPT ![r] = "blank"]
          /\ UNCHANGED <<rslot, refused>>
       \/ /\ pTask[rslot[r]] # NULL
          /\ rslot[r] < JobNum
          /\ rslot' = [rslot EXCEPT ![r] = @ + 1]
          /\ UNCHANGED <<rpc, refused>>
       \/ /\ pTask[rslot[r]] # NULL
          /\ rslot[r] = JobNum
          /\ rpc' = [rpc EXCEPT ![r] = "idle"]
          /\ refused' = refused \union {rjob[r]}
          /\ UNCHANGED rslot
    /\ UNCHANGED <<slotVars, queue, workerVars, rjob, requested, accepted,
                   lost>>

\* findBlank clears the slot it returns, pTask included.
ClearBlank(r) ==
    /\ rpc[r] = "blank"
    /\ lost' = lost \union Unstarted(rslot[r])
    /\ pTask' = [pTask EXCEPT ![rslot[r]] = NULL]
    /\ rpc'  = [rpc EXCEPT ![r] = "task"]
    /\ UNCHANGED <<pTaskArg, endMesg, queue, workerVars, rslot, rjob,
                   requested, accepted, refused>>

\* Mutant: the argument is not stored.
StoreTaskOnly(r) ==
    /\ rpc[r] = "task"
    /\ lost' = lost \union Unstarted(rslot[r])
    /\ pTask' = [pTask EXCEPT ![rslot[r]] = rjob[r]]
    /\ rpc'  = [rpc EXCEPT ![r] = "mesg"]
    /\ UNCHANGED <<pTaskArg, endMesg, queue, workerVars, rslot, rjob,
                   requested, accepted, refused>>

StoreTask(r) ==
    /\ rpc[r] = "task"
    /\ lost' = lost \union Unstarted(rslot[r])
    /\ pTask' = [pTask EXCEPT ![rslot[r]] = rjob[r]]
    /\ rpc'  = [rpc EXCEPT ![r] = "arg"]
    /\ UNCHANGED <<pTaskArg, endMesg, queue, workerVars, rslot, rjob,
                   requested, accepted, refused>>

StoreArg(r) ==
    /\ rpc[r] = "arg"
    /\ pTaskArg' = [pTaskArg EXCEPT ![rslot[r]] = rjob[r]]
    /\ rpc'  = [rpc EXCEPT ![r] = "mesg"]
    /\ UNCHANGED <<pTask, endMesg, queue, workerVars, rslot, rjob,
                   historyVars>>

StoreMesg(r) ==
    /\ rpc[r] = "mesg"
    /\ endMesg' = [endMesg EXCEPT ![rslot[r]] = MesgOf(rjob[r])]
    /\ rpc'  = [rpc EXCEPT ![r] = "send"]
    /\ UNCHANGED <<pTask, pTaskArg, queue, workerVars, rslot, rjob,
                   historyVars>>

\* Mutant: request jams like requestJam.
SendJams(r) ==
    /\ rpc[r] = "send"
    /\ Len(queue) < JobNum
    /\ queue' = <<rslot[r]>> \o queue
    /\ accepted' = Append(accepted, rjob[r])
    /\ rpc' = [rpc EXCEPT ![r] = "idle"]
    /\ UNCHANGED <<slotVars, workerVars, rslot, rjob, requested, refused, lost>>

\* Mutant: jamMessage writes at the first index without stepping it back.
SendJamsOverHead(r) ==
    /\ rpc[r] = "send"
    /\ Len(queue) < JobNum
    /\ queue' = IF rjob[r] \in Jam /\ queue # <<>>
                THEN <<rslot[r]>> \o Tail(queue)
                ELSE Append(queue, rslot[r])
    /\ accepted' = Append(accepted, rjob[r])
    /\ rpc' = [rpc EXCEPT ![r] = "idle"]
    /\ UNCHANGED <<slotVars, workerVars, rslot, rjob, requested, refused, lost>>

\* sendMessage or jamMessage, neither of which waits for room.
Send(r) ==
    /\ rpc[r] = "send"
    /\ \/ /\ Len(queue) < JobNum
          /\ queue' = IF rjob[r] \in Jam THEN <<rslot[r]>> \o queue
                                         ELSE Append(queue, rslot[r])
          /\ accepted' = Append(accepted, rjob[r])
          /\ rpc' = [rpc EXCEPT ![r] = "idle"]
       \/ /\ Len(queue) >= JobNum
          /\ rpc' = [rpc EXCEPT ![r] = "undo"]
          /\ UNCHANGED <<queue, accepted>>
    /\ UNCHANGED <<slotVars, workerVars, rslot, rjob, requested, refused, lost>>

Undo(r) ==
    /\ rpc[r] = "undo"
    /\ lost' = lost \union (Unstarted(rslot[r]) \ {rjob[r]})
    /\ pTask' = [pTask EXCEPT ![rslot[r]] = NULL]
    /\ refused' = refused \union {rjob[r]}
    /\ rpc' = [rpc EXCEPT ![r] = "idle"]
    /\ UNCHANGED <<pTaskArg, endMesg, queue, workerVars, rslot, rjob,
                   requested, accepted>>

RequesterStep(r) ==
    /\ CanStep(r)
    /\ \/ \E j \in Job : Begin(r, j)
       \/ Scan(r)
       \/ ClearBlank(r)
       \/ StoreTask(r)
       \/ StoreArg(r)
       \/ StoreMesg(r)
       \/ Send(r)
       \/ Undo(r)

-----------------------------------------------------------------------------
(* The worker in run().                                                     *)

Receive ==
    /\ wpc = "wait"
    /\ queue # <<>>
    /\ current' = Head(queue)
    /\ queue' = Tail(queue)
    /\ wpc' = "enter"
    /\ UNCHANGED <<slotVars, endq, run, runs, callVars, historyVars>>

\* Mutant: the end message is sent before the function is called.
EnterEarlyMesg ==
    /\ wpc = "enter"
    /\ pTask[current] # NULL
    /\ run'  = [task |-> pTask[current], arg |-> pTaskArg[current]]
    /\ runs' = [runs EXCEPT ![pTask[current]] = @ + 1]
    /\ endq' = IF endMesg[current] # NULL /\ Len(endq) < EndNum
               THEN Append(endq, endMesg[current]) ELSE endq
    /\ wpc'  = "run"
    /\ UNCHANGED <<slotVars, queue, current, callVars, historyVars>>

\* The function and its argument are read together, and called.
Enter ==
    /\ wpc = "enter"
    /\ pTask[current] # NULL
    /\ run'  = [task |-> pTask[current], arg |-> pTaskArg[current]]
    /\ runs' = [runs EXCEPT ![pTask[current]] = @ + 1]
    /\ wpc'  = "run"
    /\ UNCHANGED <<slotVars, queue, endq, current, callVars, historyVars>>

\* Mutant: an empty slot ends the turn before the next message is received.
EnterEmptyStops ==
    /\ wpc = "enter"
    /\ pTask[current] = NULL
    /\ UNCHANGED vars

\* The slot was emptied since its pointer was sent.
EnterEmpty ==
    /\ wpc = "enter"
    /\ pTask[current] = NULL
    /\ wpc' = "clear"
    /\ UNCHANGED <<slotVars, queue, endq, current, run, runs, callVars,
                   historyVars>>

\* Mutant: a job without an end message skips the clean-up of its slot.
FinishSkips ==
    /\ wpc = "run"
    /\ run' = [task |-> NULL, arg |-> NULL]
    /\ wpc' = IF endMesg[current] = NULL THEN "wait" ELSE "mesg"
    /\ UNCHANGED <<slotVars, queue, endq, current, runs, callVars, historyVars>>

Finish ==
    /\ wpc = "run"
    /\ run' = [task |-> NULL, arg |-> NULL]
    /\ wpc' = "mesg"
    /\ UNCHANGED <<slotVars, queue, endq, current, runs, callVars, historyVars>>

\* Mutant: the end message is written past the end of a full queue.
EndMesgOverruns ==
    /\ wpc = "mesg"
    /\ endq' = IF endMesg[current] # NULL
               THEN Append(endq, endMesg[current]) ELSE endq
    /\ wpc'  = "clear"
    /\ UNCHANGED <<slotVars, queue, current, run, runs, callVars, historyVars>>

\* endMesg is read from the slot only now, and dropped if the queue is full.
EndMesg ==
    /\ wpc = "mesg"
    /\ endq' = IF endMesg[current] # NULL /\ Len(endq) < EndNum
               THEN Append(endq, endMesg[current]) ELSE endq
    /\ wpc'  = "clear"
    /\ UNCHANGED <<slotVars, queue, current, run, runs, callVars, historyVars>>

\* pJob->pTask = NULL: from here on findBlank may return the slot ...
Clear ==
    /\ wpc = "clear"
    /\ lost' = lost \union Unstarted(current)
    /\ pTask' = [pTask EXCEPT ![current] = NULL]
    /\ wpc'  = "wipe"
    /\ UNCHANGED <<pTaskArg, endMesg, queue, endq, current, run, runs, callVars,
                   requested, accepted, refused>>

\* ... and clear_functions() sets pTask to NULL once more.
Wipe ==
    /\ wpc = "wipe"
    /\ lost' = lost \union Unstarted(current)
    /\ pTask' = [pTask EXCEPT ![current] = NULL]
    /\ current' = NULL
    /\ wpc'  = "wait"
    /\ UNCHANGED <<pTaskArg, endMesg, queue, endq, run, runs, callVars,
                   requested, accepted, refused>>

WorkerStep ==
    /\ CanStep(Worker)
    /\ \/ Receive
       \/ Enter
       \/ EnterEmpty
       \/ Finish
       \/ EndMesg
       \/ Clear
       \/ Wipe

\* waitTaskEndMessage, polled by the owner of the end-message queue.
TakeEndMesg ==
    /\ endq # <<>>
    /\ endq' = Tail(endq)
    /\ UNCHANGED <<slotVars, queue, wpc, current, run, runs, callVars,
                   historyVars>>

-----------------------------------------------------------------------------
Init ==
    /\ pTask = [s \in Slot |-> NULL]
    /\ pTaskArg = [s \in Slot |-> NULL]
    /\ endMesg = [s \in Slot |-> NULL]
    /\ queue = <<>>
    /\ endq = <<>>
    /\ wpc = "wait"
    /\ current = NULL
    /\ run = [task |-> NULL, arg |-> NULL]
    /\ rpc = [r \in Requester |-> "idle"]
    /\ rslot = [r \in Requester |-> 1]
    /\ rjob = [r \in Requester |-> NULL]
    /\ requested = {}
    /\ accepted = <<>>
    /\ refused = {}
    /\ lost = {}
    /\ runs = [j \in Job |-> 0]

Next ==
    \/ \E r \in Requester : RequesterStep(r)
    \/ WorkerStep
    \/ TakeEndMesg

Spec == Init /\ [][Next]_vars

\* Every task returns, and every thread of higher priority waits for
\* something each frame, so neither the worker nor a call in progress is kept
\* from the processor for ever.
Fairness ==
    /\ WF_vars(WorkerStep)
    /\ WF_vars(TakeEndMesg)
    /\ \A r \in Requester : WF_vars(rpc[r] # "idle" /\ RequesterStep(r))

FairSpec == Spec /\ Fairness

-----------------------------------------------------------------------------
(* Invariants.                                                              *)

\* Type invariant; neither queue ever holds more than its array has room for
\* (OSSendMessage and OSJamMessage, line 19 and line 61).
TypeOK ==
    /\ pTask \in [Slot -> Job \union {NULL}]
    /\ pTaskArg \in [Slot -> Job \union {NULL}]
    /\ endMesg \in [Slot -> Job \union {NULL}]
    /\ queue \in Seq(Slot)
    /\ Len(queue) <= JobNum
    /\ endq \in Seq(Job)
    /\ Len(endq) <= EndNum
    /\ wpc \in {"wait", "enter", "run", "mesg", "clear", "wipe"}
    /\ current \in Slot \union {NULL}
    /\ run \in [task : Job \union {NULL}, arg : Job \union {NULL}]
    /\ rpc \in [Requester ->
            {"idle", "scan", "blank", "task", "arg", "mesg", "send", "undo"}]
    /\ rslot \in [Requester -> Slot]
    /\ rjob \in [Requester -> Job \union {NULL}]
    /\ requested \subseteq Job
    /\ accepted \in Seq(Job)
    /\ refused \subseteq Job
    /\ lost \subseteq Job
    /\ runs \in [Job -> Nat]

Done(j) == runs[j] > 0 /\ run.task # j

\* No job is executed twice, however the threads that share the slots
\* interleave: clearing pTask before the pointer can be received again is
\* what a slot queued twice relies on (run(), lines 127 and 135).
AtMostOnce == \A j \in Job : runs[j] <= 1

\* A request that returned true is never forgotten unnoticed: its job was
\* started, or was erased from its slot, or waits in a slot whose pointer
\* the worker still has to take up.
NoSilentLoss == \A j \in Range(accepted) :
    \/ runs[j] > 0
    \/ j \in lost
    \/ \E s \in Slot : /\ pTask[s] = j
                       /\ s \in Range(queue) \/ (wpc = "enter" /\ current = s)

\* A function is called with the argument it was posted with.  This needs
\* every requester to come before the worker in priority: a call is then
\* complete before the worker looks at a slot.
NoTornJob == wpc = "run" => run.task = run.arg

\* Messages of the end queue, which the managers use as barriers
\* (nand::Manager::sendToken and receiveToken): unless a job was lost,
\* everything accepted before the token has been executed.
TokenIsBarrier == lost = {} =>
    \A t \in DOMAIN endq :
        /\ Done(endq[t])
        /\ \A i, k \in DOMAIN accepted :
              i < k /\ accepted[k] = endq[t] /\ endq[t] \notin Jam
                => Done(accepted[i])

\* Jobs start in the order in which they were accepted, those posted with
\* requestJam aside, unless a job was lost: the slot of a lost job is queued
\* twice when it is reused, and the newcomer then overtakes.
FifoUnlessLost == lost = {} =>
    \A i, k \in DOMAIN accepted :
        i < k /\ accepted[k] \notin Jam /\ runs[accepted[k]] > 0
            => runs[accepted[i]] > 0

(* Action properties.                                                       *)

\* With one requester, ahead of the worker, only the worker's clean-up of the
\* slot it has just served erases a job (run(), lines 135 to 143).
LossOnlyInCleanUp ==
    [][lost' # lost => /\ wpc \in {"clear", "wipe"}
                       /\ lost' \ lost = {pTask[current]}]_vars

(* Liveness.                                                                *)

\* Every job whose request returned true is executed to its end or lost.
AcceptedIsServed ==
    \A j \in Job : j \in Range(accepted) ~> (Done(j) \/ j \in lost)

(* What it implements.                                                      *)

StatusOf(j) ==
    CASE run.task = j      -> "running"
      [] Done(j)           -> "done"
      [] runs[j] = 0 /\ j \in refused -> "refused"
      [] runs[j] = 0 /\ j \in lost \ refused -> "lost"
      [] runs[j] = 0 /\ j \in requested \ (lost \union refused) -> "posted"
      [] OTHER -> "new"

Executor == INSTANCE TaskExecutor WITH
    status <- [j \in Job |-> StatusOf(j)]

\* Any use of the thread, by any number of requesters of any priority, keeps
\* the life of each job within TaskExecutor.
ImplementsExecutor == Executor!Spec
=============================================================================
