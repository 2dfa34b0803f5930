---------------------------- MODULE TaskExecutor ----------------------------
(***************************************************************************)
(* What EGG::TaskThread promises about a job, whatever the threads that    *)
(* post to it do: one job runs at a time, a job that started runs to its   *)
(* end, and a job that did not start is refused to its caller or, because  *)
(* the slots are not protected, lost.  It never runs twice, and a job once *)
(* lost or refused never runs.                                             *)
(***************************************************************************)
CONSTANT Job

VARIABLE status

Status == {"new", "posted", "running", "done", "refused", "lost"}

Idle == \A j \in Job : status[j] # "running"

Init == status = [j \in Job |-> "new"]

Move(j, from, to) ==
    /\ status[j] \in from
    /\ status' = [status EXCEPT ![j] = to]

Post(j)   == Move(j, {"new"}, "posted")
Start(j)  == Idle /\ Move(j, {"posted"}, "running")
Finish(j) == Move(j, {"running"}, "done")
Lose(j)   == Move(j, {"posted"}, "lost")
Refuse(j) == Move(j, {"posted", "lost"}, "refused")

\* The undo of a failed request may erase the job of another thread.
RefuseAndLose(j, k) ==
    /\ j # k
    /\ status[j] \in {"posted", "lost"}
    /\ status[k] = "posted"
    /\ status' = [status EXCEPT ![j] = "refused", ![k] = "lost"]

Next == \E j \in Job :
    \/ Post(j)
    \/ Start(j)
    \/ Finish(j)
    \/ Lose(j)
    \/ Refuse(j)
    \/ \E k \in Job : RefuseAndLose(j, k)

Spec == Init /\ [][Next]_status
=============================================================================
