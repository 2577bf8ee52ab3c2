------------------------------ MODULE TaskPool ------------------------------
(***************************************************************************)
(* What the scanner's pool promises its caller: every submitted task is    *)
(* run exactly once, by somebody, and the pool is only gone when no        *)
(* submitted task is waiting or running.  Threads, the queue, the mutex,   *)
(* the condition variable and the stop tokens do not appear here: they are *)
(* ThreadPool.tla's business.                                              *)
(***************************************************************************)
CONSTANT Task

VARIABLES status,   (* what has become of each task               *)
          alive     (* the pool object exists                     *)

poolVars == <<status, alive>>

Status == {"new", "queued", "running", "ready"}

PoolTypeOK == /\ status \in [Task -> Status]
              /\ alive \in BOOLEAN

PoolInit == /\ status = [t \in Task |-> "new"]
            /\ alive = TRUE

Move(t, from, to) == /\ status[t] = from
                     /\ status' = [status EXCEPT ![t] = to]
                     /\ UNCHANGED alive

Submit(t) == alive /\ Move(t, "new", "queued")
Run(t)    == alive /\ Move(t, "queued", "running")
Finish(t) == alive /\ Move(t, "running", "ready")

(* The destructor returns: nothing submitted is left behind. *)
Close == /\ alive
         /\ \A t \in Task : status[t] \in {"new", "ready"}
         /\ alive' = FALSE
         /\ UNCHANGED status

PoolNext == \/ \E t \in Task : Submit(t) \/ Run(t) \/ Finish(t)
            \/ Close

PoolSpec == PoolInit /\ [][PoolNext]_poolVars
=============================================================================
