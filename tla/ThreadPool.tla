----------------------------- MODULE ThreadPool -----------------------------
(***************************************************************************)
(* class ThreadPool of tcp_async_scan.cpp: a queue of tasks under a mutex, *)
(* a condition variable, and one jthread per worker.  A critical section   *)
(* under mu_ is one action; the notification that follows enqueue's        *)
(* critical section is an action of its own, as it happens unlocked.       *)
(*                                                                         *)
(* The caller constructs the pool thread by thread (a std::thread          *)
(* constructor may throw, which unwinds those already started), enqueues   *)
(* tasks, and destroys the pool whenever it likes: after it has collected  *)
(* every future, or early while an exception unwinds                       *)
(* run_connect_scan_with_pool.                                             *)
(***************************************************************************)
EXTENDS Naturals, Sequences

CONSTANTS NThreads,   (* worker_count                                  *)
          NTasks      (* how many tasks the caller may enqueue         *)

ASSUME ThreadPoolAssumption == /\ NThreads \in Nat \ {0}
                               /\ NTasks \in Nat

VARIABLES queue,      (* tasks_                                        *)
          thread,     (* where each jthread is                         *)
          task,       (* the task a thread holds, 0 when none          *)
          stop,       (* the jthreads whose stop was requested         *)
          caller,     (* where the owner of the pool is                *)
          spawned,    (* how many jthreads workers_ holds              *)
          submitted,  (* how many tasks were enqueued                  *)
          joining,    (* the jthread the destructor is at              *)
          ready       (* tasks whose future is ready                   *)

vars == <<queue, thread, task, stop, caller, spawned, submitted, joining,
          ready>>

Threads == 1..NThreads
Tasks   == 1..NTasks

TypeOK ==
    /\ queue \in Seq(Tasks)
    /\ thread \in [Threads -> {"none", "idle", "parked", "run", "exited"}]
    /\ task \in [Threads -> Tasks \cup {0}]
    /\ stop \in SUBSET Threads
    /\ caller \in {"construct", "use", "notify", "stop", "join", "gone"}
    /\ spawned \in 0..NThreads
    /\ submitted \in 0..NTasks
    /\ joining \in 1..(NThreads + 1)
    /\ ready \in SUBSET Tasks

Init ==
    /\ queue = <<>>
    /\ thread = [t \in Threads |-> "none"]
    /\ task = [t \in Threads |-> 0]
    /\ stop = {}
    /\ caller = "construct"
    /\ spawned = 0
    /\ submitted = 0
    /\ joining = 1
    /\ ready = {}

-----------------------------------------------------------------------------
(* The caller.                                                             *)

(* (fault: the loop runs once too often)                                   *)
SpawnOneMore ==
    /\ caller = "construct"
    /\ spawned' = spawned + 1
    /\ thread' = [thread EXCEPT ![spawned + 1] = "idle"]
    /\ caller' = IF spawned = NThreads THEN "use" ELSE "construct"
    /\ UNCHANGED <<queue, task, stop, submitted, joining, ready>>

Spawn ==
    /\ caller = "construct"
    /\ spawned' = spawned + 1
    /\ thread' = [thread EXCEPT ![spawned + 1] = "idle"]
    /\ caller' = IF spawned + 1 = NThreads THEN "use" ELSE "construct"
    /\ UNCHANGED <<queue, task, stop, submitted, joining, ready>>

(* std::jthread's constructor throws: workers_ is destroyed as it stands.  *)
SpawnFail ==
    /\ caller = "construct"
    /\ caller' = "stop"
    /\ UNCHANGED <<queue, thread, task, stop, spawned, submitted, joining,
                   ready>>

Enqueue ==
    /\ caller = "use"
    /\ submitted < NTasks
    /\ submitted' = submitted + 1
    /\ queue' = Append(queue, submitted + 1)
    /\ caller' = "notify"
    /\ UNCHANGED <<thread, task, stop, spawned, joining, ready>>

Parked == {t \in Threads : thread[t] = "parked"}

(* (fault: enqueue forgets notify_one)                                     *)
NotifyNobody ==
    /\ caller = "notify"
    /\ caller' = "use"
    /\ UNCHANGED <<queue, thread, task, stop, spawned, submitted, joining,
                   ready>>

(* notify_one: some waiting thread, if there is one.                       *)
Notify ==
    /\ caller = "notify"
    /\ caller' = "use"
    /\ \/ /\ Parked = {}
          /\ UNCHANGED thread
       \/ \E t \in Parked : thread' = [thread EXCEPT ![t] = "idle"]
    /\ UNCHANGED <<queue, task, stop, spawned, submitted, joining, ready>>

Destroy ==
    /\ caller = "use"
    /\ caller' = "stop"
    /\ UNCHANGED <<queue, thread, task, stop, spawned, submitted, joining,
                   ready>>

(* ~jthread, first half: request_stop runs the wait's stop callback, which *)
(* wakes every waiter of the condition variable.                           *)
(* (fault: the stop is a mere flag, no callback runs)                      *)
RequestStopSilent ==
    /\ caller = "stop"
    /\ joining <= spawned
    /\ stop' = stop \cup {joining}
    /\ caller' = "join"
    /\ UNCHANGED <<queue, thread, task, spawned, submitted, joining, ready>>

RequestStop ==
    /\ caller = "stop"
    /\ joining <= spawned
    /\ stop' = stop \cup {joining}
    /\ thread' = [t \in Threads |-> IF t \in Parked THEN "idle" ELSE thread[t]]
    /\ caller' = "join"
    /\ UNCHANGED <<queue, task, spawned, submitted, joining, ready>>

(* ~jthread, second half.                                                  *)
Join ==
    /\ caller = "join"
    /\ thread[joining] = "exited"
    /\ joining' = joining + 1
    /\ caller' = "stop"
    /\ UNCHANGED <<queue, thread, task, stop, spawned, submitted, ready>>

Gone ==
    /\ caller = "stop"
    /\ joining > spawned
    /\ caller' = "gone"
    /\ UNCHANGED <<queue, thread, task, stop, spawned, submitted, joining,
                   ready>>

-----------------------------------------------------------------------------
(* A worker thread: cv_.wait(lock, stoken, pred) and what follows it.      *)

(* The predicate holds, whatever the stop token says: pop the front.       *)
Take(t) ==
    /\ thread[t] = "idle"
    /\ queue # <<>>
    /\ task' = [task EXCEPT ![t] = Head(queue)]
    /\ queue' = Tail(queue)
    /\ thread' = [thread EXCEPT ![t] = "run"]
    /\ UNCHANGED <<stop, caller, spawned, submitted, joining, ready>>

Park(t) ==
    /\ thread[t] = "idle"
    /\ queue = <<>>
    /\ t \notin stop
    /\ thread' = [thread EXCEPT ![t] = "parked"]
    /\ UNCHANGED <<queue, task, stop, caller, spawned, submitted, joining,
                   ready>>

(* (fault: the thread returns on a stop, whatever is queued)               *)
QuitAtOnce(t) ==
    /\ thread[t] = "idle"
    /\ t \in stop
    /\ thread' = [thread EXCEPT ![t] = "exited"]
    /\ UNCHANGED <<queue, task, stop, caller, spawned, submitted, joining,
                   ready>>

(* Stop requested and the predicate false: the wait returns false.         *)
Quit(t) ==
    /\ thread[t] = "idle"
    /\ queue = <<>>
    /\ t \in stop
    /\ thread' = [thread EXCEPT ![t] = "exited"]
    /\ UNCHANGED <<queue, task, stop, caller, spawned, submitted, joining,
                   ready>>

(* task() returns; the packaged_task has made its future ready.            *)
Complete(t) ==
    /\ thread[t] = "run"
    /\ ready' = ready \cup {task[t]}
    /\ task' = [task EXCEPT ![t] = 0]
    /\ thread' = [thread EXCEPT ![t] = "idle"]
    /\ UNCHANGED <<queue, stop, caller, spawned, submitted, joining>>

(* A wait may wake up for no reason.                                       *)
Spurious(t) ==
    /\ thread[t] = "parked"
    /\ thread' = [thread EXCEPT ![t] = "idle"]
    /\ UNCHANGED <<queue, task, stop, caller, spawned, submitted, joining,
                   ready>>

ThreadStep(t) == Take(t) \/ Park(t) \/ Quit(t) \/ Complete(t)

CallerStep == Spawn \/ SpawnFail \/ Enqueue \/ Notify \/ Destroy
              \/ RequestStop \/ Join \/ Gone

(* The destroyed pool is the end of the behaviour.                         *)
Over == caller = "gone" /\ UNCHANGED vars

Next == \/ CallerStep
        \/ \E t \in Threads : ThreadStep(t) \/ Spurious(t)
        \/ Over

(* The scheduler runs every thread that can run.  Nothing obliges the      *)
(* caller to enqueue or to destroy, but once in notify_one or in the       *)
(* destructor it goes on; spurious wake-ups are owed to nobody.            *)
Fairness == /\ \A t \in Threads : WF_vars(ThreadStep(t))
            /\ WF_vars(Spawn \/ Notify \/ RequestStop \/ Join \/ Gone)

Spec == Init /\ [][Next]_vars /\ Fairness

-----------------------------------------------------------------------------
(* Properties.                                                             *)

(* No lost wake-up: while a task is queued, a thread is awake to take it,  *)
(* or the notification for it is still to come (ThreadPool::enqueue        *)
(* pushes under mu_ and notifies after releasing it).                      *)
NoLostWakeup ==
    queue # <<>> => \/ caller = "notify"
                    \/ \E t \in Threads : thread[t] \in {"idle", "run"}

(* What a task is to the pool's user.                                      *)
StatusOf(k) ==
    CASE k \in ready                            -> "ready"
      [] \E t \in Threads : task[t] = k         -> "running"
      [] \E i \in DOMAIN queue : queue[i] = k   -> "queued"
      [] OTHER                                  -> "new"

(* The class keeps TaskPool's promise: each task is handed to exactly one  *)
(* thread, once, and the destructor drains the queue before it returns.    *)
Promise == INSTANCE TaskPool WITH Task   <- Tasks,
                                  status <- [k \in Tasks |-> StatusOf(k)],
                                  alive  <- caller # "gone"
KeepsPromise == Promise!PoolSpec

(* The collector loop waits for futures and nothing else, so every task    *)
(* enqueued must become ready without any help from the destructor.        *)
EveryTaskRuns == \A k \in Tasks : (k <= submitted) ~> (k \in ready)

(* ~ThreadPool returns: it never waits for a thread that sleeps forever.   *)
DestructorReturns == (caller = "stop") ~> (caller = "gone")
=============================================================================
