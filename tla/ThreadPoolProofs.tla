-------------------------- MODULE ThreadPoolProofs --------------------------
(***************************************************************************)
(* Proofs about ThreadPool for any number of threads and tasks: its types, *)
(* that no wake-up is lost, and that it implements TaskPool.  One          *)
(* inductive invariant carries all three: Control says where the caller's  *)
(* progress and the threads' agree, Fifo that the queue holds exactly the  *)
(* tasks submitted last, Handed that a task is with one thread at most and *)
(* not ready while it is.                                                  *)
(***************************************************************************)
EXTENDS ThreadPool, TLAPS

Control ==
    /\ caller = "construct" => spawned < NThreads
    /\ caller = "join" => joining <= spawned
    /\ joining <= spawned + 1
    /\ caller \in {"construct", "use", "notify"} => stop = {}
    /\ caller \in {"use", "notify"} => spawned = NThreads
    /\ queue # <<>> => spawned = NThreads
    /\ \A t \in Threads :
          /\ t <= spawned <=> thread[t] # "none"
          /\ thread[t] = "exited" => t \in stop /\ queue = <<>>
          /\ t < joining => thread[t] = "exited"
          /\ thread[t] = "run" <=> task[t] # 0
    /\ caller = "gone" => joining > spawned

Fifo ==
    /\ Len(queue) <= submitted
    /\ \A i \in 1..Len(queue) : queue[i] = submitted - Len(queue) + i

Handed ==
    /\ \A k \in ready : k <= submitted - Len(queue)
    /\ \A t \in Threads : task[t] # 0 => /\ task[t] <= submitted - Len(queue)
                                         /\ task[t] \notin ready
    /\ \A t, u \in Threads : task[t] # 0 /\ task[t] = task[u] => t = u

PoolInv == TypeOK /\ Control /\ Fifo /\ Handed /\ NoLostWakeup

LEMMA InitPoolInv == Init => PoolInv
  <1> SUFFICES ASSUME Init PROVE PoolInv
    OBVIOUS
  <1> USE ThreadPoolAssumption DEF Init, Threads, Tasks
  <1>1. TypeOK
    BY DEF TypeOK
  <1>2. Control
    BY DEF Control
  <1>3. Fifo /\ Handed
    BY DEF Fifo, Handed
  <1>4. NoLostWakeup
    BY DEF NoLostWakeup
  <1> QED BY <1>1, <1>2, <1>3, <1>4 DEF PoolInv

(* The caller's steps.                                                     *)
LEMMA CallerInv == PoolInv /\ CallerStep => PoolInv'
  <1> SUFFICES ASSUME PoolInv, CallerStep PROVE PoolInv'
    OBVIOUS
  <1> USE ThreadPoolAssumption DEF PoolInv, Threads, Tasks
  <1>1. CASE Spawn
    <2>1. spawned + 1 \in Threads /\ thread[spawned + 1] = "none"
      BY <1>1 DEF Spawn, TypeOK, Control
    <2>2. TypeOK'
      BY <1>1, <2>1 DEF Spawn, TypeOK, Control
    <2>3. Control'
      BY <1>1, <2>1 DEF Spawn, TypeOK, Control
    <2>4. Fifo' /\ Handed'
      BY <1>1 DEF Spawn, Fifo, Handed
    <2>5. NoLostWakeup'
      BY <1>1, <2>1 DEF Spawn, TypeOK, NoLostWakeup, Control
    <2> QED BY <2>2, <2>3, <2>4, <2>5
  <1>2. CASE Enqueue
    <2>1. /\ Len(queue') = Len(queue) + 1 /\ submitted' = submitted + 1
          /\ queue' # <<>>
          /\ \A i \in 1..Len(queue) : queue'[i] = queue[i]
          /\ queue'[Len(queue) + 1] = submitted + 1
      BY <1>2 DEF Enqueue, TypeOK
    <2>2. TypeOK'
      BY <1>2 DEF Enqueue, TypeOK
    <2>3. Control'
      BY <1>2 DEF Enqueue, TypeOK, Control
    <2>4. Fifo'
      <3>1. Len(queue) \in Nat /\ submitted \in Nat
        BY DEF TypeOK
      <3>2. ASSUME NEW i \in 1..Len(queue')
            PROVE  queue'[i] = submitted' - Len(queue') + i
        <4>1. i \in 1..Len(queue) \/ i = Len(queue) + 1
          BY <2>1, <3>1
        <4> QED BY <2>1, <3>1, <4>1 DEF Fifo
      <3> QED BY <2>1, <3>1, <3>2 DEF Fifo
    <2>5. Handed'
      BY <1>2, <2>1 DEF Enqueue, TypeOK, Fifo, Handed
    <2>6. NoLostWakeup'
      BY <1>2 DEF Enqueue, NoLostWakeup
    <2> QED BY <2>2, <2>3, <2>4, <2>5, <2>6
  <1>3. CASE Notify
    <2>1. TypeOK'
      BY <1>3 DEF Notify, TypeOK, Parked
    <2>2. Control'
      BY <1>3 DEF Notify, TypeOK, Control, Parked
    <2>3. Fifo' /\ Handed'
      BY <1>3 DEF Notify, Fifo, Handed
    <2>4. NoLostWakeup'
      <3>1. CASE Parked = {} /\ UNCHANGED thread
        <4>1. 1 \in Threads /\ thread[1] \notin {"none", "parked", "exited"}
          BY <1>3, <3>1 DEF Notify, Parked, Control
        <4> QED BY <3>1, <4>1 DEF TypeOK, NoLostWakeup
      <3>2. CASE \E t \in Parked : thread' = [thread EXCEPT ![t] = "idle"]
        BY <3>2 DEF TypeOK, NoLostWakeup, Parked
      <3> QED BY <1>3, <3>1, <3>2 DEF Notify
    <2> QED BY <2>1, <2>2, <2>3, <2>4
  <1>4. CASE RequestStop
    <2>1. TypeOK'
      BY <1>4 DEF RequestStop, TypeOK, Parked
    <2>2. Control'
      BY <1>4 DEF RequestStop, TypeOK, Control, Parked
    <2>3. Fifo' /\ Handed'
      BY <1>4 DEF RequestStop, Fifo, Handed
    <2>4. NoLostWakeup'
      BY <1>4 DEF RequestStop, TypeOK, NoLostWakeup, Parked
    <2> QED BY <2>1, <2>2, <2>3, <2>4
  <1>5. CASE SpawnFail \/ Destroy \/ Join \/ Gone
    <2>1. TypeOK'
      <3>1. CASE SpawnFail \/ Destroy \/ Gone
        BY <3>1 DEF SpawnFail, Destroy, Gone, TypeOK
      <3>2. CASE Join
        <4>1. joining + 1 \in 1..(NThreads + 1)
          BY <3>2 DEF Join, TypeOK, Control
        <4> QED BY <3>2, <4>1 DEF Join, TypeOK
      <3> QED BY <1>5, <3>1, <3>2
    <2>2. Control'
      <3>1. CASE SpawnFail \/ Destroy
        BY <3>1 DEF SpawnFail, Destroy, TypeOK, Control
      <3>2. CASE Gone
        BY <3>2 DEF Gone, TypeOK, Control
      <3>3. CASE Join
        <4>1. /\ joining' = joining + 1 /\ caller' = "stop" /\ caller = "join"
              /\ thread[joining] = "exited" /\ joining <= spawned
              /\ UNCHANGED <<queue, thread, task, stop, spawned>>
          BY <3>3 DEF Join, Control
        <4>2. joining \in Nat /\ spawned \in Nat
          BY DEF TypeOK
        <4>3. \A t \in Threads : t < joining' => t < joining \/ t = joining
          BY <4>1, <4>2
        <4> QED BY <4>1, <4>2, <4>3 DEF Control
      <3> QED BY <1>5, <3>1, <3>2, <3>3
    <2>3. Fifo' /\ Handed'
      BY <1>5 DEF SpawnFail, Destroy, Join, Gone, Fifo, Handed
    <2>4. NoLostWakeup'
      BY <1>5 DEF SpawnFail, Destroy, Join, Gone, NoLostWakeup
    <2> QED BY <2>1, <2>2, <2>3, <2>4
  <1> QED BY <1>1, <1>2, <1>3, <1>4, <1>5 DEF CallerStep

(* The threads' steps.                                                     *)
LEMMA ThreadInv ==
    ASSUME PoolInv, NEW t \in Threads, ThreadStep(t) \/ Spurious(t)
    PROVE  PoolInv'
  <1> USE ThreadPoolAssumption DEF PoolInv, Threads, Tasks
  <1>1. CASE Take(t)
    <2>1. /\ queue \in Seq(1..NTasks) /\ queue # <<>>
          /\ Len(queue) \in Nat \ {0}
          /\ Head(queue) = queue[1] /\ Head(queue) \in 1..NTasks
          /\ queue' = Tail(queue) /\ Len(queue') = Len(queue) - 1
          /\ \A i \in 1..Len(queue') : queue'[i] = queue[i + 1]
      BY <1>1 DEF Take, TypeOK
    <2>2. Head(queue) = submitted - Len(queue) + 1
      BY <2>1 DEF Fifo
    <2>3. TypeOK'
      BY <1>1, <2>1 DEF Take, TypeOK
    <2>4. Control'
      BY <1>1, <2>1 DEF Take, TypeOK, Control
    <2>5. Fifo'
      BY <1>1, <2>1 DEF Take, TypeOK, Fifo
    <2>6. Handed'
      <3>1. /\ task' = [task EXCEPT ![t] = Head(queue)] /\ ready' = ready
            /\ submitted' = submitted /\ submitted \in Nat
        BY <1>1 DEF Take, TypeOK
      <3>2. /\ Head(queue) = submitted' - Len(queue')
        BY <2>1, <2>2, <3>1
      <3>3. \A k \in ready : k < Head(queue) /\ k <= submitted' - Len(queue')
        BY <2>1, <2>2, <3>1, <3>2 DEF TypeOK, Handed
      <3>4. \A u \in Threads : task[u] # 0 =>
               /\ task[u] < Head(queue) /\ task[u] <= submitted' - Len(queue')
               /\ task[u] \notin ready
        BY <2>1, <2>2, <3>1, <3>2 DEF TypeOK, Handed
      <3>5. \A u \in Threads : task'[u] = IF u = t THEN Head(queue) ELSE task[u]
        BY <3>1 DEF TypeOK
      <3>6. \A u, v \in Threads : task[u] # 0 /\ task[u] = task[v] => u = v
        BY DEF Handed
      <3>7. Head(queue) \notin ready /\ \A u \in Threads : task[u] # Head(queue)
        BY <2>1, <3>3, <3>4 DEF TypeOK
      <3>8. Head(queue) <= submitted' - Len(queue')
        BY <2>1, <3>2
      <3> QED BY <3>1, <3>3, <3>4, <3>5, <3>6, <3>7, <3>8 DEF Handed
    <2>7. NoLostWakeup'
      <3>1. thread'[t] = "run"
        BY <1>1 DEF Take, TypeOK
      <3> QED BY <3>1 DEF NoLostWakeup
    <2> QED BY <2>3, <2>4, <2>5, <2>6, <2>7
  <1>2. CASE Complete(t)
    <2>1. task[t] \in 1..NTasks
      BY <1>2 DEF Complete, TypeOK, Control
    <2>2. TypeOK'
      BY <1>2, <2>1 DEF Complete, TypeOK
    <2>3. Control'
      BY <1>2 DEF Complete, TypeOK, Control
    <2>4. Fifo'
      BY <1>2 DEF Complete, Fifo
    <2>5. Handed'
      BY <1>2, <2>1 DEF Complete, TypeOK, Handed
    <2>6. NoLostWakeup'
      BY <1>2 DEF Complete, TypeOK, NoLostWakeup
    <2> QED BY <2>2, <2>3, <2>4, <2>5, <2>6
  <1>3. CASE Park(t) \/ Quit(t) \/ Spurious(t)
    <2>1. TypeOK'
      BY <1>3 DEF Park, Quit, Spurious, TypeOK
    <2>2. Control'
      <3>1. /\ UNCHANGED <<queue, task, stop, caller, spawned, joining>>
            /\ \A u \in Threads \ {t} : thread'[u] = thread[u]
            /\ thread[t] \in {"idle", "parked"}
            /\ thread'[t] \in {"idle", "parked", "exited"}
            /\ thread'[t] = "exited" => t \in stop /\ queue = <<>>
        BY <1>3 DEF Park, Quit, Spurious, TypeOK
      <3>2. \A u \in Threads :
               /\ u <= spawned' <=> thread'[u] # "none"
               /\ thread'[u] = "exited" => u \in stop' /\ queue' = <<>>
               /\ u < joining' => thread'[u] = "exited"
               /\ thread'[u] = "run" <=> task'[u] # 0
        BY <3>1 DEF Control
      <3> QED BY <3>1, <3>2 DEF Control
    <2>3. Fifo' /\ Handed'
      BY <1>3 DEF Park, Quit, Spurious, Fifo, Handed
    <2>4. NoLostWakeup'
      BY <1>3 DEF Park, Quit, Spurious, TypeOK, NoLostWakeup
    <2> QED BY <2>1, <2>2, <2>3, <2>4
  <1> QED BY <1>1, <1>2, <1>3 DEF ThreadStep

LEMMA PoolInvariant == Spec => []PoolInv
  <1>1. PoolInv /\ [Next]_vars => PoolInv'
    <2>1. CASE UNCHANGED vars
      BY <2>1 DEF vars, PoolInv, TypeOK, Control, Fifo, Handed, NoLostWakeup
    <2> QED BY <2>1, CallerInv, ThreadInv DEF Next, Over
  <1> QED BY <1>1, InitPoolInv, PTL DEF Spec

(* Every variable of the pool keeps its type, with any number of threads   *)
(* and tasks.                                                              *)
THEOREM PoolTypeCorrect == Spec => []TypeOK
  BY PoolInvariant, PTL DEF PoolInv

(* A task in the queue always has a thread awake for it or a notification  *)
(* on its way, although ThreadPool::enqueue notifies after unlocking.      *)
THEOREM WakeupsAreNotLost == Spec => []NoLostWakeup
  BY PoolInvariant, PTL DEF PoolInv

-----------------------------------------------------------------------------
(* ThreadPool implements TaskPool.                                         *)

(* Queued, running and ready are exclusive, so StatusOf's CASE has no      *)
(* order: a task is queued when it is one of the last Len(queue) submitted.*)
Queued(k)   == submitted - Len(queue) < k /\ k <= submitted
Runs(k) == \E t \in Threads : task[t] = k

Statuses ==
    \A k \in Tasks :
       /\ StatusOf(k) = "ready" <=> k \in ready
       /\ StatusOf(k) = "running" <=> Runs(k)
       /\ StatusOf(k) = "queued" <=> Queued(k)
       /\ StatusOf(k) \in {"ready", "running", "queued", "new"}

LEMMA StatusFacts == PoolInv => Statuses
  <1> SUFFICES ASSUME PoolInv, NEW k \in Tasks
               PROVE  /\ StatusOf(k) = "ready" <=> k \in ready
                      /\ StatusOf(k) = "running" <=> Runs(k)
                      /\ StatusOf(k) = "queued" <=> Queued(k)
                      /\ StatusOf(k) \in {"ready", "running", "queued", "new"}
    BY DEF Statuses
  <1> USE ThreadPoolAssumption DEF PoolInv
  <1>1. /\ Len(queue) \in Nat /\ submitted \in Nat /\ k \in Nat \ {0}
        /\ DOMAIN queue = 1..Len(queue)
    BY DEF TypeOK, Tasks
  <1>2. Queued(k) <=> \E i \in DOMAIN queue : queue[i] = k
    <2>1. ASSUME Queued(k) PROVE \E i \in DOMAIN queue : queue[i] = k
      <3> DEFINE i == k - (submitted - Len(queue))
      <3>1. i \in 1..Len(queue) /\ submitted - Len(queue) + i = k
        BY <1>1, <2>1 DEF Queued
      <3>2. queue[i] = submitted - Len(queue) + i
        BY <3>1 DEF Fifo
      <3> HIDE DEF i
      <3> QED BY <1>1, <3>1, <3>2
    <2>2. ASSUME NEW i \in 1..Len(queue), queue[i] = k PROVE Queued(k)
      BY <1>1, <2>2 DEF Fifo, Queued
    <2> QED BY <1>1, <2>1, <2>2
  <1>3. k \in ready => ~Runs(k) /\ ~Queued(k)
    BY <1>1 DEF Handed, Runs, Queued
  <1>4. Runs(k) => ~Queued(k)
    BY <1>1 DEF Handed, Runs, Queued
  <1> QED BY <1>2, <1>3, <1>4 DEF StatusOf, Runs

(* The pool's state as TaskPool sees it.                                   *)
StatusMap == [k \in Tasks |-> StatusOf(k)]

(* When nothing a task's status is read from changes, nor does the status. *)
LEMMA SameStatus ==
    ASSUME PoolInv, PoolInv', UNCHANGED <<queue, submitted, ready, task>>
    PROVE  StatusMap' = StatusMap
  BY DEF StatusMap, StatusOf

(* One task's status moves, the others' stay.                              *)
LEMMA OneMove ==
    ASSUME PoolInv, PoolInv', NEW k \in Tasks, NEW from, NEW to,
           StatusOf(k) = from, StatusOf(k)' = to,
           \A j \in Tasks \ {k} : /\ j \in ready' <=> j \in ready
                                  /\ Runs(j)' <=> Runs(j)
                                  /\ Queued(j)' <=> Queued(j),
           caller # "gone", caller' # "gone"
    PROVE  Promise!Move(k, from, to)
  <1>1. Statuses /\ Statuses'
    <2>1. (PoolInv => Statuses)'
      BY StatusFacts, PTL
    <2> QED BY <2>1, StatusFacts
  <1>2. \A j \in Tasks \ {k} : StatusOf(j)' = StatusOf(j)
    BY <1>1 DEF Statuses
  <1>3. StatusMap' = [StatusMap EXCEPT ![k] = to]
    BY <1>2 DEF StatusMap
  <1> QED BY <1>3 DEF Promise!Move, StatusMap

LEMMA PromiseStep ==
    PoolInv /\ PoolInv' /\ [Next]_vars => [Promise!PoolNext]_(Promise!poolVars)
  <1> SUFFICES ASSUME PoolInv, PoolInv', [Next]_vars
               PROVE  Promise!PoolNext \/ UNCHANGED Promise!poolVars
    OBVIOUS
  <1> USE ThreadPoolAssumption
  <1>0. Statuses /\ Statuses'
    <2>1. (PoolInv => Statuses)'
      BY StatusFacts, PTL
    <2> QED BY <2>1, StatusFacts
  <1>1. CASE /\ UNCHANGED <<queue, submitted, ready, task>>
             /\ caller # "gone" <=> caller' # "gone"
    BY <1>1, SameStatus DEF StatusMap, Promise!poolVars
  <1>2. CASE Enqueue
    <2>0. PICK k \in Tasks : k = submitted + 1
      BY <1>2 DEF Enqueue, PoolInv, TypeOK, Tasks
    <2>1. /\ submitted' = k /\ submitted = k - 1
          /\ Len(queue') = Len(queue) + 1 /\ UNCHANGED <<task, ready>>
          /\ Len(queue) \in Nat /\ k \in Nat \ {0}
      BY <1>2, <2>0 DEF Enqueue, PoolInv, TypeOK, Tasks
    <2>2. StatusOf(k) = "new"
      <3>1. ~Queued(k) /\ ~Runs(k) /\ k \notin ready
        BY <2>1 DEF Queued, Runs, PoolInv, Handed
      <3> QED BY <1>0, <3>1 DEF Statuses
    <2>3. StatusOf(k)' = "queued"
      <3>1. Queued(k)'
        BY <2>1 DEF Queued
      <3> QED BY <1>0, <3>1 DEF Statuses
    <2>4. \A j \in Tasks \ {k} : /\ j \in ready' <=> j \in ready
                                 /\ Runs(j)' <=> Runs(j)
                                 /\ Queued(j)' <=> Queued(j)
      BY <2>1 DEF Runs, Queued, Tasks
    <2>5. Promise!Submit(k)
      BY <1>2, <2>2, <2>3, <2>4, OneMove DEF Enqueue, Promise!Submit
    <2> QED BY <2>5 DEF Promise!PoolNext
  <1>3. ASSUME NEW t \in Threads, Take(t) PROVE Promise!PoolNext
    <2>0. /\ queue \in Seq(Tasks) /\ queue # <<>>
          /\ Head(queue) = queue[1] /\ Head(queue) \in Tasks
          /\ queue' = Tail(queue) /\ Len(queue') = Len(queue) - 1
          /\ Len(queue) \in Nat \ {0} /\ submitted \in Nat
      BY <1>3 DEF Take, PoolInv, TypeOK
    <2>1. PICK k \in Tasks : k = Head(queue)
      BY <2>0
    <2>2. /\ k = submitted - Len(queue) + 1 /\ task[t] = 0
          /\ UNCHANGED <<submitted, ready, caller>>
          /\ task' = [task EXCEPT ![t] = k]
      BY <1>3, <2>0, <2>1 DEF Take, PoolInv, TypeOK, Fifo, Control
    <2>3. StatusOf(k) = "queued"
      <3>1. Queued(k)
        BY <2>0, <2>2 DEF Queued
      <3> QED BY <1>0, <3>1 DEF Statuses
    <2>4. StatusOf(k)' = "running"
      <3>1. Runs(k)'
        BY <2>2 DEF Runs, PoolInv, TypeOK
      <3> QED BY <1>0, <3>1 DEF Statuses
    <2>5. \A j \in Tasks \ {k} : /\ j \in ready' <=> j \in ready
                                 /\ Runs(j)' <=> Runs(j)
                                 /\ Queued(j)' <=> Queued(j)
      <3>1. \A j \in Tasks \ {k} : Runs(j)' <=> Runs(j)
        BY <2>2 DEF Runs, Tasks, PoolInv, TypeOK
      <3>2. ASSUME NEW j \in Tasks \ {k} PROVE Queued(j)' <=> Queued(j)
        <4>1. submitted' - Len(queue') = k /\ submitted - Len(queue) = k - 1
          BY <2>0, <2>2
        <4>2. j \in Nat /\ k \in Nat /\ j # k
          BY DEF Tasks
        <4> QED BY <2>2, <4>1, <4>2 DEF Queued
      <3> QED BY <2>2, <3>1, <3>2
    <2>6. caller # "gone"
      BY <1>3, <2>0 DEF PoolInv, Control, Take, TypeOK, Threads
    <2>7. Promise!Run(k)
      BY <2>2, <2>3, <2>4, <2>5, <2>6, OneMove DEF Promise!Run
    <2> QED BY <2>7 DEF Promise!PoolNext
  <1>4. ASSUME NEW t \in Threads, Complete(t) PROVE Promise!PoolNext
    <2>0. PICK k \in Tasks : k = task[t]
      BY <1>4 DEF Complete, PoolInv, TypeOK, Control
    <2>1. /\ ready' = ready \cup {k} /\ task' = [task EXCEPT ![t] = 0]
          /\ UNCHANGED <<submitted, queue, caller>> /\ k # 0
      BY <1>4, <2>0 DEF Complete, Tasks
    <2>2. StatusOf(k) = "running"
      <3>1. Runs(k)
        BY <2>0 DEF Runs
      <3> QED BY <1>0, <3>1 DEF Statuses
    <2>3. StatusOf(k)' = "ready"
      BY <1>0, <2>1 DEF Statuses
    <2>4. \A j \in Tasks \ {k} : /\ j \in ready' <=> j \in ready
                                 /\ Runs(j)' <=> Runs(j)
                                 /\ Queued(j)' <=> Queued(j)
      BY <2>0, <2>1 DEF Runs, Queued, Tasks, PoolInv, TypeOK
    <2>5. caller # "gone"
      BY <1>4 DEF PoolInv, Control, Complete, TypeOK, Threads
    <2>6. Promise!Finish(k)
      BY <2>1, <2>2, <2>3, <2>4, <2>5, OneMove DEF Promise!Finish
    <2> QED BY <2>6 DEF Promise!PoolNext
  <1>5. CASE Gone
    <2>1. \A t \in Threads : task[t] = 0
      BY <1>5 DEF Gone, PoolInv, Control, TypeOK, Threads
    <2>2. queue = <<>>
      <3>1. queue # <<>> => 1 \in Threads /\ thread[1] = "exited"
        BY <1>5 DEF Gone, PoolInv, Control, TypeOK, Threads
      <3> QED BY <3>1 DEF PoolInv, Control
    <2>3. \A k \in Tasks : StatusOf(k) \in {"new", "ready"}
      BY <1>0, <2>1, <2>2 DEF Statuses, Runs, Queued, Tasks, PoolInv, TypeOK
    <2>4. StatusMap' = StatusMap
      BY <1>5, SameStatus DEF Gone
    <2>5. Promise!Close
      BY <1>5, <2>3, <2>4 DEF Promise!Close, StatusMap, Gone
    <2> QED BY <2>5 DEF Promise!PoolNext
  <1>6. CASE Spawn \/ SpawnFail \/ Notify \/ Destroy \/ RequestStop \/ Join
    BY <1>1, <1>6 DEF Spawn, SpawnFail, Notify, Destroy, RequestStop, Join
  <1>7. ASSUME NEW t \in Threads, Park(t) \/ Quit(t) \/ Spurious(t)
        PROVE  Promise!PoolNext \/ UNCHANGED Promise!poolVars
    BY <1>1, <1>7 DEF Park, Quit, Spurious
  <1>8. CASE UNCHANGED vars
    BY <1>1, <1>8 DEF vars
  <1> QED BY <1>2, <1>3, <1>4, <1>5, <1>6, <1>7, <1>8
          DEF Next, CallerStep, ThreadStep, Over

(* The pool keeps TaskPool's promise with any number of threads and tasks: *)
(* a task is run once, by one thread, and ~ThreadPool returns only when    *)
(* nothing enqueued is left.                                               *)
THEOREM ImplementsTaskPool == Spec => KeepsPromise
  <1>1. Init => Promise!PoolInit
    <2> SUFFICES ASSUME Init PROVE Promise!PoolInit
      OBVIOUS
    <2>1. \A k \in Tasks : StatusOf(k) = "new"
      BY DEF Init, StatusOf, Tasks
    <2> QED BY <2>1 DEF Init, Promise!PoolInit
  <1> QED BY <1>1, PoolInvariant, PromiseStep, PTL
         DEF Spec, KeepsPromise, Promise!PoolSpec
=============================================================================
