------------------------- MODULE ConnectScanProofs -------------------------
(***************************************************************************)
(* Proofs about ConnectScan, for any number of workers, ports and          *)
(* descriptors.  The invariants come in layers, each proved inductive with *)
(* the help of those before it: types and control, descriptors, the clock  *)
(* of the watchdog, the counters, how long a connect has been pending, and *)
(* the verdicts, with which the scan implements PortScan.                  *)
(***************************************************************************)
EXTENDS ConnectWatchdog, FiniteSetTheorems, TLAPS

(* The shards are sequences of ports.                                      *)
LEMMA ShardFacts ==
    ASSUME NEW w \in Workers
    PROVE  /\ Shards[w] \in Seq(Port)
           /\ Len(Shards[w]) \in Nat \ {0}
           /\ \A k \in 1..Len(Shards[w]) : Shards[w][k] \in Port
  <1>1. Shards[w] \in Seq(Port) /\ Shards[w] # <<>>
    <2>1. Shards \in [Workers -> Seq(Port) \ {<<>>}]
      BY ShardsAssumption
    <2> QED BY <2>1
  <1>2. \A s \in Seq(Port) :
           /\ s # <<>> => Len(s) \in Nat \ {0}
           /\ \A k \in 1..Len(s) : s[k] \in Port
    OBVIOUS
  <1> QED BY <1>1, <1>2

(* Control: what a task's position says of its local variables.            *)
TaskControl(w) ==
    /\ pc[w] = "rc" <=> cur[w] # NoLaunch
    /\ pc[w] = "rc" => next[w] < Len(Shards[w])
    /\ pc[w] \in Running <=> epfd[w] # 0
    /\ pc[w] \notin Running => Active(w) = {}
    /\ pc[w] \in {"new", "queued"} => next[w] = 0 /\ out[w] = NoResult

Submitting == cpc = "submit" =>
                 ci < NWorkers /\ \A w \in Workers : w >= ci => pc[w] = "new"

Control == Submitting /\ \A w \in Workers : TaskControl(w)

TypeInv == TypeOK /\ Control

(* Deciding a port keeps the types.                                        *)
LEMMA MarkDoneType ==
    ASSUME NEW w \in Workers, NEW p \in Port, NEW v \in Verdict, TypeOK,
           MarkDone(w, p, v)
    PROVE  /\ out' \in [Workers -> WorkerResult]
           /\ progress' \in Nat
           /\ verdict' \in [Port -> Verdict]
  <1>1. Counted(out[w], p, v) \in WorkerResult
    <2>1. out[w] \in WorkerResult
      BY DEF TypeOK
    <2>2. PICK r : r = out[w]
      OBVIOUS
    <2>3. /\ r.open \in SUBSET Port /\ r.scanned \in Nat /\ r.timeouts \in Nat
          /\ r.refused \in Nat /\ r.other \in Nat /\ r.aborted \in BOOLEAN
      BY <2>1, <2>2 DEF WorkerResult
    <2> QED BY <2>2, <2>3 DEF WorkerResult, Counted, Tally
  <1> QED BY <1>1 DEF TypeOK, MarkDone, workerVars, collectorVars

LEMMA InitTypeInv == Init => TypeInv
  <1> SUFFICES ASSUME Init PROVE TypeInv OBVIOUS
  <1> USE SizesAssumption DEF Init
  <1>1. NoResult \in WorkerResult
    BY DEF NoResult, WorkerResult
  <1>2. \A w \in Workers : next[w] <= Len(Shards[w])
    BY ShardFacts
  <1>3. ci \in 0..NWorkers /\ stalled \in 0..(StallLimit + 1)
    OBVIOUS
  <1>4. TypeOK
    BY <1>1, <1>2, <1>3 DEF TypeOK, Verdict, workerVars, collectorVars
  <1>5. Control
    BY DEF Control, Submitting, TaskControl, Running, Workers, Active, Fds
  <1> QED BY <1>4, <1>5 DEF TypeInv, workerVars, collectorVars

-----------------------------------------------------------------------------
(* A worker's step concerns that worker: the others' variables, the        *)
(* collector's and the stop flag stay as they are.                         *)

LEMMA WorkerFrame ==
    ASSUME TypeOK, NEW w \in Workers, WorkerStep(w)
    PROVE  /\ \A v \in Workers \ {w} :
                 /\ pc'[v] = pc[v] /\ next'[v] = next[v] /\ epfd'[v] = epfd[v]
                 /\ cur'[v] = cur[v] /\ active'[v] = active[v] /\ evs'[v] = evs[v]
                 /\ expired'[v] = expired[v] /\ out'[v] = out[v]
           /\ UNCHANGED <<collectorVars, stop>>
           /\ pc[w] \in {"queued"} \cup Running
           /\ pc'[w] \in {"ready"} \cup Running
  <1> USE DEF TypeOK, Goto, MarkDone, Running, workerVars, collectorVars
  <1>1. CASE BeginNoEpoll(w) BY <1>1 DEF BeginNoEpoll
  <1>2. CASE Begin(w) BY <1>2 DEF Begin
  <1>3. CASE Loop(w) BY <1>3 DEF Loop
  <1>4. CASE NoSocket(w) BY <1>4 DEF NoSocket
  <1>5. CASE Connect(w) BY <1>5 DEF Connect
  <1>6. CASE Launched(w) BY <1>6 DEF Launched
  <1>7. CASE LaunchEnd(w) BY <1>7 DEF LaunchEnd
  <1>8. CASE Wait(w) BY <1>8 DEF Wait
  <1>9. CASE Event(w) BY <1>9 DEF Event
  <1>10. CASE EventsEnd(w) BY <1>10 DEF EventsEnd
  <1>11. CASE Sweep(w) BY <1>11 DEF Sweep
  <1>12. CASE SweepEnd(w) BY <1>12 DEF SweepEnd
  <1>13. CASE Finish(w) BY <1>13 DEF Finish
  <1> QED BY <1>1, <1>2, <1>3, <1>4, <1>5, <1>6, <1>7, <1>8, <1>9, <1>10,
             <1>11, <1>12, <1>13 DEF WorkerStep

(* So the control of a worker's step is that worker's control.             *)
LEMMA ControlOfOne ==
    ASSUME TypeInv, NEW w \in Workers, WorkerStep(w), TaskControl(w)'
    PROVE  Control'
  <1>1. \A v \in Workers \ {w} : TaskControl(v)'
    BY WorkerFrame DEF TypeInv, Control, TaskControl, Active
  <1>2. Submitting'
    BY WorkerFrame DEF TypeInv, Control, Submitting, collectorVars, Running
  <1> QED BY <1>1, <1>2 DEF Control

-----------------------------------------------------------------------------
(* Types and control are inductive.                                        *)

LEMMA EntryType ==
    ASSUME TypeOK, NEW w \in Workers, NEW f \in Active(w)
    PROVE  /\ f \in Fds
           /\ active[w][f] \in [port : Port, age : 0..Timeout]
           /\ active[w][f].port \in Port
  BY DEF TypeOK, Active

LEMMA ActiveFinite ==
    ASSUME TypeOK, NEW w \in Workers
    PROVE  IsFiniteSet(Active(w)) /\ Cardinality(Active(w)) \in Nat
  <1>1. IsFiniteSet(Fds)
    BY FS_Interval, SizesAssumption DEF Fds
  <1>2. Active(w) \subseteq Fds
    BY DEF Active
  <1> QED BY <1>1, <1>2, FS_Subset, FS_CardinalityType

LEMMA EntryUpdate ==
    ASSUME TypeOK, NEW w \in Workers, NEW f \in Fds,
           NEW e \in {NoEntry} \cup [port : Port, age : 0..Timeout],
           active' = [active EXCEPT ![w][f] = e]
    PROVE  /\ active' \in [Workers -> [Fds -> {NoEntry} \cup [port : Port, age : 0..Timeout]]]
           /\ active'[w] = [active[w] EXCEPT ![f] = e]
  BY DEF TypeOK

LEMMA WorkerType ==
    ASSUME TypeInv, NEW w \in Workers, WorkerStep(w)
    PROVE  TypeOK'
  <1> USE SizesAssumption, ShardFacts DEF TypeInv, Goto, workerVars, collectorVars
  <1> DEFINE n == Len(Shards[w])
             p == Shards[w][next[w] + 1]
             Entry == {NoEntry} \cup [port : Port, age : 0..Timeout]
             Sock == {Free, Epoll} \cup [st : {"pending"} \cup Settled, port : Port]
  <1>1. CASE BeginNoEpoll(w)
    <2>1. GivenUp(n) \in WorkerResult
      BY DEF GivenUp, WorkerResult
    <2>2. verdict' \in [Port -> Verdict]
      BY <1>1 DEF BeginNoEpoll, TypeOK, Verdict
    <2> QED BY <1>1, <2>1, <2>2 DEF BeginNoEpoll, TypeOK
  <1>2. CASE Begin(w)
    BY <1>2 DEF Begin, TypeOK, Running
  <1>3. CASE Loop(w)
    BY <1>3 DEF Loop, TypeOK, Running
  <1>4. CASE NoSocket(w)
    <2>1. next[w] < n /\ p \in Port
      BY <1>4 DEF NoSocket, CanLaunch, TypeOK
    <2>2. /\ out' \in [Workers -> WorkerResult]
          /\ progress' \in Nat
          /\ verdict' \in [Port -> Verdict]
      BY <1>4, <2>1, MarkDoneType DEF NoSocket, Verdict
    <2>3. next' \in [Workers -> Nat] /\ \A v \in Workers : next'[v] <= Len(Shards[v])
      <3>1. next' = [next EXCEPT ![w] = @ + 1]
        BY <1>4 DEF NoSocket
      <3> QED BY <3>1, <2>1 DEF TypeOK
    <2> QED BY <1>4, <2>2, <2>3 DEF NoSocket, TypeOK
  <1>5. CASE Connect(w)
    <2>1. next[w] < n /\ p \in Port
      BY <1>5 DEF Connect, CanLaunch, TypeOK
    <2>2. PICK f \in Fds, st \in {"pending"} \cup Settled :
             /\ sock' = [sock EXCEPT ![f] = [st |-> st, port |-> p]]
             /\ accepted' = IF st = "accepted" THEN accepted \cup {p} ELSE accepted
             /\ cur' = [cur EXCEPT ![w] = [fd |-> f, rc |-> RcOf(st)]]
      BY <1>5 DEF Connect
    <2>3. RcOf(st) \in Rc
      BY DEF RcOf, Rc, Settled
    <2>4. sock' \in [Fds -> Sock]
      BY <2>1, <2>2 DEF TypeOK
    <2>5. cur' \in [Workers -> {NoLaunch} \cup [fd : Fds, rc : Rc]]
      BY <2>2, <2>3 DEF TypeOK
    <2> QED BY <1>5, <2>1, <2>2, <2>4, <2>5 DEF Connect, TypeOK, Running
  <1>6. CASE Launched(w)
    <2>1. next[w] < n /\ p \in Port /\ cur[w] \in [fd : Fds, rc : Rc] /\ cur[w].fd \in Fds
      BY <1>6 DEF Launched, TypeOK, Control, TaskControl
    <2>2. /\ out' \in [Workers -> WorkerResult]
          /\ progress' \in Nat
          /\ verdict' \in [Port -> Verdict]
      <3>1. CASE UNCHANGED <<out, progress, verdict>>
        BY <3>1 DEF TypeOK
      <3>2. CASE \E v \in Verdict : MarkDone(w, p, v)
        BY <3>2, <2>1, MarkDoneType
      <3> QED BY <1>6, <3>1, <3>2 DEF Launched, Verdict
    <2>3. sock' \in [Fds -> Sock]
      BY <1>6, <2>1 DEF Launched, Close, TypeOK
    <2>4. [port |-> p, age |-> 0] \in Entry
      BY <2>1
    <2>5. active' \in [Workers -> [Fds -> Entry]]
      <3>1. CASE UNCHANGED active
        BY <3>1 DEF TypeOK
      <3>2. CASE active' = [active EXCEPT ![w][cur[w].fd] = [port |-> p, age |-> 0]]
        BY <3>2, <2>1, <2>4, EntryUpdate
      <3> QED BY <1>6, <3>1, <3>2 DEF Launched
    <2>6. next' \in [Workers -> Nat] /\ \A v \in Workers : next'[v] <= Len(Shards[v])
      <3>1. next' = [next EXCEPT ![w] = @ + 1]
        BY <1>6 DEF Launched
      <3> QED BY <3>1, <2>1 DEF TypeOK
    <2> QED BY <1>6, <2>2, <2>3, <2>5, <2>6 DEF Launched, TypeOK, Running
  <1>7. CASE LaunchEnd(w)
    BY <1>7 DEF LaunchEnd, TypeOK, Running
  <1>8. CASE Wait(w)
    BY <1>8 DEF Wait, TypeOK, Running, ReadyFds, ExpiredFds, Active
  <1>9. CASE Event(w)
    <2>1. PICK f \in evs[w] :
             /\ evs' = [evs EXCEPT ![w] = @ \ {f}]
             /\ \/ UNCHANGED <<active, out, progress, verdict, sock>>
                \/ /\ f \in Active(w)
                   /\ MarkDone(w, active[w][f].port, VerdictOf(sock[f].st))
                   /\ active' = [active EXCEPT ![w][f] = NoEntry]
                   /\ Close(f)
      BY <1>9 DEF Event
    <2>2. CASE UNCHANGED <<active, out, progress, verdict, sock>>
      BY <1>9, <2>1, <2>2 DEF Event, TypeOK
    <2>3. CASE /\ f \in Active(w)
               /\ MarkDone(w, active[w][f].port, VerdictOf(sock[f].st))
               /\ active' = [active EXCEPT ![w][f] = NoEntry]
               /\ Close(f)
      <3>1. /\ out' \in [Workers -> WorkerResult]
            /\ progress' \in Nat
            /\ verdict' \in [Port -> Verdict]
        BY <2>3, EntryType, MarkDoneType DEF VerdictOf, Verdict
      <3>2. active' \in [Workers -> [Fds -> Entry]]
        BY <2>3, EntryType, EntryUpdate
      <3>3. sock' \in [Fds -> Sock]
        BY <2>3, EntryType DEF Close, TypeOK
      <3> QED BY <1>9, <2>1, <3>1, <3>2, <3>3 DEF Event, TypeOK
    <2> QED BY <2>1, <2>2, <2>3
  <1>10. CASE EventsEnd(w)
    BY <1>10 DEF EventsEnd, TypeOK, Running
  <1>11. CASE Sweep(w)
    <2>1. PICK f \in Active(w) :
             /\ MarkDone(w, active[w][f].port, "timeout")
             /\ active' = [active EXCEPT ![w][f] = NoEntry]
             /\ Close(f)
      BY <1>11 DEF Sweep
    <2>2. /\ out' \in [Workers -> WorkerResult]
          /\ progress' \in Nat
          /\ verdict' \in [Port -> Verdict]
      BY <2>1, EntryType, MarkDoneType DEF Verdict
    <2>3. active' \in [Workers -> [Fds -> Entry]]
      BY <2>1, EntryType, EntryUpdate
    <2>4. sock' \in [Fds -> Sock]
      BY <2>1, EntryType DEF Close, TypeOK
    <2> QED BY <1>11, <2>2, <2>3, <2>4 DEF Sweep, TypeOK
  <1>12. CASE SweepEnd(w)
    BY <1>12 DEF SweepEnd, TypeOK, Running
  <1>13. CASE Finish(w)
    <2>1. out' \in [Workers -> WorkerResult]
      BY <1>13 DEF Finish, TypeOK, WorkerResult
    <2>2. active' \in [Workers -> [Fds -> Entry]]
      BY <1>13 DEF Finish, TypeOK
    <2>3. sock' \in [Fds -> Sock]
      BY <1>13 DEF Finish, TypeOK
    <2> QED BY <1>13, <2>1, <2>2, <2>3 DEF Finish, TypeOK
  <1> QED BY <1>1, <1>2, <1>3, <1>4, <1>5, <1>6, <1>7, <1>8, <1>9, <1>10,
             <1>11, <1>12, <1>13 DEF WorkerStep

LEMMA WorkerControl ==
    ASSUME TypeInv, NEW w \in Workers, WorkerStep(w)
    PROVE  TaskControl(w)'
  <1> USE SizesAssumption, ShardFacts
      DEF TypeInv, Control, TaskControl, Goto, Running, workerVars, collectorVars
  <1> DEFINE p == Shards[w][next[w] + 1]
  <1>1. CASE BeginNoEpoll(w)
    BY <1>1 DEF BeginNoEpoll, TypeOK, Active
  <1>2. CASE Begin(w)
    BY <1>2 DEF Begin, TypeOK, Fds
  <1>3. CASE Loop(w)
    BY <1>3 DEF Loop, TypeOK
  <1>4. CASE NoSocket(w)
    BY <1>4 DEF NoSocket, TypeOK
  <1>5. CASE Connect(w)
    <2>1. PICK f \in Fds, st \in {"pending"} \cup Settled :
             cur' = [cur EXCEPT ![w] = [fd |-> f, rc |-> RcOf(st)]]
      BY <1>5 DEF Connect
    <2>2. cur'[w] # NoLaunch
      BY <2>1 DEF TypeOK, NoLaunch, Fds
    <2> QED BY <1>5, <2>2 DEF Connect, CanLaunch, TypeOK
  <1>6. CASE Launched(w)
    BY <1>6 DEF Launched, TypeOK
  <1>7. CASE LaunchEnd(w)
    BY <1>7 DEF LaunchEnd, TypeOK
  <1>8. CASE Wait(w)
    BY <1>8 DEF Wait, TypeOK
  <1>9. CASE Event(w)
    BY <1>9 DEF Event, TypeOK
  <1>10. CASE EventsEnd(w)
    BY <1>10 DEF EventsEnd, TypeOK
  <1>11. CASE Sweep(w)
    BY <1>11 DEF Sweep, TypeOK
  <1>12. CASE SweepEnd(w)
    BY <1>12 DEF SweepEnd, TypeOK
  <1>13. CASE Finish(w)
    BY <1>13 DEF Finish, TypeOK, Active
  <1> QED BY <1>1, <1>2, <1>3, <1>4, <1>5, <1>6, <1>7, <1>8, <1>9, <1>10,
             <1>11, <1>12, <1>13 DEF WorkerStep

LEMMA MergedType ==
    ASSUME NEW t \in WorkerResult, NEW r \in WorkerResult
    PROVE  Merged(t, r) \in WorkerResult
  <1> DEFINE a == t.aborted \/ r.aborted
  <1>1. a \in BOOLEAN
    OBVIOUS
  <1> HIDE DEF a
  <1>2. [open |-> t.open \cup r.open, scanned |-> t.scanned + r.scanned,
         timeouts |-> t.timeouts + r.timeouts, refused |-> t.refused + r.refused,
         other |-> t.other + r.other, aborted |-> a] \in WorkerResult
    BY <1>1 DEF WorkerResult
  <1> QED BY <1>2 DEF Merged, a

LEMMA OlderType ==
    ASSUME NEW e \in {NoEntry} \cup [port : Port, age : 0..Timeout]
    PROVE  /\ Older(e) \in {NoEntry} \cup [port : Port, age : 0..Timeout]
           /\ Older(e) = NoEntry <=> e = NoEntry
           /\ Older(e).port = e.port
  <1>1. CASE e = NoEntry
    BY <1>1 DEF Older
  <1>2. CASE e # NoEntry
    <2>1. e \in [port : Port, age : 0..Timeout]
      BY <1>2
    <2>2. CASE e.age < Timeout
      <3>1. Older(e) = [port |-> e.port, age |-> e.age + 1]
        BY <1>2, <2>1, <2>2 DEF Older
      <3>2. e.age + 1 \in 0..Timeout /\ e.port \in Port
        BY <2>1, <2>2, SizesAssumption
      <3> QED BY <1>2, <3>1, <3>2, PortAssumption DEF NoEntry
    <2>3. CASE ~(e.age < Timeout)
      BY <1>2, <2>1, <2>3 DEF Older
    <2> QED BY <2>2, <2>3
  <1> QED BY <1>1, <1>2

LEMMA CollectorType ==
    ASSUME TypeInv, CollectorStep
    PROVE  TypeInv'
  <1> USE SizesAssumption DEF TypeInv, Goto, workerVars, Workers
  <1>1. CASE Submit
    <2>1. ci \in Workers /\ pc[ci] = "new"
      BY <1>1 DEF Submit, Control, Submitting, TypeOK
    <2>2. TypeOK'
      <3>1. ci' \in 0..NWorkers /\ cpc' \in {"submit", "poll"} /\ stalled' \in {0, stalled}
        BY <1>1, <2>1 DEF Submit
      <3>2. pc' = [pc EXCEPT ![ci] = "queued"]
        BY <1>1 DEF Submit
      <3> QED BY <1>1, <2>1, <3>1, <3>2 DEF Submit, TypeOK
    <2>3. Submitting'
      <3>1. pc' = [pc EXCEPT ![ci] = "queued"] /\ ci \in Nat
            /\ \A w \in Workers : w >= ci => pc[w] = "new"
        BY <1>1, <2>1 DEF Submit, Control, Submitting
      <3>2. CASE ci + 1 = NWorkers
        BY <1>1, <3>2 DEF Submit, Submitting
      <3>3. CASE ci + 1 # NWorkers
        <4>1. ci' = ci + 1 /\ ci' < NWorkers
          BY <1>1, <2>1, <3>3 DEF Submit
        <4>2. \A w \in Workers : w >= ci' => w # ci /\ w >= ci
          BY <3>1, <4>1
        <4>3. \A w \in Workers : w >= ci' => pc'[w] = "new"
          BY <3>1, <4>2 DEF TypeOK
        <4> QED BY <4>1, <4>3 DEF Submitting
      <3> QED BY <3>2, <3>3
    <2>4. \A w \in Workers : TaskControl(w)'
      BY <1>1, <2>1 DEF Submit, Control, TaskControl, TypeOK, Active, Running
    <2> QED BY <2>2, <2>3, <2>4 DEF Control
  <1>2. CASE Poll
    <2>1. ci \in Workers
      BY <1>2 DEF Poll, TypeOK
    <2>2. Merged(total, out[ci]) \in WorkerResult
      BY <2>1, MergedType DEF TypeOK
    <2>3. TypeOK'
      BY <1>2, <2>1, <2>2 DEF Poll, TypeOK
    <2>4. Submitting'
      BY <1>2 DEF Poll, Submitting
    <2>5. \A w \in Workers : TaskControl(w)'
      BY <1>2, <2>1 DEF Poll, Control, TaskControl, TypeOK, Active, Running
    <2> QED BY <2>3, <2>4, <2>5 DEF Control
  <1>3. CASE Watch
    <2>1. TypeOK'
      <3>1. stop' \in BOOLEAN
        <4>1. stop' \in {stop, TRUE}
          BY <1>3 DEF Watch
        <4> QED BY <4>1 DEF TypeOK
      <3>2. last' \in Nat /\ stalled' \in 0..(StallLimit + 1)
        <4>1. CASE progress # last
          BY <1>3, <4>1 DEF Watch, TypeOK, Restarted
        <4>2. CASE progress = last
          BY <1>3, <4>2 DEF Watch, TypeOK
        <4> QED BY <4>1, <4>2
      <3>3. ci' \in 0..NWorkers /\ cpc' \in {"submit", "poll", "return", "done"}
        BY <1>3 DEF Watch, TypeOK
      <3> QED BY <1>3, <3>1, <3>2, <3>3 DEF Watch, TypeOK
    <2>2. Control'
      BY <1>3 DEF Watch, Control, Submitting, TaskControl, Active
    <2> QED BY <2>1, <2>2
  <1>4. CASE Return
    <2>1. TypeOK'
      BY <1>4 DEF Return, TypeOK
    <2>2. Control'
      BY <1>4 DEF Return, Control, Submitting, TaskControl, Active
    <2> QED BY <2>1, <2>2
  <1> QED BY <1>1, <1>2, <1>3, <1>4 DEF CollectorStep

LEMMA EnvironmentType ==
    ASSUME TypeInv, Kernel \/ Tick
    PROVE  TypeInv'
  <1> USE SizesAssumption DEF TypeInv, workerVars, collectorVars
  <1>1. ASSUME NEW f \in Fds, Answer(f) PROVE TypeInv'
    <2>1. /\ sock[f] \in [st : {"pending"} \cup Settled, port : Port]
          /\ sock[f].port \in Port
      BY <1>1 DEF Answer, TypeOK, Free, Epoll
    <2>2. PICK st \in Settled :
             /\ sock' = [sock EXCEPT ![f].st = st]
             /\ accepted' = IF st = "accepted" THEN accepted \cup {sock[f].port}
                            ELSE accepted
      BY <1>1 DEF Answer
    <2>3. [sock[f] EXCEPT !.st = st] \in [st : {"pending"} \cup Settled, port : Port]
      BY <2>1
    <2>4. sock' \in [Fds -> {Free, Epoll} \cup [st : {"pending"} \cup Settled, port : Port]]
      BY <2>2, <2>3 DEF TypeOK
    <2>5. TypeOK'
      BY <1>1, <2>1, <2>2, <2>4 DEF Answer, TypeOK
    <2>6. Control'
      BY <1>1 DEF Answer, Control, Submitting, TaskControl, Active
    <2> QED BY <2>5, <2>6
  <1>2. ASSUME NEW f \in Fds, Reset(f) PROVE TypeInv'
    <2>1. sock[f] \in [st : {"pending"} \cup Settled, port : Port]
      BY <1>2 DEF Reset, TypeOK, Free, Epoll
    <2>2. [sock[f] EXCEPT !.st = "failed"] \in [st : {"pending"} \cup Settled, port : Port]
      BY <2>1 DEF Settled
    <2>3. sock' \in [Fds -> {Free, Epoll} \cup [st : {"pending"} \cup Settled, port : Port]]
      BY <1>2, <2>2 DEF Reset, TypeOK
    <2>4. TypeOK'
      BY <1>2, <2>3 DEF Reset, TypeOK
    <2>5. Control'
      BY <1>2 DEF Reset, Control, Submitting, TaskControl, Active
    <2> QED BY <2>4, <2>5
  <1>3. CASE Tick
    <2>1. \A w \in Workers, f \in Fds :
             /\ Older(active[w][f]) \in {NoEntry} \cup [port : Port, age : 0..Timeout]
             /\ Older(active[w][f]) = NoEntry <=> active[w][f] = NoEntry
      BY OlderType DEF TypeOK
    <2>2. TypeOK'
      BY <1>3, <2>1 DEF Tick, TypeOK
    <2>3. \A w \in Workers : Active(w)' = Active(w)
      BY <1>3, <2>1 DEF Tick, Active
    <2>4. Control'
      BY <1>3, <2>3 DEF Tick, Control, Submitting, TaskControl
    <2> QED BY <2>2, <2>4
  <1> QED BY <1>1, <1>2, <1>3 DEF Kernel

LEMMA TypeStep == TypeInv /\ [Next]_vars => TypeInv'
  <1> SUFFICES ASSUME TypeInv, [Next]_vars PROVE TypeInv'
    OBVIOUS
  <1>1. ASSUME NEW w \in Workers, WorkerStep(w) PROVE TypeInv'
    BY <1>1, WorkerType, WorkerControl, ControlOfOne DEF TypeInv
  <1>2. CASE UNCHANGED vars
    BY <1>2 DEF vars, workerVars, collectorVars, TypeInv, TypeOK, Control,
                Submitting, TaskControl, Active
  <1> QED BY <1>1, <1>2, CollectorType, EnvironmentType DEF Next, System, Over

(* Every variable keeps its type: in particular next_idx never passes the  *)
(* end of the shard, and no entry of `active` is without a port.           *)
THEOREM TypeCorrect == Spec => []TypeOK
  <1>1. Spec => []TypeInv
    BY InitTypeInv, TypeStep, PTL DEF Spec
  <1>2. TypeInv => TypeOK
    BY DEF TypeInv
  <1> QED BY <1>1, <1>2, PTL

-----------------------------------------------------------------------------
(* Descriptors.  DescriptorsOwned is inductive once it says which port the *)
(* socket of a connect being launched was connected to.                    *)

LaunchedPort == \A w \in Workers :
                   pc[w] = "rc" => sock[cur[w].fd].port = Shards[w][next[w] + 1]

FdInv == DescriptorsOwned /\ LaunchedPort

LEMMA InitFdInv == Init => FdInv
  BY DEF Init, FdInv, DescriptorsOwned, LaunchedPort, Holds, Active, NoLaunch, Free, Fds

(* Steps that take, give back or hand over no descriptor.                  *)
LEMMA SameFds ==
    ASSUME TypeInv, FdInv, UNCHANGED <<epfd, cur, active, sock>>,
           \A w \in Workers : pc'[w] = "rc" => pc[w] = "rc" /\ next'[w] = next[w]
    PROVE  FdInv'
  BY DEF FdInv, DescriptorsOwned, LaunchedPort, Holds, Active

(* Steps of a worker that only change which descriptors it holds and what  *)
(* these are: it takes free ones and gives back its own.                   *)
LEMMA OwnFds ==
    ASSUME TypeInv, FdInv, NEW w \in Workers, WorkerStep(w),
           \A f \in Fds :
              /\ ~Holds(w, f) /\ ~Holds(w, f)' => sock'[f] = sock[f]
              /\ ~Holds(w, f) /\ Holds(w, f)' => sock[f].st = "free"
              /\ Holds(w, f) /\ ~Holds(w, f)' => sock'[f].st = "free"
              /\ f = epfd'[w] => sock'[f].st = "epoll"
              /\ f \in {cur'[w].fd} \cup Active(w)' => sock'[f].st \in {"pending"} \cup Settled
              /\ f \in Active(w)' => f # cur'[w].fd /\ sock'[f].port = active'[w][f].port,
           pc'[w] = "rc" => sock'[cur'[w].fd].port = Shards[w][next'[w] + 1]
    PROVE  FdInv'
  <1>1. \A v \in Workers \ {w} :
           /\ active'[v] = active[v] /\ cur'[v] = cur[v] /\ epfd'[v] = epfd[v]
           /\ pc'[v] = pc[v] /\ next'[v] = next[v]
           /\ Active(v)' = Active(v)
           /\ \A f \in Fds : Holds(v, f)' <=> Holds(v, f)
    BY WorkerFrame DEF TypeInv, Holds, Active
  <1>2. \A v \in Workers \ {w}, f \in Fds :
           Holds(v, f) => ~Holds(w, f) /\ ~Holds(w, f)' /\ sock'[f] = sock[f]
    BY DEF FdInv, DescriptorsOwned, Settled
  <1>3. ASSUME NEW f \in Fds
        PROVE  /\ sock'[f].st # "free" <=> \E v \in Workers : Holds(v, f)'
               /\ \A u, v \in Workers : Holds(u, f)' /\ Holds(v, f)' => u = v
               /\ \A v \in Workers :
                    /\ f = epfd'[v] => sock'[f].st = "epoll"
                    /\ f \in {cur'[v].fd} \cup Active(v)' => sock'[f].st \in {"pending"} \cup Settled
                    /\ f \in Active(v)' => f # cur'[v].fd /\ sock'[f].port = active'[v][f].port
    <2>1. \A v \in Workers \ {w} :
             /\ f = epfd'[v] => sock'[f].st = "epoll"
             /\ f \in {cur'[v].fd} \cup Active(v)' => sock'[f].st \in {"pending"} \cup Settled
             /\ f \in Active(v)' => f # cur'[v].fd /\ sock'[f].port = active'[v][f].port
      BY <1>1, <1>2 DEF FdInv, DescriptorsOwned, Holds
    <2>2. \A u, v \in Workers : Holds(u, f)' /\ Holds(v, f)' => u = v
      BY <1>1, <1>2 DEF FdInv, DescriptorsOwned
    <2>3. Holds(w, f)' => sock'[f].st # "free"
      BY DEF Holds, Settled
    <2>4. sock'[f].st # "free" <=> \E v \in Workers : Holds(v, f)'
      BY <1>1, <1>2, <2>3 DEF FdInv, DescriptorsOwned
    <2> QED BY <2>1, <2>2, <2>4
  <1>4. DescriptorsOwned'
    BY <1>3 DEF DescriptorsOwned
  <1>5. LaunchedPort'
    <2>1. \A v \in Workers \ {w} : pc[v] = "rc" => cur[v].fd \in Fds
      BY DEF TypeInv, TypeOK, Control, TaskControl
    <2>2. \A v \in Workers \ {w} : pc[v] = "rc" => sock'[cur[v].fd] = sock[cur[v].fd]
      BY <1>2, <2>1 DEF Holds
    <2>3. ASSUME NEW v \in Workers \ {w}, pc'[v] = "rc"
          PROVE  sock'[cur'[v].fd].port = Shards[v][next'[v] + 1]
      <3>1. pc[v] = "rc" /\ cur'[v] = cur[v] /\ next'[v] = next[v]
        BY <1>1, <2>3
      <3>2. sock'[cur[v].fd] = sock[cur[v].fd]
        BY <2>2, <3>1
      <3> QED BY <3>1, <3>2 DEF FdInv, LaunchedPort
    <2> QED BY <2>3 DEF LaunchedPort
  <1> QED BY <1>4, <1>5 DEF FdInv

LEMMA WorkerFds ==
    ASSUME TypeInv, FdInv, NEW w \in Workers, WorkerStep(w)
    PROVE  FdInv'
  <1> USE DEF TypeInv, Goto, workerVars, collectorVars
  <1> DEFINE p == Shards[w][next[w] + 1]
  <1>0. /\ pc[w] \notin Running => epfd[w] = 0
        /\ pc[w] # "rc" => cur[w] = NoLaunch /\ cur[w].fd \notin Fds
        /\ pc[w] = "rc" => cur[w].fd \in Fds
        /\ epfd[w] \in Fds => epfd[w] # cur[w].fd /\ epfd[w] \notin Active(w)
    <2>1. pc[w] \notin Running => epfd[w] = 0
      BY DEF Control, TaskControl
    <2>2. pc[w] # "rc" => cur[w] = NoLaunch /\ cur[w].fd \notin Fds
      BY DEF Control, TaskControl, NoLaunch, Fds
    <2>3. pc[w] = "rc" => cur[w].fd \in Fds
      BY DEF Control, TaskControl, TypeOK
    <2>4. epfd[w] \in Fds => epfd[w] # cur[w].fd /\ epfd[w] \notin Active(w)
      BY DEF FdInv, DescriptorsOwned, Settled
    <2> QED BY <2>1, <2>2, <2>3, <2>4
  <1>1. CASE BeginNoEpoll(w)
    BY <1>1, SameFds DEF BeginNoEpoll, TypeOK
  <1>2. CASE Begin(w)
    <2>1. PICK f \in Fds : /\ sock[f].st = "free"
                           /\ epfd' = [epfd EXCEPT ![w] = f]
                           /\ sock' = [sock EXCEPT ![f] = Epoll]
      BY <1>2 DEF Begin, IsLowestFree, FreeFds
    <2>2. Active(w) = {} /\ Active(w)' = {} /\ cur' = cur /\ cur[w].fd \notin Fds
      BY <1>0, <1>2 DEF Begin, Control, TaskControl, Running, Active
    <2>3. epfd'[w] = f /\ epfd[w] \notin Fds
      BY <1>0, <1>2, <2>1 DEF Begin, TypeOK, Running, Fds
    <2>4. sock'[f] = Epoll /\ \A g \in Fds \ {f} : sock'[g] = sock[g]
      BY <2>1 DEF TypeOK
    <2>5. pc'[w] # "rc"
      BY <1>2 DEF Begin, TypeOK
    <2> QED BY OwnFds, <2>1, <2>2, <2>3, <2>4, <2>5 DEF Holds, Epoll
  <1>3. CASE Loop(w)
    BY <1>3, SameFds DEF Loop, TypeOK
  <1>4. CASE NoSocket(w)
    BY <1>4, SameFds DEF NoSocket, MarkDone, TypeOK
  <1>5. CASE Connect(w)
    <2>1. PICK f \in Fds, st \in {"pending"} \cup Settled :
             /\ sock[f].st = "free"
             /\ sock' = [sock EXCEPT ![f] = [st |-> st, port |-> p]]
             /\ cur' = [cur EXCEPT ![w] = [fd |-> f, rc |-> RcOf(st)]]
      BY <1>5 DEF Connect, IsLowestFree, FreeFds
    <2>2. cur'[w].fd = f
      BY <2>1 DEF TypeOK
    <2>3. cur[w].fd \notin Fds /\ epfd' = epfd /\ active' = active /\ Active(w)' = Active(w) /\ next' = next
      BY <1>0, <1>5 DEF Connect, Active
    <2>4. sock'[f] = [st |-> st, port |-> p] /\ \A g \in Fds \ {f} : sock'[g] = sock[g]
      BY <2>1 DEF TypeOK
    <2>5. ~Holds(w, f)
      BY <2>1 DEF FdInv, DescriptorsOwned
    <2>6. \A g \in Fds : Holds(w, g)' <=> Holds(w, g) \/ g = f
      BY <2>2, <2>3 DEF Holds
    <2>7. sock'[cur'[w].fd].port = Shards[w][next'[w] + 1]
      BY <2>2, <2>3, <2>4
    <2>8. \A g \in Fds :
             /\ g = epfd'[w] => sock'[g].st = "epoll"
             /\ g \in {cur'[w].fd} \cup Active(w)' => sock'[g].st \in {"pending"} \cup Settled
             /\ g \in Active(w)' => g # cur'[w].fd /\ sock'[g].port = active'[w][g].port
      BY <2>2, <2>3, <2>4, <2>5 DEF Holds, FdInv, DescriptorsOwned
    <2> QED BY OwnFds, <2>1, <2>4, <2>6, <2>7, <2>8
  <1>6. CASE Launched(w)
    <2> DEFINE f == cur[w].fd
    <2>1. /\ f \in Fds /\ Holds(w, f) /\ f \notin Active(w) /\ f # epfd[w]
          /\ sock[f].port = p /\ sock[f].st \in {"pending"} \cup Settled
          /\ epfd' = epfd /\ cur'[w].fd \notin Fds /\ pc'[w] # "rc"
      BY <1>0, <1>6 DEF Launched, Holds, FdInv, DescriptorsOwned, LaunchedPort, TypeOK, NoLaunch, Fds
    <2>2. CASE /\ active' = [active EXCEPT ![w][f] = [port |-> p, age |-> 0]]
               /\ UNCHANGED sock
      <3>1. p \in Port
        BY <1>6, ShardFacts DEF Launched, Control, TaskControl, TypeOK
      <3>2. active'[w] = [active[w] EXCEPT ![f] = [port |-> p, age |-> 0]]
        BY <2>2 DEF TypeOK
      <3>3. /\ Active(w)' = Active(w) \cup {f}
            /\ active'[w][f].port = p
            /\ \A g \in Active(w) : active'[w][g] = active[w][g]
        BY <2>1, <3>1, <3>2, PortAssumption DEF TypeOK, Active, NoEntry
      <3>4. \A g \in Fds : Holds(w, g)' <=> Holds(w, g)
        BY <1>6, <2>1, <3>3 DEF Launched, Holds
      <3>5. \A g \in Fds :
               /\ g = epfd'[w] => sock'[g].st = "epoll"
               /\ g \in {cur'[w].fd} \cup Active(w)' => sock'[g].st \in {"pending"} \cup Settled
               /\ g \in Active(w)' => g # cur'[w].fd /\ sock'[g].port = active'[w][g].port
        BY <2>1, <2>2, <3>3 DEF FdInv, DescriptorsOwned
      <3> QED BY OwnFds, <2>1, <2>2, <3>4, <3>5
    <2>3. CASE Close(f) /\ UNCHANGED active
      <3>1. sock'[f] = Free /\ \A g \in Fds \ {f} : sock'[g] = sock[g]
        BY <2>1, <2>3 DEF Close, TypeOK
      <3>2. Active(w)' = Active(w)
        BY <2>3 DEF Active
      <3>3. \A g \in Fds : Holds(w, g)' <=> Holds(w, g) /\ g # f
        BY <2>1, <3>2 DEF Holds
      <3>4. \A g \in Fds :
               /\ g = epfd'[w] => sock'[g].st = "epoll"
               /\ g \in {cur'[w].fd} \cup Active(w)' => sock'[g].st \in {"pending"} \cup Settled
               /\ g \in Active(w)' => g # cur'[w].fd /\ sock'[g].port = active'[w][g].port
        BY <2>1, <2>3, <3>1, <3>2 DEF FdInv, DescriptorsOwned
      <3> QED BY OwnFds, <2>1, <3>1, <3>3, <3>4 DEF Free
    <2> QED BY <1>6, <2>2, <2>3 DEF Launched
  <1>7. CASE LaunchEnd(w)
    BY <1>7, SameFds DEF LaunchEnd, TypeOK
  <1>8. CASE Wait(w)
    BY <1>8, SameFds DEF Wait, TypeOK
  <1>20. ASSUME NEW f \in Active(w), Close(f), active' = [active EXCEPT ![w][f] = NoEntry],
                UNCHANGED <<epfd, cur, pc, next>>, pc[w] # "rc"
         PROVE  FdInv'
    <2>1. f \in Fds /\ cur[w].fd \notin Fds /\ Holds(w, f) /\ f # epfd[w]
      BY <1>0, <1>20 DEF Active, Holds
    <2>2. sock'[f] = Free /\ \A g \in Fds \ {f} : sock'[g] = sock[g]
      BY <1>20, <2>1 DEF Close, TypeOK
    <2>3. active'[w] = [active[w] EXCEPT ![f] = NoEntry]
      BY <1>20 DEF TypeOK
    <2>4. /\ Active(w)' = Active(w) \ {f}
          /\ \A g \in Active(w) \ {f} : active'[w][g] = active[w][g]
      BY <2>1, <2>3 DEF TypeOK, Active
    <2>5. \A g \in Fds : Holds(w, g)' <=> Holds(w, g) /\ g # f
      BY <1>20, <2>1, <2>4 DEF Holds
    <2>6. \A g \in Fds :
             /\ g = epfd'[w] => sock'[g].st = "epoll"
             /\ g \in {cur'[w].fd} \cup Active(w)' => sock'[g].st \in {"pending"} \cup Settled
             /\ g \in Active(w)' => g # cur'[w].fd /\ sock'[g].port = active'[w][g].port
      BY <1>20, <2>1, <2>2, <2>4 DEF FdInv, DescriptorsOwned
    <2>7. pc'[w] # "rc"
      BY <1>20
    <2>8. ASSUME NEW g \in Fds
          PROVE  /\ ~Holds(w, g) /\ ~Holds(w, g)' => sock'[g] = sock[g]
                 /\ ~Holds(w, g) /\ Holds(w, g)' => sock[g].st = "free"
                 /\ Holds(w, g) /\ ~Holds(w, g)' => sock'[g].st = "free"
      <3>1. g = f => Holds(w, g) /\ sock'[g].st = "free"
        BY <2>1, <2>2 DEF Free
      <3>2. g # f => (Holds(w, g)' <=> Holds(w, g)) /\ sock'[g] = sock[g]
        BY <2>2, <2>5
      <3> QED BY <3>1, <3>2
    <2> QED BY OwnFds, <2>6, <2>7, <2>8
  <1>9. CASE Event(w)
    <2>1. CASE UNCHANGED <<active, out, progress, verdict, sock>>
      BY <1>9, <2>1, SameFds DEF Event
    <2>2. CASE \E f \in Active(w) : active' = [active EXCEPT ![w][f] = NoEntry] /\ Close(f)
      BY <1>9, <1>20, <2>2 DEF Event
    <2> QED BY <1>9, <2>1, <2>2 DEF Event
  <1>10. CASE EventsEnd(w)
    BY <1>10, SameFds DEF EventsEnd, TypeOK
  <1>11. CASE Sweep(w)
    BY <1>11, <1>20 DEF Sweep
  <1>12. CASE SweepEnd(w)
    BY <1>12, SameFds DEF SweepEnd, TypeOK
  <1>13. CASE Finish(w)
    <2>1. /\ Active(w)' = {} /\ epfd'[w] = 0 /\ cur' = cur /\ pc'[w] # "rc"
          /\ cur[w].fd \notin Fds
      BY <1>0, <1>13 DEF Finish, TypeOK, Active
    <2>2. \A g \in Fds : ~Holds(w, g)'
      BY <2>1 DEF Holds, Fds
    <2>3. \A g \in Fds : sock'[g] = IF Holds(w, g) THEN Free ELSE sock[g]
      BY <1>13, <2>1 DEF Finish, Holds
    <2>4. \A g \in Fds : g # epfd'[w] /\ g \notin {cur'[w].fd} \cup Active(w)'
      BY <2>1 DEF Fds
    <2> QED BY OwnFds, <2>1, <2>2, <2>3, <2>4 DEF Free
  <1> QED BY <1>1, <1>2, <1>3, <1>4, <1>5, <1>6, <1>7, <1>8, <1>9, <1>10,
             <1>11, <1>12, <1>13 DEF WorkerStep

LEMMA FdStep == TypeInv /\ FdInv /\ [Next]_vars => FdInv'
  <1> SUFFICES ASSUME TypeInv, FdInv, [Next]_vars PROVE FdInv'
    OBVIOUS
  <1> USE DEF TypeInv, workerVars, collectorVars
  <1>1. ASSUME NEW w \in Workers, WorkerStep(w) PROVE FdInv'
    BY <1>1, WorkerFds
  <1>2. CASE CollectorStep
    <2>1. UNCHANGED <<epfd, cur, active, sock, next>>
      BY <1>2 DEF CollectorStep, Submit, Poll, Watch, Return
    <2>2. \A w \in Workers : pc'[w] = "rc" => pc[w] = "rc"
      BY <1>2 DEF CollectorStep, Submit, Poll, Watch, Return, Goto, TypeOK
    <2> QED BY <2>1, <2>2, SameFds
  <1>3. ASSUME NEW f \in Fds, Answer(f) \/ Reset(f) PROVE FdInv'
    <2>1. PICK st \in Settled : sock' = [sock EXCEPT ![f].st = st]
      BY <1>3 DEF Answer, Reset, Settled
    <2>2. sock[f].st \in {"pending"} \cup Settled
      BY <1>3 DEF Answer, Reset, Settled
    <2>3. sock[f] \in [st : {"pending"} \cup Settled, port : Port]
      BY <2>2 DEF TypeOK, Free, Epoll, Settled
    <2>4. /\ sock'[f].st = st /\ sock'[f].port = sock[f].port
          /\ \A g \in Fds \ {f} : sock'[g] = sock[g]
      BY <2>1, <2>3 DEF TypeOK
    <2>5. UNCHANGED <<pc, next, epfd, cur, active>>
      BY <1>3 DEF Answer, Reset
    <2>6. DescriptorsOwned'
      BY <2>2, <2>4, <2>5 DEF FdInv, DescriptorsOwned, Holds, Active, Settled
    <2>7. \A w \in Workers : pc[w] = "rc" => cur[w].fd \in Fds
      BY DEF TypeOK, Control, TaskControl
    <2>8. LaunchedPort'
      BY <2>4, <2>5, <2>7 DEF FdInv, LaunchedPort
    <2> QED BY <2>6, <2>8 DEF FdInv
  <1>4. CASE Tick
    <2>1. \A w \in Workers, f \in Fds :
             /\ active'[w][f].port = active[w][f].port
             /\ active'[w][f] = NoEntry <=> active[w][f] = NoEntry
      BY <1>4, OlderType DEF Tick, TypeOK
    <2>2. \A w \in Workers : Active(w)' = Active(w)
      BY <2>1 DEF Active
    <2>3. UNCHANGED <<pc, next, epfd, cur, sock>>
      BY <1>4 DEF Tick
    <2>4. DescriptorsOwned'
      BY <2>1, <2>2, <2>3 DEF FdInv, DescriptorsOwned, Holds
    <2>5. LaunchedPort'
      BY <2>3 DEF FdInv, LaunchedPort
    <2> QED BY <2>4, <2>5 DEF FdInv
  <1>5. CASE UNCHANGED vars
    BY <1>5, SameFds DEF vars
  <1> QED BY <1>1, <1>2, <1>3, <1>4, <1>5 DEF Next, System, Kernel, Over

(* Every open descriptor has exactly one owner among the workers' epoll    *)
(* instances, connects being launched and `active` entries, and an entry's *)
(* port is its socket's: a descriptor number reused by another worker is   *)
(* never taken for the old connect.                                        *)
THEOREM DescriptorsAlwaysOwned == Spec => []DescriptorsOwned
  <1>1. Init /\ [][Next]_vars => [](TypeInv /\ FdInv)
    BY InitTypeInv, InitFdInv, TypeStep, FdStep, PTL
  <1>2. TypeInv /\ FdInv => DescriptorsOwned
    BY DEF FdInv
  <1> QED BY <1>1, <1>2, PTL DEF Spec

(* "A mid-scan abort leaks nothing": once every worker has returned, on    *)
(* whatever path, the scan holds no descriptor.                            *)
THEOREM NoDescriptorLeaks == Spec => []NothingLeftOpen
  <1>1. Init /\ [][Next]_vars => [](TypeInv /\ FdInv)
    BY InitTypeInv, InitFdInv, TypeStep, FdStep, PTL
  <1>2. TypeInv /\ FdInv => NothingLeftOpen
    <2> SUFFICES ASSUME TypeInv, FdInv, \A w \in Workers : pc[w] \in {"ready", "taken"}
                 PROVE  FreeFds = Fds
      BY DEF NothingLeftOpen
    <2>1. \A w \in Workers, f \in Fds : ~Holds(w, f)
      BY DEF TypeInv, Control, TaskControl, Holds, Running, NoLaunch, Fds
    <2> QED BY <2>1 DEF FdInv, DescriptorsOwned, FreeFds
  <1> QED BY <1>1, <1>2, PTL DEF Spec

-----------------------------------------------------------------------------
(* The watchdog.  While the machine keeps up, either something has been    *)
(* scanned since the watchdog last looked, or every worker still out is    *)
(* stuck: its window is full of connects that have all been pending for    *)
(* as long as the watchdog has been waiting, and so for less than the      *)
(* timeout.                                                                *)

Full(w) == next[w] = Len(Shards[w]) \/ Cardinality(Active(w)) >= MaxInflight

Stuck(w) ==
    /\ pc[w] \in {"wait", "events", "sweep", "head", "launch"}
    /\ Active(w) # {}
    /\ Full(w)
    /\ \A f \in Active(w) : stalled <= active[w][f].age

AllStuck == \A w \in Workers : pc[w] = "taken" \/ Stuck(w)

Quiet ==
    /\ ~stop
    /\ stalled <= StallLimit
    /\ stalled = 0 \/ progress # last \/ AllStuck

(* A worker only waits for connects it cannot add to; the collector starts *)
(* no round of polls when every result is taken.                           *)
Waiting == \A w \in Workers : pc[w] = "wait" => Active(w) # {} /\ (Full(w) \/ stop)
Polling == cpc = "poll" /\ (\A w \in Workers : pc[w] = "taken") => ci > 0

WatchInv == /\ last <= progress
            /\ Polling
            /\ Waiting
            /\ prompt => Quiet

LEMMA InitWatchInv == TimedInit => WatchInv
  <1> SUFFICES ASSUME TimedInit PROVE WatchInv OBVIOUS
  <1>1. last = 0 /\ progress = 0 /\ stalled = 0 /\ stop = FALSE /\ cpc = "submit"
        /\ \A w \in Workers : pc[w] = "new"
    BY DEF TimedInit, Init
  <1>2. 0 \in Nat /\ 0 <= StallLimit
    BY SizesAssumption
  <1> QED BY <1>1, <1>2 DEF WatchInv, Polling, Waiting, Quiet

(* A worker's step scans something, or it keeps the worker's entries: then *)
(* a stuck worker stays stuck, and no worker goes from not stuck to done.  *)
LEMMA WorkerWatch ==
    ASSUME TypeInv, NEW w \in Workers, WorkerStep(w)
    PROVE  /\ progress' > progress \/ (progress' = progress /\ (~stop /\ Stuck(w) => Stuck(w)'))
           /\ pc'[w] = "wait" => Active(w)' # {} /\ (Full(w) \/ stop)'
  <1> USE SizesAssumption DEF TypeInv, TypeOK, Goto, workerVars, collectorVars
  <1>1. CASE BeginNoEpoll(w)
    <2>1. progress' = progress + Len(Shards[w]) /\ pc'[w] = "ready"
      BY <1>1 DEF BeginNoEpoll
    <2>2. progress' > progress
      BY <2>1, ShardFacts
    <2>3. pc'[w] # "wait"
      BY <2>1
    <2> QED BY ONLY <2>2, <2>3, Zenon
  <1>2. CASE Begin(w)
    BY <1>2 DEF Begin, Stuck
  <1>3. CASE Loop(w)
    <2>1. Active(w)' = Active(w)
      BY <1>3 DEF Loop, Active
    <2> QED BY <1>3, <2>1 DEF Loop, KeepGoing, Stuck, Full
  <1>4. CASE NoSocket(w)
    <2>1. progress' = progress + 1 /\ pc'[w] = "launch"
      BY <1>4 DEF NoSocket, MarkDone
    <2>2. progress' > progress
      BY <2>1
    <2>3. pc'[w] # "wait"
      BY <2>1
    <2> QED BY ONLY <2>2, <2>3, Zenon
  <1>5. CASE Connect(w)
    <2>1. CanLaunch(w) /\ pc'[w] = "rc" /\ progress' = progress
      BY <1>5 DEF Connect
    <2>2. Cardinality(Active(w)) \in Nat
      BY ActiveFinite
    <2> QED BY <2>1, <2>2 DEF CanLaunch, Stuck, Full
  <1>6. CASE Launched(w)
    <2>1. pc[w] = "rc" /\ pc'[w] = "launch"
      BY <1>6 DEF Launched
    <2>2. progress' = progress \/ progress' = progress + 1
      BY <1>6 DEF Launched, MarkDone
    <2> QED BY <2>1, <2>2 DEF Stuck
  <1>7. CASE LaunchEnd(w)
    <2>1. Active(w)' = Active(w)
      BY <1>7 DEF LaunchEnd, Active
    <2>2. Cardinality(Active(w)) \in Nat
      BY ActiveFinite
    <2>3. pc'[w] = "wait" => Active(w) # {} /\ (Full(w) \/ stop)
      BY <1>7, <2>2 DEF LaunchEnd, CanLaunch, Full
    <2> QED BY <1>7, <2>1, <2>3 DEF LaunchEnd, Stuck, Full
  <1>8. CASE Wait(w)
    <2>1. Active(w)' = Active(w)
      BY <1>8 DEF Wait, Active
    <2> QED BY <1>8, <2>1 DEF Wait, Stuck, Full
  <1>9. CASE Event(w)
    <2>1. pc'[w] = "events"
      BY <1>9 DEF Event
    <2>2. CASE UNCHANGED <<active, progress>>
      <3>1. Active(w)' = Active(w)
        BY <2>2 DEF Active
      <3> QED BY <1>9, <2>1, <2>2, <3>1 DEF Event, Stuck, Full
    <2>3. CASE progress' = progress + 1
      <3>1. progress' > progress
        BY <2>3
      <3>2. pc'[w] # "wait"
        BY <2>1
      <3> QED BY ONLY <3>1, <3>2, Zenon
    <2> QED BY <1>9, <2>2, <2>3 DEF Event, MarkDone
  <1>10. CASE EventsEnd(w)
    <2>1. Active(w)' = Active(w)
      BY <1>10 DEF EventsEnd, Active
    <2> QED BY <1>10, <2>1 DEF EventsEnd, Stuck, Full
  <1>11. CASE Sweep(w)
    <2>1. progress' = progress + 1 /\ pc'[w] = "sweep"
      BY <1>11 DEF Sweep, MarkDone
    <2>2. progress' > progress
      BY <2>1
    <2>3. pc'[w] # "wait"
      BY <2>1
    <2> QED BY ONLY <2>2, <2>3, Zenon
  <1>12. CASE SweepEnd(w)
    <2>1. Active(w)' = Active(w)
      BY <1>12 DEF SweepEnd, Active
    <2> QED BY <1>12, <2>1 DEF SweepEnd, Stuck, Full
  <1>13. CASE Finish(w)
    BY <1>13 DEF Finish, Stuck
  <1> QED BY <1>1, <1>2, <1>3, <1>4, <1>5, <1>6, <1>7, <1>8, <1>9, <1>10,
             <1>11, <1>12, <1>13 DEF WorkerStep

LEMMA WatchWorker ==
    ASSUME TypeInv, WatchInv, UNCHANGED prompt, NEW w \in Workers, WorkerStep(w)
    PROVE  WatchInv'
  <1>1. \A v \in Workers \ {w} :
           /\ pc'[v] = pc[v] /\ next'[v] = next[v] /\ active'[v] = active[v]
           /\ Active(v)' = Active(v)
    BY WorkerFrame DEF Active, TypeInv
  <1>2. /\ UNCHANGED <<cpc, ci, last, stalled, stop>>
        /\ pc[w] # "taken" /\ pc'[w] # "taken"
    BY WorkerFrame DEF TypeInv, collectorVars, Running
  <1>3. progress \in Nat /\ last \in Nat
    BY DEF TypeInv, TypeOK
  <1>4. /\ progress' > progress \/ (progress' = progress /\ (~stop /\ Stuck(w) => Stuck(w)'))
        /\ pc'[w] = "wait" => Active(w)' # {} /\ (Full(w) \/ stop)'
    BY WorkerWatch
  <1>5. progress' \in Nat
    BY WorkerType DEF TypeOK
  <1>6. last' <= progress'
    BY <1>2, <1>3, <1>4, <1>5 DEF WatchInv
  <1>7. Polling'
    BY <1>2 DEF WatchInv, Polling
  <1>8. Waiting'
    BY <1>1, <1>2, <1>4 DEF WatchInv, Waiting, Full
  <1>9. ASSUME Quiet PROVE Quiet'
    <2>1. CASE progress' > progress
      <3>1. progress' # last'
        BY <2>1, <1>2, <1>3, <1>5 DEF WatchInv
      <3> QED BY <3>1, <1>2, <1>9 DEF Quiet
    <2>2. CASE progress' = progress /\ (Stuck(w) => Stuck(w)')
      <3>1. AllStuck => AllStuck'
        BY <2>2, <1>1, <1>2 DEF AllStuck, Stuck, Full
      <3> QED BY <2>2, <3>1, <1>2, <1>9 DEF Quiet
    <2> QED BY <2>1, <2>2, <1>4, <1>9 DEF Quiet
  <1> QED BY <1>6, <1>7, <1>8, <1>9 DEF WatchInv

LEMMA WatchCollector ==
    ASSUME TypeInv, WatchInv, UNCHANGED prompt, CollectorStep
    PROVE  WatchInv'
  <1> USE SizesAssumption DEF Goto, workerVars, Workers
  <1>1. UNCHANGED <<active, next, progress>> /\ \A w \in Workers : Active(w)' = Active(w)
    BY DEF CollectorStep, Submit, Poll, Watch, Return, Active
  <1>2. CASE Submit
    <2>1. ci \in Workers /\ pc[ci] = "new"
      BY <1>2 DEF Submit, TypeInv, TypeOK, Control, Submitting
    <2>2. /\ pc' = [pc EXCEPT ![ci] = "queued"]
          /\ pc'[ci] = "queued"
          /\ stalled' = stalled \/ stalled' = 0
          /\ UNCHANGED <<last, stop>>
      BY <1>2, <2>1 DEF Submit, TypeInv, TypeOK
    <2>3. Polling'
      BY <2>1, <2>2 DEF Polling
    <2>4. Waiting'
      BY <1>1, <2>1, <2>2 DEF WatchInv, Waiting, Full, TypeInv, TypeOK
    <2>5. Quiet => Quiet'
      BY <1>1, <2>1, <2>2 DEF Quiet, AllStuck, Stuck
    <2> QED BY <1>1, <2>2, <2>3, <2>4, <2>5 DEF WatchInv
  <1>3. CASE Poll
    <2>1. ci \in Workers /\ UNCHANGED <<last, stop, stalled, cpc>> /\ ci' = ci + 1
      BY <1>3 DEF Poll, TypeInv, TypeOK
    <2>2. \/ pc' = pc
          \/ pc[ci] = "ready" /\ pc' = [pc EXCEPT ![ci] = "taken"]
      BY <1>3 DEF Poll
    <2>3. Polling'
      BY <2>1 DEF Polling
    <2>4. Waiting'
      BY <1>1, <2>1, <2>2 DEF WatchInv, Waiting, Full, TypeInv, TypeOK
    <2>5. Quiet => Quiet'
      <3>1. CASE pc' = pc
        BY <1>1, <2>1, <3>1 DEF Quiet, AllStuck, Stuck, Full
      <3>2. CASE pc[ci] = "ready"
        BY <1>1, <2>1, <3>2 DEF Quiet, AllStuck, Stuck
      <3> QED BY <2>2, <3>1, <3>2
    <2> QED BY <1>1, <2>1, <2>3, <2>4, <2>5 DEF WatchInv
  <1>4. CASE Watch
    <2>1. UNCHANGED pc
      BY <1>4 DEF Watch
    <2>2. Polling'
      BY <1>4, <2>1 DEF Watch, Polling
    <2>3. last' \in {last, progress} /\ (stop => stop')
      BY <1>4 DEF Watch
    <2>4. Waiting'
      BY <1>1, <2>1, <2>3 DEF WatchInv, Waiting, Full
    <2>5. Quiet => Quiet'
      <3>1. CASE progress # last
        BY <1>4, <3>1 DEF Watch, Quiet, Restarted
      <3>2. CASE progress = last
        <4>1. Quiet => UNCHANGED <<stop, stalled, last>>
          <5>1. UNCHANGED <<last, stalled>>
            BY <1>4, <3>2 DEF Watch
          <5>2. stop' = IF stalled > StallLimit THEN TRUE ELSE stop
            BY <1>4, <3>2 DEF Watch
          <5>3. stalled <= StallLimit => stop' = stop
            <6>1. stalled <= StallLimit => ~(stalled > StallLimit)
              BY SizesAssumption DEF TypeInv, TypeOK
            <6> QED BY <5>2, <6>1, Zenon
          <5> QED BY <5>1, <5>3 DEF Quiet
        <4> QED BY <1>1, <2>1, <4>1 DEF Quiet, AllStuck, Stuck, Full
      <3> QED BY <3>1, <3>2
    <2>6. last' <= progress'
      BY <1>1, <2>3 DEF WatchInv, TypeInv, TypeOK
    <2> QED BY <2>2, <2>4, <2>5, <2>6 DEF WatchInv
  <1>5. CASE Return
    <2>1. UNCHANGED <<pc, stop, last, stalled>> /\ cpc' = "done"
      BY <1>5 DEF Return
    <2> QED BY <1>1, <2>1 DEF WatchInv, Polling, Waiting, Quiet, AllStuck, Stuck, Full
  <1> QED BY <1>2, <1>3, <1>4, <1>5 DEF CollectorStep

LEMMA OlderPending ==
    ASSUME NEW e \in [port : Port, age : 0..Timeout], e.age < Timeout
    PROVE  Older(e) = [port |-> e.port, age |-> e.age + 1]
  <1>1. e # NoEntry
    BY PortAssumption DEF NoEntry
  <1> QED BY <1>1 DEF Older

(* At a tick the machine keeps up with, each worker still out waits for a  *)
(* full window of connects, none of them expired: each has been pending    *)
(* for as long as the watchdog has waited, before the tick and after it.   *)
LEMMA TickQuiet ==
    ASSUME TypeInv, WatchInv, Tick, KeptUp, Quiet, Timeout <= StallLimit
    PROVE  Quiet'
  <1> USE SizesAssumption DEF TypeInv, TypeOK
  <1>1. /\ UNCHANGED <<pc, next, stop, progress, last>>
        /\ stalled' = stalled + 1
        /\ \A w \in Workers, f \in Fds : active'[w][f] = Older(active[w][f])
    BY DEF Tick, Quiet
  <1>2. \A w \in Workers : Active(w)' = Active(w)
    BY <1>1, OlderType DEF Active
  <1>3. ASSUME NEW w \in Workers, pc[w] # "taken"
        PROVE  /\ pc[w] = "wait" /\ Active(w) # {} /\ Full(w)
               /\ \A f \in Active(w) :
                     /\ stalled <= active[w][f].age
                     /\ active[w][f].age < Timeout
                     /\ active'[w][f].age = active[w][f].age + 1
    <2>1. pc[w] = "wait" /\ ExpiredFds(w) = {} /\ progress = last
      BY <1>3 DEF KeptUp
    <2>2. Active(w) # {} /\ Full(w)
      BY <2>1 DEF WatchInv, Waiting, Quiet
    <2>3. ASSUME NEW f \in Active(w)
          PROVE  /\ stalled <= active[w][f].age
                 /\ active[w][f].age < Timeout
                 /\ active'[w][f].age = active[w][f].age + 1
      <3>1. f \in Fds /\ active[w][f] \in [port : Port, age : 0..Timeout]
        BY EntryType
      <3>2. active[w][f].age \in 0..Timeout
        BY <3>1
      <3>3. active[w][f].age < Timeout
        BY <2>1, <3>2 DEF ExpiredFds
      <3>4. active'[w][f].age = active[w][f].age + 1
        BY <1>1, <3>1, <3>3, OlderPending
      <3>5. stalled <= active[w][f].age
        BY <1>3, <2>1, <3>2 DEF Quiet, AllStuck, Stuck
      <3> QED BY <3>3, <3>4, <3>5
    <2> QED BY <2>1, <2>2, <2>3
  <1>4. stalled' <= StallLimit
    <2>1. PICK w \in Workers : pc[w] # "taken"
      BY DEF KeptUp, WatchInv, Polling
    <2>2. PICK f \in Active(w) : stalled <= active[w][f].age /\ active[w][f].age < Timeout
      BY <1>3, <2>1
    <2>3. active[w][f].age \in 0..Timeout
      BY <2>2, EntryType
    <2> QED BY <1>1, <2>2, <2>3
  <1>5. AllStuck'
    <2> SUFFICES ASSUME NEW w \in Workers, pc[w] # "taken" PROVE Stuck(w)'
      BY <1>1 DEF AllStuck
    <2>1. \A f \in Active(w) : stalled + 1 <= active'[w][f].age
      <3> SUFFICES ASSUME NEW f \in Active(w) PROVE stalled + 1 <= active'[w][f].age
        OBVIOUS
      <3>1. active[w][f].age \in 0..Timeout
        BY EntryType
      <3> QED BY <1>3, <3>1
    <2> QED BY <1>1, <1>2, <1>3, <2>1 DEF Stuck, Full
  <1> QED BY <1>1, <1>4, <1>5 DEF Quiet

LEMMA WatchStep ==
    ASSUME Timeout <= StallLimit
    PROVE  TypeInv /\ WatchInv /\ [TimedNext]_timedVars => WatchInv'
  <1> SUFFICES ASSUME TypeInv, WatchInv, [TimedNext]_timedVars PROVE WatchInv' OBVIOUS
  <1>1. CASE UNCHANGED prompt /\ UNCHANGED vars
    BY <1>1 DEF vars, workerVars, collectorVars, WatchInv, Polling, Waiting, Quiet,
                AllStuck, Stuck, Full, Active
  <1>2. CASE System /\ UNCHANGED prompt
    BY <1>2, WatchWorker, WatchCollector DEF System
  <1>3. CASE Kernel /\ UNCHANGED prompt
    <2>1. UNCHANGED <<workerVars, stop, progress, collectorVars>>
      BY <1>3 DEF Kernel, Answer, Reset
    <2> QED BY <1>3, <2>1 DEF workerVars, collectorVars, WatchInv, Polling, Waiting, Quiet,
                              AllStuck, Stuck, Full, Active
  <1>4. CASE Tick /\ prompt' = (prompt /\ KeptUp)
    <2>1. /\ UNCHANGED <<pc, next, stop, progress, last, cpc, ci>>
          /\ \A w \in Workers, f \in Fds : active'[w][f] = Older(active[w][f])
      BY <1>4 DEF Tick
    <2>2. \A w \in Workers : Active(w)' = Active(w)
      BY <2>1, OlderType DEF Active, TypeInv, TypeOK
    <2>3. Polling' /\ Waiting' /\ last' <= progress'
      BY <2>1, <2>2 DEF WatchInv, Polling, Waiting, Full
    <2>4. prompt' => Quiet'
      BY <1>4, TickQuiet DEF WatchInv
    <2> QED BY <2>3, <2>4 DEF WatchInv
  <1> QED BY <1>1, <1>2, <1>3, <1>4 DEF TimedNext, timedVars, Over

(* The watchdog stops no scan on a machine that keeps up, whatever the     *)
(* target answers, however full the windows and the descriptor table are,  *)
(* and for any number of ports and workers, provided the stall limit is at *)
(* least the connect timeout (the code takes the larger of 8 s and six     *)
(* timeouts).                                                              *)
THEOREM WatchdogStaysQuiet ==
    ASSUME Timeout <= StallLimit
    PROVE  TimedSpec => []WatchdogQuiet
  <1>1. TimedInit => TypeInv
    BY InitTypeInv DEF TimedInit
  <1>2. TypeInv /\ [TimedNext]_timedVars => TypeInv'
    <2>1. [TimedNext]_timedVars => [Next]_vars
      BY DEF TimedNext, timedVars, Next
    <2> QED BY <2>1, TypeStep
  <1>3. WatchInv => WatchdogQuiet
    BY DEF WatchInv, Quiet, WatchdogQuiet
  <1> QED BY <1>1, <1>2, <1>3, InitWatchInv, WatchStep, PTL DEF TimedSpec

-----------------------------------------------------------------------------
(* Counters.  A worker's add up, and one that leaves part of its shard     *)
(* unscanned says so.  What makes this inductive is where a port can be: a *)
(* port of the shard is not taken yet, or pending under one descriptor, or *)
(* counted, and never two of these.                                        *)

Taken(w, p) == \E k \in 1..next[w] : Shards[w][k] = p

Pending(w, p) == \E f \in Active(w) : active[w][f].port = p

Places(w) ==
    /\ \A f \in Active(w) : Taken(w, active[w][f].port)
    /\ \A f, g \in Active(w) : active[w][f].port = active[w][g].port => f = g
    /\ \A p \in out[w].open : Taken(w, p) /\ ~Pending(w, p)

Sums(w) ==
    /\ IsFiniteSet(out[w].open)
    /\ out[w].scanned = Cardinality(out[w].open) + out[w].timeouts
                           + out[w].refused + out[w].other

Progress(w) ==
    pc[w] \in Running => next[w] = out[w].scanned + Cardinality(Active(w))

CountInv == \A w \in Workers : Places(w) /\ Sums(w) /\ Progress(w)

LEMMA InitCountInv == Init => CountInv
  <1> SUFFICES ASSUME Init, NEW w \in Workers
               PROVE  Places(w) /\ Sums(w) /\ Progress(w)
    BY DEF CountInv
  <1> USE DEF Init
  <1>1. Active(w) = {} /\ out[w] = NoResult /\ pc[w] \notin Running
    BY DEF Active, Running
  <1>2. Places(w)
    BY <1>1 DEF Places, NoResult
  <1>3. Sums(w)
    <2>1. out[w].open = {} /\ IsFiniteSet(out[w].open) /\ Cardinality(out[w].open) = 0
      <3>1. out[w].open = {}
        BY <1>1 DEF NoResult
      <3> QED BY <3>1, FS_EmptySet
    <2>2. out[w].scanned = 0 /\ out[w].timeouts = 0 /\ out[w].refused = 0 /\ out[w].other = 0
      BY <1>1 DEF NoResult
    <2>3. /\ out[w].open = {} /\ out[w].scanned = Cardinality(out[w].open)
                + out[w].timeouts + out[w].refused + out[w].other
      BY <2>1, <2>2
    <2> QED BY ONLY <2>1, <2>3 DEF Sums
  <1> QED BY <1>1, <1>2, <1>3 DEF Progress

(* The next port of the shard has not been taken.                          *)
LEMMA NextNotTaken ==
    ASSUME TypeOK, NEW w \in Workers, next[w] < Len(Shards[w])
    PROVE  ~Taken(w, Shards[w][next[w] + 1])
  <1>1. Len(Shards[w]) \in Nat /\ next[w] \in Nat
    BY ShardFacts DEF TypeOK
  <1>2. SUFFICES ASSUME NEW k \in 1..next[w], Shards[w][k] = Shards[w][next[w] + 1]
                 PROVE  FALSE
    BY DEF Taken
  <1>3. k \in 1..Len(Shards[w]) /\ next[w] + 1 \in 1..Len(Shards[w])
    BY <1>1
  <1>4. \A a, b \in 1..Len(Shards[w]) : Shards[w][a] = Shards[w][b] => a = b
    BY ShardsAssumption
  <1> QED BY <1>1, <1>2, <1>3, <1>4

(* Deciding a port that is not counted yet keeps the sums.                 *)
LEMMA MarkDoneSums ==
    ASSUME TypeOK, NEW w \in Workers, NEW p \in Port,
           NEW v \in Verdict \ {"none"}, MarkDone(w, p, v),
           Sums(w), p \notin out[w].open
    PROVE  /\ Sums(w)'
           /\ out'[w].scanned = out[w].scanned + 1
           /\ out'[w].open = IF v = "open" THEN out[w].open \cup {p} ELSE out[w].open
  <1>1. out[w] \in WorkerResult /\ out'[w] = Tally(out[w], p, v, TRUE)
    BY DEF TypeOK, MarkDone, Counted
  <1>2. /\ out'[w].scanned = out[w].scanned + 1
        /\ out'[w].open = IF v = "open" THEN out[w].open \cup {p} ELSE out[w].open
        /\ out'[w].timeouts = IF v = "timeout" THEN out[w].timeouts + 1 ELSE out[w].timeouts
        /\ out'[w].refused = IF v = "refused" THEN out[w].refused + 1 ELSE out[w].refused
        /\ out'[w].other = IF v = "other" THEN out[w].other + 1 ELSE out[w].other
    BY <1>1 DEF Tally
  <1>3. /\ out[w].scanned \in Nat /\ out[w].timeouts \in Nat
        /\ out[w].refused \in Nat /\ out[w].other \in Nat
    BY <1>1 DEF WorkerResult
  <1>4. /\ IsFiniteSet(out[w].open) /\ Cardinality(out[w].open) \in Nat
        /\ IsFiniteSet(out[w].open \cup {p})
        /\ Cardinality(out[w].open \cup {p}) = Cardinality(out[w].open) + 1
    BY FS_AddElement, FS_CardinalityType DEF Sums
  <1>5. IsFiniteSet(out'[w].open)
    BY <1>2, <1>4
  <1>6. Cardinality(out'[w].open) = IF v = "open" THEN Cardinality(out[w].open) + 1
                                    ELSE Cardinality(out[w].open)
    BY <1>2, <1>4
  <1>7. out[w].scanned = Cardinality(out[w].open) + out[w].timeouts
                            + out[w].refused + out[w].other
    BY DEF Sums
  <1>8. v = "open" \/ v = "timeout" \/ v = "refused" \/ v = "other"
    BY DEF Verdict
  <1>9. out'[w].scanned = Cardinality(out'[w].open) + out'[w].timeouts
                             + out'[w].refused + out'[w].other
    BY <1>2, <1>3, <1>4, <1>6, <1>7, <1>8
  <1> QED BY <1>2, <1>5, <1>9 DEF Sums

(* The next port is decided without becoming pending.                      *)
LEMMA DecideNext ==
    ASSUME TypeOK, NEW w \in Workers, Places(w), Sums(w), Progress(w),
           NEW v \in Verdict \ {"none"}, next[w] < Len(Shards[w]),
           MarkDone(w, Shards[w][next[w] + 1], v),
           next' = [next EXCEPT ![w] = @ + 1],
           Active(w)' = Active(w), active'[w] = active[w], pc[w] \in Running
    PROVE  Places(w)' /\ Sums(w)' /\ Progress(w)'
  <1> DEFINE p == Shards[w][next[w] + 1]
  <1>1. next[w] \in Nat /\ next'[w] = next[w] + 1 /\ p \in Port
    BY ShardFacts DEF TypeOK
  <1>2. ~Taken(w, p) /\ p \notin out[w].open /\ ~Pending(w, p)
    BY NextNotTaken DEF Places, Pending
  <1>3. /\ Sums(w)'
        /\ out'[w].scanned = out[w].scanned + 1
        /\ out'[w].open = IF v = "open" THEN out[w].open \cup {p} ELSE out[w].open
    BY <1>1, <1>2, MarkDoneSums
  <1>4. /\ \E k \in 1..next'[w] : Shards[w][k] = p
        /\ \A q \in Port : Taken(w, q) => Taken(w, q)'
    BY <1>1 DEF Taken
  <1>5. \A q : Pending(w, q)' <=> Pending(w, q)
    BY DEF Pending
  <1>6. out[w].open \subseteq Port /\ out[w].scanned \in Nat
    BY DEF TypeOK, WorkerResult
  <1>7. \A f \in Active(w) : active[w][f].port \in Port
    BY EntryType
  <1> HIDE DEF p
  <1>8. Places(w)'
    <2>1. \A f \in Active(w)' : Taken(w, active[w][f].port)'
      BY <1>4, <1>7 DEF Places
    <2>2. ASSUME NEW q \in out'[w].open PROVE Taken(w, q)' /\ ~Pending(w, q)'
      <3>1. q \in out[w].open \/ q = p
        BY <1>3, <2>2
      <3>2. CASE q = p
        BY <1>2, <1>4, <1>5, <3>2 DEF Taken
      <3>3. CASE q \in out[w].open
        BY <1>4, <1>5, <1>6, <3>3 DEF Places
      <3> QED BY <3>1, <3>2, <3>3
    <2> QED BY <2>1, <2>2 DEF Places
  <1>9. Progress(w)'
    BY <1>1, <1>3, <1>6, ActiveFinite DEF Progress
  <1> QED BY <1>3, <1>8, <1>9

(* The next port becomes pending.                                          *)
LEMMA PendNext ==
    ASSUME TypeOK, NEW w \in Workers, Places(w), Sums(w), Progress(w),
           NEW f \in Fds \ Active(w), next[w] < Len(Shards[w]),
           active' = [active EXCEPT ![w][f] = [port |-> Shards[w][next[w] + 1], age |-> 0]],
           next' = [next EXCEPT ![w] = @ + 1],
           out' = out, pc[w] \in Running
    PROVE  Places(w)' /\ Sums(w)' /\ Progress(w)'
  <1> DEFINE p == Shards[w][next[w] + 1]
             e == [port |-> p, age |-> 0]
  <1>1. next[w] \in Nat /\ next'[w] = next[w] + 1 /\ p \in Port
    BY ShardFacts DEF TypeOK
  <1>2. ~Taken(w, p)
    BY NextNotTaken
  <1>3. \A q \in Port : Taken(w, q) => Taken(w, q)'
    BY <1>1 DEF Taken
  <1>4. \E k \in 1..next'[w] : Shards[w][k] = p
    BY <1>1
  <1>5. e \in [port : Port, age : 0..Timeout] /\ e # NoEntry
    BY <1>1, SizesAssumption, PortAssumption DEF NoEntry
  <1>6. active'[w] = [active[w] EXCEPT ![f] = e]
    BY <1>5, EntryUpdate
  <1>7. /\ Active(w)' = Active(w) \cup {f}
        /\ active'[w][f].port = p
        /\ \A g \in Active(w) : active'[w][g].port = active[w][g].port
    BY <1>5, <1>6 DEF Active, TypeOK
  <1>8. \A g \in Active(w) : active[w][g].port \in Port /\ active[w][g].port # p
    BY <1>2, EntryType DEF Places
  <1>9. out[w].open \subseteq Port /\ p \notin out[w].open
    BY <1>2 DEF Places, TypeOK, WorkerResult
  <1> HIDE DEF p
  <1>10. Places(w)'
    <2>1. \A g \in Active(w)' : Taken(w, active[w][g].port)'
      BY <1>3, <1>4, <1>7, <1>8 DEF Places, Taken
    <2>2. \A g, h \in Active(w)' : active'[w][g].port = active'[w][h].port => g = h
      BY <1>7, <1>8 DEF Places
    <2>3. \A q \in out'[w].open : Taken(w, q)' /\ ~Pending(w, q)'
      BY <1>3, <1>7, <1>9 DEF Places, Pending
    <2> QED BY <2>1, <2>2, <2>3 DEF Places
  <1>11. Progress(w)'
    <2>1. Cardinality(Active(w)') = Cardinality(Active(w)) + 1
      BY <1>7, ActiveFinite, FS_AddElement
    <2>2. out[w].scanned \in Nat
      BY DEF TypeOK, WorkerResult
    <2> QED BY <1>1, <2>1, <2>2, ActiveFinite DEF Progress
  <1> QED BY <1>10, <1>11 DEF Sums

(* A pending port is decided.                                              *)
LEMMA DecidePending ==
    ASSUME TypeOK, NEW w \in Workers, Places(w), Sums(w), Progress(w),
           NEW f \in Active(w), NEW v \in Verdict \ {"none"},
           MarkDone(w, active[w][f].port, v),
           active' = [active EXCEPT ![w][f] = NoEntry],
           next' = next, pc[w] \in Running
    PROVE  Places(w)' /\ Sums(w)' /\ Progress(w)'
  <1> DEFINE p == active[w][f].port
  <1>1. f \in Fds /\ p \in Port /\ Taken(w, p)
    BY EntryType DEF Places
  <1>2. p \notin out[w].open
    BY DEF Places, Pending
  <1>3. /\ Sums(w)'
        /\ out'[w].scanned = out[w].scanned + 1
        /\ out'[w].open = IF v = "open" THEN out[w].open \cup {p} ELSE out[w].open
    BY <1>1, <1>2, MarkDoneSums
  <1>4. active'[w] = [active[w] EXCEPT ![f] = NoEntry]
    BY DEF TypeOK
  <1>5. /\ Active(w)' = Active(w) \ {f}
        /\ \A g \in Active(w) \ {f} : active'[w][g].port = active[w][g].port
    BY <1>4 DEF Active, TypeOK
  <1>6. \A q : Taken(w, q)' <=> Taken(w, q)
    BY DEF Taken
  <1>7. \A g \in Active(w) \ {f} : active[w][g].port # p
    BY DEF Places
  <1> HIDE DEF p
  <1>8. Places(w)'
    <2>1. \A g \in Active(w)' : Taken(w, active[w][g].port)'
      BY <1>5, <1>6 DEF Places, Taken
    <2>2. \A g, h \in Active(w)' : active'[w][g].port = active'[w][h].port => g = h
      BY <1>5 DEF Places
    <2>3. ASSUME NEW q \in out'[w].open PROVE Taken(w, q)' /\ ~Pending(w, q)'
      <3>1. q \in out[w].open \/ q = p
        BY <1>3, <2>3
      <3>2. CASE q = p
        BY <1>1, <1>5, <1>6, <1>7, <3>2 DEF Pending
      <3>3. CASE q \in out[w].open
        BY <1>5, <1>6, <3>3 DEF Places, Pending
      <3> QED BY <3>1, <3>2, <3>3
    <2> QED BY <2>1, <2>2, <2>3 DEF Places
  <1>9. Progress(w)'
    <2>1. /\ Cardinality(Active(w)') = Cardinality(Active(w)) - 1
          /\ Cardinality(Active(w)) \in Nat
      BY <1>5, ActiveFinite, FS_RemoveElement
    <2>2. out[w].scanned \in Nat /\ next[w] \in Nat
      BY DEF TypeOK, WorkerResult
    <2>3. out'[w].scanned + Cardinality(Active(w)') = out[w].scanned + Cardinality(Active(w))
      BY <1>3, <2>1, <2>2
    <2> QED BY <2>3 DEF Progress
  <1> QED BY <1>3, <1>8, <1>9

(* Nothing is taken, becomes pending or is decided.                        *)
LEMMA SameCounts ==
    ASSUME NEW w \in Workers, Places(w), Sums(w), Progress(w),
           next'[w] = next[w], active'[w] = active[w], out'[w] = out[w],
           pc'[w] \in Running => pc[w] \in Running
    PROVE  Places(w)' /\ Sums(w)' /\ Progress(w)'
  BY DEF Places, Sums, Progress, Active, Taken, Pending

LEMMA WorkerCounts ==
    ASSUME TypeInv, FdInv, NEW w \in Workers, WorkerStep(w),
           Places(w), Sums(w), Progress(w)
    PROVE  Places(w)' /\ Sums(w)' /\ Progress(w)'
  <1> USE DEF TypeInv, Goto, workerVars, collectorVars
  <1>1. CASE BeginNoEpoll(w)
    <2>1. /\ out'[w] = GivenUp(Len(Shards[w])) /\ active' = active /\ pc'[w] = "ready"
          /\ Active(w) = {}
      BY <1>1 DEF BeginNoEpoll, TypeOK, Control, TaskControl, Running
    <2>2. /\ out'[w].open = {} /\ IsFiniteSet({}) /\ Cardinality({}) = 0
          /\ out'[w].scanned = Len(Shards[w]) /\ out'[w].timeouts = 0
          /\ out'[w].refused = 0 /\ out'[w].other = Len(Shards[w])
          /\ Len(Shards[w]) \in Nat
      BY <2>1, FS_EmptySet, ShardFacts DEF GivenUp
    <2>3. Active(w)' = {}
      BY <2>1 DEF Active
    <2>4. Places(w)'
      BY <2>2, <2>3 DEF Places
    <2>5. Sums(w)'
      BY <2>2 DEF Sums
    <2>6. Progress(w)'
      BY <2>1 DEF Progress, Running
    <2> QED BY <2>4, <2>5, <2>6
  <1>2. CASE Begin(w)
    <2>1. /\ next[w] = 0 /\ out[w] = NoResult /\ Active(w) = {}
          /\ next' = next /\ out' = out /\ active' = active
      BY <1>2 DEF Begin, Control, TaskControl, Running
    <2>2. Active(w)' = {} /\ Cardinality({}) = 0 /\ out[w].scanned = 0
      BY <2>1, FS_EmptySet DEF Active, NoResult
    <2> QED BY <2>1, <2>2 DEF Places, Sums, Progress, NoResult
  <1>3. CASE NoSocket(w)
    <2>1. MarkDone(w, Shards[w][next[w] + 1], "other") /\ next[w] < Len(Shards[w])
      BY <1>3 DEF NoSocket, CanLaunch
    <2>2. Active(w)' = Active(w) /\ active' = active /\ pc[w] \in Running
          /\ next' = [next EXCEPT ![w] = @ + 1]
      BY <1>3 DEF NoSocket, Active, Running
    <2> QED BY <2>1, <2>2, DecideNext DEF Verdict
  <1>4. CASE Launched(w)
    <2>1. /\ next[w] < Len(Shards[w]) /\ cur[w].fd \in Fds \ Active(w)
          /\ next' = [next EXCEPT ![w] = @ + 1] /\ pc[w] \in Running
      BY <1>4 DEF Launched, Control, TaskControl, Running, FdInv, DescriptorsOwned, TypeOK
    <2>2. CASE /\ active' = [active EXCEPT ![w][cur[w].fd] =
                               [port |-> Shards[w][next[w] + 1], age |-> 0]]
               /\ out' = out
      BY <2>1, <2>2, PendNext
    <2>3. CASE /\ \E v \in Verdict \ {"none"} : MarkDone(w, Shards[w][next[w] + 1], v)
               /\ active' = active
      <3>1. Active(w)' = Active(w)
        BY <2>3 DEF Active
      <3> QED BY <2>1, <2>3, <3>1, DecideNext
    <2> QED BY <1>4, <2>2, <2>3 DEF Launched, Verdict
  <1>5. CASE Event(w)
    <2>1. pc[w] \in Running /\ next' = next /\ pc' = pc
      BY <1>5 DEF Event, Running
    <2>2. CASE UNCHANGED <<active, out>>
      BY <2>1, <2>2, SameCounts
    <2>3. CASE \E f \in Active(w) :
                  /\ MarkDone(w, active[w][f].port, VerdictOf(sock[f].st))
                  /\ active' = [active EXCEPT ![w][f] = NoEntry]
      <3>1. \A f : VerdictOf(sock[f].st) \in Verdict \ {"none"}
        BY DEF VerdictOf, Verdict
      <3> QED BY <2>1, <2>3, <3>1, DecidePending
    <2> QED BY <1>5, <2>2, <2>3 DEF Event
  <1>6. CASE Sweep(w)
    <2>1. pc[w] \in Running /\ next' = next
      BY <1>6 DEF Sweep, Running
    <2>2. PICK f \in Active(w) : /\ MarkDone(w, active[w][f].port, "timeout")
                                 /\ active' = [active EXCEPT ![w][f] = NoEntry]
      BY <1>6 DEF Sweep
    <2> QED BY <2>1, <2>2, DecidePending DEF Verdict
  <1>7. CASE Finish(w)
    <2>1. /\ out' = [out EXCEPT ![w].aborted = stop] /\ next' = next
          /\ Active(w)' = {} /\ pc'[w] = "ready"
      BY <1>7 DEF Finish, TypeOK, Active
    <2>2. /\ out'[w].open = out[w].open /\ out'[w].scanned = out[w].scanned
          /\ out'[w].timeouts = out[w].timeouts
          /\ out'[w].refused = out[w].refused /\ out'[w].other = out[w].other
      BY <2>1 DEF TypeOK, WorkerResult
    <2>3. Places(w)'
      BY <2>1, <2>2 DEF Places, Taken, Pending
    <2>4. Sums(w)' /\ Progress(w)'
      BY <2>1, <2>2 DEF Sums, Progress, Running
    <2> QED BY <2>3, <2>4
  <1>8. CASE Loop(w) \/ Connect(w) \/ LaunchEnd(w) \/ Wait(w) \/ EventsEnd(w) \/ SweepEnd(w)
    <2>1. next' = next /\ active' = active /\ out' = out /\ pc[w] \in Running
      BY <1>8 DEF Loop, Connect, LaunchEnd, Wait, EventsEnd, SweepEnd, Running
    <2> QED BY <2>1, SameCounts
  <1> QED BY <1>1, <1>2, <1>3, <1>4, <1>5, <1>6, <1>7, <1>8 DEF WorkerStep

LEMMA CountStep == TypeInv /\ FdInv /\ CountInv /\ [Next]_vars => CountInv'
  <1> SUFFICES ASSUME TypeInv, FdInv, CountInv, [Next]_vars, NEW v \in Workers
               PROVE  Places(v)' /\ Sums(v)' /\ Progress(v)'
    BY DEF CountInv
  <1> USE DEF TypeInv, workerVars, collectorVars
  <1>0. Places(v) /\ Sums(v) /\ Progress(v)
    BY DEF CountInv
  <1>1. ASSUME NEW w \in Workers, WorkerStep(w)
        PROVE  Places(v)' /\ Sums(v)' /\ Progress(v)'
    <2>1. CASE v = w
      BY <1>0, <1>1, <2>1, WorkerCounts
    <2>2. CASE v # w
      BY <1>0, <1>1, <2>2, WorkerFrame, SameCounts
    <2> QED BY <2>1, <2>2
  <1>2. CASE CollectorStep
    <2>1. UNCHANGED <<next, active, out>>
      BY <1>2 DEF CollectorStep, Submit, Poll, Watch, Return
    <2>2. pc'[v] \in Running => pc[v] \in Running
      BY <1>2 DEF CollectorStep, Submit, Poll, Watch, Return, Goto, TypeOK, Running
    <2> QED BY <1>0, <2>1, <2>2, SameCounts
  <1>3. CASE Kernel
    BY <1>0, <1>3, SameCounts DEF Kernel, Answer, Reset
  <1>4. CASE Tick
    <2>1. \A f \in Fds :
             /\ active'[v][f].port = active[v][f].port
             /\ active'[v][f] = NoEntry <=> active[v][f] = NoEntry
      BY <1>4, OlderType DEF Tick, TypeOK
    <2>2. Active(v)' = Active(v)
      BY <2>1 DEF Active
    <2>3. UNCHANGED <<pc, next, out>>
      BY <1>4 DEF Tick
    <2>4. \A f \in Active(v) : active'[v][f].port = active[v][f].port
      BY <2>1 DEF Active
    <2>5. Places(v)'
      BY <1>0, <2>2, <2>3, <2>4 DEF Places, Taken, Pending
    <2> QED BY <1>0, <2>2, <2>3, <2>5 DEF Sums, Progress
  <1>5. CASE UNCHANGED vars
    BY <1>0, <1>5, SameCounts DEF vars
  <1> QED BY <1>1, <1>2, <1>3, <1>4, <1>5 DEF Next, System, Over

LEMMA CountInvariant == Spec => [](TypeInv /\ FdInv /\ CountInv)
  BY InitTypeInv, InitFdInv, InitCountInv, TypeStep, FdStep, CountStep, PTL DEF Spec

(* A worker's counters add up, however its launches fail and whenever it   *)
(* is stopped, and each port taken from its shard is counted or pending.   *)
THEOREM CountersAlwaysAddUp == Spec => []CountersAddUp
  <1>1. CountInv => CountersAddUp
    BY DEF CountInv, Sums, Progress, CountersAddUp
  <1> QED BY <1>1, CountInvariant, PTL

-----------------------------------------------------------------------------
(* A worker only leaves its loops with everything scanned or stopped, and  *)
(* the stop flag never falls, so reading it again is harmless.             *)

LeftOrStopped == \A w \in Workers :
                    pc[w] = "exit" => stop \/ out[w].scanned = Len(Shards[w])

GapInv == GapsAreAborts /\ LeftOrStopped

LEMMA GapStep == TypeInv /\ CountInv /\ GapInv /\ [Next]_vars => GapInv'
  <1> SUFFICES ASSUME TypeInv, CountInv, GapInv, [Next]_vars, NEW v \in Workers
               PROVE  /\ pc'[v] \in {"ready", "taken"} /\ out'[v].scanned < Len(Shards[v])
                            => out'[v].aborted
                      /\ pc'[v] = "exit" => stop' \/ out'[v].scanned = Len(Shards[v])
    BY DEF GapInv, GapsAreAborts, LeftOrStopped
  <1> USE DEF TypeInv, Goto, workerVars, collectorVars
  <1>0. /\ pc[v] \in {"ready", "taken"} /\ out[v].scanned < Len(Shards[v]) => out[v].aborted
        /\ pc[v] = "exit" => stop \/ out[v].scanned = Len(Shards[v])
    BY DEF GapInv, GapsAreAborts, LeftOrStopped
  <1>1. CASE WorkerStep(v)
    <2>1. CASE BeginNoEpoll(v)
      <3>1. pc'[v] = "ready" /\ out'[v] = GivenUp(Len(Shards[v]))
        BY <2>1 DEF BeginNoEpoll, TypeOK
      <3>2. out'[v].scanned = Len(Shards[v]) /\ Len(Shards[v]) \in Nat
        BY <3>1, ShardFacts DEF GivenUp
      <3> QED BY <3>1, <3>2
    <2>2. CASE Loop(v)
      <3>1. CASE KeepGoing(v)
        BY <2>2, <3>1 DEF Loop, TypeOK
      <3>2. CASE ~KeepGoing(v)
        <4>1. pc'[v] = "exit" /\ UNCHANGED <<stop, out>> /\ pc[v] \in Running
          BY <2>2, <3>2 DEF Loop, TypeOK, Running
        <4>2. CASE next[v] >= Len(Shards[v]) /\ Active(v) = {}
          <5>1. next[v] = Len(Shards[v])
            BY <4>2, ShardFacts DEF TypeOK
          <5>2. out[v].scanned = Len(Shards[v])
            <6>1. Cardinality(Active(v)) = 0
              BY <4>2, FS_EmptySet
            <6>2. out[v].scanned \in Nat
              BY DEF TypeOK, WorkerResult
            <6> QED BY <4>1, <5>1, <6>1, <6>2 DEF CountInv, Progress
          <5> QED BY <4>1, <5>2
        <4>3. CASE stop
          BY <4>1, <4>3
        <4>4. next[v] \in Nat /\ Len(Shards[v]) \in Nat
          BY ShardFacts DEF TypeOK
        <4> QED BY <3>2, <4>2, <4>3, <4>4 DEF KeepGoing
      <3> QED BY <3>1, <3>2
    <2>3. CASE Finish(v)
      <3>1. /\ pc[v] = "exit" /\ pc'[v] = "ready"
            /\ out'[v].scanned = out[v].scanned /\ out'[v].aborted = stop
        BY <2>3 DEF Finish, TypeOK, WorkerResult
      <3>2. Len(Shards[v]) \in Nat
        BY ShardFacts
      <3> QED BY <1>0, <3>1, <3>2
    <2>4. CASE \/ Begin(v) \/ NoSocket(v) \/ Connect(v) \/ Launched(v) \/ LaunchEnd(v)
               \/ Wait(v) \/ Event(v) \/ EventsEnd(v) \/ Sweep(v) \/ SweepEnd(v)
      <3>1. pc'[v] \notin {"exit", "ready", "taken"}
        BY <2>4 DEF Begin, NoSocket, Connect, Launched, LaunchEnd, Wait, Event,
                    EventsEnd, Sweep, SweepEnd, TypeOK
      <3> QED BY <3>1
    <2> QED BY <1>1, <2>1, <2>2, <2>3, <2>4 DEF WorkerStep
  <1>2. ASSUME NEW w \in Workers \ {v}, WorkerStep(w)
        PROVE  UNCHANGED <<pc[v], out[v], stop>>
    BY <1>2, WorkerFrame
  <1>3. CASE CollectorStep
    <2>1. out' = out
      BY <1>3 DEF CollectorStep, Submit, Poll, Watch, Return
    <2>2. \/ pc'[v] = pc[v]
          \/ pc'[v] = "queued"
          \/ pc[v] = "ready" /\ pc'[v] = "taken"
      BY <1>3 DEF CollectorStep, Submit, Poll, Watch, Return, TypeOK
    <2>3. stop => stop'
      BY <1>3 DEF CollectorStep, Submit, Poll, Watch, Return
    <2> QED BY <1>0, <2>1, <2>2, <2>3
  <1>4. CASE Kernel \/ Tick \/ Over \/ UNCHANGED vars
    <2>1. UNCHANGED <<pc, out, stop>>
      BY <1>4 DEF Kernel, Answer, Reset, Tick, Over, vars
    <2> QED BY <1>0, <2>1
  <1> QED BY <1>0, <1>1, <1>2, <1>3, <1>4 DEF Next, System

(* Whatever the moment the stop flag rises, a worker that returns with     *)
(* ports unscanned reports `aborted`, so the scan is reported as skipped.  *)
THEOREM GapsAreAlwaysAborts == Spec => []GapsAreAborts
  <1>1. Init => GapInv
    BY DEF Init, GapInv, GapsAreAborts, LeftOrStopped
  <1>2. GapInv => GapsAreAborts
    BY DEF GapInv
  <1> QED BY <1>1, <1>2, CountInvariant, GapStep, PTL DEF Spec

-----------------------------------------------------------------------------
(* Timeouts.  `now` is sampled once a round, before the events; the        *)
(* connects it found expired stay so until the sweep, and no new connect   *)
(* can take the descriptor of one meanwhile.                               *)

Old(w) ==
    /\ \A f \in expired[w] \cap Active(w) : active[w][f].age >= Timeout
    /\ pc[w] \notin {"events", "sweep"} => expired[w] = {}

AgeInv == \A w \in Workers : Old(w)

LEMMA OlderKeepsAge ==
    ASSUME NEW e \in {NoEntry} \cup [port : Port, age : 0..Timeout], e.age >= Timeout
    PROVE  Older(e).age >= Timeout
  BY SizesAssumption DEF Older, NoEntry

LEMMA AgeStep == TypeInv /\ AgeInv /\ [Next]_vars => AgeInv'
  <1> SUFFICES ASSUME TypeInv, AgeInv, [Next]_vars, NEW v \in Workers PROVE Old(v)'
    BY DEF AgeInv
  <1> USE DEF TypeInv, workerVars, collectorVars
  <1>0. Old(v)
    BY DEF AgeInv
  <1>1. ASSUME NEW w \in Workers, WorkerStep(w) PROVE Old(v)'
    <2>1. CASE v # w
      BY <1>0, <1>1, <2>1, WorkerFrame DEF Old, Active
    <2>2. CASE v = w
      <3> USE DEF TypeOK, Goto, MarkDone
      <3>1. CASE Wait(v)
        <4>1. /\ expired'[v] = ExpiredFds(v) /\ pc'[v] = "events" /\ active' = active
          BY <3>1 DEF Wait
        <4> QED BY <4>1 DEF Old, ExpiredFds, Active
      <3>2. CASE SweepEnd(v)
        BY <3>2 DEF SweepEnd, Old
      <3>3. CASE Event(v) \/ EventsEnd(v) \/ Sweep(v)
        <4>1. expired' = expired /\ pc'[v] \in {"events", "sweep"}
          BY <3>3 DEF Event, EventsEnd, Sweep
        <4>2. \A f \in Active(v)' : f \in Active(v) /\ active'[v][f] = active[v][f]
          BY <3>3 DEF Event, EventsEnd, Sweep, Active
        <4> QED BY <1>0, <4>1, <4>2 DEF Old
      <3>4. CASE \/ BeginNoEpoll(v) \/ Begin(v) \/ Loop(v) \/ NoSocket(v) \/ Connect(v)
                 \/ Launched(v) \/ LaunchEnd(v) \/ Finish(v)
        <4>1. expired' = expired /\ pc[v] \notin {"events", "sweep"}
          BY <3>4 DEF BeginNoEpoll, Begin, Loop, NoSocket, Connect, Launched, LaunchEnd, Finish
        <4> QED BY <1>0, <4>1 DEF Old
      <3> QED BY <1>1, <2>2, <3>1, <3>2, <3>3, <3>4 DEF WorkerStep
    <2> QED BY <2>1, <2>2
  <1>2. CASE CollectorStep
    <2>1. UNCHANGED <<active, expired>>
      BY <1>2 DEF CollectorStep, Submit, Poll, Watch, Return
    <2>2. pc'[v] \in {"events", "sweep"} <=> pc[v] \in {"events", "sweep"}
      <3>1. CASE Submit
        <4>1. ci \in Workers /\ pc[ci] = "new" /\ pc' = [pc EXCEPT ![ci] = "queued"]
          BY <3>1, SizesAssumption DEF Submit, Goto, TypeOK, Control, Submitting, Workers
        <4> QED BY <4>1 DEF TypeOK
      <3>2. CASE Poll \/ Watch \/ Return
        BY <3>2 DEF Poll, Watch, Return, Goto, TypeOK
      <3> QED BY <1>2, <3>1, <3>2 DEF CollectorStep
    <2> QED BY <1>0, <2>1, <2>2 DEF Old, Active
  <1>3. CASE Tick
    <2>1. UNCHANGED <<pc, expired>>
      BY <1>3 DEF Tick
    <2>2. Active(v)' = Active(v)
      BY <1>3, OlderType DEF Tick, TypeOK, Active
    <2>3. \A f \in Active(v) : active[v][f].age >= Timeout => active'[v][f].age >= Timeout
      BY <1>3, OlderKeepsAge DEF Tick, TypeOK, Active
    <2> QED BY <1>0, <2>1, <2>2, <2>3 DEF Old
  <1>4. CASE Kernel \/ Over \/ UNCHANGED vars
    BY <1>0, <1>4 DEF Kernel, Answer, Reset, Over, vars, Old, Active
  <1> QED BY <1>1, <1>2, <1>3, <1>4 DEF Next, System

(* Only the sweep counts a timeout.                                        *)
LEMMA OnlySweepTimesOut ==
    ASSUME TypeInv, NEW w \in Workers, NEW v \in Workers, WorkerStep(w), ~Sweep(w)
    PROVE  ~(out'[v].timeouts > out[v].timeouts)
  <1> USE DEF TypeInv, TypeOK, Goto, workerVars, collectorVars
  <1>1. out[v].timeouts \in Nat
    BY DEF WorkerResult
  <1>2. CASE out' = out
    BY <1>1, <1>2
  <1>3. ASSUME NEW p, NEW x \in Verdict \ {"timeout"}, MarkDone(w, p, x)
        PROVE  ~(out'[v].timeouts > out[v].timeouts)
    <2> DEFINE r == Counted(out[w], p, x)
    <2>1. out' = [out EXCEPT ![w] = r]
      BY <1>3 DEF MarkDone
    <2>2. r.timeouts = out[w].timeouts
      BY <1>3 DEF Counted, Tally
    <2> HIDE DEF r
    <2>3. out[w].timeouts \in Nat
      BY DEF WorkerResult
    <2>4. CASE v = w
      BY <2>1, <2>2, <2>3, <2>4
    <2>5. CASE v # w
      BY <1>1, <2>1, <2>5
    <2> QED BY <2>4, <2>5
  <1>4. CASE BeginNoEpoll(w)
    <2>1. out' = [out EXCEPT ![w] = GivenUp(Len(Shards[w]))]
      BY <1>4 DEF BeginNoEpoll
    <2>2. out[w].timeouts \in Nat /\ GivenUp(Len(Shards[w])).timeouts = 0
      BY DEF WorkerResult, GivenUp
    <2> QED BY <1>1, <2>1, <2>2
  <1>5. CASE NoSocket(w)
    BY <1>3, <1>5 DEF NoSocket, Verdict
  <1>6. CASE Launched(w)
    <2>1. out' = out \/ \E x \in {"open", "refused", "other"} :
                           MarkDone(w, Shards[w][next[w] + 1], x)
      BY <1>6 DEF Launched
    <2> QED BY <1>2, <1>3, <2>1 DEF Verdict
  <1>7. CASE Event(w)
    <2>1. out' = out \/ \E f \in Fds : MarkDone(w, active[w][f].port, VerdictOf(sock[f].st))
      BY <1>7 DEF Event
    <2>2. \A f \in Fds : VerdictOf(sock[f].st) \in Verdict \ {"timeout"}
      BY DEF VerdictOf, Verdict
    <2> QED BY <1>2, <1>3, <2>1, <2>2
  <1>8. CASE Finish(w)
    <2>1. out' = [out EXCEPT ![w].aborted = stop]
      BY <1>8 DEF Finish
    <2>2. out'[v].timeouts = out[v].timeouts
      BY <2>1 DEF WorkerResult
    <2> QED BY <1>1, <2>2
  <1>9. CASE \/ Begin(w) \/ Loop(w) \/ Connect(w) \/ LaunchEnd(w) \/ Wait(w)
             \/ EventsEnd(w) \/ SweepEnd(w)
    BY <1>2, <1>9 DEF Begin, Loop, Connect, LaunchEnd, Wait, EventsEnd, SweepEnd
  <1> QED BY <1>4, <1>5, <1>6, <1>7, <1>8, <1>9 DEF WorkerStep

(* The timeouts a worker counts are of connects that were pending for the  *)
(* whole time-out and are given up by that step.                           *)
THEOREM TimeoutsArePatient == Spec => PatientTimeouts
  <1> DEFINE Patient == \A w \in Workers :
                out'[w].timeouts > out[w].timeouts =>
                   \E f \in Active(w) : active[w][f].age >= Timeout /\ f \notin Active(w)'
  <1>1. TypeInv /\ AgeInv /\ [Next]_vars => [Patient]_vars
    <2> SUFFICES ASSUME TypeInv, AgeInv, [Next]_vars, NEW v \in Workers,
                        out'[v].timeouts > out[v].timeouts
                 PROVE  \E f \in Active(v) : active[v][f].age >= Timeout /\ f \notin Active(v)'
      OBVIOUS
    <2>1. out[v].timeouts \in Nat
      BY DEF TypeInv, TypeOK, WorkerResult
    <2>2. out'[v] # out[v]
      BY <2>1
    <2>3. PICK w \in Workers : WorkerStep(w)
      BY <2>2 DEF Next, System, Kernel, Over, CollectorStep, Submit, Poll, Watch, Return,
                  Answer, Reset, Tick, vars, workerVars, collectorVars
    <2>4. Sweep(w)
      BY <2>3, OnlySweepTimesOut
    <2>5. v = w
      BY <2>2, <2>3, WorkerFrame DEF TypeInv
    <2>6. PICK f \in expired[v] \cap Active(v) : active' = [active EXCEPT ![v][f] = NoEntry]
      BY <2>4, <2>5 DEF Sweep
    <2>7. active[v][f].age >= Timeout
      BY DEF AgeInv, Old
    <2>8. f \notin Active(v)'
      BY <2>6 DEF Active, TypeInv, TypeOK
    <2> QED BY <2>7, <2>8
  <1>2. Init => AgeInv
    BY DEF Init, AgeInv, Old
  <1> QED BY <1>1, <1>2, InitTypeInv, TypeStep, AgeStep, PTL DEF Spec, PatientTimeouts

-----------------------------------------------------------------------------
(* The scan implements PortScan.  A worker's result counts the verdicts of *)
(* its shard, the collector's total those of the workers it has collected. *)

Decision == {"open", "timeout", "refused", "other"}

PortsOf(w) == {Shards[w][k] : k \in 1..Len(Shards[w])}

LEMMA ShardPorts ==
    ASSUME NEW w \in Workers
    PROVE  /\ PortsOf(w) \in SUBSET Port /\ IsFiniteSet(PortsOf(w))
           /\ Cardinality(PortsOf(w)) = Len(Shards[w])
           /\ \A v \in Workers \ {w} : PortsOf(w) \cap PortsOf(v) = {}
  <1> DEFINE n == Len(Shards[w])
             S == PortsOf(w)
             f == [k \in 1..n |-> Shards[w][k]]
  <1>1. n \in Int /\ n >= 0 /\ 1 \in Int /\ S \in SUBSET Port
    BY ShardFacts DEF PortsOf
  <1>2. f \in [1..n -> S] /\ (\A j, k \in 1..n : f[j] = f[k] => j = k)
        /\ \A p \in S : \E k \in 1..n : f[k] = p
    <2>1. \A j, k \in 1..n : Shards[w][j] = Shards[w][k] => j = k
      BY ShardsAssumption
    <2> QED BY <1>1, <2>1 DEF PortsOf
  <1>3. ASSUME NEW v \in Workers \ {w} PROVE S \cap PortsOf(v) = {}
    <2>1. \A j \in 1..Len(Shards[w]), k \in 1..Len(Shards[v]) : Shards[w][j] # Shards[v][k]
      BY ShardsAssumption
    <2> QED BY <2>1 DEF PortsOf
  <1> HIDE DEF n, S, f
  <1>4. f \in Bijection(1..n, S) /\ ExistsBijection(1..n, S)
    BY <1>2 DEF ExistsBijection, Bijection, Injection, Surjection, IsInjective
  <1>5. /\ IsFiniteSet(1..n)
        /\ Cardinality(1..n) = IF 1 > n THEN 0 ELSE n - 1 + 1
    BY ONLY <1>1, FS_Interval, Zenon
  <1>6. Cardinality(1..n) = n
    BY <1>1, <1>5
  <1>7. IsFiniteSet(S) /\ Cardinality(S) = n
    BY <1>4, <1>5, <1>6, FS_Bijection, FS_Surjection DEF Bijection
  <1> QED BY <1>1, <1>3, <1>7 DEF n, S

LEMMA AllPorts == Port = UNION {PortsOf(w) : w \in Workers} /\ IsFiniteSet(Port)
  <1>1. Port = UNION {PortsOf(w) : w \in Workers}
    <2>1. ASSUME NEW p \in Port PROVE \E w \in Workers : p \in PortsOf(w)
      <3>1. PICK w \in Workers : \E k \in 1..Len(Shards[w]) : Shards[w][k] = p
        BY ShardsAssumption
      <3> QED BY <3>1 DEF PortsOf
    <2> QED BY <2>1, ShardPorts
  <1>2. IsFiniteSet(Workers)
    BY FS_Interval, SizesAssumption DEF Workers
  <1>3. IsFiniteSet({PortsOf(w) : w \in Workers})
    <2> DEFINE g == [w \in Workers |-> PortsOf(w)]
               T == {PortsOf(w) : w \in Workers}
    <2>1. g \in Surjection(Workers, T)
      BY DEF Surjection
    <2> HIDE DEF g, T
    <2>2. IsFiniteSet(T)
      BY <1>2, <2>1, FS_Surjection
    <2> QED BY <2>2 DEF T
  <1>4. IsFiniteSet(UNION {PortsOf(w) : w \in Workers})
    <2>1. \A T \in {PortsOf(w) : w \in Workers} : IsFiniteSet(T)
      BY ShardPorts
    <2> DEFINE U == {PortsOf(w) : w \in Workers}
    <2> HIDE DEF U
    <2>2. IsFiniteSet(UNION U)
      BY <1>3, <2>1, FS_UNION DEF U
    <2> QED BY <2>2 DEF U
  <1> QED BY <1>1, <1>4

LEMMA DisjointSum ==
    ASSUME NEW S, NEW T, IsFiniteSet(S), IsFiniteSet(T), S \cap T = {}
    PROVE  /\ Cardinality(S \cup T) = Cardinality(S) + Cardinality(T)
           /\ Cardinality(S) \in Nat /\ Cardinality(T) \in Nat
  <1>1. Cardinality(S \cap T) = 0
    BY FS_EmptySet
  <1>2. Cardinality(S \cup T) = Cardinality(S) + Cardinality(T) - Cardinality(S \cap T)
    BY FS_Union
  <1>3. Cardinality(S) \in Nat /\ Cardinality(T) \in Nat
    BY FS_CardinalityType
  <1> QED BY <1>1, <1>2, <1>3

(* The result r counts the verdicts d on the ports D.                      *)
Valued(D, d, v) == {p \in D : d[p] = v}

Agrees(r, D, d) ==
    /\ r.open = Valued(D, d, "open")
    /\ r.timeouts = Cardinality(Valued(D, d, "timeout"))
    /\ r.refused = Cardinality(Valued(D, d, "refused"))
    /\ r.other = Cardinality(Valued(D, d, "other"))
    /\ r.scanned = Cardinality(D \ Valued(D, d, "none"))

Alike(r, s) == /\ r.open = s.open /\ r.scanned = s.scanned /\ r.timeouts = s.timeouts
               /\ r.refused = s.refused /\ r.other = s.other

LEMMA SameAgrees ==
    ASSUME NEW r, NEW s, NEW D, NEW d, NEW e, Agrees(r, D, d), Alike(s, r),
           \A p \in D : e[p] = d[p]
    PROVE  Agrees(s, D, e)
  <1>1. \A v : Valued(D, e, v) = Valued(D, d, v)
    BY DEF Valued
  <1> QED BY <1>1 DEF Agrees, Alike

(* The result after the ports of S are decided.                            *)
Tallied(r, S, v) ==
    [open     |-> IF v = "open" THEN r.open \cup S ELSE r.open,
     scanned  |-> r.scanned + Cardinality(S),
     timeouts |-> IF v = "timeout" THEN r.timeouts + Cardinality(S) ELSE r.timeouts,
     refused  |-> IF v = "refused" THEN r.refused + Cardinality(S) ELSE r.refused,
     other    |-> IF v = "other" THEN r.other + Cardinality(S) ELSE r.other,
     aborted  |-> r.aborted]

LEMMA TalliedAgrees ==
    ASSUME NEW r, NEW D, IsFiniteSet(D), NEW d, Agrees(r, D, d),
           NEW S \in SUBSET D, \A p \in S : d[p] = "none",
           NEW v \in Decision, NEW e, \A p \in D : e[p] = IF p \in S THEN v ELSE d[p]
    PROVE  Agrees(Tallied(r, S, v), D, e)
  <1> DEFINE n == Cardinality(S)
  <1>1. ASSUME NEW x \in Decision
        PROVE  /\ Valued(D, e, x) = IF v = x THEN Valued(D, d, x) \cup S ELSE Valued(D, d, x)
               /\ Valued(D, d, x) \cap S = {} /\ Valued(D, d, x) \in SUBSET D
    BY DEF Valued, Decision
  <1>2. /\ D \ Valued(D, e, "none") = (D \ Valued(D, d, "none")) \cup S
        /\ (D \ Valued(D, d, "none")) \cap S = {}
    BY DEF Valued, Decision
  <1>3. ASSUME NEW T \in SUBSET D PROVE IsFiniteSet(T)
    BY FS_Subset
  <1>4. ASSUME NEW x \in Decision
        PROVE  Cardinality(Valued(D, e, x)) = IF v = x THEN Cardinality(Valued(D, d, x)) + n
                                              ELSE Cardinality(Valued(D, d, x))
    BY <1>1, <1>3, DisjointSum
  <1>5. Cardinality(D \ Valued(D, e, "none")) = Cardinality(D \ Valued(D, d, "none")) + n
    BY <1>2, <1>3, DisjointSum
  <1> HIDE DEF n
  <1>6. /\ Tallied(r, S, v).open = Valued(D, e, "open")
        /\ Tallied(r, S, v).timeouts = Cardinality(Valued(D, e, "timeout"))
        /\ Tallied(r, S, v).refused = Cardinality(Valued(D, e, "refused"))
        /\ Tallied(r, S, v).other = Cardinality(Valued(D, e, "other"))
        /\ Tallied(r, S, v).scanned = Cardinality(D \ Valued(D, e, "none"))
    BY <1>1, <1>4, <1>5 DEF Tallied, Agrees, Decision, n
  <1> QED BY <1>6 DEF Agrees

LEMMA MergedAgrees ==
    ASSUME NEW t, NEW r, NEW D, NEW E, IsFiniteSet(D), IsFiniteSet(E), D \cap E = {},
           NEW d, Agrees(t, D, d), Agrees(r, E, d)
    PROVE  Agrees(Merged(t, r), D \cup E, d)
  <1>1. ASSUME NEW v
        PROVE  /\ Valued(D \cup E, d, v) = Valued(D, d, v) \cup Valued(E, d, v)
               /\ Valued(D, d, v) \cap Valued(E, d, v) = {}
               /\ IsFiniteSet(Valued(D, d, v)) /\ IsFiniteSet(Valued(E, d, v))
    BY FS_Subset DEF Valued
  <1>2. ASSUME NEW v
        PROVE  Cardinality(Valued(D \cup E, d, v)) =
                  Cardinality(Valued(D, d, v)) + Cardinality(Valued(E, d, v))
    BY <1>1, DisjointSum
  <1>3. /\ (D \cup E) \ Valued(D \cup E, d, "none") =
              (D \ Valued(D, d, "none")) \cup (E \ Valued(E, d, "none"))
        /\ (D \ Valued(D, d, "none")) \cap (E \ Valued(E, d, "none")) = {}
        /\ IsFiniteSet(D \ Valued(D, d, "none")) /\ IsFiniteSet(E \ Valued(E, d, "none"))
    BY FS_Subset DEF Valued
  <1>4. Cardinality((D \cup E) \ Valued(D \cup E, d, "none")) =
           Cardinality(D \ Valued(D, d, "none")) + Cardinality(E \ Valued(E, d, "none"))
    BY <1>3, DisjointSum
  <1>5. /\ Merged(t, r).open = t.open \cup r.open
        /\ Merged(t, r).scanned = t.scanned + r.scanned
        /\ Merged(t, r).timeouts = t.timeouts + r.timeouts
        /\ Merged(t, r).refused = t.refused + r.refused
        /\ Merged(t, r).other = t.other + r.other
    BY DEF Merged
  <1> QED BY <1>1, <1>2, <1>4, <1>5 DEF Agrees

-----------------------------------------------------------------------------
(* What the refinement rests on.                                           *)

Collected == {p \in Port : \E w \in Workers : pc[w] = "taken" /\ p \in PortsOf(w)}

(* Ports not taken from the shard, and pending ones, are undecided.        *)
Undecided(w) ==
    /\ pc[w] \notin {"ready", "taken"} =>
          \A k \in 1..Len(Shards[w]) : k > next[w] => verdict[Shards[w][k]] = "none"
    /\ \A f \in Active(w) : verdict[active[w][f].port] = "none"

(* An event is only handled of a connect that is over; a connection that   *)
(* connect() or the socket reports was accepted by the port's target.      *)
Heard(w) ==
    /\ \A f \in evs[w] \cap Active(w) : sock[f].st \in Settled
    /\ pc[w] # "events" => evs[w] = {}
    /\ cur[w].rc = "open" => Shards[w][next[w] + 1] \in accepted

Truthful == \A f \in Fds : sock[f].st = "accepted" => sock[f].port \in accepted

Ends ==
    /\ cpc # "done" => report = NoReport
    /\ cpc \in {"return", "done"} => \A w \in Workers : pc[w] = "taken"

WorkerScan(w) == Agrees(out[w], PortsOf(w), verdict) /\ Undecided(w) /\ Heard(w)

ScanInv == /\ \A w \in Workers : WorkerScan(w)
           /\ Agrees(total, Collected, verdict)
           /\ Truthful /\ Ends

LEMMA InitAgrees ==
    ASSUME NEW D, NEW d, \A p \in D : d[p] = "none"
    PROVE  Agrees(NoResult, D, d)
  <1>1. /\ D \ Valued(D, d, "none") = {} /\ Valued(D, d, "open") = {}
        /\ Valued(D, d, "timeout") = {} /\ Valued(D, d, "refused") = {}
        /\ Valued(D, d, "other") = {} /\ Cardinality({}) = 0
    BY FS_EmptySet DEF Valued
  <1> QED BY <1>1 DEF Agrees, NoResult

LEMMA InitScanInv == Init => ScanInv
  <1> SUFFICES ASSUME Init PROVE ScanInv
    OBVIOUS
  <1>1. /\ \A p \in Port : verdict[p] = "none"
        /\ \A w \in Workers : out[w] = NoResult /\ evs[w] = {} /\ cur[w] = NoLaunch
                              /\ Active(w) = {}
        /\ Collected \in SUBSET Port
    BY DEF Init, Active, Collected
  <1>2. ASSUME NEW w \in Workers PROVE WorkerScan(w)
    <2>1. Agrees(out[w], PortsOf(w), verdict)
      BY <1>1, ShardPorts, InitAgrees
    <2>2. Undecided(w)
      BY <1>1, ShardFacts DEF Undecided
    <2>3. Heard(w)
      BY <1>1 DEF Heard, NoLaunch
    <2> QED BY <2>1, <2>2, <2>3 DEF WorkerScan
  <1>3. Agrees(total, Collected, verdict)
    BY <1>1, InitAgrees DEF Init
  <1>4. Truthful /\ Ends
    BY DEF Init, Truthful, Ends, Free
  <1> QED BY <1>2, <1>3, <1>4 DEF ScanInv

(* A worker's step touches its own descriptors and free ones.              *)
LEMMA SockFrame ==
    ASSUME TypeInv, NEW w \in Workers, WorkerStep(w), NEW f \in Fds,
           sock[f].st # "free", ~Holds(w, f)
    PROVE  sock'[f] = sock[f]
  <1> USE DEF TypeInv, TypeOK, Control, TaskControl, Holds, Goto, MarkDone, Close,
              IsLowestFree, FreeFds, workerVars, collectorVars
  <1>1. CASE Begin(w) BY <1>1 DEF Begin
  <1>2. CASE Connect(w) BY <1>2 DEF Connect
  <1>3. CASE Launched(w) BY <1>3 DEF Launched
  <1>4. CASE Event(w) BY <1>4 DEF Event, Active
  <1>5. CASE Sweep(w) BY <1>5 DEF Sweep, Active
  <1>6. CASE Finish(w) BY <1>6 DEF Finish
  <1>7. CASE \/ BeginNoEpoll(w) \/ Loop(w) \/ NoSocket(w) \/ LaunchEnd(w) \/ Wait(w)
             \/ EventsEnd(w) \/ SweepEnd(w)
    BY <1>7 DEF BeginNoEpoll, Loop, NoSocket, LaunchEnd, Wait, EventsEnd, SweepEnd
  <1> QED BY <1>1, <1>2, <1>3, <1>4, <1>5, <1>6, <1>7 DEF WorkerStep

(* The ports of S, of the worker's shard and undecided so far, are decided *)
(* as v, "open" only if their target accepted a connection.                *)
Settles(w, S, v) ==
    /\ S \in SUBSET PortsOf(w) /\ \A p \in S : verdict[p] = "none"
    /\ out' = [out EXCEPT ![w] = Tallied(out[w], S, v)]
    /\ verdict' = [p \in Port |-> IF p \in S THEN v ELSE verdict[p]]
    /\ v = "open" => S \subseteq accepted
    /\ accepted' = accepted

LEMMA MarkDoneSettles ==
    ASSUME TypeOK, NEW w \in Workers, NEW p \in PortsOf(w), NEW v \in Decision,
           MarkDone(w, p, v), verdict[p] = "none", v = "open" => p \in accepted,
           accepted' = accepted
    PROVE  Settles(w, {p}, v)
  <1>1. p \in Port
    BY ShardPorts
  <1>2. Cardinality({p}) = 1
    BY FS_Singleton
  <1>3. Counted(out[w], p, v) = Tallied(out[w], {p}, v)
    BY <1>2 DEF Counted, Tally, Tallied
  <1>4. out' = [out EXCEPT ![w] = Tallied(out[w], {p}, v)]
    BY <1>3 DEF MarkDone
  <1>5. verdict' = [q \in Port |-> IF q \in {p} THEN v ELSE verdict[q]]
    BY <1>1 DEF MarkDone, TypeOK
  <1> QED BY <1>4, <1>5 DEF Settles

(* The next port of the shard, and a pending one, are undecided.           *)
LEMMA NextUndecided ==
    ASSUME TypeOK, NEW w \in Workers, Undecided(w), next[w] < Len(Shards[w]),
           pc[w] \notin {"ready", "taken"}
    PROVE  /\ Shards[w][next[w] + 1] \in PortsOf(w)
           /\ verdict[Shards[w][next[w] + 1]] = "none"
  <1>1. next[w] + 1 \in 1..Len(Shards[w]) /\ next[w] + 1 > next[w]
    BY ShardFacts DEF TypeOK
  <1> QED BY <1>1 DEF Undecided, PortsOf

LEMMA PendingUndecided ==
    ASSUME TypeOK, NEW w \in Workers, Undecided(w), Places(w), NEW f \in Active(w)
    PROVE  /\ active[w][f].port \in PortsOf(w) /\ verdict[active[w][f].port] = "none"
           /\ \E k \in 1..next[w] : k \in 1..Len(Shards[w]) /\ Shards[w][k] = active[w][f].port
  <1>1. PICK k \in 1..next[w] : Shards[w][k] = active[w][f].port
    BY DEF Places, Taken
  <1>2. k \in 1..Len(Shards[w])
    BY ShardFacts DEF TypeOK
  <1> QED BY <1>1, <1>2 DEF Undecided, PortsOf

Settled1(w) ==
    \/ \E S \in SUBSET Port, v \in Decision : Settles(w, S, v)
    \/ /\ UNCHANGED verdict /\ \A u \in Workers : Alike(out'[u], out[u])
       /\ accepted' = accepted \/ \E p \in Port : accepted' = accepted \cup {p}

(* What a connect reported as open says of the target.                     *)
LEMMA OpenIsAccepted ==
    ASSUME TypeOK, FdInv, Truthful, NEW w \in Workers, Heard(w), NEW f \in evs[w] \cap Active(w)
    PROVE  /\ VerdictOf(sock[f].st) \in {"open", "refused", "other"}
           /\ VerdictOf(sock[f].st) = "open" => active[w][f].port \in accepted
  <1>1. sock[f].st \in Settled /\ f \in Fds
    BY DEF Heard, Active
  <1>2. sock[f].port = active[w][f].port
    BY <1>1 DEF FdInv, DescriptorsOwned
  <1>3. VerdictOf(sock[f].st) = "open" => sock[f].st = "accepted"
    BY <1>1 DEF VerdictOf, Settled
  <1>4. VerdictOf(sock[f].st) \in {"open", "refused", "other"}
    BY DEF VerdictOf
  <1> QED BY <1>1, <1>2, <1>3, <1>4 DEF Truthful

LEMMA WorkerSettles ==
    ASSUME TypeInv, FdInv, CountInv, ScanInv, NEW w \in Workers, WorkerStep(w)
    PROVE  Settled1(w)
  <1>0. /\ TypeOK /\ TaskControl(w) /\ Places(w) /\ Undecided(w) /\ Heard(w) /\ Truthful
    BY DEF TypeInv, Control, CountInv, ScanInv, WorkerScan
  <1>1. ASSUME NEW p \in PortsOf(w), NEW v \in Decision, MarkDone(w, p, v),
               verdict[p] = "none", v = "open" => p \in accepted, accepted' = accepted
        PROVE  Settled1(w)
    <2>1. {p} \in SUBSET Port /\ Settles(w, {p}, v)
      BY <1>0, <1>1, ShardPorts, MarkDoneSettles
    <2> QED BY <2>1 DEF Settled1
  <1>2. ASSUME out' = out, verdict' = verdict,
               accepted' = accepted \/ \E p \in Port : accepted' = accepted \cup {p}
        PROVE  Settled1(w)
    BY <1>2 DEF Settled1, Alike
  <1>3. CASE BeginNoEpoll(w)
    <2> DEFINE S == PortsOf(w)
    <2>1. /\ out' = [out EXCEPT ![w] = GivenUp(Len(Shards[w]))] /\ accepted' = accepted
          /\ verdict' = [p \in Port |-> IF p \in S THEN "other" ELSE verdict[p]]
          /\ pc[w] = "queued" /\ next[w] = 0 /\ out[w] = NoResult
      BY <1>0, <1>3 DEF BeginNoEpoll, PortsOf, TaskControl
    <2>2. Cardinality(S) = Len(Shards[w]) /\ Len(Shards[w]) \in Nat /\ S \in SUBSET Port
      BY ShardPorts, ShardFacts
    <2>3. \A p \in S : verdict[p] = "none"
      BY <1>0, <2>1 DEF Undecided, PortsOf
    <2> HIDE DEF S
    <2>4. GivenUp(Len(Shards[w])) = Tallied(out[w], S, "other")
      BY <2>1, <2>2 DEF GivenUp, Tallied, NoResult
    <2>5. out' = [out EXCEPT ![w] = Tallied(out[w], S, "other")]
      BY <2>1, <2>4
    <2>6. Settles(w, S, "other")
      BY <2>1, <2>3, <2>5 DEF Settles, S
    <2> QED BY <2>2, <2>6 DEF Settled1, Decision
  <1>4. CASE NoSocket(w)
    <2>1. /\ MarkDone(w, Shards[w][next[w] + 1], "other") /\ next[w] < Len(Shards[w])
          /\ pc[w] = "launch" /\ accepted' = accepted
      BY <1>4 DEF NoSocket, CanLaunch
    <2> QED BY <1>0, <1>1, <2>1, NextUndecided DEF Decision
  <1>5. CASE Connect(w)
    <2>1. /\ UNCHANGED <<out, verdict>> /\ next[w] < Len(Shards[w])
          /\ accepted' = accepted \/ accepted' = accepted \cup {Shards[w][next[w] + 1]}
      BY <1>5 DEF Connect, CanLaunch
    <2>2. next[w] + 1 \in 1..Len(Shards[w])
      BY <1>0, <2>1, ShardFacts DEF TypeOK
    <2>3. Shards[w][next[w] + 1] \in Port
      BY <2>2, ShardFacts
    <2> QED BY <1>2, <2>1, <2>3
  <1>6. CASE Launched(w)
    <2>1. next[w] < Len(Shards[w]) /\ accepted' = accepted /\ pc[w] = "rc"
      BY <1>0, <1>6 DEF Launched, TaskControl
    <2>2. CASE UNCHANGED <<out, verdict>>
      BY <1>2, <2>1, <2>2
    <2>3. CASE \E v \in {"open", "refused", "other"} :
                  MarkDone(w, Shards[w][next[w] + 1], v) /\ (v = "open" => cur[w].rc = "open")
      <3>1. PICK v \in {"open", "refused", "other"} :
                  MarkDone(w, Shards[w][next[w] + 1], v) /\ (v = "open" => cur[w].rc = "open")
        BY <2>3
      <3>2. v = "open" => Shards[w][next[w] + 1] \in accepted
        BY <1>0, <3>1 DEF Heard
      <3> QED BY <1>0, <1>1, <2>1, <3>1, <3>2, NextUndecided DEF Decision
    <2> QED BY <1>6, <2>2, <2>3 DEF Launched
  <1>7. CASE Event(w)
    <2>1. accepted' = accepted
      BY <1>7 DEF Event
    <2>2. CASE UNCHANGED <<out, verdict>>
      BY <1>2, <2>1, <2>2
    <2>3. CASE \E f \in evs[w] \cap Active(w) :
                  MarkDone(w, active[w][f].port, VerdictOf(sock[f].st))
      <3>1. PICK f \in evs[w] \cap Active(w) :
                    MarkDone(w, active[w][f].port, VerdictOf(sock[f].st))
        BY <2>3
      <3> QED BY <1>0, <1>1, <2>1, <3>1, OpenIsAccepted, PendingUndecided DEF Decision
    <2> QED BY <1>7, <2>2, <2>3 DEF Event
  <1>8. CASE Sweep(w)
    <2>1. accepted' = accepted
      BY <1>8 DEF Sweep
    <2>2. PICK f \in Active(w) : MarkDone(w, active[w][f].port, "timeout")
      BY <1>8 DEF Sweep
    <2> QED BY <1>0, <1>1, <2>1, <2>2, PendingUndecided DEF Decision
  <1>9. CASE Finish(w)
    <2>1. /\ out' = [out EXCEPT ![w].aborted = stop] /\ UNCHANGED <<verdict, accepted>>
      BY <1>9 DEF Finish
    <2>2. \A u \in Workers : Alike(out'[u], out[u])
      BY <1>0, <2>1 DEF TypeOK, WorkerResult, Alike
    <2> QED BY <2>1, <2>2 DEF Settled1
  <1>10. CASE \/ Begin(w) \/ Loop(w) \/ LaunchEnd(w) \/ Wait(w) \/ EventsEnd(w) \/ SweepEnd(w)
    BY <1>2, <1>10 DEF Begin, Loop, LaunchEnd, Wait, EventsEnd, SweepEnd
  <1> QED BY <1>3, <1>4, <1>5, <1>6, <1>7, <1>8, <1>9, <1>10 DEF WorkerStep

LEMMA ShardOnce ==
    ASSUME NEW w \in Workers
    PROVE  \A j, k \in 1..Len(Shards[w]) : Shards[w][j] = Shards[w][k] => j = k
  BY ShardsAssumption

(* Deciding or launching the next port, deciding a pending one.            *)
LEMMA NextGone ==
    ASSUME TypeOK, NEW w \in Workers, Undecided(w), Places(w), next[w] < Len(Shards[w]),
           pc[w] \notin {"ready", "taken"}, next'[w] = next[w] + 1,
           \A p \in Port : p # Shards[w][next[w] + 1] => verdict'[p] = verdict[p],
           active'[w] = active[w]
    PROVE  Undecided(w)'
  <1> DEFINE p == Shards[w][next[w] + 1]
  <1>1. next[w] \in Nat /\ next[w] + 1 \in 1..Len(Shards[w])
    BY ShardFacts DEF TypeOK
  <1>2. \A j, k \in 1..Len(Shards[w]) : Shards[w][j] = Shards[w][k] => j = k
    BY ShardOnce
  <1>3. ASSUME NEW k \in 1..Len(Shards[w]), k > next'[w] PROVE verdict'[Shards[w][k]] = "none"
    <2>1. k # next[w] + 1 /\ k > next[w] /\ Shards[w][k] \in Port
      BY <1>1, <1>3, ShardFacts
    <2>2. Shards[w][k] # p
      BY <1>1, <1>2, <2>1
    <2> QED BY <2>1, <2>2 DEF Undecided
  <1>4. ASSUME NEW f \in Active(w) PROVE verdict'[active[w][f].port] = "none"
    <2>1. active[w][f].port # p
      BY NextNotTaken DEF Places
    <2>2. active[w][f].port \in Port /\ verdict[active[w][f].port] = "none"
      BY EntryType DEF Undecided
    <2> QED BY <2>1, <2>2
  <1> QED BY <1>3, <1>4 DEF Undecided, Active

LEMMA PendingGone ==
    ASSUME TypeOK, NEW w \in Workers, Undecided(w), Places(w), NEW f \in Active(w),
           \A p \in Port : p # active[w][f].port => verdict'[p] = verdict[p],
           active' = [active EXCEPT ![w][f] = NoEntry], next' = next,
           pc'[w] \notin {"ready", "taken"} => pc[w] \notin {"ready", "taken"}
    PROVE  Undecided(w)'
  <1>1. PICK j \in 1..next[w] : j \in 1..Len(Shards[w]) /\ Shards[w][j] = active[w][f].port
    BY PendingUndecided
  <1>2. \A k \in 1..Len(Shards[w]) : Shards[w][j] = Shards[w][k] => j = k
    BY <1>1, ShardOnce
  <1>3. \A k \in 1..Len(Shards[w]) : k > next[w] =>
           Shards[w][k] # active[w][f].port /\ Shards[w][k] \in Port
    BY <1>1, <1>2, ShardFacts DEF TypeOK
  <1>4. /\ Active(w)' = Active(w) \ {f}
        /\ \A g \in Active(w) \ {f} : active'[w][g] = active[w][g]
    BY DEF Active, TypeOK
  <1>5. \A g \in Active(w) \ {f} : /\ active[w][g].port # active[w][f].port
                                   /\ active[w][g].port \in Port
                                   /\ verdict[active[w][g].port] = "none"
    BY EntryType DEF Places, Undecided
  <1> QED BY <1>3, <1>4, <1>5 DEF Undecided

LEMMA MarkDoneElsewhere ==
    ASSUME TypeOK, NEW w \in Workers, NEW p \in Port, NEW v, MarkDone(w, p, v)
    PROVE  \A q \in Port : q # p => verdict'[q] = verdict[q]
  BY DEF MarkDone, TypeOK

LEMMA WorkerUndecided ==
    ASSUME TypeInv, FdInv, NEW w \in Workers, WorkerStep(w), Places(w), Undecided(w)
    PROVE  Undecided(w)'
  <1> DEFINE p == Shards[w][next[w] + 1]
  <1>0. TypeOK /\ TaskControl(w)
    BY DEF TypeInv, Control
  <1>1. ASSUME next[w] < Len(Shards[w])
        PROVE  next[w] + 1 \in 1..Len(Shards[w]) /\ p \in Port
    <2>1. next[w] + 1 \in 1..Len(Shards[w])
      BY <1>0, <1>1, ShardFacts DEF TypeOK
    <2> QED BY <2>1, ShardFacts
  <1>2. CASE BeginNoEpoll(w) \/ Finish(w)
    <2>1. pc'[w] = "ready" /\ Active(w)' = {}
      BY <1>0, <1>2 DEF BeginNoEpoll, Finish, Goto, TypeOK, TaskControl, Running, Active
    <2> QED BY <2>1 DEF Undecided
  <1>3. CASE NoSocket(w)
    <2>1. /\ MarkDone(w, p, "other") /\ next[w] < Len(Shards[w])
          /\ pc[w] = "launch" /\ active' = active /\ next'[w] = next[w] + 1
      BY <1>0, <1>3 DEF NoSocket, CanLaunch, TypeOK
    <2>2. \A q \in Port : q # p => verdict'[q] = verdict[q]
      BY <1>0, <1>1, <2>1, MarkDoneElsewhere
    <2> QED BY <1>0, <2>1, <2>2, NextGone
  <1>4. CASE Launched(w)
    <2>1. /\ next[w] < Len(Shards[w]) /\ next'[w] = next[w] + 1 /\ pc[w] = "rc"
          /\ pc'[w] = "launch"
      BY <1>0, <1>4 DEF Launched, TaskControl, TypeOK, Goto
    <2>2. CASE /\ active' = [active EXCEPT ![w][cur[w].fd] = [port |-> p, age |-> 0]]
               /\ verdict' = verdict
      <3>1. cur[w].fd \in Fds
        BY <1>0, <2>1 DEF TaskControl, TypeOK
      <3>2. \A f \in Active(w)' : \/ f \in Active(w) /\ active'[w][f] = active[w][f]
                                  \/ active'[w][f].port = p
        BY <1>0, <2>2, <3>1 DEF TypeOK, Active
      <3>3. verdict[p] = "none"
        BY <1>0, <2>1, NextUndecided
      <3>4. \A k \in 1..Len(Shards[w]) : k > next'[w] => k > next[w]
        BY <1>0, <2>1 DEF TypeOK
      <3> QED BY <2>1, <2>2, <3>2, <3>3, <3>4 DEF Undecided
    <2>3. CASE active' = active /\ \E v \in {"open", "refused", "other"} : MarkDone(w, p, v)
      <3>1. \A q \in Port : q # p => verdict'[q] = verdict[q]
        BY <1>0, <1>1, <2>1, <2>3, MarkDoneElsewhere
      <3> QED BY <1>0, <2>1, <2>3, <3>1, NextGone
    <2> QED BY <1>4, <2>2, <2>3 DEF Launched
  <1>5. CASE Event(w) \/ Sweep(w)
    <2>1. next' = next /\ pc' = pc
      BY <1>5 DEF Event, Sweep
    <2>2. CASE UNCHANGED <<active, verdict>>
      BY <1>0, <2>1, <2>2 DEF Undecided, Active
    <2>3. CASE \E f \in Active(w), v \in Verdict :
                  /\ MarkDone(w, active[w][f].port, v)
                  /\ active' = [active EXCEPT ![w][f] = NoEntry]
      <3>1. PICK f \in Active(w), v \in Verdict :
                  /\ MarkDone(w, active[w][f].port, v)
                  /\ active' = [active EXCEPT ![w][f] = NoEntry]
        BY <2>3
      <3>2. \A q \in Port : q # active[w][f].port => verdict'[q] = verdict[q]
        BY <1>0, <3>1, EntryType, MarkDoneElsewhere
      <3> QED BY <1>0, <2>1, <3>1, <3>2, PendingGone
    <2>4. \A f : VerdictOf(sock[f].st) \in Verdict /\ "timeout" \in Verdict
      BY DEF VerdictOf, Verdict
    <2> QED BY <1>5, <2>2, <2>3, <2>4 DEF Event, Sweep
  <1>6. CASE \/ Begin(w) \/ Loop(w) \/ Connect(w) \/ LaunchEnd(w) \/ Wait(w)
             \/ EventsEnd(w) \/ SweepEnd(w)
    <2>1. UNCHANGED <<next, active, verdict>> /\ pc[w] \notin {"ready", "taken"}
      BY <1>6 DEF Begin, Loop, Connect, LaunchEnd, Wait, EventsEnd, SweepEnd
    <2> QED BY <2>1 DEF Undecided, Active
  <1> QED BY <1>2, <1>3, <1>4, <1>5, <1>6 DEF WorkerStep

LEMMA WorkerHeard ==
    ASSUME TypeInv, FdInv, NEW w \in Workers, WorkerStep(w), Heard(w), Truthful
    PROVE  Heard(w)' /\ Truthful' /\ accepted \subseteq accepted'
  <1> USE DEF Goto
  <1>0. TypeOK /\ TaskControl(w) /\ (cur[w] = NoLaunch => cur[w].rc # "open")
    BY DEF TypeInv, Control, NoLaunch
  <1>1. CASE Connect(w)
    <2>1. PICK f \in Fds, s \in {"pending"} \cup Settled :
             LET p == Shards[w][next[w] + 1] IN
             /\ sock' = [sock EXCEPT ![f] = [st |-> s, port |-> p]]
             /\ accepted' = IF s = "accepted" THEN accepted \cup {p} ELSE accepted
             /\ cur' = [cur EXCEPT ![w] = [fd |-> f, rc |-> RcOf(s)]]
      BY <1>1 DEF Connect
    <2>2. /\ pc[w] = "launch" /\ pc'[w] = "rc" /\ UNCHANGED <<next, evs, active>>
      BY <1>0, <1>1 DEF Connect, TypeOK
    <2>3. RcOf(s) = "open" => s = "accepted"
      BY DEF RcOf, Settled
    <2>4. cur'[w].rc = RcOf(s)
      BY <1>0, <2>1 DEF TypeOK
    <2>5. Heard(w)'
      BY <2>1, <2>2, <2>3, <2>4 DEF Heard
    <2>6. Truthful'
      BY <1>0, <2>1 DEF Truthful, TypeOK
    <2> QED BY <2>1, <2>5, <2>6
  <1>2. CASE Launched(w)
    <2>1. /\ pc[w] = "rc" /\ pc'[w] = "launch" /\ UNCHANGED <<evs, accepted>>
          /\ cur'[w] = NoLaunch
      BY <1>0, <1>2 DEF Launched, TypeOK
    <2>2. sock' = sock \/ sock' = [sock EXCEPT ![cur[w].fd] = Free]
      BY <1>2 DEF Launched, Close
    <2>3. Truthful'
      <3>1. \A g \in Fds : sock'[g] = sock[g] \/ sock'[g] = Free
        BY <1>0, <2>1, <2>2 DEF TypeOK
      <3> QED BY <2>1, <3>1 DEF Truthful, Free
    <2>4. Heard(w)'
      BY <2>1 DEF Heard, NoLaunch
    <2> QED BY <2>1, <2>3, <2>4
  <1>3. CASE Wait(w)
    <2>1. evs'[w] \subseteq ReadyFds(w) /\ pc'[w] = "events"
      BY <1>0, <1>3 DEF Wait, TypeOK
    <2>2. UNCHANGED <<cur, next, accepted, sock, active>>
      BY <1>3 DEF Wait
    <2> QED BY <2>1, <2>2 DEF Heard, Truthful, ReadyFds, Active
  <1>4. CASE Event(w)
    <2>1. PICK f \in evs[w] :
             /\ evs' = [evs EXCEPT ![w] = @ \ {f}]
             /\ \/ UNCHANGED <<active, sock>>
                \/ /\ active' = [active EXCEPT ![w][f] = NoEntry]
                   /\ sock' = [sock EXCEPT ![f] = Free]
      BY <1>4 DEF Event, Close
    <2>2. UNCHANGED <<pc, cur, next, accepted>> /\ pc[w] = "events"
      BY <1>4 DEF Event
    <2>3. evs'[w] = evs[w] \ {f}
      BY <1>0, <2>1 DEF TypeOK
    <2>4. ASSUME NEW g \in evs'[w] \cap Active(w)' PROVE sock'[g].st \in Settled
      <3>1. g \in evs[w] /\ g # f /\ g \in Fds
        BY <2>3 DEF Active
      <3>2. active'[w][g] = active[w][g] /\ sock'[g] = sock[g]
        BY <1>0, <2>1, <3>1 DEF TypeOK
      <3>3. g \in Active(w)
        BY <3>1, <3>2 DEF Active
      <3> QED BY <3>1, <3>2, <3>3 DEF Heard
    <2>5. Truthful'
      <3>1. \A g \in Fds : sock'[g] = sock[g] \/ sock'[g] = Free
        BY <1>0, <2>1 DEF TypeOK
      <3> QED BY <2>2, <3>1 DEF Truthful, Free
    <2>6. Heard(w)'
      BY <2>2, <2>4 DEF Heard
    <2> QED BY <2>2, <2>5, <2>6
  <1>5. CASE Sweep(w)
    <2>1. PICK f \in Active(w) : sock' = [sock EXCEPT ![f] = Free]
      BY <1>5 DEF Sweep, Close
    <2>2. UNCHANGED <<pc, cur, next, accepted, evs>> /\ pc[w] = "sweep"
      BY <1>5 DEF Sweep
    <2>3. Truthful'
      <3>1. \A g \in Fds : sock'[g] = sock[g] \/ sock'[g] = Free
        BY <1>0, <2>1 DEF TypeOK
      <3> QED BY <2>2, <3>1 DEF Truthful, Free
    <2>4. Heard(w)'
      BY <2>2 DEF Heard
    <2> QED BY <2>2, <2>3, <2>4
  <1>6. CASE NoSocket(w)
    <2>1. cur[w] = NoLaunch /\ UNCHANGED <<pc, cur, evs, accepted, sock>> /\ pc[w] = "launch"
      BY <1>0, <1>6 DEF NoSocket, TaskControl
    <2> QED BY <1>0, <2>1 DEF Heard, Truthful
  <1>7. CASE Finish(w) \/ Begin(w)
    <2>1. /\ UNCHANGED <<cur, evs, next, accepted>> /\ pc[w] \notin {"events", "rc"}
          /\ pc'[w] # "events"
      BY <1>0, <1>7 DEF Finish, Begin, TypeOK
    <2>2. \A f \in Fds : sock'[f] = sock[f] \/ sock'[f] \in {Free, Epoll}
      BY <1>0, <1>7 DEF Finish, Begin, TypeOK
    <2>3. Truthful'
      BY <2>1, <2>2 DEF Truthful, Free, Epoll
    <2>4. Heard(w)'
      BY <2>1 DEF Heard
    <2> QED BY <2>1, <2>3, <2>4
  <1>8. CASE BeginNoEpoll(w) \/ Loop(w) \/ LaunchEnd(w) \/ EventsEnd(w) \/ SweepEnd(w)
    <2>1. UNCHANGED <<cur, next, accepted, sock, active, evs>>
          /\ (pc[w] = "events" => evs[w] = {})
      BY <1>8 DEF BeginNoEpoll, Loop, LaunchEnd, EventsEnd, SweepEnd
    <2> QED BY <2>1 DEF Heard, Truthful, Active
  <1> QED BY <1>1, <1>2, <1>3, <1>4, <1>5, <1>6, <1>7, <1>8 DEF WorkerStep

(* What a worker decides is counted in its result, and nobody else's.      *)
LEMMA SettledAgrees ==
    ASSUME TypeInv, ScanInv, NEW w \in Workers, WorkerStep(w), Settled1(w)
    PROVE  /\ \A u \in Workers : Agrees(out'[u], PortsOf(u), verdict')
           /\ \A u \in Workers \ {w} : \A p \in PortsOf(u) : verdict'[p] = verdict[p]
           /\ \A p \in Collected : verdict'[p] = verdict[p]
  <1>0. /\ TypeOK /\ pc[w] # "taken"
        /\ \A u \in Workers : Agrees(out[u], PortsOf(u), verdict)
    BY WorkerFrame DEF TypeInv, ScanInv, WorkerScan, Running
  <1>1. CASE UNCHANGED verdict /\ \A u \in Workers : Alike(out'[u], out[u])
    <2>1. \A u \in Workers : Agrees(out'[u], PortsOf(u), verdict')
      BY <1>0, <1>1, SameAgrees
    <2> QED BY <1>1, <2>1
  <1>2. CASE \E S \in SUBSET Port, v \in Decision : Settles(w, S, v)
    <2>1. PICK S \in SUBSET Port, v \in Decision : Settles(w, S, v)
      BY <1>2
    <2>2. S \in SUBSET PortsOf(w) /\ \A p \in S : verdict[p] = "none"
      BY <2>1 DEF Settles
    <2>3. \A p \in Port : verdict'[p] = IF p \in S THEN v ELSE verdict[p]
      BY <2>1 DEF Settles
    <2>4. ASSUME NEW u \in Workers \ {w}, NEW p \in PortsOf(u)
          PROVE  verdict'[p] = verdict[p]
      BY <2>2, <2>3, ShardPorts
    <2>5. \A p \in Collected : verdict'[p] = verdict[p]
      <3> SUFFICES ASSUME NEW p \in Collected PROVE verdict'[p] = verdict[p]
        OBVIOUS
      <3>1. PICK u \in Workers : pc[u] = "taken" /\ p \in PortsOf(u)
        BY DEF Collected
      <3> QED BY <1>0, <2>4, <3>1
    <2>6. ASSUME NEW u \in Workers PROVE Agrees(out'[u], PortsOf(u), verdict')
      <3>1. CASE u = w
        <4>1. out'[w] = Tallied(out[w], S, v)
          BY <1>0, <2>1 DEF Settles, TypeOK
        <4>2. \A p \in PortsOf(w) : verdict'[p] = IF p \in S THEN v ELSE verdict[p]
          BY <2>3, ShardPorts
        <4>3. IsFiniteSet(PortsOf(w)) /\ Agrees(out[w], PortsOf(w), verdict)
          BY <1>0, ShardPorts
        <4>4. Agrees(Tallied(out[w], S, v), PortsOf(w), verdict')
          BY <2>2, <4>2, <4>3, TalliedAgrees
        <4> QED BY <3>1, <4>1, <4>4
      <3>2. CASE u # w
        <4>1. out'[u] = out[u]
          BY <1>0, <2>1, <3>2 DEF Settles, TypeOK
        <4>2. Alike(out'[u], out[u])
          BY <4>1 DEF Alike
        <4> QED BY <1>0, <2>4, <3>2, <4>2, SameAgrees
      <3> QED BY <3>1, <3>2
    <2> QED BY <2>4, <2>5, <2>6
  <1> QED BY <1>1, <1>2 DEF Settled1

LEMMA ScanWorker ==
    ASSUME TypeInv, FdInv, CountInv, ScanInv, NEW w \in Workers, WorkerStep(w)
    PROVE  ScanInv' /\ Settled1(w)
  <1>0. Settled1(w)
    BY WorkerSettles
  <1>1. /\ TypeOK /\ Truthful /\ Ends /\ Agrees(total, Collected, verdict)
        /\ \A u \in Workers : Undecided(u) /\ Heard(u) /\ Places(u)
    BY DEF TypeInv, ScanInv, WorkerScan, CountInv
  <1>2. /\ \A u \in Workers : Agrees(out'[u], PortsOf(u), verdict')
        /\ \A u \in Workers \ {w} : \A p \in PortsOf(u) : verdict'[p] = verdict[p]
        /\ \A p \in Collected : verdict'[p] = verdict[p]
    BY <1>0, SettledAgrees
  <1>3. Heard(w)' /\ Truthful' /\ accepted \subseteq accepted'
    BY <1>1, WorkerHeard
  <1>4. Undecided(w)'
    BY <1>1, WorkerUndecided
  <1>5. ASSUME NEW u \in Workers \ {w} PROVE Undecided(u)' /\ Heard(u)'
    <2>1. /\ pc'[u] = pc[u] /\ next'[u] = next[u] /\ cur'[u] = cur[u]
          /\ active'[u] = active[u] /\ evs'[u] = evs[u] /\ Active(u)' = Active(u)
      BY <1>1, WorkerFrame DEF Active
    <2>2. \A f \in Active(u) : active[u][f].port \in PortsOf(u)
      BY <1>1, PendingUndecided
    <2>3. Undecided(u)'
      BY <1>1, <1>2, <2>1, <2>2 DEF Undecided, PortsOf
    <2>4. \A f \in Active(u) : sock'[f] = sock[f]
      <3> SUFFICES ASSUME NEW f \in Active(u) PROVE sock'[f] = sock[f]
        OBVIOUS
      <3>1. f \in Fds /\ Holds(u, f)
        BY DEF Active, Holds
      <3>2. sock[f].st # "free" /\ ~Holds(w, f)
        BY <3>1 DEF FdInv, DescriptorsOwned
      <3> QED BY <3>1, <3>2, SockFrame
    <2>5. Heard(u)'
      BY <1>1, <1>3, <2>1, <2>4 DEF Heard
    <2> QED BY <2>3, <2>5
  <1>6. /\ UNCHANGED collectorVars
        /\ \A u \in Workers : pc'[u] = "taken" <=> pc[u] = "taken"
    BY <1>1, WorkerFrame DEF Running
  <1>7. Agrees(total', Collected', verdict')
    <2>1. Collected' = Collected /\ total' = total
      BY <1>6 DEF Collected, collectorVars
    <2> QED BY <1>1, <1>2, <2>1, SameAgrees DEF Alike
  <1>8. Ends'
    BY <1>1, <1>6 DEF Ends, collectorVars
  <1>9. \A u \in Workers : WorkerScan(u)'
    BY <1>2, <1>3, <1>4, <1>5 DEF WorkerScan
  <1> QED BY <1>0, <1>3, <1>7, <1>8, <1>9 DEF ScanInv

(* Steps that change no verdict, result or shard.                          *)
LEMMA SameScan ==
    ASSUME TypeInv, ScanInv, UNCHANGED <<next, cur, evs, out, verdict>>,
           \A w \in Workers : /\ pc'[w] \in {"ready", "taken"} <=> pc[w] \in {"ready", "taken"}
                              /\ pc'[w] = "events" <=> pc[w] = "events",
           \A w \in Workers : /\ Active(w)' = Active(w)
                              /\ \A f \in Active(w) : active'[w][f].port = active[w][f].port,
           \A f \in Fds : sock[f].st \in Settled => sock'[f].st \in Settled,
           accepted \subseteq accepted'
    PROVE  \A w \in Workers : WorkerScan(w)'
  <1> SUFFICES ASSUME NEW w \in Workers PROVE WorkerScan(w)'
    OBVIOUS
  <1>1. Agrees(out[w], PortsOf(w), verdict) /\ Undecided(w) /\ Heard(w)
    BY DEF ScanInv, WorkerScan
  <1>2. Agrees(out[w], PortsOf(w), verdict)'
    BY <1>1
  <1>3. Undecided(w)'
    BY <1>1 DEF Undecided
  <1>4. Heard(w)'
    BY <1>1 DEF Heard, Active
  <1> QED BY <1>2, <1>3, <1>4 DEF WorkerScan

LEMMA ScanCollector ==
    ASSUME TypeInv, ScanInv, CollectorStep
    PROVE  ScanInv' /\ UNCHANGED <<accepted, verdict>>
  <1>0. /\ TypeOK /\ Truthful /\ Ends /\ Agrees(total, Collected, verdict)
        /\ UNCHANGED <<next, active, cur, evs, out, sock, accepted, verdict>>
    BY DEF TypeInv, ScanInv, CollectorStep, Submit, Poll, Watch, Return, Goto,
           workerVars, collectorVars
  <1>1. Truthful'
    BY <1>0 DEF Truthful
  <1>2. \A w \in Workers : /\ Active(w)' = Active(w)
                           /\ \A f \in Active(w) : active'[w][f].port = active[w][f].port
    BY <1>0 DEF Active
  <1>3. CASE Submit
    <2>1. ci \in Workers /\ pc[ci] = "new" /\ pc' = [pc EXCEPT ![ci] = "queued"]
      BY <1>0, <1>3, SizesAssumption
         DEF Submit, Goto, TypeOK, TypeInv, Control, Submitting, Workers
    <2>2. \A w \in Workers : /\ pc'[w] \in {"ready", "taken"} <=> pc[w] \in {"ready", "taken"}
                             /\ pc'[w] = "events" <=> pc[w] = "events"
                             /\ pc'[w] = "taken" <=> pc[w] = "taken"
      BY <1>0, <2>1 DEF TypeOK
    <2>3. \A w \in Workers : WorkerScan(w)'
      BY <1>0, <1>2, <2>2, SameScan
    <2>4. Agrees(total, Collected, verdict)'
      <3>1. Collected' = Collected /\ total' = total /\ verdict' = verdict
        BY <1>0, <1>3, <2>2 DEF Collected, Submit
      <3> QED BY <1>0, <3>1
    <2>5. Ends'
      BY <1>0, <1>3 DEF Ends, Submit
    <2> QED BY <1>0, <1>1, <2>3, <2>4, <2>5 DEF ScanInv
  <1>4. CASE Poll /\ pc[ci] = "ready"
    <2>1. /\ ci \in Workers /\ pc' = [pc EXCEPT ![ci] = "taken"]
          /\ total' = Merged(total, out[ci]) /\ UNCHANGED <<cpc, report>> /\ cpc = "poll"
      BY <1>0, <1>4, SizesAssumption DEF Poll, Goto, TypeOK, Workers
    <2>2. \A w \in Workers : /\ pc'[w] \in {"ready", "taken"} <=> pc[w] \in {"ready", "taken"}
                             /\ pc'[w] = "events" <=> pc[w] = "events"
                             /\ pc'[w] = "taken" <=> w = ci \/ pc[w] = "taken"
      BY <1>0, <1>4, <2>1 DEF TypeOK
    <2>3. \A w \in Workers : WorkerScan(w)'
      BY <1>0, <1>2, <2>2, SameScan
    <2>4. Agrees(total', Collected', verdict')
      <3>1. Collected' = Collected \cup PortsOf(ci)
        BY <2>1, <2>2, ShardPorts DEF Collected
      <3>2. Collected \cap PortsOf(ci) = {}
        <4> SUFFICES ASSUME NEW u \in Workers, pc[u] = "taken",
                            NEW p \in PortsOf(u) \cap PortsOf(ci)
                     PROVE  FALSE
          BY DEF Collected
        <4> QED BY <1>4, <2>1, ShardPorts
      <3>3. IsFiniteSet(Collected) /\ IsFiniteSet(PortsOf(ci))
        BY <2>1, ShardPorts, AllPorts, FS_Subset DEF Collected
      <3>4. Agrees(out[ci], PortsOf(ci), verdict)
        BY <2>1 DEF ScanInv, WorkerScan
      <3>5. Agrees(Merged(total, out[ci]), Collected \cup PortsOf(ci), verdict)
        BY <1>0, <3>2, <3>3, <3>4, MergedAgrees
      <3> QED BY <1>0, <2>1, <3>1, <3>5
    <2>5. Ends'
      BY <1>0, <2>1 DEF Ends
    <2>6. Agrees(total, Collected, verdict)'
      BY <2>4
    <2> QED BY <1>0, <1>1, <2>3, <2>5, <2>6 DEF ScanInv
  <1>5. CASE Watch \/ Return \/ (Poll /\ pc[ci] # "ready")
    <2>1. UNCHANGED <<pc, total>>
      BY <1>5 DEF Watch, Return, Poll, workerVars
    <2>2. \A w \in Workers : WorkerScan(w)'
      BY <1>0, <1>2, <2>1, SameScan
    <2>3. Agrees(total, Collected, verdict)'
      <3>1. Collected' = Collected
        BY <2>1 DEF Collected
      <3> QED BY <1>0, <2>1, <3>1
    <2>4. Ends'
      BY <1>0, <1>5, <2>1 DEF Ends, Watch, Return, Poll
    <2> QED BY <1>0, <1>1, <2>2, <2>3, <2>4 DEF ScanInv
  <1> QED BY <1>0, <1>3, <1>4, <1>5 DEF CollectorStep

LEMMA ScanEnvironment ==
    ASSUME TypeInv, ScanInv, Kernel \/ Tick \/ Over \/ UNCHANGED vars
    PROVE  ScanInv'
  <1> USE DEF workerVars, collectorVars
  <1>0. /\ TypeOK /\ Truthful /\ Ends /\ Agrees(total, Collected, verdict)
        /\ UNCHANGED <<pc, next, cur, evs, out, cpc, total, report, verdict>>
    BY DEF TypeInv, ScanInv, Kernel, Answer, Reset, Tick, Over, vars
  <1>1. /\ \A f \in Fds : sock[f].st \in Settled => sock'[f].st \in Settled
        /\ accepted \subseteq accepted' /\ Truthful'
    <2>1. CASE UNCHANGED <<sock, accepted>>
      BY <1>0, <2>1 DEF Truthful
    <2>2. ASSUME NEW f \in Fds, Answer(f)
          PROVE  /\ \A g \in Fds : sock[g].st \in Settled => sock'[g].st \in Settled
                 /\ accepted \subseteq accepted' /\ Truthful'
      <3>1. PICK s \in Settled :
               /\ sock' = [sock EXCEPT ![f].st = s]
               /\ accepted' = IF s = "accepted" THEN accepted \cup {sock[f].port} ELSE accepted
        BY <2>2 DEF Answer
      <3>2. /\ sock'[f].st = s /\ sock'[f].port = sock[f].port
            /\ \A g \in Fds \ {f} : sock'[g] = sock[g]
        BY <1>0, <3>1 DEF TypeOK, Free, Epoll
      <3> QED BY <1>0, <3>1, <3>2 DEF Truthful
    <2>3. ASSUME NEW f \in Fds, Reset(f)
          PROVE  /\ \A g \in Fds : sock[g].st \in Settled => sock'[g].st \in Settled
                 /\ accepted \subseteq accepted' /\ Truthful'
      <3>1. sock' = [sock EXCEPT ![f].st = "failed"] /\ accepted' = accepted
        BY <2>3 DEF Reset
      <3>2. /\ sock'[f].st = "failed"
            /\ \A g \in Fds \ {f} : sock'[g] = sock[g]
        BY <1>0, <3>1 DEF TypeOK, Free, Epoll
      <3> QED BY <1>0, <3>1, <3>2 DEF Truthful, Settled
    <2> QED BY <2>1, <2>2, <2>3 DEF Kernel, Tick, Over, vars
  <1>2. \A w \in Workers : /\ Active(w)' = Active(w)
                           /\ \A f \in Active(w) : active'[w][f].port = active[w][f].port
    <2>1. CASE active' = active
      BY <2>1 DEF Active
    <2>2. CASE Tick
      BY <1>0, <2>2, OlderType DEF Tick, TypeOK, Active
    <2> QED BY <2>1, <2>2 DEF Kernel, Answer, Reset, Over, vars
  <1>3. \A w \in Workers : WorkerScan(w)'
    BY <1>0, <1>1, <1>2, SameScan
  <1>4. Agrees(total, Collected, verdict)'
    <2>1. Collected' = Collected
      BY <1>0 DEF Collected
    <2> QED BY <1>0, <2>1
  <1>5. Ends'
    BY <1>0 DEF Ends
  <1> QED BY <1>1, <1>3, <1>4, <1>5 DEF ScanInv

LEMMA ScanInvStep == TypeInv /\ FdInv /\ CountInv /\ ScanInv /\ [Next]_vars => ScanInv'
  BY ScanWorker, ScanCollector, ScanEnvironment DEF Next, System

-----------------------------------------------------------------------------
LEMMA SameCardinality ==
    ASSUME NEW S
    PROVE  Scan!Cardinality(S) = Cardinality(S)
  BY Zenon DEF Scan!Cardinality, Cardinality

(* A worker only steps while the report is outstanding.                    *)
LEMMA SettledScans ==
    ASSUME TypeInv, ScanInv, NEW w \in Workers, WorkerStep(w), Settled1(w)
    PROVE  [Scan!ScanNext]_(Scan!scanVars)
  <1>1. report = NoReport /\ report' = report
    <2>1. pc[w] # "taken"
      BY WorkerFrame DEF TypeInv, Running
    <2>2. cpc # "done"
      BY <2>1 DEF ScanInv, Ends
    <2> QED BY <2>2, WorkerFrame DEF TypeInv, ScanInv, Ends, collectorVars
  <1>2. CASE \E S \in SUBSET Port, v \in Decision : Settles(w, S, v)
    <2>1. PICK S \in SUBSET Port, v \in Decision : Settles(w, S, v)
      BY <1>2
    <2>2. CASE S = {}
      <3>1. verdict' = verdict /\ accepted' = accepted
        BY <2>1, <2>2 DEF Settles, TypeInv, TypeOK
      <3> QED BY <1>1, <3>1 DEF Scan!scanVars
    <2>3. CASE S # {}
      <3>1. Scan!Decide(S, v)
        BY <1>1, <2>1, <2>3 DEF Settles, Scan!Decide
      <3>2. v \in Scan!Verdict \ {"none"}
        BY DEF Scan!Verdict, Decision
      <3> QED BY <3>1, <3>2 DEF Scan!ScanNext
    <2> QED BY <2>2, <2>3
  <1>3. CASE /\ UNCHANGED verdict
             /\ accepted' = accepted \/ \E p \in Port : accepted' = accepted \cup {p}
    <2>1. UNCHANGED Scan!scanVars \/ \E p \in Port : Scan!Accept(p)
      BY <1>1, <1>3 DEF Scan!scanVars, Scan!Accept
    <2> QED BY <2>1 DEF Scan!ScanNext
  <1> QED BY <1>2, <1>3 DEF Settled1

LEMMA ReturnScans ==
    ASSUME TypeInv, ScanInv, Return
    PROVE  [Scan!ScanNext]_(Scan!scanVars)
  <1>1. /\ report' = [open     |-> total.open,
                      scanned  |-> total.scanned,
                      timeouts |-> total.timeouts,
                      refused  |-> total.refused,
                      other    |-> total.other,
                      skipped  |-> total.aborted \/ total.scanned < Cardinality(Port)]
        /\ report = NoReport /\ UNCHANGED <<verdict, accepted>>
        /\ \A w \in Workers : pc[w] = "taken"
    BY DEF Return, ScanInv, Ends
  <1>2. Collected = Port
    BY <1>1, AllPorts DEF Collected
  <1>3. Agrees(total, Port, verdict)
    BY <1>2 DEF ScanInv
  <1> DEFINE skipped == total.aborted \/ total.scanned < Cardinality(Port)
  <1>4. \A v : Scan!With(v) = Valued(Port, verdict, v)
    BY DEF Valued, Scan!With
  <1>5. Valued(Port, verdict, "none") # {} => total.scanned < Cardinality(Port)
    <2> DEFINE N == Valued(Port, verdict, "none")
    <2>1. N \in SUBSET Port /\ Port \ N \in SUBSET Port
      BY DEF Valued
    <2>2. /\ Cardinality(Port \ N) <= Cardinality(Port)
          /\ Cardinality(Port) = Cardinality(Port \ N) => Port = Port \ N
      BY <2>1, AllPorts, FS_Subset
    <2>3. Cardinality(Port) \in Nat /\ Cardinality(Port \ N) \in Nat
      BY <2>1, AllPorts, FS_Subset, FS_CardinalityType
    <2>4. N # {} => Port # Port \ N
      BY <2>1
    <2>5. total.scanned = Cardinality(Port \ N)
      BY <1>3 DEF Agrees
    <2> HIDE DEF N
    <2>6. N # {} => total.scanned < Cardinality(Port)
      BY <2>2, <2>3, <2>4, <2>5
    <2> QED BY <2>6 DEF N
  <1>6. skipped \in BOOLEAN /\ (Scan!With("none") # {} => skipped)
    BY <1>4, <1>5 DEF TypeInv, TypeOK, WorkerResult
  <1> HIDE DEF skipped
  <1>7. report' = [open     |-> Scan!With("open"),
                   scanned  |-> Scan!Cardinality(Port \ Scan!With("none")),
                   timeouts |-> Scan!Cardinality(Scan!With("timeout")),
                   refused  |-> Scan!Cardinality(Scan!With("refused")),
                   other    |-> Scan!Cardinality(Scan!With("other")),
                   skipped  |-> skipped]
    BY <1>1, <1>3, <1>4, SameCardinality DEF Agrees, skipped
  <1>8. Scan!Report
    BY <1>1, <1>6, <1>7, Zenon DEF Scan!Report
  <1> QED BY <1>8 DEF Scan!ScanNext

LEMMA AnswerScans ==
    ASSUME TypeInv, FdInv, ScanInv, NEW f \in Fds, Answer(f)
    PROVE  [Scan!ScanNext]_(Scan!scanVars)
  <1>1. sock[f].port \in Port
    BY DEF Answer, TypeInv, TypeOK, Free, Epoll
  <1>2. cpc # "done"
    <2>1. PICK w \in Workers : Holds(w, f)
      BY DEF Answer, FdInv, DescriptorsOwned
    <2>2. pc[w] # "taken"
      BY <2>1 DEF TypeInv, Control, TaskControl, Holds, Running, NoLaunch, Fds
    <2> QED BY <2>2 DEF ScanInv, Ends
  <1>3. /\ accepted' = accepted \/ accepted' = accepted \cup {sock[f].port}
        /\ UNCHANGED <<verdict, report>> /\ report = NoReport
    BY <1>2 DEF Answer, collectorVars, ScanInv, Ends
  <1>4. UNCHANGED Scan!scanVars \/ Scan!Accept(sock[f].port)
    BY <1>3 DEF Scan!scanVars, Scan!Accept
  <1> QED BY <1>1, <1>4 DEF Scan!ScanNext

LEMMA ScanStep ==
    TypeInv /\ FdInv /\ CountInv /\ ScanInv /\ [Next]_vars => [Scan!ScanNext]_(Scan!scanVars)
  <1> SUFFICES ASSUME TypeInv, FdInv, CountInv, ScanInv, [Next]_vars
               PROVE  [Scan!ScanNext]_(Scan!scanVars)
    OBVIOUS
  <1>1. ASSUME NEW w \in Workers, WorkerStep(w) PROVE [Scan!ScanNext]_(Scan!scanVars)
    BY <1>1, ScanWorker, SettledScans
  <1>2. CASE CollectorStep /\ ~Return
    <2>1. UNCHANGED <<verdict, accepted, report>>
      BY <1>2 DEF CollectorStep, Submit, Poll, Watch
    <2> QED BY <2>1 DEF Scan!scanVars
  <1>3. CASE Tick \/ Over \/ (\E f \in Fds : Reset(f)) \/ UNCHANGED vars
    BY <1>3 DEF Tick, Over, Reset, vars, collectorVars, Scan!scanVars
  <1> QED BY <1>1, <1>2, <1>3, ReturnScans, AnswerScans DEF Next, System, Kernel, CollectorStep

(* The connect scan implements PortScan, for any shards and sizes: however *)
(* the workers interleave, descriptors are reused and run out, and         *)
(* whenever the watchdog stops the scan, a port gets one verdict, "open"   *)
(* is only said of one whose connection the target accepted, and the       *)
(* report agrees with the verdicts and announces gaps.                     *)
THEOREM ConnectImplementsPortScan == Spec => RefinesPortScan
  <1>1. Init => Scan!ScanInit
    BY DEF Init, Scan!ScanInit
  <1> QED BY <1>1, InitTypeInv, InitFdInv, InitCountInv, InitScanInv, TypeStep, FdStep,
             CountStep, ScanInvStep, ScanStep, PTL DEF Spec, RefinesPortScan, Scan!ScanSpec

-----------------------------------------------------------------------------
(* Windows.  A worker holds its epoll instance and at most MaxInflight     *)
(* sockets, so what ScanSizing grants the workers together is enough.      *)

LEMMA OneMore ==
    ASSUME NEW S, IsFiniteSet(S), NEW x
    PROVE  /\ IsFiniteSet(S \cup {x})
           /\ Cardinality(S) \in Nat /\ Cardinality(S \cup {x}) \in Nat
           /\ Cardinality(S \cup {x}) <= Cardinality(S) + 1
  <1>1. IsFiniteSet(S \cup {x}) /\ Cardinality(S) \in Nat /\ Cardinality(S \cup {x}) \in Nat
    BY FS_AddElement, FS_CardinalityType
  <1>2. Cardinality(S \cup {x}) = IF x \in S THEN Cardinality(S) ELSE Cardinality(S) + 1
    BY FS_AddElement
  <1> QED BY <1>1, <1>2

LEMMA Together ==
    ASSUME NEW S, IsFiniteSet(S), NEW T, IsFiniteSet(T)
    PROVE  /\ IsFiniteSet(S \cup T)
           /\ Cardinality(S) \in Nat /\ Cardinality(T) \in Nat
           /\ Cardinality(S \cup T) \in Nat
           /\ Cardinality(S \cup T) <= Cardinality(S) + Cardinality(T)
  <1>1. /\ IsFiniteSet(S \cup T)
        /\ Cardinality(S \cup T) = Cardinality(S) + Cardinality(T) - Cardinality(S \cap T)
    BY FS_Union
  <1>2. IsFiniteSet(S \cap T)
    BY FS_Intersection
  <1>3. /\ Cardinality(S) \in Nat /\ Cardinality(T) \in Nat
        /\ Cardinality(S \cup T) \in Nat /\ Cardinality(S \cap T) \in Nat
    BY <1>1, <1>2, FS_CardinalityType
  <1> QED BY <1>1, <1>3

(* A worker's window is never overrun, and has room for the connect that   *)
(* is under way.                                                           *)
WindowInv ==
    \A w \in Workers :
       /\ Cardinality(Active(w)) <= MaxInflight
       /\ pc[w] = "rc" => Cardinality(Active(w)) < MaxInflight

LEMMA InitWindowInv == Init => WindowInv
  <1> SUFFICES ASSUME Init, NEW w \in Workers
               PROVE  Cardinality(Active(w)) <= MaxInflight /\ pc[w] # "rc"
    BY DEF WindowInv
  <1>1. Active(w) = {} /\ pc[w] = "new"
    BY DEF Init, Active
  <1> QED BY <1>1, FS_EmptySet, SizesAssumption

(* Only a launch adds an entry, and it adds one.                           *)
LEMMA WindowWorker ==
    ASSUME TypeInv, WindowInv, NEW w \in Workers, WorkerStep(w)
    PROVE  /\ Cardinality(Active(w)') <= MaxInflight
           /\ pc'[w] = "rc" => Cardinality(Active(w)') < MaxInflight
  <1> USE SizesAssumption DEF TypeInv, TypeOK, Goto
  <1>1. IsFiniteSet(Active(w)) /\ Cardinality(Active(w)) \in Nat
    BY ActiveFinite
  <1>2. Cardinality(Active(w)) <= MaxInflight
    BY DEF WindowInv
  <1>3. CASE pc'[w] # "rc" /\ Active(w)' \subseteq Active(w)
    <2>1. PICK T : T = Active(w)'
      OBVIOUS
    <2>2. T \subseteq Active(w)
      BY <1>3, <2>1
    <2>3. Cardinality(T) <= Cardinality(Active(w)) /\ Cardinality(T) \in Nat
      BY <1>1, <2>2, FS_Subset, FS_CardinalityType
    <2> QED BY <1>1, <1>2, <1>3, <2>1, <2>3
  <1>4. CASE Connect(w)
    <2>1. Active(w)' = Active(w)
      BY <1>4 DEF Connect, Active
    <2>2. Cardinality(Active(w)) < MaxInflight
      BY <1>4 DEF Connect, CanLaunch
    <2> QED BY ONLY <1>1, <1>2, <2>1, <2>2
  <1>5. CASE Launched(w)
    <2>1. pc[w] = "rc" /\ pc'[w] = "launch"
      BY <1>5 DEF Launched
    <2>2. Cardinality(Active(w)) < MaxInflight
      BY <2>1 DEF WindowInv
    <2>3. CASE UNCHANGED active
      BY <1>3, <2>1, <2>3 DEF Active
    <2>4. CASE \E e : active' = [active EXCEPT ![w][cur[w].fd] = e]
      <3>1. Active(w)' \subseteq Active(w) \cup {cur[w].fd}
        BY <2>4 DEF Active
      <3>2. PICK T : T = Active(w)'
        OBVIOUS
      <3>3. PICK B : B = Active(w) \cup {cur[w].fd}
        OBVIOUS
      <3>4. IsFiniteSet(B) /\ Cardinality(B) \in Nat /\ Cardinality(B) <= Cardinality(Active(w)) + 1
        BY <1>1, <3>3, OneMore
      <3>5. Cardinality(T) <= Cardinality(B) /\ Cardinality(T) \in Nat
        BY <3>1, <3>2, <3>3, <3>4, FS_Subset, FS_CardinalityType
      <3> QED BY <1>1, <2>1, <2>2, <3>2, <3>4, <3>5
    <2> QED BY <1>5, <2>3, <2>4 DEF Launched
  <1>6. CASE BeginNoEpoll(w)
    BY <1>3, <1>6 DEF BeginNoEpoll, Active
  <1>7. CASE Begin(w)
    BY <1>3, <1>7 DEF Begin, Active
  <1>8. CASE Loop(w)
    BY <1>3, <1>8 DEF Loop, Active
  <1>9. CASE NoSocket(w)
    BY <1>3, <1>9 DEF NoSocket, Active
  <1>10. CASE LaunchEnd(w)
    BY <1>3, <1>10 DEF LaunchEnd, Active
  <1>11. CASE Wait(w)
    BY <1>3, <1>11 DEF Wait, Active
  <1>12. CASE Event(w)
    <2>1. pc'[w] = "events"
      BY <1>12 DEF Event
    <2>2. Active(w)' \subseteq Active(w)
      <3>1. UNCHANGED active \/ \E f \in Active(w) : active' = [active EXCEPT ![w][f] = NoEntry]
        BY <1>12 DEF Event
      <3> QED BY <3>1 DEF Active
    <2> QED BY <1>3, <2>1, <2>2
  <1>13. CASE EventsEnd(w)
    BY <1>3, <1>13 DEF EventsEnd, Active
  <1>14. CASE Sweep(w)
    <2>1. pc'[w] = "sweep" /\ \E f \in Active(w) : active' = [active EXCEPT ![w][f] = NoEntry]
      BY <1>14 DEF Sweep
    <2>2. Active(w)' \subseteq Active(w)
      BY <2>1 DEF Active
    <2> QED BY <1>3, <2>1, <2>2
  <1>15. CASE SweepEnd(w)
    BY <1>3, <1>15 DEF SweepEnd, Active
  <1>16. CASE Finish(w)
    <2>1. pc'[w] = "ready" /\ Active(w)' = {}
      BY <1>16 DEF Finish, Active
    <2> QED BY <1>3, <2>1
  <1> QED BY <1>4, <1>5, <1>6, <1>7, <1>8, <1>9, <1>10, <1>11, <1>12, <1>13,
             <1>14, <1>15, <1>16 DEF WorkerStep

LEMMA WindowStep == TypeInv /\ WindowInv /\ [Next]_vars => WindowInv'
  <1> SUFFICES ASSUME TypeInv, WindowInv, [Next]_vars PROVE WindowInv' OBVIOUS
  <1>1. CASE \A w \in Workers : Active(w)' = Active(w) /\ (pc'[w] = "rc" => pc[w] = "rc")
    BY <1>1 DEF WindowInv
  <1>2. ASSUME NEW w \in Workers, WorkerStep(w) PROVE WindowInv'
    <2>1. \A v \in Workers \ {w} : Active(v)' = Active(v) /\ pc'[v] = pc[v]
      BY <1>2, WorkerFrame DEF TypeInv, Active
    <2> QED BY <1>2, <2>1, WindowWorker DEF WindowInv
  <1>3. CASE CollectorStep
    <2>1. UNCHANGED active /\ \A w \in Workers : pc'[w] = "rc" => pc[w] = "rc"
      BY <1>3 DEF CollectorStep, Submit, Poll, Watch, Return, Goto, TypeInv, TypeOK, workerVars
    <2> QED BY <1>1, <2>1 DEF Active
  <1>4. CASE Kernel \/ UNCHANGED vars
    BY <1>1, <1>4 DEF Kernel, Answer, Reset, vars, workerVars, Active
  <1>5. CASE Tick
    <2>1. UNCHANGED pc /\ \A w \in Workers, f \in Fds : active'[w][f] = Older(active[w][f])
      BY <1>5 DEF Tick
    <2>2. \A w \in Workers : Active(w)' = Active(w)
      BY <2>1, OlderType DEF Active, TypeInv, TypeOK
    <2> QED BY <1>1, <2>1, <2>2
  <1> QED BY <1>2, <1>3, <1>4, <1>5 DEF Next, System, Over

(* A family of sets of at most k elements each.                            *)
LEMMA FamilyBound ==
    ASSUME NEW S, IsFiniteSet(S), NEW F, NEW k \in Nat,
           \A x \in S : IsFiniteSet(F[x]) /\ Cardinality(F[x]) <= k
    PROVE  /\ IsFiniteSet(UNION {F[x] : x \in S})
           /\ Cardinality(UNION {F[x] : x \in S}) <= Cardinality(S) * k
  <1> DEFINE All(T) == UNION {F[x] : x \in T}
             Right(T) == IsFiniteSet(All(T)) /\ Cardinality(All(T)) <= Cardinality(T) * k
             Wrong == {T \in SUBSET S : ~Right(T)}
  <1>1. ASSUME Wrong # {} PROVE FALSE
    <2>1. PICK T \in Wrong : \A U \in Wrong : ~(<<U, T>> \in StrictSubsetOrdering(S))
      <3>1. IsWellFoundedOn(StrictSubsetOrdering(S), SUBSET S)
        BY FS_StrictSubsetOrderingWellFounded, FS_FiniteSubsetsOfFinite
      <3>2. Wrong \subseteq SUBSET S
        OBVIOUS
      <3> HIDE DEF Wrong
      <3> QED BY <1>1, <3>1, <3>2, WFMin
    <2>2. T \in SUBSET S /\ ~Right(T) /\ IsFiniteSet(T)
      BY <2>1, FS_Subset
    <2>3. CASE T = {}
      <3>1. All(T) = {}
        BY <2>3
      <3> HIDE DEF All
      <3>2. IsFiniteSet(All(T)) /\ Cardinality(All(T)) = 0 /\ Cardinality(T) = 0
        BY <2>3, <3>1, FS_EmptySet
      <3> QED BY <2>2, <3>2
    <2>4. ASSUME NEW x \in T PROVE FALSE
      <3> DEFINE U == T \ {x}
      <3>1. U \in SUBSET S /\ <<U, T>> \in StrictSubsetOrdering(S)
        BY <2>2 DEF StrictSubsetOrdering
      <3>2. Right(U)
        BY <2>1, <3>1
      <3>3. Cardinality(U) = Cardinality(T) - 1 /\ Cardinality(T) \in Nat
        BY <2>2, FS_RemoveElement, FS_CardinalityType
      <3>4. All(T) = All(U) \cup F[x]
        OBVIOUS
      <3>5. IsFiniteSet(F[x]) /\ Cardinality(F[x]) <= k
        BY <2>2
      <3>6. IsFiniteSet(All(U)) /\ Cardinality(All(U)) <= Cardinality(U) * k
        BY <3>2
      <3> HIDE DEF All
      <3>7. /\ IsFiniteSet(All(T))
            /\ Cardinality(All(T)) <= Cardinality(All(U)) + Cardinality(F[x])
        BY <3>4, <3>5, <3>6, Together
      <3>8. /\ Cardinality(All(U)) \in Nat /\ Cardinality(All(T)) \in Nat
            /\ Cardinality(F[x]) \in Nat
        BY <3>5, <3>6, <3>7, FS_CardinalityType
      <3>9. \A c \in Nat : (c - 1) * k + k = c * k /\ (c - 1) * k \in Int
        OBVIOUS
      <3>10. Cardinality(All(T)) <= Cardinality(T) * k
        BY <3>3, <3>5, <3>6, <3>7, <3>8, <3>9
      <3> QED BY <2>2, <3>7, <3>10
    <2> QED BY <2>3, <2>4
  <1> QED BY <1>1

(* The descriptors of a worker: at most a full window and its epoll set.   *)
HeldBy(w) == {f \in Fds : Holds(w, f)}

LEMMA HeldFew ==
    ASSUME TypeInv, WindowInv, NEW w \in Workers
    PROVE  /\ IsFiniteSet(HeldBy(w))
           /\ Cardinality(HeldBy(w)) <= MaxInflight + 1
           /\ pc[w] = "queued" \/ (pc[w] = "launch" /\ CanLaunch(w))
                 => Cardinality(HeldBy(w)) <= MaxInflight
  <1> USE SizesAssumption
  <1>1. IsFiniteSet(Active(w)) /\ Cardinality(Active(w)) \in Nat
    BY ActiveFinite DEF TypeInv
  <1>2. /\ IsFiniteSet(Active(w) \cup {epfd[w]})
        /\ Cardinality(Active(w) \cup {epfd[w]}) \in Nat
        /\ Cardinality(Active(w) \cup {epfd[w]}) <= Cardinality(Active(w)) + 1
    BY <1>1, OneMore
  <1>3. /\ IsFiniteSet(Active(w) \cup {epfd[w]} \cup {cur[w].fd})
        /\ Cardinality(Active(w) \cup {epfd[w]} \cup {cur[w].fd}) \in Nat
        /\ Cardinality(Active(w) \cup {epfd[w]} \cup {cur[w].fd}) <= Cardinality(Active(w)) + 2
    <2>1. PICK B : B = Active(w) \cup {epfd[w]}
      OBVIOUS
    <2>2. /\ IsFiniteSet(B \cup {cur[w].fd}) /\ Cardinality(B \cup {cur[w].fd}) \in Nat
          /\ Cardinality(B \cup {cur[w].fd}) <= Cardinality(B) + 1
      BY <1>2, <2>1, OneMore
    <2> QED BY <1>1, <1>2, <2>1, <2>2
  <1>4. HeldBy(w) \subseteq Active(w) \cup {epfd[w]} \cup {cur[w].fd}
    BY DEF HeldBy, Holds
  <1>5. IsFiniteSet(HeldBy(w)) /\ Cardinality(HeldBy(w)) \in Nat
        /\ Cardinality(HeldBy(w)) <= Cardinality(Active(w)) + 2
    BY <1>1, <1>3, <1>4, FS_Subset, FS_CardinalityType
  <1>6. CASE pc[w] = "rc"
    <2>1. Cardinality(Active(w)) < MaxInflight
      BY <1>6 DEF WindowInv
    <2> QED BY <1>1, <1>5, <1>6, <2>1
  <1>7. CASE pc[w] # "rc"
    <2>1. cur[w].fd = 0
      BY <1>7 DEF TypeInv, Control, TaskControl, NoLaunch
    <2>2. HeldBy(w) \subseteq Active(w) \cup {epfd[w]}
      BY <2>1 DEF HeldBy, Holds, Fds
    <2>3. Cardinality(HeldBy(w)) <= Cardinality(Active(w)) + 1
      BY <1>1, <1>2, <1>5, <2>2, FS_Subset
    <2>4. Cardinality(Active(w)) <= MaxInflight
      BY DEF WindowInv
    <2>5. CanLaunch(w) => Cardinality(Active(w)) < MaxInflight
      BY DEF CanLaunch
    <2>6. pc[w] = "queued" => Active(w) = {}
      BY DEF TypeInv, Control, TaskControl, Running
    <2>7. pc[w] = "queued" => Cardinality(Active(w)) = 0
      BY <2>6, FS_EmptySet
    <2> QED BY <1>1, <1>5, <2>3, <2>4, <2>5, <2>7
  <1> QED BY <1>6, <1>7

(* A worker that is about to open a descriptor gets one.                   *)
DescriptorsSuffice ==
    \A w \in Workers :
       pc[w] = "queued" \/ (pc[w] = "launch" /\ CanLaunch(w)) => FreeFds # {}

(* With the descriptors that ScanSizing leaves for it (DescriptorsFit: a   *)
(* full window and an epoll instance for each worker), no connect and no   *)
(* worker of a scan fails for want of one, however the workers interleave: *)
(* no port is put down as `other` because the scan itself used up the      *)
(* descriptors.                                                            *)
THEOREM DescriptorsAlwaysSuffice ==
    ASSUME NFds >= NWorkers * (MaxInflight + 1)
    PROVE  Spec => []DescriptorsSuffice
  <1>1. TypeInv /\ FdInv /\ WindowInv => DescriptorsSuffice
    <2> SUFFICES ASSUME TypeInv, FdInv, WindowInv, NEW w \in Workers,
                        pc[w] = "queued" \/ (pc[w] = "launch" /\ CanLaunch(w)),
                        FreeFds = {}
                 PROVE  FALSE
      BY DEF DescriptorsSuffice
    <2> USE SizesAssumption
    <2> DEFINE Rest == Workers \ {w}
               held == [v \in Workers |-> HeldBy(v)]
               others == UNION {held[v] : v \in Rest}
    <2>1. IsFiniteSet(Workers) /\ Cardinality(Workers) = NWorkers
      BY FS_Interval DEF Workers
    <2>2. IsFiniteSet(Rest) /\ Cardinality(Rest) = NWorkers - 1
      BY <2>1, FS_RemoveElement
    <2>3. IsFiniteSet(others) /\ Cardinality(others) <= (NWorkers - 1) * (MaxInflight + 1)
      <3>1. \A v \in Rest : IsFiniteSet(held[v]) /\ Cardinality(held[v]) <= MaxInflight + 1
        BY HeldFew
      <3>2. MaxInflight + 1 \in Nat
        OBVIOUS
      <3>3. PICK k \in Nat : k = MaxInflight + 1
        BY <3>2
      <3> HIDE DEF held, Rest
      <3>4. IsFiniteSet(others) /\ Cardinality(others) <= Cardinality(Rest) * k
        BY <2>2, <3>1, <3>3, FamilyBound
      <3> QED BY <2>2, <3>3, <3>4
    <2>4. Fds = others \cup HeldBy(w)
      <3>1. \A f \in Fds : \E v \in Workers : Holds(v, f)
        BY DEF FreeFds, FdInv, DescriptorsOwned
      <3>2. \A f \in Fds : \E v \in Workers : f \in HeldBy(v)
        BY <3>1 DEF HeldBy
      <3>3. \A v \in Workers : HeldBy(v) \subseteq Fds
        BY DEF HeldBy
      <3> HIDE DEF Rest
      <3>4. \A v \in Workers : v = w \/ v \in Rest
        BY DEF Rest
      <3>5. Rest \subseteq Workers
        BY DEF Rest
      <3> QED BY <3>2, <3>3, <3>4, <3>5
    <2>5. IsFiniteSet(HeldBy(w)) /\ Cardinality(HeldBy(w)) <= MaxInflight
      BY HeldFew
    <2> HIDE DEF others
    <2>6. Cardinality(Fds) <= Cardinality(others) + Cardinality(HeldBy(w))
      BY <2>3, <2>4, <2>5, Together
    <2>7. Cardinality(Fds) = NFds
      BY FS_Interval DEF Fds
    <2>8. Cardinality(others) \in Nat /\ Cardinality(HeldBy(w)) \in Nat
      BY <2>3, <2>5, FS_CardinalityType
    <2>9. NWorkers * (MaxInflight + 1) = (NWorkers - 1) * (MaxInflight + 1) + MaxInflight + 1
      OBVIOUS
    <2> DEFINE most == (NWorkers - 1) * (MaxInflight + 1)
    <2>10. most \in Nat
      OBVIOUS
    <2> HIDE DEF most
    <2> QED BY <2>3, <2>5, <2>6, <2>7, <2>8, <2>9, <2>10 DEF most
  <1> QED BY <1>1, InitTypeInv, TypeStep, InitFdInv, FdStep, InitWindowInv, WindowStep, PTL DEF Spec
=============================================================================
