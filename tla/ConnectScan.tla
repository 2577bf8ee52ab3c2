---------------------------- MODULE ConnectScan ----------------------------
(***************************************************************************)
(* The connect scan of tcp_async_scan.cpp on Linux:                        *)
(* run_connect_scan_with_pool and the scan_connect_worker_epoll tasks it   *)
(* puts on the thread pool.                                                *)
(*                                                                         *)
(* Each worker scans its shard with non-blocking connects and an epoll     *)
(* instance of its own; the collector polls the workers' futures, adds up  *)
(* their results and watches for a stall, on which it raises the stop flag *)
(* every worker reads.  Workers and collector share the stop flag, the     *)
(* progress counter, the process's file descriptors and the clock, and     *)
(* nothing else.  Steps are cut where one of these is read or written.     *)
(*                                                                         *)
(* Milliseconds are counted in ticks; an age stops counting at the limit   *)
(* it is compared with.                                                    *)
(***************************************************************************)
EXTENDS Naturals, Sequences, FiniteSets

CONSTANTS
    Port,         (* the requested ports                               *)
    NWorkers,     (* workers                                           *)
    Shards,       (* shards: which ports each worker scans, in order   *)
    MaxInflight,  (* inflight_per_worker                               *)
    MaxEvents,    (* std::size(events)                                 *)
    Timeout,      (* timeout_ms                                        *)
    StallLimit,   (* stall_limit_ms                                    *)
    NFds,         (* descriptors the process may still open            *)
    NoPort,       (* no port                                           *)
    NoReport      (* scan_tcp_async has not returned                   *)

Workers == 0..(NWorkers - 1)
Fds == 1..NFds

ASSUME SizesAssumption ==
    /\ NWorkers \in Nat \ {0}
    /\ MaxInflight \in Nat \ {0}
    /\ MaxEvents \in Nat \ {0}
    /\ Timeout \in Nat
    /\ StallLimit \in Nat
    /\ NFds \in Nat

(* Every port is in one shard, once, and no shard is empty.                *)
ASSUME ShardsAssumption ==
    /\ Shards \in [Workers -> Seq(Port) \ {<<>>}]
    /\ \A p \in Port : \E w \in Workers : \E k \in 1..Len(Shards[w]) :
          Shards[w][k] = p
    /\ \A w, v \in Workers :
          \A j \in 1..Len(Shards[w]), k \in 1..Len(Shards[v]) :
             Shards[w][j] = Shards[v][k] => w = v /\ j = k

ASSUME PortAssumption == NoPort \notin Port

VARIABLES
    (* one worker                                                        *)
    pc,           (* where each task is                                *)
    next,         (* next_idx                                          *)
    epfd,         (* epfd, 0 when not open                             *)
    cur,          (* the connect being launched: its fd, connect()'s rc*)
    active,       (* active: fd -> port and age of a pending connect   *)
    evs,          (* events reported and not yet handled               *)
    expired,      (* connects older than the timeout at `now`          *)
    out,          (* the WorkerResult                                  *)
    (* shared by workers and collector                                 *)
    stop,         (* stop_flag                                         *)
    progress,     (* progress_scanned                                  *)
    (* the collector                                                   *)
    cpc,          (* where run_connect_scan_with_pool is               *)
    ci,           (* the future it looks at                            *)
    total,        (* the summed WorkerResult                           *)
    last,         (* last_scanned                                      *)
    stalled,      (* time since last_progress                          *)
    report,       (* what scan_tcp_async returned                      *)
    (* kernel and target                                               *)
    sock,         (* the process's descriptor table                    *)
    accepted,     (* ports the target accepted a connection on         *)
    (* history                                                         *)
    verdict       (* what has been decided of each port                *)

workerVars == <<pc, next, epfd, cur, active, evs, expired, out>>
collectorVars == <<cpc, ci, total, last, stalled, report>>
vars == <<workerVars, stop, progress, collectorVars, sock, accepted, verdict>>

WorkerResult == [open : SUBSET Port, scanned : Nat, timeouts : Nat,
                 refused : Nat, other : Nat, aborted : BOOLEAN]
NoResult == [open |-> {}, scanned |-> 0, timeouts |-> 0, refused |-> 0,
             other |-> 0, aborted |-> FALSE]

Free     == [st |-> "free", port |-> NoPort]
Epoll    == [st |-> "epoll", port |-> NoPort]
NoEntry  == [port |-> NoPort, age |-> 0]
NoLaunch == [fd |-> 0, rc |-> "none"]

Verdict  == {"none", "open", "timeout", "refused", "other"}

(* The result of a worker that has no epoll instance.                      *)
GivenUp(n) == [open |-> {}, scanned |-> n, timeouts |-> 0, refused |-> 0,
               other |-> n, aborted |-> FALSE]

(* How a connect may end.  A descriptor is closed (Free), an epoll         *)
(* instance, or a socket: "pending" or in one of these states.             *)
Settled == {"accepted", "refused", "failed"}

(* How connect() may return: 0, EINPROGRESS, ECONNREFUSED, another errno.  *)
Rc == {"open", "inprogress", "refused", "error"}

Running == {"head", "launch", "rc", "wait", "events", "sweep", "exit"}

TypeOK ==
    /\ pc \in [Workers -> {"new", "queued", "ready", "taken"} \cup Running]
    /\ next \in [Workers -> Nat]
    /\ \A w \in Workers : next[w] <= Len(Shards[w])
    /\ epfd \in [Workers -> {0} \cup Fds]
    /\ cur \in [Workers -> {NoLaunch} \cup [fd : Fds, rc : Rc]]
    /\ active \in [Workers -> [Fds -> {NoEntry} \cup [port : Port, age : 0..Timeout]]]
    /\ evs \in [Workers -> SUBSET Fds]
    /\ expired \in [Workers -> SUBSET Fds]
    /\ out \in [Workers -> WorkerResult]
    /\ stop \in BOOLEAN
    /\ progress \in Nat
    /\ cpc \in {"submit", "poll", "return", "done"}
    /\ ci \in 0..NWorkers
    /\ total \in WorkerResult
    /\ last \in Nat
    /\ stalled \in 0..(StallLimit + 1)
    /\ sock \in [Fds -> {Free, Epoll} \cup [st : {"pending"} \cup Settled, port : Port]]
    /\ accepted \in SUBSET Port
    /\ verdict \in [Port -> Verdict]

Init ==
    /\ pc = [w \in Workers |-> "new"]
    /\ next = [w \in Workers |-> 0]
    /\ epfd = [w \in Workers |-> 0]
    /\ cur = [w \in Workers |-> NoLaunch]
    /\ active = [w \in Workers |-> [f \in Fds |-> NoEntry]]
    /\ evs = [w \in Workers |-> {}]
    /\ expired = [w \in Workers |-> {}]
    /\ out = [w \in Workers |-> NoResult]
    /\ stop = FALSE
    /\ progress = 0
    /\ cpc = "submit"
    /\ ci = 0
    /\ total = NoResult
    /\ last = 0
    /\ stalled = 0
    /\ report = NoReport
    /\ sock = [f \in Fds |-> Free]
    /\ accepted = {}
    /\ verdict = [p \in Port |-> "none"]

-----------------------------------------------------------------------------
(* What the steps are made of.                                             *)

Active(w) == {f \in Fds : active[w][f] # NoEntry}
FreeFds   == {f \in Fds : sock[f].st = "free"}

(* POSIX hands out the lowest free descriptor.                             *)
IsLowestFree(f) == f \in FreeFds /\ \A g \in FreeFds : f <= g

ReadyFds(w)   == {f \in Active(w) : sock[f].st \in Settled}

(* (fault: a connect is given up one tick early)                           *)
ExpiredEarly(w) == {f \in Active(w) : active[w][f].age + 1 >= Timeout}
ExpiredFds(w)   == {f \in Active(w) : active[w][f].age >= Timeout}

(* What an error code is counted as: 0, ECONNREFUSED, anything else.       *)
(* (fault: any event is taken for a connection)                            *)
AnyEventOpens(st) == "open"
VerdictOf(st) == CASE st = "refused" -> "refused"
                   [] st = "failed"  -> "other"
                   [] OTHER          -> "open"

(* One port decided: the counter or the open list it goes to, and mark_done.*)
(* (fault: the timeout sweep forgets mark_done)                            *)
Tally(r, p, v, done) ==
    [open     |-> IF v = "open" THEN r.open \cup {p} ELSE r.open,
     scanned  |-> IF done THEN r.scanned + 1 ELSE r.scanned,
     timeouts |-> IF v = "timeout" THEN r.timeouts + 1 ELSE r.timeouts,
     refused  |-> IF v = "refused" THEN r.refused + 1 ELSE r.refused,
     other    |-> IF v = "other" THEN r.other + 1 ELSE r.other,
     aborted  |-> r.aborted]

TimeoutNotCounted(r, p, v) == Tally(r, p, v, v # "timeout")
Counted(r, p, v) == Tally(r, p, v, TRUE)

MarkDone(w, p, v) ==
    /\ out' = [out EXCEPT ![w] = Counted(@, p, v)]
    /\ progress' = progress + 1
    /\ verdict' = [verdict EXCEPT ![p] = v]

Goto(w, l) == pc' = [pc EXCEPT ![w] = l]

(* (fault: the guard was moved from, the descriptor stays open)            *)
CloseNothing(f) == f \in Fds /\ UNCHANGED sock
Close(f) == sock' = [sock EXCEPT ![f] = Free]

(* The condition of the main loop.  (faults: it forgets the pending        *)
(* connects; || and && read without their parentheses)                     *)
ForgetsPending(w) == next[w] < Len(Shards[w]) /\ ~stop
StopBindsTighter(w) == next[w] < Len(Shards[w]) \/ (Active(w) # {} /\ ~stop)
KeepGoing(w) == (next[w] < Len(Shards[w]) \/ Active(w) # {}) /\ ~stop

CanLaunch(w) == /\ next[w] < Len(Shards[w])
                /\ Cardinality(Active(w)) < MaxInflight
                /\ ~stop

-----------------------------------------------------------------------------
(* The worker.                                                             *)

(* epoll_create1 fails: the shard is given up as `other`.                  *)
BeginNoEpoll(w) ==
    /\ pc[w] = "queued"
    /\ FreeFds = {}
    /\ out' = [out EXCEPT ![w] = GivenUp(Len(Shards[w]))]
    /\ progress' = progress + Len(Shards[w])
    /\ verdict' = [p \in Port |->
                     IF \E k \in 1..Len(Shards[w]) : Shards[w][k] = p
                     THEN "other" ELSE verdict[p]]
    /\ Goto(w, "ready")
    /\ UNCHANGED <<next, epfd, cur, active, evs, expired, stop,
                   collectorVars, sock, accepted>>

(* A pool thread calls the task.                                           *)
Begin(w) ==
    /\ pc[w] = "queued"
    /\ \E f \in Fds :
          /\ IsLowestFree(f)
          /\ epfd' = [epfd EXCEPT ![w] = f]
          /\ sock' = [sock EXCEPT ![f] = Epoll]
    /\ Goto(w, "head")
    /\ UNCHANGED <<next, cur, active, evs, expired, out, stop, progress,
                   collectorVars, accepted, verdict>>

Loop(w) ==
    /\ pc[w] = "head"
    /\ Goto(w, IF KeepGoing(w) THEN "launch" ELSE "exit")
    /\ UNCHANGED <<next, epfd, cur, active, evs, expired, out, stop, progress,
                   collectorVars, sock, accepted, verdict>>

(* launch_connect, socket(): no descriptor is left.                        *)
NoSocket(w) ==
    /\ pc[w] = "launch"
    /\ CanLaunch(w)
    /\ FreeFds = {}
    /\ MarkDone(w, Shards[w][next[w] + 1], "other")
    /\ next' = [next EXCEPT ![w] = @ + 1]
    /\ UNCHANGED <<pc, epfd, cur, active, evs, expired, stop,
                   collectorVars, sock, accepted>>

(* (fault: errno is read after another call has reset it)                  *)
RcLost(s) == CASE s = "accepted" -> "open"
               [] s = "pending"  -> "inprogress"
               [] OTHER          -> "none"
RcOf(s) == CASE s = "accepted" -> "open"
             [] s = "pending"  -> "inprogress"
             [] s = "refused"  -> "refused"
             [] OTHER          -> "error"

(* launch_connect, socket() and connect(): the kernel may answer at once.  *)
Connect(w) ==
    /\ pc[w] = "launch"
    /\ CanLaunch(w)
    /\ \E f \in Fds, s \in {"pending"} \cup Settled :
          LET p == Shards[w][next[w] + 1] IN
          /\ IsLowestFree(f)
          /\ sock' = [sock EXCEPT ![f] = [st |-> s, port |-> p]]
          /\ accepted' = IF s = "accepted" THEN accepted \cup {p} ELSE accepted
          /\ cur' = [cur EXCEPT ![w] = [fd |-> f, rc |-> RcOf(s)]]
    /\ Goto(w, "rc")
    /\ UNCHANGED <<next, epfd, active, evs, expired, out, stop, progress,
                   collectorVars, verdict>>

(* launch_connect, the rest: the connect was answered at once, or it is    *)
(* added to the epoll set and to `active` (epoll_ctl may fail).            *)
Launched(w) ==
    LET f == cur[w].fd
        p == Shards[w][next[w] + 1]
    IN
    /\ pc[w] = "rc"
    /\ \/ /\ cur[w].rc = "inprogress"
          /\ active' = [active EXCEPT ![w][f] = [port |-> p, age |-> 0]]
          /\ UNCHANGED <<out, progress, verdict, sock>>
       \/ /\ \/ cur[w].rc = "open"       /\ MarkDone(w, p, "open")
             \/ cur[w].rc = "refused"    /\ MarkDone(w, p, "refused")
             \/ cur[w].rc = "error"      /\ MarkDone(w, p, "other")
             \/ cur[w].rc = "inprogress" /\ MarkDone(w, p, "other")
          /\ Close(f)
          /\ UNCHANGED active
    /\ cur' = [cur EXCEPT ![w] = NoLaunch]
    /\ next' = [next EXCEPT ![w] = @ + 1]
    /\ Goto(w, "launch")
    /\ UNCHANGED <<epfd, evs, expired, stop, collectorVars, accepted>>

(* The launch loop ends; with nothing pending the main loop goes round.    *)
LaunchEnd(w) ==
    /\ pc[w] = "launch"
    /\ ~CanLaunch(w)
    /\ Goto(w, IF Active(w) = {} THEN "head" ELSE "wait")
    /\ UNCHANGED <<next, epfd, cur, active, evs, expired, out, stop, progress,
                   collectorVars, sock, accepted, verdict>>

(* epoll_wait returns, with up to MaxEvents ready sockets or, after 20 ms, *)
(* with none; `now` is sampled here and used until the sweep is over.      *)
Wait(w) ==
    /\ pc[w] = "wait"
    /\ \E S \in SUBSET ReadyFds(w) :
          /\ \/ S = ReadyFds(w) /\ Cardinality(S) <= MaxEvents
             \/ S # ReadyFds(w) /\ Cardinality(S) = MaxEvents
          /\ evs' = [evs EXCEPT ![w] = S]
    /\ expired' = [expired EXCEPT ![w] = ExpiredFds(w)]
    /\ Goto(w, "events")
    /\ UNCHANGED <<next, epfd, cur, active, out, stop, progress,
                   collectorVars, sock, accepted, verdict>>

(* One reported event: SO_ERROR decides, the entry and its socket go.      *)
Event(w) ==
    /\ pc[w] = "events"
    /\ \E f \in evs[w] :
          /\ evs' = [evs EXCEPT ![w] = @ \ {f}]
          /\ \/ /\ f \notin Active(w)
                /\ UNCHANGED <<active, out, progress, verdict, sock>>
             \/ /\ f \in Active(w)
                /\ MarkDone(w, active[w][f].port, VerdictOf(sock[f].st))
                /\ active' = [active EXCEPT ![w][f] = NoEntry]
                /\ Close(f)
    /\ UNCHANGED <<pc, next, epfd, cur, expired, stop, collectorVars, accepted>>

EventsEnd(w) ==
    /\ pc[w] = "events"
    /\ evs[w] = {}
    /\ Goto(w, "sweep")
    /\ UNCHANGED <<next, epfd, cur, active, evs, expired, out, stop, progress,
                   collectorVars, sock, accepted, verdict>>

(* One pending connect past the timeout.                                   *)
Sweep(w) ==
    /\ pc[w] = "sweep"
    /\ \E f \in expired[w] \cap Active(w) :
          /\ MarkDone(w, active[w][f].port, "timeout")
          /\ active' = [active EXCEPT ![w][f] = NoEntry]
          /\ Close(f)
    /\ UNCHANGED <<pc, next, epfd, cur, evs, expired, stop, collectorVars,
                   accepted>>

SweepEnd(w) ==
    /\ pc[w] = "sweep"
    /\ expired[w] \cap Active(w) = {}
    /\ expired' = [expired EXCEPT ![w] = {}]
    /\ Goto(w, "head")
    /\ UNCHANGED <<next, epfd, cur, active, evs, out, stop, progress,
                   collectorVars, sock, accepted, verdict>>

(* The loop is over: the stop flag is read once more, the pending sockets  *)
(* and the epoll instance are closed, the future becomes ready.            *)
Finish(w) ==
    /\ pc[w] = "exit"
    /\ out' = [out EXCEPT ![w].aborted = stop]
    /\ sock' = [f \in Fds |-> IF f \in Active(w) \cup {epfd[w]} THEN Free
                             ELSE sock[f]]
    /\ active' = [active EXCEPT ![w] = [f \in Fds |-> NoEntry]]
    /\ epfd' = [epfd EXCEPT ![w] = 0]
    /\ Goto(w, "ready")
    /\ UNCHANGED <<next, cur, evs, expired, stop, progress, collectorVars,
                   accepted, verdict>>

WorkerStep(w) ==
    \/ BeginNoEpoll(w) \/ Begin(w)
    \/ Loop(w) \/ NoSocket(w) \/ Connect(w) \/ Launched(w) \/ LaunchEnd(w)
    \/ Wait(w) \/ Event(w) \/ EventsEnd(w) \/ Sweep(w) \/ SweepEnd(w)
    \/ Finish(w)

-----------------------------------------------------------------------------
(* The collector: run_connect_scan_with_pool and the end of scan_tcp_async.*)

Submit ==
    /\ cpc = "submit"
    /\ Goto(ci, "queued")
    /\ IF ci + 1 = NWorkers
       THEN cpc' = "poll" /\ ci' = 0 /\ stalled' = 0
       ELSE ci' = ci + 1 /\ UNCHANGED <<cpc, stalled>>
    /\ UNCHANGED <<next, epfd, cur, active, evs, expired, out, stop, progress,
                   total, last, report, sock, accepted, verdict>>

Merged(t, r) ==
    [open     |-> t.open \cup r.open,
     scanned  |-> t.scanned + r.scanned,
     timeouts |-> t.timeouts + r.timeouts,
     refused  |-> t.refused + r.refused,
     other    |-> t.other + r.other,
     aborted  |-> t.aborted \/ r.aborted]

(* One future is polled and, when ready, its result is added once.         *)
Poll ==
    /\ cpc = "poll"
    /\ ci < NWorkers
    /\ IF pc[ci] = "ready"
       THEN total' = Merged(total, out[ci]) /\ Goto(ci, "taken")
       ELSE UNCHANGED <<total, pc>>
    /\ ci' = ci + 1
    /\ UNCHANGED <<next, epfd, cur, active, evs, expired, out, stop, progress,
                   cpc, last, stalled, report, sock, accepted, verdict>>

(* last_progress = Clock::now().  (fault: it is only set at the start)     *)
NotRestarted == stalled
Restarted == 0

(* After a round of polls: has anything been scanned since the last one?   *)
(* Then the watchdog starts over; else, past the limit, it stops the scan. *)
Watch ==
    /\ cpc = "poll"
    /\ ci = NWorkers
    /\ IF progress # last
       THEN last' = progress /\ stalled' = Restarted /\ UNCHANGED stop
       ELSE stop' = (IF stalled > StallLimit THEN TRUE ELSE stop) /\ UNCHANGED <<last, stalled>>
    /\ IF \A w \in Workers : pc[w] = "taken"
       THEN cpc' = "return" /\ UNCHANGED ci
       ELSE ci' = 0 /\ UNCHANGED cpc
    /\ UNCHANGED <<workerVars, progress, total, report, sock, accepted, verdict>>

(* The pool is joined and scan_tcp_async returns its statistics.           *)
Return ==
    /\ cpc = "return"
    /\ report' = [open     |-> total.open,
                  scanned  |-> total.scanned,
                  timeouts |-> total.timeouts,
                  refused  |-> total.refused,
                  other    |-> total.other,
                  skipped  |-> total.aborted \/ total.scanned < Cardinality(Port)]
    /\ cpc' = "done"
    /\ UNCHANGED <<workerVars, stop, progress, ci, total, last, stalled, sock,
                   accepted, verdict>>

CollectorStep == Submit \/ Poll \/ Watch \/ Return

-----------------------------------------------------------------------------
(* The kernel, the target and the clock.                                   *)

(* A connect under way gets its answer.                                    *)
Answer(f) ==
    /\ sock[f].st = "pending"
    /\ \E s \in Settled :
          /\ sock' = [sock EXCEPT ![f].st = s]
          /\ accepted' = IF s = "accepted" THEN accepted \cup {sock[f].port}
                         ELSE accepted
    /\ UNCHANGED <<workerVars, stop, progress, collectorVars, verdict>>

(* The target resets a connection before SO_ERROR was read.                *)
Reset(f) ==
    /\ sock[f].st = "accepted"
    /\ sock' = [sock EXCEPT ![f].st = "failed"]
    /\ UNCHANGED <<workerVars, stop, progress, collectorVars, accepted, verdict>>

Older(e) == IF e # NoEntry /\ e.age < Timeout THEN [e EXCEPT !.age = @ + 1] ELSE e

Tick ==
    /\ cpc # "done"
    /\ active' = [w \in Workers |-> [f \in Fds |-> Older(active[w][f])]]
    /\ stalled' = IF stalled <= StallLimit THEN stalled + 1 ELSE stalled
    /\ UNCHANGED <<pc, next, epfd, cur, evs, expired, out, stop, progress,
                   cpc, ci, total, last, report, sock, accepted, verdict>>

Over == cpc = "done" /\ UNCHANGED vars

System == CollectorStep \/ \E w \in Workers : WorkerStep(w)
Kernel == \E f \in Fds : Answer(f) \/ Reset(f)

Next == System \/ Kernel \/ Tick \/ Over

(* Threads are scheduled and time passes; the target owes no answer.       *)
Fairness == /\ \A w \in Workers : WF_vars(WorkerStep(w))
            /\ WF_vars(CollectorStep)
            /\ WF_vars(Tick)

Spec == Init /\ [][Next]_vars /\ Fairness

(* A machine that keeps up: a tick (a good part of a second) only passes   *)
(* when every worker waits for the network and the collector, which loops  *)
(* every 20 ms, has seen all progress made so far and taken every result.  *)
KeptUp == /\ cpc = "poll" /\ ci = 0 /\ progress = last
          /\ \A w \in Workers :
                \/ pc[w] = "taken"
                \/ pc[w] = "wait" /\ ReadyFds(w) = {} /\ ExpiredFds(w) = {}

-----------------------------------------------------------------------------
(* Properties.                                                             *)

(* "Every socket is owned by a SocketGuard so a mid-scan abort leaks       *)
(* nothing" (CONTRIBUTING.md): each open descriptor is one worker's epoll  *)
(* instance, the connect it is launching or one entry of its `active` map, *)
(* no two of these share it however descriptors are reused across workers, *)
(* and the map's port is the port the socket was connected to.             *)
Holds(w, f) == f = epfd[w] \/ f = cur[w].fd \/ f \in Active(w)

DescriptorsOwned ==
    \A f \in Fds :
       /\ sock[f].st # "free" <=> \E w \in Workers : Holds(w, f)
       /\ \A w, v \in Workers : Holds(w, f) /\ Holds(v, f) => w = v
       /\ \A w \in Workers :
             /\ f = epfd[w] => sock[f].st = "epoll"
             /\ f \in {cur[w].fd} \cup Active(w) => sock[f].st \in {"pending"} \cup Settled
             /\ f \in Active(w) => f # cur[w].fd /\ sock[f].port = active[w][f].port

(* Whatever ends the scan, no descriptor outlives it.                      *)
NothingLeftOpen == (\A w \in Workers : pc[w] \in {"ready", "taken"}) => FreeFds = Fds

(* A worker's counters add up, and every port it took from its shard is    *)
(* counted or still in `active` (each launch path, event and timeout calls *)
(* mark_done once).                                                        *)
CountersAddUp ==
    \A w \in Workers :
       /\ out[w].scanned = Cardinality(out[w].open) + out[w].timeouts
                              + out[w].refused + out[w].other
       /\ pc[w] \in Running => next[w] = out[w].scanned + Cardinality(Active(w))

(* A worker that returns with part of its shard unscanned says `aborted`,  *)
(* although it reads the stop flag again after having left its loops.      *)
GapsAreAborts ==
    \A w \in Workers :
       pc[w] \in {"ready", "taken"} /\ out[w].scanned < Len(Shards[w]) => out[w].aborted

(* A connect is only called a timeout once it has been pending that long.  *)
PatientTimeouts ==
    [][\A w \in Workers :
         out'[w].timeouts > out[w].timeouts =>
            \E f \in Active(w) : active[w][f].age >= Timeout /\ f \notin Active(w)']_vars

(* The scan is a port scan: see PortScan.tla.                              *)
Scan == INSTANCE PortScan
RefinesPortScan == Scan!ScanSpec

(* run_connect_scan_with_pool returns, even from a target that never       *)
(* answers anything.                                                       *)
ScanReturns == <>(cpc = "done")
=============================================================================
