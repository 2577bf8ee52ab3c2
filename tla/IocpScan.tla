------------------------------ MODULE IocpScan ------------------------------
(***************************************************************************)
(* The connect worker of the Windows build (scan_connect_worker_iocp of    *)
(* tcp_async_scan.cpp) and the report made of its result: ConnectEx with   *)
(* an OVERLAPPED of its own for every port, one completion port, packets   *)
(* matched with the connects by the address of the OVERLAPPED.             *)
(*                                                                         *)
(* The kernel owns the OVERLAPPED of a connect until the connect is over,  *)
(* cancelled ones included: it writes to it and queues its address.  So a  *)
(* connect that timed out is retired, not freed, until its packet comes.   *)
(* One worker, as run_connect_scan_with_pool makes for fewer than 2048     *)
(* ports; its stop flag (the watchdog's, or the q key) may rise any time.  *)
(***************************************************************************)
EXTENDS Naturals, Sequences, FiniteSets

CONSTANTS
    Ports,       (* the shard, in order                                    *)
    MaxInflight, (* max_inflight                                           *)
    Timeout,     (* timeout_ms, in ticks                                   *)
    Addr,        (* where an IocpConn, and its OVERLAPPED, may be allocated*)
    Prompt,      (* does a cancelled connect complete within one wait of   *)
                 (* 20 ms of the closing drain?                            *)
    Reuse,       (* may the allocator hand out an address that is still    *)
                 (* in a queued packet?                                    *)
    NoPort, NoAddr, NoReport

Port == {Ports[i] : i \in DOMAIN Ports}

ASSUME IocpAssumption ==
    /\ Ports \in Seq(Nat)
    /\ \A i, j \in DOMAIN Ports : Ports[i] = Ports[j] => i = j
    /\ MaxInflight \in Nat \ {0}
    /\ Timeout \in Nat
    /\ Prompt \in BOOLEAN /\ Reuse \in BOOLEAN
    /\ NoPort \notin Port /\ NoAddr \notin Addr

VARIABLES
    pc,          (* where the worker is                                    *)
    next,        (* next_idx                                               *)
    at,          (* the OVERLAPPED of the ConnectEx being called           *)
    active,      (* active: address -> port and age of its connect         *)
    retired,     (* the addresses in retired                               *)
    out,         (* the WorkerResult                                       *)
    stop,        (* stop_flag                                              *)
    report,      (* what scan_tcp_async returned                           *)
    (* kernel and target *)
    socks,       (* the ports whose socket is open                         *)
    op,          (* each port's connect: its OVERLAPPED and its state      *)
    queue,       (* the ports whose packet is in the completion port       *)
    accepted,    (* ports the target accepted a connection on              *)
    (* history *)
    verdict      (* what has been decided of each port                     *)

worker == <<pc, next, at, active, retired, out, report, socks, verdict>>
kernel == <<op, queue, accepted>>
vars == <<worker, stop, kernel>>

NoEntry  == [port |-> NoPort, age |-> 0]
NoOp     == [at |-> NoAddr, st |-> "none"]
NoResult == [open |-> {}, scanned |-> 0, timeouts |-> 0, refused |-> 0,
             other |-> 0, aborted |-> FALSE]

(* The connects the kernel is still to write the end of                    *)
Owned == {"pending", "cancelled"}

(* Types, and what is in `active` is undecided.                            *)
TypeOK ==
    /\ pc \in {"begin", "head", "launch", "call", "wait", "sweep", "exit",
               "drain", "ready", "done"}
    /\ next \in 0..Len(Ports)
    /\ at \in Addr \cup {NoAddr} /\ (at = NoAddr <=> pc # "call")
    /\ active \in [Addr -> {NoEntry} \cup [port : Port, age : 0..Timeout]]
    /\ retired \subseteq Addr
    /\ out \in [open : SUBSET Port, scanned : Nat, timeouts : Nat,
                refused : Nat, other : Nat, aborted : BOOLEAN]
    /\ stop \in BOOLEAN
    /\ socks \subseteq Port /\ queue \subseteq Port /\ accepted \subseteq Port
    /\ op \in [Port -> [at : Addr \cup {NoAddr}, st : {"none", "ok", "failed"} \cup Owned]]
    /\ verdict \in [Port -> {"none", "open", "timeout", "refused", "other"}]
    /\ \A a \in Addr : active[a] # NoEntry => verdict[active[a].port] = "none"

Init ==
    /\ pc = "begin" /\ next = 0 /\ at = NoAddr
    /\ active = [a \in Addr |-> NoEntry] /\ retired = {}
    /\ out = NoResult /\ stop = FALSE /\ report = NoReport
    /\ socks = {} /\ op = [p \in Port |-> NoOp] /\ queue = {}
    /\ accepted = {} /\ verdict = [p \in Port |-> "none"]

-----------------------------------------------------------------------------
(* What the steps are made of.                                             *)

Active == {a \in Addr : active[a] # NoEntry}
Expired == {a \in Active : active[a].age >= Timeout}
PortsAt(S) == {active[a].port : a \in S}

(* Decided(r, p, v): port p counted as v, and mark_done                    *)
Decided(r, p, v) ==
    [open     |-> IF v = "open" THEN r.open \cup {p} ELSE r.open,
     scanned  |-> r.scanned + 1,
     timeouts |-> r.timeouts,
     refused  |-> IF v = "refused" THEN r.refused + 1 ELSE r.refused,
     other    |-> IF v = "other" THEN r.other + 1 ELSE r.other,
     aborted  |-> r.aborted]

(* (fault: the timeouts forget mark_done)                                  *)
TimedOutUncounted(r, n) == [r EXCEPT !.timeouts = @ + n]
TimedOut(r, n) == [open |-> r.open, scanned |-> r.scanned + n,
                   timeouts |-> r.timeouts + n, refused |-> r.refused,
                   other |-> r.other, aborted |-> r.aborted]

MarkDone(p, v) == /\ out' = Decided(out, p, v)
                  /\ verdict' = [verdict EXCEPT ![p] = v]

(* conn goes out of `active` (and, moved nowhere, is freed); closesocket.  *)
(* (fault: it is moved from and not erased)                                *)
DropNothing(a) == a \in Addr /\ UNCHANGED active
Drop(a) == active' = [active EXCEPT ![a] = NoEntry]
CloseSocket(p) == socks' = socks \ {p}

(* CancelIoEx and closesocket: what is pending ends as cancelled, what is  *)
(* over stays as it ended.                                                 *)
Cancel(S) == op' = [p \in Port |-> IF p \in S /\ op[p].st = "pending"
                                   THEN [at |-> op[p].at, st |-> "cancelled"] ELSE op[p]]

(* (fault: stop is looked at only when nothing is left to launch)          *)
StopBindsTighter == next < Len(Ports) \/ (Active # {} /\ ~stop)
KeepGoing == (next < Len(Ports) \/ Active # {}) /\ ~stop

CanLaunch == next < Len(Ports) /\ Cardinality(Active) < MaxInflight /\ ~stop

-----------------------------------------------------------------------------
(* The worker.                                                             *)

(* Without ConnectEx or a completion port the whole shard is `other`.      *)
Begin ==
    /\ pc = "begin"
    /\ \/ pc' = "head" /\ UNCHANGED <<out, verdict>>
       \/ /\ Ports # <<>>
          /\ pc' = "ready"
          /\ out' = [NoResult EXCEPT !.scanned = Len(Ports), !.other = Len(Ports)]
          /\ verdict' = [p \in Port |-> "other"]
    /\ UNCHANGED <<next, at, active, retired, report, socks, stop, kernel>>

Loop ==
    /\ pc = "head" /\ pc' = IF KeepGoing THEN "launch" ELSE "exit"
    /\ UNCHANGED <<next, at, active, retired, out, report, socks, verdict, stop, kernel>>

(* launch_connect: no socket, or it cannot be bound to the completion port *)
(* or to a local address                                                   *)
LaunchFails ==
    /\ pc = "launch" /\ CanLaunch
    /\ MarkDone(Ports[next + 1], "other")
    /\ next' = next + 1
    /\ UNCHANGED <<pc, at, active, retired, report, socks, stop, kernel>>

(* What the allocator may return for make_unique                           *)
Allocatable(a) ==
    /\ a \notin Active \cup retired
    /\ ~Reuse => \A q \in Port : op[q].at = a => q \notin queue /\ op[q].st \notin Owned

(* launch_connect up to the call of ConnectEx                              *)
Launch ==
    /\ pc = "launch" /\ CanLaunch
    /\ \E a \in Addr :
          LET p == Ports[next + 1]
          IN  /\ Allocatable(a)
              /\ active' = [active EXCEPT ![a] = [port |-> p, age |-> 0]]
              /\ op' = [op EXCEPT ![p] = [at |-> a, st |-> "pending"]]
              /\ socks' = socks \cup {p}
              /\ at' = a
    /\ pc' = "call"
    /\ UNCHANGED <<next, retired, out, report, stop, queue, accepted, verdict>>

(* ConnectEx returns.  ERROR_IO_PENDING: the connect is left to the        *)
(* completion port.                                                        *)
CallPending ==
    /\ pc = "call"
    /\ UNCHANGED <<active, out, verdict, socks, op>>
    /\ pc' = "launch" /\ at' = NoAddr /\ next' = next + 1
    /\ UNCHANGED <<retired, report, stop, queue, accepted>>

(* ConnectEx returns.  TRUE: the connect is already over, and is freed     *)
(* while its packet is still in the queue; another error: there is no      *)
(* connect, and no packet.                                                 *)
CallDecides ==
    /\ pc = "call"
    /\ LET p == Ports[next + 1]
       IN  /\ \/ op[p].st = "ok" /\ MarkDone(p, "open") /\ UNCHANGED op
              \/ /\ op[p].st = "pending"
                 /\ \E v \in {"refused", "other"} : MarkDone(p, v)
                 /\ op' = [op EXCEPT ![p] = NoOp]
           /\ CloseSocket(p)
    /\ Drop(at)
    /\ pc' = "launch" /\ at' = NoAddr /\ next' = next + 1
    /\ UNCHANGED <<retired, report, stop, queue, accepted>>

LaunchEnd ==
    /\ pc = "launch" /\ ~CanLaunch
    /\ pc' = "wait"
    /\ UNCHANGED <<next, at, active, retired, out, report, socks, verdict, stop, kernel>>

(* What getsockopt(SO_ERROR) may say of a port's socket: nothing yet of a  *)
(* pending connect; a connection may have been reset since; the error of a *)
(* failed overlapped connect need not be there.                            *)
SoErrors(p) == CASE op[p].st \in Owned  -> {"0"}
                 [] op[p].st = "ok"     -> {"0", "error"}
                 [] op[p].st \notin Owned \cup {"ok"} -> {"0", "refused", "error"}

(* (fault: the result of GetQueuedCompletionStatus is not looked at)       *)
SoErrorAlone(ok, se) == CASE se = "0"       -> "open"
                          [] se = "refused" -> "refused"
                          [] se = "error"   -> "other"
VerdictOf(ok, se) == CASE ok /\ se = "0" -> "open"
                       [] se = "refused" -> "refused"
                       [] ~(ok /\ se = "0") /\ se # "refused" -> "other"

(* GetQueuedCompletionStatus returns a packet (the model leaves open which)*)
(* and its address is looked up: a connect in `active` is decided, one in  *)
(* `retired` freed, any other address is ignored.                          *)
Packet ==
    /\ pc = "wait"
    /\ \E q \in queue :
          LET a == op[q].at
              p == active[a].port
          IN  /\ queue' = queue \ {q}
              /\ \/ /\ a \in Active
                    /\ \E se \in SoErrors(p) : MarkDone(p, VerdictOf(op[q].st = "ok", se))
                    /\ Drop(a) /\ CloseSocket(p) /\ Cancel({p})
                    /\ UNCHANGED retired
                 \/ /\ a \notin Active
                    /\ retired' = retired \ {a}
                    /\ UNCHANGED <<active, out, verdict, socks, op>>
    /\ pc' = "sweep"
    /\ UNCHANGED <<next, at, report, stop, accepted>>

(* It returns after 20 ms without one.                                     *)
Quiet ==
    /\ pc = "wait" /\ queue = {}
    /\ pc' = "sweep"
    /\ UNCHANGED <<next, at, active, retired, out, report, socks, verdict, stop, kernel>>

(* (fault: an expired connect is freed at once)                            *)
RetireNothing(S) == retired' = retired
Retire(S) == retired' = retired \cup S

(* The connects past the timeout are cancelled, closed and retired.        *)
Sweep ==
    /\ pc = "sweep" /\ pc' = "head"
    /\ out' = TimedOut(out, Cardinality(Expired))
    /\ verdict' = [p \in Port |-> IF p \in PortsAt(Expired) THEN "timeout" ELSE verdict[p]]
    /\ Cancel(PortsAt(Expired))
    /\ socks' = socks \ PortsAt(Expired)
    /\ Retire(Expired)
    /\ active' = [a \in Addr |-> IF a \in Expired THEN NoEntry ELSE active[a]]
    /\ UNCHANGED <<next, at, report, stop, queue, accepted>>

(* After the loop: the stop flag is read again; what is pending then is    *)
(* cancelled, closed and retired.                                          *)
Exit ==
    /\ pc = "exit" /\ pc' = "drain"
    /\ IF stop
       THEN /\ out' = [out EXCEPT !.aborted = TRUE]
            /\ Cancel(PortsAt(Active))
            /\ socks' = socks \ PortsAt(Active)
            /\ Retire(Active)
            /\ active' = [a \in Addr |-> NoEntry]
       ELSE UNCHANGED <<out, op, socks, retired, active>>
    /\ UNCHANGED <<next, at, report, verdict, stop, queue, accepted>>

(* The closing drain: one packet                                           *)
Drain ==
    /\ pc = "drain" /\ retired # {}
    /\ \E q \in queue : /\ queue' = queue \ {q}
                        /\ retired' = retired \ {op[q].at}
    /\ UNCHANGED <<pc, next, at, active, out, report, socks, verdict, stop, op, accepted>>

(* It is over when nothing is retired, at the first wait of 20 ms without  *)
(* a packet, or after a second: retired.clear(), CloseHandle(iocp).        *)
Drained == Prompt => retired = {} \/ (queue = {} /\ \A p \in Port : op[p].st # "cancelled")

DrainEnd ==
    /\ pc = "drain" /\ Drained
    /\ retired' = {} /\ queue' = {}
    /\ pc' = "ready"
    /\ UNCHANGED <<next, at, active, out, report, socks, verdict, stop, op, accepted>>

(* run_connect_scan_with_pool takes the only result; scan_tcp_async returns*)
Return ==
    /\ pc = "ready" /\ pc' = "done"
    /\ report' = [open     |-> out.open,
                  scanned  |-> out.scanned,
                  timeouts |-> out.timeouts,
                  refused  |-> out.refused,
                  other    |-> out.other,
                  skipped  |-> out.aborted \/ out.scanned < Len(Ports)]
    /\ UNCHANGED <<next, at, active, retired, out, socks, verdict, stop, kernel>>

WorkerStep ==
    \/ Begin \/ Loop \/ LaunchFails \/ Launch \/ CallPending \/ CallDecides
    \/ LaunchEnd \/ Packet \/ Quiet \/ Sweep \/ Exit \/ Drain \/ DrainEnd \/ Return

-----------------------------------------------------------------------------
(* The collector, the kernel, the target and the clock.                    *)

(* The watchdog, or a key                                                  *)
Stop ==
    /\ pc # "done" /\ ~stop /\ stop' = TRUE
    /\ UNCHANGED <<worker, kernel>>

(* A connect is over, the kernel queues its packet.                        *)
Complete(p) ==
    /\ op[p].st = "pending"
    /\ \E st \in {"ok", "failed"} :
          /\ op' = [op EXCEPT ![p] = [at |-> op[p].at, st |-> st]]
          /\ accepted' = IF st = "ok" THEN accepted \cup {p} ELSE accepted
    /\ queue' = queue \cup {p}
    /\ UNCHANGED <<worker, stop>>

(* The kernel completes a cancelled connect.                               *)
Cancelled(p) ==
    /\ op[p].st = "cancelled"
    /\ op' = [op EXCEPT ![p] = [at |-> op[p].at, st |-> "failed"]]
    /\ queue' = IF pc \in {"ready", "done"} THEN queue ELSE queue \cup {p}
    /\ UNCHANGED <<worker, stop, accepted>>

Older(e) == IF e # NoEntry /\ e.age < Timeout THEN [port |-> e.port, age |-> e.age + 1] ELSE e

Tick ==
    /\ pc # "done"
    /\ active' = [a \in Addr |-> Older(active[a])]
    /\ UNCHANGED <<pc, next, at, retired, out, report, socks, verdict, stop, kernel>>

Over == pc = "done" /\ UNCHANGED vars

Next == \/ WorkerStep \/ Stop \/ Tick \/ Over
        \/ \E p \in Port : Complete(p) \/ Cancelled(p)

(* The worker runs, time passes, the kernel ends what was cancelled; the   *)
(* target owes no answer, and nobody has to stop the scan.                 *)
Fairness == /\ WF_vars(WorkerStep) /\ WF_vars(Tick)
            /\ \A p \in Port : WF_vars(Cancelled(p))

Spec == Init /\ [][Next]_vars /\ Fairness

-----------------------------------------------------------------------------
(* Properties.                                                             *)

(* What a connect holds outlives its use.  No OVERLAPPED is freed while    *)
(* the kernel may still write to it: it is that of a connect in `active`,  *)
(* with the same port, or retired, and no two connects share it.  A socket *)
(* is open exactly while its connect is in `active`, and none is left when *)
(* the worker returns.                                                     *)
MemoryOutlivesKernel ==
    \A p \in Port : op[p].st \in Owned =>
       /\ \/ op[p].st = "pending" /\ op[p].at \in Active /\ active[op[p].at].port = p
          \/ op[p].st = "cancelled" /\ op[p].at \in retired
       /\ \A q \in Port \ {p} : op[q].st \in Owned \/ q \in queue => op[q].at # op[p].at

ResourcesOwned == /\ MemoryOutlivesKernel
                  /\ socks = PortsAt(Active)
                  /\ pc \in {"drain", "ready", "done"} => socks = {}

(* Each port launched is counted once or in `active`; a worker that returns*)
(* with ports unscanned says it was aborted.                               *)
CountersAddUp ==
    /\ out.scanned = Cardinality(out.open) + out.timeouts + out.refused + out.other
    /\ pc \notin {"begin", "call", "drain", "ready", "done"} =>
          next = out.scanned + Cardinality(Active)
    /\ pc \in {"ready", "done"} /\ out.scanned < Len(Ports) => out.aborted

(* The scan is a port scan: see PortScan.tla.                              *)
Scan == INSTANCE PortScan
RefinesPortScan == Scan!ScanSpec

(* The worker returns, even from a target that never answers.              *)
ScanReturns == <>(pc = "done")

(* "Check if connection succeeded" (port_scan.h): a port is only listed as *)
(* open when the target accepted a connection on it.                       *)
OpenMeansAccepted == \A p \in out.open : p \in accepted
=============================================================================
