------------------------------ MODULE SynScan -------------------------------
(***************************************************************************)
(* The half-open scan of tcp_async_scan.cpp (scan_syn_half_open_linux and  *)
(* the part of scan_tcp_async that reports its result): one thread sends   *)
(* SYNs from a raw socket, each with a source port of its own, and matches *)
(* what a second raw socket receives with the pending SYNs by that source  *)
(* port alone.                                                             *)
(*                                                                         *)
(* The network loses, delays and duplicates answers; the process may be    *)
(* signalled at any time; each step of the set-up may fail, which sends    *)
(* the caller to the connect scan instead.  Source ports are 16-bit words  *)
(* cut down to Word values.                                                *)
(***************************************************************************)
EXTENDS Integers, Sequences, FiniteSets

CONSTANTS
    Ports,        (* ports: the requested ports, in order              *)
    MaxInflight,  (* max_inflight                                      *)
    Timeout,      (* timeout_ms                                        *)
    Word,         (* 2^16: src_port_cursor wraps here                  *)
    Base, Span,   (* 40000 and 20000: where source ports start, how    *)
                  (* many there are and how many are tried             *)
    Answers,      (* how many segments may come in answer to each SYN  *)
    Stale,        (* may an answer outlive its source port's reuse?    *)
    NoPort, NoReport

Port == {Ports[i] : i \in DOMAIN Ports}

ASSUME SynAssumption ==
    /\ Ports \in Seq(Nat)
    /\ \A i, j \in DOMAIN Ports : Ports[i] = Ports[j] => i = j
    /\ MaxInflight \in Nat \ {0}
    /\ Timeout \in Nat
    /\ Span \in Nat \ {0} /\ Base \in Nat /\ Base >= Span
    /\ Word \in Nat /\ Word > Base
    /\ Answers \in [Port -> Nat]
    /\ Stale \in BOOLEAN
    /\ NoPort \notin Port

VARIABLES
    pc,           (* where scan_syn_half_open_linux is                 *)
    stage,        (* the set-up step it is at                          *)
    fds,          (* the descriptors it holds                          *)
    handler,      (* whose handlers SIGINT and SIGTERM have            *)
    locked,       (* g_syn_scan_mutex                                  *)
    abort,        (* g_syn_abort                                       *)
    next,         (* next_idx                                          *)
    cursor,       (* src_port_cursor                                   *)
    pending,      (* pending: source port -> port and age of its SYN   *)
    out,          (* the WorkerResult                                  *)
    report,       (* what scan_tcp_async returned                      *)
    (* network and target *)
    via,          (* the source port each port's SYN was sent from     *)
    owed,         (* how many answers to it may still come             *)
    inbox,        (* segments the raw socket has not handed out yet    *)
    accepted,     (* ports the target answered with SYN-ACK            *)
    (* history *)
    verdict       (* what has been decided of each port                *)

scanner == <<pc, stage, fds, handler, locked, next, cursor, pending, out,
             report, verdict>>
network == <<via, owed, inbox, accepted>>
vars == <<scanner, abort, network>>

SrcPort  == 1..(Base + Span - 1)
NoEntry  == [port |-> NoPort, age |-> 0]
Kind     == {"synack", "rst", "odd"}
Segment  == [kind : Kind, from : Port, to : SrcPort]
Verdict  == {"none", "open", "timeout", "refused", "other"}
Signal   == {"int", "term"}
NoResult == [open |-> {}, scanned |-> 0, timeouts |-> 0, refused |-> 0,
             other |-> 0, aborted |-> FALSE]

(* geteuid, resolve_ipv4_target, resolve_source_ipv4, the two raw sockets  *)
(* (IP_HDRINCL in between) and the epoll instance.                         *)
Stages == <<"root", "ipv4", "source", "rawsend", "hdrincl", "rawrecv", "epoll">>

TypeOK ==
    /\ pc \in {"setup", "fallback", "guard", "sigint", "sigterm", "head", "launch",
               "wait", "drain", "sweep", "close", "unguard", "report", "done"}
    /\ stage \in 1..Len(Stages)
    /\ fds \subseteq {"send_fd", "recv_fd", "epfd"}
    /\ handler \in [Signal -> {"old", "scan"}]
    /\ locked \in BOOLEAN
    /\ abort \in BOOLEAN
    /\ next \in 0..Len(Ports)
    /\ cursor \in 0..(Word - 1)
    /\ pending \in [SrcPort -> {NoEntry} \cup [port : Port, age : 0..Timeout]]
    /\ out \in [open : SUBSET Port, scanned : Nat, timeouts : Nat,
                refused : Nat, other : Nat, aborted : BOOLEAN]
    /\ via \in [Port -> SrcPort \cup {0}]
    /\ owed \in [Port -> Nat]
    /\ \A p \in Port : owed[p] <= Answers[p]
    /\ inbox \in SUBSET Segment
    /\ accepted \in SUBSET Port
    /\ verdict \in [Port -> Verdict]

Init ==
    /\ pc = "setup"
    /\ stage = 1
    /\ fds = {}
    /\ handler = [s \in Signal |-> "old"]
    /\ locked = FALSE
    /\ abort \in BOOLEAN            \* an earlier scan may have left it set
    /\ next = 0
    /\ cursor = Base
    /\ pending = [s \in SrcPort |-> NoEntry]
    /\ out = NoResult
    /\ report = NoReport
    /\ via = [p \in Port |-> 0]
    /\ owed = [p \in Port |-> 0]
    /\ inbox = {}
    /\ accepted = {}
    /\ verdict = [p \in Port |-> "none"]

-----------------------------------------------------------------------------
(* Set-up, and the signal guard.                                           *)

Opens(k) == CASE Stages[k] = "rawsend" -> {"send_fd"}
              [] Stages[k] = "rawrecv" -> {"recv_fd"}
              [] Stages[k] = "epoll"   -> {"epfd"}
              [] OTHER                 -> {}

(* What a failing step closes.  (fault: only later steps clean up)         *)
ClosesTooLate(k) == CASE Stages[k] = "rawrecv" -> {"send_fd"}
                      [] Stages[k] = "epoll"   -> {"send_fd", "recv_fd"}
                      [] OTHER                 -> {}
Closes(k) == CASE Stages[k] \in {"hdrincl", "rawrecv"} -> {"send_fd"}
               [] Stages[k] = "epoll"                  -> {"send_fd", "recv_fd"}
               [] OTHER                                -> {}

SetUp ==
    /\ pc = "setup"
    /\ fds' = fds \cup Opens(stage)
    /\ IF stage = Len(Stages)
       THEN pc' = "guard" /\ UNCHANGED stage
       ELSE stage' = stage + 1 /\ UNCHANGED pc
    /\ UNCHANGED <<handler, locked, next, cursor, pending, out, report,
                   verdict, abort, network>>

(* The scan returns nullopt.                                               *)
SetUpFails ==
    /\ pc = "setup"
    /\ fds' = fds \ Closes(stage)
    /\ pc' = "fallback"
    /\ UNCHANGED <<stage, handler, locked, next, cursor, pending, out, report,
                   verdict, abort, network>>

Guard ==
    /\ pc = "guard"
    /\ ~locked
    /\ locked' = TRUE
    /\ abort' = FALSE
    /\ pc' = "sigint"
    /\ UNCHANGED <<stage, fds, handler, next, cursor, pending, out, report,
                   verdict, network>>

(* sigaction(SIGINT) may fail: the scan then runs without handlers.        *)
SigInt ==
    /\ pc = "sigint"
    /\ \/ handler' = [handler EXCEPT !["int"] = "scan"] /\ pc' = "sigterm"
       \/ UNCHANGED handler /\ pc' = "head"
    /\ UNCHANGED <<stage, fds, locked, next, cursor, pending, out, report,
                   verdict, abort, network>>

(* sigaction(SIGTERM) may fail: SIGINT's handler is taken back.            *)
SigTerm ==
    /\ pc = "sigterm"
    /\ pc' = "head"
    /\ \/ handler' = [handler EXCEPT !["term"] = "scan"]
       \/ handler' = [handler EXCEPT !["int"] = "old"]
    /\ UNCHANGED <<stage, fds, locked, next, cursor, pending, out, report,
                   verdict, abort, network>>

-----------------------------------------------------------------------------
(* The scan.                                                               *)

InUse == {s \in SrcPort : pending[s] # NoEntry}

(* C++'s remainder takes the sign of the dividend.                         *)
CRem(a, b) == IF a >= 0 THEN a % b ELSE -((-a) % b)

(* The source port tried when the cursor is c: the arithmetic is int's, so *)
(* after the cursor has wrapped it counts from below Base.                 *)
SrcPortAt(c) == Base + CRem(c - Base, Span)

(* alloc_src_port: how many tries it takes, 0 when Span are not enough.    *)
(* (fault: it does not look whether the port is pending)                   *)
FirstTry(c) == IF c \in Nat THEN 1 ELSE 0
Tries(c) ==
    LET Good == {i \in 1..Span : SrcPortAt((c + i - 1) % Word) \notin InUse}
    IN  IF Good = {} THEN 0 ELSE CHOOSE i \in Good : \A j \in Good : i <= j

Allocated(c) == IF Tries(c) = 0 THEN 0 ELSE SrcPortAt((c + Tries(c) - 1) % Word)

(* (fault: the cursor is an int, not a 16-bit word)                        *)
CursorUnbounded(c) == c + (IF Tries(c) = 0 THEN Span ELSE Tries(c))
CursorAfter(c) == (c + (IF Tries(c) = 0 THEN Span ELSE Tries(c))) % Word

(* One port decided, and mark_done.                                        *)
Tally(r, S, v) ==
    LET n == Cardinality(S) IN
    [open     |-> IF v = "open" THEN r.open \cup S ELSE r.open,
     scanned  |-> r.scanned + n,
     timeouts |-> IF v = "timeout" THEN r.timeouts + n ELSE r.timeouts,
     refused  |-> IF v = "refused" THEN r.refused + n ELSE r.refused,
     other    |-> IF v = "other" THEN r.other + n ELSE r.other,
     aborted  |-> r.aborted]

MarkDone(S, v) ==
    /\ out' = Tally(out, S, v)
    /\ verdict' = [p \in Port |-> IF p \in S THEN v ELSE verdict[p]]

Loop ==
    /\ pc = "head"
    /\ IF next = Len(Ports) /\ InUse = {}
       THEN pc' = "close" /\ UNCHANGED out
       ELSE IF abort
       THEN pc' = "close" /\ out' = [out EXCEPT !.aborted = TRUE]
       ELSE pc' = "launch" /\ UNCHANGED out
    /\ UNCHANGED <<stage, fds, handler, locked, next, cursor, pending, report,
                   verdict, abort, network>>

CanLaunch == next < Len(Ports) /\ Cardinality(InUse) < MaxInflight

(* A SYN is sent: from now on its source port is this port's.  Unless      *)
(* Stale, nothing sent to that source port earlier is still under way.     *)
Launch ==
    LET p == Ports[next + 1]
        s == Allocated(cursor)
    IN
    /\ pc = "launch"
    /\ CanLaunch
    /\ s # 0
    /\ pending' = IF s \in InUse THEN pending
                  ELSE [pending EXCEPT ![s] = [port |-> p, age |-> 0]]
    /\ via' = [via EXCEPT ![p] = s]
    /\ owed' = [q \in Port |-> CASE q = p                -> Answers[p]
                                 [] ~Stale /\ via[q] = s -> 0
                                 [] OTHER                -> owed[q]]
    /\ inbox' = IF Stale THEN inbox ELSE {m \in inbox : m.to # s}
    /\ next' = next + 1
    /\ cursor' = CursorAfter(cursor)
    /\ UNCHANGED <<pc, stage, fds, handler, locked, out, report, verdict,
                   abort, accepted>>

(* No source port, or sendto fails: the port is given up.                  *)
LaunchFails ==
    /\ pc = "launch"
    /\ CanLaunch
    /\ MarkDone({Ports[next + 1]}, "other")
    /\ next' = next + 1
    /\ cursor' = CursorAfter(cursor)
    /\ UNCHANGED <<pc, stage, fds, handler, locked, pending, report, abort,
                   network>>

LaunchEnd ==
    /\ pc = "launch"
    /\ ~CanLaunch
    /\ pc' = "wait"
    /\ UNCHANGED <<stage, fds, handler, locked, next, cursor, pending, out,
                   report, verdict, abort, network>>

(* epoll_wait, 6 ms at most.  (fault: it waits for a segment)              *)
WaitForever ==
    /\ pc = "wait"
    /\ inbox # {}
    /\ pc' = "drain"
    /\ UNCHANGED <<stage, fds, handler, locked, next, cursor, pending, out,
                   report, verdict, abort, network>>

Wait ==
    /\ pc = "wait"
    /\ pc' = IF inbox # {} THEN "drain" ELSE "sweep"
    /\ UNCHANGED <<stage, fds, handler, locked, next, cursor, pending, out,
                   report, verdict, abort, network>>

(* (fault: any ACK opens)                                                  *)
AckOpens(k) == IF k = "rst" THEN "refused" ELSE "open"
VerdictOf(k) == CASE k = "synack" -> "open"
                  [] k = "rst"    -> "refused"
                  [] OTHER        -> "other"

(* recvfrom: a segment to a source port with a pending SYN decides that    *)
(* SYN's port; the sender's port and the acknowledged number are not read. *)
Drain ==
    /\ pc = "drain"
    /\ \E m \in inbox :
          /\ inbox' = inbox \ {m}
          /\ IF m.to \in InUse
             THEN /\ MarkDone({pending[m.to].port}, VerdictOf(m.kind))
                  /\ pending' = [pending EXCEPT ![m.to] = NoEntry]
             ELSE UNCHANGED <<out, verdict, pending>>
    /\ UNCHANGED <<pc, stage, fds, handler, locked, next, cursor, report,
                   abort, via, owed, accepted>>

DrainEnd ==
    /\ pc = "drain"
    /\ inbox = {}
    /\ pc' = "sweep"
    /\ UNCHANGED <<stage, fds, handler, locked, next, cursor, pending, out,
                   report, verdict, abort, network>>

(* Every SYN pending for timeout_ms or more is given up.                   *)
Sweep ==
    LET Old == {s \in InUse : pending[s].age >= Timeout} IN
    /\ pc = "sweep"
    /\ MarkDone({pending[s].port : s \in Old}, "timeout")
    /\ pending' = [s \in SrcPort |-> IF s \in Old THEN NoEntry ELSE pending[s]]
    /\ pc' = "head"
    /\ UNCHANGED <<stage, fds, handler, locked, next, cursor, report, abort,
                   network>>

CloseFds ==
    /\ pc = "close"
    /\ fds' = {}
    /\ pc' = "unguard"
    /\ UNCHANGED <<stage, handler, locked, next, cursor, pending, out, report,
                   verdict, abort, network>>

(* ~SynAbortSignalGuard: the handlers, if both were installed, then the    *)
(* mutex.                                                                  *)
Unguard ==
    /\ pc = "unguard"
    /\ handler' = IF handler["term"] = "scan" THEN [s \in Signal |-> "old"] ELSE handler
    /\ locked' = FALSE
    /\ pc' = "report"
    /\ UNCHANGED <<stage, fds, next, cursor, pending, out, report, verdict,
                   abort, network>>

Report ==
    /\ pc = "report"
    /\ report' = [open     |-> out.open,
                  scanned  |-> out.scanned,
                  timeouts |-> out.timeouts,
                  refused  |-> out.refused,
                  other    |-> out.other,
                  skipped  |-> out.aborted \/ out.scanned < Len(Ports)]
    /\ pc' = "done"
    /\ UNCHANGED <<stage, fds, handler, locked, next, cursor, pending, out,
                   verdict, abort, network>>

Scanner == \/ SetUp \/ SetUpFails \/ Guard \/ SigInt \/ SigTerm
           \/ Loop \/ Launch \/ LaunchFails \/ LaunchEnd
           \/ Wait \/ Drain \/ DrainEnd \/ Sweep
           \/ CloseFds \/ Unguard \/ Report

-----------------------------------------------------------------------------
(* The surroundings.                                                       *)

(* A segment in answer to p's SYN arrives, now or much later.              *)
Answer(p) ==
    /\ pc \notin {"fallback", "unguard", "report", "done"}
    /\ owed[p] > 0
    /\ owed' = [owed EXCEPT ![p] = @ - 1]
    /\ \E k \in Kind :
          /\ inbox' = inbox \cup {[kind |-> k, from |-> p, to |-> via[p]]}
          /\ accepted' = IF k = "synack" THEN accepted \cup {p} ELSE accepted
    /\ UNCHANGED <<scanner, abort, via>>

(* SIGINT or SIGTERM while the scan's handler is installed.  (Under the    *)
(* old handlers it is not this module's affair.)                           *)
Interrupt ==
    /\ \E s \in Signal : handler[s] = "scan"
    /\ abort' = TRUE
    /\ UNCHANGED <<scanner, network>>

Older(e) == IF e # NoEntry /\ e.age < Timeout THEN [e EXCEPT !.age = @ + 1] ELSE e

Tick ==
    /\ InUse # {}
    /\ pending' = [s \in SrcPort |-> Older(pending[s])]
    /\ UNCHANGED <<pc, stage, fds, handler, locked, next, cursor, out, report,
                   verdict, abort, network>>

Over == pc \in {"done", "fallback"} /\ UNCHANGED vars

Next == Scanner \/ (\E p \in Port : Answer(p)) \/ Interrupt \/ Tick \/ Over

(* The thread is scheduled and time passes; nobody owes an answer.         *)
Spec == Init /\ [][Next]_vars /\ WF_vars(Scanner) /\ WF_vars(Tick)

-----------------------------------------------------------------------------
(* Properties.                                                             *)

(* The counters add up and no port is forgotten: each one taken from the   *)
(* list is counted or pending, so no source port is ever given to two SYNs *)
(* (pending.emplace would silently drop the second).                       *)
CountersAddUp ==
    /\ out.scanned = Cardinality(out.open) + out.timeouts + out.refused + out.other
    /\ pc # "done" => next = out.scanned + Cardinality(InUse)

(* However the scan ends, fallback included, it holds nothing any more:    *)
(* no descriptor, no lock and no signal handler.                           *)
NothingHeld ==
    pc \in {"fallback", "report", "done"} =>
       fds = {} /\ ~locked /\ \A s \in Signal : handler[s] = "old"

(* The scan is a port scan: see PortScan.tla.                              *)
Scan == INSTANCE PortScan
RefinesPortScan == Scan!ScanSpec

(* An entry of the open list means that the target accepted a connection   *)
(* on that port (TcpOpen::ok).                                             *)
OpenMeansAnswered == out.open \subseteq accepted

(* The scan ends, though the target owes no answer.                        *)
ScanReturns == <>(pc \in {"done", "fallback"})
=============================================================================
