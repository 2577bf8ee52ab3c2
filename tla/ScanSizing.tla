----------------------------- MODULE ScanSizing -----------------------------
(***************************************************************************)
(* From the command line to the shards: how --threads, the descriptor      *)
(* limit, the port mode and the machine decide how many workers a connect  *)
(* scan has, how many connects each keeps in flight and which ports each   *)
(* scans (main_impl, clamp_threads_to_nofile_limit, build_tcp_ports and    *)
(* the first part of run_connect_scan_with_pool).                          *)
(*                                                                         *)
(* The code's constants are parameters, so that a small instance has all   *)
(* the corners.  A shard holds positions of the port list: --ports may     *)
(* name a port twice, and both entries are scanned.                        *)
(***************************************************************************)
EXTENDS Naturals, Sequences, FiniteSets

CONSTANTS
    MinThreads, MaxThreads, DefaultThreads,   (* 1, 10000, 1200        *)
    Reserve,                (* kNofileReserve, 128                     *)
    Floor, Ceiling,         (* 64 and 16384: what inflight_total is    *)
                            (* clamped to                              *)
    PerWorker,              (* 256: connects that make a worker        *)
    ManyPorts,              (* 2048: ports that make a second one      *)
    MaxPort,                (* kMaxPortNumber                          *)
    FastPorts,              (* kTcpFastPorts                           *)
    Lists,                  (* what --ports may be given               *)
    Limits, Cores,          (* the machines: RLIMIT_NOFILE, 0 for none *)
                            (* or infinity; and hardware_concurrency,  *)
                            (* 0 for unknown                           *)
    Stdio                   (* descriptors open before the scan        *)

ASSUME SizingAssumption ==
    /\ MinThreads \in Nat \ {0} /\ MaxThreads \in Nat
    /\ DefaultThreads \in MinThreads..MaxThreads
    /\ Reserve \in Nat /\ Floor \in Nat \ {0} /\ Ceiling \in Nat
    /\ MaxThreads <= Ceiling /\ Floor <= Ceiling
    /\ PerWorker \in Nat \ {0} /\ Floor <= PerWorker
    /\ ManyPorts \in Nat /\ MaxPort \in Nat \ {0}
    /\ FastPorts \in Seq(1..MaxPort) \ {<<>>}
    /\ Lists \subseteq Seq(1..MaxPort) \ {<<>>}
    /\ MaxThreads \div PerWorker + Stdio <= Reserve /\ 2 + Stdio <= Reserve
    /\ MinThreads <= 2 * Floor
    /\ Limits \subseteq Nat /\ Cores \subseteq Nat /\ Stdio \in Nat

VARIABLES
    pc,           (* where the program is                              *)
    limit, hw,    (* the machine it runs on                            *)
    threads,      (* g_threads                                         *)
    ports,        (* the list build_tcp_ports returned                 *)
    total,        (* inflight_total                                    *)
    workers,      (* workers                                           *)
    each,         (* inflight_per_worker                               *)
    dealt,        (* i: how many ports have been dealt                 *)
    shards        (* shards, from 0                                    *)

vars == <<pc, limit, hw, threads, ports, total, workers, each, dealt,
          shards>>

Workers == 0..(workers - 1)

TypeOK ==
    /\ pc \in {"args", "clamp", "ports", "size", "deal", "ready", "error"}
    /\ limit \in Limits /\ hw \in Cores
    /\ threads \in 1..MaxThreads
    /\ ports \in Seq(1..MaxPort)
    /\ total \in {0} \cup Floor..Ceiling
    /\ workers \in Nat /\ each \in Nat
    /\ dealt \in 0..Len(ports)
    /\ shards \in [Workers -> Seq(DOMAIN ports)]

Init ==
    /\ pc = "args"
    /\ limit \in Limits /\ hw \in Cores
    /\ threads = DefaultThreads
    /\ ports = <<>>
    /\ total = 0 /\ workers = 0 /\ each = 0 /\ dealt = 0
    /\ shards = [w \in Workers |-> <<>>]

-----------------------------------------------------------------------------
AtMost(a, b)     == IF a <= b THEN a ELSE b
AtLeast(a, b)    == IF a >= b THEN a ELSE b
Clamp(x, lo, hi) == AtMost(AtLeast(x, lo), hi)

(* try_parse_int's range check.                                            *)
InRange(n) == MinThreads <= n /\ n <= MaxThreads

NoOption ==
    /\ pc = "args"
    /\ pc' = "clamp"
    /\ UNCHANGED <<limit, hw, threads, ports, total, workers, each,
                   dealt, shards>>

(* --threads n; parse_int_fatal exits when n is out of range.              *)
ThreadsOption ==
    /\ pc = "args"
    /\ \E n \in 0..(MaxThreads + 1) :
          IF InRange(n) THEN pc' = "clamp" /\ threads' = n
                        ELSE pc' = "error" /\ UNCHANGED threads
    /\ UNCHANGED <<limit, hw, ports, total, workers, each, dealt, shards>>

(* What the descriptor limit leaves of n threads.                          *)
(* (fault: no descriptor is kept back)                                     *)
NoReserve(n) == IF limit = 0 THEN n ELSE AtLeast(AtMost(n, limit), MinThreads)
Affordable(n) == CASE limit = 0        -> n
                   [] limit <= Reserve -> MinThreads
                   [] OTHER            -> AtMost(n, limit - Reserve)

ClampThreads ==
    /\ pc = "clamp"
    /\ threads' = Affordable(threads)
    /\ pc' = "ports"
    /\ UNCHANGED <<limit, hw, ports, total, workers, each, dealt, shards>>

(* build_tcp_ports: --full, --fast, --range lo-hi or --ports; main_impl    *)
(* has checked the range and the list entries, and an empty --ports leaves *)
(* the mode as it was.                                                     *)
Built == {[i \in 1..MaxPort |-> i], FastPorts} \cup Lists
            \cup {[i \in 1..(r[2] - r[1] + 1) |-> r[1] + i - 1] :
                     r \in {q \in (1..MaxPort) \X (1..MaxPort) : q[1] <= q[2]}}

BuildPorts ==
    /\ pc = "ports"
    /\ \E l \in Built : ports' = l
    /\ pc' = "size"
    /\ UNCHANGED <<limit, hw, threads, total, workers, each, dealt, shards>>

(* How many workers n connects in flight and `many` ports call for.        *)
(* (fault: no look at how few ports there are)                             *)
WorkersRegardless(n, many) ==
    LET cores == IF hw = 0 THEN 4 ELSE hw IN Clamp(n \div PerWorker, 1, cores * 2)
WorkersFor(n, many) ==
    LET cores == IF hw = 0 THEN 4 ELSE hw
        w     == Clamp(n \div PerWorker, 1, cores * 2)
    IN  AtMost(IF many >= ManyPorts THEN AtLeast(2, w) ELSE w, many)

(* (fault: rounded up)                                                     *)
WindowUp(n, w) == AtLeast(Floor, n \div w + 1)
Window(n, w) == AtLeast(Floor, n \div w)

Size ==
    /\ pc = "size"
    /\ total' = Clamp(threads, Floor, Ceiling)
    /\ workers' = WorkersFor(total', Len(ports))
    /\ each' = Window(total', workers')
    /\ shards' = [w \in 0..(workers' - 1) |-> <<>>]
    /\ pc' = "deal"
    /\ UNCHANGED <<limit, hw, threads, ports, dealt>>

(* The shard port i goes to.                                               *)
ShardOf(i) == i % workers

Deal ==
    /\ pc = "deal"
    /\ dealt < Len(ports)
    /\ shards' = [shards EXCEPT ![ShardOf(dealt)] = Append(@, dealt + 1)]
    /\ dealt' = dealt + 1
    /\ UNCHANGED <<pc, limit, hw, threads, ports, total, workers, each>>

DealEnd ==
    /\ pc = "deal"
    /\ dealt = Len(ports)
    /\ pc' = "ready"
    /\ UNCHANGED <<limit, hw, threads, ports, total, workers, each,
                   dealt, shards>>

Over == pc \in {"ready", "error"} /\ UNCHANGED vars

Next == NoOption \/ ThreadsOption \/ ClampThreads \/ BuildPorts \/ Size
        \/ Deal \/ DealEnd \/ Over

Spec == Init /\ [][Next]_vars

-----------------------------------------------------------------------------
(* Properties.                                                             *)

(* The workers together scan what was asked for: every entry of the list   *)
(* is in one shard, once, and no worker gets an empty shard (which would   *)
(* be counted as one more future with nothing to report).  This is what    *)
(* ConnectScan.tla assumes of its shards.                                  *)
ShardsPartition ==
    pc = "ready" =>
       /\ \A w \in Workers : shards[w] # <<>>
       /\ \A i \in DOMAIN ports : \E w \in Workers : \E k \in DOMAIN shards[w] :
             shards[w][k] = i
       /\ \A w, v \in Workers : \A j \in DOMAIN shards[w], k \in DOMAIN shards[v] :
             shards[w][j] = shards[v][k] => w = v /\ j = k

(* No worker has more than one port more than another, so none works long  *)
(* after the rest is done.                                                 *)
ShardsEven == pc = "ready" => \A w, v \in Workers : Len(shards[w]) <= Len(shards[v]) + 1

(* The workers' windows together do not exceed inflight_total, but for two *)
(* workers sharing a small one, which then hold the floor twice.           *)
WindowsBounded == pc \in {"deal", "ready"} => workers * each <= AtLeast(total, 2 * Floor)

(* The scan fits in the descriptor limit main_impl clamped --threads to:   *)
(* every window full, an epoll instance per worker and what was open       *)
(* before.  The limit must leave room for the two smallest windows, which  *)
(* no clamp can shrink.                                                    *)
Descriptors == workers * each + workers + Stdio
DescriptorsFit ==
    pc \in {"deal", "ready"} /\ limit >= 2 * Floor + 2 + Stdio => Descriptors <= limit
=============================================================================
