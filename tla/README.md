# ByeByeVPN in TLA+

ByeByeVPN scans one host from the outside and says how detectable the VPN on
it is: it resolves the name, asks seven GeoIP services about the address, scans
TCP ports with thousands of connects in flight, sends UDP handshakes,
fingerprints what answered, provokes it with junk, and adds the evidence up to
a score. The modules here specify its concurrent core (the port scanner in its
three forms and the thread pool), the session around it with the lookups and
the readers of what they bring back, and the full scan with its probes and its
verdict, as state machines and operators translated from the C++ source; they
are model-checked with TLC, and the main invariants proved with TLAPS.

Run a model with `tlc -config MCThreadPool.cfg MCThreadPool` and a proof with
`tlapm ThreadPoolProofs.tla`. PROJECT.json lists the runs, the source lines
each definition stands for, the deliberate faults each property was seen to
catch, and the hazards of the code with the properties that answer them.

## 1. The system

| component (under src/src) | state | operations | talks to |
|---|---|---|---|
| thread pool (`network/tcp_async_scan.cpp` 124-169) | task queue, mutex, condition variable, jthreads with stop tokens | construct, `enqueue`, worker loop, destructor | collector (futures) |
| connect workers (174-321; IOCP 324-591) | shard, `next_idx`, `active` map, epoll set, `WorkerResult` | launch, epoll wait, events, timeout sweep | kernel, stop flag, progress counter |
| collector and watchdog (964-1101) | futures, sums, `last_progress` | submit, poll, merge, stop | workers, pool |
| SYN scan (597-961) | two raw sockets, epoll, signal handlers, source-port cursor, `pending` map | set up, send, drain, sweep, release | network, signals, connect scan as fallback |
| scan entry (1105-1189, `network/port_scan.cpp`) | port mode, `ScanStats` | build the list, choose the engine, report | the two engines |
| blocking client (`network/tcp_scanner.cpp`) | one socket | connect over all addresses, receive, send all | probes, HTTP client |
| DNS (`network/dns.cpp`) | none | resolve, IPv4 first | full scan |
| UDP probes (`network/udp_scanner.cpp`, `vpn_probes.cpp`) | one socket | send, wait, receive | full scan |
| OpenSSL runtime (`network/openssl_runtime.cpp`) | cached outcome, providers, mutex | init, clean up, attach a socket | every TLS user |
| HTTP client (`network/http_client.cpp`) | socket, SSL, response | GET over HTTP or HTTPS | GeoIP, CT |
| TLS, HTTPS, service, J3 probes (`network/*_probe*.cpp`) | one exchange each | probe | full scan |
| analysis (`analysis/*.cpp`) | none | SNI consistency, brand, CT, GeoIP | full scan |
| full scan (`cli/orchestrator.cpp`) | `FullReport`, `ScoreBook` | seven phases, verdict | all of the above |
| JSON reader, output (`core/utils.cpp`) | position; log file | parse, find a key; tee, save | GeoIP, CT |
| command line, menu (`main.cpp`) | globals of `core/utils.h` | parse, clamp, dispatch, menu | full scan |

The hard behaviours are the ones of the port scanner: several threads share a
stop flag, a progress counter and the descriptor table; kernel, target, clock
and signals act between any two steps; descriptors and source ports are reused
while old events and answers are still under way; any system call can fail
half-way through. Elsewhere the difficulty is waiting (a future or a read with
no limit) and rules that combine evidence of several probes.

What makes each part correct:

* pool: every task runs exactly once, no wake-up is lost, the destructor returns;
* connect scan: each port gets one verdict, "open" is only said of a port that
  accepted, counters and report agree with the verdicts, a gap is announced,
  every descriptor has one owner and none is left, the scan ends;
* SYN scan: the same promise, and everything taken in a set-up is given back;
* sizing: shards partition the list, windows fit the descriptor limit;
* HTTP client: it returns, and says whether the response is whole;
* JSON reader: it ends on any input and finds what a JSON reader would find;
* probes and verdict: evidence found by a probe reaches the verdict, and what is
  lost on the way never makes the verdict worse (section 4 names the answers
  that can lift a penalty, so that losing one may make it worse).

## 2. The modules

| module | models | extends or implements |
|---|---|---|
| `TaskPool` | what a pool promises | abstract |
| `ThreadPool` | class `ThreadPool` | implements `TaskPool` |
| `PortScan` | what a port scan promises | abstract |
| `ConnectScan` | epoll workers, collector, watchdog, report | implements `PortScan` |
| `ConnectWatchdog` | `ConnectScan` with the history "has the machine kept up so far" | extends `ConnectScan` |
| `SynScan` | half-open scan, signal guard, report | implements `PortScan` |
| `IocpScan` | the worker of the Windows build, completion port, report | implements `PortScan` |
| `ScanSizing` | options, limits, port list, shards, windows | establishes `ConnectScan`'s assumption about shards |
| `GeoLookups` | a session: command line, menu, the lookups with `http_get`, their futures, the OpenSSL clean-up | |
| `JsonTokens`, `JsonRead`, `JsonFind`, `CtJson` | tokens; `JSON::parse`; `json_get_str` on what it returns; the strict, counting reader | `JsonFind` extends `JsonRead` |
| `JsonGrammar`, `JsonPrefix` | what documents mean, and which bodies have the shape of one so far (neither is code) | |
| `JsonReaders` | the readers compared with the grammar | extends the readers and both grammars |
| `Probes` | resolver, blocking client, service, TLS, HTTPS and UDP probes, as functions of what their calls meet | |
| `SniCheck`, `J3Analysis`, `Verdict` | conclusions of the SNI check; of the junk probes; signals, score, label, stack, tier | |
| `FullScan` | the seven phases and the probes of each port | composes `Probes`, `SniCheck`, `J3Analysis` and `Verdict` |
| `ThreadPoolProofs`, `ConnectScanProofs`, `IocpScanProofs`, `SynScanProofs`, `ScanSizingProofs`, `GeoLookupsProofs`, `FullScanProofs`, `JsonReadProofs` | theorems | extend the modules they are about |
| `MC*` | instances for TLC | extend the modules they instantiate |

Operators whose comment starts with "fault" are plausible mistakes in the
definition that follows them; no specification uses them. PROJECT.json pairs
each with a property that fails when the mistake replaces the definition.

**ThreadPool.** A critical section under `mu_` is one action (`Enqueue`,
`Take`, `Park`, `Quit`); `Notify` is an action of its own because `enqueue`
notifies after it has unlocked. The caller (`caller`, `spawned`, `joining`)
constructs the threads one by one, and a constructor may throw (`SpawnFail`);
it may destroy the pool at any time, as stack unwinding would. The destructor
of `workers_` is `RequestStop`, which wakes every waiter through the wait's stop
callback, then `Join`, thread by thread. `Take` comes before `Quit` because the
wait's predicate is evaluated whatever the stop token says: the queue is
drained. Spurious wake-ups happen and are owed to nobody.

**ConnectScan.** Each worker is a program counter over the loop of
`scan_connect_worker_epoll`: `Loop` reads the condition, `NoSocket`, `Connect`
and `Launched` are `launch_connect` cut where the kernel can act in between,
`Wait` samples `now` and the ready set, `Event` and `Sweep` handle one entry
each, `Finish` reads the stop flag again and releases everything. `Submit`,
`Poll`, `Watch` and `Return` are the collector. Descriptors are numbers from a
table shared by all workers, handed out lowest first as POSIX requires, so that
a number freed by one worker is at once taken by another. `Answer` and `Reset`
are the target, `Tick` the clock; ages stop counting at the limit they are
compared with. `verdict` and `accepted` are history, for the refinement.
A worker waiting for tasks uses no more of the pool than TaskPool's promise:
each submitted task begins once.

**SynScan.** One thread; the network keeps, per port, the source port its SYN
left from and how many answers may still come, and delivers them whenever it
likes. `SrcPortAt` is the arithmetic of the code, with C++'s remainder and a
cursor that is a 16-bit word: after a wrap it counts from below 40000. `Stale`
says whether an answer may outlive the reuse of its source port. `SetUp` and
`SetUpFails` walk the seven steps that may fail, each failure closing what the
code closes; `Guard`, `SigInt`, `SigTerm` and `Unguard` are the signal guard.

**IocpScan.** The worker of `scan_connect_worker_iocp`, one of them, with the
stop flag raised from outside at any time. `Launch` is `launch_connect` up to
the call of `ConnectEx`; the call returns in a step of its own (`CallPending`,
`CallDecides`), because the connect may be over before it does. The kernel owns
the OVERLAPPED of a connect until it has queued its packet (`op`, `queue`), so
a connect that timed out is `retired` and its memory kept. Two assumptions are
parameters: `Prompt`, that a cancelled connect completes within one wait of the
closing drain (the drain stops at the first quiet 20 ms, although its constant
says 1000 ms), and `Reuse`, whether the allocator may hand out the address of
an OVERLAPPED whose packet is still queued.

**ScanSizing.** From `--threads` through `clamp_threads_to_nofile_limit` and
`build_tcp_ports` to the shards, with every constant of the code a parameter. A
shard holds positions of the list, since `--ports` may name a port twice.

**GeoLookups.** The main thread starts with a command (`Command`) or in the
menu (`Menu`), which reads a finite number of lines of standard input and then
its end; `Pause` is the prompt between two items. A full scan and the item or
command for GeoIP alone (`job`) launch the lookups, take them in the fixed
order of the code, scan and leave; `Unwind` is the way out when a launch
throws, through the destructors of the futures, each of which waits for its
thread. A lookup is the path of `http_get` over TLS (`Connect`, `Handshake`,
`Request`, `ReadRecord`, `ReadEnd`), each step with its early returns, and then
`JSON::parse` on the body, which comes to an end (`Parse`) or meets a closer of
the wrong kind and does not (`stuck`; `JsonRead` says when). `Scan` is the other
phases as far as one of the two places in them that have no limit: the drain
loop of the SYN scan (`Drained` leaves it) and the request to crt.sh
(`Answered`), which is the same `http_get`. A receive
timeout in the response loop is `SSL_ERROR_WANT_READ`, after which `SSL_read` is
called again: it changes nothing, so it is no action. A write to a dropped
connection may raise SIGPIPE, which nothing ignores: then the process is gone
(`killed`).

**JsonRead.** The recursion of `JSON::parse` is a stack of frames, one per open
object or array, with the one position all calls share. `Return` hands a value
to the caller on top of the stack and makes the skips that follow in its loop;
`Put` is `o[k] = v`. An array stops growing at `MaxElements`, for TLC's sake: it
is proved that nothing is kept out by it unless the reader is stuck. A quoted
string is one token, so the escapes are left out; a quote that nothing closes
is a token too. `JsonFind` (`find_key`) and `CtJson` (the strict reader) keep
the recursion of the code as recursive operators, apart from `JsonRead`, so
that it can be proved about. `JsonGrammar` builds every document up to a length
with its value, bottom up; `JsonPrefix` follows a body token by token. Neither
shares anything with a reader.

**Probes.** Each probe is a sequence of blocking calls whose outcomes the
network chooses; the module says what the probe concludes from them: which
address `tcp_connect` ends up with and which of several errors it reports, how
a non-blocking TLS handshake ends, how much of a page six reads bring, what a
first line is taken for. A reply is one of the eight kinds the code can tell
apart.

**FullScan.** What listens on a port is a record of `Is`: its replies, the
certificates it may show for each name, its page and its answers to junk. Each
exchange with it may fail, stay unanswered or bring a reply cut short (`Heard`,
`Shakes`, `HttpsSeen`), and two handshakes need not agree. Each port's record
then goes through the probes in the code's order (`Ssh`, `Tls`, `Http`, `Socks`,
`OrUnknown`), each writing over the fingerprint of the one before. A port asked
for twice with `--ports` is there twice and counts twice, as in the code.
`Verdict` turns the records into the set of signals; an entry gives each kind
once, so that the sum of penalties is a sum over a set. `J3Analysis` counts
replies that are told apart by first line and length. Names, brands and AS
organisations are model values related by `Covers`, `Brand` and `Owns`.

## 3. The runs

| run | instance | shows |
|---|---|---|
| `thread_pool` | 2 threads, 3 tasks | `NoLostWakeup`, refinement of TaskPool, `EveryTaskRuns`, `DestructorReturns` |
| `connect_scan` | 2 workers, shards of 2 and 1, window 1, 2 descriptors | `DescriptorsOwned`, `NothingLeftOpen`, `CountersAddUp`, `GapsAreAborts` |
| `connect_scan_deep` | 1 worker, 3 ports, window 2, 3 descriptors, one event per wait | refinement of PortScan, `PatientTimeouts`, `ScanReturns`; `WatchdogQuiet` as long as the machine keeps up |
| `iocp_scan` | 3 ports, window 2, 3 addresses; `Prompt`, no `Reuse` | `ResourcesOwned`, `CountersAddUp`, refinement of PortScan, `ScanReturns` |
| `iocp_scan_stale` | the same with `Reuse` | `OpenMeansAccepted` fails |
| `syn_scan` | 3 ports, window 2, 2 source ports, a 6-valued cursor word | refinement of PortScan, `CountersAddUp`, `NothingHeld`, `ScanReturns` |
| `syn_scan_stale` | the same, late answers allowed | `OpenMeansAnswered` fails |
| `scan_sizing` | the code's constants divided by about 16; nine limits, four machines | `ShardsPartition`, `WindowsBounded`, `DescriptorsFit` |
| `geo_lookups` | 2 providers, up to 2 records, which exceed the size limit together; up to 6 lines of input | `NoUseAfterCleanUp`, `AnswersAreFinished`, `EndsUnlessSilent` |
| `json_readers` | every document of up to 9 tokens, whole, cut off or with one damage; every body of up to 3 | `ReadsWellFormed`, `FindsTheOnlyOne`, `StrictExact`, `TruncatedReturns` |
| `json_malformed` | the same with 5 and 2 | `ParseReturns` fails |
| `full_scan` | ten targets of up to two ports, nine kinds of server; 3 certificates, 2 foreign names | `CleanIsQuiet`, `CdnExcuses`, `ProxyIsSeen`, `AccusedOfWhatItIs`, `RealityHasGrounds` |

*Why the bounds are enough.* Two threads are the least with which one can be
parked while another runs; a third task makes one thread take two. Two workers
with two descriptors in `connect_scan` are one short of what they need (an
epoll instance and a connect each), so that both kinds of descriptor run out
and every closed number is reused by the other worker; the timeout and stall
limits of one tick make the watchdog fire in every phase. In
`connect_scan_deep` a window of two and one event per wait give an answer that
has arrived but is not yet reported when its timeout passes. `iocp_scan` has
one address more than connects in flight, so that one can be retired while two
are active, and a third port that reuses an address. In `syn_scan` the
third SYN's source port comes from after the cursor's wrap and collides with
the first one's unless it is still pending. `scan_sizing` has limits below, at
and just above the reserve, and just enough for two smallest windows, with
lists shorter and longer than the number of workers. In `geo_lookups` one
lookup is being taken while the other still runs, or is not yet started, when a
launch fails or a provider goes silent; six lines of input are a menu item with
its questions, a pause, a second item and the end of input in the middle of
one. Nine tokens are enough for an object in an
object with a second member, or an array of two objects: the positions in which
a reader can mistake one parent for another. In `full_scan` two foreign names
and a minimum of two answered (the code has ten and three) give lost, same and
different certificates in every combination; each kind of port occurs with
servers that fit it and with one that does not, and once twice. Two ports
suffice because no rule of phase 7 relates two ports other than by "some
port".

*Fairness.* Threads that can run do run (the scheduler), time passes (`Tick`),
and nothing is asked of the target: it may stay silent for ever. In ThreadPool
nobody is obliged to enqueue or to destroy, but once inside `notify_one` or the
destructor the caller goes on. The drain loop of the SYN scan ends because the
network has finitely many answers; endless traffic is listed as a hazard.
In `geo_lookups` the main thread and every lookup go on where they can, and
connect, handshake and write end by their timeouts; the providers owe nothing,
and the user enters what is left of the input. Nothing makes `Drained` or `Answered`
happen, and a lookup that is `stuck` has no step but to run out of memory.
`EndsUnlessSilent` says that the program ends or waits for ever in one of five
places: for a provider that took a request and neither answers nor closes, in
`JSON::parse` before a wrong closer, for crt.sh, for a pause in the packets of
the raw socket, or in the menu, which reads empty lines when the input has ended.
Parsing and the full scan are sequential: the next step is taken.
In `iocp_scan` the worker runs, time passes and the kernel completes what was
cancelled; nobody has to raise the stop flag. `WatchdogQuiet` asks for no
fairness: `ConnectWatchdog` records whether every tick so far passed while all
workers waited for the network and the collector had seen all progress. A tick
stands for a good part of a second, the collector loops every 20 ms.

*Three disagreements.* `syn_scan_stale`: the receiver matches an answer with a
pending SYN by source port alone; the answering port and the acknowledged
number are not read, so an answer late by more than a full cycle of source
ports can put a port on the open list that never answered (the comment at
`port_scan.h:24` says an entry means the connection succeeded).
`iocp_scan_stale`: a `ConnectEx` that returns TRUE frees its OVERLAPPED at once,
but its packet is still queued, since `FILE_SKIP_COMPLETION_PORT_ON_SUCCESS` is
never set; when the next connect gets the same address, the old packet lists it
as open (the same comment).
`json_malformed`: a test says that `json_get_str` tolerates malformed input; on
a bracket closed by a brace, or the reverse, `JSON::parse` neither moves nor
returns, and the array it builds grows. Bodies that are only cut off, which is
what the test tries, do end (`TruncatedReturns`: every `Viable` body, that is,
one with the shape of a document as far as it goes; TLC first compares `Viable`
with the documents of `JsonGrammar` and their cuts). A quirk that contradicts no
document is in `ReadsWellFormed`: a pair of brackets with a blank between them is
read as one empty element or member.

## 4. The proofs

TLAPS checks these for every value of the constants the modules' assumptions
allow.

* `ThreadPoolProofs`: `PoolTypeCorrect`, `WakeupsAreNotLost`,
  `ImplementsTaskPool`. The inductive invariant `PoolInv` adds to the types
  and to `NoLostWakeup` that the queue is an increasing run of submitted tasks
  (`Fifo`), that a task is in one place (`Handed`) and where the caller can be
  (`Control`). `NoLostWakeup` alone is not inductive: a thread that parks must
  know that the queue is empty *and* that nobody is between pushing and
  notifying. The refinement needs `Handed`, or a step could change two
  statuses.
* `ConnectScanProofs`: `TypeCorrect`, `DescriptorsAlwaysOwned`,
  `NoDescriptorLeaks`, `WatchdogStaysQuiet`. `TypeInv` adds to the types what
  each program counter says of the worker's registers; `FdInv` adds the port
  of the connect being launched. Ownership is preserved because a new
  descriptor is the lowest free one and free means owned by nobody, which is
  the invariant itself. `WatchdogStaysQuiet` assumes that the stall limit is
  not below the connect time-out; the code takes `max(8000, 6 * timeout_ms)`.
  In `WatchInv`, time without progress (`stalled`) is either progress the
  collector has not read yet or every worker is `Stuck`: it can launch no
  more, and each of its connects is at least as old as the stall. So when the
  stall reaches the time-out each has timed out, the next sweep makes
  progress, and the limit is not passed.
  The second half of the module is about what is counted and reported:
  `CountersAlwaysAddUp`, `GapsAreAlwaysAborts`, `TimeoutsArePatient`,
  `ConnectImplementsPortScan`, `DescriptorsAlwaysSuffice`. `CountInv` says that
  the ports before `next_idx` are the counted ones and the pending ones, each
  pending one once; sums over sets go through finite cardinalities. `GapInv`
  adds `LeftOrStopped`: a worker past its loop has scanned its shard or the
  flag is raised, and the flag is never lowered, which is why reading it a
  second time is safe. `TimeoutsArePatient` needs that what a sweep still has
  to expire was old enough when `now` was read and has only grown older
  (`AgeInv`). For the refinement `ScanInv` says, for each worker and for the
  collector's sums, that a counter is the number of ports with its verdict
  (`Agrees`), that what is pending or not yet taken is undecided (`Undecided`),
  that an event is only handled of a connect that is over and success only
  reported of a port that accepted (`Heard`, `Truthful`), and that the report
  comes when every result is taken (`Ends`). A step of a worker then decides
  ports that were undecided, or nothing. `DescriptorsAlwaysSuffice` composes
  with ScanSizing: with what `DescriptorsFit` promises, a full window and an
  epoll instance for each worker, a worker about to open a descriptor finds one
  free. No run checks it, because `connect_scan` is one descriptor short on
  purpose; `WindowInv` (no window is overrun) bounds what each worker holds,
  and `FamilyBound` adds the bounds up over the workers, by a smallest
  counterexample.
* `IocpScanProofs`: `IocpTypeCorrect`, `IocpCountersAddUp`,
  `IocpResourcesOwned`, `IocpImplementsPortScan`, `IocpOpenMeansAccepted`.
  `TypeInv` adds what each step says of the call under way (`Calling`), of the
  ports in `active` (`Placed`) and of the way out (`Leaving`); `CountInv`
  counts verdicts (`Agree`) and says that a gap is announced (`Announced`).
  Neither needs an assumption about the kernel. `KernelInv` does: an
  OVERLAPPED belongs to one connect from its call until its packet is taken
  (`Apart`, `Matching`), so a packet found in `active` is of the connect
  entered there, and one that is `retired` stays allocated (`Kept`). That no
  queued address is handed out again (`Reuse` false) is needed at exactly one
  place, the launch, and without it TLC finds the disagreement of section 3;
  `IocpOpenMeansAccepted` proves the comment TLC refuted there under that one
  condition. Freeing at the end needs `Prompt` as well; the refinement does
  not.
* `SynScanProofs`: `SynTypeCorrect`, `SynLeavesNothing`, `SynCountersAddUp`,
  `SynImplementsPortScan`, `SynOpenMeansAnswered`. The types need that an
  answer is owed only to a SYN that was sent (`Sent`); `NothingHeld` speaks of
  the end only, and `Held` says what is held at each step of the set-up and of
  the way out. In `CountInv` the ports before `next` are the pending ones,
  each under one source port, and the counted ones; a launch preserves it
  because the port it is given is the first free one on the cursor's way, and
  without one the port is given up and counted. The refinement adds that
  verdicts and counters agree (`Agree`), that a SYN-ACK on its way is from a
  port that accepted, and that whoever answers a pending source port is the
  port asked from it (`Traced`), and needs that no answer is stale: with stale
  answers TLC finds a port said open that never answered (section 3), and
  without them `SynOpenMeansAnswered` says that there is none.
* `ScanSizingProofs`: the invariants of the run, the types, and
  `ShardsAlwaysEven` (shard sizes differ by at most one). `DealInv` describes
  the shards after `dealt` ports through division and remainder; `SizeInv`
  carries the bound on the threads from the clamp to the windows. The
  assumption that the reserve exceeds one descriptor per worker is the code's
  128 against 39.
* `GeoLookupsProofs`: `GeoTypeCorrect`, `ReleasedLast`,
  `ShownAnswersAreFinished`. `NoUseAfterCleanUp` is not inductive: `Order`
  adds that what has been taken has returned, that all lookups were started
  when taking begins, and that all have returned on every way to the clean-up.
  `Answers` adds to `AnswersAreFinished` how each result, taken or not, came
  to be one.
* `FullScanProofs`: `FullTypeCorrect`, `CdnAlwaysExcuses`, `ProxyAlwaysSeen`,
  `AlwaysAccusedOfWhatItIs`, `RealityAlwaysHasGrounds`, `CleanIsAlwaysQuiet`,
  for every target, every set of servers and certificates and every way to
  lose or cut replies, as long as no cut makes a reply look like a proxy's.
  The verdict is a function of the evidence (`Reported`), so the invariant is
  about the evidence: each entry is `Honest`, that is, what it says of a
  proxy, a certificate or the CT logs is true of the server of its port, and
  its SNI part is the conclusion from some handshakes (`Entries`); the entry
  of a port that answered as a proxy says so (`Proxies`). The work is in the
  probes of one port, which write over each other: `ProbedHonest` shows that
  what is left at the end is still true, and that nothing after the answer of
  a proxy hides it. `CleanIsAlwaysQuiet` is about the score, a sum over a set:
  the fold of the community modules is a recursive function, whose existence
  is itself proved by a smallest counterexample (`SomeAdds`); then
  `TotalAtLeast` says that a sum is at least any part of it, and two strong
  signals are worth more than CLEAN allows, as one of a VPN is alone.
  `LossNeverAccuses` compares the verdict of a finished scan with that of any
  scan which, port by port, lost less of the same (`Missed`): the one that lost
  more gives no signal the other does not give, no lower score and no higher
  tier. A port's entry is first shown to be a function (`Entry`) of what its
  probes met, through every overwriting (`RecordedInductive`). Then
  `MissedSaysLess` goes through the probes: a lost reply never makes room for a
  worse one. That fails if the HTTP probe writes over the entry after the
  proxy probes. `MoreEvidenceIsWorse` carries this to the verdict, which is
  monotone in what the entries say; for the score a sum over a larger set must
  be larger (`TotalGrows`), hence independent of the order in which the fold
  takes the members (`AnyFirst`). What may have been lost are the banner, the
  proxies' replies, handshakes, CT answers, junk replies, UDP answers and ports
  found after the others. Four answers can lift a penalty, so the theorem does
  not let them differ: those of the GeoIP services, which may name a CDN; a page,
  whose header may; one foreign name more in the SNI check, if it brings the
  server's own certificate; and a single junk reply.
* `JsonReadProofs`, about `JSON::parse` on bodies of any length.
  `JsonTypeCorrect` and `OrderListsMembers`: what is built is whole, that is,
  `order` names each member of an object once and nothing else, down to any
  depth (`Whole`: there is a family of values, closed under members and
  elements, to which it belongs; a definition by recursion could not be used).
  `NeverPastWrongCloser`: before a closer of the wrong kind the reader stays
  for ever, so the disagreement of section 3 is one of every body that leads
  there. `EveryStepAdvances`: otherwise every step lowers `Rank`, made of the
  rest of the body, the open calls and the phase of the loop, so a wrong closer
  is the only way not to end. `BoundKeepsNothingOut`: every element costs a
  token (`Paid`). `ViableNeverStuck`, `ViableAdvances` and `WholeBodyUsed` go
  along the grammar: on a body of `JsonPrefix` the calls in progress are for
  the brackets that are open and want what the grammar expects (`Synced`), so
  no wrong closer comes up, and when parse returns only spaces are left.

Proved and not among the runs' properties: `ShardsAlwaysEven`, the types of
ScanSizing, FullScan and JsonRead, `DescriptorsAlwaysSuffice`,
`IocpOpenMeansAccepted`, `SynOpenMeansAnswered`, `LossNeverAccuses` and the
results about `JSON::parse`.

Only model-checked: everything under fairness (`EveryTaskRuns`,
`DestructorReturns`, `ScanReturns`, `EndsUnlessSilent`, `TruncatedReturns`),
which the prover cannot reach, although for `TruncatedReturns` the part that is
not about fairness is proved (`ViableAdvances`: a natural number falls with
every step); and what the JSON readers find (`ReadsWellFormed`,
`FindsTheOnlyOne`, `StrictExact`), which are inductions over documents and, but
for the first, about recursive definitions, out of its reach as well.

## 5. Abstractions and what is left out

Milliseconds are ticks; payloads, banners and timings of open ports do not
appear. `socket()` fails for want of a descriptor; that it may fail otherwise is
left out (the port is counted the same way), and so is a failure of the
`epoll_ctl` with which the SYN scan registers its raw socket, which the code does
not look at: every port would end as a timeout. Memory exhaustion and tasks that throw are not modelled in the port
scan (the constructor of a thread is); in GeoLookups a lookup may throw.
The three engines take a list without duplicates, although `--ports` may repeat
a port; ScanSizing and FullScan allow it. IocpScan has one worker, as the code
makes for short lists; workers share nothing but the stop flag and the counter
of ConnectScan. `http_get` over plain HTTP is left out, since every caller asks
for HTTPS, and so are its URL parsing and chunked decoding, and which field of
each GeoIP provider's answer goes where. The escapes inside JSON strings, the
brand table, the matching of names, and the bytes of the requests are data.
Notes, the exposure matrix and suggestions of phase 7 print what the modelled
flags say. The start-up of OpenSSL is modelled by what the end of the program
releases. Build files, tests and packaging are not part of the program.

Met on the way, and contradicting no document: `--udp-to` is parsed but the UDP
probes wait for their own 1500 ms; `TcpOpen.banner` is never set, so that SSH is
only recognised on the three ports where the probe reads it; `--ports 80
--ports ,` leaves the list mode with an empty list; a name that does not resolve
makes a connect scan report every port as `other`, none of them scanned, and
nothing skipped; the time-outs of `https_probe` are per receive, so that six
slow parts take six of them.

## 6. The plan

1. To model: what each GeoIP provider's fields are taken from (`geoip.cpp`),
   over `JsonRead`; the chunked decoding of `http_get`; `j3_analyze` against a
   reference count, and whether an ordinary server can look canned (it gets two
   well-formed requests, and lengths stop at 1023).
2. `verdict.h` calls a score below 50 a detection of a VPN, and old TLS, a
   self-signed certificate and a bad HTTP version can get there together
   without any sign of one: to be settled with `FullScan`.
3. To prove: that what `JSON::parse` builds from a document is its value. It
   needs the value a prefix denotes, carried along `JsonPrefix` as its open
   brackets are; what is proved is that the calls and the grammar agree on
   where they are.
