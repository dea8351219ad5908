# Verification of xapian-hurryup

The repository runs the Xapian search engine as a latency benchmark
(TailBench) and adds "hurry-up", a scheduler that raises the frequency of a
core while a query is being evaluated on it. This directory holds TLA+ models
of the program's own code (the harness, the search servers and their schedulers,
the generator of queries, the reader of energy counters),
TLC configurations that check them on small instances, and TLAPS proofs.

Paths below are relative to `src/`; `harness/` is `xapians/deps/harness/`.

## 1. Inventory

| Part | Code | State | Operations |
|---|---|---|---|
| Networked server | `harness/tbench_server_networked.cpp`, `server.h` | `clientFds`, `recvClientHead`, `recvLock`, `sendLock`, `reqInfo`, `activeFds`, `reqbuf`, `finishedReqs`, `curTid`, `tid` | constructor (accept), `recvReq`, `sendResp`, `finish`, `removeClient`, `checkRecv`, `tBenchServerThreadStart` |
| Worker loop | `xapians/xapian-pure/server.cpp`, `main.cpp` | `numReqsProcessed`, `numReqsToProcess`, the barrier | `Server::run`, `_run`, `processRequest`, `main`'s create, run, join, finish |
| Networked client | `harness/client.cpp`, `tbench_client_networked.cpp` | `status`, `startedReqs`, `inFlightReqs`, the latency vectors, `lock`, `sendLock`, `recvLock`, the start-up barrier | `startReq`, `send`, `recv`, `finiReq`, `startRoi`, `dumpStats` |
| Framing | `harness/helpers.h`, `msgs.h` | the bytes of a stream | `sendfull`, `recvfull` |
| Hurry-up scheduler | `xapians/xapian-hurryup/server.cpp`, `main.cpp` | `core_mapping`, `schedMap`, `fd`, `running` | thread creation and pinning, `processRequest`'s marks, `hurryScheduler`, `fini` |
| On-demand governor | `xapians/xapian-ondem-hurryup/server.cpp`, `main.cpp` | `coreFreqs`, a step of the frequency table per core, besides hurry-up's state | `hurryScheduler` |
| Integrated server | `harness/tbench_server_integrated.cpp`, `client.cpp` | client and server state in one process | `recvReq`, `sendResp`, `startReq`, `finiReq`, `_startRoi`, `dumpLats`, `tBenchServerFinish` |
| Instrumented harness | `xapians/deps/harness-mod/`, `xapians/xapian-mod-pure/` | schedule of rates, `current_qps`, `counter`, `recvReq_queue` | `startReq`, `finiReq`, `dumpStats`, `currentQPS` |
| Query terms | `xapians/*/genTerms.cpp`, `client.cpp` | `terms.in`, the list of terms | `main` of genTerms, `TermSet`, `tBenchClientGenReq` |
| Result page | `xapians/xapian-pure/server.cpp` 67-84 | `res`, `resLen`, `doccount` | the loop of `processRequest` over the match set |
| RAPL reader | `scripts/rapl/rapl-read.c` | `package_map`, the readings of three interfaces, `result` | `main`, `detect_cpu`, `detect_packages`, `rapl_sysfs`, `rapl_perf`, `rapl_msr` |

Interaction. `main` creates n-1 threads and is the n-th itself; all meet at a
barrier, register (`curTid++`), and loop: take a request from any client
(under `recvLock`, which is also held while `select` blocks), evaluate it,
answer it (under `sendLock`). The worker whose response is the
`warmupReqs`-th sends ROI_BEGIN to all clients, the one whose response is the
`warmupReqs+maxReqs`-th sends FINISH, both inside `sendLock`. A client starts
to record at ROI_BEGIN and, at FINISH, writes its statistics and exits; the
server sees the end of the connection in `recvReq`, erases the client and,
when none is left, exits. `main` also broadcasts FINISH after joining the
workers. Hurry-up's workers publish in `schedMap` that they are inside a query;
a further thread reads it every 2 ms and writes frequencies to sysfs files.

What is hard here: `clientFds` is used under two different locks; a response
may be due to a client that has left; workers block in `recvReq` for ever when
the clients fall silent; the quota is tested and counted in separate steps;
phase changes must fall exactly between two responses; the process can end
with messages on the way; two `unordered_map`s are written by all workers and
by the scheduler without a lock; a receiver applies what it read after it has
released the lock of the stream; a barrier is destroyed and made again between
its two rounds; the integrated server counts a request in another critical
section than the one that records it; files may be cut off, lack a line, or
fail to open the second time.

| Part | What makes it correct |
|---|---|
| Networked server | one reader and one writer at a time; a slot per worker; each request answered once, to its client; no live client dropped; ROI_BEGIN once, FINISH to all (the code fails in both, section 3); no client starves; the process ends |
| Worker loop | the quota is met and overshot by less than n; a clean return leaves nothing unanswered |
| Networked client | recorded latencies are those of the window; `inFlightReqs` finds every response |
| Framing | a message is delivered whole or not at all |
| Hurry-up | a lasting query gets the high frequency, an idle core loses it (neither without exceptions, section 3), only opened files are written, the scheduler outlives the queries |
| On-demand governor | the step stays in the table and converges; everything else as in hurry-up |
| Integrated server | requests and workers match; the window is right but for one request per worker; it ends |
| Instrumented harness | every latency is in one line of quantiles; lines go on to be printed; arrivals have the rate of the schedule |
| Query terms | exactly the wanted terms are drawn; a cut file does no harm |
| Result page | the length sent is that of the descriptions, and they are what is sent |
| RAPL reader | one interface reports, for every package, differences of readings that were both made, or says why not |

## 2. Modules

`ClientFds` - the vector `clientFds` as operators: `std::find`, the element
moves of `erase`, the scan that starts at `recvClientHead`. The vector is its
memory (`mem`) and its size: a range-for that another thread erases under reads
the memory, not the abstract sequence, and this is what the race is about. An
erase is two steps (move, shrink), so that the broadcast may run between them.

`NetworkedServer` - server process and clients together. `pc[w]` is where
worker w is in `_run`, `recvReq` and `sendResp`:

| Actions | Code |
|---|---|
| `Arrive`, `ThreadStart`, `CheckQuota`, `CountRequest` | `_run` |
| `LockRecv`, `RecvRequest`, `RecvEof`+`Shrink`, `RecvTruncated`, `AllClientsGone` | `recvReq`, `checkRecv`, `removeClient` |
| `LockSend`, `Respond`, `BroadcastSend`, `BroadcastEnd` | `sendResp` |
| `JoinAndFinish` (with `BroadcastSend`, `BroadcastEnd`), `MainReturns` | end of `main`, `finish` |
| `ClientSend`, `ClientResponse`, `ClientRoiBegin`, `ClientFinish` | the client, as the wire shows it |
| `ClientKilled`, `ResetLoses` | `kill_networked.sh`; TCP's reset of a connection |

`server` tells how the process ended: `exit 0` (all clients gone), `exit -1`
(truncated message), `send failed` (`SIGPIPE`, or the assertion on the length
sent), `returned`. Messages are records with the request's id, a stream is a
sequence, and a sender that dies inside a send leaves `Cut`. A step that holds a
lock and touches nothing another thread reads is merged with its neighbours:
`Respond` is the send and the count, since `finishedReqs` is only used under
`sendLock`.

`ExactlyOnce` - the abstract service: submit, answer once, notify, take in order,
leave, abandon, close, and lose what is on the way after the close.
`NetworkedServer!ImplementsService` is the refinement: a request pends from the send
until a worker responds; the mailbox is the stream to the client, with ROI_BEGIN and
FINISH as notices. A client may leave with a notice, which is how FINISH ends it.

`RecvArbitration` - only the receive loop, one go per step, with a counter of how
often a waiting client was passed over. `ArbitrationProofs` has its theorems.

`NetworkedServerProofs`, `NetworkedServiceProofs` - the theorems about
`NetworkedServer`: its threads, locks and counts; its clients, requests, the
refinement of `ExactlyOnce`, its broadcasts and the latencies recorded.

`HurryUp` - the search server of `xapians/xapian-hurryup`: main's creation loop,
the workers and the scheduler thread, with the two maps between them. The
receiving of requests is reduced to "one of the requests still to come"
(`NetworkedServer` has it in full).

| Actions | Code |
|---|---|
| `CreateThread`, `MapThread`, `StartScheduler` | `main.cpp` 80-108 |
| `Arrive`, `PassBarrier`, `CheckQuota`, `CountRequest` | `_run` |
| `RecvReq`, `LookupCore`, `InsertCore`, `MarkBusy`, `EndSearch`, `MarkIdle` | `processRequest` |
| `ScanBegin`, `Visit`, `InsertDefault`, `WriteFreq`, `ScanEnd`, `SchedulerExits` | `hurryScheduler` |
| `Fini`, `JoinScheduler` | end of `main`, `fini` |
| `ClientsGone` | `exit(0)` in the harness |
| `Crash` | undefined behaviour of the maps |

A map is a function whose value is `Absent` for a key that is not there.
`operator[]` on such a key inserts it, in two steps (not found; linked), so that
insertions of several threads overlap with each other, with lookups and with the
scheduler's iteration. That is a data race: the model lets the insertion that ends last cut
off any key linked during it, a scan miss entries of a map that grows under it, or the process
crash. Rehashing and the memory behind the buckets are not modelled beyond that, and a plain
load or store of an `int` in a map is one step. `schedMap[t] = core_mapping[t]` is taken
right side first; C++11 leaves the order open, and it matters to no property, since `t`'s own
entries are touched by `t` and, when missing, by the scheduler only.
`core_mapping` is filled by main before the barrier opens; only main's own entry
comes later, from its first request (`InsertCore`).

main does not check `-n`, so the model makes no assumption on it either. With one server no
file is opened and `fd[0]` is the standard input; `WritesOpened` leaves that case out. A thread
whose core has no place in the 24 of `fd` is stored past the end, which may or may not crash
the process (`MapThread`).

`hurryScheduler` has no return statement, and is built with -O3. The compiler may take the
end of its loop for unreachable, in which case no test of `running` is left and the thread
scans for ever: `ScanBegin` does not look at `running`. Where the test was compiled the
thread ends, or the process dies of what follows it (`SchedulerExits`). A frequency file that
cannot be opened makes the writes fail and is not distinguished; its core counts as `opened`.

`HurryUpProofs` - the theorems about `HurryUp` and `OndemHurryUp`.

`OndemHurryUp` - the governor of `xapians/xapian-ondem-hurryup`. It EXTENDS
`HurryUp`: that program's threads, maps, start and stop are the same lines. Only
`WriteFreq` differs; `Govern` conjoins it with the move of `coreFreqs`, up by four
for a thread in a query and down by `0.4*QPS` for any other, where `QPS` is the
`int` 3 and the difference is cut towards zero. `Raised` and `Lowered` compute in
tenths. HurryUp's `freq` is the direction of the last move. `order` is the order in which
the iteration visits the threads: any, but the same in every scan, as nothing is entered into
`core_mapping` between two of them once main has served. `coreFreqs` has 27 entries; the step of
a 15th thread's core would lie behind them and is not modelled (`Governed`).

`LoadClient` - the process `tbench_client_networked` with its threads.
`NetworkedServer` has many clients, each as the wire shows it (one receiver, a
message applied when it is read); here is one client in full, and the server and
the other clients are reduced to what they may send.

| Actions | Code |
|---|---|
| `TestStatus`, `Leave`, `SetUp`, `Generate` | `Client::startReq` |
| `Send`, `SendFails`, `BrokenPipe` | `NetworkedClient::send`, the sender's loop, SIGPIPE |
| `LockRecv`, `Read`, `ReadFails` | `NetworkedClient::recv` |
| `FiniReq`, `StartRoi`, `AssertFails`, `Finish` | the receiver's loop, `finiReq`, `_startRoi`, `dumpStats` |
| `Join`, `Killed` | `main`, `kill_networked.sh` |
| `Answer`, `AnswerOther`, `ServerEnds`, `ResetArrives` | `sendResp`, the server's end, TCP |

`conn` is the connection: `closed` and `answered` by an orderly end of the
server (before and after a request has been written to it), `reset` when it left
requests unread, `broken` once an error was reported, so that the next write raises
SIGPIPE. A barrier is the set of senders that wait; a thread leaves when it is
not in the set any more, and `pthread_barrier_destroy` lasts until all have left.
`LoadClientProofs` has the theorems.

`Framing` - `sendfull`, `recvfull` and `checkRecv` over a stream of bytes that
keeps order and no boundaries. A byte is `<<m, k>>`, so that the model knows what
belongs together and the program does not.

`IntegratedServer` - `xapian_integrated`: workers that generate, evaluate and record
their own requests. `TestStatus`...`Generate` are `startReq` again, under
`recvReq`; `FiniReq` and `Count` are the two critical sections of `sendResp`
(`CountUpTo` has the length of the window as a parameter: `harness-mod` sets it to
2^30 and ends with its schedule);
`Run`, `CheckQuota`, `Processed`, `Finish` are `_run` and the end of `main`.

`InstrumentedServer` - EXTENDS it by what `harness-mod` adds: the schedule
(`Lookup`, with `currentQPS`), the line of quantiles that is printed when `counter`
equals the rate (`IFiniReq`), the end when the schedule is over (`ScheduleOver`), and the queue that
two threads use without a lock (`QueueRace`). `current_qps` begins with any value
of `Uninitialized`, as no constructor assigns it. `InstrumentedProofs` has the
theorems about both programs.

`QueryTerms` - from the dictionary of the database to a request: `NextTerm` is the
loop of genTerms, `ReadLine` a turn of `TermSet`'s loop with the stream's
`failbit`, `eof` and `gcount`, `GenReq` the draw. A term is its length, its number of
results, and whether it is in lower case. `ResultPage` - the loop that fills a response, with
every character named by the document it is from. `Send` maps to the version of
`xapian-ondem-hurryup`, where the lines are the same. `QueriesProofs` has the
theorems about the three.

`RaplTopology`, `RaplSysfs`, `RaplPerf`, `RaplMsr`, `RaplRead` - rapl-read. The
first reads the model and the packages (`DetectModel`, `DetectPackage`), the next
three are the three interfaces, one action per file that is opened, read or
refused, and `RaplRead` is `main`: options, and which interface is tried next
(`TrySysfs`, `TryPerf`, `TryMsr`). A reading is recorded by what it was of (package,
domain, cpu, round), so the properties tell which differences are printed; the
values of the counters are left out. `RaplProofs` has the theorems about all five.

Operators ending in `_Faulty` are the operator that follows them with a
plausible mistake; no specification uses one. They serve to see that each
property notices a mistake.

## 3. Runs

| Run | Question | Bounds |
|---|---|---|
| `safety` | slots, quota, clean return, accounting of in-flight requests, no live client dropped and FINISH sent to both during a broadcast that a kill disturbs, the recorded latencies are exactly the window when all have finished, refinement of `ExactlyOnce` | 2 workers, 2 clients with 2 requests each, quota 2, warm-up 1, window 1; client 1 may be killed, also inside a send |
| `ends` | the server ends by the count or by the quota; where neither is reached, every request is answered; of three clients FINISH passes over one at most | 2 clients x 2 requests, nobody killed; warm-up 1, window 2, or quota 3 of 4 requests, or a quota of 5; 3 clients x 1 request, no warm-up, window 1 |
| `hurryup` | nobody looks up its core too early, writes go to opened files, the maps settle, a core of its own is slowed while its thread waits, the scheduler outlives the queries | 3 servers, quota 1, 2 requests |
| `core0` | the frequency of the core two threads share, under the scheduler and under the governor; the governor's step stays in the table and converges; how far the process gets in ending | main and one created server, both on core 0, quota 3, 3 requests |
| `client` | both rounds of the barrier, the assertions, what is recorded, senders start, the client ends | 1 or 2 senders and as many receivers, 3 requests and one answer to another client, warm-up 2, window 1 |
| `integrated` | requests match workers, the quota, ROI once; the window, give or take a request per worker; lines of quantiles; the rate of arrivals; the process ends | both programs, 3 workers, warm-up 1, window 4, quota 4, rates 3 and 4, `current_qps` first 0 |
| `parts`: arbitration | a waiting client is passed over at most n(n-1)/2 times, less than n while nobody leaves | 4 clients, all may leave |
| `parts`: terms, framing, page | what is loaded and drawn is what genTerms promises; requests arrive whole and in order; the length of a response | 11 terms on both sides of 99/100, 1000/1001, 127 characters, and one of 128; up to 3 requests of 1 to 3 bytes behind a header of 2, 6 bytes on the way; 0, 1, 2, 24, 25, 26, 40 documents |
| `parts`: rapl | which interface reports, for which packages, from which readings, with which status | all command lines of up to two options of `chmps?`, 8 topologies, every supported chip and five that are not, 3 cpus, 2 domains |
| `roi` (violated) | `assert(status == WARMUP)` | a client killed during the ROI_BEGIN broadcast |
| `finish` (violated) | FINISH ends every client | 3 clients x 1 request, nobody killed |
| `send` (violated) | `assert(sent == totalLen)` | nobody killed |
| `page_holds` (violated) | "up to 25 results per page" | as `parts` |
| `rapl_unread` (violated) | "Gather before values", "Gather after values" | as `parts` |

How an instance is put together. `MCServerEnds` adds the variable `end`: a behaviour
is one of `NetworkedServer` with the parameters by which the count ends the run, with those
(`ByQuota`) by which the quota does, with those (`Open`) by which nothing does, or one
with three clients (`Three`). `MCOndemHurryUp` and `MCInstrumentedServer` add `program`: the
one takes the steps of `HurryUp` or of `OndemHurryUp`, the other those of
`IntegratedServer` (xapian-pure) or of `InstrumentedServer` (xapian-mod-pure). `MCParts` adds
`stage`: `RecvArbitration`, `QueryTerms`, `Framing`, `ResultPage` and `RaplRead` have no
variable in common, and a behaviour is one of a single stage. `LoadClient` chooses the number
of threads of each kind (`nthreads`) from `ThreadCounts` in `Init`.

Bounds. Two workers are enough for every pair of critical sections to meet; a
third adds no new lock holder. Two clients are enough for the erase of the
first to shift the second under a broadcast; two requests each put one in the
warm-up and one in the window in every order, and let a worker serve one while
the other ends the run. `Supply` bounds the requests a client generates; the
client falling silent is a behaviour of the system (`TBENCH_QPS` may be arbitrarily
low), so `ends` chooses quota and window inside the supply. In `safety` the quota
may come before the end of the window, and the other way round.

Three clients are the fewest of which the FINISH broadcast can pass one over: the loop
begins with the first of the vector and always reaches the last. With the two of `safety`
`MostGetFinish` says that both get FINISH, whatever a kill does to the vector meanwhile;
with the three of `ends` it says that two do, and `finish` shows that the third may not.

`hurryup` needs three servers: two created threads give a core other than 0, and main
shares core 0 with the first. Two requests let two insertions overlap with each
other and with the scheduler's; the quota of 1 lets both be taken before one is
counted, and still ends the run. `core0` has the contested core alone, since steps of
different cores do not meet; with three requests both threads can serve one, and one of
them another after the maps have settled.

`client` has as many receivers as can overtake each other around one phase change;
with two warm-up requests one of them may be recorded late, so `RecordsWindow` meets
its bound. `AssertionsHold` has the premise that the answers to other clients do not
fill the warm-up alone (`MaxOthers < warmupReqs`), which the run satisfies; what
happens otherwise is below. `integrated` has three workers, so the window is off by
up to two; the quota of 4 is met before the window is full in some behaviours, and
the rates 3 and 4 let a line be filled or missed. The terms lie on the limits
themselves. `MAX_CPUS` and `NUM_RAPL_DOMAINS` are 3 and 2: the loops treat all cpus
and domains alike, and the topologies are dense, reversed, with a gap, empty, and
with a cpu off line. In framing a body may be shorter or longer than the header, so
that a read that asks for too much runs into the next request, and past it.
The runs of `MCParts` say `CHECK_DEADLOCK FALSE`: what they model comes to its end. In
all other passing runs the states in which the system may stop have a step of their own
(`Stopped`, `Quiet`), so a deadlock would be reported.

Violations and what they mean.
 * `roi`. Worker A sends ROI_BEGIN to the clients while worker B reads the end of
   another client's stream and erases it. The elements move one cell down, the
   loop's end does not, and the last client is written to twice. The client
   then fails its assertion.
 * `finish`. A client that exits on FINISH while the broadcast of FINISH is still going is
   erased, and the loop steps over the client that moved into its place, which goes on
   for ever; the last one gets FINISH twice. If main's own broadcast then reaches the one
   passed over, all finish, but that one has recorded answers from behind the window:
   `WindowExact` fails too with three clients.
 * `send`. FINISH goes out with the last counted response, while another worker
   holds a request of a client that now exits. Its response meets a closed
   socket.
 * `page_holds`. `resLen` is advanced before `memcpy` to `&res[resLen]`. Each description
   lies behind its place, and the last is behind the end of what is sent.
 * `rapl_unread`. `rapl_sysfs` reports a file that does not open on stderr, goes on, and
   prints the difference from a value that was never assigned.

What the code does that no run is about. These were met while modelling; the modules
contain them (but for the wrap of rapl-read, as the values of its counters are left out).
 * `server.h:77`, "avoids unfairly favoring some clients". With clients 1 and 3 of
   three waiting, goes 1 and 2 of a round read clients 1 and 3, and go 3 reads 3 again.
   `BoundedBypass` and `SteadyBypass` say how far this can go.
 * The server counts the answers to all clients. A second client of the same server can
   use up the warm-up before the first one's senders have met at their barrier;
   ROI_BEGIN finds the first in the phase INIT and aborts it (`MaxOthers >= warmupReqs`).
 * Core 0 while it waits. The scan looks up `schedMap[x.first]`, which inserts 0 for a thread
   that has not served yet, and 0 is core 0's own mark: until its threads have served, a
   waiting core 0 is held at the high frequency (and the governor's step rises). A
   busy mark that an overlapping insertion cuts off is replaced by 0 too; on any other core that
   query then runs slowly to its end.
 * While one of the two threads of core 0 evaluates a query and the other does not, each scan
   writes both frequencies, in the map's order.
 * With `warmupReqs` 0 the phase ROI never begins, in either server:
   `finishedReqs == warmupReqs` is tested after the increment. Nothing is recorded.
 * A schedule whose rate falls below `counter` (as that of `bin/input.test` does) ends the
   lines of quantiles: the two are compared for equality. `NoLineMissed` has the premise.
 * `current_qps` may hold the first rate by chance before anything was assigned to it; the
   generator is then not told of the rate. `ArrivalsFollow` has the premise.
 * An empty schedule makes `currentQPS` return -1, though the program says "No input
   found, will use TBENCH_QPS as parameter", and the first request of the measurement
   makes an arrival process of that rate.
 * A full line buffer of `TermSet` sets failbit with `gcount()` 127, not 128, so "Term
   #... too big" is never said. The cut line is kept, every further `getline` reads
   nothing and sets no eof, and the list grows by empty strings until memory ends. An empty
   `terms.in` makes the upper end of the draw 2^64 - 1.
 * rapl-read: a wrap of a counter between the two readings is printed as a negative
   energy; on Knights chips the last round reads and prints PP0 although the first says it is
   not available and the second skips it; a forced mode (`-s`, `-p`) that fails ends in
   the registers; `rapl_sysfs` returns 0 although no energy could be read.

Fairness. `Fairness` gives each worker and each client's sender and receiver
weak fairness: they are threads of running processes on a preemptive kernel. Kills and
resets are not fair. Mutexes promise no order, so nothing stronger is assumed of
a worker that waits for a lock; `ends` shows it suffices. `ServerEnds` is about clients
that can still send; a worker whose clients have fallen silent waits for ever.

In `HurryUp!FairSpec` every thread is weakly fair; a search may last for ever and the clients
may fall silent. The frequency properties are about threads that stay where they are:
`LastingQuery` is a query that never ends, `Waits` a thread that waits for a request that
does not come, or has ended.
 * `WaitingCoreSlowed` is about a core with one thread. It needs no premise: no mark that may be
   lost or inserted is such a core.
 * `SharedCoreFollows` is about core 0, and `GovernorConverges` about its step: high while both
   threads evaluate lasting queries taken after the maps had settled; low while both wait, if
   both have served since then (see core 0 above). `BusyWins`, a part of the second, is about one
   busy thread: the governor's raise is larger than its lowering, whichever comes first.
 * `ProcessEnds` has as its premise that no thread stays in a search or in the receive for
   ever. Its conclusion names the one thing that may still keep the process: main waits in the
   last `pthread_join`, with `running` cleared, for a scheduler whose loop was compiled without
   the test.
`MCOndemHurryUp!MCSpec` gives each program its own fairness.

`LoadClient!FairSpec` gives every thread of the client, the join and the delivery
of a reset weak fairness, as running threads and TCP have; the server owes it
nothing, and kills are not fair. `MCInstrumentedServer!MCSpec` makes every worker
weakly fair, so that a query's evaluation ends. In `MCParts!MCSpec` the client of `Framing` goes
on sending while it lives, and the server reading. The other parts have no liveness.

## 4. Proofs

`NetworkedServerProofs` proves, for any set of workers, any number of clients and
any parameters, that the specification satisfies `TypeOK`, `LocksExclusive`,
`SlotsDistinct` and `QuotaReserved`, and from the last the bound
`QuotaOvershoot`: at most `numReqsToProcess + nthreads - 1` requests are
processed. The only assumption is `ServerAssumption` (finite, non-empty set of
workers, at least one client, natural parameters).

The inductive invariant is `IndInv`, the conjunction of the four. `TypeOK` is not
inductive alone: that `tid` stays below the number of slots needs
`curTid = Cardinality(Registered)` of `SlotsDistinct`; that a broadcast's bounds
are not overwritten, and that the size does not drop below zero, needs a single owner
of each lock. `TypeOK` also says that `recvClientHead` may equal the size
after an erase, but not between the two halves of one. `QuotaReserved` is the
inductive form of the quota: it counts the workers that have passed the test.
`PickIsReady` and `SelectedClient` show that the scan of `recvReq` always settles on
a readable element (`assert(fd != -1)`).

`LocksExclusive` is what the others rest on; no run lists it.

`NetworkedServiceProofs` goes on from `IndInv`, with the same assumption, to what
the clients see. Its inductive invariant `ServiceInv` adds:
 * `ListInv`: no element is twice in `clientFds`, and every live client is in it,
   the cell that an erase is about to give up not counted. `LiveClientsListed` is its
   second half; without the first, an erase could take away another copy than the one
   it looked for. `CutInv` says that only a client that left sends a truncated message,
   so that only such a client is taken for one that ended.
 * `ReturnInv`: `finishedReqs` and `numReqsProcessed` differ by the workers that have
   answered and not counted; main broadcasts FINISH when all others are done.
   `CleanReturn` needs it: all are done, so both counts agree.
 * `PlacesInv`: the requests of a live client that are in flight are those on the
   stream to the server, in a slot, or in a response, each in one place only; an id not
   yet given is in none. `ServedInv` and `LoopInv` say that slots and broadcasts have clients.

`ImplementsExactlyOnce` is the step simulation: `Respond` is `Answer` to a client that
is connected and `Abandon` to one that is not; each send of a broadcast is `Notify`;
`ClientSend` is `Submit`; receiving is `Take` or `Leave`; the ends of the
process are `Close`. A worker's other steps stutter. That a response finds its request still
pending is `PlacesInv`.

Then the two broadcasts and what the clients record of them. `FinishReachesAll` and
`WindowExact` fail with three clients (section 3), for one reason: an erase under the broadcast
of FINISH that makes the loop pass over an element. `SkipsClient` says which erases do: of
an element behind the loop, while the element the loop comes to next is not the last of the vector.
(The last one is not lost: its old cell still holds it, and the loop's end was fixed at the
start.) So two results are about all numbers of clients, and two about one or two, where no
erase passes over anybody (`TwoNeverSkip`).
 * `BcastInv`, `KnownInv`: which broadcast is under way and what it presupposes; nothing
   but responses and the two notices is on a stream.
 * `FinishInv`: once the count is complete, every live client has FINISH on its stream, or the
   loop still comes to its element. With up to two clients every step keeps this
   (`EraseKeepsDue`: what an erase moves stays ahead of the loop), and `FinishReachesTwo`
   follows.
 * `MissInv`, with any number of clients: those that are there and for which this is not so
   (`Missed`) are fewer than half. It is kept by an erase that passes over a client
   (`SkipMisses`) since it passes over that one only, and each missed client has cost the
   vector an element: `Cardinality(Missed) + Listed <= NumClients`. And at such an erase the
   last of the vector is still to come, so that the missed, all of them among the
   `Listed` ones, are fewer than those that are listed. `EndInv` (the loop's end is not
   before the vector's) places them. `MostAreReached` follows.
 * `RoiInv`: until somebody is killed, the clients that have got ROI_BEGIN are, during its
   broadcast, exactly those the loop has passed, and afterwards all. This holds with any number
   of clients, as nobody leaves before FINISH: the vector is still the one the server was
   started with (`AllThere`). `RoiStartsOnceUnkilled` follows, which shows that the kill
   in the run `roi` is necessary to break the assertion.
 * `WindowInv`, for up to two clients: what a client has recorded, and what it will record of the
   responses on its stream (those with no FINISH ahead of them and, if it is not in ROI yet,
   with a ROI_BEGIN ahead; `Expected`), add up over all clients to the responses counted in the
   window. The sum is the size of a set of pairs (`Pairs`), so no induction over the
   clients is needed: one response more is one pair more (`PairsGrow`). Between the last
   response of the warm-up and the first of the window lies the whole broadcast of ROI_BEGIN,
   under `sendLock`, and likewise that of FINISH at the other end; that is where `RoiInv` and
   `FinishInv` enter (`ResponseCounts`). `WindowIsExactTwo` follows, as nothing is on the way
   when all have finished.

Only model-checked of this module: liveness, which is out of the prover's reach.

`HurryUpProofs` proves, for any number of servers and any quota and supply
(`HurryUpAssumption`), `TypeOK`, `ServesMapped`, `WritesOpened`,
`SearchIsWatched` and the action property `SettledStays`. None is inductive. `IndInv` adds
what main has done so far: while main is before the barrier all created threads
are before it (`CreationInv`, from `BarrierNeedsAll`: as many arrivals as
threads are all threads), the entries of the first `made` threads are their
cores and are open (`MappingInv`), the scan stays inside `core_mapping` and no step takes
an entry out of that map (`ScanInv`, `MappedGrows`), and `running` is cleared
only behind the join (`StopInv`). The scheduler's writes to core 0 on behalf of main
rest on the first thread having opened that file. `SettledStays` needs that a
worker never stores `Absent`, hence that its `core_mapping` entry is there.
`TypeOK` is proved and in no run. `WaitingCoreSlowed`, `SharedCoreFollows` and `ProcessEnds` are
liveness and are only model-checked.

Every step of the governor is one of `HurryUp` or a stutter (`StepRefines`), so the maps
settle under it without a new invariant (`OndemSettledForGood`). `StepsStayInTable` shows that no
order of raises and lowerings leaves the 14 frequencies; `MovesStay` is its arithmetic. That
the step converges is liveness.

`ArbitrationProofs` is about `RecvArbitration` with any number of clients, any of which
may leave (`ArbitrationAssumption`). `ScanMeets` turns the remainders of the scan into
`Ahead`, the number of elements the scan meets before a cell, and `PickedIsNext` says that
the client read from is the readable one that the fewest are ahead of. A go takes one
from `Ahead` of each of the others that wait, and adds one to its count of times passed
(`TurnsComeNearer`). Only an erase at the head can undo this: the next in turn moves in
front of the head and becomes the last of the `n - 1` that are left (`EraseAhead`). The
invariant `TurnInv` bounds count and `Ahead` together by half of
`N(N-1) - (n-1)(n-2)` for `N` clients of which `n` are listed. That grows by just `n - 2`
with the erase, and gives both bounds: `N(N-1)/2` at any time, `N - 1` with `n = N`.

`InstrumentedProofs` is about `IntegratedServer` and `InstrumentedServer` at once, for
any set of workers and any schedule: `CoreNext` has what their steps do in common.
 * `CoreInv` counts the workers in each part of the loop: those in the body have
   passed the quota's test (`QuotaInv`), those that serve have exactly the requests in
   flight (`ServeInv`), and the phase is what `finishedReqs` says (`PhaseInv`).
   `WorkersInv` follows, for both programs.
 * `LineInv`: lines and what is recorded since are disjoint, never in flight, and
   `counter` is the size of the latter. Hence `LinesDisjoint`.
 * `TimingInv`, `RateInv`: what is left of the schedule is its end; the counter is
   below the rate looked up. Before the first request of the phase is started no rate of
   the phase has been looked up; then the counter and the requests being served
   are together fewer than the workers, and the first rate is at least that. This is where
   the premise of `NoLineMissed` is used.
 * `WindowInv`: in the phase ROI what is recorded, and the requests that were between
   recording and count as the phase began, make up what was counted and what is between now.
   They are fewer than the workers, as one of them began the phase.
`WindowNear` needs `warmupReqs > 0` (see above what 0 does), and for `xapian-mod-pure`
that `maxReqs` is the 2^30 its code sets, so that its run ends by the schedule.

`LoadClientProofs` is about `LoadClient` for any number of threads, requests and
answers to other clients (`LoadClientAssumption`). `ClientIsSafe` proves `ClientInv` from `SafeInv`:
 * `ThreadsInv`, `BarrierInv`: who is at which round. While somebody waits in the set of
   a round nobody is past it, and the thread that makes the barrier again is alone
   between the rounds. `StartTogether` and the first assertion (phase INIT) follow.
 * `CountInv`: the server has counted the answers to this client and to others, and
   every answer to this client is to a request that was started. So, with
   `MaxOthers < warmupReqs`, ROI_BEGIN presupposes that a request was sent.
 * `MessageInv`: a response is on the wire or in the hands of one receiver, once,
   and its request in `inFlightReqs` till it is applied; ROI_BEGIN is once anywhere.
`ClientRecordsTheWindow` adds `OrderInv` (the warm-up's responses are ahead of ROI_BEGIN;
those it overtakes are held by receivers other than its own, so fewer than
`nthreads`) and, for one receiver, `StreamInv`: no response is lost between wire,
receiver and samples, those behind ROI_BEGIN and before FINISH are the window's, and
when FINISH is read all of them are recorded.
Liveness of the client is only model-checked.

`RaplProofs` is about rapl-read on any number of cpus, packages and domains, any chip and
any command line. Its assumptions are those of the three modules: a package id under `/sys` is
an index of `package_map` (`RaplTopologyAssumption`; the code does not check it),
and there is at least one domain (`RaplSysfsAssumption`, `RaplPerfAssumption`). One invariant
stands for each part:
 * `TopologyInv`: the packages found are those of the cpus looked at, `package_map` has the
   first cpu of each and `total_packages` is their number, at every step of the loop.
   `PackagesFound` is what it says at the end. Nothing makes the ids found
   `0..total_packages - 1`, so the loops of the interfaces may reach a package without a cpu:
   the other invariants carry `package_map[j] # NoCpu` for what was opened.
 * `SysfsInv`: the domains a loop is past are named, or were read or complained of in that
   round; so all four loops have gone through the same domains when the last prints.
   `SysfsMeasured`, that they were read, is false (`rapl_unread`).
 * `PerfInv`: each event has an open counter for each package the loop is past, on a cpu
   of that package.
 * `MsrInv`: each register of a round is read for the packages behind it, for the
   current one if it is no longer in `todo`. The rounds test the chip in different ways;
   `RoundsAgree` shows that what the third reads the second read, but for `PP0` of a Knights
   chip. `ReportExplained` follows from these three (`ReportIsExplained`).
 * `FlowInv`: main's result is -1 until an interface has printed every package, and
   no interface is called after that. `OneReport` follows.

`QueriesProofs` has three parts. `RequestsIntact` proves `Intact` of `Framing` for any
bodies, header and size of the buffers of the connection (`FramingAssumption`), wherever the
stream is cut. `FrameInv` says that the bytes not yet handed on - in the server's buffer, on
the connection, and still to be written, in this order - are the requests behind the last one
accepted up to the one being sent, whole and in order. A byte is placed by the request it
belongs to (`InRequest`), so that appending a request and taking one away need no induction.

`TermsAreWanted` proves `TermsInv` of `QueryTerms` for any dictionary
(`QueryTermsAssumption`), from three invariants besides the types:
 * `FileInv`: genTerms has written every wanted term it is past, at the place given by
   how many wanted ones come before (`Rank`).
 * `LinesInv`: until a line is too long, what the client has loaded are the lines of the
   file as they are, and it is ready only if none was.
 * `DrawInRange`: a draw crashes only with no terms. The list is no longer than memory and
   `Memory < Word`, so the unsigned range of the draw does not wrap (`DrawStays`).
`SelectedIsWanted` says that the test on a match set cut at 1001 is the promised number of
results.

`ResponseLengthIsTotal` proves `LengthIsTotal` of `ResultPage` for match sets of any sizes
(`ResultPageAssumption`). `Total` is a fold of the community modules, which takes the elements in an
order it leaves open; `TotalGrows` shows that it grows by the size of each description that is
appended. The induction this needs is done by hand: the recursion behind the fold
(`SumStep`) is satisfied by the number of characters in the descriptions (`Cells`), and by nothing else,
as two solutions would differ first at some least subset (`SumStepCounts`). The invariant
`PageInv` says that `resLen` is the total of the first `doccount` descriptions.

Only model-checked: `Settles`, which is liveness.

## 5. Not modelled

The connection setup (errors end the process before any worker exists) and the
servers' option parsing, the evaluation of a query, the clock and its strict
comparisons, the random arrival times, the Java front end, the experiment scripts
and the analysis (I/O), the vendored Xapian. The networked variant of
`harness-mod` repeats the networked server and client with the additions of
`InstrumentedServer`; its `dumpStats`, which takes a lock its caller holds after 2^30
requests, is not modelled. Of rapl-read, `-c core` (only printed),
the value of `perf_event_paranoid` (only printed) and the scaling of readings to
Joules. `scripts/helpers/rapl-read.c` is the same file, and the copies of
`genTerms.cpp`, `client.cpp` and the worker loop in the other variants of the
search server are modelled once. Torn reads of a vector that grows, and memory
behind a buffer that was overrun, are not modelled.

## 6. Plan

All modules of the plan are written: the networked server and its service, the
receive loop, hurry-up and its governor, the client's threads, framing, the
integrated and the instrumented server, the terms, the page, rapl-read.

Every safety property of the passing runs is a theorem (`OnePassedOver` as an instance of
`MostAreReached`); the liveness properties are model-checked only. `WindowExact` is a theorem
for up to two clients, since with three it is false.

What could follow:

 1. What becomes of the clients that are passed over when the quota is met, and main
    broadcasts FINISH again.
 2. The networked client and server of `harness-mod`, which repeat the modelled ones with the
    additions of `InstrumentedServer`.
