# A TLA+ verification of muduo-protorpc

muduo-protorpc is a protobuf RPC stack: a C++ library on top of muduo
(`muduo/protorpc2`), wire-compatible Java and Go implementations, a Go load
balancer, and a set of programs built on the library. This directory holds TLA+
modules that model those parts, TLC configurations that check them on small
instances, and TLAPS proofs of the properties that matter most for every
instance. `PROJECT.json` is the index: the runs with their properties and
mutants, the map from definitions to source lines, the hazards, the findings
and the theorems.

To repeat a run: `tlc -workers 2 -config MCRpcChannel.cfg MCRpcChannel`; to
repeat the proofs: `tlapm RpcChannelProofs.tla` and so on.

## 1. Inventory

| Part | State | Operations | What is hard | What makes it correct |
|---|---|---|---|---|
| C++ `RpcChannel`, `RpcServer` (`muduo/protorpc2`) | id counter, map of outstanding calls, connection, services map | `CallMethod`, `onRpcMessage`, `callServiceMethod`, `doneCallback`, connection up/down | callers on several threads, responses racing the caller, duplicates, reconnection, channel lifetime | each done at most once, with its own response; no call forgotten; at most one execution |
| C++ meta service `RpcService.cc` | the services map | `listRpc`, `getService` | none (sequential) | lists exactly what can be called |
| Go balancer (`go/balancer`) | bounded channels of clients, dispatcher and backends; outstanding map per backend | client reader and writer, dispatch, backend reader and writer | closing a channel that another goroutine still sends to, blocking sends in a cycle, ids rewritten | a response reaches the client and the id that asked |
| Java `RpcChannel`, `RpcClient` | outstandings, per-call monitor | `callMethod`, `callBlockingMethod`, `messageReceived`, `disconnected`, `blockingConnect` | lost wake-ups, disconnect racing a call, replies that do not parse | a blocking call returns on an answer or a disconnect |
| Go `muduorpc` codecs | pending payload of client and server codec | read/write of headers and bodies under `net/rpc` | error paths that leave the payload behind | the payload belongs to the header last read |
| Zurg slave (`examples/zurg/slave`) | children and callbacks, processes, pipes, applications | fork/exec, SIGCHLD, timers, start of applications | signals coalesce, exec fails half-way, pids are reused, callbacks after exit | every exit reported once; one process per application |
| Zurg hardware task and `Sink` | flags per command, pipe descriptors, event registrations | `start`, four done callbacks, `onRead`, `onClose`, destructor | output after exit, a flood of output, removal while events are pending | one answer, when all commands have ended; no descriptor closed twice |
| Median (`examples/median`) | search bounds, sorted shards | `getKth` over remote `Search` | arithmetic at the ends of int64, termination, data that changes | returns the k-th element |
| Wordfreq worker | keys, pool of requests, shuffle thread | `GetHistogram`, `ShuffleKey`, `ShardKey`, `SortKey` | two threads share a pool, workers wait for each other | every key delivered once, the answer after the last |
| Wordfreq `partition.h` | histogram, pivots | `partition` | skewed keys, rounding | balanced, sorted pivots that cover the keys |
| Wordfreq controller | clients, latch, workers' information | `getPeers`, `connectAll`, `prepare` | callbacks on another thread, workers that are not ready | ready means everybody is |
| Collector (`examples/collect`) | LRU list and map of open files, start times of known processes | `fill` for the log and the RPC, `getFile`, `closeFile`, `closeUnusedFiles` | processes come and go during a fill, pids are reused, the limit of descriptors | list and map agree; what stays is reported |
| Wire format (Go `codec.go`, Java `RpcEncoder`/`RpcDecoder`, Python `rpc.py`) | what the reader has read of a frame | encode, decode | frames torn anywhere, a connection that ends within one, limits of length that differ | whole messages, in order, once |
| Zurg heartbeat, `RpcClient` | `beating_`, the timer, the channel | `start`, `stop`, `onTimer`, `beat` | the timer before and between connections, string arithmetic | the first beat is the full one, only zeros are stripped |
| N-queens (`examples/nqueens`) | the pool's queue, results that came | `Solve`, the C++ and Go clients | answers in any order, failed parts | the total is the number of solutions |
| `rpcbench2` | latches, `count_`, meters | `replied`, `stop`, `callsPerSecond` | replies behind the last one counted, two threads | every client counted once |
| Resolver, sudoku, readers, command-line tools | none of their own | calls one by one | none | |

How they interact. Every program above the library calls stubs, which call
`RpcChannel::CallMethod` on the thread of the caller; the channel's other half,
`onMessage`, runs on the loop thread of the connection. Services get a `done`
callback bound to the server's channel, which `RpcServer::onConnection` creates
and destroys with the connection. The balancer sits between clients and servers
and rewrites ids. All of them exchange frames of the same format, which C++, Java,
Go and Python encode and decode on their own. The slave's services end in child processes, whose ends come
back as SIGCHLD or are found by a timer. Median and wordfreq are distributed
algorithms over calls, with a main thread that waits at latches for callbacks.

`PROJECT.json` lists 40 hazards, each at its line with the property that would
catch it. The modules are built around them.

## 2. The modules

Every module has one action per handler, or per step of a handler where another
thread or process can act in between. Comments name the function; `map` in
`PROJECT.json` the lines. A definition whose comment starts with "Mutant" is a
plausible bug in the definition that follows it; the runs must notice it.
`MC<Module>` instantiates `<Module>` for TLC; `MCController` instantiates
`WordControl` and `Partition`, and `MCPrograms` the four modules of programs and
wire format, each behaviour of which runs one of them. `WordControl`, `Partition`,
`Collect`, `EchoBench`, `Heartbeat` and `Wire` are instanced by a module
`<Module>Instance`, with names that differ from those of the components beside which
they are checked or proved, the assumptions on their constants, and the properties
that the run checks and the proof proves: both extend that module.

| Module | Models | State and steps |
|---|---|---|
| `AbstractRpc` | what a caller is promised | a call is issued, executed at most once, completed at most once |
| `RpcChannel` | C++ `RpcChannel`, `RpcServer`, a client that reconnects as in zurg's `RpcClient`, Java's error answers | `CallMethod` in three steps (number, register, send); two FIFO streams per connection; each end learns of a loss on its own |
| `Balancer` | `go/balancer` | one action per blocking point of each goroutine; channels with their capacities, the mutex-protected maps |
| `AbstractBalancer` | what clients of the balancer are promised | requests accepted, each answered at most once, to the client and under the id that asked |
| `JavaChannel` | Java `RpcChannel`, `RpcClient`, `RpcPeer`, `RpcMessageHandler` | monitors with wait sets, spurious ends of `wait` by interrupt, the iteration of `disconnected` over a concurrent map |
| `GoRpc` | `go/muduorpc` | one read or write of a codec per action; `net/rpc` and a C++ server external |
| `ZurgSlave` | `SlaveService`, `Process`, `ChildManager`, `AppManager` | handlers of the single loop thread are atomic; the kernel's table of pids and its one pending SIGCHLD are external |
| `ZurgHardware` | `GetHardwareTask`, `Sink`, `Process::onCommandExit` | children write, end and flood; poll results, pending functors and destructors in their order |
| `Median` | `kth.h`, `collector.cc`, `sorter.cc` | connections counted by a latch; int64 with wrap-around of any width; answers in any order; `Generate` by another client |
| `Wordfreq` | the worker's shuffle | the shuffle thread step by step, the loop thread, messages between workers |
| `Partition` | `partition.h` | the rounds of `partition` over the number of keys of each value, and their partial sums, from which histograms and shares are read |
| `WordControl` | `control.cc` and the workers' `GetInfo` | main thread, callbacks, workers that connect to each other and lose connections |
| `Collect` | `collector.cc`, `ProcFs`, `FileCache.h` | `fill` step by step while processes are born and die; what `LineReader` finds |
| `AbstractLink` | what the models of channels take a connection for | whole messages, in order and once; only a message too long for its receiver is left out |
| `Wire` | the frame format in Go, Java and Python | units of a frame in flight, torn anywhere; the readers' steps between blocking reads; Netty's frame decoder external |
| `Heartbeat` | `Heartbeat.cc`, `RpcClient.cc` | connections that break before the slave notices, the timer, the stripping of `/proc/stat` and `/proc/diskstats` |
| `NQueens` | server, C++ and Go clients of `examples/nqueens` | the search over sets of columns, parts that wait for threads of the pool, the adding up |
| `EchoBench` | `client.cc`, `bench.cc` of `rpcbench2` | main thread between its latches, closed loops of calls on loop threads, meters |

Composition: `RpcChannel` joins the client's and the server's channel with
their connection; `ZurgHardware` joins the task, its sinks, its processes and
the loop; `WordControl` the controller and the workers; `GoRpc` both codecs.
`Wire` puts every sender before every receiver and refines `AbstractLink`, which
is what `RpcChannel`, `JavaChannel` and `GoRpc` assume of a connection: messages
arrive whole and in order, and some suffix of them may be lost. `Partition`'s result is checked with the test `Wordfreq` uses for pivots.

## 3. The runs

Each run checks safety and liveness of its modules under `FairSpec`.

| Run | What it shows | Bounds, and why they are enough |
|---|---|---|
| `rpc_channel` | done at most once and with its own response; entries are kept until answered; only duplicates are unknown; `AbstractRpc` is implemented; a call is answered or its connection was lost | 3 calls (answered, failing in a Java service, unknown), 2 connections, 2 replies: all pairs of calls race, an answer is duplicated, a call crosses a reconnection |
| `rpc_late_done` | violation: see findings | 2 calls, 1 reply |
| `balancer` | the tables of the goroutines agree, `AbstractBalancer` is implemented (nothing lost, copied or misdirected), requests are answered | 2 clients with colliding ids, 2 backends, 3 requests and 1, capacities 1 (1024 and 10 in the code), one fault: a client goes away or a backend is lost. So the output of the first client may be full without a writer, a backend's reader blocked in front of it, and the second client's answer behind |
| `java_channel` | a response is matched to its call, no wake-up is lost, calls return | 2 calls, 2 replies, all fates of one of them, interrupts and a close at any time |
| `go_rpc` | replies are not confused or dropped; a codec panics only after a refused request; calls return | 3 calls of all 7 kinds, both servers, a break at any time |
| `zurg_slave` | callbacks, timeouts and exits belong to the right child; every end is reported | 2 commands, 1 application, 3 forks on 2 pids, so pids are reused while exits are queued |
| `zurg_hardware` | one answer, after all commands; sinks are safe; the task answers | 3 commands, buffers of one unit: every sink overflows |
| `median` | the answer is the median; the assertion holds; the search ends within the steps | all data of 2 sorters with up to 2 of 6 values, connected in any order, one `Generate`; the full range of the integers, so `max - min` overflows |
| `wordfreq` | keys and requests are conserved, the answer is complete, the waits end | 2 workers, batches of 2, up to 4 keys of one and 6 of both, 2 calls: with 3 keys for one partition and 1 for the other the thread waits in the middle until the request that it sent has come back; last batches of one key, or empty |
| `controller` | when the controller is ready everybody is and the totals are complete, it does not hang; the pivots are accepted by `ShuffleKey` and balanced | 2 workers, both orders of the lists, connections lost at any time; up to 6 keys with counts 0, 1, 2 or 7, up to 3 workers, 2 to 4 slots: empty shares, one dominating key, a second round |
| `collect` | cache consistent, constant facts sent once and in the first record, what stays is reported | 3 processes on 2 pids, a cache of 2 files: pids are reused, the sentry is dropped, every second fill resets. An assumption of `MCCollect` also checks which figures are found in the formats of `/proc/meminfo` and `/proc/stat` |
| `programs` | n-queens: the total is right; rpcbench2: figures, loops and meters are right; heartbeat: the first beat is full and only zeros are stripped; wire: `AbstractLink` is implemented, readers stop for a reason; all of them end | boards of 1 to 6 on 2 threads, all split by one row and those of 3 to 6 also by two, of whose parts three neighbours may be on their way; 2 clients on one thread, 2 calls in flight each, 3 requests, so replies come behind the last; 2 beats on their way; 2 messages of 3 sizes below, at and above both limits, 9 pairs of languages |

Where a configuration has `CHECK_DEADLOCK FALSE`, the system may stop: all calls
are answered, the search is over, or a program has ended. The collector never
stops and is checked for deadlock.

Properties that state several facts about one structure are conjunctions of
named parts (`TablesConsistent`, `PidsConsistent`, ...), each part with a comment.

### Fairness

- `RpcChannel`: a started `CallMethod` continues, loops handle messages,
  services answer at least once. Nothing makes a client call, connect or lose a
  connection.
- `Balancer`: every goroutine that can run does, backends answer, clients read,
  and a reader whose connection was closed finds out (`Decode` fails) once it does not
  wait for room in `requests`. Without this last part `RequestsAnswered` fails: the
  output of a client whose writer has ended fills up and blocks a backend's reader
  for ever. With it the reader closes `output`, and the blocked send panics.
  A client that does not read blocks the balancer; the code has no timeout, so
  the liveness property is stated for clients that do.
- `JavaChannel`: weak for threads; strong for the two steps that must acquire
  the monitor of a call, since the thread that holds it releases it again and
  again. A Java monitor is not fair in principle; that it is not starved for
  ever is assumed.
- `GoRpc`: both readers run and methods return.
- `ZurgSlave`: the loop handles ready descriptors, its timer fires and its
  functors run; a child that could not exec ends. Children that did exec may run
  for ever, so the property is about commands whose child has ended.
- `ZurgHardware`: the same, and a child writes while it may and ends when its
  pipe is closed (SIGPIPE).
- `Median`, `Wordfreq`, `WordControl`: messages arrive and are handled, the main
  or shuffle thread runs. Connections stay up in the first two; in `WordControl`
  those between workers may be lost.
- `NQueens`, `EchoBench`: pool threads, loops and main threads run; lost
  connections are excepted, since the C++ programs do not wait for them.
- `Heartbeat`: the connector retries, the timer fires, the master reads.
- `Wire`: bytes arrive while the connection is up, readers read.
- `Collect`: strong for the timer's fill. RPCs compete with it on the loop, and
  the poller serves a ready timer in every iteration.

## 4. The proofs

What the modules `*Proofs` prove holds for every value of the constants that
satisfies the assumptions. Each has an inductive invariant `IndInv`, one lemma
per action (or per group of actions that disturb the same part) that the action
preserves it, and theorems that read the checked property off it. Every
inductive invariant was first checked by TLC as an invariant of the module's run.

Six of the proof modules have a second part about another component, by its module
`<Module>Instance`: `WordControl` in `WordfreqProofs`, `Collect` in
`ZurgHardwareProofs`, `EchoBench` in `RpcChannelProofs`, `Heartbeat` in
`ZurgSlaveProofs`, `Wire` in `GoRpcProofs` and `Partition` in `MedianProofs`. What
the component assumes of its constants is then a hypothesis of the theorem
(`ControlAssumed`, `CollectAssumed` and so on), which `MCController`, `MCCollect` and
`MCPrograms` assume too, so that TLC evaluates it.

**RpcChannel** (assumptions: `Failing ⊆ Served ⊆ Calls`, bounds positive). The
inductive invariant `IndInv` says where a call's id can be: ids were issued by
`id_` and differ (`NumbersIssued`, `NumbersUnique`), entries of `outstandings_`
are calls that wait under that id (`EntriesWait`, `NoCallForgotten`), a request
on its way has not been executed and is there once (`RequestsInFlight`,
`RequestsDistinct`), what has been invoked or answered speaks of an executed
request by its own id (`InvocationsRun`, `ResponsesInFlight`), and `Progress`
orders sending, execution and completion. None of the properties is inductive
alone: that a done gets its own response needs the unique ids and what the
streams hold. There is one lemma per action. From `IndInv` follow
`TypeCorrect`, `DoneOnce`, `DoneGetsOwnResponse`, `CallsKept`,
`UnknownAreDuplicates`, and `Refinement`: initial states map to initial states
and every step to a step of `AbstractRpc` or a stutter.

**Median** (assumptions: finite set of sorters, `HalfRange > 0`, bounds
natural). `IndInv`: until all sorters are connected nobody is asked, while the statistics come in they are those of the sorters
that answered (`StatsRight`), the element of rank k lies between `min` and `max`
(`Bracketed`), the counters are those of the sorters that answered
(`CountersRight`). Lemmas about cardinalities say that one more answer adds its
elements, and about the arithmetic that the middle lies between the bounds though
`max - min` wraps (`MiddleBetween`). From it follow `TypeCorrect`,
`MedianCorrect` and `AssertionSafe` (the assertion of `kth.h:49`). All but the
first are about data that does not change during the search; see below for the
case that it does.

**Balancer** (assumptions: at least one backend, positive capacities). `Tables`
is the part about the goroutines' data: the backends before `idx` have had one
request more (`Balanced`), ids towards a backend are below the next one and each
is in one place (`IdsIssued`, `IdsDistinct`), the map of a backend and what it was
sent agree message by message (`MapsMatch`), and what has its original id back
answers that request (`IdsRestored`). It gives `TablesAreConsistent`, with
`NothingWrong`: since a response's id is in the map, `panic("What's wrong?")`
is not reached. `Staged` follows a request through its stages, from `requests`
over a backend's queue, map and reader to the `output` channel: it is in one stage, once, and
in none before it is read. So `Places(r)`, the places of request r, has one
element or none (`CopiesCounted`), which is the refinement mapping's number of
copies, and `Refinement` shows that reading is `Submit`, writing is `Answer` or
`Drop`, closing is `Leave`, and every other step a stutter.

**JavaChannel** (assumptions: fates of the four kinds, at least one reply, and
that null is no call). Ids are different and below the next one (`Numbered`),
what travels has the id of its own call (`Matched`), an entry of `outstandings`
is that of a call that was put and has no answer (`Entered`). `Watched` is the
argument against lost wake-ups: a call that was put has its entry, is in the
hands of the IO thread, or has an answer; one that decided to wait, or waits,
has no answer and, once `disconnected` has begun, will be visited. It gives
`AnswersAreMatched` and `NoWakeupIsLost`.

**GoRpc** (assumptions: the seven kinds of calls, the two servers). The payload in
a codec is that of the header last read, or of a refused request
(`PayloadsMatch`), a frame has the id of the call it answers (`FramesMatch`), and
while the connection is up a call is in one stage between the codecs and in some
while it is pending (`Staged`). It gives `RepliesAreMatched` and
`PanicsAreRefusals`.

**ZurgSlave** (assumptions: finitely many pids, and no owner is both a command
and an application). Start times number the forks and name the owner
(`StartsNameOwners`): this is what makes the comparison in `onTimeout` sound when
pids are reused. A callback is that of the child that has the pid
(`CallbacksMatch`), a queued one that of a child that was reaped and whose owner
still runs (`FunctorsMatch`), an application's child that was exec'ed has its
callback (`AppsWatched`), answers and kills are accounted for (`DonesCounted`,
`KillsMatch`). It gives `PidsAreConsistent`, `WhatRunsIsWatched` and
`TimeoutsKillTheirOwn`.

**Wordfreq** (assumptions: at least one worker, positive batch size and
concurrency). A key of a worker that shuffles is in one of four stages: ahead of
the thread, in the request of its partition, on its way, with the peer
(`OneStage`, with `FlightOnce` and `Contents`, which say that only its own
partition holds it). `Pool` bounds, for each phase of the thread, what is free or
on its way; that a queue never has more requests than the pool
is a lemma about cardinalities (`QueueCounted`), and that `lower_bound` finds a
pivot for each key another (`PartitionExists`). When all requests have been taken
back nothing is on its way, and the requests the thread has passed are empty
(`BatchSent`): the keys have arrived (`OverDelivered`). It gives
`KeysAreConserved` and `DeliveryIsAsCounted`.

**ZurgHardware** (assumptions: `lshw` is one of at least two commands, sizes
natural). `CommandState` ties the child, the descriptor, the registration and
the queued functors of a command together: a queued `delayedClose` has an open
descriptor whose events are off, a queued exit a reaped child that is not yet
done; with `QueuedOnce` no descriptor is closed twice. It gives
`TaskAnsweredOnce` and `SinksAreSafe`.

**WordControl** (assumptions: the lists are of workers, the head is one, the
counts are naturals; in `WordfreqProofs`). A latch is the number of callbacks to
come: in `connectAll` that of the clients that are not connected (`ConnectFacts`),
in `prepare` that of the clients whose information is missing, each of which is not
asked yet, asked, or answering (`GatherFacts`). An answer on its way is that of a
worker which had its connections when it was asked, so that a connection that is
lost meanwhile is no contradiction (`WasReady`). The totals are those of the clients
that have answered, in any order. It gives `ControllerIsPrepared`.

**Collect** (assumptions: room for a file, positive pids, a positive period between
resets, the levels of the protocol; in `ZurgHardwareProofs`). `CacheTypes` is what `list_` and `map_` have in
common: the same names, each once. During a fill only files that it has used are
ahead of the sentry (`SentryFacts`), and as long as they fit the sentry is there;
the pid being read is listed, without a record, and first of the list (`PidFacts`).
`RecordFacts` says that of the processes of a pid the last that was told is
remembered (`ToldFacts`), and `AgeFacts` that start times only grow along with what
was read of them, through processes that come and go in the middle of a fill: so a
process that differs from the remembered one is new and was never told. Lemmas say what removing a place and cutting the end do to a list without
repetitions. It gives `CacheIsConsistent` and `SnapshotsAreRight`.

**EchoBench** (assumptions: positive numbers of clients, threads, requests and
calls in flight; in `RpcChannelProofs`). Every `sendRequest` of the main thread is
one loop: what is in flight, or came late, is no more than was issued (`LoopFacts`);
`allFinished` is the number of clients that have not had their replies
(`ClientFacts`); clients connect and stop in order (`BenchFacts`); a meter has each
client of its thread that is connected and not stopped, once (`MeterFacts`). It
gives `BenchmarkIsRight`.

**Heartbeat** (assumptions: the figures of a line are zero or not, a disk is idle or
busy; in `ZurgSlaveProofs`). The slave beats only while it believes in a connection,
which is set before the first beat (`LinkFacts`); the full beat is the oldest on its
way until the master has it, and there is no other (`WireFacts`). What is stripped
is a lemma about the last figure that is not zero, and an induction on the number of
disks. It gives `HeartbeatIsRight`.

**Wire** (assumptions: payloads are not empty and of bounded size, both limits leave
room for a frame; in `GoRpcProofs`). The bytes that were sent and not
yet read, the reader's buffer included, are the rest of a message followed by whole
messages, of which only the end of the connection takes something off: there are
cuts `at`, one for each message, between which the units of that message lie
(`StreamFacts`). The first is as far back as the reader's phase says that it has read
into its message, and the length it has read is that of that message (`FrameNext`).
A send adds a cut, a read moves them all, a message that is taken drops one. It gives `ReadersStopForAReason`, and `FormatImplementsLink`:
a send is `Send`, the read that completes a message is `Receive`, the last discard of
a message over the limit is `Refuse`, every other step a stutter.

**Partition** (assumption: `Slots` is at most `MaxSlots`, 32 and 1024 in the code; in
`MedianProofs`). The histogram's partial sums are the numbers of keys up to each pivot
of the round, and no slot is too full (`FirstRound`); `lower_bound` gives the first
slot whose sum reaches the share of the workers so far, so pivots increase and the
keys between two of them differ from the average by at most what one slot may hold. A second round finds the pivots of the first
and ends in the assertion of line 49 (`RoundFacts`), so what `partition` returns
is what the first round computed. It gives `PartitionIsRight`.

The two `TypeCorrect` theorems replace the type invariants as properties of the
runs.

Only model-checked: every liveness property; the number of steps of the search
(`EnoughSteps`, under `SearchEnds`; an induction over the width of the interval); and
of the invariants `TotalRight` of `NQueens`, whose search is a `RECURSIVE` operator,
which the provers cannot use, and what it counts an induction over boards.

## 5. Findings

- `rpc_late_done`: `service.h:115` lets a service run `done` at some point in the
  future. `RpcServer` destroys the channel when the connection goes down, and
  `doneCallback` is bound to the raw pointer.

The following disagreements between code and comments, or defects, were met while
modelling. They are in the models; properties that they would break are
restricted, and say so in their comments.

- `RpcChannel.cc:83`: `onDisconnect` is empty. A call whose connection is lost
  never runs its done and stays in `outstandings_` (`AnsweredOrLost` has the case).
- `go/balancer/main.go`: a response for a client that has left is sent on a closed
  channel, which panics; the comment at line 49 expects a memory leak.
- `Process.cc:280`: a child that cannot read its own stat file reports the errno
  alone, which the parent takes for the start time, and the following end for a
  successful exec (comment at line 365). `ReadPipe`, `StartTime` and `Started` in
  `ZurgSlave` derive it.
- `kth.h:49`: the assertion fails if a sorter's data changes during the search.
- `wordfreq.cc:337`: a request that is empty at the end is not given back to the
  pool; if a partition has a multiple of `kBatch` keys `ShuffleKey` never answers
  (`UnevenShufflesEnd` excludes it).
- `partition.h:45`: the pivots of a round are not cleared for the next, whose
  assertion at line 49 then fails.
- `go/muduorpc/server.go:49`: a refused body leaves the payload behind, and the
  next header panics at line 22 (`PanicsNeedRefusals`).
- `FileCache.h:96`: a failed open is cached like a descriptor, against the comment
  at line 16; a process that reuses the pid is not reported while the entry is
  used (`StayingIsReported` has the case).
- `ProcFs.cc:475`: `starttime_` is shared by the log and the RPC. If an RPC sees a
  process first it gets its `basic`, and the records of the log are without it until
  the next reset, 60 fills later; if an RPC makes the fill that resets, this is so of
  all processes that it finds. `SnapshotsRight` is about both together; asked for the
  log alone (`asker = "log"` and told to the log), TLC refutes it within one period.
- `ProcFs.cc:482`: the command line and the executable are read by the pid, after
  `stat`: they may be those of a later process or missing (`CmdlineNotOlder`).
- `ProcFs.cc:239`: since Linux 3.14 `MemAvailable` is the third line of
  `/proc/meminfo`, so `Buffers`, `Cached` and `SwapCached` are not found
  (`FiguresRead` in `MCCollect`).

- `nqueens/server.cc`: for a board of one square the search starts below the last
  row and finds nothing; the total is 0.
- `nqueens-client/client.go:32`: a part that failed counts as -1 and is added up
  (`TotalRight` has both cases).
- `rpcbench2/client.cc`: a lost connection takes its calls with it and the program
  waits for ever at `allFinished` (`BenchEnds` has the case). `bench.cc:69`: after
  a stop the total of a meter is smaller than the last one and the rate negative.
- `Heartbeat.cc:139`: if the line of interrupts does not end in zeros, `nl-p` is -1
  and all of `/proc/stat` behind it is erased (`OnlyZerosStripped` has the case).
- `Heartbeat.cc`, `readTo`: a file that could not be opened once is never tried again.
- Java takes frames of up to 16 MB, Go of up to 64 MB, Python of any length. Java
  skips a longer message, so that its call is never answered; in Go it ends the
  reader (`StopsForAReason`).

## 6. Not modelled

- Payloads: a request stands for its content and its response. Formatting,
  logging, options, `main` functions.
- `RpcChannel`: a race on `conn_` may give the old or the new connection; other
  outcomes of the data race are not modelled. A late done sends nothing in the
  model. A Java ERROR answer without an id cannot be built and is not sent.
- `ZurgSlave`: a start time is unique per pid; SIGCHLD for stopped children and
  a child killed before it writes to the pipe are left out; contents of files and
  md5 sums too. Assertions are off in the Release build and are properties here.
- `ZurgHardware`: output that is in the pipe at the exit of its child is lost, as
  the FIXME in the code says.
- `GoRpc`: frames are whole, cut or refused (`Wire` has the bytes); `net/rpc` is
  taken to keep its contract.
- `Wire`: the C++ codec is muduo's own and external; a peer that sends another
  format. Bytes are not corrupted: TCP's promise.
- `Heartbeat`: figures that are copied as they are, and `strip_meminfo` and
  `strip_cpuinfo`, which take blanks and repetitions away.
- `NQueens`: the Python client; counts beyond 64 bits. `EchoBench`: times.
- `Collect`: the cache has room for at least one file; `meminfo` has a line
  `SwapTotal`, without which `fillMemory` does not end; names of processes with a
  parenthesis; the log file, `flushFile`, `rollFile`, `version`, `quit` and
  `restart`.
- `Wordfreq`: `Quit`, lost connections.
- The meta service: `listRpc` and `getService` read a map that does not change once
  the server runs; there is one step and no state.
- The C++ and Go code generators and generated code: text at build time.
- Resolver and sudoku: stateless services over external solvers.
- Zurg's start-up and utilities, its command-line clients, the load generator, the
  readers of the collector's log: sequential input and output, one request at a time.
- Java's `ProtobufDecoder` and `ProtobufEncoder`, used by tests only.
- Unit tests.

## 7. Plan

Done, in this order: `AbstractRpc` and `RpcChannel` with proofs; `Balancer`,
`JavaChannel`, `GoRpc`; `ZurgSlave`, `ZurgHardware`; `Median` with proofs;
`Partition`, `Wordfreq`, `WordControl`; `Collect`; `AbstractBalancer`;
`NQueens`, `EchoBench`, `Heartbeat`; `Wire` and `AbstractLink`.

What could still be modelled is small: the collector's `quit` and roll-over of its
log, and `Quit` of the workers.

Every safety property of the passing runs is proved but `TotalRight`, and so are the three
refinements. What is left to TLC, see section 4, needs a prover for fairness and
for induction over data.
