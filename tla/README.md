# Zencached in TLA+

Zencached (`src/`) is a Go client for memcached. It keeps a pool of connections
to every node it knows, hands each command to a goroutine that owns one of the
connections, notices nodes that go away, and rebuilds its table of nodes on
demand. These modules model that concurrent machinery, check it with TLC on
small instances, and prove every safety property of the passing runs with TLAPS, for
every number of clients, connections, nodes and calls. The operations of the
application are modelled from the validation of a key down to the bytes of an answer.

## 1. Inventory

### Components

| Component | Source | State | Operations |
|---|---|---|---|
| Client core | `zencached.go` | `nodeWorkerArray`, `connectedNodes` (published together under `nodeWorkersMu`), `notAvailable`, `rebalanceLock`, `rebalanceChannel` (capacity 1), `shuttingDown` | `New`, `Rebalance`, `rebalance`, `tryListNodes`, `rebalanceWorker`, `Shutdown` |
| Node workers (pool of one node) | `zencached_worker.go` | `connected`, `jobs`, `disconnectionChannel`, one goroutine per connection | `createNodeWorker`, `work`, `listenForDisconnections`, `terminate`, `sendAndReadResponse` |
| Telnet connection | `telnet.go` | `connection`, `address`, `onFailure`, the checker's ticker and end channel | `Connect`, `reconnect`, `Close`, `Send`, `Read`, `checkConnection`, `reportDisconnection` |
| Single-node operations, routing | `zencached_ops.go`, end of `zencached_worker.go` | none | `Get`, `Set`, `Add`, `Delete`, `Version`, `ValidateKey`, `GetConnectedNodeWorkers`, rendering and extraction |
| Cluster operations | `zencached_cluster.go` | none | `ClusterSet`, `ClusterAdd`, `ClusterGet`, `ClusterDelete` |
| Compression | `compression.go` | none | two library codecs |
| Configuration | `configs.go` | constants after `setDefaults` | |
| Errors, result types | `error_type.go`, `result_type.go`, `*_enumer.go` | none | constants and generated conversions |
| Metrics, logging | `interfaces.go` | none | calls to collectors of the application |

### How they interact

* A **client** goroutine takes the pool for its key from the table under
  `nodeWorkersMu`, releases the mutex, sends a job on `nw.jobs` and waits on the
  job's own unbuffered `response` channel. It never looks at its context.
* A **worker** goroutine ranges over `nw.jobs`, writes the command, reads the
  answer and sends it to the client. On a disconnection error, and with
  `RebalanceOnDisconnection`, it asks for a rebalance, leaves its loop, closes
  its connection and marks the pool down.
* A **checker** goroutine of each connection resolves and dials the node from
  time to time. It and the worker report a failure of the connection once, by
  `onFailure.CompareAndSwap`, on the pool's `disconnectionChannel`.
* The **listener** of the pool marks it down for each such signal and asks for a
  rebalance.
* **rebalanceWorker** takes requests from `rebalanceChannel` and calls
  `Rebalance`. So do `New`, the application, and the goroutine an empty rebalance
  starts. A rebalance keeps the pools of discovered nodes that are connected,
  terminates and recreates the others, and publishes the new table.
* **Shutdown** terminates a copy of the table and closes `rebalanceChannel`.

### What is hard, and what correctness means

| Component | Hard behaviour | What makes it correct |
|---|---|---|
| Pool | six kinds of goroutine on three channels; channels closed while in use; a worker that leaves with jobs still queued | a job is executed at most once and answered to its client; nobody who reports a failure blocks; a failure of a pool in service is noticed and leads to its replacement; a pool that misses a worker goes down; a terminated pool winds down |
| Client core | a lock taken by load-then-store; state read outside the mutex; a retry started before the lock is released; Shutdown during a rebalance | table and pools agree; no pool is lost or terminated twice; no request for a rebalance is lost; the flag `notAvailable` agrees with the table |
| Telnet | a timed-out command whose answer comes late; an answer split over reads; a reconnection beside the checker; `Close` that finds the checker away from its select | an answer is always the answer to the command just sent |
| Operations | a composite key built in the caller's memory; routing by one byte over tables that change; answers recognised by patterns, extracted by indices, and decoded | the right node, the right bytes; a result is a true account of one execution; an error promises nothing |
| Cluster operations | a length read without the lock, then indices into a table that changes; one node of several fails | a result or an error for each position |

`PROJECT.json` lists every hazard at its line, with the property that would
catch it.

## 2. Modules

| Module | Models | Status |
|---|---|---|
| `CallService` | what a caller of `addJobAndWait` may rely on: a call is served at most once and returns after it was served | done |
| `NodeWorkers` | one pool with its clients, workers, checkers and listener; Rebalance and Shutdown as far as they touch it | done |
| `MCNodeWorkers` | symmetry for TLC | done |
| `NodeWorkersProofs` | invariants of `NodeWorkers`, and that it implements `CallService` | done |
| `Rebalance` | the node table, its lock, every caller of `Rebalance`, retries, `Shutdown` | done |
| `HostOrder` | the sort both published arrays go through; used by `Rebalance` and `Operations` | done |
| `HostOrderProofs` | what that sort returns, and that it takes parallel arrays to parallel arrays | done |
| `RebalanceProofs` | invariants of `Rebalance` | done |
| `MCRebalance` | nodes and node lists for TLC | done |
| `Telnet` | one connection: `Send`, `Read`, `reconnect`, `Close`, the checker, with the network and the server as environment; for any commands and answers | done |
| `TelnetProofs` | invariants of `Telnet` | done |
| `Memcached` | what a server does with a command for one key (external) | done |
| `KeyStore` | the abstract specification: what a caller of Get, Set, Add and Delete may rely on | done |
| `Commands` | `Telnet` with the commands of the client and a server that keeps a value; implements `KeyStore` | done |
| `MCCommands` | values, answers and response sets for TLC | done |
| `CommandsProofs` | that `Commands` uses `Telnet` and implements `KeyStore` | done |
| `Operations` | the application's calls over the node table: validation, routing, jobs, results, cluster loops, compression | done |
| `MCOperations` | calls and node lists for TLC | done |
| `OperationsProofs` | invariants of `Operations` | done |

The modules meet at narrow places. `NodeWorkers` is one pool of `Rebalance`, which
knows its `connected` mark and its requests; the `outcome` a worker of `NodeWorkers`
gets is a step of `Telnet`; `Commands` composes `Telnet` with the server and shows
that what comes back is what `KeyStore` promises; `Operations` gives its jobs to a
pool that keeps that promise, and reads the table `Rebalance` publishes.

### NodeWorkers and the code

One `nodeWorkers` object. A Go channel is its buffer and a closed flag: `jobs`
and `jobsClosed` for `nw.jobs`, `disc` and `discClosed` for
`nw.disconnectionChannel` (its signals carry nothing, so a number suffices),
`rebal` and `rebalClosed` for `z.rebalanceChannel`. A job is named by the client
that waits for it, since a client has one job at a time. Each goroutine has a
variable that says at which blocking or visible statement it is:

* `client[c]`: `idle`, `sending` (at `nw.jobs <- job`), `waiting` (at
  `<-job.response`);
* `worker[w]`: `receive` (at `range nw.jobs`), `execute`, `report` (at the send in
  `reportDisconnection`), `reply` (at `job.response <-`), `signal` (at
  `rebalanceChannel <-`), `exit` (after the loop), `done`;
* `checker[w]`, `listener`, `creation`, `shutdown` likewise;
* `rebalancing` is the holder of `rebalanceLock`: `no` one, the call that serves a
  `request` and has not visited this pool, an `other` call that has not, or either
  `leaving`, with this pool behind it. `RequestReceived` is `rebalanceWorker` with the
  test of the lock: a request taken while another call holds it is dropped.

`sendAndReadResponse` is reduced to the outcomes `work` and `reportDisconnection`
tell apart (`Responses`); `Telnet` has the whole of it. `panicked` names the channel whose misuse ended the
process; after that nothing is enabled.

Abstractions, on purpose:

* `terminate` is one step. What could run between its three statements only finds
  a pool already marked down, which routes no more clients.
* The module lets a pool be terminated at most once, which is the concern of
  `Rebalance`.
* A rebalance may visit the pool also without the lock, since two calls that load it
  before either stores it both go on (`OtherRebalanceVisits`). The other pools appear
  as `OtherPoolSignals`.
* Unless the nodes are static (`StaticNodes`), a list may leave the node out
  (`PassOver`). The pool then leaves the table; the module goes on as if clients,
  rebalances and Shutdown could still find it.
* Of the two `Telnet` objects a worker could be given by later versions of the
  code, only the one `NewTelnetFromNode` makes exists; a connection is dialled
  once, by `createNodeWorker`.

### Rebalance and the code

`pc[p]` is the statement of `rebalance` a process is at, and `todo`, `existing`,
`foundPools`, `foundNodes` are its locals (the remaining discovered nodes,
`existingNodeWorkerMap`, `nodeTelnetConns` and the local `connectedNodes`). The
processes are the application's `Callers`, `rebalanceWorker` (`Worker`, which
begins inside the call `New` makes, since `New` starts the goroutine after it)
and the `Retries` that an empty rebalance starts. `stop[s]` is the place of a
goroutine in `Shutdown`, `stopList` the copied pools it has still to terminate.

A pool is a name with a `status` (`none`, `up`, `down`, `terminated`), its node and
`asking`: some goroutine of it is at the send of a rebalance request. What a pool
does by itself (`PoolGoesDown`, `PoolGivesUp`, `PoolAsks`, `PoolSignals`,
`PoolPanics`) is the shadow of `NodeWorkers`.

Abstractions, on purpose:

* `ListNodes` is one step: `tryListNodes` returns one of the lists the function
  may return, or, having tried in vain, the configured nodes. The attempts and
  the waits between them touch no shared state.
* A node is a pair of numbers; the code compares hosts only (`NodeHost`).
  `SortByHost` is the insertion sort `sort.Sort` uses on at most 12 elements,
  which is stable: it puts an element behind those of a smaller host and those of
  its own host that came before it (`Place`). Larger tables are outside the model.
* `Pools` bounds the `nodeWorkers` objects in memory. A name is used again when
  its pool is terminated and nothing refers to it; a request its goroutines have
  still to send goes with the name, which only adds requests. `asking` stands for
  all blocked senders of one pool.
* `Retries` bounds the retry goroutines alive at a time: `StartRetry` is enabled when a
  name is free, where the `go` statement of the code never waits. With two names one is
  always free for a rebalance that overlaps no other.

### Telnet and the code

`pc` is the statement of `Send`, `Read` or `reconnect` the worker is at. A
connection is `open`, `dead` (the server closed or reset it) or `nil`, as
`t.connection`; `received` are the requests the server has and did not answer,
`arriving` the tokens on their way or in the socket, and `fullBuffer` what `read`
has collected. A `Read` takes any part of what arrives, at most `ReadBufferSize`
tokens, so an answer is cut up in every way. Deadlines are not timed: they may pass
whenever the worker is writing or reading (`TimesOut`), since a context may have
any deadline. `Resolve` and `Dial` are separate steps because the checker reads
`address` between them. `Occurs` is `findLastIndexOfByteSlice` with its backward
search and its way of starting again; it is given only the chunk just read, as in
the code. `answer` exists for the properties; locals that are dead are reset.

Abstractions, on purpose:

* An answer is a sequence of tokens, as fine as the patterns of the response sets
  tell apart: a line break is one token. `NOT_STORED` is one or, torn before `STORED`,
  two (`NotStoredWords` of `Commands`).
* A `Send` writes one payload, as every caller in the client does.
* A failure sets `onFailure`; what becomes of its signal is in `NodeWorkers`.
* The end of the checker. `Close` offers the end signal in a `select` with a
  `default`, and `checkConnection` takes it in a `select` with a `default` too. A
  rendezvous of two parties that never wait does not happen, so the signal is
  never passed: in both modules the checker goes on after `Close`, until it
  reports a failure itself.

### Commands, KeyStore and the code

`Commands` gives `Telnet` its CONSTANTS: the jobs of `baseStore`, `baseGet` and
`baseDelete`, the response set of each, and what memcached may answer. `Issue` is a
job up to the write, `OperationResult` what `checkResponse` and the `base` functions
make of what was read, `Extract` is `extractGetCmdValue`. The server executes a
request and answers it (`Executes`) or says that it cannot (`Declines`), which no
response set recognises. A request whose connection was closed goes to `late` and
may still be executed.

`KeyStore` maps onto it: a command is `called` until the server executed it,
`applied` then, and `abandoned` when it was written on a connection that is gone.
Its promises: a command is executed at most once; a result is the one of its
execution, which happened before it returned; after an error, or no result, the
command may have been executed, may be executed later beside other commands, or
never. The code keeps them for answers in which no pattern is found but at their end
(`Unambiguous`) and the first one found is that of what was done (`Recognises`); what
it does otherwise is under "What the violations say".

### Operations and the code

`pc` says where a caller is: `validate` (after `ValidateKey` appended, before it
looks), `route` (before `nodeWorkersMu` in `GetConnectedNodeWorkers`), `loop` (in a
cluster operation), `job` (in `addJobAndWait`), `executed`. `answers` are the
positions of `results` and `errors` that are filled; a single-node operation has one.
`table` is `nodeWorkerArray`; `Publishes` and `SetsFlag` are the two places where a
rebalance changes what callers read. `behind` is the memory behind a path slice,
for the paths in `Shared`, that is those with room for every key: an `append` on
another path moves to a new array and touches nothing. Data is a value under layers
of encoding: `zstandard` is zstd over base64, as `zstdCompression` does it.

Abstractions, on purpose:

* A pool is its node and whether it is connected; what a job meets there is in
  `NodeWorkers`, including the panic on a closed channel, and in `Commands`,
  including late execution.
* Other clients of the servers appear only as `Legacy` data at the beginning.
* The codecs refuse data they did not encode. zstd does, by its header; base64 alone
  accepts plain data that happens to be in its alphabet.
* A node is its host, hosts are distinct. `Rebalance` has nodes that share one.

## 3. Checks

All runs use TLC with the bounds of the `.cfg` files.

| Run | Instance | Shows |
|---|---|---|
| `NodeWorkers_safety` | 3 clients, 2 connections, job buffer 1, rebalancing on | `TypeOK`, `JobConservation`, `ReportNeverBlocks`, `FailureIsNoticed`, `DownForAReason`, and the refinement `ServesCallsOnce`; the list may leave the node out |
| `NodeWorkers_liveness` | 1 client, 2 connections, rebalancing on, static nodes | `FailureIsRepaired` (unless a request meets the lock of another call), `LeftPoolGoesDown`, `PoolWindsDown`, `CallsAreAnswered` under `FairSpec` |
| `Rebalance_serial` | two nodes listed against host order, one of which may be unreachable; only `rebalanceWorker` rebalances; pools fail at any time | `TypeOK`, `NoDoubleTermination`, `TableIsExactAtRest`, `HealthyPoolsKept`, and `RequestIsServed` under `FairSpec` |
| `Rebalance_overlap` | an application goroutine that calls Rebalance, `rebalanceWorker` and one Shutdown, lists of one or two nodes or of one node twice, one possibly unreachable | `TablesAligned` although rebalances overlap |
| `Rebalance_retries` | three nodes, two of one host, any of which may be unreachable at any time; retries; one Shutdown | `FlagAgreesAtRest`, `TablesAligned` |
| `Telnet_replies` | module `Commands`: three commands of the six there are (two values), answers cut up in every way, errors nobody recognises, late execution | `TypeOK`, `ReplyIsTheAnswer`, `NothingLeftUnread` (and never two requests on the wire), `ReadsAreConnected`; the refinement `KeepsItsPromise`; `CommandsReturn` under `FairCommandsSpec` |
| `Operations_calls` | two callers, two calls of ten, two servers, tables of none, one or two nodes in any order of discovery, one rebalance, zstd over base64 with older data in the servers | `TypeOK`, `KeysAreLegal`, `RoutingIsStable`, `ClusterAnswersForEachNode`, `DataIsTrue`, `OnlyClusterCallsPanic` |
| `NodeWorkers_stranded_calls` | 2 clients, 1 connection | a counterexample to `CallsReturn` |
| `NodeWorkers_panic_in_calls` | 1 client, 1 connection | a counterexample to `NoPanicInCalls` |
| `Rebalance_shutdown_race` | two nodes, one call of Rebalance, one of Shutdown | a counterexample to `ShutdownClosesAllPools` |
| `Rebalance_recovers` | one node, two names for retries | a counterexample to `EmptyTableRecovers` |
| `Operations_shared_path` | two callers with one path slice that has room, a good and a bad key | a counterexample to `KeysAreLegal` |

**Why the bounds are enough.** Three clients on a buffer of one put a job in a
worker's hands, one in the buffer and one before it. Two connections make the two
signals that fill `disconnectionChannel`, let one worker leave while another
serves, and let worker and checker of one connection race with the other's. The
proofs below lift the safety part to any number. Liveness is checked with one
client, for size: contention for `jobs` is in the safety run. The counterexamples of
`NodeWorkers` need one client or two, and one connection. In `Rebalance`, two
nodes are the least that can be sorted wrongly, or of which one can fail after
the other was visited; a third of the same host, in the retries run, shows that
both sorts leave equal hosts in the same order. Four pool names are two tables
of two nodes. In `Commands` three
requests are one that is interrupted, one that could meet its remains, and one after
a failed reconnection; a read buffer of eight tokens is smaller than the answer to
Get. The values are one of a single token, and one that holds a blank, a line break
and an `END` that does not end the answer; `Values` leaves out those that end
in `END` or have it before a line break, and `NOT_STORED` comes in one piece, since
otherwise the promise does not hold (see below). One address is
enough, since a second one only adds ways for the checker to report. In `Operations`
two calls are a store and a reader, or two at once; one rebalance between or inside
them permutes, shrinks, shifts or empties the table; keys of two bytes can be divided
in every way, with the bad byte in the path or the key and the length exceeded only
by both together.

**Deadlock** is checked in the `Rebalance_serial` run. The
others end: a panic ends the process, a pool may fail to be created or wind down,
a client that was shut down, or is not to rebalance, comes to rest, or pools that
nobody terminates use up the names (`Rebalance_overlap`), or the bounds on requests,
calls and tables are reached (`Telnet_replies`, `Operations_calls`).

### Fairness

Every goroutine the library starts is scheduled and every read or write ends at
its deadline (`setDefaults` keeps both at a second or more), so their steps are
weakly fair. Blocked senders on a Go channel queue in order of arrival, hence
strong fairness of each send; the requests of one pool for a rebalance are finitely many, and
fairness is stated of them together. In `Commands` the
worker inside Send and Read is weakly fair, the server and the network are not: what
ends a wait is the deadline. No fairness makes a client call, a checker find a
failure, a node fail, or the application call `Rebalance` or `Shutdown`.
`NodeListFunction` is assumed to return and a dial has a timeout, so a call of
`Rebalance` ends. `ReachableSpec` adds that a node dialled
for ever is reached at last: an assumption on the environment, used only in
`Rebalance_recovers`, where it rules out the trivial way not to recover.

### What the violations say

* **Stranded calls.** `work` leaves its loop on a disconnection error
  (`zencached_worker.go:108`) without emptying `nw.jobs`. If it was the last
  worker, the jobs left are never answered, and their clients wait forever, since
  `addJobAndWait` ignores the context. With `RebalanceOnDisconnection` off no worker
  leaves and every call returns; what holds in both cases is `CallsAreAnswered`.
* **Panic in calls.** A client that found its pool may be overtaken by
  `terminate`, and then sends on a closed channel.
* **Shutdown race.** A rebalance in progress and Shutdown do not exclude each
  other: the pools it creates while Shutdown works through the old table survive.
* **No recovery.** The retry of an empty rebalance starts before the deferred
  release of the lock. If it looks first it gives up, and so does the client.
* **Shared paths.** `ValidateKey` appends the key to the path it was given. If the
  array of the path has room (a converted string literal usually has) and two
  goroutines use it, each may validate the key of the other. The command is rendered
  from path and key, so an invalid key reaches the server, or a valid one is refused.

The modules have further behaviours that the repository does not mean. No run is kept
for them; TLC shows each on the instance named.

* **Dropped request.** A call of `Rebalance` that finds the lock held returns at once.
  If it is the one with which `rebalanceWorker` serves the request of a pool, and the
  call that holds the lock visited that pool before it failed, the pool stays down
  (`docs/ARCHITECTURE.md:470`: "Mark node down, trigger rebalance"). `Repaired`, that is
  `FailureIsRepaired` without its premise, fails with one client and one connection.
* **Early request.** `work` asks for the rebalance before it marks the pool down. An
  empty answer (`ErrMemcachedNoResponse`) reports no disconnection, so the rebalance may
  come in between, keep the pool, and leave it down with no request pending
  (`creation = "up" /\ ~connected ~> jobsClosed` fails, with the same premise).
* **Panic after Shutdown.** A listener or worker about to ask for a rebalance sends on
  the channel Shutdown has closed (`panicked = "rebalanceChannel"` is reachable).
* **Two Shutdowns, two rebalances.** The flag and the lock are loaded, then stored. Two
  calls that load before either stores both go on, and terminate a pool twice: the
  second closes a closed channel: `NoDoubleTermination` fails on one node with two
  `Stoppers`, or with two `Callers`.
* **Unlisted nodes.** A node that is listed no more loses its place in the table; its
  pool, goroutines and connections stay, although `docs/ARCHITECTURE.md:373` has it
  disconnected. `TableIsExactAtRest` fails with one of `Callers` and a list that lacks a node.
* **Stale flag.** `notAvailable` is stored after the table is published, outside the
  mutex. Between the two a rebalance of the application may publish another table, and
  then the flag contradicts it until the next rebalance: `FlagAgreesAtRest` fails with one of
  `Callers` beside the retries.
* **Refused Add.** `read` looks for a pattern in the last chunk only. A `NOT_STORED`
  torn before its `STORED` ends with a chunk in which only `STORED` is found, and Add
  reports that it stored, although `docs/API.md:107` has it fail if the key exists
  (`pc = "idle" /\ reply.type = "NotStored" => outcome.type # "Stored"` fails with
  `NotStoredWords` torn).
* **End in a value.** `read` stops at the first chunk with `END\r\n` in it, wherever it
  is, instead of counting the bytes the `VALUE` line announces. If the chunk ends within
  the value, the slice of `extractGetCmdValue` ends past what was read; and the rest is
  what the next command reads first (`Extract` returns `Overrun` with the value
  `<<"END", "CRLF", "x">>`). base64 avoids it, zstd does not.
* **Checker panic.** A reconnection that could not resolve the name leaves a nil address,
  and the checker dereferences it when the name resolves again: `panicked` is reachable in
  `Telnet`.
* In `Rebalance`, a node that is listed twice, is down and cannot be reached has its pool
  terminated twice, which panics; if its new pool goes down at once, the table holds a
  terminated pool beside another new one.
* In `Telnet`, a terminator that is cut in two is missed, so that the command waits for
  its deadline. At the end of the connection (`io.EOF`) a partial answer is returned as
  `ResultTypeNone` without an error.
* In `Operations`, a cluster operation panics when the table shrinks under its loop,
  and when a node of a smaller host appears it visits the next one twice and misses
  one that was there all the time, without an error. `Set` and `Add` refuse an empty
  value, `ClusterSet` and `ClusterAdd` store it, and `Get` then says not found.
* Keys are routed by one byte modulo the number of nodes. `docs/API.md:67` calls that
  consistent hashing; a node more or less moves most keys. Nodes of one host have no
  order but that of discovery, and change places with it.

## 4. Proofs

Every safety invariant and action property of the passing runs, and both refinements,
are theorems of the specification. The assumptions are the named ones of the modules,
which TLC evaluates on every run; a theorem that needs more says so in its statement.

| Module | Theorem | States | Under |
|---|---|---|---|
| `NodeWorkersProofs` | `TypeCorrect` | `Spec => []TypeOK` | |
| | `JobsConserved` | `Spec => []JobConservation` | |
| | `FailuresAreNoticed` | `Spec => []FailureIsNoticed` | |
| | `DownPoolsHaveAReason` | `Spec => []DownForAReason` | |
| | `ReportsNeverBlock` | `Spec => []ReportNeverBlocks` | |
| | `PoolServesCallsOnce` | `Spec => ServesCallsOnce` | |
| `RebalanceProofs` | `RebalanceTypeCorrect` | `Spec => []TypeOK` | |
| | `TablesStayAligned` | `Spec => []TablesAligned` | |
| | `FlagAgrees` | `Spec => []FlagAgreesAtRest` | `OneAtATime` |
| | `NoPoolTerminatedTwice` | `Spec => []NoDoubleTermination` | `Steady` |
| | `TableIsExact` | `Spec => []TableIsExactAtRest` | `Steady`, `FixedNodes` |
| | `HealthyPoolsStay` | `Spec => HealthyPoolsKept` | `Steady`, `FixedNodes` |
| `TelnetProofs` | `TelnetTypeCorrect` | `Spec => []TypeOK` | |
| | `ReadsConnected` | `Spec => []ReadsAreConnected` | |
| | `RepliesAreAnswers` | `Spec => []ReplyIsTheAnswer` | `Unambiguous` |
| | `NothingStaysUnread` | `Spec => []NothingLeftUnread` | `Unambiguous` |
| `CommandsProofs` | `CommandsUseTelnet` | `CommandsSpec => Spec` | |
| | `CommandsKeepTheirPromise` | `CommandsSpec => KeepsItsPromise` | `Unambiguous`, `Recognises` |
| `OperationsProofs` | `OperationsTypeCorrect` | `Spec => []TypeOK` | |
| | `DataTrue` | `Spec => []DataIsTrue` | |
| | `ClusterAnswersComplete` | `Spec => []ClusterAnswersForEachNode` | |
| | `PanicsInClusterLoops` | `Spec => []OnlyClusterCallsPanic` | |
| | `KeysLegal` | `Spec => []KeysAreLegal` | `NoBadSharing` |
| | `RoutingStable` | `Spec => []RoutingIsStable` | |

### The hypotheses

Each one excludes a
behaviour listed under "What the violations say": without it the property is false of
the code.

* `OneAtATime`: the application does not call `Rebalance`, and either no retry is ever
  started or `rebalanceWorker` is asked for nothing. The lock is loaded and then stored,
  so two goroutines that meet there are both inside. Shutdown may run all the same.
* `Steady`: moreover nobody is in Shutdown, and no list names a node twice.
* `FixedNodes`: moreover there is no `NodeListFunction`. The pool of a node that is
  discovered no more is neither kept nor terminated.
* `Unambiguous`: no part of an answer holds a pattern unless it reaches the end of the
  answer. It depends on the values stored: one that ends in `END`, or has it before a line
  break, breaks it.
* `Recognises`: no part of an `ERROR` holds a pattern, and the first pattern found in a
  part of the answer to a store or a delete tells what was done. It fails when the
  network may tear `NOT_STORED` before `STORED`.
* `NoBadSharing`: there is one caller, or no call has a blank in its path or key and a
  path whose array has room.

`Rebalance_serial` is an instance of `Steady` and `FixedNodes`, `Rebalance_retries` of
`OneAtATime`; in `Operations_calls` the path that has room is used with good keys only.
`Unambiguous` and `Recognises` are assumptions of `MCCommands`, as is that the latter fails
with the torn `NOT_STORED`; TLC evaluates them:
they are about `Occurs`, a recursive function, and what it computes for all inputs is
out of the prover's reach.

### A pool (`NodeWorkersProofs`)

The argument has three inductive invariants, each relative to the ones before it.

1. `JobInv` is `JobConservation` with one fact it lacks: a worker that serves holds
   the job of a client. Without it a worker that serves `NoJob` could answer
   nobody. Two lemmas say what becomes of membership in the queue when a job is
   appended and when the head is taken.
2. `PoolInv` is about failures. A connection on failure has one reporter, its
   worker or its checker (`SoleReporter`); a buffered signal has a failed
   connection behind it (`SignalsHaveCause`); closed channels mean the pool is
   down (`ClosedIsDown`); while connections are being dialled nobody listens and
   no client is routed (`DialingIsQuiet`, `ConnectedIsUp`). `FailureIsNoticed` is
   not inductive by itself: the step that consumes the signal is harmless only
   because it also marks the pool down, and a signal is lost only on a closed
   channel, when `ClosedIsDown` says the pool is down already.
3. `Budget`: the buffered signals and the connections that have still to send one
   never exceed the capacity. Each report moves one connection from the second
   to the first (`BudgetSpent`, on cardinalities), so a reporter finds room.

`PoolServesCallsOnce` maps a client to `idle`, `pending` or `served` (its job is in
the hands of a worker that has the response). Each step of the pool moves at most
one client one stage on, or none; `JobConservation` is what makes `WorkerReceives`
and `WorkerReplies` concern a single client.

### The table (`HostOrderProofs`, `RebalanceProofs`)

`HostOrderProofs` shows that `Place` is a bijection of the indices, so `SortByHost`
permutes its argument into host order (`SortPermutes`); that two arrays sorted by the
same hosts are permuted alike, which is why pools and nodes stay parallel although they
are sorted separately (`SortedTogether`, and it needs the sort to be stable); and that
a strictly increasing list is determined by its elements (`IncreasingIsUnique`).

1. `Typing` with `AlignInv`. `TablesAligned` says nothing of what a rebalance has built so
   far: `AlignInv` adds that the pools and nodes each process has found are parallel, that
   a pool in its map is that of its node, and that a name nobody created is not referred
   to, so that creating a pool changes the node of none in use.
2. `FlagInv`: at most one process is past the lock and not yet at its release; the flag
   and the table agree while there is none, and each place of a rebalance says what
   is already decided.
3. `ExactInv`: while a rebalance visits the nodes, the pools it has found and those its
   map gives for the nodes it has still to visit (`Pending`, `Kept`) are all alive, and
   with `FixedNodes` they are all that live. No node is pending and found, which is where
   a list with a repetition would break it. A pool is therefore terminated only when its
   node is visited, and the table published holds exactly the living ones; that none
   of them is lost is also why `HealthyPoolsKept` holds of every step.

### A connection and its commands (`TelnetProofs`, `CommandsProofs`)

`WireInv` says of each place of the worker what can be on the wire. While it reads, the
server has at most the command it waits for, and what was read and what arrives are
together the beginning of one answer to it (`Awaits`, `BeginsWith`); at any other time
there is nothing on a connection that will be used again. A chunk is then a part of the
answer (`ChunkIsAPart`), and `Unambiguous` makes one that holds a pattern its end
(`MatchIsTheEnd`), so nothing stays behind.

`CommandsKeepTheirPromise` goes step by step. `Commands` adds to `WireInv` an account of
the command (`AccountInv`): what was answered is `ERROR`, without an execution, or the
answer for the reply of one execution; and no request is both on the connection and among
the late ones, so none is executed twice. `Issue` is `Invoke` or `Refuse`; `Executes`
is `Apply`, or `ApplyLate` when its caller has gone; a connection that breaks or times
out under an unanswered request is `GiveUp`; every other end of a command is `Fail`; and
a chunk with a pattern in it is `Return`. The last needs `ExtractsTheValue`: what
`extractGetCmdValue` finds in the answer to a get is the value, for every value whose
length has a digit.

### Calls (`OperationsProofs`)

* `DataInv`: the servers hold what some store encoded, or older data, and an answer that
  was executed says so. `LayersComeOff` shows that decoding undoes each choice of layers.
* `ClusterInv`: where a loop is, how many positions are filled, and, as long as no table
  was published since the length was read, that each of them is that of its node.
  Checking it showed that `undisturbed` must be false at the beginning.
* `KeysInv`: what was validated, and that it is still what the call will send.
* `RoutingInv`: each choice of a node was made in some strictly increasing list of the
  nodes then connected, by the last byte of the hash or of the key. There is one such list
  (`IncreasingIsUnique`), so two choices among the same nodes agree.

### Only model-checked

Liveness (`FailureIsRepaired`, `LeftPoolGoesDown`, `PoolWindsDown`, `CallsAreAnswered`, `RequestIsServed`,
`CommandsReturn`): it needs fairness and ENABLED. What `Occurs` computes for given
patterns and answers (`Unambiguous`, `Recognises`): an induction over its arguments.

## 5. What is left

* `Recognises` could be unfolded for the code's own lines in one piece, were the recursion
  of `Occurs` within reach of the provers.
* That `Unambiguous` holds of every value without `END` is, for the same reason, left
  to TLC on given values.
* A composition of `Operations` with the pools of `Rebalance`, in which a table
  published under a running call names pools that fail later: `Operations` has the pool
  as its node and a mark.

## 6. Not modelled

* **Version on the wire.** Its response set is the word `VERSION` alone, so `read` may
  return before the rest of the line has come and leave it for the next command.
  In `Commands` it would break every property of the connection; `Operations` has it
  as a call that is routed and answered.
* **The attempts of `tryListNodes`**: one step that returns any list it may return.
  The attempts and the waits touch no shared state. (`NumNodeListRetries` counts
  attempts, not retries, and the wait follows the last failure too.)
* **The encodings** of base64 and zstd, which are libraries: only the order of the
  layers and what each accepts. `ResultTypeCompressionError` cannot occur with them.
* **Flags, expiry times and the text of keys** in rendered commands; a key is judged by
  its length and by whether it holds a blank.
* **Configuration** beyond the defaults the constants' assumptions state; the
  enumeration types with their generated conversions; error wording, metrics and
  logging, which change no state.
