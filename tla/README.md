# Metrics agent and server: TLA+ models, checks and proofs

This directory verifies the core of the metrics service: the agent that collects
runtime metrics and posts them in batches, the way of a batch through the
agent's HTTP hook and the server's middleware, the storages behind the handlers,
and what runs beside the handlers, the audit publisher and the backup of the
in-memory store. Paths below are relative to the repository.

## 1. The system

### Inventory

| component | state | operations | talks to |
|---|---|---|---|
| agent pipeline: `cmd/agent/main.go`, `internal/agent/{collector,storage,sender}.go` | `LocalMetrics` (two maps, one mutex), channel `jobs`, context, wait groups, channel `done`, `sigCh` | `CollectMetrics`, `CollectSystemMetrics`, `CollectBatch`, `SendBatch`, the graceful and the forced exit | the server over HTTP, through `pkg/retry` |
| retry: `pkg/retry/retry.go` | position in the list of delays | `Do` | `SendBatch`, its only caller |
| hook of the agent's client: `internal/agent/sender.go`, `pkg/{hash,crypto,pool}` | a pool of gzip writers | sign, encrypt, compress | `SendMetrics` |
| middleware: hash, decrypt, gzip, body limit, logger | pools of gzip readers and writers | decompress, decrypt, check, compress the answer | router, handlers |
| handlers, router, use case, entities | none | update, batch update, reads, ping | repository, audit publisher |
| memory store and repository: `adapter/out/memory/{storage_metric,repo_metric}.go` | two maps, one RWMutex | updates of one metric or a batch, reads, `RestoreBatch` | handlers, backup |
| Postgres: `adapter/out/postgres` | tables of gauges and counters, a pool of connections | upserts, a batch in a transaction, reads | database |
| backup: `adapter/out/memory/{file_backup,sync_backup_storage,storage}.go` | the file, the ticker goroutine, the channel `done` | `Save`, `Restore`, `Start`, saving updates, `WaitBackup` | store, `main` |
| audit: `adapter/out/audit/*.go`, `app/audit_init.go` | `p.closed`, one buffered channel and one goroutine per observer, the log file | `Publish`, `Close`, `dispatch`, `Notify` of file and HTTP observer | handlers, `main` |
| server lifecycle: `cmd/server/main.go`, `internal/server/app` | signal context, one 5 s shutdown budget | `Run`, `Shutdown`, `WaitBackup`, closers | everything |
| configuration, wire types, logger | none | run once at start | agent and server |
| developer tools: `cmd/reset`, `cmd/staticlint`, `cmd/keygen` | none | run by hand | nothing |

### What is hard, and what makes each part correct

* **Agent.** Four kinds of goroutines share `LocalMetrics` and `jobs`.
  `CollectBatch` copies the gauges and takes the counters in two critical
  sections; `jobs` is closed by the shutdown while the sender may be blocked in
  one of two sends; workers retry for up to nine seconds while the shutdown waits
  for them. Correct is: a poll is counted and sent once, a batch has one owner,
  nobody sends on the closed channel, a graceful exit leaves no batch behind,
  and a signal ends the process.
* **Delivery.** Requests and answers are lost or late, a call is repeated after a
  network error, and several workers send at once. Correct is: a batch reported
  as sent was applied, a batch is applied again only after an answer that was
  not heard, and older gauges win only where calls overlap.
* **Body and answer.** The hook signs, encrypts and compresses; the middleware
  must undo this in the opposite order for every combination of keys. Requests
  share three pools of gzip objects, given back by deferred calls. Correct is: a
  pooled object has one user, a handler acts on what its client sent and signed,
  and an answer is whole.
* **Storage.** Batches, single updates and reads meet in two maps, or in tables
  whose rows are locked in the random order of Go's maps; transactions fail at
  any point and can lock each other out; counters reach the end of 64 bits.
  Correct is: the storage behaves as one map that each accepted request changes
  once and in one step, and every request ends.
* **Audit.** `Publish` checks `p.closed` under a lock and sends after giving it
  up; a full queue drops the event; `Close` has a deadline; the file is closed
  behind `Close`. Correct is: accepted events arrive once and in order, a
  successful `Close` has drained everything, no write meets the closed file
  unless the deadline passed, and neither `Publish` nor `Close` waits for a
  hanging observer. What does wait, without a deadline, is the closing of the
  file, for a write that holds its mutex.
* **Backup.** `Save` reads two maps in two critical sections, truncates the file
  and writes it; crashes, full disks, restarts and requests fall between; in the
  synchronous mode every handler saves on its own. Correct is: a restart
  restores a whole snapshot or nothing, a save never loses what an earlier one
  had unless a start found that snapshot destroyed, no batch is counted without
  its gauges, and the final save covers everything up to the signal.

## 2. Modules

| module | content |
|---|---|
| `Agent` | the agent, `retry.Do` inside its workers |
| `PollLedger` | abstract specification: what the agent promises of the polls it counts |
| `Delivery` | extends `Agent` with the network and the server's store: the composition of both sides |
| `Pipeline` | one request body from the hook through the middleware to the handler, and its answer; the gzip pools |
| `Metrics` | metrics of a request: the handlers' checks, the folding of `SaveBatch`, the upsert |
| `Store` | requests over the memory store or Postgres, transactions, the pool of connections, the end of the process |
| `MetricMap` | abstract specification: what both storages promise |
| `Audit` | publisher, observers, publishing handlers, closer |
| `EventLog` | abstract specification: what the publisher promises each observer |
| `Backup` | in-memory store, its backup, the life of the server process |
| `AgentProofs`, `DeliveryProofs`, `PipelineProofs`, `StoreProofs`, `AuditProofs`, `BackupProofs` | theorems about the module of that name |
| `FiniteSums` | lemmas: induction over finite sets, the sums of `Metrics` and `Store`, remainders |
| `MCAgent`, `MCDelivery`, `MCPipeline`, `MCStore`, `MCAudit`, `MCBackup` | values of constants and symmetry sets for TLC |

A definition that is there to be compared with the code's (a *variant*, such as
`KeepCounters` beside `ClearCounters`) is used by no action. It is the form the
code would have with a plausible bug, and each property is violated when one of
them takes the place of the code's definition.

How they fit together: `Delivery` takes the server's handling of a batch to be
atomic (`Apply`). `Pipeline` shows that what reaches the handler is what the
agent sent, and `Store` that the handler's update of either storage is atomic.
`Backup` looks at the same memory store from the side of the file and keeps, in
place of values, which updates a map contains.

### `Agent`

| code | model |
|---|---|
| `LocalMetrics.gauges` | `gauges`: the poll that last set the runtime gauges, `RandomValue` and the system gauges, 0 when unset |
| `LocalMetrics.counters` | `counters`: the set of polls added to `PollCount` since `SnapshotCounters` cleared it; its size is the counter's value |
| loop of `main.go:87-98` with `CollectMetrics` | `CollectRuntime`, `CountPoll`, `SetRandom`, `CollectorStops` |
| loop of `main.go:101-112` | `CollectSystem`, `SystemStops` |
| sender, `main.go:116-132`, `CollectBatch` | `SnapshotGauges`, `SnapshotCounters`, `Enqueue`; both the ticker branch and the final flush |
| workers, `main.go:79-85`, `SendBatch`, `retry.Do` | `TakeJob`, `CallReturns`, `NetworkFails`, `Retry`, `AbortRetry`, `WorkerStops` |
| `main` and its shutdown goroutine | `Signal`, `Cancel`, `CloseJobs`, `WorkersDone`, `Exit`, `ForcedExit` |

Each critical section of the mutex is one step, and the 27 gauges that
`CollectMetrics` sets before `PollCount` are one step: no property tells them
apart. Go's `select` takes any ready branch, so a collector or the sender may
take its ticker branch again after the cancellation. Whether a call succeeded
is free: any answer may be a success, an error `retryIf` refuses, or a network
error, which `retry.Do` repeats until its delays are used up or the context is
cancelled. Calls have no context, so a call under way ends by itself.

`PollLedger` knows nothing of goroutines. A poll is counted once, leaves with
everything unsent in one parcel, and the parcel is settled once and as a whole.
`Agent` maps to it through `counters`, the polls of its batches and their
`outcome`; a batch without polls is a stutter.

### `Delivery`

| code | model |
|---|---|
| one `POST /updates/` of `SendMetrics` | `net`: for each batch and number of its call, where the request is: unsent, travelling, answered, heard or lost |
| the server's store, `BatchUpdate` | `applied` (history), `Apply` |
| a worker begins `SendBatch`; `retry.Do` calls again | `PostJob`, `PostAgain` (with `Agent`'s `TakeJob`, `Retry`) |
| `SendMetrics` returns nil | `CallSucceeds` |
| it returns an error `retryIf` refuses | `CallRefused` (another status), `CallFails` (timeout, broken answer, last call) |
| it returns a `net.OpError` | `ConnectionBreaks` |
| two workers of the pool hold batches at one time | `beside` (history) |

Every action is the action of `Agent` with what it means for the request, so that
`DeliverySpec` implies `Agent`'s `Spec`. A request can be applied after its call
gave up, also after the agent has ended; one that never is applied is a request
that was lost. A status other than 200 is an answer too: the server refused the
batch, or, when the answer of the database to the commit was lost, applied it
all the same.

### `Pipeline`

| code | model |
|---|---|
| `OnBeforeRequest` and `SetPreRequestHook` of `NewClient`, `gzipWriterPool` of the agent | `HookOpens`, `HookWrites`, `HookPuts`; one step where the writer is bound, written, and given back |
| `SendMetric`, which has headers and no body | `SendEmpty` |
| any other client | `SendForeign`, one of `Foreign` |
| `WithGzipCompression`, `newCompressReader` | `OpenWriter`, `PlainBody`, `OpenReader`, `ResetFails`, `PutBack` |
| `WithDecryption`, `WithHashValidation`, `WithMaxBodySize` | `Decrypt`, `CheckHash`, the flaw "big" |
| decoding and the answer of a handler | `Handle` |
| deferred `Close` of reader and writer | `CloseReader`, `CloseWriter` |
| `FuncPool.Get`, `Put`; the garbage collector | `Get`, `Put`, `Collect` |

A body is the request it stands for inside of layers, `gzip` or an RSA key, and
a signature is a key with the body it is of. `bound` says what a pooled gzip
object reads from or writes to; all reads and writes go through it, so that an
object in two hands mixes two bodies. `ready` are the readers that have a
decompressor, which `gzip.Reader` makes in its first successful `Reset`. After a
`Reset` that failed the reader is with its request until `PutBack`: a reader that is
ready goes back to the pool, and one that is not makes `Put` panic before it
reaches the pool. Such a reader is `Lost`, in no pool and with no request, and a
later `Get` makes another in its place. JSON decoding stops behind the first
value, so that a body with a flaw may be decoded or refused.

### `Metrics`, `Store`, `MetricMap`

| code | model |
|---|---|
| maps of `MetricStore`, committed rows of the tables | `rows`: a value for each key, a key being a type with a name |
| `Update`, `toEntity`, `BatchUpdate` | `Arrive`, `Refuse`, `EmptyBatch`; `Status`, `ListStatus` in `Metrics` |
| `SaveBatch` folding a list, gauges by the last and counters by the sum | `Folded` |
| `Get`, `GetAll`, `Ping` | `ReadOne`, `ReadGauges` and `ReadCounters`, `Ping` |
| `UpdateGauge`, `UpdateCounter`, `UpdateBatch` | `SaveInMemory`, one critical section |
| `CreateOrUpdate...`, `TxManager.Do`, `insertGaugesBatch`, `insertCountersBatch` | `Begin`, `WriteRow`, `Commit`, `TxFails` |
| PostgreSQL: row locks, deadlock detection, range of `BIGINT` | `AtRow`, `Victim`, `Overflow` |
| a query that fails, or meets the closed pool | `QueryFails`, `PoolRefuses` |
| `main`, `Shutdown`, the closing of the pool | `Signal`, `ShutdownReturns`, `StorageCloses` |

A statement goes through its rows in any order and locks each until the commit;
the pending values are kept in `writes`. A commit can succeed and the client
still be told of an error, when the answer is lost. In memory counters wrap as
Go's `int64` does, with `Half` for 2^63; in Postgres the statement fails.

`MetricMap` knows neither locks nor transactions: `Arrive`, then either `Apply`,
which makes the whole change at once, or `End`, which makes none and does not
report success for a change. `Store` maps to it by leaving out what a handler
is at.

### `Audit`

| code | model |
|---|---|
| `p.closed`, `sub.ch`, `p.wg` | `closed`, `closedChans` and `queue`, `dispatcher[o].pc = "exited"` |
| handler up to `Publish`, `Publish` | `Request`, `Refuse`, `CheckClosed`, `SendNext`, one step per turn of the loop over `p.subs` |
| `dispatch` | `Receive`, `Notify`, `DispatchEnds` |
| `FileObserver.mu` | `Lock` and `Notify` around a write, `FilesUnlocked` in `CloseFile` |
| `server.Shutdown`, `Close`, the closer of `initAudit` | `ShutdownReturns`, `MarkClosed`, `CloseChannel`, `CloseReturns`, `CloseFile`, `Exit` |
| the 5 s budget | `Expire` |

An event carries the name of the handler that published it; each handler serves
one request. `accepted` and `handled` are histories. `Shutdown` returns when no
handler is busy or the budget is spent, so that a handler may be publishing
while `Close` runs, but only then. Only the file is closed, as in the code, and
not while a dispatcher writes to it. A call of an observer ends well or with an
error, and a write to the closed file always with an error.

`EventLog` has neither handlers nor queues nor goroutines: a lane accepts an event
it has not accepted before, while it is open; its observer is told of the accepted
events one by one; the log is finished when all lanes are closed and everything
is told. `Audit` maps to it through `accepted`, the events in `handled`, the
channels `Close` has not closed yet, and `result = "nil"`; an event moving through
a queue is a stutter.

### `Backup`

| code | model |
|---|---|
| the two maps of `MetricStore` | `store`: for each map the set of updates its values reflect |
| the backup file | `file`: missing, empty (truncated), corrupt, or a snapshot |
| handler, `UpdateGauge`, `UpdateCounter`, `UpdateBatch` | `Arrive`, `Update`, `Ack` |
| `SyncBackupStorage` | `SyncSave` between `Update` and `Ack` |
| `Save` | `EnterSave` (counters), `SecondRead` (gauges), `Truncate`, `Write`, `SaveFails` |
| goroutine of `Start` | `Tick`, `FinalSave`, `AfterTickerSave` |
| `main` after the signal, `WaitBackup` | `Signal`, `Expire`, `ShutdownReturns`, `Exit` |
| kill, start with `Restore` | `Crash`, `Boot` |
| what was saved last; of what was ever saved, what a start found destroyed | `lastSaved`, `lost` (histories) |

A counter is the sum of its updates and a gauge the last of them, so that a map
"contains" an update. `os.WriteFile` is `open(O_TRUNC)`, then a write from
offset 0 of a file descriptor of its own. `Written` gives what two such writes
can leave: when another goroutine wrote after this one truncated, the file can
be this snapshot, or this snapshot followed by the rest of the longer one,
which is no JSON. A save can also fail,
for want of disk or because a gauge is NaN or infinite (the handlers accept it,
`json.Marshal` does not); it leaves the file as it was, or broken. `DiskFails` allows
this. A crash
keeps what the file held: the operating system's page cache survives the
process, and the loss of power is not modelled.

## 3. The runs

| run | constants | checks |
|---|---|---|
| `AgentPool` | 2 workers, 1 delay, 2 polls, 3 batches | `TypeOK`, `JobsClosedAfterSender`, `PollsAreInOnePlace`, `BatchesAreInOnePlace`, `CountedBeforeShown`, `GracefulExitDrains`, `SettledStaysSettled`, `ImplementsLedger` |
| `AgentLive` | 1 worker, 1 delay, 1 poll of each collector, 2 batches, fairness | `BatchesSettle`, `SignalEndsProcess` |
| `Delivery` | 2 workers, 1 delay, 2 polls, 2 batches | `SentIsApplied`, `RepeatsFollowLostAnswers`, `ServerCountsPolls`, `OldGaugesNeedOverlap` |
| `Pipeline` | 2 requests, 36 combinations of keys, 5 foreign requests, 2 objects in each pool | `TypeOK`, `ObjectsAreAccounted`, `HandledIsSent`, `MatchingIsHandled`, `AnswersAreWhole` |
| `Store` | 3 requests, 2 gauges, 1 counter, counters of -4..3, a pool of 2, both storages, fairness | `TypeOK`, `CountersAreSums`, `PagesAreInOrder`, `ImplementsMap`, `RequestsEnd`, `SignalEndsProcess` |
| `Audit` | 2 handlers, 2 observers (1 file), queues of 1, fairness | `TypeOK`, `LanesAreFifo`, `FileClosedAfterWrites`, `PanicNeedsOverrun`, `ImplementsLog`, `PublishReturns`, `CloseEnds`, `EventsAreHandled` |
| `BackupInterval` | 2 requests at once, 3 starts, failing saves | `TypeOK`, `NoCountersWithoutGauges`, `FileOnlyGains`, `RestoreIsAllOrNothing` |
| `BackupSync` | 3 requests, one at a time, 2 starts, synchronous | `SyncFileIsStore` |
| `BackupLive` | 2 requests at once, 1 start, fairness | `CleanExitSavesUntilSignal`, `UpdatesAreSaved` |
| `AuditPanic` | 1 handler | violated: `PublishNeverPanics` |
| `BackupSyncRace` | 2 requests at once, synchronous | violated: `SyncFileIsStore` |
| `PipelineBadGzip` | 2 requests | violated: `BadGzipIsAnswered` |

Why the bounds are enough to see the interesting cases:

* **Agent.** Two workers and three batches fill the channel (its capacity is the
  number of workers), block the sender and leave batches in it at the shutdown; a
  third batch is the final flush. One delay gives a first call, a retry and a
  wait that the shutdown cuts; the code has three delays, which add only more of
  the same waits. Two polls are needed for one counted in an earlier batch than
  the gauges beside it. `MaxBatches - 1` ticker batches are allowed so that the
  final flush is always possible. One buffered signal makes the second one force
  the exit. Polls of the system collector are interleaved in `AgentLive` only;
  they touch neither `PollCount` nor the channel. With the one worker of `AgentLive`
  the channel has room for one batch, so that the sender blocks on the second,
  the final flush, until the worker takes the first: a worker that left at the
  cancellation would keep the process from ending. More workers share nothing
  but the channel; that no interleaving of two of them gets stuck is checked
  by `AgentPool`, as deadlock.
* **Delivery.** Two batches with two calls each, in two workers, give an old
  batch applied after a new one, a repeat of a batch that was applied, and a
  request that outlives its call and the agent.
* **Pipeline.** Two requests and two objects in each pool let an object go from
  one request to the next, and be held by both if it were put back twice. The
  keys are equal, different or missing on either side. The foreign requests
  are one plain, one too large, one with broken gzip data, one with no gzip data
  at all, and one that claims to be encrypted.
* **Store.** Two batches over the same three rows wait for each other in a circle
  with a pool of two connections, while a third request reads, or is refused,
  or updates. `Half = 4` lets two batches leave the range of the counter,
  and one of them adds to its counter twice.
* **Audit.** Queues of one event, two handlers and two observers give queues that
  are full at one observer and not at the other, and a handler between its two
  sends when `Close` closes the channels one after the other. One of the observers
  is a file, the other is not, as when both are configured. The code's 1024 is
  `QueueSize`.
* **Backup.** Two requests, one of them between the two reads of a save, and
  three starts let a crash follow a restored state. In the synchronous mode two
  requests are enough for the race; one at a time (`MaxOpen = 1`) is how
  `file_backup_test.go` uses it. `MaxBoots` bounds restarts and nothing else.

Handlers, requests, workers and pooled objects are interchangeable, so that runs
that check no liveness use their permutations as symmetry. `MaxPolls`, `MaxSystem`,
`MaxBatches`, `MaxOpen` and `MaxBoots` are bounds of the models, not of the
code. Deadlock is checked in every run: a process that is gone takes the explicit
stuttering step `Terminated`, `Stopped`, `Ended` or `AllDone`.

## 4. Fairness

* `Agent`: goroutines are scheduled (weak fairness on their steps); a call
  returns because the client has a timeout of one second; a delay elapses. The
  steps that take `ctx.Done()` in a `select` get strong fairness: the ticker
  branch can interrupt them again and again, and Go's `select` chooses at random
  among ready branches. Polls, batches and signals are owed nothing.
* `Store`: handlers and the database go on (weak fairness of `HandlerStep` and
  `DatabaseStep` together for each request), and so do `Shutdown`, whose context
  ends, and the closing of the pool. Requests and signals need not come, and no
  failure is owed: a circle of locks is resolved by the detection of PostgreSQL,
  not by a lucky loss of a connection.
* `Audit`: `FairSpec` gives handlers, the closer and the clock fairness, and the
  observers none: `Notify` may hang for ever. `CloseEnds` says without more that
  `Close` returns; that main ends it says under the condition that writes to
  the file return (weak fairness of `Notify` for the files, not for the others),
  because `fileObs.Close` waits for them. `EventsAreHandled` is about an observer
  that answers, which is weak fairness of its `Dispatching` as a condition of the
  property: a write returns and the HTTP observer has a timeout of 5 s. The other
  observers may still hang.
* `Backup`: the ticker fires, a goroutine inside `Save` goes on, the clock and
  `main` go on, and `FinalSave`, a branch of a `select` beside the ticker's, is
  strongly fair. Requests, signals, crashes and restarts need not come.

## 5. Disagreements between the code and what is said of it

### Shown by a violated run

1. **`AuditPanic`.** `publisher_test.go:84` says a `Publish` after `Close` should
   not panic. `Publish` gives up its lock before it sends; if `Shutdown` ran out
   of its 5 s, `Close` can close the channel in between. `net/http` recovers the
   panic and the client loses its answer. `PanicNeedsOverrun` and the theorem
   `AuditPublishIsSafe` show that this needs a handler that outlives the budget.
2. **`BackupSyncRace`.** Concurrent updates save without a common lock: the older
   snapshot may be written last, or the two writes may mix into a file that is
   no JSON. `file_backup_test.go:64` says the file is written after each update.
3. **`PipelineBadGzip`.** `gzip.go:83` says that a reader whose `Reset` failed is
   in order and goes back to the pool. A reader that was never reset successfully
   has no decompressor; `Put` closes it, and `Close` dereferences nil. `net/http`
   ends the connection in place of the 500 of `gzip.go:133`.

### Seen while modelling, without a run

* `main.go:80-82` says that `Close` gets the context of `Shutdown` so that the whole
  shutdown fits into one budget. Behind `publisher.Close`, which keeps the deadline,
  `audit_init.go:37` calls `fileObs.Close`, which waits for the mutex that
  `FileObserver.Notify` holds over its write, and nothing interrupts either: with
  a write that hangs (a pipe nobody reads, a network file system) main stays, and
  the storage is not closed. The condition of `CloseEnds` and the second case
  of `AuditCloserGoesOn` (`WaitsForWrite`) say so.
* The final flush (`main.go:126`) and the last turns of the collectors start from
  the same cancellation: a poll counted after the flush stays in `LocalMetrics`
  and is lost. `ServerCountsPolls` names this remainder.
* The final save starts at the signal, beside `Shutdown`, which still serves
  requests: an update after it is acknowledged and never saved, where
  `storage.go:46` says `WaitBackup` guarantees that unsaved metrics reach the
  file. What does hold, `CleanExitSavesUntilSignal`, is checked and proved.
* `pool.Close()` (`app.go:75`) waits for the connections in use and takes no
  context: a database that does not answer keeps the process past the budget that
  `main` says is one for all. `SignalEndsProcess` of `Store` assumes a
  database that answers, and that the closers before the pool's have returned.
* The shutdown goroutine of the agent closes `done` also when the last batch was
  given up, because the cancelled context cuts its retries; the comment at
  `main.go:153` says it was sent.
* `RateLimit` is not validated: with `RATE_LIMIT=0` nobody reads the unbuffered
  `jobs`, and the shutdown hangs until a second signal. The agent's
  `SignalEndsProcess` is checked with workers, and `AgentNeverStuck` is proved for
  any pool that has one.
* The signature of an answer is set after the handler (`hash.go:59`); handlers
  that call `WriteHeader` have sent the headers by then, so that errors and
  answers to batches are not signed. The agent checks no signature.
* The deprecated `SendMetric` sends `Content-Encoding: gzip` with an empty body,
  which the middleware never accepts.
* A body over the limit is answered with 500 if it is to be decrypted, with 413
  if its signature is checked, and with 400 by the handler otherwise; behind a
  raw 500 of the gzip middleware a client that accepts gzip still receives the
  trailer of an empty gzip stream.
* The single reads of the Postgres repository leave out the metric's name
  (`pgx/repo_metric.go:20-42`), which the memory repository sets.

## 6. What is proved

TLAPS checks the following for every value of the constants that the modules'
assumptions allow. Every proof has the same shape: an invariant that holds
initially and is kept by `[Next]_vars`, one step per action, and the property
follows from it. A property is seldom inductive as it stands; what the
strengthening adds is said for each module.

**`AgentProofs`**, assuming `AgentAssumption` (a finite set of workers, natural
bounds, room for one batch and one signal).
`IInv == TypeOK /\ ControlInv /\ WorkerInv /\ FreshInv /\ BatchesAreInOnePlace`.
`ControlInv` ties `main`, `shutdown`, the sender and the workers together: behind
a closed channel the sender has exited, behind `done` the workers have.
`WorkerInv` says that a worker holds a batch exactly while it sends it, that it
waits only with a retry left, and that it exits only with the channel closed and
empty. `FreshInv` says that a batch no worker has taken has not been sent.
`PollsInv` adds that nothing is left to count between two polls, and `ShownInv`
that neither `LocalMetrics` nor the copy the sender holds shows a poll that is not
counted. Theorems: `AgentTypeCorrect`, `AgentClosesSafely`, `AgentKeepsBatches`,
`AgentExitDrains`, `AgentKeepsPolls`, `AgentSettlesOnce`,
`AgentCountsBeforeShowing`, and `AgentImplementsLedger`, the refinement: each
action maps to one of `PollLedger` or to a stutter. `AgentNeverStuck` says, for
any pool with a worker, that from the signal to the end of the process some
goroutine has a step whose guard holds: if neither collectors, sender nor workers
do, the sender has exited (a full channel has a worker that takes from it), and
the step is one of the shutdown's. `ControlInv` bounds the batches of the sender
at each of its positions for this.

**`DeliveryProofs`**, under the same assumption. `DeliveryIsAgent` brings over what
is proved of `Agent`. `NetInv` adds `CallInv` (a held batch has been sent),
`HeardInv` (an answer that was heard settles its batch, so that no later call of
it exists) and `AnswerInv` (a request is applied between being sent and being
answered with 200). For the order of batches, `FifoInv` says that the channel is
in the order of the batches and behind every batch already sent, and `BesideInv`
that a worker that holds a batch while a newer one goes out is recorded beside
it. Theorems: `DeliveryIsAgent`, `DeliveryTypeCorrect`, `DeliverySentIsApplied`,
`DeliveryRepeats`, `DeliveryCountsPolls` (from `AgentKeepsPolls` and
`AgentExitDrains`), `DeliveryOldGauges`. For the default of one worker,
`DeliveryOneWorkerInOrder` adds that no two batches are ever held at once
(`beside` stays empty) and that the store applies them in order, but for a request
that outlived its call.

**`PipelineProofs`**, assuming `PipelineAssumption` (the pools are disjoint, `None`
and `Junk` are nothing else, keys and foreign requests have their types; any
number of each). `IInv == TypeOK /\ PoolInv /\ \A r : RequestInv(r)`. `PoolInv`:
a held object is outside its pool, bound to its holder and held by nobody else,
and one that is neither held nor in its pool is a reader bound to a request that
was aborted, the only such reader of that request. `RequestInv` says, for each
position of a request, what it holds (`HoldOK`), what its body still has around it
(`BodyOK`), what the handler may have seen (`SeenOK`), what is left of the hook's
layers (`HookOK`) and what is in the answer (`AnswerOK`). It is `PoolInv` that
makes these facts of one request: reading through a bound reader reads its own
body. Theorems: `PipelineTypeCorrect`, `PipelineObjectsExclusive`,
`PipelineHandlesSent`, `PipelineHandlesMatching`, `PipelineAnswersWhole`. The pools
of the model are fixed sets where `sync.Pool` makes objects on demand:
`PipelineGetNeverWaits` shows that with an object for each request (`PoolsSuffice`,
true of the run) every `Get` finds one in its pool, or one lost that it replaces, so
that the fixed sets take nothing away, by a pigeonhole argument over the holders.
`ObjectsAreAccounted` is what the run checks of objects: `ObjectsAreExclusive` and
`NothingLeaks`. `PipelineNothingLeaks` follows each object on its way through all actions: a refusal,
a failed `Reset` and an answer give it back, and what is lost is one reader for
each request that ended in the panic of `PutBack`.

**`StoreProofs`**, assuming `MetricsAssumption` (types of bodies, keys and the range
of counters) and `StoreAssumption` (any requests, bodies and storages, a pool of at
least one connection). That the change a body asks for is well typed is not
assumed: `ChangeTyped` derives it from the types of the list and `Folded`.
`IInv == TypeOK /\ RequestInv /\ LockInv`. `LockInv`: no row is locked twice.
`RequestInv` says that the values a transaction has pending are what the upsert
gives for the *committed* rows, which stays true because the rows are locked, and
that it has written all its rows when it turns to commit. From this,
`StoreImplementsMap`: a commit is the atomic change of `MetricMap`, every other
step of a transaction a stutter. Also `StoreTypeCorrect` and `StorePagesInOrder`.
`StoreCountersAreSums` adds `SumInv`: a counter is the wrapped sum, over the set
of requests applied so far, of what each adds. One more request is one more term
(`SumWithAnother` of `FiniteSums`), and wrapping at each step is wrapping the
sum once (`WrapOfSum`). `PoolInv` counts connections: `StorePoolWithinLimit`
bounds them by the pool, and `StoreNeverStuck` shows that while requests are
served one of them can make a step of its own. Its core is about circles of
locks: if no transaction could go on, each would wait for a row of another, a
function from the transactions, as many as have a connection, into themselves,
which has a part it maps onto itself (`CircleExists`), and the members of that
part are those PostgreSQL's detection ends.

**`FiniteSums`** holds the facts about data the above needs. The library's
induction theorems take an operator as a parameter, which no installed prover
instantiates; `SetInduction` states the same with a *set* of the sizes for which
a claim holds, from the library's theorem about minimal elements of well-founded
relations, and so does `SumsExist` for the recursive function behind the sum. Each
use is a set comprehension, which is first-order.

**`AuditProofs`**, assuming `AuditAssumption`.
`IInv == TypeOK /\ HandlerInv /\ DispatcherInv /\ ClosingInv /\ LanesAreFifo /\
FileClosedAfterWrites`. `ClosingInv` orders the closer's steps; `DispatcherInv`
says that a dispatcher has an event in hand exactly while it notifies, and that
it exits only on an empty, closed channel, into which nothing is sent any more.
`BudgetInv` says that before the budget is spent no handler is busy once
`Shutdown` has returned. Theorems: `AuditTypeCorrect`, `AuditLanesAreFifo`,
`AuditCloseDrains`, `AuditFileClosedLast`, `AuditPublishIsSafe`. `OnceInv` says that a
handler is past every channel that accepted its event; from it `AuditHandledOnce`
(no observer is told of an event twice) and, with `LanesAreFifo`,
`AuditImplementsLog`, the refinement. `AuditCloserGoesOn` is the safety part of
`CloseEnds`: once the budget is over a step of the closer is possible, or `Close`
has returned and the closer waits for a write to the file (`WaitsForWrite`); each
of its steps lowers `StepsLeft`, no step of a handler or an observer raises it, and
once `Close` has returned no event is added for a file and each write makes those
left fewer (`WritesRunOut`). `LockInv`, for this, says that only
the dispatcher of a file is ever in a write.

**`BackupProofs`**, assuming `BackupAssumption`.
`IInv == TypeOK /\ PartsInv /\ BatchInv /\ FileInv`. `PartsInv` says that maps,
file and snapshots reflect an update only in the maps it changed. `BatchInv`
extends `NoCountersWithoutGauges` to the snapshots under way; it holds because the
counters are read first. `FileInv` says that a readable file is the last
snapshot written, and that a missing one was never written. `OnlyTicker`,
`GainInv` and `SignalInv` describe the background mode: one goroutine saves; its
snapshot lies between `Kept`, the last one saved without what a start found
destroyed, and the store; after the signal the final save holds all that was there. `OneAtATime`
describes the synchronous mode with one request at a time: one request is served
(`Serial`), there is no ticker, and the save under way copies a store that nobody
changes (`SyncInv`). Theorems: `BackupTypeCorrect`, `BackupKeepsBatches`,
`BackupRestoresWhole`; `BackupFileGains` for `Mode = "interval"` and
`Restore = TRUE`; `BackupCleanExit` for `Mode = "interval"` and
`DiskFails = FALSE`; `BackupSyncFile` for `Mode = "sync"`, `MaxOpen = 1`,
`DiskFails = FALSE` and a finite set of requests. The extra assumptions are those
under which the properties hold in the code: without `Restore` a start forgets the
file, a save that fails at the end is not tried again, and concurrent saves race
(`BackupSyncRace`).

**Only model-checked:** the liveness properties (`BatchesSettle`, both
`SignalEndsProcess`, `RequestsEnd`, `PublishReturns`, `CloseEnds`,
`EventsAreHandled`, `UpdatesAreSaved`), because fairness and `ENABLED` are beyond
the prover. `AgentNeverStuck`, `StoreNeverStuck` and `AuditCloserGoesOn` prove, from
the guards of the actions, the part of them that is about states: nobody waits for
ever for somebody who waits too. Every invariant and every action property the
passing runs check is also proved.

## 7. Not modelled

Abstracted inside the models: the values of metrics where only their presence
matters, JSON, HTTP headers but those the middleware looks at, logging, real
time (delays and budgets elapse at any moment), loss of power.

* **Configuration of agent and server**: a sequential computation before any
  goroutine runs. Its results are constants of the models; nothing of it can
  interleave with the rest.
* **Logger, wire types, empty gorm package**: no state anything depends on.
* **`cmd/reset`, `cmd/staticlint`, `cmd/keygen`**: pure functions of source text
  or two files written by hand-run tools.
* **Migrations** of Postgres at the start: one library call before the first
  request. **Failures of the start** end the process.
* **`pkg/pool.Pool`**: used by its own test only; the program uses `FuncPool`.
* **Signing of answers**: nothing reads the signature (section 5).
* **The whole server in one model**: `Close` (`app.go:68-76`) calls `waitBackup`,
  `auditClose` and the storage's closer one after the other. Each is in the
  module that has what it waits for, `Backup`, `Audit` and `Store`, with the steps
  before it as a delay of any length and a budget that may be spent at any
  moment. The parts share no other state, so that a joint model would add the
  product of their states and no step that one of them lacks.
