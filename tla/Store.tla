-------------------------------- MODULE Store --------------------------------
(***************************************************************************)
(* The requests of the server and the storage behind them: the maps in     *)
(* memory or the tables in Postgres, with the pool of connections, the row *)
(* locks of concurrent upserts, and the end of the process.                *)
(***************************************************************************)
EXTENDS Metrics

CONSTANTS Requests,  \* handler goroutines, each with one request
          Offers,    \* the bodies each of them may be sent
          Backends,  \* the storages initStorage may choose
          PoolSize,  \* connections of the pool
          NoKey      \* no row is being written

VARIABLES backend,   \* the storage in use
          rows,      \* the maps, or the committed rows of the tables
          request,   \* what each handler is doing
          applied,   \* requests whose change is in rows (history)
          server     \* "serving", "draining", "closing" or "exited"

vars == <<backend, rows, request, applied, server>>

ASSUME StoreAssumption ==
  /\ Offers \in [Requests -> SUBSET Bodies]
  /\ Backends \subseteq {"memory", "postgres"}
  /\ PoolSize \in Nat \ {0}
  /\ NoKey \notin Keys

Ended == {"200", "400", "404", "500"}

Idle == [pc     |-> "idle",   \* "open", "half" (between the reads of GetAll),
                              \* "tx" (statement or transaction), or the status
         body   |-> <<>>,
         conn   |-> FALSE,    \* holds a connection of the pool
         wants  |-> NoKey,    \* the row its statement is at
         writes |-> <<>>,     \* the rows it has written and so locked
         total  |-> Absent,   \* the new value in the answer
         page   |-> <<{}, {}>>] \* history: applied when GetAll read gauges, counters

Init ==
  /\ backend \in Backends
  /\ rows = [k \in Keys |-> Absent]
  /\ request = [r \in Requests |-> Idle]
  /\ applied = {}
  /\ server = "serving"

Running == server # "exited"

Body(r) == request[r].body

At(r, pc) == Running /\ request[r].pc = pc

Answer(r, status) == request' = [request EXCEPT ![r].pc = status]

(* The pool *)

InUse == {r \in Requests : request[r].conn}

\* A query outside a transaction takes a connection for its time.
CanQuery ==
  backend = "postgres" => server # "closing" /\ Cardinality(InUse) < PoolSize

(* Requests that end without a change *)

\* While the server listens, or on a connection Shutdown has not found idle yet.
Arrive(r) ==
  /\ server \in {"serving", "draining"}
  /\ request[r].pc = "idle"
  /\ \E b \in Offers[r] :
       request' = [request EXCEPT ![r].pc = "open", ![r].body = b]
  /\ UNCHANGED <<backend, rows, applied, server>>

Refuse(r) ==
  /\ At(r, "open")
  /\ Checked(Body(r)) # "200"
  /\ Answer(r, Checked(Body(r)))
  /\ UNCHANGED <<backend, rows, applied, server>>

EmptyBatch(r) ==
  /\ At(r, "open")
  /\ Body(r).call = "batch" /\ Body(r).metrics = <<>>
  /\ Answer(r, "200")
  /\ UNCHANGED <<backend, rows, applied, server>>

Found(b) == b.metrics[1].key \in Keys /\ rows[b.metrics[1].key] # Absent

ReadOne(r) ==
  /\ At(r, "open")
  /\ Body(r).call = "get" /\ Checked(Body(r)) = "200"
  /\ CanQuery
  /\ Answer(r, IF Found(Body(r)) THEN "200" ELSE "404")
  /\ UNCHANGED <<backend, rows, applied, server>>

\* Variant: the counters are read first.
CountersFirst == 2

\* GetAll reads the gauges and then the counters, in two critical sections of
\* the memory store and in two statements of Postgres.
FirstHalf == 1

ReadHalf(r, half, pc) ==
  /\ CanQuery
  /\ request' = [request EXCEPT ![r].pc = pc, ![r].page[half] = applied]
  /\ UNCHANGED <<backend, rows, applied, server>>

ReadGauges(r) ==
  /\ At(r, "open")
  /\ Body(r).call = "list"
  /\ ReadHalf(r, FirstHalf, "half")

ReadCounters(r) ==
  /\ At(r, "half")
  /\ ReadHalf(r, 3 - FirstHalf, "200")

Ping(r) ==
  /\ At(r, "open")
  /\ Body(r).call = "ping"
  /\ CanQuery
  /\ Answer(r, IF backend = "postgres" THEN "200" ELSE "500")
  /\ UNCHANGED <<backend, rows, applied, server>>

\* A query fails: the pool is closed, or Postgres does not answer or the client
\* has gone, which cancels the context of the request.
Queries(r) == At(r, "half") \/ (At(r, "open") /\ Checked(Body(r)) = "200"
                                  /\ (Body(r).call = "batch" => Writes(Body(r))))

PoolRefuses(r) ==
  /\ backend = "postgres" /\ server = "closing"
  /\ Queries(r)
  /\ Answer(r, "500")
  /\ UNCHANGED <<backend, rows, applied, server>>

QueryFails(r) ==
  /\ backend = "postgres"
  /\ Queries(r)
  /\ Answer(r, "500")
  /\ UNCHANGED <<backend, rows, applied, server>>

(* Updates in memory: one critical section *)

SaveInMemory(r) ==
  /\ backend = "memory"
  /\ At(r, "open")
  /\ Writes(Body(r))
  /\ rows' = After(rows, Change(Body(r)))
  /\ applied' = applied \cup {r}
  /\ request' = [request EXCEPT ![r].pc = "200", ![r].total = Total(rows', Body(r))]
  /\ UNCHANGED <<backend, server>>

(* Updates in Postgres. A single upsert is a statement that commits by      *)
(* itself, a batch a transaction of one statement for its gauges and one    *)
(* for its counters. A statement goes through its rows in the order of Go's *)
(* iteration over a map, which is any, and locks each until the commit.     *)

\* Variant: the transaction ends with the gauges of the batch.
GaugeRows(b, done) ==
  LET left == DOMAIN Change(b) \ done
  IN CASE left \cap Gauges # {} -> left \cap Gauges
       [] done = {} /\ left # {} /\ left \cap Gauges = {} -> left
       [] OTHER -> {NoKey}

\* The rows a statement may turn to when those in done are written.
NextRows(b, done) ==
  LET left == DOMAIN Change(b) \ done
  IN CASE left \cap Gauges # {} -> left \cap Gauges
       [] left # {} /\ left \cap Gauges = {} -> left
       [] OTHER -> {NoKey}

Begin(r) ==
  /\ backend = "postgres"
  /\ At(r, "open")
  /\ Writes(Body(r))
  /\ CanQuery
  /\ \E k \in NextRows(Body(r), {}) :
       request' = [request EXCEPT ![r].pc = "tx", ![r].conn = TRUE, ![r].wants = k]
  /\ UNCHANGED <<backend, rows, applied, server>>

Locked(r) == DOMAIN request[r].writes

Owners(k) == {q \in Requests : k \in Locked(q)}

\* Variant: each statement takes a connection of the pool.
PoolQuerier(r) == Cardinality(InUse) < PoolSize

\* Statements of a transaction use its connection.
Querier(r) == request[r].conn

Pending(r) == Upsert(rows[request[r].wants], request[r].wants,
                     Change(Body(r))[request[r].wants])

AtRow(r) ==
  /\ At(r, "tx")
  /\ request[r].wants # NoKey
  /\ Querier(r)
  /\ Owners(request[r].wants) = {}

\* Variant: a column without a limit.
AnyRange(r) == TRUE

InRange(r) == request[r].wants \in Counters => Pending(r) \in Int64

WriteRow(r) ==
  /\ AtRow(r)
  /\ InRange(r)
  /\ LET k == request[r].wants
     IN \E next \in NextRows(Body(r), Locked(r) \cup {k}) :
          request' = [request EXCEPT
            ![r].wants = next,
            ![r].writes = [j \in Locked(r) \cup {k} |->
                             IF j = k THEN Pending(r) ELSE request[r].writes[j]]]
  /\ UNCHANGED <<backend, rows, applied, server>>

\* The connection goes back to the pool; Postgres forgets locks and writes.
Release(r, status) ==
  [request[r] EXCEPT !.pc = status, !.conn = FALSE, !.wants = NoKey, !.writes = <<>>]

Rollback(r) ==
  /\ request' = [request EXCEPT ![r] = Release(r, "500")]
  /\ UNCHANGED <<backend, rows, applied, server>>

Overflow(r) == AtRow(r) /\ ~InRange(r) /\ Rollback(r)

Owner(r) == CHOOSE q \in Requests : request[r].wants \in Locked(q)

\* Postgres ends one of the transactions that wait for each other in a circle.
Deadlocked(r) ==
  \E S \in SUBSET Requests :
    /\ r \in S
    /\ \A q \in S : At(q, "tx") /\ Owners(request[q].wants) # {}
    /\ {Owner(q) : q \in S} = S

Victim(r) == At(r, "tx") /\ Deadlocked(r) /\ Rollback(r)

\* The connection breaks or the client goes away: the transaction is gone.
TxFails(r) == At(r, "tx") /\ Rollback(r)

\* Commit is sent; its answer may be lost, and the client is told of an error.
Commit(r) ==
  /\ At(r, "tx")
  /\ request[r].wants = NoKey
  /\ rows' = [k \in Keys |-> IF k \in Locked(r) THEN request[r].writes[k] ELSE rows[k]]
  /\ applied' = applied \cup {r}
  /\ \/ request' = [request EXCEPT ![r] = [Release(r, "200") EXCEPT !.total = Total(rows', Body(r))]]
     \/ request' = [request EXCEPT ![r] = Release(r, "500")]
  /\ UNCHANGED <<backend, server>>

(* The end of the process *)

Signal ==
  /\ server = "serving"
  /\ server' = "draining"
  /\ UNCHANGED <<backend, rows, request, applied>>

\* Shutdown returns when no request is left or its five seconds are over,
\* with requests still running.
ShutdownReturns ==
  /\ server = "draining"
  /\ server' = "closing"
  /\ UNCHANGED <<backend, rows, request, applied>>

\* The pool closes when all its connections are back, however long it takes.
StorageCloses ==
  /\ server = "closing"
  /\ backend = "postgres" => InUse = {}
  /\ server' = "exited"
  /\ UNCHANGED <<backend, rows, request, applied>>

Stopped == ~Running /\ UNCHANGED vars

\* Steps of the database, which answers when it likes.
DatabaseStep(r) == WriteRow(r) \/ Overflow(r) \/ Victim(r) \/ Commit(r)

HandlerStep(r) ==
  \/ Refuse(r) \/ EmptyBatch(r) \/ ReadOne(r) \/ ReadGauges(r) \/ ReadCounters(r)
  \/ Ping(r) \/ PoolRefuses(r) \/ SaveInMemory(r) \/ Begin(r)

Next ==
  \/ \E r \in Requests : \/ Arrive(r) \/ HandlerStep(r) \/ DatabaseStep(r)
                         \/ QueryFails(r) \/ TxFails(r)
  \/ Signal \/ ShutdownReturns \/ StorageCloses \/ Stopped

Spec == Init /\ [][Next]_vars

Ends == WF_vars(ShutdownReturns) /\ WF_vars(StorageCloses)

FairSpec ==
  Spec /\ Ends /\ \A r \in Requests : WF_vars(HandlerStep(r) \/ DatabaseStep(r))

(* Properties *)

RequestType ==
  [pc : {"idle", "open", "half", "tx"} \cup Ended, body : Bodies \cup {<<>>},
   conn : BOOLEAN, wants : Keys \cup {NoKey},
   writes : UNION {[S -> Int64] : S \in SUBSET Keys},
   total : Value, page : (SUBSET Requests) \X (SUBSET Requests)]

\* Types, among them that no counter leaves 64 bits in either storage: what
\* Go's addition wraps, BIGINT refuses.
TypeOK ==
  /\ backend \in Backends
  /\ rows \in [Keys -> Value]
  /\ request \in [Requests -> RequestType]
  /\ applied \subseteq Requests
  /\ server \in {"serving", "draining", "closing", "exited"}

\* A counter is the sum of what the applied requests add, exactly in Postgres
\* and modulo 2^64 in memory: concurrent upserts, batches and transactions that
\* fail lose no increment and count none twice.
CountersAreSums ==
  \A c \in Counters :
    LET adders == {r \in applied : c \in DOMAIN Change(Body(r))}
        sum == SumFunction([r \in adders |-> Change(Body(r))[c]])
    IN rows[c] = CASE adders = {} -> Absent
                   [] adders # {} /\ backend = "postgres" -> sum
                   [] OTHER -> Wrap(sum)

\* GetAll is not one snapshot: of an update made between its two reads, a page
\* shows the counters alone. It never shows the gauges of a batch without the
\* batch's counters.
PagesAreInOrder ==
  \A r \in Requests : request[r].pc = "200" /\ Body(r).call = "list" =>
    request[r].page[1] \subseteq request[r].page[2]

\* Memory and Postgres keep the promises of MetricMap: a batch is applied whole,
\* once and only if its client is not told that it was refused; the answer to a
\* single update of a counter is the value right after it.
Asked == [r \in Requests |->
            [pc    |-> IF request[r].pc \in {"half", "tx"} THEN "open" ELSE request[r].pc,
             body  |-> Body(r),
             total |-> request[r].total]]

Map == INSTANCE MetricMap WITH exact <- backend = "postgres", request <- Asked

ImplementsMap == Map!Spec

\* With a database that answers, every request ends, also one that waits for
\* a connection, or for a row in a circle of batches locking each other's rows.
RequestsEnd ==
  \A r \in Requests : request[r].pc = "open" ~> (request[r].pc \in Ended \/ ~Running)

\* With a database that answers, the process ends after the signal.
SignalEndsProcess == server = "draining" ~> server = "exited"
=============================================================================
