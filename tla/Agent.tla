-------------------------------- MODULE Agent --------------------------------
(***************************************************************************)
(* The metrics agent: cmd/agent/main.go with internal/agent/storage.go,    *)
(* collector.go, sender.go and pkg/retry/retry.go.                         *)
(*                                                                         *)
(* Two collectors write LocalMetrics, one sender turns it into batches and *)
(* hands them to a pool of workers over the channel jobs, the workers post *)
(* them to the server and retry network errors, and main runs the graceful *)
(* shutdown cancel -> producers -> close(jobs) -> workers.                 *)
(*                                                                         *)
(* Data.  A poll is a number.  The counter PollCount is the set of the     *)
(* polls added to it since it was last cleared (its value is the size of   *)
(* the set), a gauge is the number of the poll that set it (0: not in the  *)
(* map).  gauges.runtime stands for the 27 gauges CollectMetrics sets      *)
(* before PollCount, gauges.random for RandomValue, set after it, and      *)
(* gauges.system for what the second collector sets.                       *)
(***************************************************************************)
EXTENDS Naturals, Sequences, FiniteSets

CONSTANTS Workers,     \* the worker goroutines; RateLimit is their number
          Delays,      \* len(cfg.delays) of retry.Do: 3 in the code
          MaxPolls,    \* bound: polls of the runtime collector
          MaxSystem,   \* bound: polls of the system collector
          MaxBatches,  \* bound: batches the sender forms, the final one included
          SigBuffer    \* capacity of sigCh: 2 in the code

ASSUME AgentAssumption ==
  /\ IsFiniteSet(Workers)
  /\ Delays \in Nat
  /\ MaxPolls \in Nat
  /\ MaxSystem \in Nat
  /\ MaxBatches \in Nat \ {0}
  /\ SigBuffer \in Nat \ {0}

VARIABLES
  collector,  \* where the runtime collector is in its loop
  polls,      \* polls it has begun
  system,     \* where the system collector is
  gauges,     \* LocalMetrics.gauges
  counters,   \* LocalMetrics.counters
  sender,     \* [pc, final, gauges]: the sender, its branch, its first snapshot
  batches,    \* every batch formed so far, in order: [gauges, polls]
  jobs,       \* the channel: numbers of batches
  worker,     \* each worker: [pc, batch]
  calls,      \* requests made for each batch
  outcome,    \* what SendBatch made of each batch
  main,       \* main()
  shutdown,   \* the goroutine main starts after the first signal
  signals     \* signals waiting in sigCh

store == <<gauges, counters>>
delivery == <<worker, calls, outcome>>
control == <<main, shutdown, signals>>
vars == <<collector, polls, system, store, sender, batches, jobs, delivery, control>>

Batches == 1..MaxBatches
RateLimit == Cardinality(Workers)
Gauges == [runtime : 0..MaxPolls, random : 0..MaxPolls, system : 0..MaxSystem]
NoGauges == [runtime |-> 0, random |-> 0, system |-> 0]

\* The context is cancelled from main's first signal on.
Cancelled == main # "serving"
Alive == main \notin {"exited", "forced"}
Closed == shutdown \in {"workers", "done"}

TypeOK ==
  /\ collector \in {"select", "count", "random", "exited"}
  /\ polls \in 0..MaxPolls
  /\ system \in {"select", "exited"}
  /\ gauges \in Gauges
  /\ counters \in SUBSET (1..MaxPolls)
  /\ sender \in [pc : {"select", "counters", "enqueue", "exited"},
                 final : BOOLEAN, gauges : Gauges]
  /\ batches \in Seq([gauges : Gauges, polls : SUBSET (1..MaxPolls)])
  /\ Len(batches) \in 0..MaxBatches
  /\ jobs \in Seq(1..Len(batches))
  /\ Len(jobs) <= RateLimit
  /\ worker \in [Workers -> [pc : {"idle", "call", "wait", "exited"},
                             batch : 0..Len(batches)]]
  /\ calls \in [Batches -> 0..Delays + 1]
  /\ outcome \in [Batches -> {"none", "sent", "dropped"}]
  /\ main \in {"serving", "stopping", "exited", "forced"}
  /\ shutdown \in {"off", "producers", "workers", "done"}
  /\ signals \in 0..SigBuffer

Init ==
  /\ collector = "select"
  /\ polls = 0
  /\ system = "select"
  /\ gauges = NoGauges
  /\ counters = {}
  /\ sender = [pc |-> "select", final |-> FALSE, gauges |-> NoGauges]
  /\ batches = <<>>
  /\ jobs = <<>>
  /\ worker = [w \in Workers |-> [pc |-> "idle", batch |-> 0]]
  /\ calls = [b \in Batches |-> 0]
  /\ outcome = [b \in Batches |-> "none"]
  /\ main = "serving"
  /\ shutdown = "off"
  /\ signals = 0

-----------------------------------------------------------------------------
(* The collectors.  select picks any ready branch, so a poll may still      *)
(* begin after the context is cancelled.                                    *)

\* The gauges set before PollCount; with RandomValue among them in the variant.
RandomBeforeCount == gauges' = [gauges EXCEPT !.runtime = polls + 1, !.random = polls + 1]
SetRuntime == gauges' = [gauges EXCEPT !.runtime = polls + 1]

\* CollectMetrics up to AddCounter: the runtime gauges.
CollectRuntime ==
  /\ Alive
  /\ collector = "select"
  /\ polls < MaxPolls
  /\ polls' = polls + 1
  /\ SetRuntime
  /\ collector' = "count"
  /\ UNCHANGED <<system, counters, sender, batches, jobs, delivery, control>>

\* AddCounter("PollCount", 1).
CountPoll ==
  /\ Alive
  /\ collector = "count"
  /\ counters' = counters \union {polls}
  /\ collector' = "random"
  /\ UNCHANGED <<polls, system, gauges, sender, batches, jobs, delivery, control>>

\* SetGauge("RandomValue", ...), the end of CollectMetrics.
SetRandom ==
  /\ Alive
  /\ collector = "random"
  /\ gauges' = [gauges EXCEPT !.random = polls]
  /\ collector' = "select"
  /\ UNCHANGED <<polls, system, counters, sender, batches, jobs, delivery, control>>

CollectorStops ==
  /\ Alive
  /\ collector = "select"
  /\ Cancelled
  /\ collector' = "exited"
  /\ UNCHANGED <<polls, system, store, sender, batches, jobs, delivery, control>>

\* CollectSystemMetrics with at least one source answering; when both fail
\* nothing changes.
CollectSystem ==
  /\ Alive
  /\ system = "select"
  /\ gauges.system < MaxSystem
  /\ gauges' = [gauges EXCEPT !.system = @ + 1]
  /\ UNCHANGED <<collector, polls, system, counters, sender, batches, jobs, delivery, control>>

SystemStops ==
  /\ Alive
  /\ system = "select"
  /\ Cancelled
  /\ system' = "exited"
  /\ UNCHANGED <<collector, polls, store, sender, batches, jobs, delivery, control>>

-----------------------------------------------------------------------------
(* The sender: the ticker branch and the final flush run the same steps.   *)

\* SnapshotCounters makes a new map after the copy, or forgets to.
KeepCounters == counters' = counters
ClearCounters == counters' = {}

\* The ctx.Done branch returns after its flush.
AfterFlush == IF sender.final THEN "exited" ELSE "select"

\* The send blocks while the channel is full; the variant drops the batch.
SendOrDrop == jobs' = IF Len(jobs) < RateLimit THEN Append(jobs, Len(batches)) ELSE jobs
Send == Len(jobs) < RateLimit /\ jobs' = Append(jobs, Len(batches))

\* The branch is chosen and CollectBatch copies the gauges.
SnapshotGauges(final) ==
  /\ Alive
  /\ sender.pc = "select"
  /\ final => Cancelled
  /\ Len(batches) < IF final THEN MaxBatches ELSE MaxBatches - 1
  /\ sender' = [pc |-> "counters", final |-> final, gauges |-> gauges]
  /\ UNCHANGED <<collector, polls, system, store, batches, jobs, delivery, control>>

\* CollectBatch copies and clears the counters; an empty batch is not sent.
SnapshotCounters ==
  /\ Alive
  /\ sender.pc = "counters"
  /\ ClearCounters
  /\ IF sender.gauges = NoGauges /\ counters = {}
     THEN /\ sender' = [sender EXCEPT !.pc = AfterFlush]
          /\ UNCHANGED batches
     ELSE /\ sender' = [sender EXCEPT !.pc = "enqueue"]
          /\ batches' = Append(batches, [gauges |-> sender.gauges, polls |-> counters])
  /\ UNCHANGED <<collector, polls, system, gauges, jobs, delivery, control>>

\* jobs <- metrics, which blocks while the channel is full.
Enqueue ==
  /\ Alive
  /\ sender.pc = "enqueue"
  /\ Send
  /\ sender' = [sender EXCEPT !.pc = AfterFlush]
  /\ UNCHANGED <<collector, polls, system, store, batches, delivery, control>>

-----------------------------------------------------------------------------
(* The workers: for job := range jobs { SendBatch }, with retry.Do inside. *)

\* operation(): a request for batch b leaves.
Call(w, b) ==
  /\ worker' = [worker EXCEPT ![w] = [pc |-> "call", batch |-> b]]
  /\ calls' = [calls EXCEPT ![b] = @ + 1]

\* SendBatch returns; the variant records the outcome and stays in the loop.
SettleAndGoOn(w, result) ==
  /\ outcome' = [outcome EXCEPT ![worker[w].batch] = result]
  /\ worker' = [worker EXCEPT ![w].pc = "wait"]
Settle(w, result) ==
  /\ outcome' = [outcome EXCEPT ![worker[w].batch] = result]
  /\ worker' = [worker EXCEPT ![w] = [pc |-> "idle", batch |-> 0]]

\* range jobs ends when the channel is closed and empty; the variants leave what is
\* in it, or leave with the cancellation as the collectors do.
ClosedIsEnough == Closed
CancelIsEnough == Cancelled
NoMoreJobs == Closed /\ jobs = <<>>

\* retry.Do calls once and again after each of its delays.
OneMoreRetry(b) == calls[b] <= Delays + 1
MayRetry(b) == calls[b] <= Delays

TakeJob(w) ==
  /\ Alive
  /\ worker[w].pc = "idle"
  /\ jobs # <<>>
  /\ jobs' = Tail(jobs)
  /\ Call(w, Head(jobs))
  /\ UNCHANGED <<collector, polls, system, store, sender, batches, outcome, control>>

WorkerStops(w) ==
  /\ Alive
  /\ worker[w].pc = "idle"
  /\ NoMoreJobs
  /\ worker' = [worker EXCEPT ![w].pc = "exited"]
  /\ UNCHANGED <<collector, polls, system, store, sender, batches, jobs, calls, outcome, control>>

\* Status 200 came back, or an error that is no net.OpError: another status,
\* the client's timeout of 1 s, a broken answer.  retryIf refuses it; after
\* the last delay any error is returned.
CallReturns(w) ==
  /\ Alive
  /\ worker[w].pc = "call"
  /\ Settle(w, "sent") \/ Settle(w, "dropped")
  /\ UNCHANGED <<collector, polls, system, store, sender, batches, jobs, calls, control>>

\* A net.OpError: the wait before the next call.
NetworkFails(w) ==
  /\ Alive
  /\ worker[w].pc = "call"
  /\ MayRetry(worker[w].batch)
  /\ worker' = [worker EXCEPT ![w].pc = "wait"]
  /\ UNCHANGED <<collector, polls, system, store, sender, batches, jobs, calls, outcome, control>>

\* case <-time.After(delay).
Retry(w) ==
  /\ Alive
  /\ worker[w].pc = "wait"
  /\ Call(w, worker[w].batch)
  /\ UNCHANGED <<collector, polls, system, store, sender, batches, jobs, outcome, control>>

\* case <-ctx.Done().
AbortRetry(w) ==
  /\ Alive
  /\ worker[w].pc = "wait"
  /\ Cancelled
  /\ Settle(w, "dropped")
  /\ UNCHANGED <<collector, polls, system, store, sender, batches, jobs, calls, control>>

-----------------------------------------------------------------------------
(* main and the shutdown goroutine.                                         *)

\* The operating system delivers a signal to sigCh, dropped when it is full.
Signal ==
  /\ Alive
  /\ signals < SigBuffer
  /\ signals' = signals + 1
  /\ UNCHANGED <<collector, polls, system, store, sender, batches, jobs,
                 delivery, main, shutdown>>

\* <-sigCh, cancel(), and the goroutine that waits for the others.
Cancel ==
  /\ main = "serving"
  /\ signals > 0
  /\ signals' = signals - 1
  /\ main' = "stopping"
  /\ shutdown' = "producers"
  /\ UNCHANGED <<collector, polls, system, store, sender, batches, jobs, delivery>>

\* wgProducers.Wait(), over the three producers or over the collectors only.
CollectorsDone == collector = "exited" /\ system = "exited"
ProducersDone == collector = "exited" /\ system = "exited" /\ sender.pc = "exited"

\* wgProducers.Wait() returns, close(jobs).
CloseJobs ==
  /\ Alive
  /\ shutdown = "producers"
  /\ ProducersDone
  /\ shutdown' = "workers"
  /\ UNCHANGED <<collector, polls, system, store, sender, batches, jobs,
                 delivery, main, signals>>

\* wgWorkers.Wait() returns, close(done).
WorkersDone ==
  /\ Alive
  /\ shutdown = "workers"
  /\ \A w \in Workers : worker[w].pc = "exited"
  /\ shutdown' = "done"
  /\ UNCHANGED <<collector, polls, system, store, sender, batches, jobs,
                 delivery, main, signals>>

\* case <-done: main returns.
Exit ==
  /\ main = "stopping"
  /\ shutdown = "done"
  /\ main' = "exited"
  /\ UNCHANGED <<collector, polls, system, store, sender, batches, jobs,
                 delivery, shutdown, signals>>

\* case <-sigCh: os.Exit(1).
ForcedExit ==
  /\ main = "stopping"
  /\ signals > 0
  /\ signals' = signals - 1
  /\ main' = "forced"
  /\ UNCHANGED <<collector, polls, system, store, sender, batches, jobs,
                 delivery, shutdown>>

\* The process is gone and nothing else happens to it.
Terminated ==
  /\ ~Alive
  /\ UNCHANGED vars

-----------------------------------------------------------------------------
Collecting ==
  \/ CollectRuntime \/ CountPoll \/ SetRandom \/ CollectorStops
  \/ CollectSystem \/ SystemStops

Sending ==
  \/ SnapshotGauges(FALSE) \/ SnapshotGauges(TRUE)
  \/ SnapshotCounters \/ Enqueue

Working(w) ==
  \/ TakeJob(w) \/ WorkerStops(w)
  \/ CallReturns(w) \/ NetworkFails(w)
  \/ Retry(w) \/ AbortRetry(w)

Stopping == Cancel \/ CloseJobs \/ WorkersDone \/ Exit \/ ForcedExit

Next ==
  \/ Collecting
  \/ Sending
  \/ \E w \in Workers : Working(w)
  \/ Signal
  \/ Stopping
  \/ Terminated

Spec == Init /\ [][Next]_vars

(* Every goroutine is scheduled, a call returns (the client's timeout), a   *)
(* delay elapses, and a select that finds ctx.Done ready again and again    *)
(* takes it in the end.  No signal is owed.                                 *)
Fairness ==
  /\ WF_vars(CountPoll) /\ WF_vars(SetRandom)
  /\ SF_vars(CollectorStops) /\ SF_vars(SystemStops)
  /\ SF_vars(SnapshotGauges(TRUE))
  /\ WF_vars(SnapshotCounters) /\ WF_vars(Enqueue)
  /\ \A w \in Workers : WF_vars(Working(w))
  /\ WF_vars(Cancel) /\ WF_vars(CloseJobs) /\ WF_vars(WorkersDone) /\ WF_vars(Exit)

FairSpec == Spec /\ Fairness

-----------------------------------------------------------------------------
(* Properties.                                                              *)

\* The four places of a batch.
Offered(b) == sender.pc = "enqueue" /\ b = Len(batches)
Queued(b) == \E i \in 1..Len(jobs) : jobs[i] = b
Held(b) == \E w \in Workers : worker[w].batch = b
Settled(b) == outcome[b] # "none"

\* The polls added to PollCount so far.
Counted == 1..(IF collector = "count" THEN polls - 1 ELSE polls)

\* jobs is closed only when the sender can no longer write to it, whichever
\* of its two sends it was blocked in (a send on a closed channel panics).
JobsClosedAfterSender == Closed => sender.pc = "exited"

\* Between the four actors a counted poll is never lost track of and never in
\* two places: the polls added to PollCount are those still in LocalMetrics
\* and those of the batches formed, each in exactly one.  A poll that reached
\* two batches would be counted twice by the server.
PollsAreInOnePlace ==
  \A p \in 1..MaxPolls :
    LET Carries(b) == p \in batches[b].polls
    IN /\ p \in Counted <=> p \in counters \/ \E b \in 1..Len(batches) : Carries(b)
       /\ p \in counters => \A b \in 1..Len(batches) : ~Carries(b)
       /\ \A b, c \in 1..Len(batches) : Carries(b) /\ Carries(c) => b = c

\* A batch formed is with the sender, in the channel, with one worker or
\* settled, and never in two of these: no worker sends what another has.
BatchesAreInOnePlace ==
  /\ \A b \in Batches :
       /\ b <= Len(batches) <=> Offered(b) \/ Queued(b) \/ Held(b) \/ Settled(b)
       /\ Offered(b) => ~Queued(b) /\ ~Held(b) /\ ~Settled(b)
       /\ Queued(b) => ~Held(b) /\ ~Settled(b)
       /\ Held(b) => ~Settled(b)
  /\ \A i, j \in 1..Len(jobs) : jobs[i] = jobs[j] => i = j
  /\ \A v, w \in Workers :
       worker[v].batch = worker[w].batch /\ worker[v].batch # 0 => v = w

\* The snapshots of a batch are two critical sections with the collector free
\* to run between them, yet a RandomValue that leaves the agent always belongs
\* to a poll counted in that batch or an earlier one.  (A batch given up or
\* overtaken can still make PollCount lag behind on the server.)
CountedBeforeShown ==
  \A b \in 1..Len(batches) :
    \A p \in 1..batches[b].gauges.random : \E c \in 1..b : p \in batches[c].polls

\* A graceful exit leaves no batch behind: the workers drained the channel
\* before they stopped and every batch has been sent or given up.
GracefulExitDrains ==
  main = "exited" => /\ jobs = <<>>
                     /\ \A b \in 1..Len(batches) : Settled(b)
                     /\ \A w \in Workers : worker[w].pc = "exited"

\* SendBatch is final: no step sends a settled batch again or changes its
\* outcome, as TestSendBatch_NoRetryOnServerError expects of a status 500.
SettledStaysSettled ==
  [][\A b \in Batches : Settled(b) => outcome'[b] = outcome[b] /\ calls'[b] = calls[b]]_vars

\* No batch waits for ever behind others: once formed it is settled, unless
\* the process is ended by force first, also when the shutdown comes between.
BatchesSettle ==
  \A b \in Batches : (b <= Len(batches)) ~> (Settled(b) \/ main = "forced")

\* After the first signal the process ends, however the calls go and without
\* a second signal.
SignalEndsProcess == (signals > 0) ~> ~Alive

-----------------------------------------------------------------------------
(* The agent implements the ledger of polls.                                *)

PollsOf(result) ==
  UNION {batches[b].polls : b \in {c \in 1..Len(batches) : outcome[c] = result}}

Ledger == INSTANCE PollLedger
            WITH Polls <- 1..MaxPolls,
                 unsent <- counters,
                 parcels <- {batches[b].polls :
                               b \in {c \in 1..Len(batches) : outcome[c] = "none"}} \ {{}},
                 sent <- PollsOf("sent"),
                 dropped <- PollsOf("dropped")

\* Seen through its polls the agent is the ledger: a poll counted travels in
\* one parcel with all that was unsent at the time, and the parcel is settled
\* once and as a whole.
ImplementsLedger == Ledger!Spec
=============================================================================
