----------------------------- MODULE AgentProofs -----------------------------
(***************************************************************************)
(* Proofs about the agent, for any number of workers, retry delays and     *)
(* bounds.                                                                 *)
(***************************************************************************)
EXTENDS Agent, FiniteSetTheorems, SequenceTheorems, TLAPS

-----------------------------------------------------------------------------
(* The inductive invariant.                                                 *)

\* Where each goroutine is decides what the others may have done.
ControlInv ==
  /\ collector # "select" /\ collector # "exited" => polls > 0
  /\ sender.pc \in {"select", "counters"} => Len(batches) < MaxBatches
  /\ sender.pc = "counters" /\ ~sender.final => Len(batches) < MaxBatches - 1
  /\ sender.pc = "enqueue" => Len(batches) > 0
  /\ sender.pc = "enqueue" /\ ~sender.final => Len(batches) < MaxBatches
  /\ Closed => sender.pc = "exited"
  /\ shutdown = "done" => \A w \in Workers : worker[w].pc = "exited"
  /\ main = "exited" => shutdown = "done"
  /\ main = "serving" <=> shutdown = "off"

\* A worker holds a batch while it sends it, and stops on a drained channel.
WorkerInv ==
  \A w \in Workers :
    /\ worker[w].pc \in {"call", "wait"} <=> worker[w].batch # 0
    /\ worker[w].pc = "wait" => calls[worker[w].batch] <= Delays
    /\ worker[w].pc = "exited" => Closed /\ jobs = <<>>

\* A batch no worker has taken has not been sent.
FreshInv ==
  \A b \in Batches : ~Held(b) /\ ~Settled(b) => calls[b] = 0

IInv == TypeOK /\ ControlInv /\ WorkerInv /\ FreshInv /\ BatchesAreInOnePlace

LEMMA RateLimitType == RateLimit \in Nat
BY FS_CardinalityType, AgentAssumption DEF RateLimit

LEMMA InitIInv == Init => IInv
<1> SUFFICES ASSUME Init PROVE IInv
  OBVIOUS
<1> USE AgentAssumption DEF Init, NoGauges, Gauges
<1>1. TypeOK
  BY RateLimitType, EmptySeq DEF TypeOK, Batches
<1>2. ControlInv /\ WorkerInv /\ FreshInv
  BY DEF ControlInv, WorkerInv, FreshInv, Closed, Batches
<1>3. BatchesAreInOnePlace
  BY DEF BatchesAreInOnePlace, Offered, Queued, Held, Settled, Batches
<1> QED
  BY <1>1, <1>2, <1>3 DEF IInv

\* Setting a gauge to a poll within the bounds.
LEMMA GaugesTyped ==
  ASSUME NEW g \in Gauges
  PROVE  /\ g.system \in 0..MaxSystem
         /\ \A p \in 0..MaxPolls : /\ [g EXCEPT !.runtime = p] \in Gauges
                                   /\ [g EXCEPT !.random = p] \in Gauges
         /\ \A p \in 0..MaxSystem : [g EXCEPT !.system = p] \in Gauges
BY DEF Gauges

\* The collectors touch neither a batch nor a goroutine but their own.
LEMMA CollectingIInv ==
  ASSUME IInv, Collecting
  PROVE  IInv'
<1> USE DEF IInv
<1>1. /\ collector' \in {"select", "count", "random", "exited"}
      /\ polls' \in 0..MaxPolls
      /\ system' \in {"select", "exited"}
      /\ gauges' \in Gauges
      /\ counters' \in SUBSET (1..MaxPolls)
  <2> USE AgentAssumption, GaugesTyped DEF TypeOK, ControlInv
  <2>1. CASE CollectRuntime
    <3>1. polls + 1 \in 0..MaxPolls
      BY <2>1 DEF CollectRuntime
    <3> QED
      BY <2>1, <3>1 DEF CollectRuntime, SetRuntime
  <2>2. CASE CountPoll
    BY <2>2 DEF CountPoll
  <2>3. CASE SetRandom
    BY <2>3 DEF SetRandom
  <2>4. CASE CollectorStops
    BY <2>4 DEF CollectorStops, store
  <2>5. CASE CollectSystem
    <3>1. gauges.system + 1 \in 0..MaxSystem
      BY <2>5 DEF CollectSystem
    <3> QED
      BY <2>5, <3>1 DEF CollectSystem
  <2>6. CASE SystemStops
    BY <2>6 DEF SystemStops, store
  <2> QED
    BY <2>1, <2>2, <2>3, <2>4, <2>5, <2>6 DEF Collecting
<1>2. /\ UNCHANGED <<sender, batches, jobs, worker, calls, outcome, main, shutdown, signals>>
      /\ collector' # "select" /\ collector' # "exited" => polls' > 0
  BY DEF Collecting, CollectRuntime, CountPoll, SetRandom, CollectorStops,
     CollectSystem, SystemStops, store, delivery, control, TypeOK, ControlInv
<1>3. ControlInv'
  BY <1>2 DEF ControlInv, Closed
<1>4. WorkerInv' /\ FreshInv' /\ BatchesAreInOnePlace'
  BY <1>2 DEF WorkerInv, FreshInv, BatchesAreInOnePlace, Offered, Queued, Held, Settled, Closed
<1>5. TypeOK'
  BY <1>1, <1>2 DEF TypeOK, RateLimit
<1> QED
  BY <1>3, <1>4, <1>5

LEMMA SnapshotGaugesIInv ==
  ASSUME IInv, NEW final \in BOOLEAN, SnapshotGauges(final)
  PROVE  IInv'
<1> USE DEF IInv, SnapshotGauges, store, delivery, control
<1>1. /\ sender' \in [pc : {"counters"}, final : BOOLEAN, gauges : Gauges]
      /\ sender.pc = "select"
      /\ Len(batches) < MaxBatches
  BY AgentAssumption DEF TypeOK
<1>2. TypeOK'
  BY <1>1 DEF TypeOK, RateLimit
<1>3. ControlInv' /\ WorkerInv' /\ FreshInv'
  BY <1>1 DEF ControlInv, WorkerInv, FreshInv, Held, Settled, Closed
<1>4. BatchesAreInOnePlace'
  BY <1>1 DEF BatchesAreInOnePlace, Offered, Queued, Held, Settled
<1> QED
  BY <1>2, <1>3, <1>4

\* A batch is appended: the sender holds it, and nobody else has its number.
LEMMA SnapshotCountersIInv ==
  ASSUME IInv, SnapshotCounters
  PROVE  IInv'
<1> USE DEF IInv, delivery, control
<1>1. /\ sender.pc = "counters"
      /\ Len(batches) < MaxBatches
      /\ UNCHANGED <<collector, polls, system, gauges, jobs, worker, calls, outcome,
                     main, shutdown, signals>>
      /\ counters' = {}
      /\ ~Closed
  BY DEF SnapshotCounters, ClearCounters, ControlInv
<1>2. CASE UNCHANGED batches
  <2>1. sender' = [sender EXCEPT !.pc = AfterFlush]
    BY <1>2, <1>1, AppendProperties DEF SnapshotCounters, TypeOK
  <2>2. TypeOK'
    BY <1>1, <1>2, <2>1 DEF TypeOK, RateLimit, AfterFlush
  <2>3. ControlInv' /\ WorkerInv' /\ FreshInv'
    BY <1>1, <1>2, <2>1
       DEF ControlInv, WorkerInv, FreshInv, Held, Settled, Closed, AfterFlush, TypeOK
  <2>4. BatchesAreInOnePlace'
    BY <1>1, <1>2, <2>1
       DEF BatchesAreInOnePlace, Offered, Queued, Held, Settled, AfterFlush, TypeOK
  <2> QED
    BY <2>2, <2>3, <2>4
<1>3. CASE ~UNCHANGED batches
  <2> DEFINE batch == [gauges |-> sender.gauges, polls |-> counters]
  <2>1. /\ sender' = [sender EXCEPT !.pc = "enqueue"]
        /\ batches' = Append(batches, batch)
    BY <1>3 DEF SnapshotCounters
  <2>2. batch \in [gauges : Gauges, polls : SUBSET (1..MaxPolls)]
    BY DEF TypeOK
  <2>3. /\ batches' \in Seq([gauges : Gauges, polls : SUBSET (1..MaxPolls)])
        /\ Len(batches') = Len(batches) + 1
    BY <2>1, <2>2, AppendProperties DEF TypeOK
  <2>4. jobs' \in Seq(1..Len(batches'))
    BY <1>1, <2>3, SeqMonotonic, LenProperties DEF TypeOK
  <2>5. sender' \in [pc : {"enqueue"}, final : BOOLEAN, gauges : Gauges]
    BY <2>1 DEF TypeOK
  <2>6. TypeOK'
    BY <1>1, <2>3, <2>4, <2>5, AgentAssumption DEF TypeOK, RateLimit
  <2>7. ControlInv' /\ WorkerInv' /\ FreshInv'
    <3>1. ~sender.final => Len(batches) < MaxBatches - 1
      BY <1>1 DEF ControlInv
    <3>2. sender'.final = sender.final
      BY <2>1 DEF TypeOK
    <3>3. Len(batches) \in Nat /\ MaxBatches \in Nat
      BY AgentAssumption DEF TypeOK
    <3> QED
      BY <1>1, <2>3, <2>5, <3>1, <3>2, <3>3
         DEF ControlInv, WorkerInv, FreshInv, Held, Settled, Closed, TypeOK
  <2>8. BatchesAreInOnePlace'
    BY <1>1, <2>3, <2>5
       DEF BatchesAreInOnePlace, Offered, Queued, Held, Settled, TypeOK, Batches
  <2> QED
    BY <2>6, <2>7, <2>8
<1> QED
  BY <1>2, <1>3

\* The batch goes from the sender to the end of the channel.
LEMMA EnqueueIInv ==
  ASSUME IInv, Enqueue
  PROVE  IInv'
<1> USE DEF IInv, delivery, control, store
<1>1. /\ sender.pc = "enqueue"
      /\ Len(jobs) < RateLimit
      /\ jobs' = Append(jobs, Len(batches))
      /\ sender' = [sender EXCEPT !.pc = AfterFlush]
      /\ UNCHANGED <<collector, polls, system, gauges, counters, batches,
                     worker, calls, outcome, main, shutdown, signals>>
      /\ ~Closed
      /\ Len(batches) > 0
  BY DEF Enqueue, Send, ControlInv
<1>2. /\ jobs' \in Seq(1..Len(batches))
      /\ Len(jobs') = Len(jobs) + 1
      /\ \A i \in 1..Len(jobs) : jobs'[i] = jobs[i]
      /\ jobs'[Len(jobs) + 1] = Len(batches)
  BY <1>1, AppendProperties DEF TypeOK
<1>3. /\ sender' \in [pc : {"select", "exited"}, final : BOOLEAN, gauges : Gauges]
      /\ sender'.pc = "select" => Len(batches) < MaxBatches
  BY <1>1 DEF TypeOK, AfterFlush, ControlInv
<1>4. TypeOK'
  BY <1>1, <1>2, <1>3, RateLimitType, LenProperties DEF TypeOK, RateLimit
<1>5. ControlInv' /\ WorkerInv' /\ FreshInv'
  BY <1>1, <1>3 DEF ControlInv, WorkerInv, FreshInv, Held, Settled, Closed
<1>6. BatchesAreInOnePlace'
  <2> USE DEF Offered, Queued, Held, Settled, TypeOK, Batches
  <2>1. \A b \in Batches : Queued(b)' <=> Queued(b) \/ b = Len(batches)
    <3> SUFFICES ASSUME NEW b \in Batches
                 PROVE  Queued(b)' <=> Queued(b) \/ b = Len(batches)
      OBVIOUS
    <3>1. Len(jobs) \in Nat /\ 1..Len(jobs') = (1..Len(jobs)) \union {Len(jobs) + 1}
      BY <1>2, LenProperties
    <3> HIDE DEF IInv, TypeOK, Offered, Held, Settled
    <3> QED
      BY <1>2, <3>1
  <2>2. \A b \in Batches : ~Offered(b)' /\ (Held(b)' <=> Held(b)) /\ (Settled(b)' <=> Settled(b))
    BY <1>1, <1>3
  <2>3. \A b \in Batches : Offered(b) <=> b = Len(batches)
    BY <1>1
  <2>4. \A i \in 1..Len(jobs) : jobs[i] # Len(batches)
    BY <2>3, <1>1, LenProperties, ElementOfSeq DEF BatchesAreInOnePlace
  <2>5. ASSUME NEW i \in 1..Len(jobs'), NEW j \in 1..Len(jobs'), jobs'[i] = jobs'[j]
        PROVE  i = j
    <3>1. /\ i \in 1..Len(jobs) \/ i = Len(jobs) + 1
          /\ j \in 1..Len(jobs) \/ j = Len(jobs) + 1
      BY <1>2, LenProperties
    <3> HIDE DEF Offered, Queued, Held, Settled, TypeOK, Batches
    <3> QED
      BY <2>5, <3>1, <1>2, <2>4 DEF BatchesAreInOnePlace
  <2>6. \A b \in Batches :
          /\ b <= Len(batches) <=> Offered(b) \/ Queued(b) \/ Held(b) \/ Settled(b)
          /\ Offered(b) => ~Queued(b) /\ ~Held(b) /\ ~Settled(b)
          /\ Queued(b) => ~Held(b) /\ ~Settled(b)
          /\ Held(b) => ~Settled(b)
    BY DEF BatchesAreInOnePlace
  <2>7. \A v, w \in Workers :
          worker'[v].batch = worker'[w].batch /\ worker'[v].batch # 0 => v = w
    BY <1>1 DEF BatchesAreInOnePlace
  <2> HIDE DEF Offered, Queued, Held, Settled, TypeOK, IInv
  <2> QED
    BY <1>1, <2>1, <2>2, <2>3, <2>5, <2>6, <2>7 DEF BatchesAreInOnePlace
<1> QED
  BY <1>4, <1>5, <1>6

\* The batch goes from the head of the channel to the worker, which sends it
\* for the first time.
LEMMA TakeJobIInv ==
  ASSUME IInv, NEW w \in Workers, TakeJob(w)
  PROVE  IInv'
<1> DEFINE b == Head(jobs)
<1> USE DEF IInv
<1>1. /\ worker[w].pc = "idle"
      /\ jobs # <<>>
      /\ jobs' = Tail(jobs)
      /\ worker' = [worker EXCEPT ![w] = [pc |-> "call", batch |-> b]]
      /\ calls' = [calls EXCEPT ![b] = @ + 1]
      /\ UNCHANGED <<collector, polls, system, gauges, counters, sender, batches,
                     outcome, main, shutdown, signals>>
  BY DEF TakeJob, Call, store, control
<1>2. /\ b \in 1..Len(batches)
      /\ b = jobs[1]
      /\ 1 \in 1..Len(jobs)
      /\ jobs' \in Seq(1..Len(batches))
      /\ Len(jobs') = Len(jobs) - 1
      /\ \A i \in 1..Len(jobs') : jobs'[i] = jobs[i + 1]
  BY <1>1, HeadTailProperties, EmptySeq, LenProperties DEF TypeOK
<1>3. b \in Batches /\ b # 0
  BY <1>2, AgentAssumption DEF TypeOK, Batches
<1>4. Queued(b) /\ ~Held(b) /\ ~Settled(b) /\ ~Offered(b) /\ calls[b] = 0
  BY <1>2, <1>3 DEF Queued, BatchesAreInOnePlace, FreshInv
<1>5. /\ worker[w].batch = 0
      /\ worker'[w] = [pc |-> "call", batch |-> b]
      /\ \A v \in Workers : v # w => worker'[v] = worker[v]
  BY <1>1 DEF TypeOK, WorkerInv
<1>6. TypeOK'
  <2>1. calls' \in [Batches -> 0..Delays + 1]
    BY <1>1, <1>3, <1>4, AgentAssumption DEF TypeOK
  <2>2. worker' \in [Workers -> [pc : {"idle", "call", "wait", "exited"},
                                 batch : 0..Len(batches)]]
    BY <1>1, <1>2 DEF TypeOK
  <2>3. Len(jobs') <= RateLimit
    BY <1>2, RateLimitType, LenProperties DEF TypeOK
  <2> QED
    BY <1>1, <1>2, <2>1, <2>2, <2>3 DEF TypeOK, RateLimit
<1>7. ControlInv'
  BY <1>1, <1>5 DEF ControlInv, Closed
<1>8. WorkerInv'
  <2>1. ASSUME NEW v \in Workers, worker'[v].pc = "wait"
        PROVE  calls'[worker'[v].batch] <= Delays
    <3>1. v # w /\ worker[v].batch # b
      BY <2>1, <1>5, <1>4 DEF Held
    <3> QED
      BY <3>1, <2>1, <1>1, <1>5 DEF WorkerInv, TypeOK
  <2> QED
    BY <2>1, <1>1, <1>3, <1>5 DEF WorkerInv, Closed
<1>9. \A c \in Batches :
        /\ Queued(c)' <=> Queued(c) /\ c # b
        /\ Held(c)' <=> Held(c) \/ c = b
        /\ Offered(c)' <=> Offered(c)
        /\ Settled(c)' <=> Settled(c)
  <2> TAKE c \in Batches
  <2>1. \A i \in 1..Len(jobs') : i + 1 \in 1..Len(jobs) /\ i + 1 # 1
    BY <1>2, LenProperties DEF TypeOK
  <2>2. Queued(c)' => Queued(c) /\ c # b
    BY <2>1, <1>2 DEF Queued, BatchesAreInOnePlace
  <2>3. ASSUME Queued(c), c # b PROVE Queued(c)'
    <3>1. PICK i \in 1..Len(jobs) : jobs[i] = c
      BY <2>3 DEF Queued
    <3>2. i # 1 /\ i - 1 \in 1..Len(jobs') /\ i - 1 + 1 = i
      BY <3>1, <2>3, <1>2, LenProperties DEF TypeOK
    <3> QED
      BY <3>1, <3>2, <1>2 DEF Queued
  <2>4. Held(c)' <=> Held(c) \/ c = b
    BY <1>5 DEF Held, Batches
  <2> QED
    BY <2>2, <2>3, <2>4, <1>1 DEF Offered, Settled
<1>10. FreshInv'
  BY <1>9, <1>1 DEF FreshInv, TypeOK
<1>11. BatchesAreInOnePlace'
  <2>1. \A i, j \in 1..Len(jobs') : jobs'[i] = jobs'[j] => i = j
    <3>1. \A i \in 1..Len(jobs') : i + 1 \in 1..Len(jobs)
      BY <1>2, LenProperties DEF TypeOK
    <3> QED
      BY <3>1, <1>2 DEF BatchesAreInOnePlace
  <2>2. \A u, v \in Workers :
          worker'[u].batch = worker'[v].batch /\ worker'[u].batch # 0 => u = v
    BY <1>4, <1>5 DEF BatchesAreInOnePlace, Held
  <2>3. \A c \in Batches :
          /\ c <= Len(batches) <=> Offered(c) \/ Queued(c) \/ Held(c) \/ Settled(c)
          /\ Offered(c) => ~Queued(c) /\ ~Held(c) /\ ~Settled(c)
          /\ Queued(c) => ~Held(c) /\ ~Settled(c)
          /\ Held(c) => ~Settled(c)
    BY DEF BatchesAreInOnePlace
  <2> HIDE DEF IInv
  <2> QED
    BY <1>1, <1>4, <1>9, <2>1, <2>2, <2>3 DEF BatchesAreInOnePlace
<1> QED
  BY <1>6, <1>7, <1>8, <1>10, <1>11

\* A worker that holds a batch settles it and lets it go.
LEMMA SettleIInv ==
  ASSUME IInv, NEW w \in Workers, NEW result \in {"sent", "dropped"},
         worker[w].pc \in {"call", "wait"}, Settle(w, result),
         UNCHANGED <<collector, polls, system, store, sender, batches, jobs, calls, control>>
  PROVE  IInv'
<1> DEFINE b == worker[w].batch
<1> USE DEF IInv
<1>1. /\ outcome' = [outcome EXCEPT ![b] = result]
      /\ worker' = [worker EXCEPT ![w] = [pc |-> "idle", batch |-> 0]]
      /\ UNCHANGED <<collector, polls, system, gauges, counters, sender, batches, jobs,
                     calls, main, shutdown, signals>>
  BY DEF Settle, store, control
<1>2. b # 0 /\ b \in Batches /\ b <= Len(batches)
  BY AgentAssumption DEF WorkerInv, TypeOK, Batches
<1>3. /\ worker'[w] = [pc |-> "idle", batch |-> 0]
      /\ \A v \in Workers : v # w => worker'[v] = worker[v]
      /\ outcome'[b] = result
      /\ \A c \in Batches : c # b => outcome'[c] = outcome[c]
  BY <1>1, <1>2 DEF TypeOK
<1>4. TypeOK'
  <2>1. outcome' \in [Batches -> {"none", "sent", "dropped"}]
    BY <1>1, <1>2 DEF TypeOK
  <2>2. worker' \in [Workers -> [pc : {"idle", "call", "wait", "exited"},
                                 batch : 0..Len(batches)]]
    BY <1>1 DEF TypeOK
  <2> QED
    BY <1>1, <2>1, <2>2 DEF TypeOK, RateLimit
<1>5. ControlInv' /\ WorkerInv'
  BY <1>1, <1>3 DEF ControlInv, WorkerInv, Closed
<1>6. \A c \in Batches :
        /\ Queued(c)' <=> Queued(c)
        /\ Held(c)' <=> Held(c) /\ c # b
        /\ Offered(c)' <=> Offered(c)
        /\ Settled(c)' <=> Settled(c) \/ c = b
  <2> TAKE c \in Batches
  <2>1. Held(c)' <=> Held(c) /\ c # b
    BY <1>2, <1>3 DEF Held, Batches, BatchesAreInOnePlace
  <2> QED
    BY <2>1, <1>1, <1>3 DEF Queued, Offered, Settled
<1>7. FreshInv'
  BY <1>1, <1>6 DEF FreshInv
<1>8. BatchesAreInOnePlace'
  <2>1. \A u, v \in Workers :
          worker'[u].batch = worker'[v].batch /\ worker'[u].batch # 0 => u = v
    BY <1>3 DEF BatchesAreInOnePlace
  <2>2. \A c \in Batches :
          /\ c <= Len(batches) <=> Offered(c) \/ Queued(c) \/ Held(c) \/ Settled(c)
          /\ Offered(c) => ~Queued(c) /\ ~Held(c) /\ ~Settled(c)
          /\ Queued(c) => ~Held(c) /\ ~Settled(c)
          /\ Held(c) => ~Settled(c)
    BY DEF BatchesAreInOnePlace
  <2>3. Held(b)
    BY DEF Held
  <2>4. \A i, j \in 1..Len(jobs) : jobs[i] = jobs[j] => i = j
    BY DEF BatchesAreInOnePlace
  <2> HIDE DEF IInv
  <2> QED
    BY <1>1, <1>2, <1>6, <2>1, <2>2, <2>3, <2>4 DEF BatchesAreInOnePlace
<1> QED
  BY <1>4, <1>5, <1>7, <1>8

\* The worker waits for the next call, makes it, or stops.
LEMMA NetworkFailsIInv ==
  ASSUME IInv, NEW w \in Workers, NetworkFails(w)
  PROVE  IInv'
<1> USE DEF IInv
<1>1. /\ worker[w].pc = "call"
      /\ calls[worker[w].batch] <= Delays
      /\ worker' = [worker EXCEPT ![w].pc = "wait"]
      /\ UNCHANGED <<collector, polls, system, gauges, counters, sender, batches, jobs,
                     calls, outcome, main, shutdown, signals>>
  BY DEF NetworkFails, MayRetry, store, control
<1>2. /\ worker'[w] = [pc |-> "wait", batch |-> worker[w].batch]
      /\ \A v \in Workers : v # w => worker'[v] = worker[v]
  BY <1>1 DEF TypeOK
<1>3. TypeOK'
  BY <1>1 DEF TypeOK, RateLimit
<1>4. ControlInv' /\ WorkerInv'
  BY <1>1, <1>2 DEF ControlInv, WorkerInv, Closed
<1>5. \A c : Held(c)' <=> Held(c)
  BY <1>2 DEF Held
<1>6. FreshInv' /\ BatchesAreInOnePlace'
  BY <1>1, <1>2, <1>5 DEF FreshInv, BatchesAreInOnePlace, Offered, Queued, Settled
<1> QED
  BY <1>3, <1>4, <1>6

LEMMA RetryIInv ==
  ASSUME IInv, NEW w \in Workers, Retry(w)
  PROVE  IInv'
<1> DEFINE b == worker[w].batch
<1> USE DEF IInv
<1>1. /\ worker[w].pc = "wait"
      /\ worker' = [worker EXCEPT ![w] = [pc |-> "call", batch |-> b]]
      /\ calls' = [calls EXCEPT ![b] = @ + 1]
      /\ UNCHANGED <<collector, polls, system, gauges, counters, sender, batches, jobs,
                     outcome, main, shutdown, signals>>
  BY DEF Retry, Call, store, control
<1>2. b \in Batches /\ b # 0 /\ calls[b] <= Delays
  BY <1>1, AgentAssumption DEF WorkerInv, TypeOK, Batches
<1>3. /\ worker'[w] = [pc |-> "call", batch |-> b]
      /\ \A v \in Workers : v # w => worker'[v] = worker[v]
  BY <1>1 DEF TypeOK
<1>4. TypeOK'
  <2>1. calls' \in [Batches -> 0..Delays + 1]
    BY <1>1, <1>2, AgentAssumption DEF TypeOK
  <2>2. worker' \in [Workers -> [pc : {"idle", "call", "wait", "exited"},
                                 batch : 0..Len(batches)]]
    BY <1>1 DEF TypeOK
  <2> QED
    BY <1>1, <2>1, <2>2 DEF TypeOK, RateLimit
<1>5. ControlInv'
  BY <1>1, <1>3 DEF ControlInv, Closed
<1>6. WorkerInv'
  <2>1. ASSUME NEW v \in Workers, worker'[v].pc = "wait"
        PROVE  calls'[worker'[v].batch] <= Delays
    <3>1. v # w /\ worker[v].batch # b
      BY <2>1, <1>2, <1>3 DEF BatchesAreInOnePlace
    <3> QED
      BY <3>1, <2>1, <1>1, <1>3 DEF WorkerInv, TypeOK
  <2> QED
    BY <2>1, <1>1, <1>2, <1>3 DEF WorkerInv, Closed
<1>7. \A c : Held(c)' <=> Held(c)
  BY <1>3 DEF Held
<1>8. FreshInv'
  BY <1>1, <1>7 DEF FreshInv, Held, Settled, TypeOK
<1>9. BatchesAreInOnePlace'
  BY <1>1, <1>3, <1>7 DEF BatchesAreInOnePlace, Offered, Queued, Settled
<1> QED
  BY <1>4, <1>5, <1>6, <1>8, <1>9

LEMMA WorkerStopsIInv ==
  ASSUME IInv, NEW w \in Workers, WorkerStops(w)
  PROVE  IInv'
<1> USE DEF IInv
<1>1. /\ worker[w].pc = "idle"
      /\ Closed /\ jobs = <<>>
      /\ worker' = [worker EXCEPT ![w].pc = "exited"]
      /\ UNCHANGED <<collector, polls, system, gauges, counters, sender, batches, jobs,
                     calls, outcome, main, shutdown, signals>>
  BY DEF WorkerStops, NoMoreJobs, store, control
<1>2. /\ worker'[w] = [pc |-> "exited", batch |-> worker[w].batch]
      /\ \A v \in Workers : v # w => worker'[v] = worker[v]
  BY <1>1 DEF TypeOK
<1>3. TypeOK'
  BY <1>1 DEF TypeOK, RateLimit
<1>4. ControlInv' /\ WorkerInv'
  BY <1>1, <1>2 DEF ControlInv, WorkerInv, Closed
<1>5. \A c : Held(c)' <=> Held(c)
  BY <1>2 DEF Held
<1>6. FreshInv' /\ BatchesAreInOnePlace'
  BY <1>1, <1>2, <1>5 DEF FreshInv, BatchesAreInOnePlace, Offered, Queued, Settled
<1> QED
  BY <1>3, <1>4, <1>6

LEMMA WorkingIInv ==
  ASSUME IInv, NEW w \in Workers, Working(w)
  PROVE  IInv'
<1>1. CASE CallReturns(w)
  BY <1>1, SettleIInv DEF CallReturns
<1>2. CASE AbortRetry(w)
  BY <1>2, SettleIInv DEF AbortRetry
<1> QED
  BY <1>1, <1>2, TakeJobIInv, WorkerStopsIInv, NetworkFailsIInv, RetryIInv DEF Working

\* main and its goroutine change nothing but the control state.
LEMMA StoppingIInv ==
  ASSUME IInv, Stopping \/ Signal
  PROVE  IInv'
<1> USE DEF IInv
<1>1. UNCHANGED <<collector, polls, system, gauges, counters, sender, batches, jobs,
                  worker, calls, outcome>>
  BY DEF Stopping, Signal, Cancel, CloseJobs, WorkersDone, Exit, ForcedExit, store, delivery
<1>2. /\ main' \in {"serving", "stopping", "exited", "forced"}
      /\ shutdown' \in {"off", "producers", "workers", "done"}
      /\ signals' \in 0..SigBuffer
  BY AgentAssumption
     DEF Stopping, Signal, Cancel, CloseJobs, WorkersDone, Exit, ForcedExit, TypeOK
<1>3. TypeOK'
  BY <1>1, <1>2 DEF TypeOK, RateLimit
<1>4. Closed => Closed'
  BY DEF Stopping, Signal, Cancel, CloseJobs, WorkersDone, Exit, ForcedExit, Closed, ControlInv
<1>5. ControlInv'
  BY <1>1 DEF Stopping, Signal, Cancel, CloseJobs, ProducersDone, WorkersDone, Exit, ForcedExit,
     Closed, ControlInv
<1>6. WorkerInv' /\ FreshInv' /\ BatchesAreInOnePlace'
  BY <1>1, <1>4 DEF WorkerInv, FreshInv, BatchesAreInOnePlace, Offered, Queued, Held, Settled
<1> QED
  BY <1>3, <1>5, <1>6

LEMMA StutterIInv ==
  ASSUME IInv, UNCHANGED vars
  PROVE  IInv'
BY DEF IInv, vars, store, delivery, control, TypeOK, RateLimit, ControlInv, WorkerInv, FreshInv,
   BatchesAreInOnePlace, Offered, Queued, Held, Settled, Closed

LEMMA NextIInv == IInv /\ [Next]_vars => IInv'
<1> SUFFICES ASSUME IInv, [Next]_vars PROVE IInv'
  OBVIOUS
<1>1. CASE Sending
  BY <1>1, SnapshotGaugesIInv, SnapshotCountersIInv, EnqueueIInv DEF Sending
<1>2. CASE Terminated \/ UNCHANGED vars
  BY <1>2, StutterIInv DEF Terminated
<1> QED
  BY <1>1, <1>2, CollectingIInv, WorkingIInv, StoppingIInv DEF Next

-----------------------------------------------------------------------------
(* The theorems.                                                            *)

\* The agent keeps its types, with its counters within their bounds: no batch
\* is ever sent more than 1 + len(delays) times and jobs never holds more than
\* RateLimit batches.
THEOREM AgentTypeCorrect == Spec => []TypeOK
<1>1. IInv => TypeOK
  BY DEF IInv
<1> QED
  BY <1>1, InitIInv, NextIInv, PTL DEF Spec

\* jobs is closed only behind the sender, so no send can panic.
THEOREM AgentClosesSafely == Spec => []JobsClosedAfterSender
<1>1. IInv => JobsClosedAfterSender
  BY DEF IInv, ControlInv, JobsClosedAfterSender
<1> QED
  BY <1>1, InitIInv, NextIInv, PTL DEF Spec

\* Every batch formed is in exactly one place.
THEOREM AgentKeepsBatches == Spec => []BatchesAreInOnePlace
<1>1. IInv => BatchesAreInOnePlace
  BY DEF IInv
<1> QED
  BY <1>1, InitIInv, NextIInv, PTL DEF Spec

\* A graceful exit leaves no batch unsettled, for any number of workers.
THEOREM AgentExitDrains == Spec => []GracefulExitDrains
<1>1. ASSUME IInv, main = "exited" PROVE jobs = <<>>
  <2>1. \A w \in Workers : worker[w].pc = "exited"
    BY <1>1 DEF IInv, ControlInv
  <2>2. CASE Workers = {}
    BY <1>1, <2>2, FS_EmptySet, LenProperties, EmptySeq DEF IInv, TypeOK, RateLimit
  <2>3. CASE Workers # {}
    BY <1>1, <2>1, <2>3 DEF IInv, WorkerInv
  <2> QED
    BY <2>2, <2>3
<1>2. ASSUME IInv, main = "exited", NEW b \in 1..Len(batches) PROVE Settled(b)
  <2>1. b \in Batches
    BY <1>2, AgentAssumption DEF IInv, TypeOK, Batches
  <2>2. ~Offered(b)
    BY <1>2 DEF IInv, ControlInv, Closed, Offered
  <2>3. ~Queued(b)
    BY <1>1, <1>2, EmptySeq DEF Queued
  <2>4. ~Held(b)
    BY <1>2 DEF IInv, ControlInv, WorkerInv, Held
  <2> QED
    BY <1>2, <2>1, <2>2, <2>3, <2>4 DEF IInv, BatchesAreInOnePlace
<1>3. IInv => GracefulExitDrains
  BY <1>1, <1>2 DEF GracefulExitDrains, IInv, ControlInv
<1> QED
  BY <1>3, InitIInv, NextIInv, PTL DEF Spec
-----------------------------------------------------------------------------
\* The polls.  Nothing is left to count between two polls.
PollsInv ==
  /\ PollsAreInOnePlace
  /\ collector = "count" => polls \notin counters

\* No step of the pipeline behind the snapshots touches a poll's place.
LEMMA NextPolls == IInv /\ PollsInv /\ [Next]_vars => PollsInv'
<1> SUFFICES ASSUME IInv, PollsInv, [Next]_vars PROVE PollsInv'
  OBVIOUS
<1> USE AgentAssumption DEF IInv, PollsInv
<1>1. CASE CollectRuntime
  <2>1. /\ collector = "select" /\ collector' = "count"
        /\ polls' = polls + 1 /\ polls \in 0..MaxPolls - 1
        /\ UNCHANGED <<counters, batches>>
    BY <1>1 DEF CollectRuntime, TypeOK
  <2>2. Counted' = Counted
    BY <2>1 DEF Counted
  <2>3. polls' \notin Counted /\ polls' \in 1..MaxPolls
    BY <2>1 DEF Counted
  <2> QED
    BY <2>1, <2>2, <2>3 DEF PollsAreInOnePlace
<1>2. CASE CountPoll
  <2>1. /\ collector = "count" /\ collector' = "random"
        /\ counters' = counters \union {polls}
        /\ UNCHANGED <<polls, batches>>
        /\ polls \in 1..MaxPolls
    BY <1>2 DEF CountPoll, TypeOK, ControlInv
  <2>2. polls \notin Counted /\ Counted' = Counted \union {polls}
    BY <2>1 DEF Counted
  <2> QED
    BY <2>1, <2>2 DEF PollsAreInOnePlace
<1>3. CASE SnapshotCounters /\ ~UNCHANGED batches
  <2> DEFINE batch == [gauges |-> sender.gauges, polls |-> counters]
  <2>1. /\ counters' = {}
        /\ batches' = Append(batches, batch)
        /\ UNCHANGED <<collector, polls>>
    BY <1>3 DEF SnapshotCounters, ClearCounters
  <2>2. batch \in [gauges : Gauges, polls : SUBSET (1..MaxPolls)]
    BY DEF TypeOK
  <2>3. /\ Len(batches') = Len(batches) + 1 /\ Len(batches) \in Nat
        /\ \A b \in 1..Len(batches) : batches'[b] = batches[b]
        /\ batches'[Len(batches) + 1].polls = counters
    BY <2>1, <2>2, AppendProperties, LenProperties DEF TypeOK
  <2>4. Counted' = Counted
    BY <2>1 DEF Counted
  <2>5. \A b \in 1..Len(batches') : b \in 1..Len(batches) \/ b = Len(batches) + 1
    BY <2>3
  <2>6. \A b \in 1..Len(batches) : b \in 1..Len(batches')
    BY <2>3
  <2>7. Len(batches) + 1 \in 1..Len(batches')
    BY <2>3
  <2>8. ASSUME NEW p \in 1..MaxPolls
        PROVE  /\ p \in Counted' <=> \E b \in 1..Len(batches') : p \in batches'[b].polls
               /\ \A b, c \in 1..Len(batches') :
                    p \in batches'[b].polls /\ p \in batches'[c].polls => b = c
    <3>1. \A b \in 1..Len(batches') :
            p \in batches'[b].polls <=>
              \/ b \in 1..Len(batches) /\ p \in batches[b].polls
              \/ b = Len(batches) + 1 /\ p \in counters
      BY <2>3, <2>5
    <3> QED
      BY <3>1, <2>3, <2>4, <2>6, <2>7 DEF PollsAreInOnePlace
  <2> QED
    BY <2>1, <2>8 DEF PollsAreInOnePlace
<1>4. CASE SnapshotCounters /\ UNCHANGED batches
  <2>1. counters = {} /\ counters' = {} /\ UNCHANGED <<collector, polls>>
    BY <1>4, AppendProperties, LenProperties DEF SnapshotCounters, ClearCounters, TypeOK
  <2> QED
    BY <2>1, <1>4 DEF PollsAreInOnePlace, Counted
<1>5. CASE UNCHANGED <<counters, batches, polls>> /\ Counted' = Counted
           /\ (collector' = "count" => collector = "count")
  BY <1>5 DEF PollsAreInOnePlace
<1>6. CASE SetRandom \/ CollectorStops \/ CollectSystem \/ SystemStops
  BY <1>5, <1>6 DEF SetRandom, CollectorStops, CollectSystem, SystemStops, store, Counted
<1>7. CASE \/ SnapshotGauges(FALSE) \/ SnapshotGauges(TRUE) \/ Enqueue
           \/ Signal \/ Stopping \/ Terminated \/ UNCHANGED vars
           \/ \E w \in Workers : Working(w)
  <2>1. UNCHANGED <<counters, batches, polls, collector>>
    BY <1>7 DEF SnapshotGauges, Enqueue, Signal, Stopping, Cancel, CloseJobs, WorkersDone, Exit,
       ForcedExit, Terminated, vars, store, Working, TakeJob, WorkerStops, CallReturns,
       NetworkFails, Retry, AbortRetry
  <2> QED
    BY <1>5, <2>1 DEF Counted
<1> QED
  BY <1>1, <1>2, <1>3, <1>4, <1>6, <1>7 DEF Next, Collecting, Sending

\* Every counted poll is in exactly one place.
THEOREM AgentKeepsPolls == Spec => []PollsAreInOnePlace
<1>1. Init => PollsInv
  BY AgentAssumption, EmptySeq DEF Init, PollsInv, PollsAreInOnePlace, Counted
<1>2. PollsInv => PollsAreInOnePlace
  BY DEF PollsInv
<1> QED
  BY <1>1, <1>2, InitIInv, NextIInv, NextPolls, PTL DEF Spec

\* A step leaves settled batches alone.
LEMMA SettledStays ==
  ASSUME IInv, [Next]_vars, NEW b \in Batches, Settled(b)
  PROVE  outcome'[b] = outcome[b] /\ calls'[b] = calls[b]
<1>1. CASE UNCHANGED delivery
  BY <1>1 DEF delivery
<1>2. ASSUME NEW w \in Workers, TakeJob(w) PROVE calls'[b] = calls[b] /\ outcome' = outcome
  <2>1. Queued(Head(jobs)) /\ Head(jobs) \in Batches
    <3>1. jobs \in Seq(1..Len(batches)) /\ Len(batches) \in 0..MaxBatches /\ jobs # <<>>
      BY <1>2 DEF IInv, TypeOK, TakeJob
    <3>2. Head(jobs) \in 1..Len(batches) /\ Head(jobs) = jobs[1]
      BY <3>1, HeadTailProperties
    <3>3. Len(jobs) \in Nat /\ Len(jobs) # 0
      BY <3>1, LenProperties, EmptySeq
    <3> QED
      BY <3>1, <3>2, <3>3, AgentAssumption DEF Queued, Batches
  <2>2. b # Head(jobs)
    BY <2>1 DEF IInv, BatchesAreInOnePlace
  <2> QED
    BY <1>2, <2>2 DEF TakeJob, Call, IInv, TypeOK
<1>3. ASSUME NEW w \in Workers, Working(w), ~TakeJob(w)
      PROVE  calls'[b] = calls[b] /\ outcome'[b] = outcome[b]
  <2>1. CASE worker[w].pc \in {"call", "wait"}
    <3>1. worker[w].batch # b
      BY <2>1 DEF IInv, BatchesAreInOnePlace, Held
    <3> QED
      BY <1>3, <3>1 DEF Working, WorkerStops, CallReturns, NetworkFails, Retry, AbortRetry,
         Call, Settle, IInv, TypeOK
  <2>2. CASE worker[w].pc \notin {"call", "wait"}
    BY <1>3, <2>2 DEF Working, WorkerStops, CallReturns, NetworkFails, Retry, AbortRetry
  <2> QED
    BY <2>1, <2>2
<1>4. CASE Collecting \/ Sending \/ Signal \/ Stopping \/ Terminated \/ UNCHANGED vars
  <2>1. UNCHANGED delivery
    BY <1>4 DEF Collecting, CollectRuntime, CountPoll, SetRandom, CollectorStops, CollectSystem,
       SystemStops, Sending, SnapshotGauges, SnapshotCounters, Enqueue, Signal, Stopping, Cancel,
       CloseJobs, WorkersDone, Exit, ForcedExit, Terminated, vars, delivery
  <2> QED
    BY <1>1, <2>1
<1> QED
  BY <1>2, <1>3, <1>4 DEF Next

\* A settled batch is never sent again nor its outcome changed.
THEOREM AgentSettlesOnce == Spec => SettledStaysSettled
<1> DEFINE Keeps == \A b \in Batches :
                      Settled(b) => outcome'[b] = outcome[b] /\ calls'[b] = calls[b]
<1>1. ASSUME IInv, [Next]_vars PROVE Keeps
  BY <1>1, SettledStays
<1>2. IInv /\ [Next]_vars => [Keeps]_vars
  BY <1>1
<1> QED
  BY <1>2, InitIInv, NextIInv, PTL DEF Spec, SettledStaysSettled
-----------------------------------------------------------------------------
\* A RandomValue shows no poll that is not counted, in LocalMetrics and in the
\* snapshot of the gauges the sender has made.
ShownInv ==
  /\ \A p \in 1..gauges.random : p \in Counted
  /\ sender.pc = "counters" => \A p \in 1..sender.gauges.random : p \in Counted
  /\ CountedBeforeShown

\* The gauges alone change, RandomValue to the last poll counted.
LEMMA CollectingShown ==
  ASSUME IInv, ShownInv, Collecting
  PROVE  ShownInv'
<1> USE AgentAssumption
<1>1. UNCHANGED <<sender, batches>>
  BY DEF Collecting, CollectRuntime, CountPoll, SetRandom, CollectorStops, CollectSystem,
     SystemStops
<1>2. Counted \subseteq Counted'
  BY DEF Collecting, CollectRuntime, CountPoll, SetRandom, CollectorStops, CollectSystem,
     SystemStops, Counted, IInv, TypeOK
<1>3. \A p \in 1..gauges'.random : p \in Counted'
  <2>1. CASE SetRandom
    <3>1. gauges'.random = polls
      BY <2>1 DEF SetRandom, IInv, TypeOK, Gauges
    <3>2. Counted = 1..polls
      BY <2>1 DEF SetRandom, Counted
    <3> QED
      BY <3>1, <3>2, <1>2
  <2>2. CASE ~SetRandom
    <3>1. gauges'.random = gauges.random
      BY <2>2 DEF Collecting, CollectRuntime, SetRuntime, CountPoll, CollectorStops, CollectSystem,
         SystemStops, store, IInv, TypeOK, Gauges
    <3> QED
      BY <3>1, <1>2 DEF ShownInv
  <2> QED
    BY <2>1, <2>2
<1> QED
  BY <1>1, <1>2, <1>3 DEF ShownInv, CountedBeforeShown

\* The polls of the gauges snapshot are in the counters, which are copied after
\* the gauges, or in an earlier batch.
LEMMA SnapshotCountersShown ==
  ASSUME IInv, PollsInv, ShownInv, SnapshotCounters, ~UNCHANGED batches
  PROVE  ShownInv'
<1> DEFINE batch == [gauges |-> sender.gauges, polls |-> counters]
<1>1. /\ sender.pc = "counters" /\ sender' = [sender EXCEPT !.pc = "enqueue"]
      /\ batches' = Append(batches, batch)
      /\ UNCHANGED <<gauges, collector, polls>>
  BY DEF SnapshotCounters
<1>2. /\ batches \in Seq([gauges : Gauges, polls : SUBSET (1..MaxPolls)])
      /\ batch \in [gauges : Gauges, polls : SUBSET (1..MaxPolls)]
  BY DEF IInv, TypeOK
<1>3. /\ Len(batches') = Len(batches) + 1 /\ Len(batches) \in Nat
      /\ \A b \in 1..Len(batches) : batches'[b] = batches[b]
      /\ batches'[Len(batches) + 1] = batch
  BY <1>1, <1>2, AppendProperties, LenProperties
<1>4. \A b \in 1..Len(batches') : b \in 1..Len(batches) \/ b = Len(batches) + 1
  BY <1>3
<1>5. ASSUME NEW p \in 1..sender.gauges.random
      PROVE  \E c \in 1..(Len(batches) + 1) : p \in batches'[c].polls
  <2>1. p \in Counted /\ p \in 1..MaxPolls
    BY <1>1, AgentAssumption, SMTT(30) DEF ShownInv, IInv, TypeOK, Gauges
  <2>2. CASE p \in counters
    BY <2>2, <1>3
  <2>3. CASE \E c \in 1..Len(batches) : p \in batches[c].polls
    BY <2>3, <1>3
  <2> QED
    BY <2>1, <2>2, <2>3 DEF PollsInv, PollsAreInOnePlace
<1>6. ASSUME NEW b \in 1..Len(batches'), NEW p \in 1..batches'[b].gauges.random
      PROVE  \E c \in 1..b : p \in batches'[c].polls
  <2>1. CASE b \in 1..Len(batches)
    <3>1. PICK c \in 1..b : p \in batches[c].polls
      BY <2>1, <1>3, <1>6 DEF ShownInv, CountedBeforeShown
    <3>2. c \in 1..Len(batches)
      BY <2>1, <1>3
    <3> QED
      BY <3>1, <3>2, <1>3
  <2>2. CASE b = Len(batches) + 1
    BY <2>2, <1>3, <1>5, <1>6
  <2> QED
    BY <2>1, <2>2, <1>4
<1>7. Counted' = Counted /\ sender'.pc # "counters"
  BY <1>1 DEF Counted, IInv, TypeOK
<1> QED
  BY <1>1, <1>6, <1>7 DEF ShownInv, CountedBeforeShown

LEMMA NextShown ==
  ASSUME IInv, PollsInv, ShownInv, [Next]_vars
  PROVE  ShownInv'
<1>1. CASE SnapshotGauges(FALSE) \/ SnapshotGauges(TRUE)
  <2>1. /\ sender'.gauges = gauges
        /\ UNCHANGED <<gauges, collector, polls, batches>>
    BY <1>1 DEF SnapshotGauges, store
  <2> QED
    BY <2>1 DEF ShownInv, CountedBeforeShown, Counted
<1>2. CASE (SnapshotCounters /\ UNCHANGED batches) \/ Enqueue
  <2>1. /\ UNCHANGED <<gauges, collector, polls, batches>>
        /\ sender' = [sender EXCEPT !.pc = AfterFlush]
    BY <1>2, AppendProperties, LenProperties
       DEF SnapshotCounters, Enqueue, store, IInv, TypeOK
  <2>2. sender'.pc # "counters"
    BY <2>1 DEF AfterFlush, IInv, TypeOK
  <2> QED
    BY <2>1, <2>2 DEF ShownInv, CountedBeforeShown, Counted
<1>3. CASE \/ Signal \/ Stopping \/ Terminated \/ UNCHANGED vars
           \/ \E w \in Workers : Working(w)
  <2>1. UNCHANGED <<gauges, collector, polls, sender, batches>>
    BY <1>3 DEF Signal, Stopping, Cancel, CloseJobs, WorkersDone, Exit, ForcedExit, Terminated,
       vars, store, Working, TakeJob, WorkerStops, CallReturns, NetworkFails, Retry, AbortRetry
  <2> QED
    BY <2>1 DEF ShownInv, CountedBeforeShown, Counted
<1> QED
  BY <1>1, <1>2, <1>3, CollectingShown, SnapshotCountersShown DEF Next, Sending

\* A RandomValue never leaves the agent before the polls it stands for.
THEOREM AgentCountsBeforeShowing == Spec => []CountedBeforeShown
<1>1. Init => PollsInv /\ ShownInv
  BY AgentAssumption, EmptySeq
     DEF Init, PollsInv, PollsAreInOnePlace, Counted, ShownInv, CountedBeforeShown, NoGauges
<1>2. IInv /\ PollsInv /\ ShownInv /\ [Next]_vars => ShownInv'
  BY NextShown
<1>3. ShownInv => CountedBeforeShown
  BY DEF ShownInv
<1> QED
  BY <1>1, <1>2, <1>3, InitIInv, NextIInv, NextPolls, PTL DEF Spec
-----------------------------------------------------------------------------
(* The agent implements the ledger.                                         *)

\* The batches with a given outcome.
Outcome(result) == {c \in 1..Len(batches) : outcome[c] = result}

Parcels == {batches[b].polls : b \in Outcome("none")} \ {{}}

LEMMA KnownIs ==
  Ledger!Known = counters \union (UNION Parcels) \union PollsOf("sent") \union PollsOf("dropped")
BY Zenon DEF Ledger!Known, Parcels, Outcome

LEMMA LedgerNextIs ==
  Ledger!Next <=> \/ \E p \in 1..MaxPolls : Ledger!Count(p)
                  \/ Ledger!Collect
                  \/ \E q \in Parcels : Ledger!Deliver(q) \/ Ledger!GiveUp(q)
BY Zenon DEF Ledger!Next, Parcels, Outcome

LEMMA CountPollLedger ==
  ASSUME IInv, PollsInv, CountPoll
  PROVE  Ledger!Next
<1>1. /\ collector = "count" /\ counters' = counters \union {polls}
      /\ UNCHANGED <<batches, outcome>>
      /\ polls \in 1..MaxPolls
  BY AgentAssumption DEF CountPoll, delivery, IInv, TypeOK, ControlInv
<1>2. polls \notin Counted
  BY <1>1 DEF Counted
<1>3. polls \notin counters /\ \A b \in 1..Len(batches) : polls \notin batches[b].polls
  BY <1>1, <1>2 DEF PollsInv, PollsAreInOnePlace
<1>4. polls \notin UNION Parcels /\ polls \notin PollsOf("sent") /\ polls \notin PollsOf("dropped")
  BY <1>3 DEF Parcels, Outcome, PollsOf
<1>5. polls \notin Ledger!Known
  BY <1>3, <1>4, KnownIs
<1>6. UNCHANGED <<Parcels, PollsOf("sent"), PollsOf("dropped")>>
  BY <1>1 DEF Parcels, Outcome, PollsOf
<1>7. Ledger!Count(polls)
  BY <1>1, <1>5, <1>6 DEF Ledger!Count, Parcels, Outcome
<1> QED
  BY <1>1, <1>7 DEF Ledger!Next

\* A batch with polls is a parcel of all that was unsent; one without is none.
LEMMA SnapshotCountersLedger ==
  ASSUME IInv, SnapshotCounters, ~UNCHANGED batches
  PROVE  Ledger!Next \/ UNCHANGED Ledger!ledger
<1> DEFINE new == [gauges |-> sender.gauges, polls |-> counters]
           L == Len(batches)
<1>1. /\ batches' = Append(batches, new) /\ counters' = {} /\ UNCHANGED outcome
      /\ new \in [gauges : Gauges, polls : SUBSET (1..MaxPolls)]
      /\ batches \in Seq([gauges : Gauges, polls : SUBSET (1..MaxPolls)])
      /\ sender.pc = "counters"
  BY DEF SnapshotCounters, ClearCounters, delivery, IInv, TypeOK
<1>2. /\ Len(batches') = L + 1 /\ L \in Nat
      /\ \A b \in 1..L : batches'[b] = batches[b]
      /\ batches'[L + 1].polls = counters
  BY <1>1, AppendProperties, LenProperties
<1>3. outcome[L + 1] = "none"
  <2>1. L + 1 \in Batches /\ ~(L + 1 <= L)
    BY <1>1, <1>2, AgentAssumption DEF IInv, ControlInv, Batches
  <2> QED
    BY <2>1 DEF IInv, BatchesAreInOnePlace, Settled
<1>4. 1..(L + 1) = 1..L \union {L + 1}
  BY <1>2
<1> HIDE DEF L, new
<1>5. /\ Outcome("none")' = Outcome("none") \union {L + 1}
      /\ Outcome("sent")' = Outcome("sent")
      /\ Outcome("dropped")' = Outcome("dropped")
  BY <1>1, <1>2, <1>3, <1>4 DEF Outcome, L
<1>6. \A result : Outcome(result) \subseteq 1..L
  BY DEF Outcome, L
<1>7. Parcels' = (Parcels \union {counters}) \ {{}}
  BY <1>2, <1>5, <1>6 DEF Parcels
<1>8. UNCHANGED <<PollsOf("sent"), PollsOf("dropped")>>
  BY <1>2, <1>5, <1>6 DEF PollsOf, Outcome
<1>9. CASE counters = {}
  <2>1. Parcels' = Parcels /\ counters' = counters
    BY <1>1, <1>7, <1>9 DEF Parcels
  <2> QED
    BY <1>8, <2>1, Zenon DEF Ledger!ledger, Parcels, Outcome
<1>10. CASE counters # {}
  <2>1. Parcels' = Parcels \union {counters}
    BY <1>7, <1>10 DEF Parcels
  <2>2. Ledger!Collect
    BY <1>1, <1>8, <1>10, <2>1 DEF Ledger!Collect, Parcels, Outcome
  <2> QED
    BY <2>2 DEF Ledger!Next
<1> QED
  BY <1>9, <1>10

\* The polls of a batch that is settled leave its parcel for good: no other
\* batch carries them.
LEMMA SettleLedger ==
  ASSUME IInv, PollsInv, NEW w \in Workers, NEW result \in {"sent", "dropped"},
         worker[w].pc \in {"call", "wait"}, Settle(w, result), UNCHANGED <<batches, counters>>
  PROVE  Ledger!Next \/ UNCHANGED Ledger!ledger
<1> DEFINE b == worker[w].batch
           mine == batches[b].polls
<1>1. b \in 1..Len(batches) /\ b \in Batches /\ outcome[b] = "none"
  <2>1. b # 0 /\ b \in 0..Len(batches) /\ Len(batches) \in 0..MaxBatches
    BY DEF IInv, TypeOK, WorkerInv
  <2>2. b \in 1..Len(batches) /\ b \in Batches
    BY <2>1, AgentAssumption DEF Batches
  <2> QED
    BY <2>2 DEF IInv, BatchesAreInOnePlace, Held, Settled
<1>2. outcome'[b] = result /\ \A c \in Batches : c # b => outcome'[c] = outcome[c]
  BY <1>1 DEF Settle, IInv, TypeOK
<1>3. 1..Len(batches) \subseteq Batches
  BY AgentAssumption DEF IInv, TypeOK, Batches
<1> HIDE DEF b
<1>4. /\ Outcome("none")' = Outcome("none") \ {b} /\ b \in Outcome("none")
      /\ Outcome(result)' = Outcome(result) \union {b}
      /\ \A other \in {"sent", "dropped"} \ {result} : Outcome(other)' = Outcome(other)
  BY <1>1, <1>2, <1>3 DEF Outcome
<1>5. \A r : PollsOf(r) = UNION {batches[c].polls : c \in Outcome(r)}
  BY Zenon DEF PollsOf, Outcome
<1>6. \A r : PollsOf(r)' = UNION {batches[c].polls : c \in Outcome(r)'}
  BY Zenon DEF PollsOf, Outcome
<1>7. ASSUME NEW c \in 1..Len(batches), c # b, mine # {} PROVE batches[c].polls # mine
  <2>1. PICK p \in mine : TRUE
    BY <1>7
  <2>2. p \in 1..MaxPolls
    <3>1. batches[b] \in [gauges : Gauges, polls : SUBSET (1..MaxPolls)]
      BY <1>1, ElementOfSeq DEF IInv, TypeOK
    <3> QED
      BY <2>1, <3>1
  <2> QED
    BY <1>1, <1>7, <2>1, <2>2 DEF PollsInv, PollsAreInOnePlace
<1>8. Parcels' = Parcels \ {mine}
  <2>1. Outcome("none") \subseteq 1..Len(batches)
    BY DEF Outcome
  <2>2. Parcels' = {batches[c].polls : c \in Outcome("none") \ {b}} \ {{}}
    BY <1>4 DEF Parcels
  <2> QED
    BY <1>4, <1>7, <2>1, <2>2 DEF Parcels
<1>9. PollsOf(result)' = PollsOf(result) \union mine
  BY <1>4, <1>5, <1>6
<1>10. \A other \in {"sent", "dropped"} \ {result} : PollsOf(other)' = PollsOf(other)
  BY <1>4, <1>5, <1>6
<1> HIDE DEF mine
<1>11. CASE mine = {}
  <2>1. Parcels' = Parcels
    BY <1>8, <1>11 DEF Parcels
  <2>2. UNCHANGED <<PollsOf("sent"), PollsOf("dropped")>>
    BY <1>9, <1>10, <1>11
  <2> QED
    BY <2>1, <2>2, Zenon DEF Ledger!ledger, Parcels, Outcome
<1>12. CASE mine # {}
  <2>1. PICK q \in Parcels : q = mine
    BY <1>4, <1>12 DEF Parcels, mine
  <2>2. CASE result = "sent"
    <3>1. PollsOf("sent")' = PollsOf("sent") \union mine /\ UNCHANGED PollsOf("dropped")
      BY <1>9, <1>10, <2>2
    <3>2. Ledger!Deliver(q)
      BY <1>8, <2>1, <3>1, Zenon DEF Ledger!Deliver, Parcels, Outcome
    <3> QED
      BY <2>1, <3>2, LedgerNextIs
  <2>3. CASE result = "dropped"
    <3>1. PollsOf("dropped")' = PollsOf("dropped") \union mine /\ UNCHANGED PollsOf("sent")
      BY <1>9, <1>10, <2>3
    <3>2. Ledger!GiveUp(q)
      BY <1>8, <2>1, <3>1, Zenon DEF Ledger!GiveUp, Parcels, Outcome
    <3> QED
      BY <2>1, <3>2, LedgerNextIs
  <2> QED
    BY <2>2, <2>3
<1> QED
  BY <1>11, <1>12

\* The other steps move no poll.
LEMMA QuietLedger ==
  ASSUME UNCHANGED <<counters, batches, outcome>>
  PROVE  UNCHANGED Ledger!ledger
<1>1. UNCHANGED <<counters, Parcels, PollsOf("sent"), PollsOf("dropped")>>
  BY DEF Parcels, Outcome, PollsOf
<1> QED
  BY <1>1, Zenon DEF Ledger!ledger, Parcels, Outcome

LEMMA NextLedger ==
  ASSUME IInv, PollsInv, [Next]_vars
  PROVE  Ledger!Next \/ UNCHANGED Ledger!ledger
<1>1. CASE CountPoll \/ (SnapshotCounters /\ ~UNCHANGED batches)
  BY <1>1, CountPollLedger, SnapshotCountersLedger
<1>2. CASE SnapshotCounters /\ UNCHANGED batches
  <2>1. UNCHANGED <<counters, batches, outcome>>
    BY <1>2, AppendProperties, LenProperties
       DEF SnapshotCounters, ClearCounters, delivery, IInv, TypeOK
  <2> QED
    BY <2>1, QuietLedger
<1>3. ASSUME NEW w \in Workers, CallReturns(w) \/ AbortRetry(w)
      PROVE  Ledger!Next \/ UNCHANGED Ledger!ledger
  <2>1. PICK result \in {"sent", "dropped"} :
          worker[w].pc \in {"call", "wait"} /\ Settle(w, result)
    BY <1>3 DEF CallReturns, AbortRetry
  <2>2. UNCHANGED <<batches, counters>>
    BY <1>3 DEF CallReturns, AbortRetry, store
  <2> QED
    BY <2>1, <2>2, SettleLedger
<1>4. CASE \/ CollectRuntime \/ SetRandom \/ CollectorStops \/ CollectSystem \/ SystemStops
           \/ SnapshotGauges(FALSE) \/ SnapshotGauges(TRUE) \/ Enqueue
           \/ Signal \/ Stopping \/ Terminated \/ UNCHANGED vars
           \/ \E w \in Workers : TakeJob(w) \/ WorkerStops(w) \/ NetworkFails(w) \/ Retry(w)
  <2>1. UNCHANGED <<counters, batches, outcome>>
    BY <1>4 DEF CollectRuntime, SetRandom, CollectorStops, CollectSystem, SystemStops,
       SnapshotGauges, Enqueue, Signal, Stopping, Cancel, CloseJobs, WorkersDone, Exit,
       ForcedExit, Terminated, vars, store, delivery, TakeJob, WorkerStops, NetworkFails, Retry
  <2> QED
    BY <2>1, QuietLedger
<1> QED
  BY <1>1, <1>2, <1>3, <1>4 DEF Next, Collecting, Sending, Working

\* Seen through its polls the agent is the ledger.
THEOREM AgentImplementsLedger == Spec => ImplementsLedger
<1>1. Init => PollsInv
  BY AgentAssumption, EmptySeq DEF Init, PollsInv, PollsAreInOnePlace, Counted
<1>2. Init => Ledger!Init
  <2> SUFFICES ASSUME Init PROVE Ledger!Init
    OBVIOUS
  <2>1. counters = {} /\ Len(batches) = 0
    BY DEF Init
  <2>2. 1..Len(batches) = {}
    BY <2>1
  <2> QED
    BY <2>1, <2>2 DEF Ledger!Init, PollsOf
<1>3. IInv /\ PollsInv /\ [Next]_vars => [Ledger!Next]_Ledger!ledger
  BY NextLedger
<1> QED
  BY <1>1, <1>2, <1>3, InitIInv, NextIInv, NextPolls, PTL DEF Spec, ImplementsLedger, Ledger!Spec

-----------------------------------------------------------------------------
(* The shutdown is never stuck.                                             *)

\* What each goroutine waits for when the context is cancelled.
CollectorGoes == collector # "exited" \/ system = "select"

SenderGoes ==
  \/ sender.pc = "select" /\ Len(batches) < MaxBatches
  \/ sender.pc = "counters"
  \/ sender.pc = "enqueue" /\ Len(jobs) < RateLimit

WorkerGoes(w) ==
  \/ worker[w].pc \in {"call", "wait"}
  \/ worker[w].pc = "idle" /\ (jobs # <<>> \/ Closed)

ShutdownGoes ==
  \/ shutdown = "producers" /\ ProducersDone
  \/ shutdown = "workers" /\ \A w \in Workers : worker[w].pc = "exited"
  \/ shutdown = "done"

NeverStuck ==
  main = "stopping" =>
    CollectorGoes \/ SenderGoes \/ ShutdownGoes \/ \E w \in Workers : WorkerGoes(w)

\* After the signal and until the process ends one of its goroutines can always
\* go on: the sender blocked on a full channel has a worker that will take from
\* it, and the workers are waited for only when the channel is closed.
THEOREM AgentNeverStuck ==
  ASSUME Workers # {}
  PROVE  Spec => []NeverStuck
<1>1. RateLimit \in Nat /\ RateLimit > 0
  BY RateLimitType, FS_EmptySet, AgentAssumption DEF RateLimit
<1>2. ASSUME IInv, main = "stopping", ~CollectorGoes, ~SenderGoes,
             \A w \in Workers : ~WorkerGoes(w)
      PROVE  ShutdownGoes
  <2>1. collector = "exited" /\ system = "exited"
    BY <1>2 DEF CollectorGoes, IInv, TypeOK
  <2>2. CASE sender.pc = "exited"
    <3>1. ProducersDone
      BY <2>1, <2>2 DEF ProducersDone
    <3>2. Closed => \A w \in Workers : worker[w].pc = "exited"
      BY <1>2 DEF WorkerGoes, IInv, TypeOK
    <3>3. shutdown \in {"producers", "workers", "done"}
      BY <1>2 DEF IInv, TypeOK, ControlInv
    <3> QED
      BY <3>1, <3>2, <3>3 DEF ShutdownGoes, Closed
  <2>3. CASE sender.pc = "enqueue"
    <3>1. PICK w \in Workers : TRUE
      OBVIOUS
    <3>2. Len(jobs) # 0 /\ ~Closed
      BY <1>1, <1>2, <2>3 DEF SenderGoes, IInv, TypeOK, ControlInv
    <3>3. jobs # <<>>
      BY <3>2, EmptySeq
    <3> QED
      BY <1>2, <3>2, <3>3 DEF WorkerGoes, IInv, TypeOK, WorkerInv
  <2> QED
    BY <1>2, <2>2, <2>3 DEF SenderGoes, IInv, TypeOK, ControlInv
<1>3. IInv => NeverStuck
  BY <1>2 DEF NeverStuck
<1> QED
  BY <1>3, InitIInv, NextIInv, PTL DEF Spec
=============================================================================
