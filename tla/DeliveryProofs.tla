--------------------------- MODULE DeliveryProofs ---------------------------
(***************************************************************************)
(* Proofs about the delivery, for any number of workers, retry delays and  *)
(* bounds, over the invariant of the agent.                                *)
(***************************************************************************)
EXTENDS Delivery, AgentProofs

-----------------------------------------------------------------------------
(* A step of the delivery is a step of the agent or leaves it alone.        *)

LEMMA StepIsAgents == [DeliveryNext]_deliveryVars => [Next]_vars
<1> SUFFICES ASSUME [DeliveryNext]_deliveryVars PROVE Next \/ UNCHANGED vars
  OBVIOUS
<1>1. ASSUME NEW w \in Workers,
             \/ PostJob(w) \/ PostAgain(w) \/ CallSucceeds(w)
             \/ CallRefused(w) \/ CallFails(w) \/ ConnectionBreaks(w)
      PROVE  Working(w)
  BY <1>1 DEF PostJob, PostAgain, CallSucceeds, CallRefused, FinalError, CallFails,
     ConnectionBreaks, Working
<1>2. CASE Other
  BY <1>2 DEF Other, Next, Working
<1>3. CASE Ended \/ UNCHANGED deliveryVars \/ \E q \in Requests : Apply(q)
  BY <1>3 DEF Ended, Apply, deliveryVars
<1> QED
  BY <1>1, <1>2, <1>3 DEF DeliveryNext, Next

LEMMA DeliveryKeepsIInv ==
  /\ DeliveryInit => IInv
  /\ IInv /\ [DeliveryNext]_deliveryVars => IInv'
BY StepIsAgents, InitIInv, NextIInv DEF DeliveryInit

\* The delivery refines the agent: the network and the server take nothing
\* from it and add nothing to what it may do.
THEOREM DeliveryIsAgent == DeliverySpec => Spec
<1>1. DeliveryInit => Init
  BY DEF DeliveryInit
<1> QED
  BY <1>1, StepIsAgents, PTL DEF DeliverySpec, Spec

-----------------------------------------------------------------------------
(* The inductive invariant.                                                 *)

\* A batch has been sent once a worker holds it.
CallInv == \A w \in Workers : worker[w].batch # 0 => calls[worker[w].batch] # 0

\* An answer heard settles the batch, so it belongs to its last call.
HeardInv ==
  \A q \in Requests : net[q] = "heard" => Settled(q[1]) /\ q[2] = calls[q[1]]

\* A request is applied after it was sent and before it is answered with 200.
AnswerInv ==
  \A q \in Requests : /\ net[q] = "200" => q \in applied
                      /\ q \in applied => net[q] # "unsent"

NetInv == DeliveryTypeOK /\ CallInv /\ HeardInv /\ AnswerInv /\ SentIsApplied

LEMMA InitNetInv == DeliveryInit => NetInv
<1> SUFFICES ASSUME DeliveryInit PROVE NetInv
  OBVIOUS
<1> USE DEF DeliveryInit, Init, Requests
<1>1. DeliveryTypeOK
  BY DEF DeliveryTypeOK
<1>2. CallInv /\ HeardInv /\ AnswerInv /\ SentIsApplied
  BY DEF CallInv, HeardInv, AnswerInv, SentIsApplied
<1> QED
  BY <1>1, <1>2 DEF NetInv

\* A batch a worker holds is one of those formed, not settled, and under way.
LEMMA HeldFacts ==
  ASSUME IInv, NetInv, NEW w \in Workers, worker[w].pc \in {"call", "wait"}
  PROVE  /\ worker[w].batch \in Batches
         /\ ~Settled(worker[w].batch)
         /\ calls[worker[w].batch] \in 1..Delays + 1
         /\ Current(w) \in Requests
         /\ net[Current(w)] # "unsent"
<1>1. worker[w].batch # 0 /\ worker[w].batch \in Batches
  BY AgentAssumption DEF IInv, TypeOK, WorkerInv, Batches
<1>2. ~Settled(worker[w].batch)
  BY <1>1 DEF IInv, BatchesAreInOnePlace, Held
<1>3. calls[worker[w].batch] \in 1..Delays + 1
  BY <1>1, AgentAssumption DEF IInv, TypeOK, NetInv, CallInv
<1>4. /\ Current(w) \in Requests
      /\ Current(w)[1] = worker[w].batch
      /\ Current(w)[2] = calls[worker[w].batch]
  BY <1>1, <1>3 DEF Current, Requests
<1>5. net[Current(w)] # "unsent"
  BY <1>3, <1>4 DEF NetInv, DeliveryTypeOK
<1> QED
  BY <1>1, <1>2, <1>3, <1>4, <1>5

\* The batch at the head of the channel is new.
LEMMA HeadFacts ==
  ASSUME IInv, jobs # <<>>
  PROVE  /\ Head(jobs) \in Batches
         /\ Queued(Head(jobs)) /\ ~Held(Head(jobs)) /\ ~Settled(Head(jobs))
         /\ calls[Head(jobs)] = 0
         /\ Head(jobs) = jobs[1] /\ 1 \in 1..Len(jobs)
<1>1. jobs \in Seq(1..Len(batches)) /\ Len(batches) \in 0..MaxBatches
  BY DEF IInv, TypeOK
<1>2. Head(jobs) \in 1..Len(batches) /\ Head(jobs) = jobs[1]
  BY <1>1, HeadTailProperties
<1>3. Len(jobs) \in Nat /\ Len(jobs) # 0
  BY <1>1, LenProperties, EmptySeq
<1>4. Head(jobs) \in Batches /\ Queued(Head(jobs))
  BY <1>1, <1>2, <1>3, AgentAssumption DEF Queued, Batches
<1>5. ~Held(Head(jobs)) /\ ~Settled(Head(jobs))
  BY <1>4 DEF IInv, BatchesAreInOnePlace
<1> QED
  BY <1>2, <1>3, <1>4, <1>5 DEF IInv, FreshInv

\* A call: the batch goes out once more.
LEMMA PostNetInv ==
  ASSUME IInv, NetInv, NEW b \in Batches, NEW w \in Workers,
         calls[b] <= Delays, ~Settled(b), Call(w, b), Post(b),
         UNCHANGED <<outcome, applied>>, beside' \subseteq Batches \X Batches
  PROVE  NetInv'
<1> DEFINE q == <<b, calls[b] + 1>>
<1>1. /\ calls' = [calls EXCEPT ![b] = @ + 1]
      /\ worker' = [worker EXCEPT ![w] = [pc |-> "call", batch |-> b]]
      /\ calls[b] \in Nat /\ calls'[b] = calls[b] + 1
      /\ \A c \in Batches : c # b => calls'[c] = calls[c]
  BY AgentAssumption DEF Call, IInv, TypeOK
<1>2. q \in Requests /\ net' = [net EXCEPT ![q] = "travels"]
  <2>1. calls[b] + 1 \in 1..Delays + 1
    BY <1>1, AgentAssumption
  <2>2. <<b, calls'[b]>> = q
    BY <1>1
  <2> QED
    BY <2>1, <2>2 DEF Post, Requests
<1>3. /\ net'[q] = "travels"
      /\ \A r \in Requests : r # q => net'[r] = net[r]
      /\ net' \in [Requests -> {"unsent", "travels", "200", "error", "heard", "lost"}]
  BY <1>2 DEF NetInv, DeliveryTypeOK
<1>4. net[q] = "unsent"
  BY <1>1, <1>2 DEF NetInv, DeliveryTypeOK
<1>5. DeliveryTypeOK'
  <2>1. ASSUME NEW r \in Requests PROVE net'[r] # "unsent" <=> r[2] <= calls'[r[1]]
    <3>1. /\ r[1] \in Batches /\ r[2] \in Nat /\ r = <<r[1], r[2]>>
      BY AgentAssumption DEF Requests
    <3>2. net[r] # "unsent" <=> r[2] <= calls[r[1]]
      BY DEF NetInv, DeliveryTypeOK
    <3> QED
      BY <1>1, <1>3, <1>4, <3>1, <3>2
  <2> QED
    BY <1>3, <2>1 DEF NetInv, DeliveryTypeOK
<1>6. CallInv'
  BY <1>1 DEF CallInv, NetInv, IInv, TypeOK
<1>7. HeardInv'
  <2>1. ASSUME NEW r \in Requests, net'[r] = "heard"
        PROVE  Settled(r[1])' /\ r[2] = calls'[r[1]]
    <3>1. r[1] \in Batches /\ net[r] = "heard"
      BY <2>1, <1>3 DEF Requests
    <3>2. Settled(r[1]) /\ r[2] = calls[r[1]]
      BY <3>1 DEF NetInv, HeardInv
    <3> QED
      BY <3>1, <3>2, <1>1 DEF Settled
  <2> QED
    BY <2>1 DEF HeardInv
<1>8. AnswerInv'
  BY <1>3 DEF NetInv, AnswerInv
<1>9. SentIsApplied'
  BY DEF NetInv, SentIsApplied, Applied
<1> QED
  BY <1>5, <1>6, <1>7, <1>8, <1>9 DEF NetInv

\* An answer, or its loss: the request stays sent, and is heard only by the
\* call that settles its batch.
LEMMA AnswerNetInv ==
  ASSUME IInv, NetInv, NEW w \in Workers, worker[w].pc = "call",
         NEW v \in {"travels", "heard", "lost"},
         net' = [net EXCEPT ![Current(w)] = v],
         v = "heard" => outcome'[worker[w].batch] # "none",
         UNCHANGED <<calls, applied, beside>>,
         \A u \in Workers : worker'[u].batch \in {0, worker[u].batch},
         \A b \in Batches : Settled(b) => outcome'[b] = outcome[b],
         \A b \in Batches : outcome'[b] = "sent" => outcome[b] = "sent" \/ Applied(b)
  PROVE  NetInv'
<1>1. /\ Current(w) \in Requests /\ net[Current(w)] # "unsent"
      /\ Current(w)[1] = worker[w].batch
      /\ Current(w)[2] = calls[worker[w].batch]
  BY HeldFacts DEF Current
<1>2. /\ net'[Current(w)] = v
      /\ \A r \in Requests : r # Current(w) => net'[r] = net[r]
      /\ net' \in [Requests -> {"unsent", "travels", "200", "error", "heard", "lost"}]
  BY <1>1 DEF NetInv, DeliveryTypeOK
<1>3. DeliveryTypeOK'
  <2>1. ASSUME NEW r \in Requests PROVE net'[r] # "unsent" <=> r[2] <= calls'[r[1]]
    <3>1. net[r] # "unsent" <=> r[2] <= calls[r[1]]
      BY DEF NetInv, DeliveryTypeOK
    <3> QED
      BY <1>1, <1>2, <3>1
  <2> QED
    BY <1>2, <2>1 DEF NetInv, DeliveryTypeOK
<1>4. CallInv'
  BY DEF NetInv, CallInv
<1>5. HeardInv'
  <2>1. ASSUME NEW r \in Requests, net'[r] = "heard"
        PROVE  outcome'[r[1]] # "none" /\ r[2] = calls'[r[1]]
    <3>1. CASE r = Current(w)
      BY <3>1, <2>1, <1>1, <1>2
    <3>2. CASE r # Current(w)
      <4>1. r[1] \in Batches /\ Settled(r[1]) /\ r[2] = calls[r[1]]
        BY <3>2, <2>1, <1>2 DEF NetInv, HeardInv, Requests
      <4> QED
        BY <4>1 DEF Settled
    <3> QED
      BY <3>1, <3>2
  <2> QED
    BY <2>1 DEF HeardInv, Settled
<1>6. AnswerInv'
  BY <1>1, <1>2 DEF NetInv, AnswerInv
<1>7. SentIsApplied'
  BY DEF NetInv, SentIsApplied, Applied
<1> QED
  BY <1>3, <1>4, <1>5, <1>6, <1>7 DEF NetInv

\* The server applies a request the agent may have stopped waiting for.
LEMMA ApplyNetInv ==
  ASSUME IInv, NetInv, NEW q \in Requests, Apply(q)
  PROVE  NetInv'
<1>1. PICK a \in {"200", "error", "lost"} : net' = [net EXCEPT ![q] = a]
  BY DEF Apply
<1>2. /\ applied' = applied \union {q} /\ net[q] = "travels"
      /\ UNCHANGED <<worker, calls, outcome, beside>>
  BY DEF Apply, vars, delivery
<1>3. /\ net'[q] = a
      /\ \A r \in Requests : r # q => net'[r] = net[r]
      /\ net' \in [Requests -> {"unsent", "travels", "200", "error", "heard", "lost"}]
  BY <1>1 DEF NetInv, DeliveryTypeOK
<1>4. DeliveryTypeOK'
  BY <1>2, <1>3 DEF NetInv, DeliveryTypeOK
<1>5. CallInv' /\ HeardInv'
  BY <1>2, <1>3 DEF NetInv, CallInv, HeardInv, Settled
<1>6. AnswerInv'
  BY <1>2, <1>3 DEF NetInv, AnswerInv
<1>7. SentIsApplied'
  BY <1>2 DEF NetInv, SentIsApplied, Applied
<1> QED
  BY <1>4, <1>5, <1>6, <1>7 DEF NetInv

\* What the other goroutines do concerns neither a call nor the network.
LEMMA OtherNetInv ==
  ASSUME IInv, NetInv, Other \/ Ended \/ UNCHANGED deliveryVars
  PROVE  NetInv'
<1>1. UNCHANGED <<net, applied, beside>>
  BY DEF Other, Ended, deliveryVars
<1>2. CASE UNCHANGED delivery
  BY <1>1, <1>2 DEF delivery, NetInv, DeliveryTypeOK, CallInv, HeardInv, Settled, AnswerInv,
     SentIsApplied, Applied
<1>3. ASSUME NEW w \in Workers, WorkerStops(w) \/ AbortRetry(w)
      PROVE  NetInv'
  <2>1. /\ calls' = calls
        /\ \A u \in Workers : worker'[u].batch \in {0, worker[u].batch}
    <3>1. worker \in [Workers -> [pc : {"idle", "call", "wait", "exited"}, batch : 0..Len(batches)]]
      BY DEF IInv, TypeOK
    <3>2. CASE WorkerStops(w)
      BY <3>1, <3>2 DEF WorkerStops
    <3>3. CASE AbortRetry(w)
      BY <3>1, <3>3 DEF AbortRetry, Settle
    <3> QED
      BY <1>3, <3>2, <3>3
  <2>2. \A b \in Batches : Settled(b) => outcome'[b] # "none"
    BY <1>3 DEF WorkerStops, AbortRetry, Settle, IInv, TypeOK, Settled
  <2>3. \A b \in Batches : outcome'[b] = "sent" => outcome[b] = "sent"
    BY <1>3 DEF WorkerStops, AbortRetry, Settle, IInv, TypeOK
  <2>4. DeliveryTypeOK' /\ CallInv' /\ AnswerInv'
    BY <1>1, <2>1 DEF NetInv, DeliveryTypeOK, CallInv, AnswerInv
  <2>5. HeardInv'
    BY <1>1, <2>1, <2>2 DEF NetInv, HeardInv, Requests, Settled
  <2>6. SentIsApplied'
    BY <1>1, <2>3 DEF NetInv, SentIsApplied, Applied
  <2> QED
    BY <2>4, <2>5, <2>6 DEF NetInv
<1>4. CASE Collecting \/ Sending \/ Signal \/ Stopping \/ Ended \/ UNCHANGED deliveryVars
  <2>1. UNCHANGED delivery
    BY <1>4 DEF Collecting, CollectRuntime, CountPoll, SetRandom, CollectorStops, CollectSystem,
       SystemStops, Sending, SnapshotGauges, SnapshotCounters, Enqueue, Signal, Stopping, Cancel,
       CloseJobs, WorkersDone, Exit, ForcedExit, Ended, deliveryVars, vars, delivery
  <2> QED
    BY <2>1, <1>2
<1> QED
  BY <1>3, <1>4 DEF Other

LEMMA NextNetInv == IInv /\ NetInv /\ [DeliveryNext]_deliveryVars => NetInv'
<1> SUFFICES ASSUME IInv, NetInv, [DeliveryNext]_deliveryVars PROVE NetInv'
  OBVIOUS
<1>1. ASSUME NEW w \in Workers, PostJob(w) PROVE NetInv'
  <2>1. jobs # <<>> /\ Call(w, Head(jobs)) /\ Post(Head(jobs)) /\ UNCHANGED <<outcome, applied>>
    BY <1>1 DEF PostJob, TakeJob
  <2>2. Head(jobs) \in Batches /\ ~Settled(Head(jobs)) /\ calls[Head(jobs)] <= Delays
    BY <2>1, HeadFacts, AgentAssumption
  <2>3. beside' = beside \union {<<b, Head(jobs)>> : b \in HeldBatches}
    BY <1>1 DEF PostJob
  <2>4. HeldBatches \subseteq Batches
    BY AgentAssumption DEF HeldBatches, IInv, TypeOK, Batches
  <2>5. beside' \subseteq Batches \X Batches
    BY <2>2, <2>3, <2>4 DEF NetInv, DeliveryTypeOK
  <2> QED
    BY <2>1, <2>2, <2>5, PostNetInv
<1>2. ASSUME NEW w \in Workers, PostAgain(w) PROVE NetInv'
  <2>1. /\ worker[w].pc = "wait"
        /\ Call(w, worker[w].batch) /\ Post(worker[w].batch)
        /\ UNCHANGED <<outcome, applied, beside>>
    BY <1>2 DEF PostAgain, Retry
  <2>2. worker[w].batch \in Batches /\ ~Settled(worker[w].batch)
    BY <2>1, HeldFacts
  <2>3. calls[worker[w].batch] <= Delays /\ beside' \subseteq Batches \X Batches
    BY <2>1 DEF IInv, WorkerInv, NetInv, DeliveryTypeOK
  <2> QED
    BY <2>1, <2>2, <2>3, PostNetInv
<1>3. ASSUME NEW w \in Workers, CallSucceeds(w) \/ CallRefused(w) \/ CallFails(w)
      PROVE  NetInv'
  <2> DEFINE b == worker[w].batch
  <2>1. PICK result \in {"sent", "dropped"} : worker[w].pc = "call" /\ Settle(w, result)
    BY <1>3 DEF CallSucceeds, CallRefused, FinalError, CallFails, CallReturns
  <2>2. b \in Batches /\ ~Settled(b) /\ Current(w) \in Requests
    BY <2>1, HeldFacts
  <2>3. UNCHANGED <<calls, applied, beside>>
    BY <1>3 DEF CallSucceeds, CallRefused, FinalError, CallFails, CallReturns, Hear, LoseAnswer
  <2>4. \A u \in Workers : worker'[u].batch \in {0, worker[u].batch}
    BY <2>1 DEF Settle, IInv, TypeOK
  <2>5. outcome'[b] = result /\ \A c \in Batches : c # b => outcome'[c] = outcome[c]
    BY <2>1, <2>2 DEF Settle, IInv, TypeOK
  <2>6. \A c \in Batches : Settled(c) => outcome'[c] = outcome[c]
    BY <2>2, <2>5
  <2>7. result = "sent" => Applied(b)
    <3>1. result = "sent" => net[Current(w)] = "200"
      BY <1>3, <2>5 DEF CallSucceeds, Accepted, CallRefused, FinalError, CallFails
    <3>2. net[Current(w)] = "200" => Current(w) \in applied
      BY <2>2 DEF NetInv, AnswerInv
    <3> QED
      BY <3>1, <3>2 DEF Applied, Current
  <2>8. \A c \in Batches : outcome'[c] = "sent" => outcome[c] = "sent" \/ Applied(c)
    BY <2>5, <2>7
  <2>9. PICK v \in {"travels", "heard", "lost"} : net' = [net EXCEPT ![Current(w)] = v]
    BY <1>3 DEF CallSucceeds, CallRefused, CallFails, Hear, LoseAnswer
  <2> QED
    BY <2>1, <2>3, <2>4, <2>5, <2>6, <2>8, <2>9, AnswerNetInv
<1>4. ASSUME NEW w \in Workers, ConnectionBreaks(w) PROVE NetInv'
  <2>1. worker[w].pc = "call" /\ UNCHANGED <<calls, outcome, applied, beside>>
    BY <1>4 DEF ConnectionBreaks, NetworkFails, LoseAnswer
  <2>2. \A u \in Workers : worker'[u].batch \in {0, worker[u].batch}
    BY <1>4 DEF ConnectionBreaks, NetworkFails, IInv, TypeOK
  <2>3. PICK v \in {"travels", "lost"} : net' = [net EXCEPT ![Current(w)] = v]
    BY <1>4 DEF ConnectionBreaks, LoseAnswer
  <2> QED
    BY <2>1, <2>2, <2>3, AnswerNetInv
<1> QED
  BY <1>1, <1>2, <1>3, <1>4, ApplyNetInv, OtherNetInv DEF DeliveryNext

DeliveryInv == IInv /\ NetInv

LEMMA DeliveryInvariant == DeliverySpec => []DeliveryInv
<1>1. DeliveryInit => DeliveryInv
  BY DeliveryKeepsIInv, InitNetInv DEF DeliveryInv
<1>2. DeliveryInv /\ [DeliveryNext]_deliveryVars => DeliveryInv'
  BY DeliveryKeepsIInv, NextNetInv DEF DeliveryInv
<1> QED
  BY <1>1, <1>2, PTL DEF DeliverySpec

-----------------------------------------------------------------------------
(* The theorems.                                                            *)

\* Every call made has sent exactly one request, numbered by the call.
THEOREM DeliveryTypeCorrect == DeliverySpec => []DeliveryTypeOK
<1>1. DeliveryInv => DeliveryTypeOK
  BY DEF DeliveryInv, NetInv
<1> QED
  BY <1>1, DeliveryInvariant, PTL

\* A batch SendBatch reports as sent has been applied by the store.
THEOREM DeliverySentIsApplied == DeliverySpec => []SentIsApplied
<1>1. DeliveryInv => SentIsApplied
  BY DEF DeliveryInv, NetInv
<1> QED
  BY <1>1, DeliveryInvariant, PTL

\* A batch is applied twice only when the answer to its first request was lost.
THEOREM DeliveryRepeats == DeliverySpec => []RepeatsFollowLostAnswers
<1>1. ASSUME DeliveryInv, NEW p \in applied, NEW q \in applied, p[1] = q[1], p[2] < q[2]
      PROVE  net[p] # "heard"
  <2>1. p \in Requests /\ q \in Requests
    BY <1>1 DEF DeliveryInv, NetInv, DeliveryTypeOK
  <2>2. q[2] <= calls[q[1]]
    BY <1>1, <2>1 DEF DeliveryInv, NetInv, DeliveryTypeOK, AnswerInv
  <2>3. p[2] \in Nat /\ q[2] \in Nat /\ q[1] \in Batches
    BY <2>1, AgentAssumption DEF Requests
  <2>4. calls[q[1]] \in Nat
    BY <1>1, <2>3, AgentAssumption DEF DeliveryInv, IInv, TypeOK
  <2>5. p[2] # calls[p[1]]
    BY <1>1, <2>2, <2>3, <2>4
  <2> QED
    BY <1>1, <2>1, <2>5 DEF DeliveryInv, NetInv, HeardInv
<1>2. DeliveryInv => RepeatsFollowLostAnswers
  BY <1>1 DEF RepeatsFollowLostAnswers
<1> QED
  BY <1>2, DeliveryInvariant, PTL

\* After a graceful exit every counted poll has an account: it is in PollCount
\* on the server, reported as lost, or left in LocalMetrics.
THEOREM DeliveryCountsPolls == DeliverySpec => []ServerCountsPolls
<1>1. DeliverySpec => [](PollsAreInOnePlace /\ GracefulExitDrains)
  BY DeliveryIsAgent, AgentKeepsPolls, AgentExitDrains, PTL
<1>2. ASSUME DeliveryInv, PollsAreInOnePlace, GracefulExitDrains, main = "exited",
             NEW p \in Counted
      PROVE  p \in OnServer \union PollsOf("dropped") \union counters
  <2>1. p \in 1..MaxPolls
    BY <1>2, AgentAssumption DEF DeliveryInv, IInv, TypeOK, Counted, ControlInv
  <2>2. CASE p \in counters
    BY <2>2
  <2>3. CASE \E b \in 1..Len(batches) : p \in batches[b].polls
    <3>1. PICK b \in 1..Len(batches) : p \in batches[b].polls
      BY <2>3
    <3>2. b \in Batches /\ Settled(b)
      BY <1>2, AgentAssumption DEF DeliveryInv, IInv, TypeOK, Batches, GracefulExitDrains
    <3>3. outcome[b] = "sent" \/ outcome[b] = "dropped"
      BY <1>2, <3>2 DEF DeliveryInv, IInv, TypeOK, Settled
    <3>4. CASE outcome[b] = "sent"
      BY <1>2, <3>1, <3>2, <3>4
         DEF DeliveryInv, NetInv, SentIsApplied, Applied, OnServer
    <3>5. CASE outcome[b] = "dropped"
      BY <3>1, <3>5 DEF PollsOf
    <3> QED
      BY <3>3, <3>4, <3>5
  <2> QED
    BY <1>2, <2>1, <2>2, <2>3 DEF PollsAreInOnePlace
<1>3. DeliveryInv /\ PollsAreInOnePlace /\ GracefulExitDrains => ServerCountsPolls
  BY <1>2 DEF ServerCountsPolls
<1> QED
  BY <1>1, <1>3, DeliveryInvariant, PTL

-----------------------------------------------------------------------------
(* The order of the batches.                                                *)

\* The channel is in the order of the batches, behind all that were taken.
FifoInv ==
  /\ \A i, j \in 1..Len(jobs) : i < j => jobs[i] < jobs[j]
  /\ \A n \in Batches : calls[n] > 0 => \A i \in 1..Len(jobs) : n < jobs[i]

\* A worker that holds a batch while a newer one goes out was beside it.
BesideInv ==
  \A b, n \in Batches : Held(b) /\ b < n /\ calls[n] > 0 => <<b, n>> \in beside

\* The batch the sender offers is newer than all others.
LEMMA OfferedIsNewest ==
  ASSUME IInv, sender.pc = "enqueue"
  PROVE  /\ \A i \in 1..Len(jobs) : jobs[i] < Len(batches)
         /\ \A n \in Batches : calls[n] > 0 => n < Len(batches)
<1>1. Len(batches) \in Batches /\ Offered(Len(batches))
  BY AgentAssumption DEF IInv, TypeOK, ControlInv, Batches, Offered
<1>2. ~Queued(Len(batches)) /\ ~Held(Len(batches)) /\ ~Settled(Len(batches))
  BY <1>1 DEF IInv, BatchesAreInOnePlace
<1>3. ASSUME NEW i \in 1..Len(jobs) PROVE jobs[i] < Len(batches)
  <2>1. jobs \in Seq(1..Len(batches)) /\ Len(batches) \in Nat
    BY DEF IInv, TypeOK
  <2>2. jobs[i] \in 1..Len(batches)
    BY <2>1, ElementOfSeq
  <2>3. jobs[i] # Len(batches)
    BY <1>2 DEF Queued
  <2> QED
    BY <2>1, <2>2, <2>3
<1>4. ASSUME NEW n \in Batches, calls[n] > 0 PROVE n < Len(batches)
  <2>1. Held(n) \/ Settled(n)
    BY <1>4 DEF IInv, FreshInv
  <2>2. n <= Len(batches) /\ n # Len(batches)
    BY <2>1, <1>2 DEF IInv, BatchesAreInOnePlace
  <2>3. n \in Nat /\ Len(batches) \in Nat
    BY AgentAssumption DEF IInv, TypeOK, Batches
  <2> QED
    BY <2>2, <2>3
<1> QED
  BY <1>3, <1>4

LEMMA EnqueueOrder ==
  ASSUME IInv, FifoInv, Enqueue
  PROVE  FifoInv'
<1>1. /\ sender.pc = "enqueue" /\ jobs' = Append(jobs, Len(batches)) /\ UNCHANGED calls
      /\ jobs \in Seq(1..Len(batches)) /\ Len(batches) \in 1..Len(batches)
  BY DEF Enqueue, Send, delivery, IInv, TypeOK, ControlInv
<1>2. /\ Len(jobs') = Len(jobs) + 1 /\ Len(jobs) \in Nat
      /\ \A i \in 1..Len(jobs) : jobs'[i] = jobs[i]
      /\ jobs'[Len(jobs) + 1] = Len(batches)
  BY <1>1, AppendProperties, LenProperties
<1>3. \A i \in 1..Len(jobs') : i \in 1..Len(jobs) \/ i = Len(jobs) + 1
  BY <1>2
<1>4. ASSUME NEW i \in 1..Len(jobs'), NEW j \in 1..Len(jobs'), i < j
      PROVE  jobs'[i] < jobs'[j]
  <2>1. i \in 1..Len(jobs)
    BY <1>2, <1>4
  <2>2. CASE j \in 1..Len(jobs)
    BY <1>2, <1>4, <2>1, <2>2 DEF FifoInv
  <2>3. CASE j = Len(jobs) + 1
    BY <1>1, <1>2, <2>1, <2>3, OfferedIsNewest
  <2> QED
    BY <1>3, <2>2, <2>3
<1>5. ASSUME NEW n \in Batches, calls'[n] > 0, NEW i \in 1..Len(jobs')
      PROVE  n < jobs'[i]
  BY <1>1, <1>2, <1>3, <1>5, OfferedIsNewest DEF FifoInv
<1> QED
  BY <1>4, <1>5 DEF FifoInv

\* The batch taken is older than all that wait and newer than all taken.
LEMMA PostJobOrder ==
  ASSUME IInv, FifoInv, BesideInv, NEW w \in Workers, PostJob(w)
  PROVE  FifoInv' /\ BesideInv'
<1> DEFINE m == Head(jobs)
<1>1. /\ jobs # <<>> /\ jobs' = Tail(jobs)
      /\ worker[w].pc = "idle"
      /\ calls' = [calls EXCEPT ![m] = @ + 1]
      /\ worker' = [worker EXCEPT ![w] = [pc |-> "call", batch |-> m]]
      /\ beside' = beside \union {<<b, m>> : b \in HeldBatches}
  BY DEF PostJob, TakeJob, Call
<1>2. /\ jobs \in Seq(1..Len(batches))
      /\ Len(jobs') = Len(jobs) - 1 /\ Len(jobs) \in Nat
      /\ \A i \in 1..Len(jobs') : jobs'[i] = jobs[i + 1]
      /\ m \in Batches /\ m = jobs[1] /\ 1 \in 1..Len(jobs)
  BY <1>1, HeadFacts, HeadTailProperties, LenProperties DEF IInv, TypeOK
<1>3. \A c \in Batches : c # m => calls'[c] = calls[c]
  BY <1>1 DEF IInv, TypeOK
<1>4. \A c \in Batches : Held(c)' => Held(c) \/ c = m
  BY <1>1 DEF IInv, TypeOK, Held
<1>5. \A c \in Batches : Held(c) => c \in HeldBatches
  BY AgentAssumption DEF Held, HeldBatches, Batches
<1>6. \A i \in 1..Len(jobs') : i + 1 \in 1..Len(jobs) /\ 1 < i + 1
  BY <1>2
<1>7. ASSUME NEW i \in 1..Len(jobs'), NEW j \in 1..Len(jobs'), i < j
      PROVE  jobs'[i] < jobs'[j]
  <2>1. i + 1 < j + 1
    BY <1>2, <1>7
  <2> QED
    BY <2>1, <1>2, <1>6 DEF FifoInv
<1>8. ASSUME NEW n \in Batches, calls'[n] > 0, NEW i \in 1..Len(jobs')
      PROVE  n < jobs'[i]
  BY <1>2, <1>3, <1>6, <1>8 DEF FifoInv
<1>9. ASSUME NEW b \in Batches, NEW n \in Batches, Held(b)', b < n, calls'[n] > 0
      PROVE  <<b, n>> \in beside'
  <2>1. b \in Nat /\ n \in Nat /\ m \in Nat
    BY <1>2, AgentAssumption DEF Batches
  <2>2. CASE n = m
    BY <1>1, <1>4, <1>5, <1>9, <2>1, <2>2
  <2>3. CASE n # m /\ b = m
    <3>1. n < m
      BY <1>2, <1>3, <1>9, <2>3 DEF FifoInv
    <3> QED
      BY <3>1, <2>1, <1>9, <2>3
  <2>4. CASE n # m /\ b # m
    BY <1>1, <1>3, <1>4, <1>9, <2>4 DEF BesideInv
  <2> QED
    BY <2>2, <2>3, <2>4
<1> QED
  BY <1>7, <1>8, <1>9 DEF FifoInv, BesideInv

\* Another call for a batch taken long ago.
LEMMA PostAgainOrder ==
  ASSUME IInv, NetInv, FifoInv, BesideInv, NEW w \in Workers, PostAgain(w)
  PROVE  FifoInv' /\ BesideInv'
<1> DEFINE m == worker[w].batch
<1>1. /\ worker[w].pc = "wait"
      /\ calls' = [calls EXCEPT ![m] = @ + 1]
      /\ worker' = [worker EXCEPT ![w] = [pc |-> "call", batch |-> m]]
      /\ UNCHANGED <<jobs, beside>>
  BY DEF PostAgain, Retry, Call
<1>2. m \in Batches /\ calls[m] \in 1..Delays + 1
  BY <1>1, HeldFacts
<1>3. \A c \in Batches : calls'[c] > 0 => calls[c] > 0
  BY <1>1, <1>2, AgentAssumption DEF IInv, TypeOK
<1>4. \A c \in Batches : Held(c)' => Held(c)
  BY <1>1 DEF IInv, TypeOK, Held
<1> QED
  BY <1>1, <1>3, <1>4 DEF FifoInv, BesideInv

LEMMA QuietOrder ==
  ASSUME FifoInv, BesideInv, UNCHANGED <<jobs, calls, beside>>,
         \A w \in Workers : worker'[w].batch \in {0, worker[w].batch}
  PROVE  FifoInv' /\ BesideInv'
<1>1. \A c \in Batches : Held(c)' => Held(c)
  BY AgentAssumption DEF Held, Batches
<1> QED
  BY <1>1 DEF FifoInv, BesideInv

LEMMA NextOrder ==
  ASSUME IInv, NetInv, FifoInv, BesideInv, [DeliveryNext]_deliveryVars
  PROVE  FifoInv' /\ BesideInv'
<1>1. CASE Other /\ Enqueue
  BY <1>1, EnqueueOrder DEF Other, Enqueue, delivery, BesideInv, Held
<1>2. ASSUME NEW w \in Workers,
             \/ CallSucceeds(w) \/ CallRefused(w) \/ CallFails(w) \/ ConnectionBreaks(w)
             \/ Other /\ (WorkerStops(w) \/ AbortRetry(w))
      PROVE  FifoInv' /\ BesideInv'
  <2>1. UNCHANGED <<jobs, calls, beside>>
    BY <1>2 DEF CallSucceeds, CallRefused, FinalError, CallFails, ConnectionBreaks, CallReturns,
       NetworkFails, Other, WorkerStops, AbortRetry, Hear, LoseAnswer
  <2>2. \/ worker' = [worker EXCEPT ![w] = [pc |-> "idle", batch |-> 0]]
        \/ worker' = [worker EXCEPT ![w].pc = "wait"]
        \/ worker' = [worker EXCEPT ![w].pc = "exited"]
    BY <1>2 DEF CallSucceeds, CallRefused, FinalError, CallFails, ConnectionBreaks, CallReturns,
       NetworkFails, WorkerStops, AbortRetry, Settle
  <2>3. worker \in [Workers -> [pc : {"idle", "call", "wait", "exited"}, batch : 0..Len(batches)]]
    BY DEF IInv, TypeOK
  <2>4. CASE worker' = [worker EXCEPT ![w] = [pc |-> "idle", batch |-> 0]]
    BY <2>1, <2>3, <2>4, QuietOrder
  <2>5. CASE worker' = [worker EXCEPT ![w].pc = "wait"]
    BY <2>1, <2>3, <2>5, QuietOrder
  <2>6. CASE worker' = [worker EXCEPT ![w].pc = "exited"]
    BY <2>1, <2>3, <2>6, QuietOrder
  <2> QED
    BY <2>2, <2>4, <2>5, <2>6
<1>3. CASE Other /\ (Collecting \/ Sending \/ Signal \/ Stopping) /\ ~Enqueue
  <2>1. UNCHANGED <<jobs, delivery, beside>>
    BY <1>3 DEF Other, Collecting, CollectRuntime, CountPoll, SetRandom, CollectorStops,
       CollectSystem, SystemStops, Sending, SnapshotGauges, SnapshotCounters, Signal, Stopping,
       Cancel, CloseJobs, WorkersDone, Exit, ForcedExit
  <2> QED
    BY <2>1, QuietOrder DEF delivery
<1>4. CASE Ended \/ UNCHANGED deliveryVars \/ \E q \in Requests : Apply(q)
  <2>1. UNCHANGED <<jobs, delivery, beside>>
    BY <1>4 DEF Ended, Apply, deliveryVars, vars
  <2> QED
    BY <2>1, QuietOrder DEF delivery
<1> QED
  BY <1>1, <1>2, <1>3, <1>4, PostJobOrder, PostAgainOrder DEF DeliveryNext, Other

\* An older batch is applied over a newer one only when two workers held both
\* together, or when its request had outlived its call.
THEOREM DeliveryOldGauges == DeliverySpec => OldGaugesNeedOverlap
<1> DEFINE Overlaps == \A q \in applied' \ applied : \A n \in Batches :
                         Awaited(q) /\ Applied(n) /\ n > q[1] => <<q[1], n>> \in beside
<1>1. DeliveryInit => FifoInv /\ BesideInv
  BY EmptySeq, AgentAssumption DEF DeliveryInit, Init, FifoInv, BesideInv, Batches
<1>2. ASSUME DeliveryInv, BesideInv, DeliveryNext PROVE Overlaps
  <2> SUFFICES ASSUME NEW q \in applied' \ applied, NEW n \in Batches,
                      Awaited(q), Applied(n), n > q[1]
               PROVE  <<q[1], n>> \in beside
    OBVIOUS
  <2>1. PICK w \in Workers : worker[w].pc = "call" /\ Current(w) = q
    BY DEF Awaited
  <2>2. q[1] \in Batches /\ q[1] = worker[w].batch /\ Held(q[1])
    BY <1>2, <2>1, HeldFacts DEF DeliveryInv, Current, Held
  <2>3. PICK r \in applied : r[1] = n
    BY DEF Applied
  <2>4. r \in Requests /\ r[2] <= calls[n] /\ r[2] \in 1..Delays + 1
    <3>1. r \in Requests /\ net[r] # "unsent"
      BY <1>2, <2>3 DEF DeliveryInv, NetInv, DeliveryTypeOK, AnswerInv
    <3>2. r[2] <= calls[n]
      BY <1>2, <2>3, <3>1 DEF DeliveryInv, NetInv, DeliveryTypeOK
    <3> QED
      BY <3>1, <3>2 DEF Requests
  <2>5. calls[n] > 0 /\ q[1] < n
    BY <1>2, <2>2, <2>4, AgentAssumption DEF DeliveryInv, IInv, TypeOK, Batches
  <2> QED
    BY <1>2, <2>2, <2>5 DEF BesideInv
<1>3. DeliveryInv /\ FifoInv /\ BesideInv /\ [DeliveryNext]_deliveryVars => FifoInv' /\ BesideInv'
  BY NextOrder DEF DeliveryInv
<1>4. DeliveryInv /\ BesideInv /\ [DeliveryNext]_deliveryVars => [Overlaps]_deliveryVars
  BY <1>2
<1> QED
  BY <1>1, <1>3, <1>4, DeliveryInvariant, PTL DEF DeliverySpec, OldGaugesNeedOverlap

-----------------------------------------------------------------------------
(* One worker, which is the default of RATE_LIMIT.                          *)

\* A batch is never applied over a newer one while its call is waited for.
BatchesInOrder ==
  [][\A q \in applied' \ applied : \A n \in Batches :
       Awaited(q) /\ Applied(n) => n <= q[1]]_deliveryVars

LEMMA OneWorkerAlone ==
  ASSUME NEW w, Workers = {w}
  PROVE  IInv /\ beside = {} /\ [DeliveryNext]_deliveryVars => beside' = {}
<1> SUFFICES ASSUME IInv, beside = {}, [DeliveryNext]_deliveryVars PROVE beside' = {}
  OBVIOUS
<1>1. ASSUME NEW v \in Workers, PostJob(v) PROVE beside' = {}
  <2>1. worker[v].pc = "idle" /\ beside' = beside \union {<<b, Head(jobs)>> : b \in HeldBatches}
    BY <1>1 DEF PostJob, TakeJob
  <2>2. \A u \in Workers : worker[u].batch = 0
    BY <2>1 DEF IInv, WorkerInv
  <2>3. HeldBatches = {}
    BY <2>2 DEF HeldBatches
  <2> QED
    BY <2>1, <2>3
<1>2. ASSUME NEW v \in Workers,
             \/ PostAgain(v) \/ CallSucceeds(v) \/ CallRefused(v) \/ CallFails(v)
             \/ ConnectionBreaks(v)
      PROVE  beside' = {}
  BY <1>2 DEF PostAgain, CallSucceeds, CallRefused, CallFails, ConnectionBreaks, Hear, LoseAnswer
<1>3. CASE \/ Other \/ Ended \/ UNCHANGED deliveryVars
           \/ \E q \in Requests : Apply(q)
  BY <1>3 DEF Other, Ended, Apply, deliveryVars
<1> QED
  BY <1>1, <1>2, <1>3 DEF DeliveryNext

\* With one worker the store receives the batches in the order the agent formed
\* them, except for a request that has outlived its call.
THEOREM DeliveryOneWorkerInOrder ==
  ASSUME NEW w, Workers = {w}
  PROVE  DeliverySpec => BatchesInOrder
<1> DEFINE Alone == beside = {}
           Overlaps == \A q \in applied' \ applied : \A n \in Batches :
                         Awaited(q) /\ Applied(n) /\ n > q[1] => <<q[1], n>> \in beside
           InOrder == \A q \in applied' \ applied : \A n \in Batches :
                        Awaited(q) /\ Applied(n) => n <= q[1]
<1>1. DeliveryInit => Alone
  BY DEF DeliveryInit
<1>2. DeliveryInv /\ Alone /\ [DeliveryNext]_deliveryVars => Alone'
  BY OneWorkerAlone DEF DeliveryInv
<1>3. DeliveryInv /\ DeliveryInv' /\ Alone /\ [Overlaps]_deliveryVars => [InOrder]_deliveryVars
  <2> SUFFICES ASSUME DeliveryInv, DeliveryInv', Alone, Overlaps, NEW q \in applied' \ applied,
                      NEW n \in Batches, Awaited(q), Applied(n)
               PROVE  n <= q[1]
    OBVIOUS
  <2>1. q \in Requests
    BY DEF DeliveryInv, NetInv, DeliveryTypeOK
  <2>2. q[1] \in Nat /\ n \in Nat
    BY <2>1, AgentAssumption DEF Requests, Batches
  <2> QED
    BY <2>2
<1>4. DeliverySpec => [][Overlaps]_deliveryVars
  BY DeliveryOldGauges DEF OldGaugesNeedOverlap
<1> QED
  BY <1>1, <1>2, <1>3, <1>4, DeliveryInvariant, PTL DEF DeliverySpec, BatchesInOrder
=============================================================================
