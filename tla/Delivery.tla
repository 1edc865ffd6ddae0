------------------------------ MODULE Delivery ------------------------------
(***************************************************************************)
(* The agent and the server with the network between them: what the store  *)
(* of the server has seen of the batches when requests are lost or late,   *)
(* answers are lost, and SendBatch repeats a call after a network error.   *)
(* Every action of the agent is the action of Agent with what it means for *)
(* the request under way.  The server applies a batch as a whole (Store).  *)
(***************************************************************************)
EXTENDS Agent

VARIABLES net,      \* where each request is
          applied,  \* requests the store has applied (history)
          beside    \* pairs of batches two workers held together (history)

deliveryVars == <<vars, net, applied, beside>>

\* A request is a batch and the number of the call that sends it.
Requests == Batches \X (1..Delays + 1)

\* "unsent", "travels" (on its way, in a handler, or lost if that never ends),
\* answered with "200" or an "error" status, and then "heard" by SendMetrics or
\* "lost".
DeliveryInit ==
  /\ Init
  /\ net = [q \in Requests |-> "unsent"]
  /\ applied = {}
  /\ beside = {}

Current(w) == <<worker[w].batch, calls[worker[w].batch]>>

Awaited(q) == \E w \in Workers : worker[w].pc = "call" /\ Current(w) = q

HeldBatches == {worker[w].batch : w \in Workers} \ {0}

Post(b) == net' = [net EXCEPT ![<<b, calls'[b]>>] = "travels"]

-----------------------------------------------------------------------------
(* The network and the server.                                              *)

\* The request may have outlived its call. The answer is 500 when the answer of
\* the database to the commit is lost.
Apply(q) ==
  /\ net[q] = "travels"
  /\ applied' = applied \union {q}
  /\ \E answer \in IF Awaited(q) THEN {"200", "error"} ELSE {"lost"} :
       net' = [net EXCEPT ![q] = answer]
  /\ UNCHANGED <<vars, beside>>

-----------------------------------------------------------------------------
(* The workers.                                                             *)

PostJob(w) ==
  /\ TakeJob(w)
  /\ Post(Head(jobs))
  /\ beside' = beside \union {<<b, Head(jobs)>> : b \in HeldBatches}
  /\ UNCHANGED applied

PostAgain(w) ==
  /\ Retry(w)
  /\ Post(worker[w].batch)
  /\ UNCHANGED <<applied, beside>>

\* Variant: any status is a success.
AnyStatus(w) == net[Current(w)] \in {"travels", "200", "error"}

Accepted(w) == net[Current(w)] = "200"

Hear(w) == net' = [net EXCEPT ![Current(w)] = "heard"] /\ UNCHANGED <<applied, beside>>

\* The answer is lost, if there is one already.
LoseAnswer(w) ==
  /\ net' = [net EXCEPT ![Current(w)] = IF @ = "travels" THEN @ ELSE "lost"]
  /\ UNCHANGED <<applied, beside>>

\* SendMetrics returns nil.
CallSucceeds(w) ==
  /\ CallReturns(w)
  /\ Accepted(w)
  /\ outcome'[worker[w].batch] = "sent"
  /\ Hear(w)

\* Variant: retryIf takes any error.
AnyError(w) ==
  \/ NetworkFails(w)
  \/ /\ CallReturns(w)
     /\ ~MayRetry(worker[w].batch)
     /\ outcome'[worker[w].batch] = "dropped"

FinalError(w) == CallReturns(w) /\ outcome'[worker[w].batch] = "dropped"

\* Another status is no net.OpError. The server has refused the request, or has
\* applied it and failed after that.
CallRefused(w) ==
  /\ FinalError(w)
  /\ net[Current(w)] \in {"travels", "error"}
  /\ Hear(w)

\* The timeout of 1 s, a broken answer, or the net.OpError of the last call:
\* whatever became of the request.
CallFails(w) ==
  /\ CallReturns(w)
  /\ outcome'[worker[w].batch] = "dropped"
  /\ LoseAnswer(w)

\* Variant: the batch goes to the end of the queue to be tried again.
Requeue(w) ==
  /\ worker[w].pc = "call"
  /\ MayRetry(worker[w].batch)
  /\ Len(jobs) < RateLimit
  /\ jobs' = Append(jobs, worker[w].batch)
  /\ worker' = [worker EXCEPT ![w] = [pc |-> "idle", batch |-> 0]]
  /\ UNCHANGED <<collector, polls, system, store, sender, batches, calls, outcome,
                 control, net, applied, beside>>

\* A net.OpError: nobody listens, or the connection breaks at any point.
ConnectionBreaks(w) == NetworkFails(w) /\ LoseAnswer(w)

Other ==
  /\ \/ Collecting \/ Sending \/ Signal \/ Stopping
     \/ \E w \in Workers : WorkerStops(w) \/ AbortRetry(w)
  /\ UNCHANGED <<net, applied, beside>>

\* The end of the agent does not end its requests.
Ended == ~Alive /\ UNCHANGED deliveryVars

DeliveryNext ==
  \/ \E q \in Requests : Apply(q)
  \/ \E w \in Workers : \/ PostJob(w) \/ PostAgain(w)
                        \/ CallSucceeds(w) \/ CallRefused(w) \/ CallFails(w)
                        \/ ConnectionBreaks(w)
  \/ Other
  \/ Ended

DeliverySpec == DeliveryInit /\ [][DeliveryNext]_deliveryVars

-----------------------------------------------------------------------------
(* Properties.                                                              *)

\* Types; every call made has sent its request.
DeliveryTypeOK ==
  /\ net \in [Requests -> {"unsent", "travels", "200", "error", "heard", "lost"}]
  /\ applied \subseteq Requests
  /\ beside \subseteq Batches \X Batches
  /\ \A q \in Requests : net[q] # "unsent" <=> q[2] <= calls[q[1]]

Applied(b) == \E q \in applied : q[1] = b

\* sender.go:255: SendBatch reports no error only for a batch that the store
\* has applied.
SentIsApplied == \A b \in Batches : outcome[b] = "sent" => Applied(b)

\* retry.go:49: PollCount is counted twice only after a lost answer. Of two
\* requests of a batch that were applied the agent has not heard the answer of
\* the earlier; an error status is an answer too, also of a batch that was
\* applied in spite of it.
RepeatsFollowLostAnswers ==
  \A p, q \in applied : p[1] = q[1] /\ p[2] < q[2] => net[p] # "heard"

\* main.go:79: the gauges of a batch are overwritten by those of an older one
\* only by a request that has outlived its call, or if two workers held the two
\* batches together: with one worker never.
OldGaugesNeedOverlap ==
  [][\A q \in applied' \ applied : \A n \in Batches :
       Awaited(q) /\ Applied(n) /\ n > q[1] => <<q[1], n>> \in beside]_deliveryVars

OnServer == UNION {batches[q[1]].polls : q \in applied}

\* From the collector to the store: after a graceful exit every counted poll is
\* in PollCount on the server, in a batch whose loss was reported, or left in
\* LocalMetrics by the last flush.
ServerCountsPolls ==
  main = "exited" => Counted \subseteq OnServer \union PollsOf("dropped") \union counters
=============================================================================
