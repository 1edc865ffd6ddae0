----------------------------- MODULE AuditProofs -----------------------------
(***************************************************************************)
(* Proofs about the delivery of audit events, for any handlers, observers  *)
(* and size of the queues.                                                 *)
(***************************************************************************)
EXTENDS Audit, SequenceTheorems, TLAPS

-----------------------------------------------------------------------------
(* The inductive invariant.                                                 *)

\* A handler in the loop over p.subs is at one of them.
HandlerInv ==
  \A h \in Handlers :
    /\ handler[h].pc \in {"idle", "busy"} => handler[h].next = 1
    /\ handler[h].pc = "sending" => handler[h].next \in Observers

\* A dispatcher has an event in hand while it notifies, and ends on a drained
\* closed channel.
DispatcherInv ==
  \A o \in Observers :
    /\ dispatcher[o].pc \in {"notify", "write"} <=> dispatcher[o].event # <<>>
    /\ Len(dispatcher[o].event) \in 0..1
    /\ dispatcher[o].pc = "exited" => queue[o] = <<>> /\ o <= closedChans

\* The steps of the shutdown come in their order.
ClosingInv ==
  /\ closedChans > 0 => closed
  /\ closed => server \in {"closing", "exited"}
  /\ result # "none" => closed /\ closedChans = NumObservers
  /\ result = "nil" => DispatchersDone
  /\ files # Files => result # "none"

IInv ==
  /\ TypeOK /\ HandlerInv /\ DispatcherInv /\ ClosingInv
  /\ LanesAreFifo /\ FileClosedAfterWrites

\* Within the budget no handler is left once Shutdown has returned.
BudgetInv ==
  ~expired /\ server \in {"closing", "exited"} => \A h \in Handlers : ~Busy(h)

-----------------------------------------------------------------------------
(* Sequences of events.                                                     *)

Records == [event : Handlers, outcome : Outcomes]

LEMMA EventsOfType ==
  ASSUME NEW records \in Seq(Records)
  PROVE  /\ EventsOf(records) \in Seq(Handlers)
         /\ Len(EventsOf(records)) = Len(records)
<1>1. ASSUME NEW i \in 1..Len(records)
      PROVE  records[i].event \in Handlers
  <2>1. records[i] \in Records
    BY ElementOfSeq
  <2> QED
    BY <2>1 DEF Records
<1>2. Len(records) \in Nat /\ EventsOf(records) \in [1..Len(records) -> Handlers]
  BY <1>1, LenProperties DEF EventsOf
<1>3. EventsOf(records) \in Seq(Handlers)
  BY <1>2, SeqDef
<1>4. DOMAIN EventsOf(records) = 1..Len(records)
  BY DEF EventsOf
<1>5. Len(EventsOf(records)) \in Nat /\ DOMAIN EventsOf(records) = 1..Len(EventsOf(records))
  BY <1>3, LenProperties
<1> QED
  BY <1>2, <1>3, <1>4, <1>5

\* One more record is one more event.
LEMMA EventsOfAppend ==
  ASSUME NEW records \in Seq(Records), NEW r \in Records
  PROVE  EventsOf(Append(records, r)) = Append(EventsOf(records), r.event)
<1> DEFINE longer == Append(records, r)
           events == EventsOf(records)
<1>1. /\ longer \in Seq(Records)
      /\ Len(longer) = Len(records) + 1
      /\ \A i \in 1..Len(records) : longer[i] = records[i]
      /\ longer[Len(records) + 1] = r
  BY AppendProperties
<1>2. /\ events \in Seq(Handlers)
      /\ Len(events) = Len(records)
      /\ r.event \in Handlers
      /\ Len(records) \in Nat
  BY EventsOfType, LenProperties DEF Records
<1>3. /\ Append(events, r.event) \in Seq(Handlers)
      /\ Len(Append(events, r.event)) = Len(records) + 1
      /\ \A i \in 1..Len(records) : Append(events, r.event)[i] = events[i]
      /\ Append(events, r.event)[Len(records) + 1] = r.event
  BY <1>2, AppendProperties
<1>4. /\ EventsOf(longer) \in Seq(Handlers)
      /\ Len(EventsOf(longer)) = Len(records) + 1
  BY <1>1, EventsOfType
<1>5. \A i \in 1..Len(records) + 1 : EventsOf(longer)[i] = Append(events, r.event)[i]
  BY <1>1, <1>2, <1>3 DEF EventsOf
<1> HIDE DEF longer, events
<1>6. EventsOf(longer) = Append(events, r.event)
  BY <1>3, <1>4, <1>5, SeqEqual
<1> QED
  BY <1>6 DEF longer, events

\* An event joins the end of a lane.
LEMMA LaneGrows ==
  ASSUME NEW a \in Seq(Handlers), NEW q \in Seq(Handlers), NEW h \in Handlers
  PROVE  Append(a \o q, h) = a \o Append(q, h)
OBVIOUS

\* An event moves from the head of the queue to the dispatcher's hand.
LEMMA LaneReceives ==
  ASSUME NEW a \in Seq(Handlers), NEW q \in Seq(Handlers), q # <<>>
  PROVE  a \o <<>> \o q = a \o <<Head(q)>> \o Tail(q)
<1>1. Head(q) \in Handlers /\ Tail(q) \in Seq(Handlers) /\ <<Head(q)>> \in Seq(Handlers)
  BY HeadTailProperties
<1>2. q = <<Head(q)>> \o Tail(q)
  <2>1. Len(q) \in Nat /\ Len(q) # 0
    BY LenProperties, HeadTailProperties
  <2>2. /\ Len(Tail(q)) = Len(q) - 1
        /\ \A i \in 1..Len(Tail(q)) : Tail(q)[i] = q[i + 1]
        /\ Head(q) = q[1]
    BY HeadTailProperties
  <2>3. /\ <<Head(q)>> \o Tail(q) \in Seq(Handlers)
        /\ Len(<<Head(q)>> \o Tail(q)) = Len(q)
    BY <1>1, <2>1, <2>2, ConcatProperties
  <2>4. \A i \in 1..Len(q) : q[i] = (<<Head(q)>> \o Tail(q))[i]
    BY <1>1, <2>1, <2>2
  <2> QED
    BY <2>3, <2>4, SeqEqual
<1>3. a \o <<>> = a
  BY ConcatEmptySeq
<1> QED
  BY <1>1, <1>2, <1>3, ConcatAssociative

\* An event moves from the dispatcher's hand to those handled.
LEMMA LaneHandles ==
  ASSUME NEW a \in Seq(Handlers), NEW q \in Seq(Handlers), NEW h \in Handlers
  PROVE  a \o <<h>> \o q = Append(a, h) \o <<>> \o q
BY AppendIsConcat, AppendProperties, ConcatEmptySeq

-----------------------------------------------------------------------------
LEMMA InitIInv == Init => IInv
<1> SUFFICES ASSUME Init PROVE IInv
  OBVIOUS
<1> USE AuditAssumption DEF Init, Observers
<1>1. TypeOK
  <2>1. handler \in [Handlers -> [pc : {"idle", "busy", "sending", "done", "panicked"},
                                  next : 1..NumObservers + 1]]
    OBVIOUS
  <2>2. /\ queue \in [Observers -> Seq(Handlers)]
        /\ \A o \in Observers : Len(queue[o]) \in 0..QueueSize
        /\ accepted \in [Observers -> Seq(Handlers)]
        /\ dispatcher \in [Observers -> [pc : {"receive", "notify", "write", "exited"},
                                         event : Seq(Handlers)]]
        /\ handled \in [Observers -> Seq([event : Handlers, outcome : Outcomes])]
    BY EmptySeq
  <2>3. /\ closedChans \in 0..NumObservers
        /\ files \in SUBSET Files
        /\ server \in {"serving", "stopping", "closing", "exited"}
        /\ result \in {"none", "nil", "deadline"}
    OBVIOUS
  <2>4. closed \in BOOLEAN /\ expired \in BOOLEAN
    BY Zenon
  <2> HIDE DEF Init
  <2> QED
    BY <2>1, <2>2, <2>3, <2>4 DEF TypeOK
<1>2. HandlerInv /\ ClosingInv
  BY DEF HandlerInv, ClosingInv
<1>3. DispatcherInv
  BY DEF DispatcherInv
<1>4. FileClosedAfterWrites
  BY DEF FileClosedAfterWrites
<1>5. LanesAreFifo
  <2>1. EventsOf(<<>>) = <<>>
    BY EmptySeq, EventsOfType
  <2>2. <<>> = <<>> \o <<>> \o <<>>
    BY EmptySeq, ConcatEmptySeq
  <2> QED
    BY <2>1, <2>2 DEF LanesAreFifo
<1> QED
  BY <1>1, <1>2, <1>3, <1>4, <1>5 DEF IInv

\* A request moves in its own state.
LEMMA RequestIInv ==
  ASSUME IInv, NEW h \in Handlers, Request(h) \/ Refuse(h) \/ CheckClosed(h)
  PROVE  IInv'
<1> USE DEF IInv
<1>1. UNCHANGED <<queue, accepted, dispatcher, handled,
                  closed, closedChans, files, server, expired, result>>
  BY DEF Request, Refuse, CheckClosed, lanes, closing
<1>2. /\ handler' \in [Handlers -> [pc : {"idle", "busy", "sending", "done", "panicked"},
                                    next : 1..NumObservers + 1]]
      /\ HandlerInv'
  <2>1. handler[h].pc \in {"idle", "busy"}
    BY DEF Request, Refuse, CheckClosed
  <2>2. PICK pc \in {"busy", "sending", "done"} :
          /\ handler' = [handler EXCEPT ![h].pc = pc]
          /\ pc = "sending" => NumObservers # 0
    BY DEF Request, Refuse, CheckClosed
  <2>3. pc = "sending" => 1 \in Observers
    BY <2>2, AuditAssumption DEF Observers
  <2> QED
    BY <2>1, <2>2, <2>3 DEF HandlerInv, TypeOK
<1>3. TypeOK'
  BY <1>1, <1>2 DEF TypeOK
<1>4. DispatcherInv' /\ ClosingInv' /\ FileClosedAfterWrites' /\ LanesAreFifo'
  BY <1>1 DEF DispatcherInv, ClosingInv, FileClosedAfterWrites, LanesAreFifo,
              DispatchersDone, EventsOf
<1> QED
  BY <1>2, <1>3, <1>4

\* What Publish sends on a channel joins the end of its lane.
LEMMA PushKeepsLanes ==
  ASSUME TypeOK, LanesAreFifo, NEW h \in Handlers, NEW o \in Observers, Push(h, o),
         UNCHANGED <<handled, dispatcher>>
  PROVE  LanesAreFifo'
<1> SUFFICES ASSUME NEW p \in Observers
             PROVE  accepted'[p] = EventsOf(handled[p]) \o dispatcher[p].event \o queue'[p]
  BY DEF LanesAreFifo, EventsOf
<1>1. CASE p # o
  BY <1>1 DEF LanesAreFifo, TypeOK, Push
<1>2. CASE p = o
  <2> DEFINE taken == EventsOf(handled[o]) \o dispatcher[o].event
  <2>1. taken \in Seq(Handlers) /\ queue[o] \in Seq(Handlers)
    BY EventsOfType, ConcatProperties DEF TypeOK, Records
  <2>2. accepted[o] = taken \o queue[o]
    BY DEF LanesAreFifo
  <2>3. accepted'[o] = Append(accepted[o], h) /\ queue'[o] = Append(queue[o], h)
    BY DEF TypeOK, Push
  <2> HIDE DEF taken
  <2>4. Append(taken \o queue[o], h) = taken \o Append(queue[o], h)
    BY <2>1, LaneGrows, Zenon
  <2>5. accepted'[o] = taken \o queue'[o]
    BY <2>2, <2>3, <2>4, Zenon
  <2> QED
    BY <1>2, <2>5 DEF taken
<1> QED
  BY <1>1, <1>2

\* An event joins one lane, which is open, or none.
LEMMA SendNextIInv ==
  ASSUME IInv, NEW h \in Handlers, SendNext(h)
  PROVE  IInv'
<1> USE AuditAssumption DEF IInv
<1> DEFINE o == handler[h].next
<1>1. /\ o \in Observers
      /\ UNCHANGED <<dispatcher, handled, closed, closedChans, files, server, expired, result>>
  BY DEF SendNext, HandlerInv, closing
<1>2. /\ handler' \in [Handlers -> [pc : {"idle", "busy", "sending", "done", "panicked"},
                                    next : 1..NumObservers + 1]]
      /\ HandlerInv'
  <2>1. o + 1 \in 1..NumObservers + 1
    BY <1>1 DEF Observers
  <2>2. o # NumObservers => o + 1 \in Observers
    BY <1>1 DEF Observers
  <2>3. \E pc \in {"sending", "done", "panicked"} :
          /\ handler' = [handler EXCEPT ![h] = [pc |-> pc, next |-> o + 1]]
          /\ pc = "sending" => o # NumObservers
    <3> DEFINE pc == CASE o <= closedChans -> "panicked"
                       [] o = NumObservers -> "done"
                       [] OTHER -> "sending"
    <3>1. handler' = [handler EXCEPT ![h] = [pc |-> pc, next |-> o + 1]]
      BY DEF SendNext
    <3>2. pc \in {"sending", "done", "panicked"} /\ (pc = "sending" => o # NumObservers)
      OBVIOUS
    <3> QED
      BY <3>1, <3>2
  <2> QED
    BY <2>1, <2>2, <2>3 DEF HandlerInv, TypeOK
<1>3. CASE UNCHANGED lanes
  <2>1. TypeOK'
    BY <1>1, <1>2, <1>3 DEF TypeOK, lanes
  <2>2. DispatcherInv' /\ ClosingInv' /\ FileClosedAfterWrites' /\ LanesAreFifo'
    BY <1>1, <1>3 DEF DispatcherInv, ClosingInv, FileClosedAfterWrites, LanesAreFifo,
                      DispatchersDone, EventsOf, lanes
  <2> QED
    BY <1>2, <2>1, <2>2
<1>4. CASE ~UNCHANGED lanes
  <2>1. /\ ~(o <= closedChans)
        /\ Len(queue[o]) < QueueSize
        /\ queue' = [queue EXCEPT ![o] = Append(@, h)]
        /\ accepted' = [accepted EXCEPT ![o] = Append(@, h)]
    BY <1>4 DEF SendNext, SendOrDrop, Push
  <2>2. queue[o] \in Seq(Handlers) /\ accepted[o] \in Seq(Handlers)
    BY <1>1 DEF TypeOK
  <2>3. /\ Append(queue[o], h) \in Seq(Handlers)
        /\ Append(accepted[o], h) \in Seq(Handlers)
        /\ Len(Append(queue[o], h)) = Len(queue[o]) + 1
    BY <2>2, AppendProperties
  <2>4. Len(queue[o]) + 1 \in 0..QueueSize
    BY <1>1, <2>1 DEF TypeOK
  <2>5. TypeOK'
    BY <1>1, <1>2, <2>1, <2>3, <2>4 DEF TypeOK
  <2>6. DispatcherInv'
    BY <1>1, <2>1 DEF DispatcherInv, TypeOK
  <2>7. ClosingInv' /\ FileClosedAfterWrites'
    BY <1>1 DEF ClosingInv, FileClosedAfterWrites, DispatchersDone
  <2>8. LanesAreFifo'
    BY <1>1, <2>1, PushKeepsLanes DEF Push
  <2> QED
    BY <1>2, <2>5, <2>6, <2>7, <2>8
<1> QED
  BY <1>3, <1>4

\* The dispatcher takes the head of its queue in hand.
LEMMA ReceiveIInv ==
  ASSUME IInv, NEW o \in Observers, Receive(o)
  PROVE  IInv'
<1> USE AuditAssumption DEF IInv
<1>1. /\ UNCHANGED <<handler, accepted, handled, closed, closedChans, files, server, expired, result>>
      /\ dispatcher[o].pc = "receive"
      /\ queue[o] # <<>>
      /\ dispatcher' = [dispatcher EXCEPT ![o] = [pc |-> "notify", event |-> <<Head(queue[o])>>]]
      /\ queue' = [queue EXCEPT ![o] = Tail(@)]
  BY DEF Receive, closing
<1>2. /\ queue[o] \in Seq(Handlers)
      /\ Head(queue[o]) \in Handlers
      /\ Tail(queue[o]) \in Seq(Handlers)
      /\ Len(Tail(queue[o])) = Len(queue[o]) - 1
      /\ Len(queue[o]) \in 1..QueueSize
  <2>1. queue[o] \in Seq(Handlers) /\ Len(queue[o]) \in 0..QueueSize
    BY DEF TypeOK
  <2> QED
    BY <1>1, <2>1, HeadTailProperties, LenProperties
<1>3. /\ <<Head(queue[o])>> \in Seq(Handlers)
      /\ Len(<<Head(queue[o])>>) = 1
      /\ <<Head(queue[o])>> # <<>>
  BY <1>2
<1>4. TypeOK'
  <2>1. \A p \in Observers : Len(queue'[p]) \in 0..QueueSize
    BY <1>1, <1>2 DEF TypeOK
  <2>2. queue' \in [Observers -> Seq(Handlers)]
    BY <1>1, <1>2 DEF TypeOK
  <2>3. dispatcher' \in [Observers -> [pc : {"receive", "notify", "write", "exited"}, event : Seq(Handlers)]]
    BY <1>1, <1>3 DEF TypeOK
  <2> QED
    BY <1>1, <2>1, <2>2, <2>3 DEF TypeOK
<1>5. DispatcherInv'
  BY <1>1, <1>3 DEF DispatcherInv, TypeOK
<1>6. HandlerInv' /\ ClosingInv' /\ FileClosedAfterWrites'
  <2>1. DispatchersDone' = DispatchersDone
    BY <1>1 DEF DispatchersDone, TypeOK
  <2> QED
    BY <1>1, <2>1 DEF HandlerInv, ClosingInv, FileClosedAfterWrites
<1>7. LanesAreFifo'
  <2> SUFFICES ASSUME NEW p \in Observers
               PROVE  accepted[p] = EventsOf(handled[p]) \o dispatcher'[p].event \o queue'[p]
    BY <1>1 DEF LanesAreFifo, EventsOf
  <2>1. CASE p # o
    BY <1>1, <2>1 DEF LanesAreFifo, TypeOK
  <2>2. CASE p = o
    <3> DEFINE a == EventsOf(handled[o])
               q == queue[o]
    <3>1. a \in Seq(Handlers) /\ q \in Seq(Handlers) /\ q # <<>>
      BY <1>1, <1>2, EventsOfType DEF TypeOK, Records
    <3>2. dispatcher[o].event = <<>>
      BY <1>1 DEF DispatcherInv
    <3>3. accepted[o] = a \o <<>> \o q
      BY <3>2 DEF LanesAreFifo
    <3>4. dispatcher'[o].event = <<Head(q)>> /\ queue'[o] = Tail(q)
      BY <1>1 DEF TypeOK
    <3> HIDE DEF a, q
    <3>5. accepted[o] = a \o <<Head(q)>> \o Tail(q)
      BY <3>1, <3>3, LaneReceives
    <3>6. accepted[o] = a \o dispatcher'[o].event \o queue'[o]
      BY <3>4, <3>5, Zenon
    <3> QED
      BY <2>2, <3>6, Zenon DEF a
  <2> QED
    BY <2>1, <2>2
<1> QED
  BY <1>4, <1>5, <1>6, <1>7

\* A dispatcher takes the mutex of its file with the event in hand.
LEMMA LockIInv ==
  ASSUME IInv, NEW o \in Observers, Lock(o)
  PROVE  IInv'
<1> USE DEF IInv
<1>1. /\ UNCHANGED <<handler, queue, accepted, handled,
                     closed, closedChans, files, server, expired, result>>
      /\ dispatcher[o].pc = "notify"
      /\ dispatcher' = [dispatcher EXCEPT ![o].pc = "write"]
  BY DEF Lock, lanes, closing
<1>2. TypeOK' /\ DispatcherInv' /\ HandlerInv'
  BY <1>1 DEF TypeOK, DispatcherInv, HandlerInv
<1>3. ClosingInv' /\ FileClosedAfterWrites'
  <2>1. ~DispatchersDone
    BY <1>1 DEF DispatchersDone
  <2> QED
    BY <1>1, <2>1 DEF ClosingInv, FileClosedAfterWrites
<1>4. LanesAreFifo'
  <2>1. \A p \in Observers : dispatcher'[p].event = dispatcher[p].event
    BY <1>1 DEF TypeOK
  <2> QED
    BY <1>1, <2>1 DEF LanesAreFifo, EventsOf
<1> QED
  BY <1>2, <1>3, <1>4

\* The event in hand joins those handled; a file is open unless Close timed out.
LEMMA NotifyIInv ==
  ASSUME IInv, NEW o \in Observers, Notify(o)
  PROVE  IInv'
<1> USE AuditAssumption DEF IInv
<1> DEFINE e == dispatcher[o].event[1]
<1>1. PICK outcome \in Outcomes :
        /\ outcome = "closed" => o \in Files \ files
        /\ handled' = [handled EXCEPT ![o] = Append(@, [event |-> e, outcome |-> outcome])]
        /\ dispatcher' = [dispatcher EXCEPT ![o] = [pc |-> "receive", event |-> <<>>]]
  BY DEF Notify, GoOn, OutcomesOf, Outcomes
<1>2. /\ UNCHANGED <<handler, queue, accepted, closed, closedChans, files, server, expired, result>>
      /\ dispatcher[o].pc \in {"notify", "write"}
  BY DEF Notify, CallOf, lanes, closing
<1>3. dispatcher[o].event = <<e>> /\ e \in Handlers
  <2>1. /\ dispatcher[o].event \in Seq(Handlers)
        /\ dispatcher[o].event # <<>>
        /\ Len(dispatcher[o].event) \in 0..1
    BY <1>2 DEF DispatcherInv, TypeOK
  <2> QED
    BY <2>1
<1> DEFINE r == [event |-> e, outcome |-> outcome]
<1>4. /\ handled[o] \in Seq(Records)
      /\ r \in Records
      /\ Append(handled[o], r) \in Seq(Records)
      /\ Len(Append(handled[o], r)) = Len(handled[o]) + 1
      /\ Append(handled[o], r)[Len(handled[o]) + 1] = r
      /\ \A i \in 1..Len(handled[o]) : Append(handled[o], r)[i] = handled[o][i]
  <2>1. handled[o] \in Seq(Records) /\ r \in Records
    BY <1>3 DEF TypeOK, Records
  <2> HIDE DEF r
  <2> QED
    BY <2>1, AppendProperties
<1>5. TypeOK'
  <2>1. handled' \in [Observers -> Seq(Records)]
    BY <1>1, <1>4 DEF TypeOK, Records
  <2>2. dispatcher' \in [Observers -> [pc : {"receive", "notify", "write", "exited"}, event : Seq(Handlers)]]
    BY <1>1, EmptySeq DEF TypeOK
  <2> QED
    BY <1>2, <2>1, <2>2 DEF TypeOK, Records
<1>6. DispatcherInv'
  BY <1>1, <1>2, EmptySeq DEF DispatcherInv, TypeOK
<1>7. HandlerInv' /\ ClosingInv'
  <2>1. ~DispatchersDone
    BY <1>2 DEF DispatchersDone
  <2> QED
    BY <1>2, <2>1 DEF HandlerInv, ClosingInv
<1>8. FileClosedAfterWrites'
  <2> SUFFICES ASSUME result # "deadline", NEW p \in Files, NEW i \in 1..Len(handled'[p])
               PROVE  handled'[p][i].outcome # "closed"
    BY <1>2 DEF FileClosedAfterWrites
  <2>1. files = Files
    BY <1>2 DEF ClosingInv, DispatchersDone, TypeOK
  <2>2. CASE p # o
    BY <1>1, <2>2 DEF FileClosedAfterWrites, TypeOK
  <2>3. CASE p = o
    <3>1. outcome # "closed"
      BY <1>1, <2>1, <2>3
    <3>2. handled'[o] = Append(handled[o], r)
      BY <1>1 DEF TypeOK
    <3>3. CASE i = Len(handled[o]) + 1
      BY <1>4, <2>3, <3>1, <3>2, <3>3
    <3>4. CASE i # Len(handled[o]) + 1
      <4>1. i \in 1..Len(handled[o])
        BY <1>4, <2>3, <3>2, <3>4, LenProperties
      <4> QED
        BY <1>4, <2>3, <3>2, <4>1 DEF FileClosedAfterWrites
    <3> QED
      BY <3>3, <3>4
  <2> QED
    BY <2>2, <2>3
<1>9. LanesAreFifo'
  <2> SUFFICES ASSUME NEW p \in Observers
               PROVE  accepted[p] = EventsOf(handled'[p]) \o dispatcher'[p].event \o queue[p]
    BY <1>2 DEF LanesAreFifo, EventsOf
  <2>1. CASE p # o
    BY <1>1, <2>1 DEF LanesAreFifo, TypeOK
  <2>2. CASE p = o
    <3> DEFINE a == EventsOf(handled[o])
               q == queue[o]
    <3>1. a \in Seq(Handlers) /\ q \in Seq(Handlers)
      BY <1>4, EventsOfType DEF TypeOK
    <3>2. accepted[o] = a \o <<e>> \o q
      BY <1>3 DEF LanesAreFifo
    <3>3. EventsOf(handled'[o]) = Append(a, e)
      <4>1. handled'[o] = Append(handled[o], r) /\ r.event = e
        BY <1>1 DEF TypeOK
      <4> HIDE DEF r
      <4>2. EventsOf(Append(handled[o], r)) = Append(EventsOf(handled[o]), r.event)
        BY <1>4, EventsOfAppend, Zenon
      <4> QED
        BY <4>1, <4>2
    <3>4. dispatcher'[o].event = <<>>
      BY <1>1 DEF TypeOK
    <3> HIDE DEF a, q, e
    <3>5. accepted[o] = Append(a, e) \o <<>> \o q
      BY <1>3, <3>1, <3>2, LaneHandles
    <3>6. accepted[o] = EventsOf(handled'[o]) \o dispatcher'[o].event \o q
      BY <3>3, <3>4, <3>5, Zenon
    <3> QED
      BY <2>2, <3>6, Zenon DEF q
  <2> QED
    BY <2>1, <2>2
<1> QED
  BY <1>5, <1>6, <1>7, <1>8, <1>9

\* A dispatcher ends on a drained channel that is closed.
LEMMA DispatchEndsIInv ==
  ASSUME IInv, NEW o \in Observers, DispatchEnds(o)
  PROVE  IInv'
<1> USE DEF IInv
<1>1. /\ UNCHANGED <<handler, queue, accepted, handled,
                     closed, closedChans, files, server, expired, result>>
      /\ dispatcher[o].pc = "receive"
      /\ queue[o] = <<>>
      /\ o <= closedChans
      /\ dispatcher' = [dispatcher EXCEPT ![o].pc = "exited"]
  BY DEF DispatchEnds, lanes, closing
<1>2. TypeOK' /\ DispatcherInv' /\ HandlerInv'
  BY <1>1 DEF TypeOK, DispatcherInv, HandlerInv
<1>3. ClosingInv' /\ FileClosedAfterWrites'
  <2>1. ~DispatchersDone
    BY <1>1 DEF DispatchersDone
  <2> QED
    BY <1>1, <2>1 DEF ClosingInv, FileClosedAfterWrites
<1>4. LanesAreFifo'
  <2>1. \A p \in Observers : dispatcher'[p].event = dispatcher[p].event
    BY <1>1 DEF TypeOK
  <2> QED
    BY <1>1, <2>1 DEF LanesAreFifo, EventsOf
<1> QED
  BY <1>2, <1>3, <1>4

\* The steps of the shutdown leave handlers, lanes and dispatchers alone.
LEMMA ClosingIInv ==
  ASSUME IInv, Signal \/ Expire \/ Closing
  PROVE  IInv'
<1> USE AuditAssumption DEF IInv
<1>1. UNCHANGED <<handler, queue, accepted, dispatcher, handled>>
  BY DEF Signal, Expire, Closing, ShutdownReturns, MarkClosed, CloseChannel,
         CloseReturns, CloseFile, Exit, lanes
<1>2. HandlerInv' /\ LanesAreFifo'
  BY <1>1 DEF HandlerInv, LanesAreFifo, EventsOf
<1>3. ASSUME UNCHANGED <<closed, closedChans, files, result>>,
             server' \in {"serving", "stopping", "closing", "exited"},
             expired' \in BOOLEAN,
             closed => server' \in {"closing", "exited"}
      PROVE  TypeOK' /\ DispatcherInv' /\ ClosingInv' /\ FileClosedAfterWrites'
  BY <1>1, <1>3 DEF TypeOK, DispatcherInv, ClosingInv, FileClosedAfterWrites, DispatchersDone
<1>4. CASE Signal
  BY <1>2, <1>3, <1>4 DEF Signal, ClosingInv, TypeOK
<1>5. CASE Expire
  <2>1. expired' \in BOOLEAN
    BY <1>5, Zenon DEF Expire
  <2> QED
    BY <1>2, <1>3, <1>5, <2>1 DEF Expire, ClosingInv, TypeOK
<1>6. CASE ShutdownReturns
  BY <1>2, <1>3, <1>6 DEF ShutdownReturns, ClosingInv, TypeOK
<1>7. CASE Exit
  BY <1>2, <1>3, <1>7 DEF Exit, ClosingInv, TypeOK
<1>8. CASE MarkClosed
  <2>1. /\ UNCHANGED <<closedChans, files, server, expired, result>>
        /\ closed' = TRUE
        /\ server = "closing"
    BY <1>8 DEF MarkClosed
  <2>2. closed' \in BOOLEAN
    BY <2>1, Zenon
  <2>3. TypeOK'
    BY <1>1, <2>1, <2>2 DEF TypeOK
  <2>4. DispatcherInv' /\ ClosingInv' /\ FileClosedAfterWrites'
    BY <1>1, <2>1 DEF DispatcherInv, ClosingInv, FileClosedAfterWrites, DispatchersDone
  <2> QED
    BY <1>2, <2>3, <2>4
<1>9. CASE CloseChannel
  <2>1. /\ UNCHANGED <<closed, files, server, expired, result>>
        /\ closed
        /\ closedChans < NumObservers
        /\ closedChans' = closedChans + 1
    BY <1>9 DEF CloseChannel
  <2>2. closedChans \in 0..NumObservers /\ closedChans' \in 0..NumObservers
    BY <2>1 DEF TypeOK
  <2>3. TypeOK'
    BY <1>1, <2>1, <2>2 DEF TypeOK
  <2>4. DispatcherInv'
    BY <1>1, <2>1, <2>2 DEF DispatcherInv, Observers
  <2>5. ClosingInv' /\ FileClosedAfterWrites'
    BY <1>1, <2>1, <2>2 DEF ClosingInv, FileClosedAfterWrites, DispatchersDone
  <2> QED
    BY <1>2, <2>3, <2>4, <2>5
<1>10. CASE \E outcome \in {"nil", "deadline"} : CloseReturns(outcome)
  <2>1. PICK outcome \in {"nil", "deadline"} : CloseReturns(outcome)
    BY <1>10
  <2>2. /\ UNCHANGED <<closed, closedChans, files, server, expired>>
        /\ closed
        /\ closedChans = NumObservers
        /\ result = "none"
        /\ result' = outcome
        /\ outcome = "nil" => DispatchersDone
    BY <2>1 DEF CloseReturns, MayReturn
  <2>3. TypeOK'
    BY <1>1, <2>2 DEF TypeOK
  <2>4. DispatcherInv' /\ ClosingInv' /\ FileClosedAfterWrites'
    BY <1>1, <2>2 DEF DispatcherInv, ClosingInv, FileClosedAfterWrites, DispatchersDone
  <2> QED
    BY <1>2, <2>3, <2>4
<1>11. CASE CloseFile
  <2>1. /\ UNCHANGED <<closed, closedChans, server, expired, result>>
        /\ files' = {}
        /\ result # "none"
    BY <1>11 DEF CloseFile
  <2>2. TypeOK'
    BY <1>1, <2>1 DEF TypeOK
  <2>3. DispatcherInv' /\ ClosingInv' /\ FileClosedAfterWrites'
    BY <1>1, <2>1 DEF DispatcherInv, ClosingInv, FileClosedAfterWrites, DispatchersDone
  <2> QED
    BY <1>2, <2>2, <2>3
<1> QED
  BY <1>4, <1>5, <1>6, <1>7, <1>8, <1>9, <1>10, <1>11 DEF Closing

LEMMA NextIInv == IInv /\ [Next]_vars => IInv'
<1> SUFFICES ASSUME IInv, [Next]_vars PROVE IInv'
  OBVIOUS
<1>1. ASSUME NEW h \in Handlers, Request(h) \/ Publishing(h) PROVE IInv'
  BY <1>1, RequestIInv, SendNextIInv DEF Publishing
<1>2. ASSUME NEW o \in Observers, Dispatching(o) PROVE IInv'
  BY <1>2, ReceiveIInv, LockIInv, NotifyIInv, DispatchEndsIInv DEF Dispatching
<1>3. CASE Signal \/ Expire \/ Closing
  BY <1>3, ClosingIInv
<1>4. CASE UNCHANGED vars
  <2> USE <1>4 DEF vars, lanes, closing
  <2>1. TypeOK' = TypeOK
    BY DEF TypeOK
  <2>2. HandlerInv' = HandlerInv /\ DispatcherInv' = DispatcherInv
    BY DEF HandlerInv, DispatcherInv
  <2>3. ClosingInv' = ClosingInv /\ FileClosedAfterWrites' = FileClosedAfterWrites
    BY DEF ClosingInv, FileClosedAfterWrites, DispatchersDone
  <2>4. LanesAreFifo' = LanesAreFifo
    BY DEF LanesAreFifo, EventsOf
  <2> QED
    BY <2>1, <2>2, <2>3, <2>4 DEF IInv
<1>5. CASE Terminated
  BY <1>4, <1>5 DEF Terminated
<1> QED
  BY <1>1, <1>2, <1>3, <1>4, <1>5 DEF Next

LEMMA SpecIInv == Spec => []IInv
BY InitIInv, NextIInv, PTL DEF Spec

-----------------------------------------------------------------------------
(* Theorems.                                                                *)

\* The types of the state, for any handlers, observers and queue size.
THEOREM AuditTypeCorrect == Spec => []TypeOK
<1>1. IInv => TypeOK
  BY DEF IInv
<1> QED
  BY SpecIInv, <1>1, PTL

\* publisher.go, Publish and dispatch: each channel is a queue that neither
\* loses, repeats nor reorders what it accepted, full or closed.
THEOREM AuditLanesAreFifo == Spec => []LanesAreFifo
<1>1. IInv => LanesAreFifo
  BY DEF IInv
<1> QED
  BY SpecIInv, <1>1, PTL

\* publisher.go, Close: when it returns nil every accepted event has been
\* handed to its observer.
THEOREM AuditCloseDrains == Spec => []CleanCloseIsDrained
<1>1. IInv => CleanCloseIsDrained
  <2> SUFFICES ASSUME IInv, result = "nil", NEW o \in Observers
               PROVE  Len(handled[o]) = Len(accepted[o])
    BY DEF CleanCloseIsDrained
  <2> DEFINE a == EventsOf(handled[o])
  <2>1. /\ a \in Seq(Handlers)
        /\ Len(a) = Len(handled[o])
    BY EventsOfType DEF IInv, TypeOK, Records
  <2>2. dispatcher[o].event = <<>> /\ queue[o] = <<>>
    BY DEF IInv, ClosingInv, DispatchersDone, DispatcherInv
  <2>3. accepted[o] = a \o <<>> \o <<>>
    BY <2>2 DEF IInv, LanesAreFifo
  <2> HIDE DEF a
  <2>4. accepted[o] = a
    BY <2>1, <2>3, ConcatEmptySeq
  <2> QED
    BY <2>1, <2>4
<1> QED
  BY SpecIInv, <1>1, PTL

\* audit_init.go, the closer: no write meets a closed file unless Close ran
\* into its deadline.
THEOREM AuditFileClosedLast == Spec => []FileClosedAfterWrites
<1>1. IInv => FileClosedAfterWrites
  BY DEF IInv
<1> QED
  BY SpecIInv, <1>1, PTL

\* publisher.go, Publish and Close: a send meets a closed channel only when the
\* budget of the shutdown is over.
THEOREM AuditPublishIsSafe == Spec => []PanicNeedsOverrun
<1> DEFINE Safe == BudgetInv /\ PanicNeedsOverrun
<1>1. Init => Safe
  BY DEF Init, BudgetInv, PanicNeedsOverrun
<1>2. IInv /\ Safe /\ [Next]_vars => Safe'
  <2> SUFFICES ASSUME IInv, Safe, [Next]_vars PROVE Safe'
    OBVIOUS
  <2> USE DEF IInv, BudgetInv, PanicNeedsOverrun, Busy
  <2>1. ASSUME NEW h \in Handlers, Request(h) PROVE Safe'
    BY <2>1 DEF Request, TypeOK, closing
  <2>2. ASSUME NEW h \in Handlers, Refuse(h) \/ CheckClosed(h) PROVE Safe'
    <3>1. handler[h].pc = "busy" /\ UNCHANGED <<server, expired>>
      BY <2>2 DEF Refuse, CheckClosed, closing
    <3>2. expired \/ server \notin {"closing", "exited"}
      BY <3>1, Zenon
    <3>3. PICK pc \in {"sending", "done"} : handler' = [handler EXCEPT ![h].pc = pc]
      BY <2>2 DEF Refuse, CheckClosed
    <3> QED
      BY <3>1, <3>2, <3>3 DEF TypeOK
  <2>3. ASSUME NEW h \in Handlers, SendNext(h) PROVE Safe'
    <3>1. handler[h].pc = "sending" /\ UNCHANGED <<server, expired>>
      BY <2>3 DEF SendNext, closing
    <3>2. expired \/ server \notin {"closing", "exited"}
      BY <3>1, Zenon
    <3>3. CASE ~expired
      <4>1. closedChans = 0 /\ handler[h].next \in Observers
        BY <3>1, <3>2, <3>3 DEF ClosingInv, HandlerInv, TypeOK
      <4>2. ~(handler[h].next <= closedChans)
        BY <4>1, AuditAssumption DEF Observers
      <4>3. PICK pc \in {"sending", "done"} :
              handler' = [handler EXCEPT ![h] = [pc |-> pc, next |-> handler[h].next + 1]]
        BY <2>3, <4>2 DEF SendNext
      <4> QED
        BY <3>1, <3>2, <3>3, <4>3 DEF TypeOK
    <3> QED
      BY <3>1, <3>3
  <2>4. ASSUME NEW o \in Observers, Dispatching(o) PROVE Safe'
    BY <2>4 DEF Dispatching, Receive, Lock, Notify, DispatchEnds, closing, lanes
  <2>5. CASE Expire
    BY <2>5 DEF Expire
  <2>6. CASE ShutdownReturns
    BY <2>6 DEF ShutdownReturns, HandlersDone
  <2>7. CASE Signal \/ MarkClosed \/ CloseChannel \/ CloseReturns("nil")
               \/ CloseReturns("deadline") \/ CloseFile \/ Exit
    BY <2>7 DEF Signal, MarkClosed, CloseChannel, CloseReturns, CloseFile, Exit
  <2>8. CASE UNCHANGED vars
    BY <2>8 DEF vars, closing
  <2> QED
    BY <2>1, <2>2, <2>3, <2>4, <2>5, <2>6, <2>7, <2>8 DEF Next, Publishing, Closing, Terminated
<1>3. Safe => PanicNeedsOverrun
  OBVIOUS
<1> QED
  BY SpecIInv, <1>1, <1>2, <1>3, PTL DEF Spec

-----------------------------------------------------------------------------
(* No observer is told of an event twice.                                   *)

\* A handler has passed every channel that accepted its event.
OnceInv ==
  \A o \in Observers :
    /\ \A i \in 1..Len(accepted[o]) : handler[accepted[o][i]].next > o
    /\ \A i, j \in 1..Len(accepted[o]) : accepted[o][i] = accepted[o][j] => i = j

\* Notify is called at most once for an event, on each observer.
HandledOnce ==
  \A o \in Observers : \A i, j \in 1..Len(handled[o]) :
    handled[o][i].event = handled[o][j].event => i = j

\* The front of a lane.
LEMMA LaneFront ==
  ASSUME NEW a \in Seq(Handlers), NEW q \in Seq(Handlers)
  PROVE  /\ a \o q \in Seq(Handlers)
         /\ Len(a) \in Nat
         /\ Len(a \o q) \in Nat
         /\ Len(a \o q) >= Len(a)
         /\ \A k \in 1..Len(a) : (a \o q)[k] = a[k]
BY ConcatProperties, LenProperties

LEMMA LaneBegins ==
  ASSUME NEW a \in Seq(Handlers), NEW e \in Seq(Handlers), NEW q \in Seq(Handlers)
  PROVE  /\ Len(a) \in Nat
         /\ Len(a \o e \o q) >= Len(a)
         /\ \A k \in 1..Len(a) : (a \o e \o q)[k] = a[k]
<1>1. PICK b \in Seq(Handlers) : b = a \o e
  BY LaneFront
<1>2. /\ Len(a) \in Nat /\ Len(b) \in Nat /\ Len(b) >= Len(a)
      /\ \A k \in 1..Len(a) : b[k] = a[k]
  BY <1>1, LaneFront
<1>3. /\ Len(b \o q) \in Nat /\ Len(b \o q) >= Len(b)
      /\ \A k \in 1..Len(b) : (b \o q)[k] = b[k]
  BY LaneFront
<1>4. /\ Len(b \o q) >= Len(a)
      /\ \A k \in 1..Len(a) : (b \o q)[k] = a[k]
  BY <1>2, <1>3
<1> QED
  BY <1>1, <1>2, <1>4

\* The loop over p.subs comes to each channel once.
LEMMA SendNextOnce ==
  ASSUME IInv, OnceInv, NEW h \in Handlers, SendNext(h)
  PROVE  OnceInv'
<1> USE AuditAssumption DEF IInv
<1> DEFINE o == handler[h].next
<1>1. /\ o \in Observers
      /\ o \in Nat
      /\ handler' = [handler EXCEPT ![h] = [pc |-> handler'[h].pc, next |-> o + 1]]
  BY DEF SendNext, HandlerInv, TypeOK, Observers
<1>2. handler'[h].next = o + 1 /\ \A k \in Handlers \ {h} : handler'[k] = handler[k]
  BY <1>1 DEF TypeOK
<1>3. ASSUME NEW k \in Handlers
      PROVE  /\ handler[k].next \in Nat
             /\ handler'[k].next \in Nat
             /\ handler'[k].next >= handler[k].next
  <2>1. handler[k].next \in Nat
    BY DEF TypeOK
  <2>2. CASE k = h
    BY <1>1, <1>2, <2>1, <2>2
  <2>3. CASE k # h
    BY <1>2, <2>1, <2>3
  <2> QED
    BY <2>1, <2>2, <2>3
<1> SUFFICES ASSUME NEW p \in Observers
             PROVE  /\ \A i \in 1..Len(accepted'[p]) : handler'[accepted'[p][i]].next > p
                    /\ \A i, j \in 1..Len(accepted'[p]) : accepted'[p][i] = accepted'[p][j] => i = j
  BY DEF OnceInv
<1>4. /\ accepted[p] \in Seq(Handlers)
      /\ p \in Nat
      /\ \A i \in 1..Len(accepted[p]) : accepted[p][i] \in Handlers /\ handler[accepted[p][i]].next > p
      /\ \A i, j \in 1..Len(accepted[p]) : accepted[p][i] = accepted[p][j] => i = j
  BY ElementOfSeq DEF OnceInv, TypeOK, Observers
<1> HIDE DEF o
<1>5. CASE accepted'[p] = accepted[p]
  <2>1. ASSUME NEW i \in 1..Len(accepted[p])
        PROVE  handler'[accepted[p][i]].next > p
    <3> DEFINE k == accepted[p][i]
    <3>1. k \in Handlers /\ handler[k].next > p
      BY <1>4
    <3> HIDE DEF k
    <3>2. handler'[k].next > p
      BY <1>3, <1>4, <3>1
    <3> QED
      BY <3>2 DEF k
  <2> QED
    BY <1>4, <1>5, <2>1
<1>6. CASE accepted'[p] # accepted[p]
  <2>1. p = o /\ accepted'[p] = Append(accepted[p], h)
    <3>1. accepted' = accepted \/ accepted' = [accepted EXCEPT ![o] = Append(@, h)]
      BY DEF SendNext, SendOrDrop, Push, lanes, o
    <3>2. accepted' = [accepted EXCEPT ![o] = Append(@, h)]
      BY <1>6, <3>1
    <3>3. accepted \in [Observers -> Seq(Handlers)]
      BY DEF TypeOK
    <3> QED
      BY <1>6, <3>2, <3>3
  <2>2. /\ Len(accepted'[p]) = Len(accepted[p]) + 1
        /\ Len(accepted[p]) \in Nat
        /\ \A i \in 1..Len(accepted[p]) : accepted'[p][i] = accepted[p][i]
        /\ accepted'[p][Len(accepted[p]) + 1] = h
    BY <1>4, <2>1, AppendProperties, LenProperties
  <2>3. \A i \in 1..Len(accepted[p]) : accepted[p][i] # h
    BY <1>1, <1>4, <2>1 DEF o
  <2>4. ASSUME NEW i \in 1..Len(accepted'[p])
        PROVE  i \in 1..Len(accepted[p]) \/ i = Len(accepted[p]) + 1
    BY <2>2
  <2>5. ASSUME NEW i \in 1..Len(accepted'[p])
        PROVE  handler'[accepted'[p][i]].next > p
    <3>1. CASE i \in 1..Len(accepted[p])
      <4> DEFINE k == accepted[p][i]
      <4>1. accepted'[p][i] = k /\ k \in Handlers /\ handler[k].next > p
        BY <1>4, <2>2, <3>1
      <4> HIDE DEF k
      <4> QED
        BY <1>3, <1>4, <4>1
    <3>2. CASE i = Len(accepted[p]) + 1
      BY <1>1, <1>2, <1>4, <2>1, <2>2, <3>2
    <3> QED
      BY <2>4, <3>1, <3>2
  <2>6. \A i, j \in 1..Len(accepted'[p]) : accepted'[p][i] = accepted'[p][j] => i = j
    BY <1>4, <2>2, <2>3, <2>4
  <2> QED
    BY <2>5, <2>6
<1> QED
  BY <1>5, <1>6

LEMMA SpecOnce == Spec => []OnceInv
<1>1. Init => OnceInv
  BY DEF Init, OnceInv
<1>2. IInv /\ OnceInv /\ [Next]_vars => OnceInv'
  <2> SUFFICES ASSUME IInv, OnceInv, [Next]_vars PROVE OnceInv'
    OBVIOUS
  <2>1. ASSUME UNCHANGED accepted, \A h \in Handlers : handler'[h].next = handler[h].next
        PROVE  OnceInv'
    BY <2>1, ElementOfSeq DEF OnceInv, IInv, TypeOK
  <2>2. ASSUME NEW h \in Handlers, Request(h) \/ Refuse(h) \/ CheckClosed(h) PROVE OnceInv'
    <3>1. UNCHANGED accepted
      BY <2>2 DEF Request, Refuse, CheckClosed, lanes
    <3>2. PICK pc \in {"busy", "sending", "done"} : handler' = [handler EXCEPT ![h].pc = pc]
      BY <2>2 DEF Request, Refuse, CheckClosed
    <3>3. \A k \in Handlers : handler'[k].next = handler[k].next
      BY <3>2 DEF IInv, TypeOK
    <3> QED
      BY <2>1, <3>1, <3>3
  <2>3. ASSUME NEW h \in Handlers, SendNext(h) PROVE OnceInv'
    BY <2>3, SendNextOnce
  <2>4. ASSUME NEW o \in Observers, Dispatching(o) PROVE OnceInv'
    BY <2>1, <2>4 DEF Dispatching, Receive, Lock, Notify, DispatchEnds, lanes
  <2>5. CASE Signal \/ Expire \/ Closing \/ UNCHANGED vars
    BY <2>1, <2>5 DEF Signal, Expire, Closing, ShutdownReturns, MarkClosed, CloseChannel,
                      CloseReturns, CloseFile, Exit, lanes, vars
  <2> QED
    BY <2>2, <2>3, <2>4, <2>5 DEF Next, Publishing, Terminated
<1> QED
  BY SpecIInv, <1>1, <1>2, PTL DEF Spec

\* publisher.go, Publish and dispatch: an event goes to each observer at most
\* once, whatever else is published, full or closed at the time.
THEOREM AuditHandledOnce == Spec => []HandledOnce
<1>1. IInv /\ OnceInv => HandledOnce
  <2> SUFFICES ASSUME IInv, OnceInv, NEW o \in Observers,
                      NEW i \in 1..Len(handled[o]), NEW j \in 1..Len(handled[o]),
                      handled[o][i].event = handled[o][j].event
               PROVE  i = j
    BY DEF HandledOnce
  <2> DEFINE a == EventsOf(handled[o])
             e == dispatcher[o].event
             q == queue[o]
  <2>1. /\ a \in Seq(Handlers)
        /\ Len(a) = Len(handled[o])
        /\ e \in Seq(Handlers)
        /\ q \in Seq(Handlers)
    BY EventsOfType DEF IInv, TypeOK, Records
  <2>2. a[i] = handled[o][i].event /\ a[j] = handled[o][j].event
    BY DEF EventsOf
  <2>3. accepted[o] = a \o e \o q
    BY DEF IInv, LanesAreFifo
  <2>4. i \in 1..Len(a) /\ j \in 1..Len(a) /\ a[i] = a[j]
    BY <2>1, <2>2
  <2> HIDE DEF a, e, q
  <2>5. /\ Len(a) \in Nat
        /\ Len(a \o e \o q) >= Len(a)
        /\ \A k \in 1..Len(a) : (a \o e \o q)[k] = a[k]
    BY <2>1, LaneBegins
  <2>6. Len(accepted[o]) >= Len(a) /\ \A k \in 1..Len(a) : accepted[o][k] = a[k]
    BY <2>3, <2>5, Zenon
  <2>7. Len(accepted[o]) \in Nat
    BY LenProperties DEF IInv, TypeOK
  <2>8. i \in 1..Len(accepted[o]) /\ j \in 1..Len(accepted[o])
    BY <2>4, <2>5, <2>6, <2>7
  <2> QED
    BY <2>4, <2>6, <2>8 DEF OnceInv
<1> QED
  BY SpecIInv, SpecOnce, <1>1, PTL

-----------------------------------------------------------------------------
(* The closer never gets stuck.                                             *)

\* What is left of the shutdown: the return of Shutdown, p.closed, the channels,
\* the return of Close, the files and the return of main.
StepsLeft ==
  (NumObservers - closedChans)
    + (IF server = "serving" THEN 2 ELSE IF server = "stopping" THEN 1 ELSE 0)
    + (IF closed THEN 0 ELSE 1) + (IF result = "none" THEN 1 ELSE 0)
    + (IF files = {} THEN 0 ELSE 1) + (IF server = "exited" THEN 0 ELSE 1)

\* A step of the closer can be taken.
CloserGoes ==
  \/ server = "stopping" /\ (HandlersDone \/ expired)
  \/ server = "closing" /\ ~closed
  \/ closed /\ closedChans < NumObservers
  \/ closed /\ closedChans = NumObservers /\ result = "none"
       /\ (MayReturn("nil") \/ MayReturn("deadline"))
  \/ Running /\ result # "none" /\ files # {} /\ FilesUnlocked
  \/ server = "closing" /\ result # "none" /\ files = {}

\* Close has returned and fileObs.Close waits for the mutex of a file that a
\* dispatcher is writing to.
WaitsForWrite(o) == result # "none" /\ files # {} /\ dispatcher[o].pc = "write"

CloserNeverStuck ==
  expired /\ server \in {"stopping", "closing"} =>
    CloserGoes \/ \E o \in Files : WaitsForWrite(o)

\* The events a dispatcher still has to hand over.
EventsLeft(o) == Len(queue[o]) + Len(dispatcher[o].event)

\* Once Close has returned no event is added, and each write makes them fewer.
WritesRunOut ==
  [][result # "none" =>
       \A o \in Files : /\ EventsLeft(o)' <= EventsLeft(o)
                       /\ Notify(o) => EventsLeft(o)' < EventsLeft(o)]_vars

\* cmd/server/main.go, publisher.go, Close, and audit_init.go: with the budget over
\* the closer has a step to take, or Close has returned and fileObs.Close waits for
\* a write that holds the mutex.  No other goroutine gives it more to do, each of
\* its steps leaves less, and the writes it can wait for run out: it ends in at most
\* NumObservers + 5 steps of its own if no write to the file hangs, and up to the
\* return of Close whatever hangs.
THEOREM AuditCloserGoesOn ==
  Spec => /\ []CloserNeverStuck
          /\ [][StepsLeft' <= StepsLeft /\ (Closing => StepsLeft' < StepsLeft)]_vars
          /\ [](StepsLeft \in 0..NumObservers + 6)
          /\ WritesRunOut
<1>1. IInv => CloserNeverStuck
  BY AuditAssumption DEF IInv, TypeOK, ClosingInv, CloserNeverStuck, CloserGoes, MayReturn, Running,
                         FilesUnlocked, WaitsForWrite
<1>2. IInv => StepsLeft \in 0..NumObservers + 6
  BY AuditAssumption DEF IInv, TypeOK, StepsLeft
<1>3. IInv /\ [Next]_vars => [StepsLeft' <= StepsLeft /\ (Closing => StepsLeft' < StepsLeft)]_vars
  <2> SUFFICES ASSUME IInv, Next
               PROVE  StepsLeft' <= StepsLeft /\ (Closing => StepsLeft' < StepsLeft)
    OBVIOUS
  <2>1. closedChans \in 0..NumObservers /\ NumObservers \in Nat
    BY AuditAssumption DEF IInv, TypeOK
  <2>2. CASE Closing
    <3>1. CASE ShutdownReturns
      BY <2>1, <3>1 DEF ShutdownReturns, StepsLeft
    <3>2. CASE MarkClosed
      BY <2>1, <3>2 DEF MarkClosed, StepsLeft
    <3>3. CASE CloseChannel
      BY <2>1, <3>3 DEF CloseChannel, StepsLeft
    <3>4. ASSUME NEW outcome \in {"nil", "deadline"}, CloseReturns(outcome)
          PROVE  StepsLeft' < StepsLeft
      BY <2>1, <3>4 DEF CloseReturns, StepsLeft
    <3>5. CASE CloseFile
      BY <2>1, <3>5 DEF CloseFile, StepsLeft
    <3>6. CASE Exit
      BY <2>1, <3>6 DEF Exit, StepsLeft
    <3>7. StepsLeft' < StepsLeft
      BY <2>2, <3>1, <3>2, <3>3, <3>4, <3>5, <3>6 DEF Closing
    <3>8. StepsLeft \in Int /\ StepsLeft' \in Int
      BY <2>1, <2>2 DEF StepsLeft, Closing, ShutdownReturns, MarkClosed, CloseChannel,
                        CloseReturns, CloseFile, Exit
    <3> QED
      BY <3>7, <3>8
  <2>3. CASE Signal
    BY <2>1, <2>3 DEF Signal, StepsLeft
  <2>4. CASE ~Closing /\ ~Signal
    <3>1. UNCHANGED <<closed, closedChans, files, server, result>>
      BY <2>4 DEF Next, Request, Publishing, Refuse, CheckClosed, SendNext, Dispatching,
                  Receive, Lock, Notify, DispatchEnds, Expire, Terminated, vars, closing
    <3>2. StepsLeft' = StepsLeft
      BY <3>1 DEF StepsLeft
    <3>3. StepsLeft \in Int
      BY <2>1 DEF StepsLeft
    <3> QED
      BY <2>4, <3>2, <3>3
  <2> QED
    BY <2>2, <2>3, <2>4
<1>4. IInv /\ [Next]_vars =>
        [result # "none" =>
           \A o \in Files : /\ EventsLeft(o)' <= EventsLeft(o)
                           /\ Notify(o) => EventsLeft(o)' < EventsLeft(o)]_vars
  <2> SUFFICES ASSUME IInv, Next, result # "none", NEW o \in Files
               PROVE  /\ EventsLeft(o)' <= EventsLeft(o)
                      /\ Notify(o) => EventsLeft(o)' < EventsLeft(o)
    OBVIOUS
  <2>1. /\ o \in Observers
        /\ queue[o] \in Seq(Handlers) /\ dispatcher[o].event \in Seq(Handlers)
        /\ Len(queue[o]) \in Nat /\ Len(dispatcher[o].event) \in Nat
    BY AuditAssumption, LenProperties DEF IInv, TypeOK
  <2>2. ASSUME queue'[o] = queue[o], dispatcher'[o].event = dispatcher[o].event, ~Notify(o)
        PROVE  EventsLeft(o)' <= EventsLeft(o) /\ (Notify(o) => EventsLeft(o)' < EventsLeft(o))
    <3>1. EventsLeft(o)' = Len(queue'[o]) + Len(dispatcher'[o].event)
      BY DEF EventsLeft
    <3>2. EventsLeft(o) = Len(queue[o]) + Len(dispatcher[o].event)
      BY DEF EventsLeft
    <3>3. Len(queue'[o]) = Len(queue[o]) /\ Len(dispatcher'[o].event) = Len(dispatcher[o].event)
      BY <2>2, Zenon
    <3>4. EventsLeft(o)' = EventsLeft(o)
      BY <3>1, <3>2, <3>3, Zenon
    <3>5. EventsLeft(o) \in Nat
      <4>1. PICK n \in Nat, m \in Nat : n = Len(queue[o]) /\ m = Len(dispatcher[o].event)
        BY <2>1, Zenon
      <4>2. EventsLeft(o) = n + m
        BY <3>2, <4>1, Zenon
      <4>3. n + m \in Nat
        OBVIOUS
      <4> QED
        BY <4>2, <4>3, Zenon
    <3>6. EventsLeft(o)' <= EventsLeft(o)
      BY <3>4, <3>5
    <3> QED
      BY <2>2, <3>6, Zenon
  <2>3. CASE \E p \in Observers : Notify(p)
    <3>1. PICK p \in Observers : Notify(p)
      BY <2>3
    <3>2. /\ UNCHANGED queue
          /\ dispatcher[p].pc \in {"notify", "write"}
          /\ dispatcher'[p].event = <<>>
          /\ p # o => dispatcher'[o] = dispatcher[o]
      BY <3>1 DEF Notify, CallOf, IInv, TypeOK, lanes
    <3>3. CASE p = o
      <4>1. Len(dispatcher[o].event) = 1 /\ Len(dispatcher'[o].event) = 0
        BY <2>1, <3>2, <3>3 DEF IInv, DispatcherInv
      <4> QED
        BY <2>1, <3>2, <4>1 DEF EventsLeft
    <3>4. CASE p # o
      <4>1. ~Notify(o)
        <5>1. dispatcher'[o] = dispatcher[o] /\ dispatcher[o].event \in Seq(Handlers)
          BY <2>1, <3>2, <3>4
        <5>2. Notify(o) => dispatcher'[o].event = <<>> /\ dispatcher[o].pc \in {"notify", "write"}
          BY <2>1 DEF Notify, CallOf, IInv, TypeOK
        <5>3. dispatcher[o].pc \in {"notify", "write"} => dispatcher[o].event # <<>>
          BY <2>1 DEF IInv, DispatcherInv
        <5> QED
          BY <5>1, <5>2, <5>3
      <4> QED
        BY <2>2, <3>2, <3>4, <4>1
    <3> QED
      BY <3>3, <3>4
  <2>4. CASE \E p \in Observers : Receive(p) /\ ~\E q \in Observers : Notify(q)
    <3>1. PICK p \in Observers : Receive(p) /\ ~Notify(o)
      BY <2>1, <2>4
    <3>2. /\ dispatcher[p].event = <<>> /\ queue[p] # <<>> /\ queue[p] \in Seq(Handlers)
          /\ queue' = [queue EXCEPT ![p] = Tail(@)]
          /\ dispatcher' = [dispatcher EXCEPT ![p] = [pc |-> "notify", event |-> <<Head(queue[p])>>]]
      BY <3>1 DEF Receive, IInv, DispatcherInv, TypeOK
    <3>3. CASE p = o
      <4>1. Len(Tail(queue[o])) = Len(queue[o]) - 1
        BY <3>2, <3>3, HeadTailProperties
      <4>2. queue'[o] = Tail(queue[o]) /\ dispatcher'[o].event = <<Head(queue[o])>>
        BY <2>1, <3>2, <3>3 DEF IInv, TypeOK
      <4>3. Len(dispatcher'[o].event) = 1 /\ Len(dispatcher[o].event) = 0
        BY <3>2, <3>3, <4>2
      <4>4. EventsLeft(o)' = EventsLeft(o) /\ EventsLeft(o) \in Nat
        BY <2>1, <4>1, <4>2, <4>3 DEF EventsLeft
      <4> QED
        BY <3>1, <4>4
    <3>4. CASE p # o
      <4>1. queue'[o] = queue[o] /\ dispatcher'[o] = dispatcher[o]
        BY <2>1, <3>2, <3>4 DEF IInv, TypeOK
      <4> QED
        BY <2>2, <3>1, <4>1
    <3> QED
      BY <3>3, <3>4
  <2>5. CASE ~\E p \in Observers : Notify(p) \/ Receive(p)
    <3>1. UNCHANGED queue
      <4>1. ASSUME NEW h \in Handlers, SendNext(h) PROVE UNCHANGED queue
        <5>1. closedChans = NumObservers /\ handler[h].next \in Observers
          BY <4>1 DEF SendNext, IInv, ClosingInv, HandlerInv
        <5>2. handler[h].next <= closedChans
          BY <5>1, AuditAssumption DEF Observers
        <5> QED
          BY <4>1, <5>2 DEF SendNext, lanes
      <4> QED
        BY <2>5, <4>1 DEF Next, Request, Publishing, Refuse, CheckClosed, Dispatching, Lock,
                          DispatchEnds, Signal, Expire, Closing, ShutdownReturns, MarkClosed,
                          CloseChannel, CloseReturns, CloseFile, Exit, Terminated, vars, lanes
    <3>2. ~Notify(o)
      BY <2>1, <2>5
    <3>3. dispatcher'[o].event = dispatcher[o].event
      <4>1. ASSUME NEW p \in Observers, Lock(p) \/ DispatchEnds(p)
            PROVE  dispatcher'[o].event = dispatcher[o].event
        <5>1. \E pc \in {"write", "exited"} : dispatcher' = [dispatcher EXCEPT ![p].pc = pc]
          BY <4>1 DEF Lock, DispatchEnds
        <5>2. dispatcher \in [Observers -> [pc : {"receive", "notify", "write", "exited"},
                                           event : Seq(Handlers)]]
          BY DEF IInv, TypeOK
        <5> QED
          BY <2>1, <5>1, <5>2
      <4>2. CASE ~\E p \in Observers : Dispatching(p)
        <5>1. dispatcher' = dispatcher
          BY <4>2 DEF Next, Request, Publishing, Refuse, CheckClosed, SendNext, Signal, Expire,
                      Closing, ShutdownReturns, MarkClosed, CloseChannel, CloseReturns, CloseFile,
                      Exit, Terminated, vars
        <5> QED
          BY <5>1
      <4> QED
        BY <2>5, <4>1, <4>2 DEF Dispatching
    <3>4. queue'[o] = queue[o]
      BY <3>1
    <3> QED
      BY <2>2, <3>2, <3>3, <3>4, Zenon
  <2> QED
    BY <2>3, <2>4, <2>5
<1> QED
  BY SpecIInv, <1>1, <1>2, <1>3, <1>4, PTL DEF Spec, WritesRunOut

-----------------------------------------------------------------------------
(* The publisher implements the event log.                                  *)

\* A send on an open channel with room is Accept: the event is new there.
LEMMA SendNextLogs ==
  ASSUME IInv, OnceInv, NEW h \in Handlers, SendNext(h)
  PROVE  [Log!Next]_Log!eventLog
<1> USE AuditAssumption
<1> DEFINE o == handler[h].next
<1>1. o \in Observers /\ UNCHANGED <<handled, closedChans, result>>
  BY DEF SendNext, HandlerInv, IInv, closing
<1>2. UNCHANGED <<Told, OpenLanes, result = "nil">>
  BY <1>1 DEF Told, OpenLanes, EventsOf
<1>3. CASE UNCHANGED lanes
  BY <1>2, <1>3 DEF lanes, Log!eventLog
<1>4. CASE ~UNCHANGED lanes
  <2>1. ~(o <= closedChans) /\ accepted' = [accepted EXCEPT ![o] = Append(@, h)]
    BY <1>4 DEF SendNext, SendOrDrop, Push
  <2>2. o \in OpenLanes
    BY <1>1, <2>1 DEF OpenLanes, Observers, IInv, TypeOK
  <2>3. \A i \in 1..Len(accepted[o]) : accepted[o][i] # h
    BY <1>1 DEF OnceInv, Observers
  <2>4. Log!Accept(o, h)
    BY <1>2, <2>1, <2>2, <2>3 DEF Log!Accept
  <2> QED
    BY <1>1, <2>4 DEF Log!Next
<1> QED
  BY <1>3, <1>4

\* Notify is Tell: the event in hand is the next of those accepted.
LEMMA NotifyTells ==
  ASSUME IInv, NEW o \in Observers, Notify(o)
  PROVE  [Log!Next]_Log!eventLog
<1> DEFINE e == dispatcher[o].event[1]
           a == EventsOf(handled[o])
           q == queue[o]
<1>1. PICK outcome \in Outcomes :
        handled' = [handled EXCEPT ![o] = Append(@, [event |-> e, outcome |-> outcome])]
  BY DEF Notify, OutcomesOf, Outcomes
<1>2. /\ dispatcher[o].pc \in {"notify", "write"}
      /\ UNCHANGED <<accepted, closedChans, result>>
  BY DEF Notify, CallOf, lanes, closing
<1>3. dispatcher[o].event = <<e>> /\ e \in Handlers
  <2>1. /\ dispatcher[o].event \in Seq(Handlers)
        /\ dispatcher[o].event # <<>>
        /\ Len(dispatcher[o].event) \in 0..1
    BY <1>2 DEF IInv, DispatcherInv, TypeOK
  <2> QED
    BY <2>1
<1>4. handled[o] \in Seq(Records) /\ [event |-> e, outcome |-> outcome] \in Records
  BY <1>3 DEF IInv, TypeOK, Records
<1>5. /\ a \in Seq(Handlers) /\ Len(a) = Len(handled[o])
      /\ q \in Seq(Handlers)
      /\ accepted[o] = a \o <<e>> \o q
  BY <1>3, <1>4, EventsOfType DEF IInv, TypeOK, LanesAreFifo
<1>6. EventsOf(Append(handled[o], [event |-> e, outcome |-> outcome])) = Append(a, e)
  <2> DEFINE r == [event |-> e, outcome |-> outcome]
  <2>1. r \in Records /\ r.event = e
    BY <1>4
  <2> HIDE DEF r
  <2>2. EventsOf(Append(handled[o], r)) = Append(EventsOf(handled[o]), r.event)
    BY <1>4, <2>1, EventsOfAppend
  <2> QED
    BY <2>1, <2>2 DEF r
<1>7. Told' = [Told EXCEPT ![o] = Append(@, e)]
  <2>1. handled'[o] = Append(handled[o], [event |-> e, outcome |-> outcome])
    BY <1>1 DEF IInv, TypeOK
  <2>2. \A p \in Observers \ {o} : handled'[p] = handled[p]
    BY <1>1 DEF IInv, TypeOK
  <2>3. Told' = [p \in Observers |-> EventsOf(handled'[p])]
    BY DEF Told, EventsOf
  <2>4. EventsOf(handled'[o]) = Append(EventsOf(handled[o]), e)
    BY <1>6, <2>1
  <2> HIDE DEF a, e
  <2> QED
    BY <2>2, <2>3, <2>4 DEF Told
<1> HIDE DEF a, e, q
<1>8. Len(a) < Len(accepted[o]) /\ accepted[o][Len(a) + 1] = e
  <2>1. /\ Append(a, e) \in Seq(Handlers)
        /\ Len(a) \in Nat
        /\ Len(Append(a, e)) = Len(a) + 1
        /\ Append(a, e)[Len(a) + 1] = e
    BY <1>3, <1>5, AppendProperties, LenProperties
  <2>2. accepted[o] = Append(a, e) \o q
    BY <1>3, <1>5, AppendIsConcat
  <2>3. PICK b \in Seq(Handlers) : b = Append(a, e)
    BY <2>1
  <2>4. /\ Len(b \o q) >= Len(b) /\ Len(b \o q) \in Nat
        /\ \A k \in 1..Len(b) : (b \o q)[k] = b[k]
    BY <1>5, LaneFront
  <2>5. Len(b) = Len(a) + 1 /\ b[Len(a) + 1] = e /\ accepted[o] = b \o q
    BY <2>1, <2>2, <2>3
  <2>6. Len(a) + 1 \in 1..Len(b) /\ Len(a) < Len(b \o q)
    BY <2>1, <2>4, <2>5
  <2> QED
    BY <2>4, <2>5, <2>6
<1>9. Told[o] = a
  BY DEF Told, a
<1>10. Log!Tell(o)
  <2>1. UNCHANGED <<accepted, OpenLanes, result = "nil">>
    BY <1>2 DEF OpenLanes
  <2>2. Append(Told[o], accepted[o][Len(Told[o]) + 1]) = Append(Told[o], e)
    BY <1>8, <1>9
  <2>3. Told' = [Told EXCEPT ![o] = Append(@, accepted[o][Len(@) + 1])]
    BY <1>7, <2>2
  <2>4. Len(Told[o]) < Len(accepted[o])
    BY <1>8, <1>9
  <2> QED
    BY <2>1, <2>3, <2>4 DEF Log!Tell
<1> QED
  BY <1>10 DEF Log!Next

\* Closing a channel closes its lane, and success is reported of a full log.
LEMMA ClosingLogs ==
  ASSUME IInv, Signal \/ Expire \/ Closing
  PROVE  [Log!Next]_Log!eventLog
<1> USE AuditAssumption
<1>1. UNCHANGED <<accepted, handled>> /\ Told' = Told
  BY DEF Signal, Expire, Closing, ShutdownReturns, MarkClosed, CloseChannel,
         CloseReturns, CloseFile, Exit, lanes, Told, EventsOf
<1>2. CASE UNCHANGED <<closedChans, result>>
  BY <1>1, <1>2 DEF OpenLanes, Log!eventLog
<1>3. CASE CloseChannel
  <2>1. /\ closedChans \in 0..NumObservers /\ closedChans < NumObservers
        /\ closedChans' = closedChans + 1
        /\ result' = result
    BY <1>3 DEF CloseChannel, IInv, TypeOK
  <2>2. /\ closedChans + 1 \in Observers
        /\ OpenLanes' = OpenLanes \ {closedChans + 1}
    BY <2>1 DEF OpenLanes, Observers
  <2>3. Log!Close(closedChans + 1)
    BY <1>1, <2>1, <2>2 DEF Log!Close
  <2> QED
    BY <2>2, <2>3 DEF Log!Next
<1>4. CASE CloseReturns("nil")
  <2>1. /\ closedChans = NumObservers /\ closedChans' = closedChans /\ result' = "nil"
        /\ DispatchersDone
    BY <1>4 DEF CloseReturns, MayReturn
  <2>2. OpenLanes = {} /\ OpenLanes' = OpenLanes
    BY <2>1 DEF OpenLanes, Observers
  <2>3. ASSUME NEW o \in Observers
        PROVE  accepted[o] = EventsOf(handled[o])
    <3> DEFINE a == EventsOf(handled[o])
    <3>1. dispatcher[o].event = <<>> /\ queue[o] = <<>>
      BY <2>1 DEF DispatchersDone, IInv, DispatcherInv, TypeOK
    <3>2. a \in Seq(Handlers)
      BY EventsOfType DEF IInv, TypeOK, Records
    <3>3. accepted[o] = a \o <<>> \o <<>>
      BY <3>1 DEF IInv, LanesAreFifo
    <3> HIDE DEF a
    <3>4. accepted[o] = a
      BY <3>2, <3>3, ConcatEmptySeq
    <3> QED
      BY <3>4 DEF a
  <2>4. accepted \in [Observers -> Seq(Handlers)]
    BY DEF IInv, TypeOK
  <2>5. Told = accepted
    BY <2>3, <2>4 DEF Told
  <2>6. (result' = "nil") = TRUE
    BY <2>1
  <2>7. Log!Finish
    BY <1>1, <2>2, <2>5, <2>6 DEF Log!Finish
  <2> QED
    BY <2>7 DEF Log!Next
<1>5. CASE CloseReturns("deadline")
  <2>1. result = "none" /\ result' = "deadline" /\ closedChans' = closedChans
    BY <1>5 DEF CloseReturns
  <2>2. (result' = "nil") = (result = "nil")
    BY <2>1
  <2> QED
    BY <1>1, <2>1, <2>2 DEF OpenLanes, Log!eventLog
<1> QED
  BY <1>2, <1>3, <1>4, <1>5 DEF Signal, Expire, Closing, ShutdownReturns, MarkClosed, CloseFile, Exit

\* publisher.go: Publish, dispatch and Close together keep EventLog's promise,
\* with any handlers, observers and queues, full, closed or hanging.
THEOREM AuditImplementsLog == Spec => ImplementsLog
<1>1. Init => Log!Init
  <2> SUFFICES ASSUME Init PROVE Log!Init
    OBVIOUS
  <2>1. EventsOf(<<>>) = <<>>
    BY EmptySeq, EventsOfType
  <2>2. Told = [o \in Observers |-> <<>>]
    BY <2>1 DEF Init, Told
  <2>3. OpenLanes = Observers
    BY AuditAssumption DEF Init, OpenLanes, Observers
  <2> QED
    BY <2>2, <2>3 DEF Init, Log!Init
<1>2. IInv /\ OnceInv /\ [Next]_vars => [Log!Next]_Log!eventLog
  <2> SUFFICES ASSUME IInv, OnceInv, [Next]_vars PROVE [Log!Next]_Log!eventLog
    OBVIOUS
  <2>1. ASSUME UNCHANGED <<accepted, handled, closedChans, result>>
        PROVE  [Log!Next]_Log!eventLog
    BY <2>1 DEF Told, OpenLanes, EventsOf, Log!eventLog
  <2>2. ASSUME NEW h \in Handlers, Request(h) \/ Refuse(h) \/ CheckClosed(h)
        PROVE  [Log!Next]_Log!eventLog
    BY <2>1, <2>2 DEF Request, Refuse, CheckClosed, lanes, closing
  <2>3. ASSUME NEW o \in Observers, Receive(o) \/ Lock(o) \/ DispatchEnds(o)
        PROVE  [Log!Next]_Log!eventLog
    BY <2>1, <2>3 DEF Receive, Lock, DispatchEnds, lanes, closing
  <2>4. CASE UNCHANGED vars
    BY <2>1, <2>4 DEF vars, lanes, closing
  <2> QED
    BY <2>2, <2>3, <2>4, SendNextLogs, NotifyTells, ClosingLogs
       DEF Next, Publishing, Dispatching, Terminated
<1> QED
  BY SpecIInv, SpecOnce, <1>1, <1>2, PTL DEF Spec, ImplementsLog, Log!Spec
=============================================================================
