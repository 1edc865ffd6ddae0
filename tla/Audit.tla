-------------------------------- MODULE Audit --------------------------------
(***************************************************************************)
(* Audit delivery: internal/server/adapter/out/audit/publisher.go and      *)
(* file.go, the closer of internal/server/app/audit_init.go, the publish   *)
(* of the request handlers, and the shutdown of cmd/server/main.go as far  *)
(* as it decides when Close is called.                                     *)
(*                                                                         *)
(* A handler serves one request and publishes one event, named like the    *)
(* handler.  Observers are numbered in the order of p.subs.                *)
(***************************************************************************)
EXTENDS Naturals, Sequences, FiniteSets

CONSTANTS Handlers,      \* request goroutines
          NumObservers,  \* len(p.subs)
          Files,         \* the observers that are FileObservers
          QueueSize      \* queueSize: 1024 in the code

Observers == 1..NumObservers

ASSUME AuditAssumption ==
  /\ NumObservers \in Nat
  /\ QueueSize \in Nat \ {0}
  /\ Files \subseteq Observers

VARIABLES
  handler,     \* each handler: [pc, next], next the observer it sends to next
  closed,      \* p.closed
  closedChans, \* Close has closed the channels of the observers 1..closedChans
  queue,       \* the channel of each observer
  accepted,    \* every event sent to each channel, in order (history)
  dispatcher,  \* each dispatch goroutine: [pc, event]; "write" in the mutex of its file
  handled,     \* what Notify was called with: [event, outcome] (history)
  files,       \* the file observers whose file is open
  server,      \* main: how far the shutdown is
  expired,     \* the shutdown context has expired
  result       \* what Close returned

lanes == <<queue, accepted>>
closing == <<closed, closedChans, files, server, expired, result>>
vars == <<handler, lanes, dispatcher, handled, closing>>

Busy(h) == handler[h].pc \in {"busy", "sending"}
Running == server # "exited"

\* How Notify ends; "closed" is the error of a file that Close has closed.
Outcomes == {"ok", "error", "closed"}

TypeOK ==
  /\ handler \in [Handlers -> [pc : {"idle", "busy", "sending", "done", "panicked"},
                               next : 1..NumObservers + 1]]
  /\ closed \in BOOLEAN
  /\ closedChans \in 0..NumObservers
  /\ queue \in [Observers -> Seq(Handlers)]
  /\ \A o \in Observers : Len(queue[o]) \in 0..QueueSize
  /\ accepted \in [Observers -> Seq(Handlers)]
  /\ dispatcher \in [Observers -> [pc : {"receive", "notify", "write", "exited"},
                                   event : Seq(Handlers)]]
  /\ handled \in [Observers -> Seq([event : Handlers, outcome : Outcomes])]
  /\ files \in SUBSET Files
  /\ server \in {"serving", "stopping", "closing", "exited"}
  /\ expired \in BOOLEAN
  /\ result \in {"none", "nil", "deadline"}

Init ==
  /\ handler = [h \in Handlers |-> [pc |-> "idle", next |-> 1]]
  /\ closed = FALSE
  /\ closedChans = 0
  /\ queue = [o \in Observers |-> <<>>]
  /\ accepted = [o \in Observers |-> <<>>]
  /\ dispatcher = [o \in Observers |-> [pc |-> "receive", event |-> <<>>]]
  /\ handled = [o \in Observers |-> <<>>]
  /\ files = Files
  /\ server = "serving"
  /\ expired = FALSE
  /\ result = "none"

-----------------------------------------------------------------------------
(* Handlers and Publish.                                                    *)

\* A request arrives while the server listens, or on a connection Shutdown
\* has not found idle yet.
Request(h) ==
  /\ server \in {"serving", "stopping"}
  /\ handler[h].pc = "idle"
  /\ handler' = [handler EXCEPT ![h].pc = "busy"]
  /\ UNCHANGED <<lanes, dispatcher, handled, closing>>

\* The request is refused or not saved: nothing is published.
Refuse(h) ==
  /\ Running
  /\ handler[h].pc = "busy"
  /\ handler' = [handler EXCEPT ![h].pc = "done"]
  /\ UNCHANGED <<lanes, dispatcher, handled, closing>>

\* Publish looks at p.closed under the lock and gives the lock up.
CheckClosed(h) ==
  /\ Running
  /\ handler[h].pc = "busy"
  /\ handler' = [handler EXCEPT ![h].pc = IF closed \/ NumObservers = 0
                                          THEN "done" ELSE "sending"]
  /\ UNCHANGED <<lanes, dispatcher, handled, closing>>

\* case sub.ch <- event, or default when the channel is full.  The variants
\* do without a bound, make room by losing the oldest event, or wait for room.
Push(h, o) ==
  /\ queue' = [queue EXCEPT ![o] = Append(@, h)]
  /\ accepted' = [accepted EXCEPT ![o] = Append(@, h)]
DropOldest(h, o) ==
  /\ queue' = [queue EXCEPT ![o] = Append(IF Len(@) < QueueSize THEN @ ELSE Tail(@), h)]
  /\ accepted' = [accepted EXCEPT ![o] = Append(@, h)]
WaitForRoom(h, o) == Len(queue[o]) < QueueSize /\ Push(h, o)
SendOrDrop(h, o) == IF Len(queue[o]) < QueueSize THEN Push(h, o) ELSE UNCHANGED lanes

\* One turn of the loop over p.subs.  Sending on a closed channel panics, and
\* net/http ends the request.
SendNext(h) ==
  LET o == handler[h].next
      closedChan == o <= closedChans
  IN /\ Running
     /\ handler[h].pc = "sending"
     /\ handler' = [handler EXCEPT
                      ![h] = [pc |-> CASE closedChan -> "panicked"
                                       [] o = NumObservers -> "done"
                                       [] OTHER -> "sending",
                              next |-> o + 1]]
     /\ IF closedChan THEN UNCHANGED lanes ELSE SendOrDrop(h, o)
     /\ UNCHANGED <<dispatcher, handled, closing>>

-----------------------------------------------------------------------------
(* dispatch: for event := range sub.ch { Notify }.                          *)

Receive(o) ==
  /\ Running
  /\ dispatcher[o].pc = "receive"
  /\ queue[o] # <<>>
  /\ dispatcher' = [dispatcher EXCEPT ![o] = [pc |-> "notify", event |-> <<Head(queue[o])>>]]
  /\ queue' = [queue EXCEPT ![o] = Tail(@)]
  /\ UNCHANGED <<handler, accepted, handled, closing>>

\* FileObserver.Notify takes o.mu for the time of the write ...
Lock(o) ==
  /\ Running
  /\ o \in Files
  /\ dispatcher[o].pc = "notify"
  /\ dispatcher' = [dispatcher EXCEPT ![o].pc = "write"]
  /\ UNCHANGED <<handler, lanes, handled, closing>>

\* ... and gives it up when the write returns, which fails on a closed file; a call
\* of the HTTP observer ends in its 5 s either way.  An error is logged and the
\* loop goes on, or ends in the variant.
CallOf(o) == IF o \in Files THEN "write" ELSE "notify"
OutcomesOf(o) == IF o \in Files \ files THEN {"closed"} ELSE {"ok", "error"}
StopOnError(o, outcome) == IF outcome = "ok" THEN "receive" ELSE "exited"
GoOn(o, outcome) == "receive"

Notify(o) ==
  /\ Running
  /\ dispatcher[o].pc = CallOf(o)
  /\ \E outcome \in OutcomesOf(o) :
       /\ handled' = [handled EXCEPT
                        ![o] = Append(@, [event |-> dispatcher[o].event[1], outcome |-> outcome])]
       /\ dispatcher' = [dispatcher EXCEPT ![o] = [pc |-> GoOn(o, outcome), event |-> <<>>]]
  /\ UNCHANGED <<handler, lanes, closing>>

\* The channel is closed and empty: wg.Done().
DispatchEnds(o) ==
  /\ Running
  /\ dispatcher[o].pc = "receive"
  /\ queue[o] = <<>>
  /\ o <= closedChans
  /\ dispatcher' = [dispatcher EXCEPT ![o].pc = "exited"]
  /\ UNCHANGED <<handler, lanes, handled, closing>>

-----------------------------------------------------------------------------
(* The shutdown: Shutdown, then the closer of initAudit, in one budget.     *)

Signal ==
  /\ server = "serving"
  /\ server' = "stopping"
  /\ UNCHANGED <<handler, lanes, dispatcher, handled,
                 closed, closedChans, files, expired, result>>

\* The 5 s of shutdownCtx are over, whatever the handlers still do.
Expire ==
  /\ server \in {"stopping", "closing"}
  /\ ~expired
  /\ expired' = TRUE
  /\ UNCHANGED <<handler, lanes, dispatcher, handled,
                 closed, closedChans, files, server, result>>

\* server.Shutdown returns: no request is active, or time is up.  The variant
\* goes on to Close without waiting.
NoWait == TRUE
HandlersDone == \A h \in Handlers : ~Busy(h)
ShutdownReturns ==
  /\ server = "stopping"
  /\ HandlersDone \/ expired
  /\ server' = "closing"
  /\ UNCHANGED <<handler, lanes, dispatcher, handled,
                 closed, closedChans, files, expired, result>>

\* Close sets p.closed under the lock ...
MarkClosed ==
  /\ server = "closing"
  /\ ~closed
  /\ closed' = TRUE
  /\ UNCHANGED <<handler, lanes, dispatcher, handled,
                 closedChans, files, server, expired, result>>

\* ... closes the channels one by one ...
CloseChannel ==
  /\ closed
  /\ closedChans < NumObservers
  /\ closedChans' = closedChans + 1
  /\ UNCHANGED <<handler, lanes, dispatcher, handled,
                 closed, files, server, expired, result>>

\* ... and waits for p.wg (the variant: for empty channels) or its deadline.
QueuesEmpty == \A o \in Observers : queue[o] = <<>>
DispatchersDone == \A o \in Observers : dispatcher[o].pc = "exited"

\* When both are ready select takes either; the variant has no deadline.
WaitForDispatchers(outcome) == outcome = "nil" /\ DispatchersDone
MayReturn(outcome) == IF outcome = "nil" THEN DispatchersDone ELSE expired

CloseReturns(outcome) ==
  /\ closed
  /\ closedChans = NumObservers
  /\ result = "none"
  /\ MayReturn(outcome)
  /\ result' = outcome
  /\ UNCHANGED <<handler, lanes, dispatcher, handled,
                 closed, closedChans, files, server, expired>>

\* fileObs.Close() waits for o.mu, and has no deadline.
FilesUnlocked == \A o \in Files : dispatcher[o].pc # "write"
CloseFile ==
  /\ Running
  /\ result # "none"
  /\ files # {}
  /\ FilesUnlocked
  /\ files' = {}
  /\ UNCHANGED <<handler, lanes, dispatcher, handled,
                 closed, closedChans, server, expired, result>>

\* main returns.
Exit ==
  /\ server = "closing"
  /\ result # "none"
  /\ files = {}
  /\ server' = "exited"
  /\ UNCHANGED <<handler, lanes, dispatcher, handled,
                 closed, closedChans, files, expired, result>>

Terminated ==
  /\ server = "exited"
  /\ UNCHANGED vars

-----------------------------------------------------------------------------
Publishing(h) == Refuse(h) \/ CheckClosed(h) \/ SendNext(h)
Dispatching(o) == Receive(o) \/ Lock(o) \/ Notify(o) \/ DispatchEnds(o)
Closing ==
  \/ ShutdownReturns \/ MarkClosed \/ CloseChannel
  \/ CloseReturns("nil") \/ CloseReturns("deadline")
  \/ CloseFile \/ Exit

Next ==
  \/ \E h \in Handlers : Request(h) \/ Publishing(h)
  \/ \E o \in Observers : Dispatching(o)
  \/ Signal \/ Expire
  \/ Closing
  \/ Terminated

Spec == Init /\ [][Next]_vars

(* Handlers and the closer are scheduled and time passes.  Observers are    *)
(* given no fairness here: Notify may hang for ever.                        *)
StuckObservers ==
  /\ \A h \in Handlers : WF_vars(Publishing(h))
  /\ WF_vars(Expire)
  /\ WF_vars(Closing)

FairSpec == Spec /\ StuckObservers

-----------------------------------------------------------------------------
(* Properties.                                                              *)

EventsOf(records) == [i \in 1..Len(records) |-> records[i].event]

\* What a channel accepted reaches its observer once, in order: the events
\* handled, the one being notified and those queued are the accepted ones.
LanesAreFifo ==
  \A o \in Observers :
    accepted[o] = EventsOf(handled[o]) \o dispatcher[o].event \o queue[o]

\* When Close reports success no accepted event is waiting or in a call, so
\* that the file can be closed behind it.
CleanCloseIsDrained ==
  result = "nil" => \A o \in Observers : Len(handled[o]) = Len(accepted[o])

\* Towards its observers the publisher is an EventLog: what a channel accepts, and
\* only while it is open, is new to it and told once, in order, and Close reports
\* success only when everything was told.
Told == [o \in Observers |-> EventsOf(handled[o])]
OpenLanes == {o \in Observers : closedChans < o}

Log == INSTANCE EventLog WITH Events <- Handlers, Lanes <- Observers, log <- accepted,
                              told <- Told, open <- OpenLanes, finished <- result = "nil"

ImplementsLog == Log!Spec

\* An event is lost on a closed file only if Close ran into its deadline.
FileClosedAfterWrites ==
  result # "deadline" =>
    \A o \in Files : \A i \in 1..Len(handled[o]) : handled[o][i].outcome # "closed"

\* A send meets a closed channel, and panics, only when the request outlives the
\* budget of the shutdown: within it Close comes after the last handler.
PanicNeedsOverrun == \A h \in Handlers : handler[h].pc = "panicked" => expired

\* Publish never waits for an observer, also when every queue is full and no
\* Notify returns.
PublishReturns ==
  \A h \in Handlers :
    (handler[h].pc = "sending") ~> (handler[h].pc # "sending" \/ server = "exited")

\* Close returns by its deadline whatever the observers do; and main ends, if a
\* write to the file that has begun returns at some time: fileObs.Close waits for
\* it without a deadline.
CloseEnds ==
  /\ (server = "stopping") ~> (result # "none")
  /\ (\A o \in Files : WF_vars(Notify(o))) =>
       ((server = "stopping") ~> (server = "exited"))

\* While the process lives, an event accepted by the channel of an observer
\* that answers reaches it, errors, the shutdown and other observers that do
\* not answer notwithstanding.
EventsAreHandled ==
  \A o \in Observers : WF_vars(Dispatching(o)) =>
    \A h \in Handlers :
      (\E i \in 1..Len(queue[o]) : queue[o][i] = h)
        ~> (server = "exited" \/ \E i \in 1..Len(handled[o]) : handled[o][i].event = h)

-----------------------------------------------------------------------------
(* What a test says of Publish.                                             *)

\* publisher_test.go:84, TestPublisher_PublishAfterClose: publishing to a closed
\* publisher "should not panic or deliver", also when Close comes between the
\* check and the send.
PublishNeverPanics == \A h \in Handlers : handler[h].pc # "panicked"
=============================================================================
