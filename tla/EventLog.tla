------------------------------ MODULE EventLog ------------------------------
(***************************************************************************)
(* What the audit publisher promises each observer, whatever handlers and  *)
(* dispatchers do: an open lane accepts an event at most once, an observer *)
(* is told of the accepted events one by one in their order, and the log   *)
(* is finished only when all lanes are closed and everybody was told of    *)
(* everything.                                                             *)
(***************************************************************************)
EXTENDS Naturals, Sequences

CONSTANTS Events, Lanes

VARIABLES log,      \* what each lane has accepted
          told,     \* what the observer of each lane was told of
          open,     \* the lanes that still accept
          finished  \* Close has reported success

eventLog == <<log, told, open, finished>>

Init ==
  /\ log = [o \in Lanes |-> <<>>]
  /\ told = [o \in Lanes |-> <<>>]
  /\ open = Lanes
  /\ finished = FALSE

Accept(o, e) ==
  /\ o \in open
  /\ \A i \in 1..Len(log[o]) : log[o][i] # e
  /\ log' = [log EXCEPT ![o] = Append(@, e)]
  /\ UNCHANGED <<told, open, finished>>

Tell(o) ==
  /\ Len(told[o]) < Len(log[o])
  /\ told' = [told EXCEPT ![o] = Append(@, log[o][Len(@) + 1])]
  /\ UNCHANGED <<log, open, finished>>

Close(o) ==
  /\ open' = open \ {o}
  /\ UNCHANGED <<log, told, finished>>

Finish ==
  /\ open = {}
  /\ told = log
  /\ finished' = TRUE
  /\ UNCHANGED <<log, told, open>>

Next ==
  \/ \E o \in Lanes : Tell(o) \/ Close(o) \/ \E e \in Events : Accept(o, e)
  \/ Finish

Spec == Init /\ [][Next]_eventLog
=============================================================================
