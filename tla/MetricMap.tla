------------------------------ MODULE MetricMap ------------------------------
(***************************************************************************)
(* What the server promises about the metrics it stores, whatever keeps    *)
(* them: a map that each accepted request changes once, as a whole and in  *)
(* one step.                                                               *)
(***************************************************************************)
EXTENDS Metrics

CONSTANTS Requests

VARIABLES exact,    \* a counter that leaves 64 bits is refused, not wrapped
          rows,     \* the value of each key
          applied,  \* requests whose change is in rows
          request   \* what each client asked and was answered

mapVars == <<exact, rows, applied, request>>

Init ==
  /\ exact \in BOOLEAN
  /\ rows = [k \in Keys |-> Absent]
  /\ applied = {}
  /\ request = [r \in Requests |-> [pc |-> "idle", body |-> <<>>, total |-> Absent]]

Arrive(r) ==
  /\ request[r].pc = "idle"
  /\ \E b \in Bodies :
       request' = [request EXCEPT ![r] = [pc |-> "open", body |-> b, total |-> Absent]]
  /\ UNCHANGED <<exact, rows, applied>>

\* The change is made; its answer is the key's new value, or an error if the
\* answer of the storage is lost.
Apply(r) ==
  /\ request[r].pc = "open"
  /\ Writes(request[r].body)
  /\ exact => Fits(rows, Change(request[r].body))
  /\ rows' = After(rows, Change(request[r].body))
  /\ applied' = applied \cup {r}
  /\ \/ request' = [request EXCEPT ![r].pc = "200",
                                   ![r].total = Total(rows', request[r].body)]
     \/ request' = [request EXCEPT ![r].pc = "500"]
  /\ UNCHANGED exact

\* The request ends and leaves no trace. It is not told that it succeeded if
\* it had something to change.
End(r) ==
  /\ request[r].pc = "open"
  /\ \E s \in {"200", "400", "404", "500"} :
       /\ s = "200" => ~Writes(request[r].body)
       /\ request' = [request EXCEPT ![r].pc = s]
  /\ UNCHANGED <<exact, rows, applied>>

Next == \E r \in Requests : Arrive(r) \/ Apply(r) \/ End(r)

Spec == Init /\ [][Next]_mapVars
=============================================================================
