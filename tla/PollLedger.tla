----------------------------- MODULE PollLedger -----------------------------
(***************************************************************************)
(* What the agent promises of the polls it counts in PollCount, whatever   *)
(* its goroutines do: a counted poll is unsent until it leaves, together   *)
(* with every other unsent poll, in one parcel; a parcel is settled as a   *)
(* whole, once, by being sent or dropped.                                  *)
(***************************************************************************)
CONSTANT Polls

VARIABLES unsent,   \* polls counted and not collected yet
          parcels,  \* polls on their way, by parcel
          sent,     \* polls of the parcels the server acknowledged
          dropped   \* polls of the parcels given up

ledger == <<unsent, parcels, sent, dropped>>

Known == unsent \union (UNION parcels) \union sent \union dropped

Init ==
  /\ unsent = {}
  /\ parcels = {}
  /\ sent = {}
  /\ dropped = {}

Count(p) ==
  /\ p \notin Known
  /\ unsent' = unsent \union {p}
  /\ UNCHANGED <<parcels, sent, dropped>>

Collect ==
  /\ unsent # {}
  /\ parcels' = parcels \union {unsent}
  /\ unsent' = {}
  /\ UNCHANGED <<sent, dropped>>

Deliver(parcel) ==
  /\ parcels' = parcels \ {parcel}
  /\ sent' = sent \union parcel
  /\ UNCHANGED <<unsent, dropped>>

GiveUp(parcel) ==
  /\ parcels' = parcels \ {parcel}
  /\ dropped' = dropped \union parcel
  /\ UNCHANGED <<unsent, sent>>

Next ==
  \/ \E p \in Polls : Count(p)
  \/ Collect
  \/ \E parcel \in parcels : Deliver(parcel) \/ GiveUp(parcel)

Spec == Init /\ [][Next]_ledger
=============================================================================
