----------------------------- MODULE BackupProofs -----------------------------
(***************************************************************************)
(* Proofs about the in-memory metrics and their backup file, for any       *)
(* requests, both modes of the backup and any number of restarts.          *)
(***************************************************************************)
EXTENDS Backup, FiniteSetTheorems, TLAPS

-----------------------------------------------------------------------------
(* Snapshots.                                                               *)

LEMMA SecondMapIs == SecondMap = "gauges"
BY DEF SecondMap, FirstMap, Maps

LEMMA SnapshotTypes ==
  /\ Nothing \in Snapshots
  /\ \A snapshot \in Snapshots :
       /\ snapshot["counters"] \subseteq Requests
       /\ snapshot["gauges"] \subseteq Requests
BY DEF Nothing, Snapshots, Maps

\* The two reads of Save, whichever goroutine makes them.
LEMMA FirstReadSnapshot ==
  ASSUME store \in Snapshots
  PROVE  LET first == [Nothing EXCEPT ![FirstMap] = store[FirstMap]]
         IN /\ first \in Snapshots
            /\ first["counters"] = store["counters"]
            /\ first["gauges"] = {}
BY DEF Nothing, Snapshots, Maps, FirstMap

LEMMA SecondReadSnapshot ==
  ASSUME store \in Snapshots, NEW first \in Snapshots
  PROVE  LET both == [first EXCEPT !["gauges"] = store["gauges"]]
         IN /\ both \in Snapshots
            /\ both["counters"] = first["counters"]
            /\ both["gauges"] = store["gauges"]
BY DEF Snapshots, Maps

-----------------------------------------------------------------------------
(* Types.                                                                   *)

SaveRecords == [pc : {"off", "second", "open", "write"}, snapshot : Snapshots]

LEMMA InitType == Init => TypeOK
<1> SUFFICES ASSUME Init PROVE TypeOK
  OBVIOUS
<1> USE BackupAssumption, SnapshotTypes DEF Init
<1>1. /\ file \in [kind : {"missing", "empty", "corrupt", "data"}, data : Snapshots]
      /\ store \in Snapshots /\ atSignal \in Snapshots /\ lastSaved \in Snapshots /\ lost \in Snapshots
  OBVIOUS
<1>2. save \in [Savers -> SaveRecords] /\ \A s \in Savers : save[s].pc = "off"
  BY DEF NoSave, SaveRecords
<1>3. /\ ticker \in {"select", "done"}
      /\ request = [r \in Requests |-> "idle"]
      /\ parts = [r \in Requests |-> {}]
  BY DEF TickerAtBoot
<1>4. /\ process \in {"serving", "stopping", "waiting", "down"}
      /\ boots \in 1..MaxBoots
      /\ ended \in {"never", "clean", "late", "crash"}
  OBVIOUS
<1>5. expired \in BOOLEAN
  BY Zenon
<1> HIDE DEF Init
<1> QED
  BY <1>1, <1>2, <1>3, <1>4, <1>5 DEF TypeOK, SaveRecords, Savers

\* The actions on requests only.
LEMMA HandlingType ==
  ASSUME TypeOK, NEW r \in Requests, Arrive(r) \/ Update(r) \/ Ack(r)
  PROVE  TypeOK'
<1> USE DEF TypeOK
<1>1. /\ UNCHANGED <<file, save, ticker, process, expired, boots, ended, atSignal, lastSaved, lost>>
  BY DEF Arrive, Update, Ack, lifecycle, history
<1>2. PICK pc \in {"open", "updated", "acked"} : request' = [request EXCEPT ![r] = pc]
  BY DEF Arrive, Update, Ack
<1>3. request[r] # "saving"
  BY DEF Arrive, Update, Ack, AckAfter
<1>4. store' \in Snapshots /\ parts' \in [Requests -> SUBSET Maps]
  <2>1. CASE Update(r)
    <3>1. PICK changed \in SUBSET Maps :
            /\ store' = [m \in Maps |-> IF m \in changed THEN store[m] \union {r} ELSE store[m]]
            /\ parts' = [parts EXCEPT ![r] = changed]
      BY <2>1 DEF Update
    <3>2. \A m \in Maps : store[m] \subseteq Requests
      BY DEF Snapshots
    <3>3. store' \in Snapshots
      BY <3>1, <3>2 DEF Snapshots
    <3> QED
      BY <3>1, <3>3
  <2>2. CASE Arrive(r) \/ Ack(r)
    BY <2>2 DEF Arrive, Ack
  <2> QED
    BY <2>1, <2>2
<1>5. /\ request' \in [Requests -> {"idle", "open", "updated", "saving", "saved", "acked", "failed"}]
      /\ \A q \in Requests : request'[q] = "saving" <=> request[q] = "saving"
  BY <1>2, <1>3
<1> QED
  BY <1>1, <1>4, <1>5

\* A goroutine enters Save.
LEMMA EnterSaveType ==
  ASSUME TypeOK, NEW s \in Savers, EnterSave(s)
  PROVE  /\ save' \in [Savers -> SaveRecords]
         /\ save'[s].pc = "second"
         /\ save'[s].snapshot["counters"] = store["counters"]
         /\ save'[s].snapshot["gauges"] = {}
         /\ \A t \in Savers : t # s => save'[t] = save[t]
<1>1. save \in [Savers -> SaveRecords] /\ store \in Snapshots
  BY DEF TypeOK, SaveRecords
<1> DEFINE first == [Nothing EXCEPT ![FirstMap] = store[FirstMap]]
<1>2. first \in Snapshots /\ first["counters"] = store["counters"] /\ first["gauges"] = {}
  BY <1>1, FirstReadSnapshot
<1>3. save' = [save EXCEPT ![s] = [pc |-> "second", snapshot |-> first]]
  BY DEF EnterSave
<1> HIDE DEF first
<1> QED
  BY <1>1, <1>2, <1>3 DEF SaveRecords

LEMMA StartSaveType ==
  ASSUME TypeOK, (\E r \in Requests : SyncSave(r)) \/ Tick \/ FinalSave
  PROVE  TypeOK'
<1>1. ASSUME NEW r \in Requests, SyncSave(r) PROVE TypeOK'
  <2>1. /\ r \in Savers /\ r # Ticker /\ Ticker \in Savers
        /\ UNCHANGED <<store, file, parts, ticker, process, expired, boots, ended, atSignal, lastSaved, lost>>
        /\ request' = [request EXCEPT ![r] = "saving"]
        /\ EnterSave(r)
    BY <1>1, BackupAssumption DEF SyncSave, Savers, lifecycle, history
  <2>2. /\ save' \in [Savers -> SaveRecords]
        /\ save'[r].pc = "second"
        /\ \A t \in Savers : t # r => save'[t] = save[t]
    BY <2>1, EnterSaveType
  <2>3. /\ request' \in [Requests -> {"idle", "open", "updated", "saving", "saved", "acked", "failed"}]
        /\ request'[r] = "saving"
        /\ \A q \in Requests : q # r => request'[q] = request[q]
    BY <2>1 DEF TypeOK
  <2> QED
    BY <2>1, <2>2, <2>3 DEF TypeOK, SaveRecords, Savers
<1>2. ASSUME Tick \/ FinalSave PROVE TypeOK'
  <2>1. /\ Ticker \in Savers /\ Ticker \notin Requests
        /\ UNCHANGED <<store, file, request, parts, process, expired, boots, ended, atSignal, lastSaved, lost>>
        /\ ticker' \in {"saving", "final"}
        /\ EnterSave(Ticker)
    BY <1>2, BackupAssumption DEF Tick, FinalSave, Savers, lifecycle, history
  <2>2. /\ save' \in [Savers -> SaveRecords]
        /\ save'[Ticker].pc = "second"
        /\ \A t \in Savers : t # Ticker => save'[t] = save[t]
    BY <2>1, EnterSaveType
  <2> QED
    BY <2>1, <2>2 DEF TypeOK, SaveRecords, Savers
<1> QED
  BY <1>1, <1>2

\* What the steps inside Save do to the goroutine that makes them.
LEMMA SecondReadDoes ==
  ASSUME TypeOK, NEW s \in Savers, SecondRead(s)
  PROVE  /\ UNCHANGED <<store, file, request, parts, ticker, process, expired, boots,
                        ended, atSignal, lastSaved, lost>>
         /\ save[s].pc = "second"
         /\ save' \in [Savers -> SaveRecords]
         /\ save'[s].pc = "open"
         /\ save'[s].snapshot["counters"] = save[s].snapshot["counters"]
         /\ save'[s].snapshot["gauges"] = store["gauges"]
         /\ \A t \in Savers : t # s => save'[t] = save[t]
<1>1. /\ save \in [Savers -> SaveRecords] /\ store \in Snapshots
      /\ save[s].snapshot \in Snapshots
  BY DEF TypeOK, SaveRecords
<1> DEFINE both == [save[s].snapshot EXCEPT !["gauges"] = store["gauges"]]
<1>2. /\ both \in Snapshots
      /\ both["counters"] = save[s].snapshot["counters"]
      /\ both["gauges"] = store["gauges"]
  BY <1>1, SecondReadSnapshot
<1>3. save' = [save EXCEPT ![s].pc = "open", ![s].snapshot[SecondMap] = store[SecondMap]]
  BY DEF SecondRead
<1>4. save'[s] = [pc |-> "open", snapshot |-> both]
  BY <1>1, <1>3, SecondMapIs DEF SaveRecords
<1>5. /\ \A t \in Savers : t # s => save'[t] = save[t]
      /\ DOMAIN save' = Savers
      /\ save' = [t \in Savers |-> save'[t]]
  BY <1>1, <1>3
<1> HIDE DEF both
<1>6. \A t \in Savers : save'[t] \in SaveRecords
  BY <1>1, <1>2, <1>4, <1>5 DEF SaveRecords
<1>7. save' \in [Savers -> SaveRecords]
  BY <1>5, <1>6
<1> QED
  BY <1>2, <1>4, <1>5, <1>7 DEF SecondRead, lifecycle, history

LEMMA SaveReturnsDoes ==
  ASSUME TypeOK, NEW s \in Savers, SaveReturns(s), save[s].pc # "off"
  PROVE  /\ save' \in [Savers -> SaveRecords]
         /\ save'[s] = [pc |-> "off", snapshot |-> Nothing]
         /\ \A t \in Savers : t # s => save'[t] = save[t]
         /\ s = Ticker => /\ UNCHANGED request
                          /\ ticker' = IF ticker = "final" THEN "done" ELSE "select"
         /\ s # Ticker => /\ UNCHANGED ticker
                          /\ s \in Requests
                          /\ request' = [request EXCEPT ![s] = "saved"]
<1>1. /\ save \in [Savers -> SaveRecords]
      /\ save' = [save EXCEPT ![s] = [pc |-> "off", snapshot |-> Nothing]]
      /\ [pc |-> "off", snapshot |-> Nothing] \in SaveRecords
  BY SnapshotTypes DEF TypeOK, SaveReturns, SaveRecords
<1>2. /\ save' \in [Savers -> SaveRecords]
      /\ save'[s] = [pc |-> "off", snapshot |-> Nothing]
      /\ \A t \in Savers : t # s => save'[t] = save[t]
  BY <1>1
<1>3. /\ s = Ticker => /\ UNCHANGED request
                       /\ ticker' = IF ticker = "final" THEN "done" ELSE "select"
      /\ s # Ticker => /\ UNCHANGED ticker
                       /\ s \in Requests
                       /\ request' = [request EXCEPT ![s] = "saved"]
  BY DEF SaveReturns, AfterTickerSave, Savers
<1> QED
  BY <1>2, <1>3

LEMMA SavingType ==
  ASSUME TypeOK, NEW s \in Savers, Saving(s)
  PROVE  TypeOK'
<1>1. CASE SecondRead(s)
  <2>1. /\ UNCHANGED <<store, file, request, parts, ticker, process, expired, boots,
                        ended, atSignal, lastSaved, lost>>
        /\ save' \in [Savers -> SaveRecords]
    BY <1>1, SecondReadDoes
  <2>2. \A t \in Savers : save'[t].pc # "off" <=> save[t].pc # "off"
    BY <1>1, SecondReadDoes
  <2> QED
    BY <2>1, <2>2 DEF TypeOK, SaveRecords, Savers
<1>2. CASE Truncate(s)
  <2>1. /\ save[s].pc = "open"
        /\ save' = [save EXCEPT ![s].pc = "write"]
        /\ file' = [kind |-> "empty", data |-> Nothing]
        /\ UNCHANGED <<store, request, parts, ticker, process, expired, boots, ended, atSignal, lastSaved, lost>>
    BY <1>2 DEF Truncate, lifecycle, history
  <2>2. save' \in [Savers -> SaveRecords]
    BY <2>1 DEF TypeOK, SaveRecords
  <2>3. \A t \in Savers : save'[t].pc # "off" <=> save[t].pc # "off"
    BY <2>1 DEF TypeOK, SaveRecords
  <2> QED
    BY <2>1, <2>2, <2>3, SnapshotTypes DEF TypeOK, SaveRecords, Savers
<1>3. ASSUME Write(s) \/ SaveFails(s) PROVE TypeOK'
  <2>1. /\ SaveReturns(s) /\ save[s].pc \in {"open", "write"}
        /\ UNCHANGED <<store, parts, process, expired, boots, ended, atSignal, lost>>
    BY <1>3 DEF Write, SaveFails, lifecycle, history
  <2>2. /\ file' \in [kind : {"missing", "empty", "corrupt", "data"}, data : Snapshots]
        /\ lastSaved' \in Snapshots
    <3>1. save[s].snapshot \in Snapshots
      BY DEF TypeOK
    <3>2. CASE Write(s)
      BY <3>1, <3>2, SnapshotTypes DEF Write, Written, Corrupt
    <3>3. CASE SaveFails(s)
      BY <3>3, SnapshotTypes DEF SaveFails, Corrupt, TypeOK, history
    <3> QED
      BY <1>3, <3>2, <3>3
  <2>3. Ticker \notin Requests /\ Ticker \in Savers /\ \A r \in Requests : r \in Savers
    BY BackupAssumption DEF Savers
  <2>4. /\ save' \in [Savers -> SaveRecords]
        /\ save'[s].pc = "off"
        /\ \A t \in Savers : t # s => save'[t] = save[t]
        /\ s = Ticker => /\ UNCHANGED request
                         /\ ticker' \in {"done", "select"}
        /\ s # Ticker => /\ UNCHANGED ticker
                         /\ s \in Requests
                         /\ request' = [request EXCEPT ![s] = "saved"]
    BY <2>1, SaveReturnsDoes
  <2>5. /\ request' \in [Requests ->
              {"idle", "open", "updated", "saving", "saved", "acked", "failed"}]
        /\ ticker' \in {"select", "saving", "final", "done"}
    BY <2>4 DEF TypeOK
  <2>6. /\ save'[Ticker].pc # "off" <=> ticker' \in {"saving", "final"}
        /\ \A r \in Requests : save'[r].pc # "off" <=> request'[r] = "saving"
    BY <2>3, <2>4 DEF TypeOK
  <2> QED
    BY <2>1, <2>2, <2>4, <2>5, <2>6 DEF TypeOK, SaveRecords
<1> QED
  BY <1>1, <1>2, <1>3 DEF Saving

LEMMA LifecycleType ==
  ASSUME TypeOK, Stopping \/ Crash
  PROVE  TypeOK'
<1>1. UNCHANGED <<store, file, request, parts, save, ticker, boots, lastSaved, lost>>
  BY DEF Stopping, Signal, Expire, ShutdownReturns, Exit, Crash, history
<1>2. /\ process' \in {"serving", "stopping", "waiting", "down"}
      /\ ended' \in {"never", "clean", "late", "crash"}
      /\ atSignal' \in Snapshots
  BY DEF Stopping, Signal, Expire, ShutdownReturns, Exit, Crash, TypeOK, history
<1>3. expired' \in BOOLEAN
  BY Zenon DEF Stopping, Signal, Expire, ShutdownReturns, Exit, Crash, TypeOK
<1> QED
  BY <1>1, <1>2, <1>3 DEF TypeOK, Savers

LEMMA BootType ==
  ASSUME TypeOK, Boot
  PROVE  TypeOK'
<1> USE BackupAssumption, SnapshotTypes
<1>1. save' \in [Savers -> SaveRecords] /\ \A s \in Savers : save'[s].pc = "off"
  BY DEF Boot, NoSave, SaveRecords
<1>2. /\ store' \in Snapshots
      /\ ticker' \in {"select", "done"}
      /\ boots' \in 1..MaxBoots
      /\ process' = "serving"
      /\ UNCHANGED <<file, parts, ended, atSignal, lastSaved>>
  BY DEF Boot, Restored, TickerAtBoot, TypeOK
<1>3. /\ request' \in [Requests -> {"idle", "open", "updated", "saving", "saved", "acked", "failed"}]
      /\ \A r \in Requests : request'[r] # "saving"
  BY DEF Boot, Served, TypeOK
<1>4. expired' \in BOOLEAN
  BY Zenon DEF Boot
<1>5. lost' \in Snapshots
  <2>1. [m \in Maps |-> lost[m] \union lastSaved[m]] \in Snapshots
    BY DEF TypeOK, Snapshots
  <2> QED
    BY <2>1 DEF Boot, TypeOK
<1> QED
  BY <1>1, <1>2, <1>3, <1>4, <1>5 DEF TypeOK, SaveRecords, Savers

LEMMA NextType == TypeOK /\ [Next]_vars => TypeOK'
<1> SUFFICES ASSUME TypeOK, [Next]_vars PROVE TypeOK'
  OBVIOUS
<1>1. ASSUME NEW r \in Requests, Arrive(r) \/ Handling(r) PROVE TypeOK'
  BY <1>1, HandlingType, StartSaveType DEF Handling
<1>2. CASE UNCHANGED vars
  BY <1>2 DEF vars, lifecycle, history, TypeOK, Savers
<1>3. CASE Stopped
  BY <1>2, <1>3 DEF Stopped
<1> QED
  BY <1>1, <1>2, <1>3, SavingType, StartSaveType, LifecycleType, BootType DEF Next

\* The types of the state, in both modes.
THEOREM BackupTypeCorrect == Spec => []TypeOK
BY InitType, NextType, PTL DEF Spec

-----------------------------------------------------------------------------
(* What the maps, the file and the snapshots reflect.                       *)

\* A map reflects only updates that changed it, ...
Reflects(x) == \A r \in Requests, m \in Maps : r \in x[m] => m \in parts[r]

\* ... and with the counters of a batch there are its gauges.
Whole(counted, gauged) ==
  \A r \in Requests : parts[r] = Maps /\ r \in counted => r \in gauged

PartsInv ==
  /\ \A r \in Requests : request[r] \in {"idle", "open"} => parts[r] = {}
  /\ Reflects(store)
  /\ Reflects(file.data)
  /\ \A s \in Savers : Reflects(save[s].snapshot)

\* The first read of Save is the counters, so the gauges of the batches it
\* saw are still to be read from the store.
BatchInv ==
  /\ Whole(store["counters"], store["gauges"])
  /\ Whole(file.data["counters"], file.data["gauges"])
  /\ \A s \in Savers :
       LET snapshot == save[s].snapshot
       IN Whole(snapshot["counters"],
                IF save[s].pc = "second" THEN store["gauges"] ELSE snapshot["gauges"])

\* A readable file is the last snapshot written, and there is a file once one was.
FileInv ==
  /\ file.kind = "data" => file.data = lastSaved
  /\ file.kind = "missing" => lastSaved = Nothing

\* The actions that touch no map, no file and no snapshot.
Apart == UNCHANGED <<store, file, parts, save, lastSaved, lost>>

LEMMA ApartActions ==
  ASSUME TypeOK,
         \/ \E r \in Requests : Arrive(r) \/ Ack(r)
         \/ Stopping \/ Crash \/ Stopped \/ UNCHANGED vars
  PROVE  /\ Apart
         /\ \A r \in Requests : request'[r] \in {"idle", "open"} => request[r] \in {"idle", "open"}
         /\ boots' = boots
BY DEF Apart, Arrive, Ack, Stopping, Signal, Expire, ShutdownReturns, Exit, Crash,
       Stopped, vars, lifecycle, history, TypeOK

LEMMA InitBatch == Init => PartsInv /\ BatchInv /\ FileInv
BY DEF Init, NoSave, Nothing, Maps, PartsInv, BatchInv, FileInv, Reflects, Whole, Savers

LEMMA UpdateBatch ==
  ASSUME TypeOK, PartsInv, BatchInv, FileInv, NEW q \in Requests, Update(q)
  PROVE  PartsInv' /\ BatchInv' /\ FileInv'
<1>1. PICK changed \in SUBSET Maps :
        /\ store' = [m \in Maps |-> IF m \in changed THEN store[m] \union {q} ELSE store[m]]
        /\ parts' = [parts EXCEPT ![q] = changed]
  BY DEF Update
<1>2. /\ request[q] = "open"
      /\ request' = [request EXCEPT ![q] = "updated"]
      /\ UNCHANGED <<file, save, lastSaved>>
  BY DEF Update, history
<1>3. parts[q] = {}
  BY <1>2 DEF PartsInv
<1>4. \A x \in Snapshots : Reflects(x) => \A m \in Maps : q \notin x[m]
  BY <1>3 DEF Reflects
<1>5. /\ \A r \in Requests : parts'[r] = IF r = q THEN changed ELSE parts[r]
      /\ \A m \in Maps : store'[m] = IF m \in changed THEN store[m] \union {q} ELSE store[m]
      /\ \A r \in Requests : request'[r] = IF r = q THEN "updated" ELSE request[r]
  BY <1>1, <1>2 DEF TypeOK
<1>6. /\ file.data \in Snapshots
      /\ \A s \in Savers : save[s].snapshot \in Snapshots
  BY DEF TypeOK
<1>7. PartsInv'
  <2>1. Reflects(store)'
    <3> SUFFICES ASSUME NEW r \in Requests, NEW m \in Maps, r \in store'[m]
                 PROVE  m \in parts'[r]
      BY DEF Reflects
    <3>1. r \in store[m] \/ (r = q /\ m \in changed)
      BY <1>5
    <3>2. r \in store[m] => m \in parts[r]
      BY DEF PartsInv, Reflects
    <3> QED
      BY <1>3, <1>5, <3>1, <3>2
  <2>2. ASSUME NEW x \in Snapshots, Reflects(x)
        PROVE  \A r \in Requests, m \in Maps : r \in x[m] => m \in parts'[r]
    BY <1>4, <1>5, <2>2 DEF Reflects
  <2>3. Reflects(file.data)' /\ \A s \in Savers : Reflects(save[s].snapshot)'
    BY <1>2, <1>6, <2>2 DEF PartsInv, Reflects
  <2>4. \A r \in Requests : request'[r] \in {"idle", "open"} => parts'[r] = {}
    BY <1>5 DEF PartsInv
  <2> QED
    BY <2>1, <2>3, <2>4 DEF PartsInv
<1>8. BatchInv'
  <2> USE DEF Maps
  <2>1. Whole(store["counters"], store["gauges"])'
    BY <1>5 DEF BatchInv, Whole
  <2>2. q \notin file.data["counters"]
    BY <1>4, <1>6 DEF PartsInv
  <2>3. Whole(file.data["counters"], file.data["gauges"])'
    BY <1>2, <1>5, <2>2 DEF BatchInv, Whole
  <2>4. ASSUME NEW s \in Savers
        PROVE  Whole(save[s].snapshot["counters"],
                     IF save[s].pc = "second" THEN store["gauges"]
                                              ELSE save[s].snapshot["gauges"])'
    <3>1. q \notin save[s].snapshot["counters"]
      BY <1>4, <1>6 DEF PartsInv
    <3>2. store["gauges"] \subseteq store'["gauges"]
      BY <1>5
    <3> QED
      BY <1>2, <1>5, <3>1, <3>2 DEF BatchInv, Whole
  <2> QED
    BY <2>1, <2>3, <2>4 DEF BatchInv
<1>9. FileInv'
  BY <1>2 DEF FileInv
<1> QED
  BY <1>7, <1>8, <1>9

\* One goroutine's snapshot changes, everything else stays.
LEMMA SnapshotBatch ==
  ASSUME TypeOK, PartsInv, BatchInv, FileInv, NEW s \in Savers,
         UNCHANGED <<store, file, parts, lastSaved>>,
         \A r \in Requests : request'[r] \in {"idle", "open"} => request[r] \in {"idle", "open"},
         \A t \in Savers : t # s => save'[t] = save[t],
         Reflects(save[s].snapshot)',
         Whole(save[s].snapshot["counters"],
               IF save[s].pc = "second" THEN store["gauges"] ELSE save[s].snapshot["gauges"])'
  PROVE  PartsInv' /\ BatchInv' /\ FileInv'
<1>1. PartsInv'
  <2>1. \A t \in Savers : Reflects(save[t].snapshot)'
    BY DEF PartsInv, Reflects
  <2> QED
    BY <2>1 DEF PartsInv, Reflects
<1>2. BatchInv'
  <2>1. ASSUME NEW t \in Savers
        PROVE  Whole(save[t].snapshot["counters"],
                     IF save[t].pc = "second" THEN store["gauges"]
                                              ELSE save[t].snapshot["gauges"])'
    BY DEF BatchInv, Whole
  <2> QED
    BY <2>1 DEF BatchInv, Whole
<1>3. FileInv'
  BY DEF FileInv
<1> QED
  BY <1>1, <1>2, <1>3

LEMMA StartSaveBatch ==
  ASSUME TypeOK, PartsInv, BatchInv, FileInv,
         (\E r \in Requests : SyncSave(r)) \/ Tick \/ FinalSave
  PROVE  PartsInv' /\ BatchInv' /\ FileInv'
<1>1. PICK s \in Savers :
        /\ EnterSave(s)
        /\ UNCHANGED <<store, file, parts, lastSaved>>
        /\ \A r \in Requests : request'[r] \in {"idle", "open"} => request[r] \in {"idle", "open"}
  BY DEF SyncSave, Tick, FinalSave, Savers, lifecycle, history, TypeOK
<1>2. /\ save'[s].pc = "second"
      /\ save'[s].snapshot["counters"] = store["counters"]
      /\ save'[s].snapshot["gauges"] = {}
      /\ \A t \in Savers : t # s => save'[t] = save[t]
  BY <1>1, EnterSaveType
<1>3. Reflects(save[s].snapshot)'
  BY <1>1, <1>2 DEF PartsInv, Reflects, Maps
<1>4. Whole(save[s].snapshot["counters"],
            IF save[s].pc = "second" THEN store["gauges"] ELSE save[s].snapshot["gauges"])'
  BY <1>1, <1>2 DEF BatchInv, Whole
<1> QED
  BY <1>1, <1>2, <1>3, <1>4, SnapshotBatch

LEMMA SecondReadBatch ==
  ASSUME TypeOK, PartsInv, BatchInv, FileInv, NEW s \in Savers, SecondRead(s)
  PROVE  PartsInv' /\ BatchInv' /\ FileInv'
<1>1. /\ UNCHANGED <<store, file, request, parts, lastSaved>>
      /\ save[s].pc = "second"
      /\ save'[s].pc = "open"
      /\ save'[s].snapshot["counters"] = save[s].snapshot["counters"]
      /\ save'[s].snapshot["gauges"] = store["gauges"]
      /\ \A t \in Savers : t # s => save'[t] = save[t]
  BY SecondReadDoes
<1>2. Reflects(save[s].snapshot)'
  BY <1>1 DEF PartsInv, Reflects, Maps
<1>3. Whole(save[s].snapshot["counters"],
            IF save[s].pc = "second" THEN store["gauges"] ELSE save[s].snapshot["gauges"])'
  BY <1>1 DEF BatchInv, Whole
<1> QED
  BY <1>1, <1>2, <1>3, SnapshotBatch

\* The file is emptied, written or broken.
LEMMA FileBatch ==
  ASSUME TypeOK, PartsInv, BatchInv, FileInv, NEW s \in Savers,
         Truncate(s) \/ Write(s) \/ SaveFails(s)
  PROVE  PartsInv' /\ BatchInv' /\ FileInv'
<1>1. /\ UNCHANGED <<store, parts>>
      /\ save[s].pc # "second" /\ save[s].pc # "off"
      /\ save[s].snapshot \in Snapshots
  BY DEF Truncate, Write, SaveFails, TypeOK
<1>2. /\ \A r \in Requests : request'[r] \in {"idle", "open"} => request[r] \in {"idle", "open"}
      /\ \A t \in Savers : t # s => save'[t] = save[t]
      /\ save'[s].pc # "second"
      /\ save'[s].snapshot \in {save[s].snapshot, Nothing}
  <2>1. CASE Truncate(s)
    <3>1. UNCHANGED request /\ save' = [save EXCEPT ![s].pc = "write"]
      BY <2>1 DEF Truncate
    <3>2. /\ save'[s].pc = "write" /\ save'[s].snapshot = save[s].snapshot
          /\ \A t \in Savers : t # s => save'[t] = save[t]
      <4>1. save \in [Savers -> SaveRecords]
        BY DEF TypeOK, SaveRecords
      <4> QED
        BY <3>1, <4>1 DEF SaveRecords
    <3> QED
      BY <1>1, <3>1, <3>2
  <2>2. CASE Write(s) \/ SaveFails(s)
    <3>1. SaveReturns(s)
      BY <2>2 DEF Write, SaveFails
    <3>2. /\ save'[s] = [pc |-> "off", snapshot |-> Nothing]
          /\ \A t \in Savers : t # s => save'[t] = save[t]
          /\ request' = request \/ request' = [request EXCEPT ![s] = "saved"]
      BY <1>1, <3>1, SaveReturnsDoes
    <3>3. \A r \in Requests : request'[r] \in {"idle", "open"} => request[r] \in {"idle", "open"}
      <4>1. request \in [Requests -> {"idle", "open", "updated", "saving", "saved", "acked", "failed"}]
        BY DEF TypeOK
      <4> QED
        BY <3>2, <4>1
    <3> QED
      BY <3>2, <3>3
  <2> QED
    BY <2>1, <2>2
<1>3. \/ file' = file /\ lastSaved' = lastSaved
      \/ file'.kind \in {"empty", "corrupt"} /\ file'.data = Nothing
      \/ /\ file' = [kind |-> "data", data |-> save[s].snapshot]
         /\ lastSaved' = save[s].snapshot
  <2>1. CASE Truncate(s)
    BY <2>1 DEF Truncate
  <2>2. CASE Write(s)
    BY <2>2 DEF Write, Written, Corrupt
  <2>3. CASE SaveFails(s)
    BY <2>3 DEF SaveFails, Corrupt, history
  <2> QED
    BY <2>1, <2>2, <2>3
<1>4. \A m \in Maps : Nothing[m] = {}
  BY DEF Nothing
<1>5. PartsInv'
  <2>1. \A t \in Savers : Reflects(save[t].snapshot)'
    BY <1>1, <1>2, <1>4 DEF PartsInv, Reflects
  <2>2. Reflects(file.data)'
    BY <1>1, <1>3, <1>4 DEF PartsInv, Reflects
  <2> QED
    BY <1>1, <1>2, <2>1, <2>2 DEF PartsInv, Reflects
<1>6. BatchInv'
  <2> USE DEF Maps
  <2>1. ASSUME NEW t \in Savers
        PROVE  Whole(save[t].snapshot["counters"],
                     IF save[t].pc = "second" THEN store["gauges"]
                                              ELSE save[t].snapshot["gauges"])'
    BY <1>1, <1>2, <1>4 DEF BatchInv, Whole
  <2>2. Whole(file.data["counters"], file.data["gauges"])'
    BY <1>1, <1>3, <1>4 DEF BatchInv, Whole
  <2> QED
    BY <1>1, <2>1, <2>2 DEF BatchInv, Whole
<1>7. FileInv'
  BY <1>3 DEF FileInv
<1> QED
  BY <1>5, <1>6, <1>7

LEMMA BootBatch ==
  ASSUME TypeOK, PartsInv, BatchInv, FileInv, Boot
  PROVE  PartsInv' /\ BatchInv' /\ FileInv'
<1>1. /\ UNCHANGED <<file, parts>>
      /\ lastSaved' = lastSaved
      /\ store' = file.data \/ store' = Nothing
      /\ \A s \in Savers : save'[s] = [pc |-> "off", snapshot |-> Nothing]
      /\ \A r \in Requests : request'[r] \in {"idle", "open"} => request'[r] = request[r]
  BY DEF Boot, Restored, NoSave, Served, TypeOK
<1>2. \A m \in Maps : Nothing[m] = {}
  BY DEF Nothing
<1> QED
  BY <1>1, <1>2 DEF PartsInv, BatchInv, FileInv, Reflects, Whole, Maps

LEMMA NextBatch ==
  TypeOK /\ PartsInv /\ BatchInv /\ FileInv /\ [Next]_vars => PartsInv' /\ BatchInv' /\ FileInv'
<1> SUFFICES ASSUME TypeOK, PartsInv, BatchInv, FileInv, [Next]_vars
             PROVE  PartsInv' /\ BatchInv' /\ FileInv'
  OBVIOUS
<1>1. CASE \/ \E r \in Requests : Arrive(r) \/ Ack(r)
           \/ Stopping \/ Crash \/ Stopped \/ UNCHANGED vars
  <2>1. /\ Apart
        /\ \A r \in Requests : request'[r] \in {"idle", "open"} => request[r] \in {"idle", "open"}
    BY <1>1, ApartActions
  <2> QED
    BY <2>1 DEF Apart, PartsInv, BatchInv, FileInv, Reflects, Whole
<1>2. ASSUME NEW r \in Requests, Update(r) PROVE PartsInv' /\ BatchInv' /\ FileInv'
  BY <1>2, UpdateBatch
<1>3. CASE (\E r \in Requests : SyncSave(r)) \/ Tick \/ FinalSave
  BY <1>3, StartSaveBatch
<1>4. ASSUME NEW s \in Savers, Saving(s) PROVE PartsInv' /\ BatchInv' /\ FileInv'
  BY <1>4, SecondReadBatch, FileBatch DEF Saving
<1>5. CASE Boot
  BY <1>5, BootBatch
<1> QED
  BY <1>1, <1>2, <1>3, <1>4, <1>5 DEF Next, Handling

IInv == TypeOK /\ PartsInv /\ BatchInv /\ FileInv

LEMMA SpecIInv == Spec => []IInv
<1>1. Init => IInv
  BY InitType, InitBatch DEF IInv
<1>2. IInv /\ [Next]_vars => IInv'
  BY NextType, NextBatch DEF IInv
<1> QED
  BY <1>1, <1>2, PTL DEF Spec

\* file_backup.go, Save: read in this order, the two maps of a backup never
\* hold the counters of a batch without its gauges, in both modes and over any
\* crashes and restarts.
THEOREM BackupKeepsBatches == Spec => []NoCountersWithoutGauges
<1>1. IInv => NoCountersWithoutGauges
  BY DEF IInv, BatchInv, Whole, NoCountersWithoutGauges
<1> QED
  BY SpecIInv, <1>1, PTL

\* file_backup.go, Restore: a start finds the last snapshot written or nothing,
\* also when several goroutines write, writes fail or the process is killed.
THEOREM BackupRestoresWhole == Spec => RestoreIsAllOrNothing
<1>1. IInv /\ [Next]_vars =>
        [boots' # boots => store' = Nothing \/ (Restore /\ store' = lastSaved)]_vars
  <2> SUFFICES ASSUME IInv, [Next]_vars, boots' # boots
               PROVE  store' = Nothing \/ (Restore /\ store' = lastSaved)
    OBVIOUS
  <2>1. Boot
    BY DEF Next, Arrive, Handling, Update, SyncSave, Ack, Saving, SecondRead, Truncate, Write,
           SaveFails, Tick, FinalSave, Stopping, Signal, Expire, ShutdownReturns, Exit, Crash,
           Stopped, vars, lifecycle
  <2> QED
    BY <2>1 DEF Boot, Restored, IInv, FileInv
<1> QED
  BY SpecIInv, <1>1, PTL DEF Spec, RestoreIsAllOrNothing


-----------------------------------------------------------------------------
(* The background backup: only the goroutine of Start saves.                *)

OnlyTicker ==
  /\ \A r \in Requests : request[r] \notin {"saving", "saved"}
  /\ save[Ticker].pc = "write" => file.kind = "empty"
  /\ file.kind # "data" => file.data = Nothing

LEMMA TickerSaves ==
  ASSUME TypeOK, OnlyTicker, NEW s \in Savers, Saving(s)
  PROVE  s = Ticker
<1>1. save[s].pc # "off"
  BY DEF Saving, SecondRead, Truncate, Write, SaveFails
<1> QED
  BY <1>1 DEF TypeOK, OnlyTicker, Savers

LEMMA TickerIsSaver == Ticker \in Savers
BY DEF Savers

\* What one step of the ticker's Save does.
LEMMA TickerStep ==
  ASSUME TypeOK, OnlyTicker, NEW s \in Savers, Saving(s)
  PROVE  LET old == save[Ticker] new == save'[Ticker]
         IN /\ UNCHANGED <<store, process, expired, boots, ended, atSignal, request>>
            /\ \/ /\ SecondRead(s)
                  /\ old.pc = "second" /\ new.pc = "open"
                  /\ new.snapshot["counters"] = old.snapshot["counters"]
                  /\ new.snapshot["gauges"] = store["gauges"]
                  /\ UNCHANGED <<file, lastSaved, ticker>>
               \/ /\ Truncate(s)
                  /\ old.pc = "open" /\ new.pc = "write" /\ new.snapshot = old.snapshot
                  /\ file' = [kind |-> "empty", data |-> Nothing]
                  /\ UNCHANGED <<lastSaved, ticker>>
               \/ /\ Write(s)
                  /\ old.pc = "write" /\ new = [pc |-> "off", snapshot |-> Nothing]
                  /\ file' = [kind |-> "data", data |-> old.snapshot]
                  /\ lastSaved' = old.snapshot
                  /\ ticker' = IF ticker = "final" THEN "done" ELSE "select"
               \/ /\ SaveFails(s) /\ DiskFails
                  /\ old.pc \in {"open", "write"} /\ new = [pc |-> "off", snapshot |-> Nothing]
                  /\ file' \in {file, Corrupt}
                  /\ UNCHANGED lastSaved
                  /\ ticker' = IF ticker = "final" THEN "done" ELSE "select"
<1>0. s = Ticker /\ save \in [Savers -> SaveRecords]
  BY TickerSaves DEF TypeOK, SaveRecords
<1>1. CASE SecondRead(s)
  BY <1>0, <1>1, SecondReadDoes
<1>2. CASE Truncate(s)
  <2>1. save'[s].pc = "write" /\ save'[s].snapshot = save[s].snapshot
    BY <1>0, <1>2 DEF Truncate, SaveRecords
  <2> QED
    BY <1>0, <1>2, <2>1 DEF Truncate, lifecycle, history
<1>3. CASE Write(s)
  <2>1. file' = [kind |-> "data", data |-> save[s].snapshot]
    BY <1>0, <1>3 DEF Write, Written, OnlyTicker
  <2> QED
    BY <1>0, <1>3, <2>1, SaveReturnsDoes DEF Write, lifecycle
<1>4. CASE SaveFails(s)
  <2>1. file' \in {file, Corrupt}
    BY <1>4 DEF SaveFails
  <2> QED
    BY <1>0, <1>4, <2>1, SaveReturnsDoes DEF SaveFails, lifecycle, history
<1> QED
  BY <1>1, <1>2, <1>3, <1>4 DEF Saving

\* What starting a save does in this mode.
LEMMA TickerStarts ==
  ASSUME TypeOK, Tick \/ FinalSave
  PROVE  /\ UNCHANGED <<store, file, request, parts, process, expired, boots, ended, atSignal, lastSaved, lost>>
         /\ ticker = "select"
         /\ ticker' \in {"saving", "final"}
         /\ ticker' = "final" => Signalled
         /\ save'[Ticker].pc = "second"
         /\ save'[Ticker].snapshot["counters"] = store["counters"]
         /\ save'[Ticker].snapshot["gauges"] = {}
BY TickerIsSaver, EnterSaveType DEF Tick, FinalSave, lifecycle, history

LEMMA OnlyTickerHolds ==
  ASSUME Mode = "interval"
  PROVE  /\ Init => OnlyTicker
         /\ TypeOK /\ OnlyTicker /\ [Next]_vars => OnlyTicker'
<1>1. Init => OnlyTicker
  BY TickerIsSaver DEF Init, OnlyTicker, NoSave
<1>2. ASSUME TypeOK, OnlyTicker, [Next]_vars PROVE OnlyTicker'
  <2> USE <1>2
  <2>1. ASSUME NEW r \in Requests, Arrive(r) \/ Handling(r) PROVE OnlyTicker'
    <3>1. ~SyncSave(r)
      BY DEF SyncSave
    <3>2. /\ UNCHANGED <<file, save>>
          /\ \E pc \in {"open", "updated", "acked"} : request' = [request EXCEPT ![r] = pc]
      BY <2>1, <3>1 DEF Arrive, Handling, Update, Ack
    <3> QED
      BY <3>2 DEF OnlyTicker, TypeOK
  <2>2. ASSUME NEW s \in Savers, Saving(s) PROVE OnlyTicker'
    BY <2>2, TickerStep DEF OnlyTicker, Corrupt
  <2>3. CASE Tick \/ FinalSave
    BY <2>3, TickerStarts DEF OnlyTicker
  <2>4. CASE Stopping \/ Crash \/ Stopped \/ UNCHANGED vars
    BY <2>4 DEF Stopping, Signal, Expire, ShutdownReturns, Exit, Crash, Stopped, vars, OnlyTicker
  <2>5. CASE Boot
    BY <2>5, TickerIsSaver DEF Boot, OnlyTicker, NoSave, Served, TypeOK
  <2> QED
    BY <1>2, <2>1, <2>2, <2>3, <2>4, <2>5 DEF Next
<1> QED
  BY <1>1, <1>2

\* Everything saved, but for what was destroyed, is still in the store and in the
\* snapshot being taken.
GainInv ==
  LET saving == save[Ticker]
  IN /\ Within(Kept, store)
     /\ Within(saving.snapshot, store)
     /\ saving.pc = "second" => Kept["counters"] \subseteq saving.snapshot["counters"]
     /\ saving.pc \in {"open", "write"} => Within(Kept, saving.snapshot)

\* What is kept of the last snapshot is a part of it.
LEMMA KeptWithin ==
  ASSUME NEW m \in Maps
  PROVE  /\ Kept[m] = lastSaved[m] \ lost[m]
         /\ Kept'[m] = lastSaved'[m] \ lost'[m]
BY DEF Kept

LEMMA GainHolds ==
  ASSUME Restore = TRUE, TypeOK, FileInv, OnlyTicker, GainInv, [Next]_vars
  PROVE  GainInv'
<1> USE DEF Within, Maps
<1>1. ASSUME NEW r \in Requests, Update(r) PROVE GainInv'
  <2>1. /\ \A m \in Maps : store[m] \subseteq store'[m]
        /\ UNCHANGED <<save, lastSaved, lost>>
    BY <1>1 DEF Update, history
  <2>2. Kept' = Kept
    BY <2>1 DEF Kept
  <2> QED
    BY <2>1, <2>2 DEF GainInv
<1>2. ASSUME NEW s \in Savers, Saving(s) PROVE GainInv'
  <2>1. \A m \in Maps : Nothing[m] = {}
    BY DEF Nothing
  <2>2. lost' = lost
    BY <1>2 DEF Saving, SecondRead, Truncate, Write, SaveFails, history
  <2>3. CASE lastSaved' = lastSaved
    <3>1. Kept' = Kept
      BY <2>2, <2>3 DEF Kept
    <3> QED
      BY <1>2, <2>1, <3>1, TickerStep DEF GainInv
  <2>4. CASE lastSaved' = save[Ticker].snapshot /\ save'[Ticker] = [pc |-> "off", snapshot |-> Nothing]
    <3>1. \A m \in Maps : Kept'[m] \subseteq save[Ticker].snapshot[m]
      BY <2>4, KeptWithin
    <3>2. store' = store
      BY <1>2, TickerStep
    <3> QED
      BY <2>1, <2>4, <3>1, <3>2 DEF GainInv
  <2> QED
    BY <1>2, <2>3, <2>4, TickerStep
<1>3. CASE Tick \/ FinalSave
  <2>1. Kept' = Kept
    BY <1>3, TickerStarts DEF Kept
  <2> QED
    BY <1>3, <2>1, TickerStarts DEF GainInv
<1>4. CASE Boot
  <2>1. /\ store' = IF file.kind = "data" THEN file.data ELSE Nothing
        /\ save'[Ticker] = [pc |-> "off", snapshot |-> Nothing]
        /\ lastSaved' = lastSaved
    BY <1>4, TickerIsSaver DEF Boot, Restored, NoSave
  <2>2. \A m \in Maps : Nothing[m] = {}
    BY DEF Nothing
  <2>3. \A m \in Maps : Kept'[m] \subseteq store'[m]
    <3>1. CASE file.kind = "data"
      BY <2>1, <3>1, KeptWithin DEF FileInv
    <3>2. CASE file.kind = "missing"
      BY <2>1, <2>2, <3>2, KeptWithin DEF FileInv
    <3>3. CASE file.kind \in {"empty", "corrupt"}
      <4>1. \A m \in Maps : lost'[m] = lost[m] \union lastSaved[m]
        BY <1>4, <3>3 DEF Boot
      <4> QED
        BY <2>1, <4>1, KeptWithin
    <3> QED
      BY <3>1, <3>2, <3>3 DEF TypeOK
  <2> QED
    BY <2>1, <2>2, <2>3 DEF GainInv
<1>5. ASSUME UNCHANGED <<store, save, lastSaved, lost>> PROVE GainInv'
  <2>1. Kept' = Kept
    BY <1>5 DEF Kept
  <2> QED
    BY <1>5, <2>1 DEF GainInv
<1>6. CASE \/ \E r \in Requests : Arrive(r) \/ Ack(r)
           \/ Stopping \/ Crash \/ Stopped \/ UNCHANGED vars
  BY <1>5, <1>6, ApartActions DEF Apart
<1>7. ASSUME NEW r \in Requests, SyncSave(r) PROVE GainInv'
  <2>1. r # Ticker /\ r \in Savers /\ EnterSave(r) /\ UNCHANGED <<store, lastSaved, lost>>
    BY <1>7, BackupAssumption DEF SyncSave, Savers, history
  <2>2. Kept' = Kept
    BY <2>1 DEF Kept
  <2> QED
    BY <2>1, <2>2, TickerIsSaver, EnterSaveType DEF GainInv
<1> QED
  BY <1>1, <1>2, <1>3, <1>4, <1>6, <1>7 DEF Next, Handling

\* file_backup.go, Start, Save and Restore: in the background mode a save of any run
\* holds what the last one, of the same or an earlier run, wrote, unless a start
\* found that snapshot destroyed by a crash or an error in the middle of a write.
THEOREM BackupFileGains ==
  ASSUME Mode = "interval", Restore = TRUE
  PROVE  Spec => FileOnlyGains
<1>1. Init => OnlyTicker /\ GainInv
  <2> SUFFICES ASSUME Init PROVE GainInv
    BY OnlyTickerHolds
  <2>1. /\ save[Ticker] = [pc |-> "off", snapshot |-> Nothing]
        /\ lastSaved = Nothing
    BY TickerIsSaver DEF Init, NoSave
  <2>2. \A m \in Maps : Nothing[m] = {}
    BY DEF Nothing
  <2>3. \A m \in Maps : Kept[m] = {}
    BY <2>1, <2>2, KeptWithin
  <2> QED
    BY <2>1, <2>2, <2>3 DEF GainInv, Within
<1>2. IInv /\ OnlyTicker /\ GainInv /\ [Next]_vars => OnlyTicker' /\ GainInv'
  BY OnlyTickerHolds, GainHolds DEF IInv
<1>3. IInv /\ OnlyTicker /\ GainInv /\ [Next]_vars =>
        [file' # file /\ file'.kind = "data" => Within(Kept, file'.data)]_vars
  <2> SUFFICES ASSUME IInv, OnlyTicker, GainInv, [Next]_vars,
                      file' # file, file'.kind = "data"
               PROVE  Within(Kept, file'.data)
    OBVIOUS
  <2>1. PICK s \in Savers : Saving(s)
    BY DEF Next, Arrive, Handling, Update, SyncSave, Ack, Tick, FinalSave, Stopping, Signal,
           Expire, ShutdownReturns, Exit, Crash, Boot, Stopped, vars
  <2>2. save[Ticker].pc = "write" /\ file'.data = save[Ticker].snapshot
    BY <2>1, TickerStep DEF IInv, Corrupt
  <2> QED
    BY <2>2 DEF GainInv
<1> QED
  BY SpecIInv, <1>1, <1>2, <1>3, PTL DEF Spec, FileOnlyGains


\* From the signal on, the ticker's final save brings what the store was then.
Leaving == Signalled \/ (process = "down" /\ ended = "clean")

SignalInv ==
  LET saving == save[Ticker]
  IN /\ ticker \in {"final", "done"} => process # "serving"
     /\ Signalled => Within(atSignal, store)
     /\ Signalled /\ ticker = "final" =>
          /\ saving.pc = "second" => atSignal["counters"] \subseteq saving.snapshot["counters"]
          /\ saving.pc \in {"open", "write"} => Within(atSignal, saving.snapshot)
     /\ Leaving /\ ticker = "done" => file.kind = "data" /\ Within(atSignal, file.data)
     /\ process = "down" /\ ended = "clean" => ticker = "done"

LEMMA SignalHolds ==
  ASSUME Mode = "interval", DiskFails = FALSE, TypeOK, OnlyTicker, SignalInv, [Next]_vars
  PROVE  SignalInv'
<1> USE DEF Within, Maps
<1>1. ASSUME NEW r \in Requests, Update(r) PROVE SignalInv'
  <2>1. /\ \A m \in Maps : store[m] \subseteq store'[m]
        /\ UNCHANGED <<save, file, ticker, process, ended, atSignal>>
    BY <1>1 DEF Update, history, lifecycle
  <2> QED
    BY <2>1 DEF SignalInv, Leaving, Signalled
<1>2. ASSUME NEW s \in Savers, Saving(s) PROVE SignalInv'
  <2>1. process # "down" /\ ticker \in {"saving", "final"}
    BY <1>2, TickerSaves DEF Saving, SecondRead, Truncate, Write, SaveFails, Up, TypeOK
  <2> QED
    BY <1>2, <2>1, TickerStep DEF SignalInv, Leaving, Signalled
<1>3. CASE Tick \/ FinalSave
  <2>1. process # "down"
    BY <1>3 DEF Tick, FinalSave, Up, Signalled
  <2> QED
    BY <1>3, <2>1, TickerStarts DEF SignalInv, Leaving, Signalled
<1>4. CASE Boot
  BY <1>4 DEF Boot, TickerAtBoot, SignalInv, Leaving, Signalled
<1>5. CASE Signal
  BY <1>5 DEF Signal, SignalInv, Leaving, Signalled
<1>6. CASE Expire \/ ShutdownReturns
  BY <1>6 DEF Expire, ShutdownReturns, history, SignalInv, Leaving, Signalled
<1>7. CASE Exit
  <2>1. /\ process = "waiting" /\ process' = "down"
        /\ ended' = "clean" => ticker = "done"
        /\ UNCHANGED <<store, file, save, ticker, atSignal>>
    BY <1>7 DEF Exit, BackupDone
  <2> QED
    BY <2>1 DEF SignalInv, Leaving, Signalled
<1>8. CASE Crash
  BY <1>8 DEF Crash, SignalInv, Leaving, Signalled
<1>9. ASSUME UNCHANGED <<store, file, save, ticker, process, ended, atSignal>> PROVE SignalInv'
  BY <1>9 DEF SignalInv, Leaving, Signalled
<1>10. CASE (\E r \in Requests : Arrive(r) \/ Ack(r)) \/ Stopped \/ UNCHANGED vars
  BY <1>9, <1>10 DEF Arrive, Ack, Stopped, vars, history, lifecycle
<1>11. ASSUME NEW r \in Requests, SyncSave(r) PROVE SignalInv'
  BY <1>11 DEF SyncSave
<1> QED
  BY <1>1, <1>2, <1>3, <1>4, <1>5, <1>6, <1>7, <1>8, <1>10, <1>11
     DEF Next, Handling, Stopping

\* file_backup.go, Start, and storage.go, WaitBackup: on a disk that takes it,
\* an exit within the budget leaves a file with every update made before the
\* signal.
THEOREM BackupCleanExit ==
  ASSUME Mode = "interval", DiskFails = FALSE
  PROVE  Spec => []CleanExitSavesUntilSignal
<1>1. Init => OnlyTicker /\ SignalInv
  BY OnlyTickerHolds DEF Init, TickerAtBoot, SignalInv, Leaving, Signalled
<1>2. IInv /\ OnlyTicker /\ SignalInv /\ [Next]_vars => OnlyTicker' /\ SignalInv'
  BY OnlyTickerHolds, SignalHolds DEF IInv
<1>3. SignalInv => CleanExitSavesUntilSignal
  BY DEF SignalInv, Leaving, CleanExitSavesUntilSignal
<1> QED
  BY SpecIInv, <1>1, <1>2, <1>3, PTL DEF Spec

-----------------------------------------------------------------------------
(* The synchronous mode with one update at a time.                          *)

Serial == \A q, r \in Requests : Served(q) /\ Served(r) => q = r

\* There is no goroutine of Start.
NoTicker == ticker = "done"

Synced == store = Nothing \/ file = [kind |-> "data", data |-> store]

\* Between requests the file is what the store is, and the only save under way
\* copies a store that nobody changes.
SyncInv ==
  Up =>
    /\ (\A r \in Requests : request[r] \notin {"updated", "saving"}) => Synced
    /\ \A r \in Requests : request[r] = "saving" =>
         /\ save[r].pc = "second" => save[r].snapshot["counters"] = store["counters"]
         /\ save[r].pc = "open" => save[r].snapshot = store
         /\ save[r].pc = "write" => save[r].snapshot = store /\ file.kind = "empty"

OneAtATime == TypeOK /\ Serial /\ NoTicker /\ SyncInv

LEMMA SaverIsRequest ==
  ASSUME OneAtATime, NEW s \in Savers, save[s].pc # "off"
  PROVE  s \in Requests /\ s # Ticker /\ request[s] = "saving" /\ Served(s)
BY BackupAssumption DEF OneAtATime, NoTicker, TypeOK, Savers, Served

\* A step that takes one request on, from one state in which it is served to
\* another or to none.
LEMMA TakesOn ==
  ASSUME OneAtATime, NEW r \in Requests, Served(r), NEW pc,
         request' = [request EXCEPT ![r] = pc]
  PROVE  /\ Serial'
         /\ request'[r] = pc
         /\ \A q \in Requests \ {r} : request'[q] \notin {"open", "updated", "saving", "saved"}
<1>1. /\ request'[r] = pc
      /\ \A q \in Requests \ {r} : request'[q] = request[q] /\ ~Served(q)
  BY DEF OneAtATime, Serial, TypeOK
<1>2. \A q \in Requests \ {r} : request'[q] \notin {"open", "updated", "saving", "saved"}
  BY <1>1 DEF Served
<1>3. Serial'
  BY <1>2 DEF Serial, Served
<1> QED
  BY <1>1, <1>2, <1>3

LEMMA SyncHandling ==
  ASSUME Mode = "sync", MaxOpen = 1, IsFiniteSet(Requests), OneAtATime,
         NEW r \in Requests, Arrive(r) \/ Handling(r)
  PROVE  Serial' /\ NoTicker' /\ SyncInv'
<1> USE DEF OneAtATime
<1>1. CASE Arrive(r)
  <2>1. \A q \in Requests : ~Served(q)
    <3> DEFINE served == {q \in Requests : Served(q)}
    <3>1. IsFiniteSet(served)
      BY FS_Subset
    <3>2. Cardinality(served) = 0
      BY <1>1, <3>1, FS_CardinalityType DEF Arrive
    <3>3. served = {}
      BY <3>1, <3>2, FS_EmptySet
    <3> QED
      BY <3>3
  <2>2. /\ request'[r] = "open" /\ \A q \in Requests \ {r} : request'[q] = request[q]
        /\ UNCHANGED <<store, file, save, ticker, process>>
    BY <1>1 DEF Arrive, TypeOK, lifecycle
  <2>3. Serial' /\ NoTicker'
    BY <2>1, <2>2 DEF Serial, Served, NoTicker
  <2>4. SyncInv'
    BY <2>1, <2>2 DEF SyncInv, Synced, Served, Up
  <2> QED
    BY <2>3, <2>4
<1>2. CASE Update(r)
  <2>1. /\ Served(r) /\ request' = [request EXCEPT ![r] = "updated"]
        /\ UNCHANGED <<file, save, ticker, process>>
    BY <1>2 DEF Update, Served, lifecycle
  <2>2. /\ Serial' /\ request'[r] = "updated"
        /\ \A q \in Requests \ {r} : request'[q] \notin {"open", "updated", "saving", "saved"}
    BY <2>1, TakesOn
  <2> QED
    BY <2>1, <2>2 DEF SyncInv, NoTicker
<1>3. CASE SyncSave(r)
  <2>1. /\ Served(r) /\ request' = [request EXCEPT ![r] = "saving"] /\ EnterSave(r)
        /\ UNCHANGED <<store, file, ticker, process>> /\ r \in Savers
    BY <1>3 DEF SyncSave, Served, lifecycle, Savers
  <2>2. /\ Serial' /\ request'[r] = "saving"
        /\ \A q \in Requests \ {r} : request'[q] \notin {"open", "updated", "saving", "saved"}
    BY <2>1, TakesOn
  <2>3. save'[r].pc = "second" /\ save'[r].snapshot["counters"] = store["counters"]
    BY <2>1, EnterSaveType
  <2> QED
    BY <2>1, <2>2, <2>3 DEF SyncInv, NoTicker
<1>4. CASE Ack(r)
  <2>1. /\ request[r] = "saved" /\ Served(r) /\ request' = [request EXCEPT ![r] = "acked"]
        /\ Up /\ UNCHANGED <<store, file, save, ticker, process>>
    BY <1>4 DEF Ack, AckAfter, Served, lifecycle
  <2>2. /\ Serial' /\ request'[r] = "acked"
        /\ \A q \in Requests \ {r} : request'[q] \notin {"open", "updated", "saving", "saved"}
    BY <2>1, TakesOn
  <2>3. \A q \in Requests : request[q] \notin {"updated", "saving"}
    BY <2>1 DEF Serial, Served
  <2>4. Synced
    BY <2>1, <2>3 DEF SyncInv
  <2> QED
    BY <2>1, <2>2, <2>4 DEF SyncInv, NoTicker, Synced
<1> QED
  BY <1>1, <1>2, <1>3, <1>4 DEF Handling

LEMMA SyncSaving ==
  ASSUME Mode = "sync", DiskFails = FALSE, OneAtATime, NEW s \in Savers, Saving(s)
  PROVE  Serial' /\ NoTicker' /\ SyncInv'
<1> USE DEF OneAtATime
<1>1. Up /\ save[s].pc # "off" /\ UNCHANGED <<store, process>>
  BY DEF Saving, SecondRead, Truncate, Write, SaveFails, lifecycle
<1>2. /\ s \in Requests /\ s # Ticker /\ request[s] = "saving" /\ Served(s)
      /\ \A q \in Requests \ {s} : request[q] \notin {"open", "updated", "saving", "saved"}
  BY <1>1, SaverIsRequest DEF Serial, Served
<1>3. CASE SecondRead(s)
  <2>1. /\ UNCHANGED <<file, request, ticker>> /\ save[s].pc = "second"
        /\ save' \in [Savers -> SaveRecords] /\ save'[s].pc = "open"
        /\ save'[s].snapshot["counters"] = save[s].snapshot["counters"]
        /\ save'[s].snapshot["gauges"] = store["gauges"]
    BY <1>3, SecondReadDoes
  <2>2. save[s].snapshot["counters"] = store["counters"]
    BY <1>1, <1>2, <2>1 DEF SyncInv
  <2>3. save'[s].snapshot = store
    BY <1>2, <2>1, <2>2 DEF TypeOK, SaveRecords, Snapshots, Maps
  <2> QED
    BY <1>1, <1>2, <2>1, <2>3 DEF SyncInv, Serial, Served, NoTicker
<1>4. CASE Truncate(s)
  <2>1. /\ UNCHANGED <<request, ticker>> /\ save[s].pc = "open"
        /\ save'[s].pc = "write" /\ save'[s].snapshot = save[s].snapshot
        /\ file'.kind = "empty"
    BY <1>4 DEF Truncate, TypeOK
  <2> QED
    BY <1>1, <1>2, <2>1 DEF SyncInv, Serial, Served, NoTicker
<1>5. CASE Write(s)
  <2>1. /\ save[s].pc = "write" /\ file' \in Written(save[s].snapshot)
        /\ SaveReturns(s)
    BY <1>5 DEF Write
  <2>2. save[s].snapshot = store /\ file.kind = "empty"
    BY <1>1, <1>2, <2>1 DEF SyncInv
  <2>3. file' = [kind |-> "data", data |-> store]
    BY <2>1, <2>2 DEF Written
  <2>4. UNCHANGED ticker /\ request' = [request EXCEPT ![s] = "saved"]
    BY <1>1, <1>2, <2>1, SaveReturnsDoes
  <2>5. /\ Serial' /\ request'[s] = "saved"
        /\ \A q \in Requests \ {s} : request'[q] \notin {"open", "updated", "saving", "saved"}
    BY <1>2, <2>4, TakesOn
  <2> QED
    BY <1>1, <2>3, <2>4, <2>5 DEF SyncInv, Synced, NoTicker
<1>6. ~SaveFails(s)
  BY DEF SaveFails
<1> QED
  BY <1>3, <1>4, <1>5, <1>6 DEF Saving

LEMMA SyncBoot ==
  ASSUME Mode = "sync", OneAtATime, Boot
  PROVE  Serial' /\ NoTicker' /\ SyncInv'
<1>1. /\ \A r \in Requests : request'[r] \notin {"open", "updated", "saving", "saved"}
      /\ ticker' = "done"
  BY DEF Boot, Served, TickerAtBoot, OneAtATime, TypeOK
<1>2. Synced'
  BY DEF Boot, Restored, Synced, OneAtATime, TypeOK
<1> QED
  BY <1>1, <1>2 DEF Serial, Served, NoTicker, SyncInv

LEMMA OneAtATimeHolds ==
  ASSUME Mode = "sync", MaxOpen = 1, DiskFails = FALSE, IsFiniteSet(Requests)
  PROVE  Spec => []OneAtATime
<1>1. Init => OneAtATime
  BY InitType DEF Init, OneAtATime, Serial, Served, NoTicker, TickerAtBoot, SyncInv, Synced
<1>2. OneAtATime /\ [Next]_vars => OneAtATime'
  <2> SUFFICES ASSUME OneAtATime, [Next]_vars PROVE OneAtATime'
    OBVIOUS
  <2>1. TypeOK'
    BY NextType DEF OneAtATime
  <2>2. CASE \E r \in Requests : Arrive(r) \/ Handling(r)
    BY <2>1, <2>2, SyncHandling DEF OneAtATime
  <2>3. CASE \E s \in Savers : Saving(s)
    BY <2>1, <2>3, SyncSaving DEF OneAtATime
  <2>4. CASE Tick \/ FinalSave
    BY <2>4 DEF Tick, FinalSave, OneAtATime, NoTicker
  <2>5. CASE Stopping \/ Crash \/ Stopped \/ UNCHANGED vars
    <3>1. UNCHANGED <<store, file, request, save, ticker>> /\ (Up' => Up)
      BY <2>5 DEF Stopping, Signal, Expire, ShutdownReturns, Exit, Crash, Stopped, vars,
         lifecycle, history, Up, Signalled
    <3> QED
      BY <2>1, <3>1 DEF OneAtATime, Serial, Served, NoTicker, SyncInv, Synced
  <2>6. CASE Boot
    BY <2>1, <2>6, SyncBoot DEF OneAtATime
  <2> QED
    BY <2>2, <2>3, <2>4, <2>5, <2>6 DEF Next
<1> QED
  BY <1>1, <1>2, PTL DEF Spec

\* sync_backup_storage.go:79 with one update at a time and a disk that takes it:
\* whenever no request is open the file is what the store is, over any number of
\* requests, crashes and restarts.
THEOREM BackupSyncFile ==
  ASSUME Mode = "sync", MaxOpen = 1, DiskFails = FALSE, IsFiniteSet(Requests)
  PROVE  Spec => []SyncFileIsStore
<1>1. OneAtATime => SyncFileIsStore
  BY DEF OneAtATime, SyncInv, Synced, SyncFileIsStore, Served
<1> QED
  BY <1>1, OneAtATimeHolds, PTL
=============================================================================
