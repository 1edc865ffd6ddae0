------------------------------- MODULE Backup -------------------------------
(***************************************************************************)
(* The in-memory metrics of the server and their backup file:              *)
(* internal/server/adapter/out/memory/storage_metric.go, file_backup.go,   *)
(* sync_backup_storage.go and storage.go, with the order of the shutdown   *)
(* in cmd/server/main.go and internal/server/app/app.go.                   *)
(*                                                                         *)
(* Data.  A request is one update; it is part of the gauges, of the        *)
(* counters, or (a batch) of both.  Each map is the set of the updates its *)
(* values reflect: a counter is the sum of them, a gauge the last of them. *)
(* A snapshot is one such set per map.                                     *)
(***************************************************************************)
EXTENDS Naturals, FiniteSets

CONSTANTS Requests,  \* the updates clients send, one each
          Ticker,    \* the goroutine of FileBackup.Start
          Mode,      \* "sync": interval = 0, "interval": interval > 0
          Restore,   \* cfg.Restore
          DiskFails, \* may Save fail?
          MaxOpen,   \* bound: requests served at once
          MaxBoots   \* bound: starts of the process

ASSUME BackupAssumption ==
  /\ Ticker \notin Requests
  /\ Mode \in {"sync", "interval"}
  /\ Restore \in BOOLEAN
  /\ DiskFails \in BOOLEAN
  /\ MaxOpen \in Nat
  /\ MaxBoots \in Nat \ {0}

VARIABLES
  store,      \* MetricStore: gauges and counters
  file,       \* [kind, data]: the backup file
  request,    \* where each request is
  parts,      \* which maps each request changed (history)
  save,       \* each goroutine that may run Save: [pc, snapshot]
  ticker,     \* the goroutine of Start
  process,    \* main: serving, in Shutdown, in WaitBackup, or gone
  expired,    \* the 5 s of the shutdown are over
  boots,      \* starts so far
  ended,      \* how the last process ended (history)
  atSignal,   \* the store when the signal arrived (history)
  lastSaved,  \* the last snapshot written (history)
  lost        \* what was saved and a start found destroyed (history)

history == <<ended, atSignal, lastSaved, lost>>
lifecycle == <<process, expired, boots>>
vars == <<store, file, request, parts, save, ticker, lifecycle, history>>

Savers == Requests \union {Ticker}
Maps == {"gauges", "counters"}
Snapshots == [Maps -> SUBSET Requests]
Nothing == [m \in Maps |-> {}]
Corrupt == [kind |-> "corrupt", data |-> Nothing]
Within(a, b) == \A m \in Maps : a[m] \subseteq b[m]

Up == process # "down"
Signalled == process \in {"stopping", "waiting"}
Served(r) == request[r] \in {"open", "updated", "saving", "saved"}

TypeOK ==
  /\ store \in Snapshots
  /\ file \in [kind : {"missing", "empty", "corrupt", "data"}, data : Snapshots]
  /\ request \in [Requests ->
       {"idle", "open", "updated", "saving", "saved", "acked", "failed"}]
  /\ parts \in [Requests -> SUBSET Maps]
  /\ save \in [Savers -> [pc : {"off", "second", "open", "write"}, snapshot : Snapshots]]
  /\ ticker \in {"select", "saving", "final", "done"}
  /\ process \in {"serving", "stopping", "waiting", "down"}
  /\ expired \in BOOLEAN
  /\ boots \in 1..MaxBoots
  /\ ended \in {"never", "clean", "late", "crash"}
  /\ atSignal \in Snapshots
  /\ lastSaved \in Snapshots
  /\ lost \in Snapshots
  \* a goroutine is in Save exactly when its loop or its handler says so
  /\ save[Ticker].pc # "off" <=> ticker \in {"saving", "final"}
  /\ \A r \in Requests : save[r].pc # "off" <=> request[r] = "saving"

NoSave == [s \in Savers |-> [pc |-> "off", snapshot |-> Nothing]]
\* Start returns a closed channel when interval <= 0.
TickerAtBoot == IF Mode = "interval" THEN "select" ELSE "done"

Init ==
  /\ store = Nothing
  /\ file = [kind |-> "missing", data |-> Nothing]
  /\ request = [r \in Requests |-> "idle"]
  /\ parts = [r \in Requests |-> {}]
  /\ save = NoSave
  /\ ticker = TickerAtBoot
  /\ process = "serving"
  /\ expired = FALSE
  /\ boots = 1
  /\ ended = "never"
  /\ atSignal = Nothing
  /\ lastSaved = Nothing
  /\ lost = Nothing

-----------------------------------------------------------------------------
(* The handlers.                                                            *)

\* A request arrives while the server listens, or on a connection Shutdown
\* has not found idle yet.
Arrive(r) ==
  /\ process \in {"serving", "stopping"}
  /\ request[r] = "idle"
  /\ Cardinality({q \in Requests : Served(q)}) < MaxOpen
  /\ request' = [request EXCEPT ![r] = "open"]
  /\ UNCHANGED <<store, file, parts, save, ticker, lifecycle, history>>

\* UpdateGauge, UpdateCounter or UpdateBatch, each one critical section.
Update(r) ==
  /\ Up
  /\ request[r] = "open"
  /\ \E changed \in SUBSET Maps \ {{}} :
       /\ store' = [m \in Maps |-> IF m \in changed THEN store[m] \union {r} ELSE store[m]]
       /\ parts' = [parts EXCEPT ![r] = changed]
  /\ request' = [request EXCEPT ![r] = "updated"]
  /\ UNCHANGED <<file, save, ticker, lifecycle, history>>

\* The answer is sent; SyncBackupStorage saves first and ignores its error.
AckFirst == "updated"
AckAfter == IF Mode = "sync" THEN "saved" ELSE "updated"
Ack(r) ==
  /\ Up
  /\ request[r] = AckAfter
  /\ request' = [request EXCEPT ![r] = "acked"]
  /\ UNCHANGED <<store, file, parts, save, ticker, lifecycle, history>>

-----------------------------------------------------------------------------
(* Save: GetAllCounters, GetAllGauges, then WriteFile, which truncates the  *)
(* file and writes from its start.                                          *)

\* The map read first; the variant swaps the two.
GaugesFirst == "gauges"
FirstMap == "counters"
SecondMap == CHOOSE m \in Maps : m # FirstMap

\* The first read, as goroutine s enters Save.
EnterSave(s) ==
  save' = [save EXCEPT ![s] = [pc |-> "second",
                               snapshot |-> [Nothing EXCEPT ![FirstMap] = store[FirstMap]]]]

SyncSave(r) ==
  /\ Up
  /\ Mode = "sync"
  /\ request[r] = "updated"
  /\ request' = [request EXCEPT ![r] = "saving"]
  /\ EnterSave(r)
  /\ UNCHANGED <<store, file, parts, ticker, lifecycle, history>>

\* case <-ticker.C.
Tick ==
  /\ Up
  /\ ticker = "select"
  /\ ticker' = "saving"
  /\ EnterSave(Ticker)
  /\ UNCHANGED <<store, file, request, parts, lifecycle, history>>

\* case <-ctx.Done(): the context of main, done from the signal on.
FinalSave ==
  /\ Up
  /\ ticker = "select"
  /\ Signalled
  /\ ticker' = "final"
  /\ EnterSave(Ticker)
  /\ UNCHANGED <<store, file, request, parts, lifecycle, history>>

SecondRead(s) ==
  /\ Up
  /\ save[s].pc = "second"
  /\ save' = [save EXCEPT ![s].pc = "open", ![s].snapshot[SecondMap] = store[SecondMap]]
  /\ UNCHANGED <<store, file, request, parts, ticker, lifecycle, history>>

\* os.OpenFile with O_TRUNC.
Truncate(s) ==
  /\ Up
  /\ save[s].pc = "open"
  /\ save' = [save EXCEPT ![s].pc = "write"]
  /\ file' = [kind |-> "empty", data |-> Nothing]
  /\ UNCHANGED <<store, request, parts, ticker, lifecycle, history>>

\* What the file holds once its first bytes are those of the snapshot: when
\* another goroutine wrote since this one truncated, and wrote more bytes, the
\* rest of them stays behind and the JSON is broken.
Written(snapshot) ==
  LET new == [kind |-> "data", data |-> snapshot]
  IN {new} \union
     IF file.kind = "empty" \/ file = new THEN {}
     ELSE {Corrupt}

\* Save returns to the ticker's loop or to the handler, which only log its
\* error; the variant never comes back to the select.
StayInBranch == ticker
AfterTickerSave == IF ticker = "final" THEN "done" ELSE "select"

SaveReturns(s) ==
  /\ save' = [save EXCEPT ![s] = [pc |-> "off", snapshot |-> Nothing]]
  /\ IF s = Ticker
     THEN ticker' = AfterTickerSave /\ UNCHANGED request
     ELSE request' = [request EXCEPT ![s] = "saved"] /\ UNCHANGED ticker

Write(s) ==
  /\ Up
  /\ save[s].pc = "write"
  /\ file' \in Written(save[s].snapshot)
  /\ lastSaved' = save[s].snapshot
  /\ SaveReturns(s)
  /\ UNCHANGED <<store, parts, lifecycle, ended, atSignal, lost>>

\* The snapshot cannot be encoded (a gauge that is NaN or infinite), or the
\* file cannot be opened, or not be written to its end.
SaveFails(s) ==
  /\ Up
  /\ DiskFails
  /\ save[s].pc \in {"open", "write"}
  /\ file' \in IF save[s].pc = "open" THEN {file} ELSE {file, Corrupt}
  /\ SaveReturns(s)
  /\ UNCHANGED <<store, parts, lifecycle, history>>

-----------------------------------------------------------------------------
(* The life of the process.                                                 *)

Signal ==
  /\ process = "serving"
  /\ process' = "stopping"
  /\ atSignal' = store
  /\ UNCHANGED <<store, file, request, parts, save, ticker, expired, boots, ended, lastSaved, lost>>

Expire ==
  /\ Signalled
  /\ ~expired
  /\ expired' = TRUE
  /\ UNCHANGED <<store, file, request, parts, save, ticker, process, boots, history>>

\* Shutdown waits for the requests being served, within its budget.
ShutdownReturns ==
  /\ process = "stopping"
  /\ expired \/ \A r \in Requests : ~Served(r)
  /\ process' = "waiting"
  /\ UNCHANGED <<store, file, request, parts, save, ticker, expired, boots, history>>

\* WaitBackup returns when the goroutine is done or the budget is spent, and
\* main returns; the variant does not wait.
NoWait == TRUE
BackupDone == ticker = "done"

Exit ==
  /\ process = "waiting"
  /\ BackupDone \/ expired
  /\ process' = "down"
  /\ ended' = IF expired THEN "late" ELSE "clean"
  /\ UNCHANGED <<store, file, request, parts, save, ticker, expired, boots, atSignal, lastSaved, lost>>

Crash ==
  /\ Up
  /\ process' = "down"
  /\ ended' = "crash"
  /\ UNCHANGED <<store, file, request, parts, save, ticker, expired, boots, atSignal, lastSaved, lost>>

\* Restore reads the whole file or nothing: a missing file is no error, one
\* that is not JSON is only warned of.  The variant forgets the gauges.
RestoredCounters ==
  [m \in Maps |-> IF Restore /\ file.kind = "data" /\ m = "counters" THEN file.data[m] ELSE {}]
Restored == IF Restore /\ file.kind = "data" THEN file.data ELSE Nothing

\* NewMemoryStorage; what was being served before is gone without an answer.
Boot ==
  /\ process = "down"
  /\ boots < MaxBoots
  /\ process' = "serving"
  /\ boots' = boots + 1
  /\ expired' = FALSE
  /\ store' = Restored
  /\ lost' = IF file.kind \in {"empty", "corrupt"}
             THEN [m \in Maps |-> lost[m] \union lastSaved[m]] ELSE lost
  /\ request' = [r \in Requests |-> IF Served(r) THEN "failed" ELSE request[r]]
  /\ save' = NoSave
  /\ ticker' = TickerAtBoot
  /\ UNCHANGED <<file, parts, ended, atSignal, lastSaved>>

Stopped ==
  /\ process = "down"
  /\ boots = MaxBoots
  /\ UNCHANGED vars

-----------------------------------------------------------------------------
Handling(r) == Update(r) \/ SyncSave(r) \/ Ack(r)
Saving(s) == SecondRead(s) \/ Truncate(s) \/ Write(s) \/ SaveFails(s)
Stopping == Signal \/ Expire \/ ShutdownReturns \/ Exit

Next ==
  \/ \E r \in Requests : Arrive(r) \/ Handling(r)
  \/ \E s \in Savers : Saving(s)
  \/ Tick \/ FinalSave
  \/ Stopping \/ Crash \/ Boot \/ Stopped

Spec == Init /\ [][Next]_vars

(* The ticker fires again and again and a goroutine inside Save goes on.    *)
(* A request, a signal, a crash or a restart need not come.                 *)
FairSpec ==
  /\ Spec
  /\ WF_vars(Tick) /\ SF_vars(FinalSave)
  /\ \A s \in Savers : WF_vars(Saving(s))
  /\ \A r \in Requests : WF_vars(Handling(r))
  /\ WF_vars(Expire) /\ WF_vars(ShutdownReturns) /\ WF_vars(Exit)

-----------------------------------------------------------------------------
(* Properties.                                                              *)

\* Save reads the two maps in two critical sections, so the file can be a
\* state the store never was in; but it never counts a batch whose gauges it
\* lacks, and neither does a store restored from it.
NoCountersWithoutGauges ==
  \A r \in Requests : parts[r] = Maps =>
    /\ r \in store["counters"] => r \in store["gauges"]
    /\ r \in file.data["counters"] => r \in file.data["gauges"]

\* With the background backup and a disk that takes it, a shutdown that keeps
\* its budget leaves a readable file with every update made before the signal,
\* whatever save was running when the signal came.
CleanExitSavesUntilSignal ==
  process = "down" /\ ended = "clean" => /\ file.kind = "data"
                                         /\ Within(atSignal, file.data)

\* With one goroutine saving a save never drops what an earlier one wrote, over any
\* errors, crashes and restarts.  The one way for a saved update to go is that a
\* start finds the file truncated or half written: then the whole snapshot is lost
\* (see RestoreIsAllOrNothing), and the saves after it begin anew.
Kept == [m \in Maps |-> lastSaved[m] \ lost[m]]
FileOnlyGains ==
  [][file' # file /\ file'.kind = "data" => Within(Kept, file'.data)]_vars

\* A restart finds the last snapshot that any run wrote as a whole or, when a crash
\* or an error came between the truncation and the end of a write, nothing; never a
\* part of it.
RestoreIsAllOrNothing ==
  [][boots' # boots => store' = Nothing \/ (Restore /\ store' = lastSaved)]_vars

\* With the background backup each update reaches the file unless the process
\* ends first.
UpdatesAreSaved ==
  \A r \in Requests, m \in Maps :
    (r \in store[m]) ~> (r \in file.data[m] \/ process = "down")

-----------------------------------------------------------------------------
(* What a test says of the backup.                                         *)

\* file_backup_test.go:64: SyncBackupStorage writes the file after each
\* update, and restoring it brings the values back: with no request being
\* served the file is what the store is.
SyncFileIsStore ==
  Up /\ store # Nothing /\ (\A r \in Requests : ~Served(r)) =>
    file = [kind |-> "data", data |-> store]
=============================================================================
