------------------------------- MODULE Metrics -------------------------------
(***************************************************************************)
(* The metrics of a request: how the handlers check them, how SaveBatch    *)
(* folds a list of them, and what an update does to a stored value.        *)
(* A key stands for a type and a name: gauges and counters live in two     *)
(* maps, or two tables, so that equal names of different types never meet. *)
(***************************************************************************)
EXTENDS Integers, Sequences, FiniteSets, FiniteSetsExt

CONSTANTS Gauges,    \* the names of gauges
          Counters,  \* the names of counters
          NoName,    \* the empty name of a request
          NoType,    \* a type that is neither gauge nor counter
          Missing,   \* a metric sent without its value, or with no number
          Absent,    \* no row, or no entry, for a key
          Half,      \* 2^63: counters are int64 in Go and BIGINT in the tables
          Bodies     \* the requests clients send

Keys == Gauges \cup Counters

Int64 == -Half .. Half - 1

\* Signed addition of Go: it wraps.
Wrap(x) == ((x + Half) % (2 * Half)) - Half

(* The handlers' checks *)

\* The status a metric is refused with, "200" if it is none.
Status(m) ==
  IF m.key = NoName THEN "404"
  ELSE IF m.key = NoType \/ m.value = Missing THEN "400"
  ELSE "200"

\* A list is refused as a whole, for its first bad metric.
ListStatus(ms) ==
  LET bad == {i \in DOMAIN ms : Status(ms[i]) # "200"}
  IN IF bad = {} THEN "200" ELSE Status(ms[Min(bad)])

\* What a request is refused with before the repository is called. A read
\* looks only at the type; a name that is not there is found missing later.
Checked(b) ==
  CASE b.call \in {"save", "batch"} -> ListStatus(b.metrics)
    [] b.call = "get" /\ b.metrics[1].key = NoType -> "400"
    [] OTHER -> "200"

(* The repositories' folding of a list into one change for each key *)

Places(ms, k) == {i \in DOMAIN ms : ms[i].key = k}

Folded(ms) ==
  [k \in {ms[i].key : i \in DOMAIN ms} |->
     IF k \in Gauges THEN ms[Max(Places(ms, k))].value
     ELSE Wrap(SumFunctionOnSet([i \in DOMAIN ms |-> ms[i].value], Places(ms, k)))]

Writes(b) == b.call \in {"save", "batch"} /\ b.metrics # <<>> /\ Checked(b) = "200"

\* What a request changes: nothing, or one value for each of its keys.
Change(b) == IF Writes(b) THEN Folded(b.metrics) ELSE <<>>

(* The upsert: a gauge is replaced, a counter is added to *)

\* Variant: ON CONFLICT DO UPDATE SET value = EXCLUDED.value, for both tables.
Replace(old, k, x) == x

Upsert(old, k, x) == IF k \in Gauges \/ old = Absent THEN x ELSE old + x

\* The maps after a whole change, counters wrapped to 64 bits.
After(rows, change) ==
  [k \in Keys |->
     IF k \notin DOMAIN change THEN rows[k]
     ELSE IF k \in Gauges THEN change[k]
     ELSE Wrap(Upsert(rows[k], k, change[k]))]

\* No counter of a change leaves the range of BIGINT.
Fits(rows, change) ==
  \A k \in DOMAIN change \cap Counters : Upsert(rows[k], k, change[k]) \in Int64

\* The new value that the answer to a single update carries.
Total(rows, b) ==
  IF b.call = "save" THEN rows[b.metrics[1].key] ELSE Absent

Value == Int64 \cup {Absent}

\* Half is positive and the special values are none of the others. A request has
\* one of the routes, one metric where a route names one, and in each metric a
\* number that JSON or the path of the URL was read into, or none.
ASSUME MetricsAssumption ==
  /\ Half \in Nat \ {0}
  /\ Gauges \cap Counters = {}
  /\ {Missing, Absent} \cap Int = {}
  /\ {NoName, NoType} \cap Keys = {}
  /\ Bodies \subseteq
       [call    : {"save", "batch", "get", "list", "ping"},
        metrics : Seq([key : Keys \cup {NoName, NoType}, value : Int64 \cup {Missing}])]
  /\ \A b \in Bodies : b.call \in {"save", "get"} => Len(b.metrics) = 1
=============================================================================
