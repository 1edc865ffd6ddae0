---------------------------- MODULE StoreProofs ----------------------------
(***************************************************************************)
(* Proofs about the storage of the server, for any metrics, requests,      *)
(* bodies, width of the counters and size of the pool.                     *)
(***************************************************************************)
EXTENDS Store, FiniteSums

-----------------------------------------------------------------------------
(* What a change is made of.                                                *)

LEMMA WrapTyped == \A x \in Int : Wrap(x) \in Int64
BY MetricsAssumption DEF Wrap, Int64

LEMMA WrapInRange == \A x \in Int64 : Wrap(x) = x
BY MetricsAssumption DEF Wrap, Int64

\* Wrapping after every addition is wrapping the sum.
LEMMA WrapOfSum ==
  ASSUME NEW a \in Int, NEW x \in Int
  PROVE  Wrap(Wrap(a) + x) = Wrap(a + x)
<1> DEFINE N == 2 * Half
           m == (a + Half) % N
<1>1. N \in Nat \ {0} /\ Half \in Nat /\ a + Half \in Int /\ a + x \in Int
  BY MetricsAssumption
<1>2. (m + x) % N = ((a + Half) + x) % N
  BY <1>1, ModOfSum
<1>3. m \in Int
  BY <1>1
<1>4. (m - Half) + x + Half = m + x /\ (a + Half) + x = (a + x) + Half
  BY <1>1, <1>3
<1> QED
  BY <1>2, <1>4 DEF Wrap

LEMMA StatusValues == \A m : Status(m) \in {"200", "400", "404"}
BY DEF Status

LEMMA CheckedValues == \A b : Checked(b) \in {"200", "400", "404"}
<1>1. \A ms : ListStatus(ms) \in {"200", "400", "404"}
  BY StatusValues DEF ListStatus
<1> SUFFICES ASSUME NEW b PROVE Checked(b) \in {"200", "400", "404"}
  OBVIOUS
<1>2. CASE b.call \in {"save", "batch"}
  BY <1>1, <1>2 DEF Checked
<1>3. CASE b.call \notin {"save", "batch"} /\ b.call = "get" /\ b.metrics[1].key = NoType
  BY <1>3 DEF Checked
<1>4. CASE b.call \notin {"save", "batch"} /\ ~(b.call = "get" /\ b.metrics[1].key = NoType)
  BY <1>4 DEF Checked
<1> QED
  BY <1>2, <1>3, <1>4

Metric == [key : Keys \cup {NoName, NoType}, value : Int64 \cup {Missing}]

\* A list that is not refused names keys and gives each a number.
LEMMA AcceptedList ==
  ASSUME NEW ms \in Seq(Metric), ListStatus(ms) = "200"
  PROVE  \A i \in DOMAIN ms : ms[i].key \in Keys /\ ms[i].value \in Int64
<1> DEFINE bad == {i \in DOMAIN ms : Status(ms[i]) # "200"}
<1>1. bad = {}
  <2> SUFFICES ASSUME bad # {} PROVE FALSE
    OBVIOUS
  <2>1. bad \subseteq Nat
    OBVIOUS
  <2> HIDE DEF bad
  <2>2. Min(bad) \in bad
    BY <2>1, MinIn
  <2> QED
    BY <2>2 DEF ListStatus, bad
<1> SUFFICES ASSUME NEW i \in DOMAIN ms PROVE ms[i].key \in Keys /\ ms[i].value \in Int64
  OBVIOUS
<1>2. Status(ms[i]) = "200" /\ ms[i] \in Metric
  BY <1>1
<1> QED
  BY <1>2 DEF Status, Metric

\* Where a list names a key.
LEMMA PlacesOf ==
  ASSUME NEW ms \in Seq(Metric), NEW k
  PROVE  /\ IsFiniteSet(Places(ms, k)) /\ Places(ms, k) \subseteq DOMAIN ms
         /\ Places(ms, k) # {} => Max(Places(ms, k)) \in Places(ms, k)
<1>1. Places(ms, k) \subseteq 1 .. Len(ms) /\ Len(ms) \in Nat /\ DOMAIN ms = 1 .. Len(ms)
  BY DEF Places
<1>2. IsFiniteSet(1 .. Len(ms))
  BY <1>1, FS_Interval
<1>3. Places(ms, k) \subseteq 0 .. Len(ms)
  BY <1>1
<1> QED
  BY <1>1, <1>2, <1>3, FS_Subset, MaxIn

\* What an accepted request changes: each key it names, to a number of 64 bits.
LEMMA ChangeOf ==
  ASSUME NEW b \in Bodies, Writes(b)
  PROVE  /\ b.metrics \in Seq(Metric)
         /\ DOMAIN Change(b) = {b.metrics[i].key : i \in DOMAIN b.metrics}
         /\ DOMAIN Change(b) \subseteq Keys
         /\ \A k \in DOMAIN Change(b) : Change(b)[k] \in Int64
         /\ b.call = "save" => b.metrics[1].key \in DOMAIN Change(b)
<1> DEFINE ms == b.metrics
           value == [i \in DOMAIN ms |-> ms[i].value]
<1>1. /\ ms \in Seq(Metric) /\ b.call \in {"save", "batch"}
      /\ b.call = "save" => Len(ms) = 1
  BY MetricsAssumption DEF Writes, Metric
<1>2. ListStatus(ms) = "200"
  BY DEF Writes, Checked
<1> HIDE DEF ms
<1>3. \A i \in DOMAIN ms : ms[i].key \in Keys /\ ms[i].value \in Int64
  BY <1>1, <1>2, AcceptedList
<1>4. Change(b) = Folded(ms)
  BY DEF Change, ms
<1>5. DOMAIN Folded(ms) = {ms[i].key : i \in DOMAIN ms}
  BY DEF Folded
<1>6. ASSUME NEW k \in DOMAIN Folded(ms) PROVE Folded(ms)[k] \in Int64
  <2>1. Places(ms, k) # {}
    BY <1>5 DEF Places
  <2>2. /\ IsFiniteSet(Places(ms, k)) /\ Places(ms, k) \subseteq DOMAIN ms
        /\ Max(Places(ms, k)) \in DOMAIN ms
    BY <1>1, <2>1, PlacesOf
  <2>3. \A i \in Places(ms, k) : value[i] \in Int
    BY <1>3, <2>2 DEF Int64
  <2> HIDE DEF value
  <2>4. SumFunctionOnSet(value, Places(ms, k)) \in Int
    BY <2>2, <2>3, SumSplits DEF SplitsAt
  <2>5. Folded(ms)[k] = IF k \in Gauges THEN ms[Max(Places(ms, k))].value
                        ELSE Wrap(SumFunctionOnSet(value, Places(ms, k)))
    BY <1>5 DEF Folded, value
  <2> QED
    BY <1>3, <2>2, <2>4, <2>5, WrapTyped
<1> QED
  BY <1>1, <1>3, <1>4, <1>5, <1>6 DEF ms

\* A change gives some of the keys a number of 64 bits each.
LEMMA ChangeTyped ==
  ASSUME NEW b \in Bodies
  PROVE  /\ DOMAIN Change(b) \subseteq Keys
         /\ \A k \in DOMAIN Change(b) : Change(b)[k] \in Int64
<1>1. CASE Writes(b)
  BY <1>1, ChangeOf
<1>2. CASE ~Writes(b)
  BY <1>2 DEF Change
<1> QED
  BY <1>1, <1>2

LEMMA AfterTyped ==
  ASSUME NEW m \in [Keys -> Value], NEW b \in Bodies
  PROVE  After(m, Change(b)) \in [Keys -> Value]
<1> SUFFICES ASSUME NEW k \in Keys, k \in DOMAIN Change(b), k \notin Gauges
             PROVE  Wrap(Upsert(m[k], k, Change(b)[k])) \in Value
  BY ChangeTyped DEF After, Value
<1>1. Change(b)[k] \in Int /\ m[k] \in Int \cup {Absent}
  BY ChangeTyped DEF Int64, Value
<1>2. Upsert(m[k], k, Change(b)[k]) \in Int
  BY <1>1 DEF Upsert
<1> QED
  BY <1>2, WrapTyped DEF Value

LEMMA TotalTyped ==
  ASSUME NEW m \in [Keys -> Value], NEW b \in Bodies, Writes(b)
  PROVE  Total(m, b) \in Value
<1>1. b.call = "save" => b.metrics[1].key \in Keys
  BY ChangeOf
<1> QED
  BY <1>1 DEF Total, Value

\* The map reads a request as the storage does.
LEMMA SameFold == ASSUME NEW ms PROVE Map!Folded(ms) = Folded(ms)
<1>1. ASSUME NEW k PROVE Map!Max(Map!Places(ms, k)) = Max(Places(ms, k))
  BY DEF Map!Max, Max, Map!Places, Places
<1>2. ASSUME NEW k
      PROVE  Map!SumFunctionOnSet([i \in DOMAIN ms |-> ms[i].value], Map!Places(ms, k))
               = SumFunctionOnSet([i \in DOMAIN ms |-> ms[i].value], Places(ms, k))
  BY Zenon DEF Map!SumFunctionOnSet, SumFunctionOnSet, Map!FoldFunctionOnSet, FoldFunctionOnSet,
     Map!MapThenFoldSet, MapThenFoldSet, Map!Places, Places
<1> QED
  BY <1>1, <1>2, Zenon DEF Map!Folded, Folded, Map!Wrap, Wrap

LEMMA SameChange ==
  \A b : /\ Map!Writes(b) <=> Writes(b)
         /\ Map!Change(b) = Change(b)
<1>1. \A m : Map!Status(m) = Status(m)
  BY DEF Map!Status, Status
<1>2. \A S : Map!Min(S) = Min(S)
  BY DEF Map!Min, Min
<1>3. \A ms : Map!ListStatus(ms) = ListStatus(ms)
  BY <1>1, <1>2, Zenon DEF Map!ListStatus, ListStatus
<1>4. \A b : Map!Checked(b) = Checked(b)
  BY <1>3, Zenon DEF Map!Checked, Checked
<1>5. \A b : Map!Writes(b) <=> Writes(b)
  BY <1>4 DEF Map!Writes, Writes
<1> QED
  BY <1>5, SameFold, Zenon DEF Map!Change, Change

LEMMA SameAfter ==
  /\ \A m, c : Map!After(m, c) = After(m, c)
  /\ \A m, c : Map!Fits(m, c) <=> Fits(m, c)
  /\ \A m, b : Map!Total(m, b) = Total(m, b)
BY Zenon DEF Map!After, After, Map!Fits, Fits, Map!Total, Total, Map!Upsert, Upsert, Map!Wrap, Wrap,
   Map!Int64, Int64, Map!Keys, Keys

-----------------------------------------------------------------------------
(* The inductive invariant, of which most is about one request x.           *)

\* A request has a body from its arrival on.
BodyOK(x) ==
  /\ x.pc = "idle" => x = Idle
  /\ x.pc # "idle" => x.body \in Bodies

\* A page is read in order.
PageOK(x) ==
  /\ x.pc = "half" => x.body.call = "list" /\ x.page[1] \subseteq applied
  /\ x.pc = "200" /\ x.body.call = "list" => x.page[1] \subseteq x.page[2]

\* A transaction goes through the rows of its change.
TxOK(x) ==
  /\ x.pc # "tx" => DOMAIN x.writes = {}
  /\ x.pc = "tx" =>
       /\ backend = "postgres" /\ Writes(x.body)
       /\ DOMAIN x.writes \subseteq DOMAIN Change(x.body)
       /\ \/ x.wants = NoKey /\ DOMAIN x.writes = DOMAIN Change(x.body)
          \/ x.wants \in DOMAIN Change(x.body) \ DOMAIN x.writes

\* It has written to the rows it locked what the upsert makes of their
\* committed values.
WritesOK(x) ==
  \A k \in DOMAIN x.writes :
    /\ x.writes[k] = Upsert(rows[k], k, Change(x.body)[k])
    /\ k \in Counters => x.writes[k] \in Int64

RequestInv ==
  \A r \in Requests : /\ BodyOK(request[r]) /\ PageOK(request[r])
                      /\ TxOK(request[r]) /\ WritesOK(request[r])

\* No row is locked twice, so what a transaction saw of it is still committed.
LockInv == \A r, q \in Requests : r # q => Locked(r) \cap Locked(q) = {}

IInv == TypeOK /\ RequestInv /\ LockInv

LEMMA IdleTyped == Idle \in RequestType /\ DOMAIN Idle.writes = {}
<1>1. <<>> \in UNION {[S -> Int64] : S \in SUBSET Keys}
  <2>1. <<>> \in [{} -> Int64]
    OBVIOUS
  <2> QED
    BY <2>1
<1> QED
  BY <1>1 DEF Idle, RequestType, Value

LEMMA InitIInv == Init => IInv
<1> SUFFICES ASSUME Init PROVE IInv
  OBVIOUS
<1> USE DEF Init
<1>1. TypeOK
  BY IdleTyped DEF TypeOK, Value
<1>2. RequestInv /\ LockInv
  BY IdleTyped DEF RequestInv, BodyOK, PageOK, TxOK, WritesOK, LockInv, Locked, Idle
<1> QED
  BY <1>1, <1>2 DEF IInv

\* A step of a request to x that leaves the rows alone.
LEMMA RequestIInv ==
  ASSUME IInv, NEW r \in Requests, NEW x \in RequestType,
         request' = [request EXCEPT ![r] = x],
         UNCHANGED <<backend, rows, applied, server>>,
         BodyOK(x), PageOK(x), TxOK(x), WritesOK(x),
         \A q \in Requests : q # r => Locked(q) \cap DOMAIN x.writes = {}
  PROVE  IInv'
<1>1. /\ \A q \in Requests : q # r => request'[q] = request[q]
      /\ request'[r] = x
      /\ request' \in [Requests -> RequestType]
  BY DEF IInv, TypeOK
<1>2. TypeOK'
  BY <1>1 DEF IInv, TypeOK
<1>3. RequestInv'
  BY <1>1 DEF IInv, RequestInv, BodyOK, PageOK, TxOK, WritesOK
<1>4. LockInv'
  <2>1. Locked(r)' = DOMAIN x.writes
    BY <1>1 DEF Locked
  <2>2. \A q \in Requests : q # r => Locked(q)' = Locked(q)
    BY <1>1 DEF Locked
  <2> QED
    BY <2>1, <2>2 DEF IInv, LockInv
<1> QED
  BY <1>2, <1>3, <1>4 DEF IInv

\* A request that has no transaction is answered.
LEMMA AnswerIInv ==
  ASSUME IInv, NEW r \in Requests, NEW s \in Ended,
         request[r].pc \in {"open", "half"}, Answer(r, s),
         s = "200" => Body(r).call # "list",
         UNCHANGED <<backend, rows, applied, server>>
  PROVE  IInv'
<1> DEFINE x == [request[r] EXCEPT !.pc = s]
<1>1. request[r] \in RequestType /\ request' = [request EXCEPT ![r] = x]
  BY DEF IInv, TypeOK, Answer
<1>2. /\ x \in RequestType /\ x.pc = s
      /\ x.body = request[r].body /\ x.writes = request[r].writes
  BY <1>1 DEF RequestType, Ended
<1> HIDE DEF x
<1>3. s \notin {"idle", "half", "tx"}
  BY DEF Ended
<1>4. DOMAIN x.writes = {} /\ x.body \in Bodies
  BY <1>2 DEF IInv, RequestInv, TxOK, BodyOK
<1>5. BodyOK(x) /\ PageOK(x) /\ TxOK(x) /\ WritesOK(x)
  BY <1>2, <1>3, <1>4 DEF BodyOK, PageOK, TxOK, WritesOK, Body
<1> QED
  BY <1>1, <1>2, <1>4, <1>5, RequestIInv

LEMMA ArriveIInv ==
  ASSUME IInv, NEW r \in Requests, Arrive(r)
  PROVE  IInv'
<1>1. PICK b \in Offers[r] : request' = [request EXCEPT ![r].pc = "open", ![r].body = b]
  BY DEF Arrive
<1> DEFINE x == [Idle EXCEPT !.pc = "open", !.body = b]
<1>2. b \in Bodies
  BY StoreAssumption
<1>3. request[r] = Idle
  BY DEF Arrive, IInv, RequestInv, BodyOK
<1>4. request' = [request EXCEPT ![r] = x]
  BY <1>1, <1>3 DEF IInv, TypeOK
<1>5. x \in RequestType /\ x.pc = "open" /\ x.body = b /\ x.writes = Idle.writes
  BY <1>2, IdleTyped DEF RequestType
<1> HIDE DEF x
<1>6. DOMAIN x.writes = {}
  BY <1>5, IdleTyped
<1>7. BodyOK(x) /\ PageOK(x) /\ TxOK(x) /\ WritesOK(x)
  BY <1>2, <1>5, <1>6 DEF BodyOK, PageOK, TxOK, WritesOK
<1> QED
  BY <1>4, <1>5, <1>6, <1>7, RequestIInv DEF Arrive

LEMMA PagePair ==
  ASSUME NEW p \in (SUBSET Requests) \X (SUBSET Requests), NEW S \in SUBSET Requests
  PROVE  [p EXCEPT ![1] = S] = <<S, p[2]>> /\ [p EXCEPT ![2] = S] = <<p[1], S>>
OBVIOUS

\* What one half of a page shows is all that was applied then.
LEMMA ReadHalfIInv ==
  ASSUME IInv, NEW r \in Requests, ReadGauges(r) \/ ReadCounters(r)
  PROVE  IInv'
<1> USE DEF ReadGauges, ReadCounters, ReadHalf, FirstHalf, At
<1>1. request[r] \in RequestType /\ applied \subseteq Requests
  BY DEF IInv, TypeOK
<1>2. DOMAIN request[r].writes = {} /\ request[r].body \in Bodies
  BY DEF IInv, RequestInv, TxOK, BodyOK
<1>3. CASE ReadGauges(r)
  <2> DEFINE x == [request[r] EXCEPT !.pc = "half", !.page = <<applied, request[r].page[2]>>]
  <2>1. request' = [request EXCEPT ![r] = x]
    BY <1>1, <1>3, PagePair DEF IInv, TypeOK, RequestType
  <2>2. /\ x \in RequestType /\ x.pc = "half" /\ x.page[1] = applied
        /\ x.body = request[r].body /\ x.writes = request[r].writes
    BY <1>1 DEF RequestType
  <2>3. x.body.call = "list"
    BY <1>3, <2>2 DEF Body
  <2> HIDE DEF x
  <2>4. BodyOK(x) /\ PageOK(x) /\ TxOK(x) /\ WritesOK(x)
    BY <1>2, <2>2, <2>3 DEF BodyOK, PageOK, TxOK, WritesOK
  <2> QED
    BY <1>2, <1>3, <2>1, <2>2, <2>4, RequestIInv
<1>4. CASE ReadCounters(r)
  <2> DEFINE x == [request[r] EXCEPT !.pc = "200", !.page = <<request[r].page[1], applied>>]
  <2>1. request' = [request EXCEPT ![r] = x]
    <3>1. 3 - 1 = 2
      OBVIOUS
    <3>2. request' = [request EXCEPT ![r].pc = "200", ![r].page[2] = applied]
      BY <1>4, <3>1
    <3> QED
      BY <1>1, <3>2, PagePair DEF IInv, TypeOK, RequestType
  <2>2. /\ x \in RequestType /\ x.pc = "200"
        /\ x.page[1] = request[r].page[1] /\ x.page[2] = applied
        /\ x.body = request[r].body /\ x.writes = request[r].writes
    BY <1>1 DEF RequestType, Ended
  <2>3. x.page[1] \subseteq x.page[2]
    BY <1>4, <2>2 DEF IInv, RequestInv, PageOK
  <2> HIDE DEF x
  <2>4. BodyOK(x) /\ PageOK(x) /\ TxOK(x) /\ WritesOK(x)
    BY <1>2, <2>2, <2>3 DEF BodyOK, PageOK, TxOK, WritesOK
  <2> QED
    BY <1>2, <1>4, <2>1, <2>2, <2>4, RequestIInv
<1> QED
  BY <1>3, <1>4

\* A statement turns to a row it has not written, until none is left.
LEMMA NextRowsAreLeft ==
  ASSUME NEW b, NEW done, NEW k \in NextRows(b, done)
  PROVE  k \in DOMAIN Change(b) \ done \/ (k = NoKey /\ DOMAIN Change(b) \subseteq done)
<1> DEFINE left == DOMAIN Change(b) \ done
<1>1. CASE left \cap Gauges # {}
  <2>1. NextRows(b, done) = left \cap Gauges
    BY <1>1, Zenon DEF NextRows
  <2> QED
    BY <2>1
<1>2. CASE left # {} /\ left \cap Gauges = {}
  <2>1. NextRows(b, done) = left
    BY <1>2, Zenon DEF NextRows
  <2> QED
    BY <2>1
<1>3. CASE left = {}
  <2>1. left \cap Gauges = {} /\ ~(left # {} /\ left \cap Gauges = {})
    BY <1>3
  <2>2. NextRows(b, done) = {NoKey}
    BY <2>1, Zenon DEF NextRows
  <2> QED
    BY <1>3, <2>2
<1> QED
  BY <1>1, <1>2, <1>3

LEMMA BeginIInv ==
  ASSUME IInv, NEW r \in Requests, Begin(r)
  PROVE  IInv'
<1> USE DEF Begin, At
<1>1. PICK k \in NextRows(Body(r), {}) :
        request' = [request EXCEPT ![r].pc = "tx", ![r].conn = TRUE, ![r].wants = k]
  OBVIOUS
<1> DEFINE x == [request[r] EXCEPT !.pc = "tx", !.conn = TRUE, !.wants = k]
<1>2. /\ DOMAIN request[r].writes = {}
      /\ request[r].body \in Bodies /\ Body(r) = request[r].body
      /\ Writes(request[r].body)
  BY DEF IInv, RequestInv, TxOK, BodyOK, Body
<1>3. \/ k \in DOMAIN Change(request[r].body)
      \/ k = NoKey /\ DOMAIN Change(request[r].body) = {}
  BY <1>2, NextRowsAreLeft
<1>4. k \in Keys \cup {NoKey}
  BY <1>2, <1>3, ChangeTyped
<1>5. request[r] \in RequestType /\ request' = [request EXCEPT ![r] = x]
  BY <1>1 DEF IInv, TypeOK
<1>6. /\ x \in RequestType /\ x.pc = "tx" /\ x.wants = k
      /\ x.body = request[r].body /\ x.writes = request[r].writes
  BY <1>4, <1>5 DEF RequestType
<1> HIDE DEF x
<1>7. BodyOK(x) /\ PageOK(x) /\ TxOK(x) /\ WritesOK(x)
  BY <1>2, <1>3, <1>6 DEF BodyOK, PageOK, TxOK, WritesOK
<1> QED
  BY <1>2, <1>5, <1>6, <1>7, RequestIInv

\* A row is written when it is nobody's, and is then the transaction's own.
LEMMA WriteRowIInv ==
  ASSUME IInv, NEW r \in Requests, WriteRow(r)
  PROVE  IInv'
<1> DEFINE k == request[r].wants
           writes == [j \in Locked(r) \cup {k} |->
                        IF j = k THEN Pending(r) ELSE request[r].writes[j]]
<1>1. PICK next \in NextRows(Body(r), Locked(r) \cup {k}) :
        request' = [request EXCEPT ![r].wants = next, ![r].writes = writes]
  BY DEF WriteRow
<1> DEFINE x == [request[r] EXCEPT !.wants = next, !.writes = writes]
<1>2. /\ request[r].pc = "tx" /\ k # NoKey /\ Owners(k) = {} /\ InRange(r)
      /\ UNCHANGED <<backend, rows, applied, server>>
  BY DEF WriteRow, AtRow, At
<1>3. /\ request[r] \in RequestType /\ request' = [request EXCEPT ![r] = x]
      /\ rows \in [Keys -> Value]
  BY <1>1 DEF IInv, TypeOK
<1>4. /\ Body(r) = request[r].body /\ Body(r) \in Bodies /\ Writes(Body(r))
      /\ backend = "postgres"
      /\ Locked(r) \subseteq DOMAIN Change(Body(r))
      /\ k \in DOMAIN Change(Body(r)) \ Locked(r)
      /\ WritesOK(request[r])
  BY <1>2 DEF IInv, RequestInv, BodyOK, TxOK, Body, Locked
<1>5. k \in Keys /\ Change(Body(r))[k] \in Int64 /\ DOMAIN Change(Body(r)) \subseteq Keys
  BY <1>4, ChangeTyped
<1>6. Pending(r) = Upsert(rows[k], k, Change(Body(r))[k])
  BY DEF Pending
<1>7. Pending(r) \in Int64
  <2>1. CASE k \in Gauges
    BY <1>5, <1>6, <2>1 DEF Upsert
  <2>2. CASE k \in Counters
    BY <1>2, <2>2 DEF InRange
  <2> QED
    BY <1>5, <2>1, <2>2 DEF Keys
<1>8. writes \in [Locked(r) \cup {k} -> Int64]
  <2>1. ASSUME NEW j \in Locked(r) PROVE request[r].writes[j] \in Int64
    <3>1. request[r].writes \in UNION {[S -> Int64] : S \in SUBSET Keys}
      BY <1>3 DEF RequestType
    <3> QED
      BY <3>1 DEF Locked
  <2> QED
    BY <1>7, <2>1
<1>9. writes \in UNION {[S -> Int64] : S \in SUBSET Keys}
  BY <1>4, <1>5, <1>8
<1>10. \/ next \in DOMAIN Change(Body(r)) \ (Locked(r) \cup {k})
       \/ next = NoKey /\ DOMAIN Change(Body(r)) = Locked(r) \cup {k}
  BY <1>4, NextRowsAreLeft
<1>11. next \in Keys \cup {NoKey}
  BY <1>5, <1>10
<1> HIDE DEF writes
<1>12. /\ x \in RequestType /\ x.pc = "tx" /\ x.wants = next
       /\ x.body = Body(r) /\ x.writes = writes
  BY <1>2, <1>3, <1>4, <1>9, <1>11 DEF RequestType
<1> HIDE DEF x
<1>13. DOMAIN x.writes = Locked(r) \cup {k}
  BY <1>8, <1>12
<1>14. WritesOK(x)
  <2> SUFFICES ASSUME NEW j \in Locked(r) \cup {k}
               PROVE  /\ writes[j] = Upsert(rows[j], j, Change(Body(r))[j])
                      /\ j \in Counters => writes[j] \in Int64
    BY <1>12, <1>13 DEF WritesOK
  <2>1. CASE j = k
    BY <1>6, <1>7, <2>1 DEF writes
  <2>2. CASE j # k
    BY <1>4, <2>2 DEF writes, WritesOK, Locked
  <2> QED
    BY <2>1, <2>2
<1>15. BodyOK(x) /\ PageOK(x) /\ TxOK(x)
  BY <1>4, <1>10, <1>12, <1>13 DEF BodyOK, PageOK, TxOK
<1>16. \A q \in Requests : q # r => Locked(q) \cap DOMAIN x.writes = {}
  BY <1>2, <1>13 DEF IInv, LockInv, Owners
<1> QED
  BY <1>2, <1>3, <1>12, <1>14, <1>15, <1>16, RequestIInv

\* Locks and writes of a transaction that fails are forgotten.
LEMMA ReleaseTyped ==
  ASSUME NEW r \in Requests, request[r] \in RequestType, NEW s \in Ended
  PROVE  /\ Release(r, s) \in RequestType
         /\ Release(r, s).pc = s /\ Release(r, s).conn = FALSE
         /\ Release(r, s).body = Body(r)
         /\ Release(r, s).total = request[r].total
         /\ DOMAIN Release(r, s).writes = {}
<1>1. <<>> \in UNION {[S -> Int64] : S \in SUBSET Keys} /\ DOMAIN <<>> = {}
  BY IdleTyped DEF Idle, RequestType
<1> QED
  BY <1>1 DEF Release, RequestType, Body

LEMMA RollbackIInv ==
  ASSUME IInv, NEW r \in Requests, request[r].pc = "tx", Rollback(r)
  PROVE  IInv'
<1> DEFINE x == Release(r, "500")
<1>1. /\ x \in RequestType /\ x.pc = "500" /\ x.body = Body(r) /\ DOMAIN x.writes = {}
      /\ Body(r) \in Bodies
  BY ReleaseTyped DEF IInv, TypeOK, RequestInv, BodyOK, Body, Ended
<1>2. BodyOK(x) /\ PageOK(x) /\ TxOK(x) /\ WritesOK(x)
  BY <1>1 DEF BodyOK, PageOK, TxOK, WritesOK
<1> QED
  BY <1>1, <1>2, RequestIInv DEF Rollback

\* A change reaches the rows, none of them locked by another request.
LEMMA ChangeIInv ==
  ASSUME IInv, NEW r \in Requests, NEW x \in RequestType,
         request' = [request EXCEPT ![r] = x],
         x.pc \in {"200", "500"}, x.body = Body(r), DOMAIN x.writes = {},
         request[r].pc # "idle", Body(r).call # "list",
         rows' \in [Keys -> Value], applied' = applied \cup {r},
         UNCHANGED <<backend, server>>,
         \A q \in Requests : q # r => \A k \in Locked(q) : rows'[k] = rows[k]
  PROVE  IInv'
<1>1. /\ \A q \in Requests : q # r => request'[q] = request[q]
      /\ request'[r] = x
      /\ request' \in [Requests -> RequestType]
  BY DEF IInv, TypeOK
<1>2. TypeOK'
  BY <1>1 DEF IInv, TypeOK
<1>3. Body(r) \in Bodies
  BY DEF IInv, RequestInv, BodyOK, Body
<1>4. ASSUME NEW q \in Requests
      PROVE  (/\ BodyOK(request[q]) /\ PageOK(request[q])
              /\ TxOK(request[q]) /\ WritesOK(request[q]))'
  <2>1. CASE q = r
    BY <1>1, <1>3, <2>1 DEF BodyOK, PageOK, TxOK, WritesOK
  <2>2. CASE q # r
    BY <1>1, <2>2 DEF IInv, RequestInv, BodyOK, PageOK, TxOK, WritesOK, Locked
  <2> QED
    BY <2>1, <2>2
<1>5. RequestInv'
  BY <1>4 DEF RequestInv
<1>6. LockInv'
  BY <1>1 DEF IInv, LockInv, Locked
<1> QED
  BY <1>2, <1>5, <1>6 DEF IInv

LEMMA SaveInMemoryIInv ==
  ASSUME IInv, NEW r \in Requests, SaveInMemory(r)
  PROVE  IInv'
<1> DEFINE x == [request[r] EXCEPT !.pc = "200", !.total = Total(rows', Body(r))]
<1>1. /\ backend = "memory" /\ request[r].pc = "open" /\ Writes(Body(r))
      /\ rows' = After(rows, Change(Body(r)))
      /\ applied' = applied \cup {r} /\ UNCHANGED <<backend, server>>
      /\ request' = [request EXCEPT ![r].pc = "200", ![r].total = Total(rows', Body(r))]
  BY DEF SaveInMemory, At
<1>2. /\ request[r] \in RequestType /\ rows \in [Keys -> Value]
      /\ request' = [request EXCEPT ![r] = x]
  BY <1>1 DEF IInv, TypeOK
<1>3. Body(r) \in Bodies /\ DOMAIN request[r].writes = {}
  BY <1>1 DEF IInv, RequestInv, BodyOK, TxOK, Body
<1>4. rows' \in [Keys -> Value]
  BY <1>1, <1>2, <1>3, AfterTyped
<1>5. Total(rows', Body(r)) \in Value
  BY <1>1, <1>3, <1>4, TotalTyped
<1> HIDE DEF x
<1>6. /\ x \in RequestType /\ x.pc = "200"
      /\ x.body = Body(r) /\ x.writes = request[r].writes
  BY <1>2, <1>5 DEF x, RequestType, Ended, Body
<1>7. \A q \in Requests : Locked(q) = {}
  BY <1>1 DEF IInv, RequestInv, TxOK, Locked
<1>8. Body(r).call # "list"
  BY <1>1 DEF Writes
<1> QED
  BY <1>1, <1>2, <1>3, <1>4, <1>6, <1>7, <1>8, ChangeIInv

\* The rows a commit makes visible are those of one upsert of the whole change.
LEMMA CommitIsAfter ==
  ASSUME IInv, NEW r \in Requests, Commit(r)
  PROVE  /\ rows' = After(rows, Change(Body(r)))
         /\ Fits(rows, Change(Body(r)))
         /\ Body(r) \in Bodies /\ Writes(Body(r)) /\ backend = "postgres"
<1> DEFINE change == Change(Body(r))
<1>1. /\ request[r].pc = "tx" /\ request[r].wants = NoKey
      /\ rows' = [k \in Keys |-> IF k \in Locked(r) THEN request[r].writes[k] ELSE rows[k]]
  BY DEF Commit, At
<1>2. /\ Body(r) \in Bodies /\ Writes(Body(r)) /\ backend = "postgres"
      /\ WritesOK(request[r])
      /\ \/ Locked(r) = DOMAIN change
         \/ NoKey \in DOMAIN change
  BY <1>1 DEF IInv, RequestInv, BodyOK, TxOK, Body, Locked
<1>3. /\ DOMAIN change \subseteq Keys
      /\ \A k \in DOMAIN change : change[k] \in Int64
      /\ Locked(r) = DOMAIN change
  BY <1>2, ChangeTyped, StoreAssumption
<1>4. ASSUME NEW k \in DOMAIN change
      PROVE  /\ request[r].writes[k] = Upsert(rows[k], k, change[k])
             /\ k \in Counters => request[r].writes[k] \in Int64
  BY <1>2, <1>3 DEF WritesOK, Locked, Body
<1> HIDE DEF change
<1>5. Fits(rows, change)
  BY <1>4 DEF Fits
<1>6. ASSUME NEW k \in DOMAIN change
      PROVE  rows'[k] = IF k \in Gauges THEN change[k] ELSE Wrap(Upsert(rows[k], k, change[k]))
  <2>1. k \in Keys /\ rows'[k] = Upsert(rows[k], k, change[k])
    BY <1>1, <1>3, <1>4
  <2>2. CASE k \in Gauges
    BY <2>1, <2>2 DEF Upsert
  <2>3. CASE k \notin Gauges
    BY <2>1, <2>3, <1>4, WrapInRange DEF Keys
  <2> QED
    BY <2>2, <2>3
<1>7. rows' = After(rows, change)
  BY <1>1, <1>3, <1>6 DEF After
<1> QED
  BY <1>2, <1>5, <1>7 DEF change

\* A commit ends its request, whether its answer arrives or not.
LEMMA CommitAnswers ==
  ASSUME IInv, NEW r \in Requests, Commit(r)
  PROVE  \E x \in RequestType :
           /\ request' = [request EXCEPT ![r] = x]
           /\ x.pc \in {"200", "500"} /\ x.conn = FALSE
           /\ x.body = Body(r) /\ DOMAIN x.writes = {}
<1>1. PICK x \in {[Release(r, "200") EXCEPT !.total = Total(rows', Body(r))],
                  Release(r, "500")} : request' = [request EXCEPT ![r] = x]
  BY DEF Commit
<1>2. request[r] \in RequestType /\ rows \in [Keys -> Value]
  BY DEF IInv, TypeOK
<1>3. Total(rows', Body(r)) \in Value
  BY <1>2, CommitIsAfter, AfterTyped, TotalTyped
<1>4. CASE x = Release(r, "500")
  BY <1>1, <1>2, <1>4, ReleaseTyped DEF Ended
<1>5. CASE x = [Release(r, "200") EXCEPT !.total = Total(rows', Body(r))]
  <2>1. /\ Release(r, "200") \in RequestType /\ Release(r, "200").pc = "200"
        /\ Release(r, "200").body = Body(r) /\ DOMAIN Release(r, "200").writes = {}
        /\ Release(r, "200").conn = FALSE
    BY <1>2, ReleaseTyped DEF Ended
  <2>2. /\ x \in RequestType /\ x.pc = "200" /\ x.conn = FALSE
        /\ x.body = Body(r) /\ DOMAIN x.writes = {}
    <3> HIDE DEF Release
    <3> QED
      BY <1>3, <1>5, <2>1 DEF RequestType
  <2> QED
    BY <1>1, <2>2
<1> QED
  BY <1>1, <1>4, <1>5

LEMMA CommitIInv ==
  ASSUME IInv, NEW r \in Requests, Commit(r)
  PROVE  IInv'
<1>1. /\ request[r].pc = "tx" /\ applied' = applied \cup {r} /\ UNCHANGED <<backend, server>>
      /\ rows' = [k \in Keys |-> IF k \in Locked(r) THEN request[r].writes[k] ELSE rows[k]]
  BY DEF Commit, At
<1>2. PICK x \in RequestType :
        /\ request' = [request EXCEPT ![r] = x]
        /\ x.pc \in {"200", "500"} /\ x.body = Body(r) /\ DOMAIN x.writes = {}
  BY CommitAnswers
<1>3. request \in [Requests -> RequestType] /\ rows \in [Keys -> Value]
  BY DEF IInv, TypeOK
<1>4. rows' \in [Keys -> Value]
  BY <1>3, CommitIsAfter, AfterTyped
<1>5. ASSUME NEW q \in Requests, q # r, NEW k \in Locked(q) PROVE rows'[k] = rows[k]
  <2>1. k \notin Locked(r)
    BY <1>5 DEF IInv, LockInv
  <2>2. k \in Keys
    BY <1>3, <1>5 DEF RequestType, Locked
  <2> QED
    BY <1>1, <2>1, <2>2
<1>6. Body(r).call # "list"
  BY CommitIsAfter DEF Writes
<1> QED
  BY <1>1, <1>2, <1>4, <1>5, <1>6, ChangeIInv

\* The steps of a request that end it without a change.
Ending(r) ==
  \/ Refuse(r) \/ EmptyBatch(r) \/ ReadOne(r) \/ Ping(r) \/ PoolRefuses(r) \/ QueryFails(r)

LEMMA EndingAnswers ==
  ASSUME NEW r \in Requests, Ending(r)
  PROVE  \E s \in Ended : /\ request[r].pc \in {"open", "half"} /\ Answer(r, s)
                          /\ s = "200" => Body(r).call # "list" /\ ~Writes(Body(r))
                          /\ UNCHANGED <<backend, rows, applied, server>>
<1>1. CASE Refuse(r)
  <2>1. Checked(Body(r)) \in Ended \ {"200"}
    BY <1>1, CheckedValues DEF Refuse, Ended
  <2> QED
    BY <1>1, <2>1 DEF Refuse, At
<1>2. CASE EmptyBatch(r)
  BY <1>2 DEF EmptyBatch, At, Ended, Writes
<1>3. CASE ReadOne(r)
  BY <1>3 DEF ReadOne, At, Ended, Writes
<1>4. CASE Ping(r)
  BY <1>4 DEF Ping, At, Ended, Writes
<1>5. CASE PoolRefuses(r) \/ QueryFails(r)
  BY <1>5 DEF PoolRefuses, QueryFails, Queries, At, Ended
<1> QED
  BY <1>1, <1>2, <1>3, <1>4, <1>5 DEF Ending

\* The steps that take back a transaction.
Failing(r) == Overflow(r) \/ Victim(r) \/ TxFails(r)

LEMMA FailingRollsBack ==
  ASSUME NEW r \in Requests, Failing(r)
  PROVE  request[r].pc = "tx" /\ Rollback(r)
BY DEF Failing, Overflow, AtRow, Victim, TxFails, At

\* The end of the process touches no request.
Shutting == Signal \/ ShutdownReturns \/ StorageCloses \/ Stopped \/ UNCHANGED vars

LEMMA ShuttingKeeps ==
  ASSUME IInv, Shutting
  PROVE  IInv' /\ UNCHANGED <<backend, rows, request, applied>>
<1>1. /\ UNCHANGED <<backend, rows, request, applied>>
      /\ server' \in {"serving", "draining", "closing", "exited"}
  BY DEF Shutting, Signal, ShutdownReturns, StorageCloses, Stopped, vars, IInv, TypeOK
<1>2. TypeOK'
  BY <1>1 DEF IInv, TypeOK
<1>3. RequestInv' /\ LockInv'
  BY <1>1 DEF IInv, RequestInv, BodyOK, PageOK, TxOK, WritesOK, LockInv, Locked
<1> QED
  BY <1>1, <1>2, <1>3 DEF IInv

\* Every step is one of these.
LEMMA Steps ==
  ASSUME [Next]_vars
  PROVE  \/ Shutting
         \/ \E r \in Requests :
              \/ Arrive(r) \/ Ending(r) \/ ReadGauges(r) \/ ReadCounters(r)
              \/ SaveInMemory(r) \/ Begin(r) \/ WriteRow(r) \/ Failing(r) \/ Commit(r)
BY Zenon DEF Next, HandlerStep, DatabaseStep, Ending, Failing, Shutting

LEMMA NextIInv == IInv /\ [Next]_vars => IInv'
<1> SUFFICES ASSUME IInv, [Next]_vars PROVE IInv'
  OBVIOUS
<1>1. ASSUME NEW r \in Requests, Ending(r) PROVE IInv'
  BY <1>1, EndingAnswers, AnswerIInv
<1>2. ASSUME NEW r \in Requests, Failing(r) PROVE IInv'
  BY <1>2, FailingRollsBack, RollbackIInv
<1> QED
  BY <1>1, <1>2, Steps, ShuttingKeeps, ArriveIInv, ReadHalfIInv, SaveInMemoryIInv, BeginIInv,
     WriteRowIInv, CommitIInv

-----------------------------------------------------------------------------
(* The theorems.                                                            *)

\* Everything has its type; no counter leaves its width.
THEOREM StoreTypeCorrect == Spec => []TypeOK
<1>1. IInv => TypeOK
  BY DEF IInv
<1> QED
  BY <1>1, InitIInv, NextIInv, PTL DEF Spec

\* A page that was read while updates went on shows no gauges of a batch
\* without its counters.
THEOREM StorePagesInOrder == Spec => []PagesAreInOrder
<1>1. IInv => PagesAreInOrder
  BY DEF IInv, RequestInv, PageOK, PagesAreInOrder, Body
<1> QED
  BY <1>1, InitIInv, NextIInv, PTL DEF Spec

-----------------------------------------------------------------------------
(* Counters are sums.                                                       *)

Adders(c) == {r \in applied : c \in DOMAIN Change(Body(r))}

Added(c) == [r \in Adders(c) |-> Change(Body(r))[c]]

\* An applied request has ended, so it keeps its body and is not applied again.
AppliedInv ==
  /\ IsFiniteSet(applied)
  /\ \A r \in applied : request[r].pc \in {"200", "500"} /\ Body(r) \in Bodies

\* CountersAreSums, its cases in the order the proofs go through them.
Sums ==
  \A c \in Counters :
    rows[c] = IF Adders(c) = {} THEN Absent
              ELSE IF backend = "postgres" THEN SumFunction(Added(c))
              ELSE Wrap(SumFunction(Added(c)))

SumInv == AppliedInv /\ Sums

LEMMA SumsAreSums == Sums => CountersAreSums
<1>1. ASSUME NEW C, NEW P, NEW x, NEW y
      PROVE  (CASE C -> Absent [] ~C /\ P -> x [] OTHER -> y)
               = IF C THEN Absent ELSE IF P THEN x ELSE y
  OBVIOUS
<1> QED
  BY <1>1, Zenon DEF CountersAreSums, Sums, Adders, Added

LEMMA AddersTyped ==
  ASSUME AppliedInv, NEW c
  PROVE  /\ IsFiniteSet(Adders(c)) /\ DOMAIN Added(c) = Adders(c)
         /\ \A r \in Adders(c) : Added(c)[r] \in Int
         /\ SumFunction(Added(c)) \in Int
<1>1. IsFiniteSet(Adders(c)) /\ DOMAIN Added(c) = Adders(c)
  BY FS_Subset DEF AppliedInv, Adders, Added
<1>2. ASSUME NEW r \in Adders(c) PROVE Added(c)[r] \in Int
  BY ChangeTyped DEF AppliedInv, Adders, Added, Int64
<1>3. SumFunctionOnSet(Added(c), Adders(c)) \in Int
  BY <1>1, <1>2, SumSplits DEF SplitsAt
<1> QED
  BY <1>1, <1>2, <1>3 DEF SumFunction

LEMMA SumInit == Init => SumInv
<1> SUFFICES ASSUME Init PROVE SumInv
  OBVIOUS
<1>1. \A c \in Counters : Adders(c) = {} /\ rows[c] = Absent
  BY DEF Init, Adders, Keys
<1>2. IsFiniteSet(applied)
  BY FS_EmptySet DEF Init
<1> QED
  BY <1>1, <1>2 DEF SumInv, AppliedInv, Sums, Init

\* A step of a request that changes no row.
LEMMA SumKept ==
  ASSUME SumInv, UNCHANGED <<backend, rows, applied>>,
         \A r \in applied : request'[r] = request[r]
  PROVE  SumInv'
<1>1. \A r \in applied : Body(r)' = Body(r)
  BY DEF Body
<1>2. AppliedInv'
  BY <1>1 DEF SumInv, AppliedInv
<1>3. Sums'
  <2>1. \A c : Adders(c)' = Adders(c)
    BY <1>1 DEF Adders
  <2>2. \A c : \A r \in Adders(c) : Change(Body(r))'[c] = Change(Body(r))[c]
    BY <1>1 DEF Adders
  <2>3. \A c : Added(c)' = Added(c)
    BY <2>1, <2>2 DEF Added
  <2>4. \A c : SumFunction(Added(c))' = SumFunction(Added(c))
    BY <2>3
  <2> QED
    BY <2>1, <2>4 DEF SumInv, Sums
<1> QED
  BY <1>2, <1>3 DEF SumInv

\* A change adds what it says to its counters and counts for them from then on.
LEMMA SumGrows ==
  ASSUME SumInv, NEW r \in Requests, r \notin applied, Body(r) \in Bodies,
         backend = "postgres" => Fits(rows, Change(Body(r))),
         rows' = After(rows, Change(Body(r))), applied' = applied \cup {r}, UNCHANGED backend,
         \A q \in applied : request'[q] = request[q],
         Body(r)' = Body(r), request'[r].pc \in {"200", "500"}
  PROVE  SumInv'
<1>1. \A q \in applied' : Body(q)' = Body(q)
  BY DEF Body
<1>2. AppliedInv'
  <2>1. IsFiniteSet(applied')
    BY FS_AddElement DEF SumInv, AppliedInv
  <2> QED
    BY <1>1, <2>1 DEF SumInv, AppliedInv
<1> SUFFICES ASSUME NEW c \in Counters
             PROVE  rows'[c] = IF Adders(c)' = {} THEN Absent
                               ELSE IF backend = "postgres" THEN SumFunction(Added(c)')
                               ELSE Wrap(SumFunction(Added(c)'))
  BY <1>2 DEF SumInv, Sums
<1> DEFINE x == Change(Body(r))[c]
           s == SumFunction(Added(c))
<1>3. rows[c] = IF Adders(c) = {} THEN Absent ELSE IF backend = "postgres" THEN s ELSE Wrap(s)
  BY DEF SumInv, Sums
<1>4. c \in Keys /\ c \notin Gauges
  BY MetricsAssumption DEF Keys
<1>5. CASE c \notin DOMAIN Change(Body(r))
  <2>1. Adders(c)' = Adders(c)
    BY <1>1, <1>5 DEF Adders
  <2>2. Added(c)' = Added(c)
    BY <1>1, <2>1 DEF Added, Adders
  <2>3. rows'[c] = rows[c]
    BY <1>4, <1>5 DEF After
  <2> QED
    BY <1>3, <2>1, <2>2, <2>3
<1>6. CASE c \in DOMAIN Change(Body(r))
  <2>1. /\ Adders(c)' = Adders(c) \cup {r} /\ r \notin Adders(c)
        /\ DOMAIN Added(c)' = Adders(c) \cup {r}
    BY <1>1, <1>6 DEF Adders, Added
  <2>2. /\ Added(c)'[r] = x
        /\ \A q \in Adders(c) : Added(c)'[q] = Added(c)[q]
    BY <1>1, <2>1 DEF Added, Adders
  <2>3. /\ IsFiniteSet(Adders(c)) /\ DOMAIN Added(c) = Adders(c) /\ s \in Int
        /\ \A q \in Adders(c) : Added(c)[q] \in Int
    BY AddersTyped DEF SumInv
  <2>4. x \in Int64 /\ x \in Int
    BY <1>6, ChangeTyped DEF Int64
  <2>5. SumFunctionOnSet(Added(c)', Adders(c)) = SumFunctionOnSet(Added(c), Adders(c))
    BY <2>2, <2>3, SumsEqual
  <2>6. SumFunctionOnSet(Added(c)', Adders(c) \cup {r})
          = Added(c)'[r] + SumFunctionOnSet(Added(c)', Adders(c))
    BY <2>1, <2>2, <2>3, <2>4, SumWithAnother
  <2>7. SumFunction(Added(c)') = x + s
    BY <2>1, <2>2, <2>3, <2>5, <2>6 DEF SumFunction
  <2>8. rows'[c] = Wrap(Upsert(rows[c], c, x))
    BY <1>4, <1>6 DEF After
  <2> HIDE DEF x, s
  <2>9. CASE Adders(c) = {}
    <3>1. s = 0
      BY <2>3, <2>9, SumOfNothing DEF s, SumFunction
    <3>2. rows'[c] = x
      BY <1>3, <2>4, <2>8, <2>9, WrapInRange DEF Upsert
    <3> QED
      BY <2>1, <2>4, <2>7, <3>1, <3>2, WrapInRange
  <2>10. CASE Adders(c) # {} /\ backend = "postgres"
    <3>1. rows[c] = s /\ rows[c] # Absent
      BY <1>3, <2>3, <2>10, MetricsAssumption
    <3>2. Upsert(rows[c], c, x) = s + x /\ Upsert(rows[c], c, x) \in Int64
      BY <1>4, <1>6, <2>10, <3>1 DEF Upsert, Fits, x
    <3> QED
      BY <2>1, <2>3, <2>4, <2>7, <2>8, <2>10, <3>2, WrapInRange
  <2>11. CASE Adders(c) # {} /\ backend # "postgres"
    <3>1. rows[c] = Wrap(s) /\ Wrap(s) \in Int
      BY <1>3, <2>3, <2>11, WrapTyped DEF Int64
    <3>2. rows'[c] = Wrap(Wrap(s) + x)
      BY <1>4, <2>8, <3>1, MetricsAssumption DEF Upsert
    <3>3. rows'[c] = Wrap(x + s)
      BY <2>3, <2>4, <3>2, WrapOfSum
    <3> QED
      BY <2>1, <2>7, <2>11, <3>3
  <2> QED
    BY <2>9, <2>10, <2>11
<1> QED
  BY <1>5, <1>6

LEMMA SumNext == IInv /\ SumInv /\ [Next]_vars => SumInv'
<1> SUFFICES ASSUME IInv, SumInv, [Next]_vars PROVE SumInv'
  OBVIOUS
<1>1. request \in [Requests -> RequestType] /\ applied \subseteq Requests
  BY DEF IInv, TypeOK
<1>2. ASSUME NEW r \in Requests, request[r].pc \notin {"200", "500"}
      PROVE  /\ r \notin applied
             /\ \A x : request' = [request EXCEPT ![r] = x] =>
                  \A q \in applied : request'[q] = request[q]
  BY <1>1, <1>2 DEF SumInv, AppliedInv
<1>3. ASSUME NEW r \in Requests, request[r].pc \notin {"200", "500"},
             NEW x, request' = [request EXCEPT ![r] = x],
             UNCHANGED <<backend, rows, applied>>
      PROVE  SumInv'
  BY <1>2, <1>3, SumKept
<1>4. ASSUME NEW r \in Requests, Arrive(r) PROVE SumInv'
  <2>1. PICK b \in Offers[r] : request' = [request EXCEPT ![r].pc = "open", ![r].body = b]
    BY <1>4 DEF Arrive
  <2>2. request' = [request EXCEPT ![r] = [request[r] EXCEPT !.pc = "open", !.body = b]]
    BY <1>1, <2>1
  <2> QED
    BY <1>3, <1>4, <2>2 DEF Arrive
<1>5. ASSUME NEW r \in Requests, Ending(r) PROVE SumInv'
  <2>1. PICK s \in Ended : /\ request[r].pc \in {"open", "half"} /\ Answer(r, s)
                           /\ UNCHANGED <<backend, rows, applied>>
    BY <1>5, EndingAnswers
  <2>2. request' = [request EXCEPT ![r] = [request[r] EXCEPT !.pc = s]]
    BY <1>1, <2>1 DEF Answer
  <2> QED
    BY <1>3, <2>1, <2>2
<1>6. ASSUME NEW r \in Requests, ReadGauges(r) \/ ReadCounters(r) PROVE SumInv'
  <2>1. PICK half, pc : request[r].pc \in {"open", "half"} /\ ReadHalf(r, half, pc)
    BY <1>6 DEF ReadGauges, ReadCounters, At
  <2>2. request' = [request EXCEPT ![r] = [request[r] EXCEPT !.pc = pc, !.page[half] = applied]]
    BY <1>1, <2>1 DEF ReadHalf
  <2> QED
    BY <1>3, <2>1, <2>2 DEF ReadHalf
<1>7. ASSUME NEW r \in Requests, Begin(r) PROVE SumInv'
  <2>1. PICK k : request' = [request EXCEPT ![r].pc = "tx", ![r].conn = TRUE, ![r].wants = k]
    BY <1>7 DEF Begin
  <2>2. request' = [request EXCEPT
                      ![r] = [request[r] EXCEPT !.pc = "tx", !.conn = TRUE, !.wants = k]]
    BY <1>1, <2>1
  <2> QED
    BY <1>3, <1>7, <2>2 DEF Begin, At
<1>8. ASSUME NEW r \in Requests, WriteRow(r) PROVE SumInv'
  <2>1. PICK k, w : request' = [request EXCEPT ![r].wants = k, ![r].writes = w]
    BY <1>8 DEF WriteRow
  <2>2. request' = [request EXCEPT ![r] = [request[r] EXCEPT !.wants = k, !.writes = w]]
    BY <1>1, <2>1
  <2> QED
    BY <1>3, <1>8, <2>2 DEF WriteRow, AtRow, At
<1>9. ASSUME NEW r \in Requests, Failing(r) PROVE SumInv'
  BY <1>3, <1>9, FailingRollsBack DEF Rollback
<1>10. ASSUME NEW r \in Requests, SaveInMemory(r) PROVE SumInv'
  <2> DEFINE x == [request[r] EXCEPT !.pc = "200", !.total = Total(rows', Body(r))]
  <2>1. /\ backend = "memory" /\ request[r].pc = "open"
        /\ rows' = After(rows, Change(Body(r)))
        /\ applied' = applied \cup {r} /\ UNCHANGED backend
        /\ request' = [request EXCEPT ![r] = x]
    BY <1>1, <1>10 DEF SaveInMemory, At
  <2>2. x.pc = "200" /\ x.body = request[r].body /\ Body(r) \in Bodies
    BY <1>1, <2>1 DEF RequestType, IInv, RequestInv, BodyOK, Body
  <2> HIDE DEF x
  <2>3. request'[r] = x /\ Body(r)' = Body(r)
    BY <1>1, <2>1, <2>2 DEF Body
  <2> QED
    BY <1>2, <2>1, <2>2, <2>3, SumGrows
<1>11. ASSUME NEW r \in Requests, Commit(r) PROVE SumInv'
  <2>1. /\ request[r].pc = "tx" /\ applied' = applied \cup {r} /\ UNCHANGED backend
    BY <1>11 DEF Commit, At
  <2>2. PICK x \in RequestType :
          request' = [request EXCEPT ![r] = x] /\ x.pc \in {"200", "500"} /\ x.body = Body(r)
    BY <1>11, CommitAnswers
  <2>3. request'[r] = x /\ Body(r)' = Body(r)
    BY <1>1, <2>2 DEF Body
  <2> QED
    BY <1>2, <1>11, <2>1, <2>2, <2>3, CommitIsAfter, SumGrows
<1>12. CASE Shutting
  BY <1>12, ShuttingKeeps, SumKept
<1> QED
  BY <1>4, <1>5, <1>6, <1>7, <1>8, <1>9, <1>10, <1>11, <1>12, Steps

\* No increment of a counter is lost and none counts twice, whatever requests,
\* batches and failed transactions run at once: a counter is the sum of what
\* the applied requests add, exact in Postgres and modulo 2^64 in memory.
THEOREM StoreCountersAreSums == Spec => []CountersAreSums
<1>1. SumInv => CountersAreSums
  BY SumsAreSums DEF SumInv
<1> QED
  BY <1>1, InitIInv, NextIInv, SumInit, SumNext, PTL DEF Spec

-----------------------------------------------------------------------------
(* The pool, and that the storage never gets stuck.                         *)

\* A request holds a connection for the time of its transaction.
PoolInv ==
  /\ \A r \in Requests : request[r].conn <=> request[r].pc = "tx"
  /\ IsFiniteSet(InUse) /\ Cardinality(InUse) <= PoolSize

LEMMA PoolInit == Init => PoolInv
<1> SUFFICES ASSUME Init PROVE PoolInv
  OBVIOUS
<1>1. \A r \in Requests : ~request[r].conn /\ request[r].pc = "idle"
  BY DEF Init, Idle
<1>2. InUse = {}
  BY <1>1 DEF InUse
<1> QED
  BY <1>1, <1>2, FS_EmptySet, StoreAssumption DEF PoolInv

\* A request goes on to x without taking a connection.
LEMMA PoolKept ==
  ASSUME IInv, PoolInv, NEW r \in Requests, NEW x, request' = [request EXCEPT ![r] = x],
         x.conn <=> x.pc = "tx", x.conn => request[r].conn
  PROVE  PoolInv'
<1>1. request'[r] = x /\ \A q \in Requests : q # r => request'[q] = request[q]
  BY DEF IInv, TypeOK
<1>2. InUse' \subseteq InUse
  BY <1>1 DEF InUse
<1>3. /\ IsFiniteSet(InUse') /\ Cardinality(InUse') <= Cardinality(InUse)
      /\ Cardinality(InUse) \in Nat /\ Cardinality(InUse') \in Nat
  BY <1>2, FS_Subset, FS_CardinalityType DEF PoolInv
<1> QED
  BY <1>1, <1>3, StoreAssumption DEF PoolInv

LEMMA PoolTaken ==
  ASSUME IInv, PoolInv, NEW r \in Requests, Begin(r)
  PROVE  PoolInv'
<1>1. PICK k : request' = [request EXCEPT ![r].pc = "tx", ![r].conn = TRUE, ![r].wants = k]
  BY DEF Begin
<1>2. /\ request'[r].conn = TRUE /\ request'[r].pc = "tx"
      /\ \A q \in Requests : q # r => request'[q] = request[q]
  BY <1>1 DEF IInv, TypeOK, RequestType
<1>3. InUse' = InUse \cup {r}
  BY <1>2 DEF InUse
<1>4. Cardinality(InUse) < PoolSize
  BY DEF Begin, CanQuery
<1>5. /\ IsFiniteSet(InUse') /\ Cardinality(InUse) \in Nat
      /\ Cardinality(InUse') \in {Cardinality(InUse), Cardinality(InUse) + 1}
  BY <1>3, FS_AddElement, FS_CardinalityType DEF PoolInv
<1> QED
  BY <1>2, <1>4, <1>5, StoreAssumption DEF PoolInv

LEMMA PoolNext == IInv /\ PoolInv /\ [Next]_vars => PoolInv'
<1> SUFFICES ASSUME IInv, PoolInv, [Next]_vars PROVE PoolInv'
  OBVIOUS
<1>1. request \in [Requests -> RequestType]
  BY DEF IInv, TypeOK
<1>2. ASSUME NEW r \in Requests, Arrive(r) PROVE PoolInv'
  <2>1. PICK b \in Offers[r] : request' = [request EXCEPT ![r].pc = "open", ![r].body = b]
    BY <1>2 DEF Arrive
  <2> DEFINE x == [request[r] EXCEPT !.pc = "open", !.body = b]
  <2>2. request' = [request EXCEPT ![r] = x]
    BY <1>1, <2>1
  <2>3. x.pc = "open" /\ x.conn = request[r].conn
    BY <1>1 DEF RequestType
  <2> QED
    BY <1>2, <2>2, <2>3, PoolKept DEF Arrive, PoolInv
<1>3. ASSUME NEW r \in Requests, Ending(r) PROVE PoolInv'
  <2>1. PICK s \in Ended : request[r].pc \in {"open", "half"} /\ Answer(r, s)
    BY <1>3, EndingAnswers
  <2> DEFINE x == [request[r] EXCEPT !.pc = s]
  <2>2. request' = [request EXCEPT ![r] = x] /\ x.pc = s /\ x.conn = request[r].conn
    BY <1>1, <2>1 DEF Answer, RequestType
  <2> QED
    BY <2>1, <2>2, PoolKept DEF Ended, PoolInv
<1>4. ASSUME NEW r \in Requests, ReadGauges(r) \/ ReadCounters(r) PROVE PoolInv'
  <2>1. PICK half, pc : /\ request[r].pc \in {"open", "half"} /\ pc \in {"half", "200"}
                        /\ ReadHalf(r, half, pc)
    BY <1>4 DEF ReadGauges, ReadCounters, At
  <2> DEFINE x == [request[r] EXCEPT !.pc = pc, !.page[half] = applied]
  <2>2. request' = [request EXCEPT ![r] = x]
    BY <1>1, <2>1 DEF ReadHalf
  <2>3. x.pc = pc /\ x.conn = request[r].conn
    BY <1>1 DEF RequestType
  <2> QED
    BY <2>1, <2>2, <2>3, PoolKept DEF PoolInv
<1>5. ASSUME NEW r \in Requests, WriteRow(r) PROVE PoolInv'
  <2>1. PICK k, w : request' = [request EXCEPT ![r].wants = k, ![r].writes = w]
    BY <1>5 DEF WriteRow
  <2> DEFINE x == [request[r] EXCEPT !.wants = k, !.writes = w]
  <2>2. request' = [request EXCEPT ![r] = x]
    BY <1>1, <2>1
  <2>3. x.pc = request[r].pc /\ x.conn = request[r].conn
    BY <1>1 DEF RequestType
  <2> QED
    BY <2>2, <2>3, PoolKept DEF PoolInv
<1>6. ASSUME NEW r \in Requests, Failing(r) PROVE PoolInv'
  <2> DEFINE x == Release(r, "500")
  <2>1. request' = [request EXCEPT ![r] = x]
    BY <1>6, FailingRollsBack DEF Rollback
  <2>2. x.pc = "500" /\ x.conn = FALSE
    BY <1>1 DEF Release, RequestType
  <2> QED
    BY <2>1, <2>2, PoolKept
<1>7. ASSUME NEW r \in Requests, SaveInMemory(r) PROVE PoolInv'
  <2> DEFINE x == [request[r] EXCEPT !.pc = "200", !.total = Total(rows', Body(r))]
  <2>1. /\ request[r].pc = "open" /\ request' = [request EXCEPT ![r] = x]
    BY <1>1, <1>7 DEF SaveInMemory, At
  <2>2. x.pc = "200" /\ x.conn = request[r].conn
    BY <1>1 DEF RequestType
  <2> QED
    BY <2>1, <2>2, PoolKept DEF PoolInv
<1>8. ASSUME NEW r \in Requests, Commit(r) PROVE PoolInv'
  <2>1. PICK x \in RequestType :
          request' = [request EXCEPT ![r] = x] /\ x.pc \in {"200", "500"} /\ x.conn = FALSE
    BY <1>8, CommitAnswers
  <2> QED
    BY <2>1, PoolKept
<1>9. CASE Shutting
  BY <1>9, ShuttingKeeps DEF PoolInv, InUse
<1> QED
  BY <1>2, <1>3, <1>4, <1>5, <1>6, <1>7, <1>8, <1>9, PoolTaken, Steps

\* Transactions never take more connections than the pool has, although each
\* of their statements and reads of other requests ask for one.
THEOREM StorePoolWithinLimit == Spec => [](Cardinality(InUse) <= PoolSize)
<1>1. PoolInv => Cardinality(InUse) <= PoolSize
  BY DEF PoolInv
<1> QED
  BY <1>1, InitIInv, NextIInv, PoolInit, PoolNext, PTL DEF Spec

\* A transaction has its commit to send, finds its row free, or is in a circle
\* that Postgres breaks.
TxReady(r) == At(r, "tx") /\ (request[r].wants = NoKey \/ AtRow(r) \/ Deadlocked(r))

\* A finite set that a function maps into itself has a part it maps onto itself.
LEMMA CircleExists ==
  ASSUME NEW F, NEW T, IsFiniteSet(T), T # {}, \A q \in T : F[q] \in T
  PROVE  \E S \in SUBSET T : S # {} /\ {F[q] : q \in S} = S
<1> DEFINE Closed == {S \in SUBSET T : S # {} /\ \A q \in S : F[q] \in S}
           sizes == {Cardinality(S) : S \in Closed}
<1>1. \A S \in Closed : IsFiniteSet(S) /\ Cardinality(S) \in Nat
  BY FS_Subset, FS_CardinalityType
<1>2. PICK m \in sizes : \A n \in sizes : m <= n
  <2>1. sizes \subseteq Nat /\ sizes # {}
    BY <1>1
  <2> HIDE DEF sizes
  <2> QED
    BY <2>1, LeastExists
<1>3. PICK S \in Closed : Cardinality(S) = m
  OBVIOUS
<1> DEFINE U == {F[q] : q \in S}
<1>4. U \subseteq S /\ U \in Closed
  OBVIOUS
<1>5. Cardinality(S) <= Cardinality(U)
  BY <1>2, <1>3, <1>4
<1>6. U = S
  <2>1. /\ IsFiniteSet(S) /\ Cardinality(S) \in Nat /\ Cardinality(U) \in Nat
        /\ Cardinality(U) <= Cardinality(S)
    BY <1>1, <1>4, FS_Subset
  <2> HIDE DEF U
  <2>2. Cardinality(U) = Cardinality(S)
    BY <1>5, <2>1
  <2> QED
    BY <1>4, <2>1, <2>2, FS_Subset
<1> QED
  BY <1>3, <1>6

LEMMA SomeTxReady ==
  ASSUME IInv, PoolInv, Running, NEW t \in Requests, request[t].pc = "tx"
  PROVE  \E r \in Requests : TxReady(r)
<1> SUFFICES ASSUME \A r \in Requests : ~TxReady(r) PROVE FALSE
  OBVIOUS
<1> DEFINE F == [q \in InUse |-> Owner(q)]
<1>1. /\ IsFiniteSet(InUse) /\ t \in InUse /\ InUse \subseteq Requests
      /\ \A q \in InUse : request[q].pc = "tx" /\ request[q].conn
  BY DEF PoolInv, InUse
<1>2. ASSUME NEW q \in InUse
      PROVE  Owners(request[q].wants) # {} /\ Owner(q) \in InUse
  <2>1. Owners(request[q].wants) # {}
    BY <1>1 DEF TxReady, AtRow, At, Querier
  <2>2. Owner(q) \in Requests /\ request[q].wants \in Locked(Owner(q))
    BY <2>1 DEF Owners, Owner
  <2>3. request[Owner(q)].pc = "tx"
    BY <2>2 DEF IInv, RequestInv, TxOK, Locked
  <2> QED
    BY <2>1, <2>2, <2>3 DEF PoolInv, InUse
<1>3. PICK S \in SUBSET InUse : S # {} /\ {F[q] : q \in S} = S
  <2>1. IsFiniteSet(InUse) /\ InUse # {} /\ \A q \in InUse : F[q] \in InUse
    BY <1>1, <1>2
  <2> HIDE DEF F
  <2>2. \E S \in SUBSET InUse : S # {} /\ {F[q] : q \in S} = S
    BY <2>1, CircleExists
  <2> QED
    BY <2>2
<1>4. {Owner(q) : q \in S} = S
  BY <1>3
<1>5. PICK r : r \in S
  BY <1>3
<1>6. r \in Requests /\ Deadlocked(r) /\ At(r, "tx")
  BY <1>1, <1>2, <1>4, <1>5 DEF Deadlocked, At
<1> QED
  BY <1>6 DEF TxReady

\* A request that has no transaction needs no connection, gets one, or is told
\* that the pool is closed.
Ready(r) ==
  \/ TxReady(r)
  \/ Running /\ request[r].pc \in {"open", "half"} /\ (Queries(r) => CanQuery \/ server = "closing")

\* As long as the process runs, requests that wait for connections or for the
\* rows of each other never all wait: one of them can make a step of its own.
NeverStuck ==
  Running /\ (\E r \in Requests : request[r].pc \in {"open", "half", "tx"}) =>
    \E r \in Requests : Ready(r)

\* Circles of batches, each holding rows and a connection, are always left by
\* one that Postgres ends, and the pool by one that commits: the storage is
\* never stuck, whatever the rows, the order of their writes and the pool.
THEOREM StoreNeverStuck == Spec => []NeverStuck
<1>1. ASSUME IInv, PoolInv PROVE NeverStuck
  <2> SUFFICES ASSUME Running, NEW r \in Requests, request[r].pc \in {"open", "half", "tx"}
               PROVE  \E q \in Requests : Ready(q)
    BY DEF NeverStuck
  <2>1. CASE \E t \in Requests : request[t].pc = "tx"
    BY <1>1, <2>1, SomeTxReady DEF Ready
  <2>2. CASE \A t \in Requests : request[t].pc # "tx"
    <3>1. InUse = {}
      BY <1>1, <2>2 DEF PoolInv, InUse
    <3>2. Cardinality(InUse) < PoolSize
      BY <3>1, FS_EmptySet, StoreAssumption
    <3> QED
      BY <2>2, <3>2 DEF Ready, CanQuery
  <2> QED
    BY <2>1, <2>2
<1>2. IInv /\ PoolInv => NeverStuck
  BY <1>1
<1> QED
  BY <1>2, InitIInv, NextIInv, PoolInit, PoolNext, PTL DEF Spec

-----------------------------------------------------------------------------
(* The storage is a map.                                                    *)

LEMMA MapInit == Init => Map!Init
<1> SUFFICES ASSUME Init PROVE Map!Init
  OBVIOUS
<1>1. (backend = "postgres") \in BOOLEAN
  OBVIOUS
<1>2. rows = [k \in Keys |-> Absent] /\ applied = {}
  BY DEF Init
<1>3. Asked = [r \in Requests |-> [pc |-> "idle", body |-> <<>>, total |-> Absent]]
  BY DEF Init, Asked, Idle, Body
<1> QED
  BY <1>1, <1>2, <1>3 DEF Map!Init, Map!Keys, Keys

\* What the clients see when one request goes on to x.
LEMMA AskedStep ==
  ASSUME IInv, NEW r \in Requests, NEW x \in RequestType, request' = [request EXCEPT ![r] = x]
  PROVE  Asked' = [Asked EXCEPT ![r] =
                     [pc    |-> IF x.pc \in {"half", "tx"} THEN "open" ELSE x.pc,
                      body  |-> x.body,
                      total |-> x.total]]
<1>1. /\ request'[r] = x
      /\ \A q \in Requests : q # r => request'[q] = request[q]
  BY DEF IInv, TypeOK
<1> QED
  BY <1>1 DEF Asked, Body

LEMMA AskedIs ==
  ASSUME NEW r \in Requests
  PROVE  Asked[r] = [pc    |-> IF request[r].pc \in {"half", "tx"} THEN "open" ELSE request[r].pc,
                     body  |-> Body(r),
                     total |-> request[r].total]
BY DEF Asked

\* The request ends as it came.
LEMMA MapEnds ==
  ASSUME IInv, NEW r \in Requests, request[r].pc \in {"open", "half", "tx"},
         NEW x \in RequestType, request' = [request EXCEPT ![r] = x],
         x.pc \in Ended, x.body = Body(r), x.total = request[r].total,
         x.pc = "200" => ~Writes(Body(r)),
         UNCHANGED <<backend, rows, applied>>
  PROVE  Map!End(r)
<1>1. Asked[r] = [pc |-> "open", body |-> Body(r), total |-> request[r].total]
  BY AskedIs
<1>2. x.pc \notin {"half", "tx"}
  BY DEF Ended
<1>3. Asked' = [Asked EXCEPT ![r] = [pc |-> x.pc, body |-> Body(r), total |-> request[r].total]]
  BY <1>2, AskedStep
<1>4. Asked' = [Asked EXCEPT ![r].pc = x.pc]
  BY <1>1, <1>3 DEF Asked
<1>5. Asked[r].pc = "open" /\ Asked[r].body = Body(r)
  BY <1>1
<1>6. x.pc \in {"200", "400", "404", "500"} /\ (x.pc = "200" => ~Map!Writes(Body(r)))
  BY SameChange DEF Ended
<1> QED
  BY <1>4, <1>5, <1>6 DEF Map!End

LEMMA MapEnding ==
  ASSUME IInv, NEW r \in Requests, Ending(r)
  PROVE  Map!End(r)
<1>1. PICK s \in Ended : /\ request[r].pc \in {"open", "half"} /\ Answer(r, s)
                         /\ s = "200" => Body(r).call # "list" /\ ~Writes(Body(r))
                         /\ UNCHANGED <<backend, rows, applied, server>>
  BY EndingAnswers
<1> DEFINE x == [request[r] EXCEPT !.pc = s]
<1>2. request[r] \in RequestType /\ request' = [request EXCEPT ![r] = x]
  BY <1>1 DEF IInv, TypeOK, Answer
<1>3. /\ x \in RequestType /\ x.pc = s
      /\ x.body = Body(r) /\ x.total = request[r].total
  BY <1>2 DEF RequestType, Ended, Body
<1> HIDE DEF x
<1> QED
  BY <1>1, <1>2, <1>3, MapEnds

LEMMA MapFailing ==
  ASSUME IInv, NEW r \in Requests, Failing(r)
  PROVE  Map!End(r)
<1>1. request[r].pc = "tx" /\ Rollback(r) /\ request[r] \in RequestType /\ "500" \in Ended
  BY FailingRollsBack DEF IInv, TypeOK, Ended
<1> DEFINE x == Release(r, "500")
<1>2. /\ x \in RequestType /\ x.pc = "500"
      /\ x.body = Body(r) /\ x.total = request[r].total
  BY <1>1, ReleaseTyped
<1>3. request' = [request EXCEPT ![r] = x] /\ UNCHANGED <<backend, rows, applied>>
  BY <1>1 DEF Rollback
<1> HIDE DEF x
<1> QED
  BY <1>1, <1>2, <1>3, MapEnds

\* The change is made as the answer is.
LEMMA MapApplies ==
  ASSUME IInv, NEW r \in Requests, request[r].pc \in {"open", "tx"},
         Writes(Body(r)), backend = "postgres" => Fits(rows, Change(Body(r))),
         rows' = After(rows, Change(Body(r))), applied' = applied \cup {r}, UNCHANGED backend,
         NEW x \in RequestType, request' = [request EXCEPT ![r] = x], x.body = Body(r),
         \/ x.pc = "200" /\ x.total = Total(rows', Body(r))
         \/ x.pc = "500" /\ x.total = request[r].total
  PROVE  Map!Apply(r)
<1>1. Asked[r] = [pc |-> "open", body |-> Body(r), total |-> request[r].total]
  BY AskedIs
<1>2. /\ Map!Writes(Body(r)) /\ Map!Change(Body(r)) = Change(Body(r))
      /\ (backend = "postgres") => Map!Fits(rows, Change(Body(r)))
      /\ rows' = Map!After(rows, Change(Body(r)))
      /\ Map!Total(rows', Body(r)) = Total(rows', Body(r))
  BY SameChange, SameAfter
<1>3. Asked' = [Asked EXCEPT ![r] = [pc |-> x.pc, body |-> Body(r), total |-> x.total]]
  BY AskedStep
<1>4. \/ Asked' = [Asked EXCEPT ![r].pc = "200", ![r].total = Total(rows', Body(r))]
      \/ Asked' = [Asked EXCEPT ![r].pc = "500"]
  <2> DEFINE old == [pc |-> "open", body |-> Body(r), total |-> request[r].total]
             new == [pc |-> x.pc, body |-> Body(r), total |-> x.total]
  <2>1. CASE x.pc = "200" /\ x.total = Total(rows', Body(r))
    <3>1. new = [old EXCEPT !.pc = "200", !.total = Total(rows', Body(r))]
      <4>1. new = [pc |-> "200", body |-> Body(r), total |-> Total(rows', Body(r))]
        BY <2>1
      <4>2. [old EXCEPT !.pc = "200"]
              = [pc |-> "200", body |-> Body(r), total |-> request[r].total]
        OBVIOUS
      <4> DEFINE mid == [pc |-> "200", body |-> Body(r), total |-> request[r].total]
      <4>3. [mid EXCEPT !.total = Total(rows', Body(r))]
              = [pc |-> "200", body |-> Body(r), total |-> Total(rows', Body(r))]
        OBVIOUS
      <4> HIDE DEF old, new, mid
      <4> QED
        BY <4>1, <4>2, <4>3 DEF mid
    <3> HIDE DEF old, new
    <3>2. [Asked EXCEPT ![r].pc = "200", ![r].total = Total(rows', Body(r))]
            = [Asked EXCEPT ![r] = new]
      <4>1. Asked[r] = old
        BY <1>1 DEF old
      <4>2. [Asked EXCEPT ![r] = [@ EXCEPT !.pc = "200", !.total = Total(rows', Body(r))]]
              = [Asked EXCEPT ![r] = new]
        BY <3>1, <4>1
      <4> QED
        BY <4>2
    <3> QED
      BY <1>3, <3>2 DEF new
  <2>2. CASE x.pc = "500" /\ x.total = request[r].total
    <3>1. new = [old EXCEPT !.pc = "500"]
      BY <2>2
    <3> HIDE DEF old, new
    <3>2. [Asked EXCEPT ![r].pc = "500"] = [Asked EXCEPT ![r] = new]
      BY <1>1, <3>1 DEF Asked, old
    <3> QED
      BY <1>3, <3>2 DEF new
  <2> QED
    BY <2>1, <2>2
<1>5. Asked[r].body = Body(r) /\ Asked[r].pc = "open"
  BY <1>1
<1> QED
  BY <1>2, <1>4, <1>5 DEF Map!Apply

LEMMA MapSaveInMemory ==
  ASSUME IInv, NEW r \in Requests, SaveInMemory(r)
  PROVE  Map!Apply(r)
<1> DEFINE x == [request[r] EXCEPT !.pc = "200", !.total = Total(rows', Body(r))]
<1>1. /\ backend = "memory" /\ request[r].pc = "open" /\ Writes(Body(r))
      /\ rows' = After(rows, Change(Body(r)))
      /\ applied' = applied \cup {r} /\ UNCHANGED backend
      /\ request' = [request EXCEPT ![r].pc = "200", ![r].total = Total(rows', Body(r))]
  BY DEF SaveInMemory, At
<1>2. /\ request[r] \in RequestType /\ rows \in [Keys -> Value] /\ Body(r) \in Bodies
      /\ request' = [request EXCEPT ![r] = x]
  BY <1>1 DEF IInv, TypeOK, RequestInv, BodyOK, Body
<1>3. Total(rows', Body(r)) \in Value
  BY <1>1, <1>2, AfterTyped, TotalTyped
<1>4. /\ x \in RequestType /\ x.pc = "200"
      /\ x.body = Body(r) /\ x.total = Total(rows', Body(r))
  BY <1>2, <1>3 DEF RequestType, Ended, Body
<1> HIDE DEF x
<1> QED
  BY <1>1, <1>2, <1>4, MapApplies

LEMMA MapCommit ==
  ASSUME IInv, NEW r \in Requests, Commit(r)
  PROVE  Map!Apply(r)
<1>1. /\ request[r].pc = "tx" /\ applied' = applied \cup {r} /\ UNCHANGED backend
      /\ request[r] \in RequestType /\ rows \in [Keys -> Value]
  BY DEF Commit, At, IInv, TypeOK
<1>2. Total(rows', Body(r)) \in Value
  BY <1>1, CommitIsAfter, AfterTyped, TotalTyped
<1>3. CASE request' = [request EXCEPT ![r] = Release(r, "500")]
  BY <1>1, <1>3, CommitIsAfter, ReleaseTyped, MapApplies DEF Ended
<1>4. CASE request' = [request EXCEPT
                         ![r] = [Release(r, "200") EXCEPT !.total = Total(rows', Body(r))]]
  <2> DEFINE x == [Release(r, "200") EXCEPT !.total = Total(rows', Body(r))]
  <2>1. /\ Release(r, "200") \in RequestType /\ Release(r, "200").pc = "200"
        /\ Release(r, "200").body = Body(r)
    BY <1>1, ReleaseTyped DEF Ended
  <2>2. /\ x \in RequestType /\ x.pc = "200" /\ x.body = Body(r)
        /\ x.total = Total(rows', Body(r))
    BY <1>2, <2>1 DEF RequestType
  <2> HIDE DEF x
  <2>3. request' = [request EXCEPT ![r] = x]
    BY <1>4 DEF x
  <2> QED
    BY <1>1, <2>2, <2>3, CommitIsAfter, MapApplies
<1> QED
  BY <1>3, <1>4 DEF Commit

LEMMA MapArrive ==
  ASSUME IInv, NEW r \in Requests, Arrive(r)
  PROVE  Map!Arrive(r)
<1>1. PICK b \in Offers[r] : request' = [request EXCEPT ![r].pc = "open", ![r].body = b]
  BY DEF Arrive
<1> DEFINE x == [Idle EXCEPT !.pc = "open", !.body = b]
<1>2. b \in Bodies /\ UNCHANGED <<backend, rows, applied>>
  BY StoreAssumption DEF Arrive
<1>3. request[r] = Idle
  BY DEF Arrive, IInv, RequestInv, BodyOK
<1>4. request' = [request EXCEPT ![r] = x]
  BY <1>1, <1>3 DEF IInv, TypeOK
<1>5. x \in RequestType /\ x.pc = "open" /\ x.body = b /\ x.total = Absent
  BY <1>2, IdleTyped DEF RequestType, Idle
<1> HIDE DEF x
<1>6. Asked' = [Asked EXCEPT ![r] = [pc |-> "open", body |-> b, total |-> Absent]]
  BY <1>4, <1>5, AskedStep
<1>7. Asked[r].pc = "idle"
  BY <1>3 DEF Asked, Idle
<1> QED
  BY <1>2, <1>6, <1>7 DEF Map!Arrive

LEMMA MapReadCounters ==
  ASSUME IInv, NEW r \in Requests, ReadCounters(r)
  PROVE  Map!End(r)
<1> DEFINE x == [request[r] EXCEPT !.pc = "200", !.page[3 - FirstHalf] = applied]
<1>1. /\ request[r].pc = "half" /\ request[r] \in RequestType
      /\ request' = [request EXCEPT ![r] = x] /\ UNCHANGED <<backend, rows, applied>>
  BY DEF ReadCounters, ReadHalf, At, IInv, TypeOK
<1>2. x \in RequestType
  BY ReadHalfIInv, <1>1 DEF IInv, TypeOK
<1>3. x.pc = "200" /\ x.body = Body(r) /\ x.total = request[r].total
  BY <1>1 DEF RequestType, Body
<1>4. ~Writes(Body(r))
  BY <1>1 DEF IInv, RequestInv, PageOK, Writes, Body
<1> HIDE DEF x
<1> QED
  BY <1>1, <1>2, <1>3, <1>4, MapEnds DEF Ended

\* Between its arrival and its end nothing is seen of a request.
LEMMA MapStutters ==
  ASSUME IInv, NEW r \in Requests, ReadGauges(r) \/ Begin(r) \/ WriteRow(r)
  PROVE  UNCHANGED <<backend, rows, applied, Asked>>
<1>1. /\ UNCHANGED <<backend, rows, applied>>
      /\ request[r].pc \in {"open", "tx"}
      /\ request \in [Requests -> RequestType]
  BY DEF ReadGauges, ReadHalf, Begin, WriteRow, AtRow, At, IInv, TypeOK
<1>2. /\ \A q \in Requests : q # r => request'[q] = request[q]
      /\ request'[r].pc \in {"half", "tx"}
      /\ request'[r].body = request[r].body /\ request'[r].total = request[r].total
  <2>1. CASE ReadGauges(r)
    BY <1>1, <2>1 DEF ReadGauges, ReadHalf, RequestType
  <2>2. CASE Begin(r)
    <3>1. PICK k :
            request' = [request EXCEPT ![r].pc = "tx", ![r].conn = TRUE, ![r].wants = k]
      BY <2>2 DEF Begin
    <3> QED
      BY <1>1, <3>1 DEF RequestType
  <2>3. CASE WriteRow(r)
    <3>1. PICK k, w : request' = [request EXCEPT ![r].wants = k, ![r].writes = w]
      BY <2>3 DEF WriteRow
    <3>2. request[r].pc = "tx"
      BY <2>3 DEF WriteRow, AtRow, At
    <3> QED
      BY <1>1, <3>1, <3>2 DEF RequestType
  <2> QED
    BY <2>1, <2>2, <2>3
<1>3. Asked'[r] = Asked[r]
  BY <1>1, <1>2 DEF Asked, Body
<1>4. \A q \in Requests : q # r => Asked'[q] = Asked[q]
  BY <1>2 DEF Asked, Body
<1>5. Asked' = Asked
  BY <1>3, <1>4 DEF Asked
<1> QED
  BY <1>1, <1>5

\* The storage, in memory or in Postgres, implements the map: every request
\* makes its change once and whole, at the moment its client could see it.
THEOREM StoreImplementsMap == Spec => ImplementsMap
<1>1. ASSUME IInv, [Next]_vars PROVE [Map!Next]_Map!mapVars
  <2>1. ASSUME NEW r \in Requests,
               Ending(r) \/ Failing(r) \/ ReadCounters(r) \/ Arrive(r)
                 \/ SaveInMemory(r) \/ Commit(r)
        PROVE  Map!Next
    BY <1>1, <2>1, MapEnding, MapFailing, MapReadCounters, MapArrive, MapSaveInMemory, MapCommit
       DEF Map!Next
  <2>2. ASSUME NEW r \in Requests, ReadGauges(r) \/ Begin(r) \/ WriteRow(r)
        PROVE  UNCHANGED Map!mapVars
    BY <1>1, <2>2, MapStutters DEF Map!mapVars
  <2>3. CASE Shutting
    BY <1>1, <2>3, ShuttingKeeps DEF Map!mapVars, Asked, Body
  <2> QED
    BY <1>1, <2>1, <2>2, <2>3, Steps
<1>2. IInv /\ [Next]_vars => [Map!Next]_Map!mapVars
  BY <1>1
<1> QED
  BY <1>2, MapInit, InitIInv, NextIInv, PTL DEF Spec, ImplementsMap, Map!Spec
=============================================================================
