--------------------------- MODULE PipelineProofs ---------------------------
(***************************************************************************)
(* Proofs about the way of a request through hook and middleware, for any  *)
(* requests, keys, foreign clients and pools.                              *)
(***************************************************************************)
EXTENDS Pipeline, FiniteSetTheorems, SequenceTheorems, TLAPS

-----------------------------------------------------------------------------
(* Bodies.                                                                  *)

Layers == Keys \cup {"gzip"}

LEMMA Prepended ==
  ASSUME NEW S, NEW e \in S, NEW s \in Seq(S)
  PROVE  /\ <<e>> \o s \in Seq(S) /\ <<e>> \o s # <<>>
         /\ Head(<<e>> \o s) = e
         /\ Tail(<<e>> \o s) = s
<1> DEFINE t == <<e>> \o s
<1>1. <<e>> \in Seq(S) /\ Len(<<e>>) = 1 /\ <<e>>[1] = e /\ Len(s) \in Nat
  OBVIOUS
<1>2. /\ t \in Seq(S) /\ Len(t) = 1 + Len(s)
      /\ \A i \in 1..1 + Len(s) : t[i] = IF i <= 1 THEN e ELSE s[i - 1]
  BY <1>1, ConcatProperties
<1> HIDE DEF t
<1>3. t # <<>> /\ Head(t) = e
  BY <1>1, <1>2
<1>4. /\ Tail(t) \in Seq(S) /\ Len(Tail(t)) = Len(s)
      /\ \A i \in 1..Len(s) : Tail(t)[i] = t[i + 1]
  BY <1>1, <1>2, <1>3, HeadTailProperties
<1>5. \A i \in 1..Len(s) : t[i + 1] = s[i]
  BY <1>1, <1>2
<1>6. Tail(t) = s
  BY <1>1, <1>4, <1>5, SeqEqual
<1> QED
  BY <1>2, <1>3, <1>6 DEF t

LEMMA PlainTyped ==
  ASSUME NEW d \in Requests \cup {Junk}
  PROVE  Plain(d) \in Body /\ Plain(d).data = d /\ Plain(d).layers = <<>>
BY DEF Plain, Body

LEMMA WrappedTyped ==
  ASSUME NEW b \in Body, NEW l \in Layers
  PROVE  /\ Wrapped(l, b) \in Body /\ Wrapped(l, b).data = b.data
         /\ IsWrapped(l, Wrapped(l, b)) /\ Unwrapped(Wrapped(l, b)) = b
<1>1. b.layers \in Seq(Layers) /\ b = [data |-> b.data, layers |-> b.layers]
  BY DEF Body, Layers
<1> DEFINE t == <<l>> \o b.layers
<1>2. t \in Seq(Layers) /\ t # <<>> /\ Head(t) = l /\ Tail(t) = b.layers
  BY <1>1, Prepended
<1>3. Wrapped(l, b) = [data |-> b.data, layers |-> t]
  BY DEF Wrapped
<1> HIDE DEF t
<1>4. Unwrapped([data |-> b.data, layers |-> t]) = [data |-> b.data, layers |-> b.layers]
  BY <1>2 DEF Unwrapped
<1>5. Wrapped(l, b) \in Body /\ Wrapped(l, b).data = b.data
  BY <1>2, <1>3 DEF Body, Layers
<1> QED
  BY <1>1, <1>2, <1>3, <1>4, <1>5 DEF IsWrapped

LEMMA UnwrappedTyped ==
  ASSUME NEW b \in Body, NEW l, IsWrapped(l, b)
  PROVE  Unwrapped(b) \in Body /\ Unwrapped(b).data = b.data
<1>1. b.layers \in Seq(Keys \cup {"gzip"}) /\ b.layers # <<>>
  BY DEF Body, IsWrapped
<1>2. Tail(b.layers) \in Seq(Keys \cup {"gzip"})
  BY <1>1, HeadTailProperties
<1> QED
  BY <1>2 DEF Unwrapped, Body

LEMMA EncryptedTyped ==
  ASSUME TypeOK, NEW r \in Requests
  PROVE  Encrypted(Plain(r)) \in Body /\ Encrypted(Plain(r)).data = r
<1>1. config.rsa \in Keys \cup {None} /\ Plain(r) \in Body /\ Plain(r).data = r
  BY PipelineAssumption, PlainTyped DEF TypeOK, Maybe
<1> QED
  BY <1>1, WrappedTyped DEF Encrypted, Layers

LEMMA SignatureTyped ==
  ASSUME NEW k \in Maybe(Keys), NEW b \in Body
  PROVE  Signature(k, b) \in Maybe(Keys \X Body)
BY DEF Signature, Maybe

-----------------------------------------------------------------------------
(* The inductive invariant: of the pools, and of each request.              *)

\* An object is in its pool, or held by one request and bound to it, or a reader
\* that was lost with a request that panicked.
PoolInv ==
  \A o \in Objects :
    /\ \A r \in Requests : Holds(r, o) =>
         /\ copies[o] = 0
         /\ bound[o] = r
         /\ \A q \in Requests : Holds(q, o) => q = r
    /\ Lost(o) =>
         /\ o \in Readers /\ bound[o] \in Requests
         /\ request[bound[o]].status = "aborted"
         /\ \A p \in Objects : Lost(p) /\ bound[p] = bound[o] => p = o

StatusOK(r) == request[r].status # None <=> request[r].pc \in {"close", "flush", "done"}

\* When a request holds which kind of object.
HoldOK(r) ==
  /\ request[r].gz # None <=> request[r].pc \in {"hook", "put"}
  /\ request[r].zw # None <=>
       /\ request[r].accept
       /\ request[r].pc \in {"gzip", "unread", "decrypt", "hash", "handler", "close", "flush"}
  /\ request[r].zr # None =>
       request[r].pc \in {"unread", "decrypt", "hash", "handler", "close"}
  /\ request[r].pc = "unread" => request[r].zr # None

\* Nobody writes a body but its own request.
BodyOK(r) ==
  /\ wire[r].data \in {r, Junk}
  /\ request[r].body # None =>
       /\ request[r].body.data \in {r, Junk}
       /\ request[r].pc \in {"hash", "handler", "close", "flush", "done"}

\* The handler is given what the signature was checked against.
SeenOK(r) ==
  /\ config.server # None /\ request[r].hash # None =>
       /\ request[r].pc = "handler" =>
            request[r].body # None /\ request[r].hash = <<config.server, request[r].body>>
       /\ request[r].seen # None => request[r].hash = <<config.server, Plain(r)>>
  /\ request[r].seen # None => request[r].seen = r /\ request[r].status # None

\* What reading the body of a request gives when its reader is bound to it.
Reads(x, w) ==
  IF x.body # None THEN x.body ELSE IF x.zr = None THEN w ELSE Gunzipped(w)

HookBody(r) == Wrapped("gzip", Encrypted(Plain(r)))

\* What the hook made is undone layer by layer.
HookOK(r) ==
  /\ request[r].pc = "new" => ~request[r].hooked /\ request[r].flaw = None
  /\ request[r].hooked =>
       /\ request[r].gzip /\ request[r].flaw = None /\ request[r].pc # "unread"
       /\ request[r].encrypted <=> config.rsa # None
       /\ request[r].hash = Signed(r)
       /\ request[r].pc \in {"put", "wire", "gzip", "decrypt"} =>
            wire[r] = HookBody(r)
       /\ request[r].pc = "decrypt" => request[r].zr # None
       /\ Agrees =>
            /\ request[r].pc \in {"hash", "handler"} =>
                 Reads(request[r], wire[r]) = Plain(r)
            /\ request[r].status # None => request[r].seen = r

\* What has been written to an answer.
AnswerOK(r) ==
  /\ out[r] \subseteq {<<r, "data">>, <<r, "end">>}
  /\ request[r].status \in {"200", "400", "413"} => <<r, "data">> \in out[r]
  /\ request[r].pc = "done" /\ request[r].accept => <<r, "end">> \in out[r]

RequestInv(r) == HoldOK(r) /\ BodyOK(r) /\ SeenOK(r) /\ HookOK(r) /\ AnswerOK(r)

IInv == TypeOK /\ PoolInv /\ \A r \in Requests : RequestInv(r)

\* A request reads its own body.
LEMMA ReadsItself ==
  ASSUME IInv, NEW r \in Requests
  PROVE  /\ Read(r) = Reads(request[r], wire[r])
         /\ Read(r) \in Body /\ Read(r).data \in {r, Junk}
<1> DEFINE x == request[r]
<1>1. x \in RequestType /\ wire[r] \in Body /\ BodyOK(r)
  BY DEF IInv, TypeOK, RequestInv
<1>2. x.zr # None => bound[x.zr] = r
  <2>1. x.zr # None => x.zr \in Objects /\ Holds(r, x.zr)
    BY <1>1 DEF RequestType, Maybe, Objects, Holds
  <2> QED
    BY <2>1 DEF IInv, PoolInv
<1>3. Read(r) = Reads(x, wire[r])
  BY <1>2 DEF Read, Reads
<1>4. Gunzipped(wire[r]) \in Body /\ Gunzipped(wire[r]).data \in {wire[r].data, Junk}
  BY <1>1, UnwrappedTyped, PlainTyped DEF Gunzipped
<1>5. x.body # None => x.body \in Body
  BY <1>1 DEF RequestType, Maybe
<1> QED
  BY <1>1, <1>3, <1>4, <1>5 DEF BodyOK, Reads

-----------------------------------------------------------------------------
(* Types.                                                                   *)

LEMMA InitTyped == Init => TypeOK
<1> SUFFICES ASSUME Init PROVE TypeOK
  OBVIOUS
<1>1. New \in RequestType
  BY DEF New, RequestType, Maybe, Pcs
<1>2. \A r \in Requests : New.status = None /\ New.pc = "new"
  BY DEF New
<1>3. Plain(Junk) \in Body
  BY PlainTyped
<1> QED
  BY <1>1, <1>2, <1>3 DEF Init, TypeOK, Maybe

\* What a step makes of the record of its request: all but the fields F stay.
Fields == {"pc", "gz", "zw", "zr", "body", "gzip", "accept", "encrypted", "hash",
           "hooked", "flaw", "seen", "status"}

Keeps(x, y, F) == \A f \in Fields \ F : y[f] = x[f]

Moves(r, F) ==
  /\ request' \in [Requests -> RequestType]
  /\ \A q \in Requests \ {r} : request'[q] = request[q]
  /\ Keeps(request[r], request'[r], F)

LEMMA UpdatedTyped ==
  ASSUME NEW x \in RequestType
  PROVE  /\ \A v \in Pcs : [x EXCEPT !.pc = v] \in RequestType
         /\ \A v \in Maybe(AgentWriters) : [x EXCEPT !.gz = v] \in RequestType
         /\ \A v \in Maybe(Writers) : [x EXCEPT !.zw = v] \in RequestType
         /\ \A v \in Maybe(Readers) : [x EXCEPT !.zr = v] \in RequestType
         /\ \A v \in Maybe(Body) : [x EXCEPT !.body = v] \in RequestType
         /\ \A v \in BOOLEAN : [x EXCEPT !.gzip = v] \in RequestType
         /\ \A v \in BOOLEAN : [x EXCEPT !.accept = v] \in RequestType
         /\ \A v \in BOOLEAN : [x EXCEPT !.encrypted = v] \in RequestType
         /\ \A v \in Maybe(Keys \X Body) : [x EXCEPT !.hash = v] \in RequestType
         /\ \A v \in BOOLEAN : [x EXCEPT !.hooked = v] \in RequestType
         /\ \A v \in Maybe({"big", "corrupt"}) : [x EXCEPT !.flaw = v] \in RequestType
         /\ \A v \in Maybe(Requests) : [x EXCEPT !.seen = v] \in RequestType
         /\ \A v \in Maybe(Statuses) : [x EXCEPT !.status = v] \in RequestType
BY DEF RequestType

LEMMA MovesTo ==
  ASSUME TypeOK, NEW r \in Requests, NEW y \in RequestType, NEW F,
         request' = [request EXCEPT ![r] = y], Keeps(request[r], y, F)
  PROVE  Moves(r, F) /\ request'[r] = y
BY DEF TypeOK, Moves

\* Steps that change where a request is, and one field more at most.
LEMMA GoesMoves ==
  ASSUME TypeOK, NEW r \in Requests, NEW p \in Pcs, Goes(r, p)
  PROVE  Moves(r, {"pc"}) /\ request'[r].pc = p
<1> DEFINE y == [request[r] EXCEPT !.pc = p]
<1>1. request[r] \in RequestType /\ request' = [request EXCEPT ![r] = y]
  BY DEF TypeOK, Goes
<1>2. y \in RequestType
  BY <1>1, UpdatedTyped
<1>3. Keeps(request[r], y, {"pc"}) /\ y.pc = p
  BY <1>1 DEF RequestType, Keeps, Fields
<1> HIDE DEF y
<1> QED
  BY <1>1, <1>2, <1>3, MovesTo

LEMMA SetsGzMoves ==
  ASSUME TypeOK, NEW r \in Requests, NEW p \in Pcs, NEW v \in Maybe(AgentWriters),
         request' = [request EXCEPT ![r].pc = p, ![r].gz = v]
  PROVE  Moves(r, {"pc", "gz"}) /\ request'[r].pc = p /\ request'[r].gz = v
<1> DEFINE y == [request[r] EXCEPT !.pc = p, !.gz = v]
<1>1. request[r] \in RequestType /\ request' = [request EXCEPT ![r] = y]
  BY DEF TypeOK
<1>2. y \in RequestType
  BY <1>1, UpdatedTyped
<1>3. Keeps(request[r], y, {"pc", "gz"}) /\ y.pc = p /\ y.gz = v
  BY <1>1 DEF RequestType, Keeps, Fields
<1> HIDE DEF y
<1> QED
  BY <1>1, <1>2, <1>3, MovesTo

LEMMA SetsZwMoves ==
  ASSUME TypeOK, NEW r \in Requests, NEW p \in Pcs, NEW v \in Maybe(Writers),
         request' = [request EXCEPT ![r].pc = p, ![r].zw = v]
  PROVE  Moves(r, {"pc", "zw"}) /\ request'[r].pc = p /\ request'[r].zw = v
<1> DEFINE y == [request[r] EXCEPT !.pc = p, !.zw = v]
<1>1. request[r] \in RequestType /\ request' = [request EXCEPT ![r] = y]
  BY DEF TypeOK
<1>2. y \in RequestType
  BY <1>1, UpdatedTyped
<1>3. Keeps(request[r], y, {"pc", "zw"}) /\ y.pc = p /\ y.zw = v
  BY <1>1 DEF RequestType, Keeps, Fields
<1> HIDE DEF y
<1> QED
  BY <1>1, <1>2, <1>3, MovesTo

LEMMA SetsZrMoves ==
  ASSUME TypeOK, NEW r \in Requests, NEW p \in Pcs, NEW v \in Maybe(Readers),
         request' = [request EXCEPT ![r].pc = p, ![r].zr = v]
  PROVE  Moves(r, {"pc", "zr"}) /\ request'[r].pc = p /\ request'[r].zr = v
<1> DEFINE y == [request[r] EXCEPT !.pc = p, !.zr = v]
<1>1. request[r] \in RequestType /\ request' = [request EXCEPT ![r] = y]
  BY DEF TypeOK
<1>2. y \in RequestType
  BY <1>1, UpdatedTyped
<1>3. Keeps(request[r], y, {"pc", "zr"}) /\ y.pc = p /\ y.zr = v
  BY <1>1 DEF RequestType, Keeps, Fields
<1> HIDE DEF y
<1> QED
  BY <1>1, <1>2, <1>3, MovesTo

LEMMA SetsBodyMoves ==
  ASSUME TypeOK, NEW r \in Requests, NEW p \in Pcs, NEW v \in Maybe(Body),
         request' = [request EXCEPT ![r].pc = p, ![r].body = v]
  PROVE  Moves(r, {"pc", "body"}) /\ request'[r].pc = p /\ request'[r].body = v
<1> DEFINE y == [request[r] EXCEPT !.pc = p, !.body = v]
<1>1. request[r] \in RequestType /\ request' = [request EXCEPT ![r] = y]
  BY DEF TypeOK
<1>2. y \in RequestType
  BY <1>1, UpdatedTyped
<1>3. Keeps(request[r], y, {"pc", "body"}) /\ y.pc = p /\ y.body = v
  BY <1>1 DEF RequestType, Keeps, Fields
<1> HIDE DEF y
<1> QED
  BY <1>1, <1>2, <1>3, MovesTo

LEMMA SetsStatusMoves ==
  ASSUME TypeOK, NEW r \in Requests, NEW p \in Pcs, NEW v \in Maybe(Statuses),
         request' = [request EXCEPT ![r].pc = p, ![r].status = v]
  PROVE  Moves(r, {"pc", "status"}) /\ request'[r].pc = p /\ request'[r].status = v
<1> DEFINE y == [request[r] EXCEPT !.pc = p, !.status = v]
<1>1. request[r] \in RequestType /\ request' = [request EXCEPT ![r] = y]
  BY DEF TypeOK
<1>2. y \in RequestType
  BY <1>1, UpdatedTyped
<1>3. Keeps(request[r], y, {"pc", "status"}) /\ y.pc = p /\ y.status = v
  BY <1>1 DEF RequestType, Keeps, Fields
<1> HIDE DEF y
<1> QED
  BY <1>1, <1>2, <1>3, MovesTo

LEMMA Kept ==
  ASSUME NEW r \in Requests, NEW F, Moves(r, F)
  PROVE  /\ "pc" \notin F => request'[r].pc = request[r].pc
         /\ "gz" \notin F => request'[r].gz = request[r].gz
         /\ "zw" \notin F => request'[r].zw = request[r].zw
         /\ "zr" \notin F => request'[r].zr = request[r].zr
         /\ "body" \notin F => request'[r].body = request[r].body
         /\ "gzip" \notin F => request'[r].gzip = request[r].gzip
         /\ "accept" \notin F => request'[r].accept = request[r].accept
         /\ "encrypted" \notin F => request'[r].encrypted = request[r].encrypted
         /\ "hash" \notin F => request'[r].hash = request[r].hash
         /\ "hooked" \notin F => request'[r].hooked = request[r].hooked
         /\ "flaw" \notin F => request'[r].flaw = request[r].flaw
         /\ "seen" \notin F => request'[r].seen = request[r].seen
         /\ "status" \notin F => request'[r].status = request[r].status
BY DEF Moves, Keeps, Fields

-----------------------------------------------------------------------------
(* The steps of the hook and of other clients, as moves.                    *)

LEMMA HookOpensMoves ==
  ASSUME TypeOK, NEW r \in Requests, HookOpens(r)
  PROVE  \E gz \in AgentWriters :
           /\ Get(gz) /\ bound' = [bound EXCEPT ![gz] = r]
           /\ Moves(r, {"pc", "gz", "hooked", "gzip", "accept", "hash", "encrypted"})
           /\ request'[r].pc = "hook" /\ request'[r].gz = gz
           /\ request'[r].hooked /\ request'[r].gzip /\ request'[r].accept
           /\ request'[r].hash = Signed(r)
           /\ request'[r].encrypted <=> config.rsa # None
<1> DEFINE e == config.rsa # None
           y(gz) == [request[r] EXCEPT !.pc = "hook", !.gz = gz, !.hooked = TRUE,
                       !.gzip = TRUE, !.accept = TRUE, !.hash = Signed(r), !.encrypted = e]
<1>1. e \in BOOLEAN /\ (e <=> config.rsa # None)
  OBVIOUS
<1>2. PICK gz \in AgentWriters :
        /\ Get(gz) /\ bound' = [bound EXCEPT ![gz] = r]
        /\ request' = [request EXCEPT ![r] = y(gz)]
  BY Zenon DEF HookOpens
<1> HIDE DEF e
<1>3. Signed(r) \in Maybe(Keys \X Body)
  BY PipelineAssumption, PlainTyped, SignatureTyped DEF Signed, TypeOK
<1>4. request[r] \in RequestType /\ gz \in Maybe(AgentWriters)
      /\ "hook" \in Pcs /\ TRUE \in BOOLEAN
  BY DEF TypeOK, Maybe, Pcs
<1>5. y(gz) \in RequestType
  <2>1. [request[r] EXCEPT !.pc = "hook", !.gz = gz] \in RequestType
    BY <1>4, UpdatedTyped
  <2>2. [request[r] EXCEPT !.pc = "hook", !.gz = gz, !.hooked = TRUE,
                           !.gzip = TRUE] \in RequestType
    BY <1>4, <2>1, UpdatedTyped
  <2>3. [request[r] EXCEPT !.pc = "hook", !.gz = gz, !.hooked = TRUE,
                           !.gzip = TRUE, !.accept = TRUE, !.hash = Signed(r)] \in RequestType
    BY <1>3, <1>4, <2>2, UpdatedTyped
  <2> QED
    BY <1>1, <2>3, UpdatedTyped
<1>6. /\ Keeps(request[r], y(gz), {"pc", "gz", "hooked", "gzip", "accept", "hash", "encrypted"})
      /\ y(gz).pc = "hook" /\ y(gz).gz = gz /\ y(gz).hooked /\ y(gz).gzip /\ y(gz).accept
      /\ y(gz).hash = Signed(r) /\ y(gz).encrypted = e
  BY <1>4 DEF RequestType, Keeps, Fields
<1> QED
  BY <1>1, <1>2, <1>5, <1>6, MovesTo

LEMMA SendEmptyMoves ==
  ASSUME TypeOK, NEW r \in Requests, SendEmpty(r)
  PROVE  /\ Moves(r, {"pc", "gzip", "accept"})
         /\ request'[r].pc = "wire"
<1> DEFINE y == [request[r] EXCEPT !.pc = "wire", !.gzip = TRUE, !.accept = TRUE]
<1>1. /\ request[r] \in RequestType /\ request' = [request EXCEPT ![r] = y]
      /\ "wire" \in Pcs /\ TRUE \in BOOLEAN
  BY DEF TypeOK, SendEmpty, Pcs
<1>2. [request[r] EXCEPT !.pc = "wire", !.gzip = TRUE] \in RequestType
  BY <1>1, UpdatedTyped
<1>3. y \in RequestType
  BY <1>1, <1>2, UpdatedTyped
<1>4. Keeps(request[r], y, {"pc", "gzip", "accept"}) /\ y.pc = "wire"
  BY <1>1 DEF RequestType, Keeps, Fields
<1> HIDE DEF y
<1> QED
  BY <1>1, <1>3, <1>4, MovesTo

LEMMA SendForeignMoves ==
  ASSUME TypeOK, NEW r \in Requests, SendForeign(r)
  PROVE  \E f \in Foreign :
           /\ wire' = [wire EXCEPT ![r] = [data |-> r, layers |-> f.layers]]
           /\ Moves(r, {"pc", "gzip", "accept", "encrypted", "flaw", "hash"})
           /\ request'[r].pc = "wire"
<1> DEFINE h(f) == Signature(f.key, Plain(r))
           y(f) == [request[r] EXCEPT !.pc = "wire", !.gzip = f.gzip, !.accept = f.accept,
                      !.encrypted = f.encrypted, !.flaw = f.flaw, !.hash = h(f)]
<1>1. PICK f \in Foreign :
        /\ wire' = [wire EXCEPT ![r] = [data |-> r, layers |-> f.layers]]
        /\ request' = [request EXCEPT ![r] = y(f)]
  BY Zenon DEF SendForeign
<1>2. /\ f.gzip \in BOOLEAN /\ f.accept \in BOOLEAN /\ f.encrypted \in BOOLEAN
      /\ f.key \in Maybe(Keys) /\ f.flaw \in Maybe({"big", "corrupt"})
  BY PipelineAssumption
<1>3. h(f) \in Maybe(Keys \X Body)
  BY <1>2, PlainTyped, SignatureTyped
<1> HIDE DEF h
<1>4. request[r] \in RequestType /\ "wire" \in Pcs
  BY DEF TypeOK, Pcs
<1>5. y(f) \in RequestType
  <2>1. [request[r] EXCEPT !.pc = "wire", !.gzip = f.gzip] \in RequestType
    BY <1>2, <1>4, UpdatedTyped
  <2>2. [request[r] EXCEPT !.pc = "wire", !.gzip = f.gzip, !.accept = f.accept,
                           !.encrypted = f.encrypted] \in RequestType
    BY <1>2, <2>1, UpdatedTyped
  <2> QED
    BY <1>2, <1>3, <2>2, UpdatedTyped
<1>6. /\ Keeps(request[r], y(f), {"pc", "gzip", "accept", "encrypted", "flaw", "hash"})
      /\ y(f).pc = "wire"
  BY <1>4 DEF RequestType, Keeps, Fields
<1> QED
  BY <1>1, <1>5, <1>6, MovesTo

\* A request that is refused, and the handler's own answer.
LEMMA RefuseMoves ==
  ASSUME TypeOK, NEW r \in Requests, NEW status \in Statuses, Refuse(r, status)
  PROVE  /\ Moves(r, {"pc", "status"})
         /\ request'[r].pc = "close" /\ request'[r].status = status
BY SetsStatusMoves DEF Refuse, Pcs, Maybe

LEMMA HandleMoves ==
  ASSUME TypeOK, NEW r \in Requests, Read(r).data \in {r, Junk}, Handle(r)
  PROVE  /\ request'[r].pc = "close"
         /\ \/ /\ Moves(r, {"pc", "status", "seen"}) /\ Decodes(r)
               /\ request'[r].status = "200" /\ request'[r].seen = r
            \/ /\ Moves(r, {"pc", "status"}) /\ request'[r].status = "400"
               /\ ~Decodes(r) \/ Flaw(r) # None
<1> DEFINE se == Read(r).data
           y == [request[r] EXCEPT !.pc = "close", !.status = "200", !.seen = se]
<1>1. CASE Decodes(r) /\ request' = [request EXCEPT ![r] = y]
  <2>1. "200" \in Maybe(Statuses) /\ se \in Maybe(Requests) /\ se = r
    BY <1>1 DEF Maybe, Statuses, Decodes
  <2>2. request[r] \in RequestType /\ "close" \in Pcs
    BY DEF TypeOK, Pcs
  <2> HIDE DEF se
  <2>3. [request[r] EXCEPT !.pc = "close", !.status = "200"] \in RequestType
    BY <2>1, <2>2, UpdatedTyped
  <2>4. y \in RequestType
    BY <2>1, <2>3, UpdatedTyped
  <2>5. /\ Keeps(request[r], y, {"pc", "status", "seen"})
        /\ y.pc = "close" /\ y.status = "200" /\ y.seen = se
    BY <2>2 DEF RequestType, Keeps, Fields
  <2> HIDE DEF y
  <2>6. Moves(r, {"pc", "status", "seen"}) /\ request'[r] = y
    BY <1>1, <2>4, <2>5, MovesTo
  <2> QED
    BY <1>1, <2>1, <2>5, <2>6
<1>2. CASE /\ ~Decodes(r) \/ Flaw(r) # None
           /\ request' = [request EXCEPT ![r].pc = "close", ![r].status = "400"]
  BY <1>2, SetsStatusMoves DEF Pcs, Maybe, Statuses
<1> QED
  BY <1>1, <1>2, Zenon DEF Handle

\* A reader is taken for a body that is no gzip, and given back or lost.
LEMMA ResetFailsMoves ==
  ASSUME TypeOK, NEW r \in Requests, ResetFails(r)
  PROVE  \E zr \in Readers :
           /\ Get(zr) /\ bound' = [bound EXCEPT ![zr] = r]
           /\ Moves(r, {"pc", "zr"})
           /\ request'[r].pc = "unread" /\ request'[r].zr = zr
<1>1. PICK zr \in Readers :
        /\ Get(zr) /\ bound' = [bound EXCEPT ![zr] = r]
        /\ request' = [request EXCEPT ![r].pc = "unread", ![r].zr = zr]
  BY Zenon DEF ResetFails
<1> QED
  BY <1>1, SetsZrMoves DEF Pcs, Maybe

LEMMA PutBackMoves ==
  ASSUME TypeOK, NEW r \in Requests, PutBack(r)
  PROVE  /\ Moves(r, {"pc", "zr", "status"})
         /\ request'[r].pc = "close" /\ request'[r].zr = None
         /\ \/ request'[r].status = "500" /\ Put(request[r].zr)
            \/ request'[r].status = "aborted" /\ UNCHANGED copies
<1>1. PICK status \in {"500", "aborted"} :
        /\ request' = [request EXCEPT ![r].pc = "close", ![r].zr = None, ![r].status = status]
        /\ IF status = "500" THEN Put(request[r].zr) ELSE UNCHANGED copies
  <2>1. CASE request[r].zr \in ready
    BY <2>1, Zenon DEF PutBack, GiveBack
  <2>2. CASE request[r].zr \notin ready
    <3>1. /\ UNCHANGED copies
          /\ request' = [request EXCEPT ![r].pc = "close", ![r].zr = None,
                           ![r].status = "aborted"]
      BY <2>2, Zenon DEF PutBack
    <3> QED
      BY <3>1
  <2> QED
    BY <2>1, <2>2
<1> DEFINE y == [request[r] EXCEPT !.pc = "close", !.zr = None, !.status = status]
<1>2. /\ request[r] \in RequestType /\ request' = [request EXCEPT ![r] = y]
      /\ "close" \in Pcs /\ None \in Maybe(Readers) /\ status \in Maybe(Statuses)
  BY <1>1 DEF TypeOK, Pcs, Maybe, Statuses
<1>3. [request[r] EXCEPT !.pc = "close", !.zr = None] \in RequestType
  BY <1>2, UpdatedTyped
<1>4. y \in RequestType
  BY <1>2, <1>3, UpdatedTyped
<1>5. /\ Keeps(request[r], y, {"pc", "zr", "status"})
      /\ y.pc = "close" /\ y.zr = None /\ y.status = status
  BY <1>2 DEF RequestType, Keeps, Fields
<1> HIDE DEF y
<1> QED
  BY <1>1, <1>2, <1>4, <1>5, MovesTo

\* The checks of the middleware pass a body on, as it is or read into memory,
\* or refuse it.
LEMMA DecryptMoves ==
  ASSUME TypeOK, NEW r \in Requests, Read(r) \in Body, Decrypt(r)
  PROVE  \/ /\ config.private = None \/ ~request[r].encrypted
            /\ Moves(r, {"pc"}) /\ request'[r].pc = "hash" /\ UNCHANGED out
         \/ /\ config.private # None /\ request[r].encrypted
            /\ Flaw(r) # None \/ ~IsWrapped(config.private, Read(r))
            /\ Moves(r, {"pc", "status"}) /\ request'[r].pc = "close"
            /\ request'[r].status \in {"400", "500"} /\ Writes(r)
         \/ /\ config.private # None /\ request[r].encrypted
            /\ Moves(r, {"pc", "body"}) /\ request'[r].pc = "hash"
            /\ IsWrapped(config.private, Read(r))
            /\ request'[r].body = Unwrapped(Read(r)) /\ UNCHANGED out
<1> USE DEF Statuses, Pcs, Maybe
<1>1. CASE config.private = None \/ ~request[r].encrypted
  BY <1>1, GoesMoves DEF Decrypt
<1>2. CASE /\ config.private # None /\ request[r].encrypted
           /\ Flaw(r) # None \/ ~IsWrapped(config.private, Read(r))
  <2>1. \E status \in {"400", "500"} : Refuse(r, status)
    BY <1>2 DEF Decrypt
  <2> QED
    BY <1>2, <2>1, RefuseMoves DEF Refuse
<1>3. CASE /\ config.private # None /\ request[r].encrypted
           /\ ~(Flaw(r) # None \/ ~IsWrapped(config.private, Read(r)))
  <2>1. /\ request' = [request EXCEPT ![r].pc = "hash", ![r].body = Unwrapped(Read(r))]
        /\ UNCHANGED out
    BY <1>3, Zenon DEF Decrypt
  <2>2. Unwrapped(Read(r)) \in Body
    BY <1>3, UnwrappedTyped
  <2> QED
    BY <1>3, <2>1, <2>2, SetsBodyMoves
<1> QED
  BY <1>1, <1>2, <1>3

LEMMA CheckHashMoves ==
  ASSUME TypeOK, NEW r \in Requests, Read(r) \in Body, CheckHash(r)
  PROVE  \/ /\ config.server = None \/ request[r].hash = None
            /\ Moves(r, {"pc"}) /\ request'[r].pc = "handler" /\ UNCHANGED out
         \/ /\ config.server # None /\ request[r].hash # None
            /\ Flaw(r) # None \/ request[r].hash # Signature(config.server, Read(r))
            /\ Moves(r, {"pc", "status"}) /\ request'[r].pc = "close"
            /\ request'[r].status \in {"400", "413", "500"} /\ Writes(r)
         \/ /\ config.server # None /\ request[r].hash = Signature(config.server, Read(r))
            /\ Moves(r, {"pc", "body"}) /\ request'[r].pc = "handler"
            /\ request'[r].body = Read(r) /\ UNCHANGED out
<1> USE DEF Statuses, Pcs, Maybe
<1>1. CASE config.server = None \/ request[r].hash = None
  BY <1>1, GoesMoves DEF CheckHash
<1>2. CASE /\ config.server # None /\ request[r].hash # None
           /\ Flaw(r) # None \/ request[r].hash # Signature(config.server, Read(r))
  <2>1. \E status \in {"400", "413", "500"} : Refuse(r, status)
    BY <1>2 DEF CheckHash
  <2> QED
    BY <1>2, <2>1, RefuseMoves DEF Refuse
<1>3. CASE /\ config.server # None /\ request[r].hash # None
           /\ ~(Flaw(r) # None \/ request[r].hash # Signature(config.server, Read(r)))
  <2>1. /\ request' = [request EXCEPT ![r].pc = "handler", ![r].body = Read(r)]
        /\ UNCHANGED out
    BY <1>3, Zenon DEF CheckHash
  <2> QED
    BY <1>3, <2>1, SetsBodyMoves
<1> QED
  BY <1>1, <1>2, <1>3

LEMMA MiddlewareMoves ==
  ASSUME IInv, NEW r \in Requests,
         PlainBody(r) \/ Decrypt(r) \/ CheckHash(r) \/ Handle(r)
  PROVE  \E F : Moves(r, F) /\ {"gz", "zw", "zr"} \cap F = {}
<1>1. TypeOK /\ Read(r) \in Body /\ Read(r).data \in {r, Junk}
  BY ReadsItself DEF IInv
<1>2. PlainBody(r) => Moves(r, {"pc"})
  BY <1>1, GoesMoves DEF PlainBody, Pcs
<1>3. \/ Moves(r, {"pc"}) \/ Moves(r, {"pc", "status"}) \/ Moves(r, {"pc", "body"})
      \/ Moves(r, {"pc", "status", "seen"})
  BY <1>1, <1>2, DecryptMoves, CheckHashMoves, HandleMoves
<1> QED
  BY <1>3

-----------------------------------------------------------------------------
(* The pools.                                                               *)

LEMMA OthersHold ==
  ASSUME NEW r \in Requests, NEW F, Moves(r, F), NEW q \in Requests \ {r}, NEW o
  PROVE  Holds(q, o)' <=> Holds(q, o)
BY DEF Moves, Holds

\* An answered request keeps its status.
LEMMA StatusStays ==
  ASSUME TypeOK, NEW r \in Requests, Step(r), request[r].status # None
  PROVE  request'[r].status = request[r].status
<1>1. request[r].pc \in {"close", "flush", "done"}
  BY DEF TypeOK
<1>2. CloseReader(r) \/ CloseWriter(r)
  BY <1>1 DEF Step, At, HookOpens, HookWrites, HookPuts, SendEmpty, SendForeign,
     OpenWriter, PlainBody, OpenReader, ResetFails, PutBack, Decrypt, CheckHash, Handle
<1>3. CASE CloseReader(r)
  <2>1. Moves(r, {"pc", "zr"})
    BY <1>3, SetsZrMoves DEF CloseReader, Pcs, Maybe
  <2> QED
    BY <2>1, Kept
<1>4. CASE CloseWriter(r)
  <2>1. Moves(r, {"pc", "zw"})
    BY <1>4, SetsZwMoves DEF CloseWriter, Pcs, Maybe
  <2> QED
    BY <2>1, Kept
<1> QED
  BY <1>2, <1>3, <1>4

LostOK(o) ==
  /\ o \in Readers /\ bound[o] \in Requests
  /\ request[bound[o]].status = "aborted"
  /\ \A p \in Objects : Lost(p) /\ bound[p] = bound[o] => p = o

\* Lost objects stay as they are, or are replaced.
LEMMA LostStay ==
  ASSUME PoolInv, NEW r \in Requests, NEW F, Moves(r, F),
         request[r].status # None => request'[r].status = request[r].status,
         NEW o \in Objects, \A p \in Objects : Lost(p)' => Lost(p) /\ bound'[p] = bound[p],
         Lost(o)'
  PROVE  LostOK(o)'
<1>1. Lost(o) /\ LostOK(o) /\ bound'[o] = bound[o]
  BY DEF PoolInv, LostOK
<1>2. "aborted" # None
  BY PipelineAssumption DEF Statuses
<1>3. request'[bound[o]].status = "aborted"
  BY <1>1, <1>2 DEF Moves, LostOK
<1> QED
  BY <1>1, <1>3 DEF LostOK

LEMMA NothingMoves ==
  ASSUME PoolInv, NEW r \in Requests, NEW F, Moves(r, F),
         request[r].status # None => request'[r].status = request[r].status,
         {"gz", "zw", "zr"} \cap F = {}, UNCHANGED <<copies, bound>>
  PROVE  PoolInv'
<1>1. request'[r].gz = request[r].gz /\ request'[r].zw = request[r].zw
      /\ request'[r].zr = request[r].zr
  BY DEF Moves, Keeps, Fields
<1>2. \A q \in Requests, o \in Objects : Holds(q, o)' <=> Holds(q, o)
  BY <1>1, OthersHold DEF Holds
<1>3. \A o \in Objects : Lost(o)' => Lost(o) /\ bound'[o] = bound[o]
  BY <1>2 DEF Lost
<1>4. \A o \in Objects : Lost(o)' => LostOK(o)'
  BY <1>3, LostStay
<1> QED
  BY <1>2, <1>4 DEF PoolInv, LostOK

LEMMA ObjectLeaves ==
  ASSUME TypeOK, PoolInv, NEW r \in Requests, NEW F, Moves(r, F), NEW o \in Objects, Get(o),
         request[r].status # None => request'[r].status = request[r].status,
         bound' = [bound EXCEPT ![o] = r],
         \A p \in Objects : Holds(r, p)' <=> Holds(r, p) \/ p = o
  PROVE  /\ PoolInv'
         /\ copies' \in [Objects -> 0..1] /\ bound' \in [Objects -> Maybe(Requests)]
<1>1. /\ copies \in [Objects -> 0..1] /\ bound \in [Objects -> Maybe(Requests)]
      /\ copies' = [copies EXCEPT ![o] = 0] /\ \A q \in Requests : ~Holds(q, o)
  <2>1. copies \in [Objects -> 0..1] /\ bound \in [Objects -> Maybe(Requests)]
    BY DEF TypeOK
  <2>2. CASE copies[o] > 0
    <3>1. copies[o] = 1 /\ copies[o] - 1 = 0
      BY <2>1, <2>2
    <3> QED
      BY <2>1, <3>1 DEF Get, Lost, PoolInv
  <2>3. CASE Lost(o) /\ UNCHANGED copies
    BY <2>1, <2>3 DEF Lost
  <2> QED
    BY <2>2, <2>3 DEF Get
<1>2. \A q \in Requests, p \in Objects : Holds(q, p)' <=> Holds(q, p) \/ (q = r /\ p = o)
  BY OthersHold
<1>3. ASSUME NEW p \in Objects, p # o
      PROVE  copies'[p] = copies[p] /\ bound'[p] = bound[p]
  BY <1>1, <1>3
<1>4. copies'[o] = 0 /\ bound'[o] = r
  BY <1>1
<1>5. \A p \in Objects : Lost(p)' => Lost(p) /\ bound'[p] = bound[p]
  BY <1>2, <1>3 DEF Lost
<1>6. \A p \in Objects : Lost(p)' => LostOK(p)'
  BY <1>5, LostStay
<1>7. PoolInv'
  BY <1>1, <1>2, <1>3, <1>4, <1>6 DEF PoolInv, LostOK
<1> QED
  BY <1>1, <1>7 DEF Maybe

LEMMA ObjectReturns ==
  ASSUME TypeOK, PoolInv, NEW r \in Requests, NEW F, Moves(r, F), NEW o \in Objects, Put(o),
         request[r].status # None => request'[r].status = request[r].status,
         Holds(r, o), bound' = bound \/ bound' = [bound EXCEPT ![o] = None],
         \A p \in Objects : Holds(r, p)' <=> Holds(r, p) /\ p # o
  PROVE  /\ PoolInv'
         /\ copies' \in [Objects -> 0..1] /\ bound' \in [Objects -> Maybe(Requests)]
<1>1. /\ copies \in [Objects -> 0..1] /\ bound \in [Objects -> Maybe(Requests)]
      /\ copies[o] = 0
  BY DEF TypeOK, PoolInv
<1>2. copies' = [copies EXCEPT ![o] = 1]
  BY <1>1 DEF Put
<1>3. \A q \in Requests, p \in Objects : Holds(q, p)' <=> Holds(q, p) /\ p # o
  BY OthersHold DEF PoolInv
<1>4. ASSUME NEW p \in Objects, p # o
      PROVE  copies'[p] = copies[p] /\ bound'[p] = bound[p]
  BY <1>1, <1>2, <1>4
<1>5. copies'[o] = 1
  BY <1>1, <1>2
<1>6. \A p \in Objects : Lost(p)' => Lost(p) /\ bound'[p] = bound[p]
  BY <1>3, <1>4, <1>5 DEF Lost
<1>7. \A p \in Objects : Lost(p)' => LostOK(p)'
  BY <1>6, LostStay
<1>8. PoolInv'
  BY <1>3, <1>4, <1>5, <1>7 DEF PoolInv, LostOK
<1> QED
  BY <1>1, <1>2, <1>8 DEF Maybe

\* A request that panics loses the reader it has, the first it loses.
LEMMA ReaderIsLost ==
  ASSUME PoolInv, NEW r \in Requests, NEW F, Moves(r, F), NEW o \in Readers, Holds(r, o),
         request[r].status = None, request'[r].status = "aborted",
         \A p \in Objects : Holds(r, p)' <=> Holds(r, p) /\ p # o,
         UNCHANGED <<copies, bound>>
  PROVE  PoolInv'
<1>1. o \in Objects /\ bound[o] = r /\ copies[o] = 0
  BY DEF PoolInv, Objects
<1>2. \A q \in Requests, p \in Objects : Holds(q, p)' <=> Holds(q, p) /\ p # o
  BY <1>1, OthersHold DEF PoolInv
<1>3. \A p \in Objects : Lost(p)' => Lost(p) \/ p = o
  BY <1>2 DEF Lost
<1>4. ASSUME NEW p \in Objects, Lost(p)
      PROVE  /\ bound[p] # r /\ request'[bound[p]].status = "aborted"
             /\ p \in Readers /\ bound[p] \in Requests
             /\ \A q \in Objects : Lost(q) /\ bound[q] = bound[p] => q = p
  <2>1. /\ bound[p] \in Requests /\ request[bound[p]].status = "aborted" /\ "aborted" # None
        /\ p \in Readers
        /\ \A q \in Objects : Lost(q) /\ bound[q] = bound[p] => q = p
    BY <1>4, PipelineAssumption DEF PoolInv, Statuses
  <2> QED
    BY <2>1 DEF Moves
<1>5. ASSUME NEW p \in Objects, Lost(p)' PROVE LostOK(p)'
  BY <1>1, <1>3, <1>4, <1>5 DEF LostOK
<1> QED
  BY <1>2, <1>5 DEF PoolInv, LostOK

LEMMA StepKeepsPools ==
  ASSUME IInv, NEW r \in Requests, Step(r)
  PROVE  /\ PoolInv'
         /\ copies' \in [Objects -> 0..1] /\ bound' \in [Objects -> Maybe(Requests)]
<1>1. /\ TypeOK /\ PoolInv /\ HoldOK(r) /\ request[r] \in RequestType
      /\ copies \in [Objects -> 0..1] /\ bound \in [Objects -> Maybe(Requests)]
      /\ request[r].status # None => request'[r].status = request[r].status
  BY StatusStays DEF IInv, RequestInv, TypeOK
<1>2. None \notin Objects /\ AgentWriters \cap Writers = {}
      /\ AgentWriters \cap Readers = {} /\ Writers \cap Readers = {}
  BY PipelineAssumption
<1>3. /\ request[r].gz \in AgentWriters \cup {None}
      /\ request[r].zw \in Writers \cup {None}
      /\ request[r].zr \in Readers \cup {None}
  BY <1>1 DEF RequestType, Maybe
<1>4. CASE HookOpens(r)
  <2>1. PICK gz \in AgentWriters :
          /\ Get(gz) /\ bound' = [bound EXCEPT ![gz] = r]
          /\ Moves(r, {"pc", "gz", "hooked", "gzip", "accept", "hash", "encrypted"})
          /\ request'[r].gz = gz
    BY <1>1, <1>4, HookOpensMoves
  <2>2. request[r].gz = None /\ request'[r].zw = request[r].zw
        /\ request'[r].zr = request[r].zr
    BY <1>1, <1>4, <2>1 DEF HookOpens, At, HoldOK, Moves, Keeps, Fields
  <2>3. \A p \in Objects : Holds(r, p)' <=> Holds(r, p) \/ p = gz
    BY <1>2, <2>1, <2>2 DEF Holds
  <2> QED
    BY <1>1, <2>1, <2>3, ObjectLeaves DEF Objects
<1>5. CASE HookWrites(r)
  <2>1. Moves(r, {"pc"}) /\ UNCHANGED <<copies, bound>>
    BY <1>1, <1>5, GoesMoves DEF HookWrites, Pcs
  <2> QED
    BY <1>1, <2>1, NothingMoves
<1>6. CASE HookPuts(r)
  <2>1. /\ Moves(r, {"pc", "gz"}) /\ request'[r].gz = None
        /\ Put(request[r].gz) /\ bound' = [bound EXCEPT ![request[r].gz] = None]
    BY <1>1, <1>6, SetsGzMoves DEF HookPuts, Pcs, Maybe
  <2>2. request[r].gz # None /\ request'[r].zw = request[r].zw
        /\ request'[r].zr = request[r].zr
    BY <1>1, <1>6, <2>1 DEF HookPuts, At, HoldOK, Moves, Keeps, Fields
  <2>3. request[r].gz \in Objects /\ Holds(r, request[r].gz)
    BY <1>3, <2>2 DEF Objects, Holds
  <2>4. \A p \in Objects : Holds(r, p)' <=> Holds(r, p) /\ p # request[r].gz
    BY <1>2, <1>3, <2>1, <2>2 DEF Holds
  <2> QED
    BY <1>1, <2>1, <2>3, <2>4, ObjectReturns
<1>7. CASE SendEmpty(r) \/ SendForeign(r)
  <2>1. \E F : Moves(r, F) /\ {"gz", "zw", "zr"} \cap F = {}
    BY <1>1, <1>7, SendEmptyMoves, SendForeignMoves
  <2> QED
    BY <1>1, <1>7, <2>1, NothingMoves DEF SendEmpty, SendForeign
<1>8. CASE OpenWriter(r)
  <2>1. CASE ~request[r].accept
    <3>1. Moves(r, {"pc"}) /\ UNCHANGED <<copies, bound>>
      BY <1>1, <1>8, <2>1, GoesMoves DEF OpenWriter, Pcs
    <3> QED
      BY <1>1, <3>1, NothingMoves
  <2>2. CASE request[r].accept
    <3>1. PICK zw \in Writers :
            /\ Get(zw) /\ bound' = [bound EXCEPT ![zw] = r]
            /\ request' = [request EXCEPT ![r].pc = "gzip", ![r].zw = zw]
      BY <1>8, <2>2, Zenon DEF OpenWriter
    <3>2. Moves(r, {"pc", "zw"}) /\ request'[r].zw = zw
      BY <1>1, <3>1, SetsZwMoves DEF Pcs, Maybe
    <3>3. request[r].zw = None /\ request'[r].gz = request[r].gz
          /\ request'[r].zr = request[r].zr
      BY <1>1, <1>8, <3>2 DEF OpenWriter, At, HoldOK, Moves, Keeps, Fields
    <3>4. \A p \in Objects : Holds(r, p)' <=> Holds(r, p) \/ p = zw
      BY <1>2, <3>2, <3>3 DEF Holds
    <3> QED
      BY <1>1, <3>1, <3>2, <3>4, ObjectLeaves DEF Objects
  <2> QED
    BY <2>1, <2>2
<1>9. CASE OpenReader(r)
  <2>1. PICK zr \in Readers :
          /\ Get(zr) /\ bound' = [bound EXCEPT ![zr] = r]
          /\ request' = [request EXCEPT ![r].pc = "decrypt", ![r].zr = zr]
    BY <1>9, Zenon DEF OpenReader
  <2>2. Moves(r, {"pc", "zr"}) /\ request'[r].zr = zr
    BY <1>1, <2>1, SetsZrMoves DEF Pcs, Maybe
  <2>3. request[r].zr = None /\ request'[r].gz = request[r].gz
        /\ request'[r].zw = request[r].zw
    BY <1>1, <1>9, <2>2 DEF OpenReader, At, HoldOK, Moves, Keeps, Fields
  <2>4. \A p \in Objects : Holds(r, p)' <=> Holds(r, p) \/ p = zr
    BY <1>2, <2>2, <2>3 DEF Holds
  <2> QED
    BY <1>1, <2>1, <2>2, <2>4, ObjectLeaves DEF Objects
<1>10. CASE PlainBody(r) \/ Decrypt(r) \/ CheckHash(r) \/ Handle(r)
  <2>1. \E F : Moves(r, F) /\ {"gz", "zw", "zr"} \cap F = {}
    BY <1>10, MiddlewareMoves
  <2> QED
    BY <1>1, <1>10, <2>1, NothingMoves DEF PlainBody, Decrypt, CheckHash, Handle
<1>11. CASE CloseReader(r)
  <2>1. Moves(r, {"pc", "zr"}) /\ request'[r].zr = None /\ UNCHANGED bound
    BY <1>1, <1>11, SetsZrMoves DEF CloseReader, Pcs, Maybe
  <2>2. request'[r].gz = request[r].gz /\ request'[r].zw = request[r].zw
    BY <2>1 DEF Moves, Keeps, Fields
  <2>3. CASE request[r].zr = None
    <3>1. \A q \in Requests, o \in Objects : Holds(q, o)' <=> Holds(q, o)
      BY <2>1, <2>2, <2>3, OthersHold DEF Holds
    <3>2. UNCHANGED <<copies, bound>> /\ \A o \in Objects : Lost(o)' => Lost(o)
      BY <1>11, <2>3, <3>1 DEF CloseReader, Lost
    <3>3. \A o \in Objects : Lost(o)' => LostOK(o)'
      BY <1>1, <2>1, <3>2, LostStay
    <3> QED
      BY <1>1, <3>1, <3>2, <3>3 DEF PoolInv, LostOK
  <2>4. CASE request[r].zr # None
    <3>1. request[r].zr \in Objects /\ Holds(r, request[r].zr) /\ Put(request[r].zr)
      BY <1>3, <1>11, <2>4 DEF Objects, Holds, CloseReader, PutReader
    <3>2. \A p \in Objects : Holds(r, p)' <=> Holds(r, p) /\ p # request[r].zr
      BY <1>2, <1>3, <2>1, <2>2 DEF Holds
    <3> QED
      BY <1>1, <2>1, <3>1, <3>2, ObjectReturns
  <2> QED
    BY <2>3, <2>4
<1>12. CASE CloseWriter(r)
  <2>1. Moves(r, {"pc", "zw"}) /\ request'[r].zw = None
    BY <1>1, <1>12, SetsZwMoves DEF CloseWriter, Pcs, Maybe
  <2>2. request'[r].gz = request[r].gz /\ request'[r].zr = request[r].zr
    BY <2>1 DEF Moves, Keeps, Fields
  <2>3. CASE request[r].zw = None
    <3>1. \A q \in Requests, o \in Objects : Holds(q, o)' <=> Holds(q, o)
      BY <2>1, <2>2, <2>3, OthersHold DEF Holds
    <3>2. UNCHANGED <<copies, bound>> /\ \A o \in Objects : Lost(o)' => Lost(o)
      BY <1>12, <2>3, <3>1 DEF CloseWriter, Lost
    <3>3. \A o \in Objects : Lost(o)' => LostOK(o)'
      BY <1>1, <2>1, <3>2, LostStay
    <3> QED
      BY <1>1, <3>1, <3>2, <3>3 DEF PoolInv, LostOK
  <2>4. CASE request[r].zw # None
    <3>1. /\ request[r].zw \in Objects /\ Holds(r, request[r].zw) /\ Put(request[r].zw)
          /\ bound' = [bound EXCEPT ![request[r].zw] = None]
      BY <1>3, <1>12, <2>4 DEF Objects, Holds, CloseWriter
    <3>2. \A p \in Objects : Holds(r, p)' <=> Holds(r, p) /\ p # request[r].zw
      BY <1>2, <1>3, <2>1, <2>2 DEF Holds
    <3> QED
      BY <1>1, <2>1, <3>1, <3>2, ObjectReturns
  <2> QED
    BY <2>3, <2>4
<1>13. CASE ResetFails(r)
  <2>1. PICK zr \in Readers :
          /\ Get(zr) /\ bound' = [bound EXCEPT ![zr] = r]
          /\ Moves(r, {"pc", "zr"}) /\ request'[r].zr = zr
    BY <1>1, <1>13, ResetFailsMoves
  <2>2. request[r].zr = None /\ request'[r].gz = request[r].gz
        /\ request'[r].zw = request[r].zw
    BY <1>1, <1>13, <2>1 DEF ResetFails, At, HoldOK, Moves, Keeps, Fields
  <2>3. \A p \in Objects : Holds(r, p)' <=> Holds(r, p) \/ p = zr
    BY <1>2, <2>1, <2>2 DEF Holds
  <2> QED
    BY <1>1, <2>1, <2>3, ObjectLeaves DEF Objects
<1>14. CASE PutBack(r)
  <2>1. /\ Moves(r, {"pc", "zr", "status"}) /\ request'[r].zr = None
        /\ \/ Put(request[r].zr)
           \/ request'[r].status = "aborted" /\ UNCHANGED copies
    BY <1>1, <1>14, PutBackMoves
  <2>2. request'[r].gz = request[r].gz /\ request'[r].zw = request[r].zw
    BY <2>1 DEF Moves, Keeps, Fields
  <2>3. /\ UNCHANGED bound /\ request[r].zr # None /\ request[r].status = None
    BY <1>1, <1>14 DEF PutBack, At, HoldOK, TypeOK
  <2>4. /\ request[r].zr \in Readers /\ request[r].zr \in Objects /\ Holds(r, request[r].zr)
        /\ \A p \in Objects : Holds(r, p)' <=> Holds(r, p) /\ p # request[r].zr
    BY <1>2, <1>3, <2>1, <2>2, <2>3 DEF Holds, Objects
  <2>5. CASE Put(request[r].zr)
    BY <1>1, <2>1, <2>3, <2>4, <2>5, ObjectReturns
  <2>6. CASE request'[r].status = "aborted" /\ UNCHANGED copies
    BY <1>1, <2>1, <2>3, <2>4, <2>6, ReaderIsLost
  <2> QED
    BY <2>1, <2>5, <2>6
<1> QED
  BY <1>4, <1>5, <1>6, <1>7, <1>8, <1>9, <1>10, <1>11, <1>12, <1>13, <1>14 DEF Step

-----------------------------------------------------------------------------
(* Bodies and answers: a step touches those of its own request only.        *)

LEMMA BoundToItself ==
  ASSUME IInv, NEW r \in Requests
  PROVE  /\ request[r].gz # None => bound[request[r].gz] = r
         /\ request[r].zw # None => bound[request[r].zw] = r
<1>1. request[r].gz \in AgentWriters \cup {None} /\ request[r].zw \in Writers \cup {None}
  BY DEF IInv, TypeOK, RequestType, Maybe
<1> QED
  BY <1>1 DEF IInv, PoolInv, Objects, Holds

Answers(r, parts) == out' = [out EXCEPT ![r] = @ \cup parts]

LEMMA WritesItself ==
  ASSUME IInv, NEW r \in Requests, Writes(r)
  PROVE  Answers(r, {<<r, "data">>})
BY BoundToItself DEF Writes, Answers

LEMMA ClosesItself ==
  ASSUME IInv, NEW r \in Requests, CloseWriter(r)
  PROVE  Answers(r, IF request[r].zw = None THEN {} ELSE {<<r, "end">>})
<1>1. CASE request[r].zw = None
  <2>1. out' = out /\ [out EXCEPT ![r] = @ \cup {}] = out
    BY <1>1 DEF CloseWriter, IInv, TypeOK
  <2> QED
    BY <1>1, <2>1 DEF Answers
<1>2. CASE request[r].zw # None
  BY <1>2, BoundToItself DEF CloseWriter, Answers, Trailer
<1> QED
  BY <1>1, <1>2

LEMMA HookWritesItself ==
  ASSUME IInv, NEW r \in Requests, HookWrites(r)
  PROVE  wire' = [wire EXCEPT ![r] = HookBody(r)]
<1>1. request[r].gz # None
  BY DEF HookWrites, At, IInv, RequestInv, HoldOK
<1> QED
  BY <1>1, BoundToItself DEF HookWrites, HookBody

LEMMA HookBodyTyped ==
  ASSUME TypeOK, NEW r \in Requests
  PROVE  HookBody(r) \in Body /\ HookBody(r).data = r
BY EncryptedTyped, WrappedTyped DEF HookBody, Layers

LEMMA StepIsLocal ==
  ASSUME IInv, NEW r \in Requests, Step(r)
  PROVE  /\ config' = config /\ ready' \subseteq Readers
         /\ \E F : Moves(r, F)
         /\ \/ wire' = wire \/ \E b \in Body : wire' = [wire EXCEPT ![r] = b]
         /\ \/ out' = out
            \/ \E parts \in SUBSET {<<r, "data">>, <<r, "end">>} : Answers(r, parts)
<1>1. TypeOK /\ Read(r) \in Body /\ Read(r).data \in {r, Junk} /\ ready \subseteq Readers
  BY ReadsItself DEF IInv, TypeOK
<1>2. CASE HookOpens(r)
  BY <1>1, <1>2, HookOpensMoves DEF HookOpens
<1>3. CASE HookWrites(r)
  BY <1>1, <1>3, GoesMoves, HookWritesItself, HookBodyTyped DEF HookWrites, Pcs
<1>4. CASE HookPuts(r)
  BY <1>1, <1>4, SetsGzMoves DEF HookPuts, Pcs, Maybe
<1>5. CASE SendEmpty(r)
  BY <1>1, <1>5, SendEmptyMoves DEF SendEmpty
<1>6. CASE SendForeign(r)
  <2>1. PICK f \in Foreign :
          /\ wire' = [wire EXCEPT ![r] = [data |-> r, layers |-> f.layers]]
          /\ Moves(r, {"pc", "gzip", "accept", "encrypted", "flaw", "hash"})
    BY <1>1, <1>6, SendForeignMoves
  <2>2. [data |-> r, layers |-> f.layers] \in Body
    BY PipelineAssumption DEF Body
  <2> QED
    BY <1>1, <1>6, <2>1, <2>2 DEF SendForeign
<1>7. CASE OpenWriter(r)
  <2>1. \/ Goes(r, "gzip")
        \/ \E zw \in Writers : request' = [request EXCEPT ![r].pc = "gzip", ![r].zw = zw]
    BY <1>7, Zenon DEF OpenWriter
  <2> QED
    BY <1>1, <1>7, <2>1, GoesMoves, SetsZwMoves DEF OpenWriter, Pcs, Maybe
<1>8. CASE OpenReader(r)
  <2>1. PICK zr \in Readers :
          /\ request' = [request EXCEPT ![r].pc = "decrypt", ![r].zr = zr]
          /\ ready' = ready \cup {zr}
    BY <1>8, Zenon DEF OpenReader
  <2> QED
    BY <1>1, <1>8, <2>1, SetsZrMoves DEF OpenReader, Pcs, Maybe
<1>9. CASE PlainBody(r) \/ ResetFails(r) \/ PutBack(r)
  BY <1>1, <1>9, MiddlewareMoves, ResetFailsMoves, PutBackMoves
     DEF PlainBody, ResetFails, PutBack
<1>10. CASE Decrypt(r) \/ CheckHash(r) \/ Handle(r)
  <2>1. UNCHANGED out \/ Writes(r)
    BY <1>1, <1>10, DecryptMoves, CheckHashMoves DEF Handle
  <2>2. UNCHANGED out \/ Answers(r, {<<r, "data">>})
    BY <2>1, WritesItself
  <2>3. UNCHANGED <<config, wire, ready>>
    BY <1>10 DEF Decrypt, CheckHash, Handle
  <2>4. \E F : Moves(r, F)
    BY <1>10, MiddlewareMoves
  <2> QED
    BY <1>1, <2>2, <2>3, <2>4
<1>11. CASE CloseReader(r)
  BY <1>1, <1>11, SetsZrMoves DEF CloseReader, Pcs, Maybe
<1>12. CASE CloseWriter(r)
  <2>1. Moves(r, {"pc", "zw"})
    BY <1>1, <1>12, SetsZwMoves DEF CloseWriter, Pcs, Maybe
  <2>2. \E parts \in SUBSET {<<r, "data">>, <<r, "end">>} : Answers(r, parts)
    BY <1>12, ClosesItself
  <2> QED
    BY <1>1, <1>12, <2>1, <2>2 DEF CloseWriter
<1> QED
  BY <1>2, <1>3, <1>4, <1>5, <1>6, <1>7, <1>8, <1>9, <1>10, <1>11, <1>12 DEF Step

\* The others are as they were.
LEMMA OthersStay ==
  ASSUME IInv, NEW r \in Requests, Step(r), NEW q \in Requests \ {r}
  PROVE  RequestInv(q)'
<1>1. /\ config' = config /\ \E F : Moves(r, F)
      /\ \/ wire' = wire \/ \E b \in Body : wire' = [wire EXCEPT ![r] = b]
      /\ \/ out' = out
         \/ \E parts \in SUBSET {<<r, "data">>, <<r, "end">>} : Answers(r, parts)
  BY StepIsLocal
<1>2. RequestInv(q) /\ q \in Requests /\ q # r
      /\ wire \in [Requests -> Body]
      /\ out \in [Requests -> SUBSET (Requests \X {"data", "end"})]
  BY DEF IInv, TypeOK
<1>3. request'[q] = request[q]
  BY <1>1 DEF Moves
<1>4. wire'[q] = wire[q]
  BY <1>1, <1>2
<1>5. out'[q] = out[q]
  BY <1>1, <1>2 DEF Answers
<1>6. HoldOK(q)' /\ BodyOK(q)' /\ SeenOK(q)' /\ AnswerOK(q)'
  BY <1>1, <1>2, <1>3, <1>4, <1>5 DEF RequestInv, HoldOK, BodyOK, SeenOK, AnswerOK
<1>7. HookOK(q)'
  BY <1>1, <1>2, <1>3, <1>4
     DEF RequestInv, HookOK, HookBody, Signed, Encrypted, Agrees
<1> QED
  BY <1>6, <1>7 DEF RequestInv

-----------------------------------------------------------------------------
(* A step keeps the invariant of its own request.                           *)

Own(r) == StatusOK(r) /\ RequestInv(r)

LEMMA HookSteps ==
  ASSUME IInv, NEW r \in Requests, HookOpens(r) \/ HookWrites(r) \/ HookPuts(r)
  PROVE  Own(r)'
<1>1. /\ TypeOK /\ Own(r) /\ request[r] \in RequestType /\ wire \in [Requests -> Body]
      /\ config' = config /\ None \notin Objects
  BY PipelineAssumption DEF IInv, TypeOK, Own, StatusOK, HookOpens, HookWrites, HookPuts
<1> USE DEF Own, RequestInv, StatusOK, HoldOK, BodyOK, SeenOK, AnswerOK, HookOK
<1>2. CASE HookOpens(r)
  <2>1. /\ Moves(r, {"pc", "gz", "hooked", "gzip", "accept", "hash", "encrypted"})
        /\ request'[r].pc = "hook" /\ request'[r].gz \in AgentWriters
        /\ request'[r].hooked /\ request'[r].gzip /\ request'[r].accept
        /\ request'[r].hash = Signed(r)
        /\ request'[r].encrypted <=> config.rsa # None
    BY <1>1, <1>2, HookOpensMoves
  <2>2. request[r].pc = "new" /\ wire' = wire /\ out' = out /\ Signed(r)' = Signed(r)
    BY <1>1, <1>2 DEF HookOpens, At, Signed
  <2> QED
    BY <1>1, <2>1, <2>2, Kept DEF Objects
<1>3. CASE HookWrites(r)
  <2>1. Moves(r, {"pc"}) /\ request'[r].pc = "put"
    BY <1>1, <1>3, GoesMoves DEF HookWrites, Pcs
  <2>2. /\ request[r].pc = "hook" /\ wire'[r] = HookBody(r) /\ out' = out
        /\ Signed(r)' = Signed(r) /\ HookBody(r)' = HookBody(r) /\ HookBody(r).data = r
    BY <1>1, <1>3, HookWritesItself, HookBodyTyped
       DEF HookWrites, At, Signed, HookBody, Encrypted
  <2> QED
    BY <1>1, <2>1, <2>2, Kept
<1>4. CASE HookPuts(r)
  <2>1. Moves(r, {"pc", "gz"}) /\ request'[r].pc = "wire" /\ request'[r].gz = None
    BY <1>1, <1>4, SetsGzMoves DEF HookPuts, Pcs, Maybe
  <2>2. /\ request[r].pc = "put" /\ wire' = wire /\ out' = out
        /\ Signed(r)' = Signed(r) /\ HookBody(r)' = HookBody(r)
    BY <1>1, <1>4 DEF HookPuts, At, Signed, HookBody, Encrypted
  <2> QED
    BY <1>1, <2>1, <2>2, Kept
<1> QED
  BY <1>2, <1>3, <1>4

LEMMA OtherClients ==
  ASSUME IInv, NEW r \in Requests, SendEmpty(r) \/ SendForeign(r)
  PROVE  Own(r)'
<1>1. /\ TypeOK /\ Own(r) /\ request[r] \in RequestType /\ wire \in [Requests -> Body]
      /\ config' = config /\ request[r].pc = "new"
  BY DEF IInv, TypeOK, Own, StatusOK, SendEmpty, SendForeign, At
<1> USE DEF Own, RequestInv, StatusOK, HoldOK, BodyOK, SeenOK, AnswerOK, HookOK
<1>2. CASE SendEmpty(r)
  <2>1. Moves(r, {"pc", "gzip", "accept"}) /\ request'[r].pc = "wire"
    BY <1>1, <1>2, SendEmptyMoves
  <2>2. wire' = wire /\ out' = out
    BY <1>2 DEF SendEmpty
  <2> QED
    BY <1>1, <2>1, <2>2, Kept
<1>3. CASE SendForeign(r)
  <2>1. /\ Moves(r, {"pc", "gzip", "accept", "encrypted", "flaw", "hash"})
        /\ request'[r].pc = "wire" /\ wire'[r].data = r
    BY <1>1, <1>3, SendForeignMoves
  <2>2. out' = out
    BY <1>3 DEF SendForeign
  <2> QED
    BY <1>1, <2>1, <2>2, Kept
<1> QED
  BY <1>2, <1>3

LEMMA GzipSteps ==
  ASSUME IInv, NEW r \in Requests,
         OpenWriter(r) \/ PlainBody(r) \/ OpenReader(r) \/ ResetFails(r) \/ PutBack(r)
  PROVE  Own(r)'
<1>1. /\ TypeOK /\ Own(r) /\ request[r] \in RequestType
      /\ config' = config /\ wire' = wire /\ out' = out /\ None \notin Writers \cup Readers
      /\ Signed(r)' = Signed(r) /\ HookBody(r)' = HookBody(r)
  BY PipelineAssumption DEF IInv, TypeOK, Own, StatusOK, OpenWriter, PlainBody, OpenReader,
     ResetFails, PutBack, Signed, HookBody, Encrypted, Objects
<1>2. IsWrapped("gzip", HookBody(r))
  BY <1>1, EncryptedTyped, WrappedTyped DEF HookBody, Layers
<1> USE DEF Own, RequestInv, StatusOK, HoldOK, BodyOK, SeenOK, AnswerOK, HookOK
<1>3. CASE OpenWriter(r)
  <2>1. request[r].pc = "wire"
    BY <1>3 DEF OpenWriter, At
  <2>2. CASE ~request[r].accept
    <3>1. Moves(r, {"pc"}) /\ request'[r].pc = "gzip"
      BY <1>1, <1>3, <2>2, GoesMoves DEF OpenWriter, Pcs
    <3> QED
      BY <1>1, <2>1, <2>2, <3>1, Kept
  <2>3. CASE request[r].accept
    <3>1. PICK zw \in Writers : request' = [request EXCEPT ![r].pc = "gzip", ![r].zw = zw]
      BY <1>3, <2>3, Zenon DEF OpenWriter
    <3>2. Moves(r, {"pc", "zw"}) /\ request'[r].pc = "gzip" /\ request'[r].zw = zw
      BY <1>1, <3>1, SetsZwMoves DEF Pcs, Maybe
    <3> QED
      BY <1>1, <2>1, <2>3, <3>2, Kept
  <2> QED
    BY <2>2, <2>3
<1>4. CASE PlainBody(r)
  <2>1. Moves(r, {"pc"}) /\ request'[r].pc = "decrypt"
    BY <1>1, <1>4, GoesMoves DEF PlainBody, Pcs
  <2>2. request[r].pc = "gzip" /\ ~request[r].gzip
    BY <1>4 DEF PlainBody, At
  <2> QED
    BY <1>1, <2>1, <2>2, Kept
<1>5. CASE OpenReader(r)
  <2>1. PICK zr \in Readers : request' = [request EXCEPT ![r].pc = "decrypt", ![r].zr = zr]
    BY <1>5, Zenon DEF OpenReader
  <2>2. Moves(r, {"pc", "zr"}) /\ request'[r].pc = "decrypt" /\ request'[r].zr = zr
    BY <1>1, <2>1, SetsZrMoves DEF Pcs, Maybe
  <2>3. request[r].pc = "gzip" /\ IsWrapped("gzip", wire[r])
    BY <1>5 DEF OpenReader, At
  <2> QED
    BY <1>1, <2>2, <2>3, Kept
<1>6. CASE ResetFails(r)
  <2>1. PICK zr \in Readers :
          /\ Moves(r, {"pc", "zr"})
          /\ request'[r].pc = "unread" /\ request'[r].zr = zr
    BY <1>1, <1>6, ResetFailsMoves
  <2>2. request[r].pc = "gzip" /\ ~IsWrapped("gzip", wire[r]) /\ ~request[r].hooked
    BY <1>1, <1>2, <1>6 DEF ResetFails, At
  <2> QED
    BY <1>1, <2>1, <2>2, Kept
<1>7. CASE PutBack(r)
  <2>1. /\ Moves(r, {"pc", "zr", "status"}) /\ request'[r].pc = "close"
        /\ request'[r].zr = None /\ request'[r].status \in {"500", "aborted"}
    BY <1>1, <1>7, PutBackMoves
  <2>2. request[r].pc = "unread" /\ ~request[r].hooked
    BY <1>1, <1>7 DEF PutBack, At
  <2>3. request'[r].status # None
    BY <2>1, PipelineAssumption DEF Statuses
  <2> QED
    BY <1>1, <2>1, <2>2, <2>3, Kept
<1> QED
  BY <1>3, <1>4, <1>5, <1>6, <1>7

\* At the end of the hook's path a reader gives what the hook compressed.
LEMMA HookReads ==
  ASSUME IInv, NEW r \in Requests, request[r].pc = "decrypt", request[r].hooked
  PROVE  Read(r) = Encrypted(Plain(r)) /\ Reads(request[r], wire[r]) = Encrypted(Plain(r))
<1>1. TypeOK /\ HookOK(r) /\ BodyOK(r)
  BY DEF IInv, RequestInv
<1>2. /\ request[r].zr # None /\ request[r].body = None
      /\ wire[r] = Wrapped("gzip", Encrypted(Plain(r)))
  BY <1>1 DEF HookOK, BodyOK, HookBody
<1>3. Gunzipped(wire[r]) = Encrypted(Plain(r))
  BY <1>1, <1>2, EncryptedTyped, WrappedTyped DEF Layers, Gunzipped
<1> QED
  BY <1>2, <1>3, ReadsItself DEF Reads

LEMMA DecryptStep ==
  ASSUME IInv, NEW r \in Requests, Decrypt(r)
  PROVE  Own(r)'
<1>1. /\ TypeOK /\ Own(r) /\ request[r] \in RequestType /\ request[r].pc = "decrypt"
      /\ config' = config /\ wire' = wire /\ Plain(r) \in Body /\ None \notin Body
      /\ config.rsa \in Keys \cup {None}
      /\ Signed(r)' = Signed(r) /\ HookBody(r)' = HookBody(r) /\ (Agrees' <=> Agrees)
      /\ out \in [Requests -> SUBSET (Requests \X {"data", "end"})]
  BY PipelineAssumption, PlainTyped DEF IInv, TypeOK, Own, StatusOK, Decrypt, At,
     Signed, HookBody, Encrypted, Agrees, Maybe
<1>2. /\ Read(r) = Reads(request[r], wire[r])
      /\ Read(r) \in Body /\ Read(r).data \in {r, Junk}
  BY ReadsItself
<1>3. request[r].hooked => Read(r) = Encrypted(Plain(r)) /\ Flaw(r) = None
  BY <1>1, HookReads DEF Own, RequestInv, HookOK, Flaw
<1>4. None \notin Statuses
  BY PipelineAssumption
<1> USE DEF Own, RequestInv, StatusOK, HoldOK, BodyOK, SeenOK, AnswerOK, HookOK
<1>5. CASE /\ config.private = None \/ ~request[r].encrypted
           /\ Moves(r, {"pc"}) /\ request'[r].pc = "hash" /\ UNCHANGED out
  <2>1. request[r].hooked /\ Agrees => Reads(request[r], wire[r]) = Plain(r)
    BY <1>1, <1>2, <1>3, <1>5 DEF Agrees, Encrypted
  <2>2. Reads(request'[r], wire'[r]) = Reads(request[r], wire[r])
    BY <1>1, <1>5, Kept DEF Reads
  <2> QED
    BY <1>1, <1>5, <2>1, <2>2, Kept
<1>6. CASE /\ config.private # None /\ request[r].encrypted
           /\ Flaw(r) # None \/ ~IsWrapped(config.private, Read(r))
           /\ Moves(r, {"pc", "status"}) /\ request'[r].pc = "close"
           /\ request'[r].status \in {"400", "500"} /\ Writes(r)
  <2>1. ~(request[r].hooked /\ Agrees)
    <3> SUFFICES ASSUME request[r].hooked, Agrees PROVE FALSE
      OBVIOUS
    <3>1. config.rsa = config.private /\ config.rsa \in Layers /\ config.rsa # None
      BY <1>1, <1>6 DEF Agrees, Layers
    <3>2. Read(r) = Wrapped(config.private, Plain(r))
      BY <1>3, <3>1 DEF Encrypted
    <3> QED
      BY <1>1, <1>3, <1>6, <3>1, <3>2, WrappedTyped
  <2>2. out'[r] = out[r] \cup {<<r, "data">>}
    BY <1>1, <1>6, WritesItself DEF Answers
  <2>3. request'[r].status # None
    BY <1>4, <1>6 DEF Statuses
  <2> QED
    BY <1>1, <1>6, <2>1, <2>2, <2>3, Kept
<1>7. CASE /\ config.private # None /\ request[r].encrypted
           /\ Moves(r, {"pc", "body"}) /\ request'[r].pc = "hash"
           /\ IsWrapped(config.private, Read(r))
           /\ request'[r].body = Unwrapped(Read(r)) /\ UNCHANGED out
  <2>1. Unwrapped(Read(r)) \in Body /\ Unwrapped(Read(r)).data \in {r, Junk}
    BY <1>2, <1>7, UnwrappedTyped
  <2>2. request[r].hooked /\ Agrees => Unwrapped(Read(r)) = Plain(r)
    <3> SUFFICES ASSUME request[r].hooked, Agrees PROVE Unwrapped(Read(r)) = Plain(r)
      OBVIOUS
    <3>1. config.rsa = config.private /\ config.rsa \in Layers /\ config.rsa # None
      BY <1>1, <1>7 DEF Agrees, Layers
    <3>2. Read(r) = Wrapped(config.private, Plain(r))
      BY <1>3, <3>1 DEF Encrypted
    <3> QED
      BY <1>1, <3>1, <3>2, WrappedTyped
  <2>3. Reads(request'[r], wire'[r]) = Unwrapped(Read(r))
    BY <1>1, <1>7, <2>1 DEF Reads
  <2> QED
    BY <1>1, <1>7, <2>1, <2>2, <2>3, Kept
<1> QED
  BY <1>1, <1>2, <1>5, <1>6, <1>7, DecryptMoves

LEMMA CheckHashStep ==
  ASSUME IInv, NEW r \in Requests, CheckHash(r)
  PROVE  Own(r)'
<1>1. /\ TypeOK /\ Own(r) /\ request[r] \in RequestType /\ request[r].pc = "hash"
      /\ config' = config /\ wire' = wire /\ Plain(r) \in Body /\ None \notin Body
      /\ Signed(r)' = Signed(r) /\ HookBody(r)' = HookBody(r) /\ (Agrees' <=> Agrees)
      /\ out \in [Requests -> SUBSET (Requests \X {"data", "end"})]
  BY PipelineAssumption, PlainTyped DEF IInv, TypeOK, Own, StatusOK, CheckHash, At,
     Signed, HookBody, Encrypted, Agrees
<1>2. /\ Read(r) = Reads(request[r], wire[r])
      /\ Read(r) \in Body /\ Read(r).data \in {r, Junk}
  BY ReadsItself
<1>3. request[r].hooked => Flaw(r) = None
  BY <1>1 DEF Own, RequestInv, HookOK, Flaw
<1>4. None \notin Statuses
  BY PipelineAssumption
<1> USE DEF Own, RequestInv, StatusOK, HoldOK, BodyOK, SeenOK, AnswerOK, HookOK
<1>5. CASE /\ config.server = None \/ request[r].hash = None
           /\ Moves(r, {"pc"}) /\ request'[r].pc = "handler" /\ UNCHANGED out
  <2>1. Reads(request'[r], wire'[r]) = Reads(request[r], wire[r])
    BY <1>1, <1>5, Kept DEF Reads
  <2> QED
    BY <1>1, <1>5, <2>1, Kept
<1>6. CASE /\ config.server # None /\ request[r].hash # None
           /\ Flaw(r) # None \/ request[r].hash # Signature(config.server, Read(r))
           /\ Moves(r, {"pc", "status"}) /\ request'[r].pc = "close"
           /\ request'[r].status \in {"400", "413", "500"} /\ Writes(r)
  <2>1. ~(request[r].hooked /\ Agrees)
    BY <1>1, <1>2, <1>3, <1>6 DEF Agrees, Signed, Signature
  <2>2. out'[r] = out[r] \cup {<<r, "data">>}
    BY <1>1, <1>6, WritesItself DEF Answers
  <2>3. request'[r].status # None
    BY <1>4, <1>6 DEF Statuses
  <2> QED
    BY <1>1, <1>6, <2>1, <2>2, <2>3, Kept
<1>7. CASE /\ config.server # None /\ request[r].hash = Signature(config.server, Read(r))
           /\ Moves(r, {"pc", "body"}) /\ request'[r].pc = "handler"
           /\ request'[r].body = Read(r) /\ UNCHANGED out
  <2>1. Reads(request'[r], wire'[r]) = Read(r)
    BY <1>1, <1>2, <1>7 DEF Reads
  <2>2. request[r].hash = <<config.server, Read(r)>>
    BY <1>7 DEF Signature
  <2> QED
    BY <1>1, <1>2, <1>7, <2>1, <2>2, Kept
<1> QED
  BY <1>1, <1>2, <1>5, <1>6, <1>7, CheckHashMoves

LEMMA HandleStep ==
  ASSUME IInv, NEW r \in Requests, Handle(r)
  PROVE  Own(r)'
<1>1. /\ TypeOK /\ Own(r) /\ request[r] \in RequestType /\ request[r].pc = "handler"
      /\ config' = config /\ wire' = wire /\ Plain(r) \in Body /\ None \notin Body
      /\ Signed(r)' = Signed(r) /\ HookBody(r)' = HookBody(r) /\ (Agrees' <=> Agrees)
      /\ out \in [Requests -> SUBSET (Requests \X {"data", "end"})]
  BY PipelineAssumption, PlainTyped DEF IInv, TypeOK, Own, StatusOK, Handle, At,
     Signed, HookBody, Encrypted, Agrees
<1>2. /\ Read(r) = Reads(request[r], wire[r])
      /\ Read(r) \in Body /\ Read(r).data \in {r, Junk}
  BY ReadsItself
<1>3. None \notin Statuses /\ None \notin Requests /\ Junk \notin Requests
  BY PipelineAssumption
<1>4. out'[r] = out[r] \cup {<<r, "data">>}
  BY <1>1, WritesItself DEF Answers, Handle
<1>5. Decodes(r) => Read(r) = Plain(r)
  BY <1>2 DEF Decodes, Plain, Body
<1> USE DEF Own, RequestInv, StatusOK, HoldOK, BodyOK, SeenOK, AnswerOK, HookOK
<1>6. request[r].hooked /\ Agrees => Decodes(r) /\ Flaw(r) = None
  BY <1>1, <1>2, <1>3, PlainTyped DEF Decodes, Flaw
<1>7. config.server # None /\ request[r].hash # None => request[r].hash = <<config.server, Read(r)>>
  BY <1>1, <1>2 DEF Reads
<1>8. request[r].seen = None
  BY <1>1, <1>3 DEF TypeOK
<1>9. CASE /\ Moves(r, {"pc", "status", "seen"}) /\ request'[r].pc = "close" /\ Decodes(r)
           /\ request'[r].status = "200" /\ request'[r].seen = r
  <2>1. request'[r].status # None
    BY <1>3, <1>9 DEF Statuses
  <2> QED
    BY <1>1, <1>4, <1>5, <1>7, <1>9, <2>1, Kept
<1>10. CASE /\ Moves(r, {"pc", "status"}) /\ request'[r].pc = "close"
            /\ ~Decodes(r) \/ Flaw(r) # None
            /\ request'[r].status = "400"
  <2>1. request'[r].status # None
    BY <1>3, <1>10 DEF Statuses
  <2> QED
    BY <1>1, <1>4, <1>6, <1>8, <1>10, <2>1, Kept
<1> QED
  BY <1>1, <1>2, <1>9, <1>10, HandleMoves

LEMMA CloseSteps ==
  ASSUME IInv, NEW r \in Requests, CloseReader(r) \/ CloseWriter(r)
  PROVE  Own(r)'
<1>1. /\ TypeOK /\ Own(r) /\ request[r] \in RequestType
      /\ config' = config /\ wire' = wire /\ Plain(r) \in Body
      /\ Signed(r)' = Signed(r) /\ HookBody(r)' = HookBody(r) /\ (Agrees' <=> Agrees)
      /\ out \in [Requests -> SUBSET (Requests \X {"data", "end"})]
  BY PlainTyped DEF IInv, TypeOK, Own, StatusOK, CloseReader, CloseWriter,
     Signed, HookBody, Encrypted, Agrees
<1> USE DEF Own, RequestInv, StatusOK, HoldOK, BodyOK, SeenOK, AnswerOK, HookOK
<1>2. CASE CloseReader(r)
  <2>1. /\ Moves(r, {"pc", "zr"}) /\ request'[r].pc = "flush" /\ request'[r].zr = None
        /\ request[r].pc = "close" /\ out' = out
    BY <1>1, <1>2, SetsZrMoves DEF CloseReader, At, Pcs, Maybe
  <2> QED
    BY <1>1, <2>1, Kept
<1>3. CASE CloseWriter(r)
  <2>1. /\ Moves(r, {"pc", "zw"}) /\ request'[r].pc = "done" /\ request'[r].zw = None
        /\ request[r].pc = "flush"
    BY <1>1, <1>3, SetsZwMoves DEF CloseWriter, At, Pcs, Maybe
  <2>2. out'[r] = out[r] \cup (IF request[r].zw = None THEN {} ELSE {<<r, "end">>})
    BY <1>1, <1>3, ClosesItself DEF Answers
  <2> QED
    BY <1>1, <2>1, <2>2, Kept
<1> QED
  BY <1>2, <1>3

-----------------------------------------------------------------------------
(* The invariant holds.                                                     *)

LEMMA InitInv == Init => IInv
<1> SUFFICES ASSUME Init PROVE IInv
  OBVIOUS
<1>1. TypeOK
  BY InitTyped
<1>2. \A r \in Requests : /\ New = request[r] /\ wire[r].data = Junk /\ out[r] = {}
                          /\ request[r].pc = "new"
  BY DEF Init, New, Plain
<1>3. \A r \in Requests, o \in Objects : ~Holds(r, o)
  BY <1>2, PipelineAssumption DEF New, Holds
<1>4. PoolInv
  BY <1>3 DEF PoolInv, Lost, Init
<1>5. ASSUME NEW r \in Requests PROVE RequestInv(r)
  <2>1. None \notin Statuses
    BY PipelineAssumption
  <2> QED
    BY <1>2, <2>1
       DEF RequestInv, HoldOK, BodyOK, SeenOK, HookOK, AnswerOK, New, Statuses
<1> QED
  BY <1>1, <1>4, <1>5 DEF IInv

LEMMA OwnStep ==
  ASSUME IInv, NEW r \in Requests, Step(r)
  PROVE  Own(r)'
BY HookSteps, OtherClients, GzipSteps, DecryptStep, CheckHashStep, HandleStep, CloseSteps
   DEF Step

LEMMA StepTyped ==
  ASSUME IInv, NEW r \in Requests, Step(r)
  PROVE  TypeOK'
<1>1. /\ config' = config /\ ready' \subseteq Readers /\ \E F : Moves(r, F)
      /\ \/ wire' = wire \/ \E b \in Body : wire' = [wire EXCEPT ![r] = b]
      /\ \/ out' = out
         \/ \E parts \in SUBSET {<<r, "data">>, <<r, "end">>} : Answers(r, parts)
  BY StepIsLocal
<1>2. /\ config \in Configs /\ wire \in [Requests -> Body]
      /\ out \in [Requests -> SUBSET (Requests \X {"data", "end"})]
      /\ \A q \in Requests : StatusOK(q)
  BY DEF IInv, TypeOK, StatusOK
<1>3. wire' \in [Requests -> Body] /\ config' \in Configs
  BY <1>1, <1>2
<1>4. out' \in [Requests -> SUBSET (Requests \X {"data", "end"})]
  <2>1. CASE out' = out
    BY <1>2, <2>1
  <2>2. CASE \E parts \in SUBSET {<<r, "data">>, <<r, "end">>} : Answers(r, parts)
    <3>1. PICK parts \in SUBSET {<<r, "data">>, <<r, "end">>} :
            out' = [out EXCEPT ![r] = @ \cup parts]
      BY <2>2 DEF Answers
    <3>2. parts \subseteq Requests \X {"data", "end"}
      OBVIOUS
    <3> QED
      BY <1>2, <3>1, <3>2
  <2> QED
    BY <1>1, <2>1, <2>2
<1>5. /\ request' \in [Requests -> RequestType]
      /\ \A q \in Requests : StatusOK(q)'
  <2>1. StatusOK(r)'
    BY OwnStep DEF Own
  <2> QED
    BY <1>1, <1>2, <2>1 DEF Moves, StatusOK
<1> QED
  BY <1>1, <1>3, <1>4, <1>5, StepKeepsPools DEF TypeOK, StatusOK

LEMMA NextInv == IInv /\ [Next]_vars => IInv'
<1> SUFFICES ASSUME IInv, [Next]_vars PROVE IInv'
  OBVIOUS
<1>1. ASSUME NEW r \in Requests, Step(r) PROVE IInv'
  <2>1. \A q \in Requests : RequestInv(q)'
    BY <1>1, OwnStep, OthersStay DEF Own
  <2> QED
    BY <1>1, <2>1, StepTyped, StepKeepsPools DEF IInv
<1>2. CASE (\E zr \in Readers : Collect(zr)) \/ AllDone \/ UNCHANGED vars
  <2>1. UNCHANGED <<config, request, wire, copies, bound, out>> /\ ready' \subseteq Readers
    BY <1>2 DEF Collect, AllDone, vars, IInv, TypeOK
  <2>2. TypeOK' /\ PoolInv'
    BY <2>1 DEF IInv, TypeOK, PoolInv, Holds, Lost
  <2>3. ASSUME NEW r \in Requests PROVE RequestInv(r)'
    BY <2>1 DEF IInv, RequestInv, HoldOK, BodyOK, SeenOK, HookOK, AnswerOK, HookBody,
       Signed, Encrypted, Agrees
  <2> QED
    BY <2>2, <2>3 DEF IInv
<1> QED
  BY <1>1, <1>2 DEF Next

LEMMA PipelineInv == Spec => []IInv
BY InitInv, NextInv, PTL DEF Spec

-----------------------------------------------------------------------------
(* The theorems.                                                            *)

\* Every state of the pipeline has the types of TypeOK.
THEOREM PipelineTypeCorrect == Spec => []TypeOK
<1>1. IInv => TypeOK
  BY DEF IInv
<1> QED
  BY <1>1, PipelineInv, PTL

\* A pooled gzip object is in its pool once, or with one request and bound to it,
\* for any number of requests and objects: bodies and answers never mix.
THEOREM PipelineObjectsExclusive == Spec => []ObjectsAreExclusive
<1>1. ASSUME IInv, NEW o \in Objects
      PROVE  /\ copies[o] + Cardinality({r \in Requests : Holds(r, o)}) <= 1
             /\ \A r \in Requests : Holds(r, o) => bound[o] = r
  <2> DEFINE holders == {r \in Requests : Holds(r, o)}
  <2>1. copies[o] \in 0..1 /\ \A r \in Requests : Holds(r, o) => bound[o] = r
    BY <1>1 DEF IInv, TypeOK, PoolInv
  <2>2. CASE holders = {}
    BY <2>1, <2>2, FS_EmptySet
  <2>3. CASE holders # {}
    <3>1. PICK r \in Requests : holders = {r} /\ copies[o] = 0
      BY <1>1, <2>3 DEF IInv, PoolInv
    <3>2. Cardinality(holders) = 1
      BY <3>1, FS_Singleton
    <3> QED
      BY <2>1, <3>1, <3>2
  <2> QED
    BY <2>2, <2>3
<1>2. IInv => ObjectsAreExclusive
  BY <1>1 DEF ObjectsAreExclusive
<1> QED
  BY <1>2, PipelineInv, PTL

\* A handler acts on the body its client has sent, and on none that carries a
\* signature of another body or made with another key than the server's.
THEOREM PipelineHandlesSent == Spec => []HandledIsSent
<1>1. IInv => HandledIsSent
  BY DEF IInv, RequestInv, SeenOK, HandledIsSent
<1> QED
  BY <1>1, PipelineInv, PTL

\* For any keys that agree the middleware undoes what the hook did.
THEOREM PipelineHandlesMatching == Spec => []MatchingIsHandled
<1>1. IInv => MatchingIsHandled
  BY DEF IInv, RequestInv, HookOK, MatchingIsHandled
<1> QED
  BY <1>1, PipelineInv, PTL

\* An answer is whole when its request is done, and holds nothing of another.
THEOREM PipelineAnswersWhole == Spec => []AnswersAreWhole
<1>1. IInv => AnswersAreWhole
  BY DEF IInv, RequestInv, AnswerOK, AnswersAreWhole, At, TypeOK, StatusOK
<1> QED
  BY <1>1, PipelineInv, PTL

-----------------------------------------------------------------------------
(* Enough objects.                                                          *)

\* As many things as have a place of their own among T fit into T.
LEMMA Pigeonhole ==
  ASSUME NEW S, NEW T, IsFiniteSet(T), NEW f, \A o \in S : \E q \in T : f[q] = o
  PROVE  IsFiniteSet(S) /\ Cardinality(S) <= Cardinality(T)
<1> DEFINE I == {q \in T : f[q] \in S}
           g == [q \in I |-> f[q]]
<1>1. IsFiniteSet(I) /\ Cardinality(I) <= Cardinality(T)
  BY FS_Subset
<1>2. g \in Surjection(I, S)
  BY DEF Surjection
<1>3. IsFiniteSet(S) /\ Cardinality(S) <= Cardinality(I)
  BY <1>1, <1>2, FS_Surjection DEF ExistsSurjection
<1>4. Cardinality(S) \in Nat /\ Cardinality(I) \in Nat /\ Cardinality(T) \in Nat
  BY <1>1, <1>3, FS_CardinalityType
<1> QED
  BY <1>1, <1>3, <1>4

\* A pool has the object, or makes another for it.
Free(o) == copies[o] > 0 \/ Lost(o)

\* When the others hold at most one object each, one is free.
LEMMA OneIsFree ==
  ASSUME TypeOK, NEW pool \in SUBSET Objects, NEW r \in Requests, NEW f,
         IsFiniteSet(Requests), IsFiniteSet(pool),
         Cardinality(pool) >= Cardinality(Requests),
         \A o \in pool : ~Free(o) => \E q \in Requests \ {r} : f[q] = o
  PROVE  \E o \in pool : Free(o)
<1> DEFINE others == Requests \ {r}
<1>1. IsFiniteSet(others) /\ Cardinality(others) = Cardinality(Requests) - 1
  BY FS_RemoveElement
<1>2. Cardinality(Requests) \in Nat /\ Cardinality(pool) \in Nat
  BY FS_CardinalityType
<1> SUFFICES ASSUME \A o \in pool : ~Free(o)
             PROVE  FALSE
  OBVIOUS
<1>3. \A o \in pool : \E q \in others : f[q] = o
  OBVIOUS
<1> HIDE DEF others
<1>4. Cardinality(pool) <= Cardinality(others)
  BY <1>1, <1>3, Pigeonhole
<1> QED
  BY <1>1, <1>2, <1>4

PoolsSuffice ==
  /\ IsFiniteSet(Requests)
  /\ \A pool \in {AgentWriters, Writers, Readers} :
       IsFiniteSet(pool) /\ Cardinality(pool) >= Cardinality(Requests)

\* Where a request takes an object out of a pool there is one, or one to replace.
GetNeverWaits ==
  \A r \in Requests :
    /\ At(r, "new") => \E gz \in AgentWriters : Free(gz)
    /\ At(r, "wire") => \E zw \in Writers : Free(zw)
    /\ At(r, "gzip") => \E zr \in Readers : Free(zr)

\* funcpool.go:34, Get: a pool makes an object when it has none, and no request
\* waits for another.  The model's pools have their objects from the start: with
\* one for each request they never run out either.
THEOREM PipelineGetNeverWaits ==
  ASSUME PoolsSuffice
  PROVE  Spec => []GetNeverWaits
<1>1. ASSUME IInv, NEW r \in Requests, At(r, "new")
      PROVE  \E gz \in AgentWriters : Free(gz)
  <2> DEFINE f == [q \in Requests |-> request[q].gz]
  <2>1. ASSUME NEW o \in AgentWriters, ~Free(o)
        PROVE  \E q \in Requests \ {r} : f[q] = o
    <3>1. PICK q \in Requests : Holds(q, o)
      BY <1>1, <2>1 DEF IInv, TypeOK, Free, Lost, Objects
    <3>2. request[q].zw # o /\ request[q].zr # o
      BY <1>1, PipelineAssumption DEF IInv, TypeOK, RequestType, Maybe, Objects
    <3>3. f[q] = o /\ o # None
      BY <3>1, <3>2, PipelineAssumption DEF Holds, Objects
    <3>4. request[r].gz = None
      BY <1>1 DEF IInv, RequestInv, HoldOK, At
    <3> QED
      BY <3>3, <3>4
  <2> HIDE DEF f
  <2> QED
    BY <1>1, <2>1, OneIsFree, PoolsSuffice DEF PoolsSuffice, Objects, IInv
<1>2. ASSUME IInv, NEW r \in Requests, At(r, "wire")
      PROVE  \E zw \in Writers : Free(zw)
  <2> DEFINE f == [q \in Requests |-> request[q].zw]
  <2>1. ASSUME NEW o \in Writers, ~Free(o)
        PROVE  \E q \in Requests \ {r} : f[q] = o
    <3>1. PICK q \in Requests : Holds(q, o)
      BY <1>2, <2>1 DEF IInv, TypeOK, Free, Lost, Objects
    <3>2. request[q].gz # o /\ request[q].zr # o
      BY <1>2, PipelineAssumption DEF IInv, TypeOK, RequestType, Maybe, Objects
    <3>3. f[q] = o /\ o # None
      BY <3>1, <3>2, PipelineAssumption DEF Holds, Objects
    <3>4. request[r].zw = None
      BY <1>2 DEF IInv, RequestInv, HoldOK, At
    <3> QED
      BY <3>3, <3>4
  <2> HIDE DEF f
  <2> QED
    BY <1>2, <2>1, OneIsFree, PoolsSuffice DEF PoolsSuffice, Objects, IInv
<1>3. ASSUME IInv, NEW r \in Requests, At(r, "gzip")
      PROVE  \E zr \in Readers : Free(zr)
  <2> DEFINE f == [q \in Requests |-> request[q].zr]
  <2>1. ASSUME NEW o \in Readers, ~Free(o)
        PROVE  \E q \in Requests \ {r} : f[q] = o
    <3>1. PICK q \in Requests : Holds(q, o)
      BY <1>3, <2>1 DEF IInv, TypeOK, Free, Lost, Objects
    <3>2. request[q].gz # o /\ request[q].zw # o
      BY <1>3, PipelineAssumption DEF IInv, TypeOK, RequestType, Maybe, Objects
    <3>3. f[q] = o /\ o # None
      BY <3>1, <3>2, PipelineAssumption DEF Holds, Objects
    <3>4. request[r].zr = None
      BY <1>3 DEF IInv, RequestInv, HoldOK, At
    <3> QED
      BY <3>3, <3>4
  <2> HIDE DEF f
  <2> QED
    BY <1>3, <2>1, OneIsFree, PoolsSuffice DEF PoolsSuffice, Objects, IInv
<1>4. IInv => GetNeverWaits
  BY <1>1, <1>2, <1>3 DEF GetNeverWaits
<1> QED
  BY <1>4, PipelineInv, PTL

\* gzip.go:82, and the deferred Put and Close: a pool loses nothing, on any way
\* through the chain and for any number of requests, but what a panic in Put keeps
\* from it, a reader for each request that ends so.
THEOREM PipelineNothingLeaks == Spec => []NothingLeaks
<1>1. IInv => NothingLeaks
  BY DEF IInv, PoolInv, NothingLeaks
<1> QED
  BY <1>1, PipelineInv, PTL

\* Both together: each object is in its pool, with the one request it is bound to,
\* or a reader that a panic lost.
THEOREM PipelineObjectsAccounted == Spec => []ObjectsAreAccounted
<1>1. ObjectsAreExclusive /\ NothingLeaks => ObjectsAreAccounted
  BY DEF ObjectsAreAccounted
<1> QED
  BY <1>1, PipelineObjectsExclusive, PipelineNothingLeaks, PTL
=============================================================================
