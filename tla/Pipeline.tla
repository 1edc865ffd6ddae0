------------------------------ MODULE Pipeline ------------------------------
(***************************************************************************)
(* The way of a request body: signed, encrypted and compressed by the hook *)
(* of the agent's client, undone by the middleware chain of the server in  *)
(* the order of router.go, and the answer back.  Concurrent requests share *)
(* three pools of gzip objects.                                            *)
(***************************************************************************)
EXTENDS Naturals, Sequences, FiniteSets

CONSTANTS Requests,      \* calls of clients, each a goroutine on both sides
          Keys,          \* secrets of the HMAC and pairs of RSA keys
          Configs,       \* the keys of both sides: [agent, server, rsa, private]
          Foreign,       \* requests of other clients: [gzip, accept, encrypted, key, layers, flaw]
          AgentWriters,  \* gzip writers of the agent
          Writers,       \* gzip writers of the server
          Readers,       \* gzip readers of the server
          None,          \* no key, object, header or flaw
          Junk           \* bytes that are no message

VARIABLES config,   \* the keys in use
          request,  \* what is under way on behalf of each call
          wire,     \* the buffer a body is written to and sent from
          copies,   \* how often an object is in its pool
          bound,    \* what a pooled object reads from or writes to
          ready,    \* readers with a decompressor
          out       \* what the server has written to each answer

vars == <<config, request, wire, copies, bound, ready, out>>

Objects == AgentWriters \cup Writers \cup Readers

Body == [data : Requests \cup {Junk}, layers : Seq(Keys \cup {"gzip"})]

Maybe(S) == S \cup {None}

Statuses == {"200", "400", "413", "500", "aborted"}

ASSUME PipelineAssumption ==
  /\ None \notin Requests \cup Keys \cup Objects \cup Body \cup Statuses
  /\ Junk \notin Requests
  /\ AgentWriters \cap Writers = {}
  /\ (AgentWriters \cup Writers) \cap Readers = {}
  /\ Configs \subseteq [agent : Maybe(Keys), server : Maybe(Keys),
                       rsa : Maybe(Keys), private : Maybe(Keys)]
  /\ Foreign \subseteq [gzip : BOOLEAN, accept : BOOLEAN, encrypted : BOOLEAN,
                       key : Maybe(Keys), layers : Seq(Keys \cup {"gzip"}),
                       flaw : Maybe({"big", "corrupt"})]

\* A body is data inside of layers, the outermost first: "gzip" or an RSA key.
\* A flaw shows when it is read: "big" over the limit, "corrupt" gzip data.
Plain(data) == [data |-> data, layers |-> <<>>]

Wrapped(layer, b) == [data |-> b.data, layers |-> <<layer>> \o b.layers]

IsWrapped(layer, b) == b.layers # <<>> /\ Head(b.layers) = layer

Unwrapped(b) == [data |-> b.data, layers |-> Tail(b.layers)]

Gunzipped(b) == IF IsWrapped("gzip", b) THEN Unwrapped(b) ELSE Plain(Junk)

Signature(key, b) == IF key = None THEN None ELSE <<key, b>>

\* gz, zw, zr: pooled objects in use; body: what was read into memory; gzip,
\* accept, encrypted, hash: headers; hooked: made by the agent's hook; seen: what
\* the handler was given.
New == [pc |-> "new", gz |-> None, zw |-> None, zr |-> None, body |-> None,
        gzip |-> FALSE, accept |-> FALSE, encrypted |-> FALSE, hash |-> None,
        hooked |-> FALSE, flaw |-> None, seen |-> None, status |-> None]

\* Every object that a pool would make is in it from the start.
Init ==
  /\ config \in Configs
  /\ request = [r \in Requests |-> New]
  /\ wire = [r \in Requests |-> Plain(Junk)]
  /\ copies = [o \in Objects |-> 1]
  /\ bound = [o \in Objects |-> None]
  /\ ready = {}
  /\ out = [r \in Requests |-> {}]

At(r, pc) == request[r].pc = pc

Goes(r, pc) == request' = [request EXCEPT ![r].pc = pc]

(* The pools *)

Holds(r, o) == o \in {request[r].gz, request[r].zw, request[r].zr}

\* No request has the object, and it was never put back.
Lost(o) == copies[o] = 0 /\ \A r \in Requests : ~Holds(r, o)

\* Variant: the object is used and stays in the pool.
Peek(o) == copies[o] > 0 /\ UNCHANGED copies

\* An object of the pool, or another that it makes in place of one lost.
Get(o) ==
  \/ copies[o] > 0 /\ copies' = [copies EXCEPT ![o] = @ - 1]
  \/ Lost(o) /\ UNCHANGED copies

Put(o) == copies' = [copies EXCEPT ![o] = @ + 1]

\* The garbage collector takes a reader out of the pool, which makes another.
Collect(zr) ==
  /\ copies[zr] > 0 /\ zr \in ready
  /\ ready' = ready \ {zr}
  /\ UNCHANGED <<config, request, wire, copies, bound, out>>

(* The agent's hook *)

Encrypted(b) == IF config.rsa = None THEN b ELSE Wrapped(config.rsa, b)

\* Variant: the signature is of the encrypted body.
SignLast(r) == Signature(config.agent, Encrypted(Plain(r)))

\* The signature is of the body before encryption and compression.
Signed(r) == Signature(config.agent, Plain(r))

HookOpens(r) ==
  /\ At(r, "new")
  /\ \E gz \in AgentWriters :
       /\ Get(gz)
       /\ bound' = [bound EXCEPT ![gz] = r]
       /\ request' = [request EXCEPT
            ![r] = [@ EXCEPT !.pc = "hook", !.gz = gz, !.hooked = TRUE, !.gzip = TRUE,
                             !.accept = TRUE, !.hash = Signed(r),
                             !.encrypted = config.rsa # None]]
  /\ UNCHANGED <<config, wire, ready, out>>

HookWrites(r) ==
  /\ At(r, "hook")
  /\ wire' = [wire EXCEPT ![bound[request[r].gz]] = Wrapped("gzip", Encrypted(Plain(r)))]
  /\ Goes(r, "put")
  /\ UNCHANGED <<config, copies, bound, ready, out>>

HookPuts(r) ==
  /\ At(r, "put")
  /\ Put(request[r].gz)
  /\ bound' = [bound EXCEPT ![request[r].gz] = None]
  /\ request' = [request EXCEPT ![r].pc = "wire", ![r].gz = None]
  /\ UNCHANGED <<config, wire, ready, out>>

\* SendMetric has no body: the hook does nothing, and the headers still say gzip.
SendEmpty(r) ==
  /\ At(r, "new")
  /\ request' = [request EXCEPT ![r].pc = "wire", ![r].gzip = TRUE, ![r].accept = TRUE]
  /\ UNCHANGED <<config, wire, copies, bound, ready, out>>

SendForeign(r) ==
  /\ At(r, "new")
  /\ \E f \in Foreign :
       /\ wire' = [wire EXCEPT ![r] = [data |-> r, layers |-> f.layers]]
       /\ request' = [request EXCEPT
            ![r] = [@ EXCEPT !.pc = "wire", !.gzip = f.gzip, !.accept = f.accept,
                             !.encrypted = f.encrypted, !.flaw = f.flaw,
                             !.hash = Signature(f.key, Plain(r))]]
  /\ UNCHANGED <<config, copies, bound, ready, out>>

(* WithGzipCompression *)

OpenWriter(r) ==
  /\ At(r, "wire")
  /\ IF request[r].accept
     THEN \E zw \in Writers :
            /\ Get(zw)
            /\ bound' = [bound EXCEPT ![zw] = r]
            /\ request' = [request EXCEPT ![r].pc = "gzip", ![r].zw = zw]
     ELSE Goes(r, "gzip") /\ UNCHANGED <<copies, bound>>
  /\ UNCHANGED <<config, wire, ready, out>>

PlainBody(r) ==
  /\ At(r, "gzip") /\ ~request[r].gzip
  /\ Goes(r, "decrypt")
  /\ UNCHANGED <<config, wire, copies, bound, ready, out>>

\* Reset reads the gzip header and makes the decompressor of a new reader.
OpenReader(r) ==
  /\ At(r, "gzip") /\ request[r].gzip /\ IsWrapped("gzip", wire[r])
  /\ \E zr \in Readers :
       /\ Get(zr)
       /\ bound' = [bound EXCEPT ![zr] = r]
       /\ ready' = ready \cup {zr}
       /\ request' = [request EXCEPT ![r].pc = "decrypt", ![r].zr = zr]
  /\ UNCHANGED <<config, wire, out>>

\* Reset fails: what it reads has no gzip header.
ResetFails(r) ==
  /\ At(r, "gzip") /\ request[r].gzip /\ ~IsWrapped("gzip", wire[r])
  /\ \E zr \in Readers :
       /\ Get(zr)
       /\ bound' = [bound EXCEPT ![zr] = r]
       /\ request' = [request EXCEPT ![r].pc = "unread", ![r].zr = zr]
  /\ UNCHANGED <<config, wire, ready, out>>

\* Variant: the reader whose Reset failed is dropped.
Drop(o) == UNCHANGED copies

GiveBack(o) == Put(o)

\* The reader is given back. Put closes it first, which panics without a
\* decompressor: net/http ends the connection, and the reader is lost.
PutBack(r) ==
  /\ At(r, "unread")
  /\ LET zr == request[r].zr
         sound == zr \in ready
     IN /\ IF sound THEN GiveBack(zr) ELSE UNCHANGED copies
        /\ request' = [request EXCEPT ![r].pc = "close", ![r].zr = None,
                         ![r].status = IF sound THEN "500" ELSE "aborted"]
  /\ UNCHANGED <<config, wire, bound, ready, out>>

\* What reading the body gives: a reader reads the body it was reset for.
Read(r) ==
  IF request[r].body # None THEN request[r].body
  ELSE IF request[r].zr = None THEN wire[r]
  ELSE Gunzipped(wire[bound[request[r].zr]])

Flaw(r) == IF request[r].body = None THEN request[r].flaw ELSE None

\* An answer passes through the writer if the client accepts gzip.
Writes(r) ==
  LET to == IF request[r].zw = None THEN r ELSE bound[request[r].zw]
  IN out' = [out EXCEPT ![to] = @ \cup {<<r, "data">>}]

Refuse(r, status) ==
  /\ request' = [request EXCEPT ![r].pc = "close", ![r].status = status]
  /\ Writes(r)

(* WithDecryption *)

Decrypt(r) ==
  /\ At(r, "decrypt")
  /\ \/ /\ config.private = None \/ ~request[r].encrypted
        /\ Goes(r, "hash")
        /\ UNCHANGED out
     \/ /\ config.private # None /\ request[r].encrypted
        /\ IF Flaw(r) # None THEN Refuse(r, "500")
           ELSE IF ~IsWrapped(config.private, Read(r)) THEN Refuse(r, "400")
           ELSE /\ request' = [request EXCEPT ![r].pc = "hash", ![r].body = Unwrapped(Read(r))]
                /\ UNCHANGED out
  /\ UNCHANGED <<config, wire, copies, bound, ready>>

(* WithHashValidation *)

CheckHash(r) ==
  /\ At(r, "hash")
  /\ \/ /\ config.server = None \/ request[r].hash = None
        /\ Goes(r, "handler")
        /\ UNCHANGED out
     \/ /\ config.server # None /\ request[r].hash # None
        /\ IF Flaw(r) # None THEN Refuse(r, IF Flaw(r) = "big" THEN "413" ELSE "500")
           ELSE IF request[r].hash # Signature(config.server, Read(r)) THEN Refuse(r, "400")
           ELSE /\ request' = [request EXCEPT ![r].pc = "handler", ![r].body = Read(r)]
                /\ UNCHANGED out
  /\ UNCHANGED <<config, wire, copies, bound, ready>>

(* The handlers decode the body and answer. *)

Decodes(r) == Read(r).layers = <<>> /\ Read(r).data # Junk

\* Decoding ends behind the first value: a flaw is met before that or never.
Handle(r) ==
  /\ At(r, "handler")
  /\ \/ /\ Decodes(r)
        /\ request' = [request EXCEPT
             ![r] = [@ EXCEPT !.pc = "close", !.status = "200", !.seen = Read(r).data]]
     \/ /\ ~Decodes(r) \/ Flaw(r) # None
        /\ request' = [request EXCEPT ![r].pc = "close", ![r].status = "400"]
  /\ Writes(r)
  /\ UNCHANGED <<config, wire, copies, bound, ready>>

(* The deferred calls give the reader and then the writer back. *)

\* Variant: the body is closed by the handler too.
PutTwice(o) == copies' = [copies EXCEPT ![o] = @ + 2]

PutReader(o) == Put(o)

CloseReader(r) ==
  /\ At(r, "close")
  /\ IF request[r].zr = None THEN UNCHANGED copies ELSE PutReader(request[r].zr)
  /\ request' = [request EXCEPT ![r].pc = "flush", ![r].zr = None]
  /\ UNCHANGED <<config, wire, bound, ready, out>>

\* Variant: the writer is reset and not closed, as in the agent's pool.
NoTrailer(r) == {}

Trailer(r) == {<<r, "end">>}

\* Put closes the writer, which ends the gzip data of the answer.
CloseWriter(r) ==
  /\ At(r, "flush")
  /\ LET zw == request[r].zw
     IN IF zw = None THEN UNCHANGED <<copies, bound, out>>
        ELSE /\ Put(zw)
             /\ out' = [out EXCEPT ![bound[zw]] = @ \cup Trailer(r)]
             /\ bound' = [bound EXCEPT ![zw] = None]
  /\ request' = [request EXCEPT ![r].pc = "done", ![r].zw = None]
  /\ UNCHANGED <<config, wire, ready>>

Step(r) ==
  \/ HookOpens(r) \/ HookWrites(r) \/ HookPuts(r) \/ SendEmpty(r) \/ SendForeign(r)
  \/ OpenWriter(r) \/ PlainBody(r) \/ OpenReader(r) \/ ResetFails(r) \/ PutBack(r)
  \/ Decrypt(r) \/ CheckHash(r) \/ Handle(r) \/ CloseReader(r) \/ CloseWriter(r)

AllDone == (\A r \in Requests : At(r, "done")) /\ UNCHANGED vars

Next == (\E r \in Requests : Step(r)) \/ (\E zr \in Readers : Collect(zr)) \/ AllDone

Spec == Init /\ [][Next]_vars

(* Properties *)

Pcs == {"new", "hook", "put", "wire", "gzip", "unread", "decrypt", "hash", "handler",
        "close", "flush", "done"}

RequestType ==
  [pc : Pcs, gz : Maybe(AgentWriters), zw : Maybe(Writers), zr : Maybe(Readers),
   body : Maybe(Body), gzip : BOOLEAN, accept : BOOLEAN, encrypted : BOOLEAN,
   hash : Maybe(Keys \X Body), hooked : BOOLEAN, flaw : Maybe({"big", "corrupt"}),
   seen : Maybe(Requests), status : Maybe(Statuses)]

\* Types; the status is set when the request is answered.
TypeOK ==
  /\ config \in Configs
  /\ request \in [Requests -> RequestType]
  /\ \A r \in Requests :
       request[r].status # None <=> request[r].pc \in {"close", "flush", "done"}
  /\ wire \in [Requests -> Body]
  /\ copies \in [Objects -> 0..1]
  /\ bound \in [Objects -> Maybe(Requests)]
  /\ ready \subseteq Readers
  /\ out \in [Requests -> SUBSET (Requests \X {"data", "end"})]

\* funcpool.go:34: through all interleavings of hooks and handlers an object is
\* once in its pool, or with one request and bound to it, and never both.
ObjectsAreExclusive ==
  \A o \in Objects :
    /\ copies[o] + Cardinality({r \in Requests : Holds(r, o)}) <= 1
    /\ \A r \in Requests : Holds(r, o) => bound[o] = r

\* gzip.go:84: whatever a request ends with, a refusal, a failed Reset or an
\* answer, it gives its objects back, but for one reader in a request that panicked.
NothingLeaks ==
  \A o \in Objects : Lost(o) =>
    /\ o \in Readers /\ bound[o] \in Requests
    /\ request[bound[o]].status = "aborted"
    /\ \A p \in Objects : Lost(p) /\ bound[p] = bound[o] => p = o

\* Each object is in its pool, or with one request, or lost in a panic, whatever
\* interleavings, refusals and failed Resets it has been through.
ObjectsAreAccounted == ObjectsAreExclusive /\ NothingLeaks

\* A handler acts on the body its client has sent and on no other, and if the
\* server has a key and the request a signature, on what was signed with it.
HandledIsSent ==
  \A r \in Requests : request[r].seen # None =>
    /\ request[r].seen = r
    /\ config.server # None /\ request[r].hash # None =>
         request[r].hash = <<config.server, Plain(r)>>

Agrees == /\ config.agent = None \/ config.server \in {None, config.agent}
          /\ config.rsa \in {None, config.private}

\* With keys that agree (a side without a key takes no part) the server undoes
\* what the hook did, in the order that makes it possible: no batch of the agent
\* is refused on its way to the handler.
MatchingIsHandled ==
  Agrees => \A r \in Requests :
    request[r].hooked /\ request[r].status # None => request[r].seen = r

\* An answer holds what was written for its request, whole: with the end of the
\* gzip data if it went through a writer, and nothing of another answer.
AnswersAreWhole ==
  \A r \in Requests : At(r, "done") =>
    /\ out[r] \subseteq {<<r, "data">>, <<r, "end">>}
    /\ request[r].accept => <<r, "end">> \in out[r]
    /\ request[r].status \in {"200", "400", "413"} => <<r, "data">> \in out[r]

\* gzip.go:82: a body that is not gzip is answered, and the reader that could not
\* be reset is put back.
BadGzipIsAnswered == \A r \in Requests : request[r].status # "aborted"
=============================================================================
