---------------------------- MODULE WebSocketRoute ----------------------------
(***************************************************************************)
(* A websocket route: its handshake is bound and validated like any other  *)
(* request (Binding), then ReadJSON and WriteJSON of the session exchange  *)
(* frames under the route's message contract (websocket_contract.go).  A   *)
(* frame is a JSON document, either a message by itself or an envelope of  *)
(* its type and the message.  Inbound, outbound and error families work    *)
(* alike; the model has one, written by one side and read by the other, in *)
(* the route's `family`: [disc, variants], a sequence of [type, schema].   *)
(* The handler reads into variables that it may use again.                 *)
(***************************************************************************)
EXTENDS Binding

CONSTANTS
  TypeDef,      \* Go struct types by name
  PayloadType,  \* the types with a payload field: the name of its type, or "any"
  Outgoing,     \* [type, inner, val]: values WriteJSON is given; inner is the payload's type
  Incoming,     \* documents other peers send
  MaxReads      \* bound on the reads of a session

ASSUME TypeAssumption == DOMAIN PayloadType \subseteq DOMAIN TypeDef

VARIABLES
  dst,    \* the handler's variables, one of each type
  frame,  \* the frame sent and not yet read
  last,   \* the last read
  reads   \* how many there were

sessionVars == <<dst, frame, last, reads>>

Peer    == [type |-> "peer", inner |-> "none", val |-> Nil]
NoFrame == [doc |-> Missing, from |-> Peer]

NoRead  == [type |-> "none", st |-> "none", frame |-> NoFrame, before |-> Nil, after |-> Nil]

ZeroOf(ty) == Zero(RuleDef(ItemField(TypeDef[ty])))

SessionInit ==
  /\ Init
  /\ dst = [ty \in {n \in DOMAIN TypeDef : Route.ws} |-> ZeroOf(ty)]
  /\ frame = NoFrame /\ last = NoRead /\ reads = 0

-----------------------------------------------------------------------------
(* The compiled contract                                                   *)

\* compileWebSocketMessageContract: of two variants with one type the later one
\* is kept, but the schemas of both are known.
Disc     == Route.family.disc
Variants == Route.family.variants
Declared == {Variants[i].type : i \in DOMAIN Variants}
Schemas  == {Variants[i].schema : i \in DOMAIN Variants}
SchemaOf(type) ==
  Variants[CHOOSE i \in DOMAIN Variants :
             Variants[i].type = type /\ \A j \in DOMAIN Variants : Variants[j].type = type => j <= i].schema

\* The validate tags of a struct's own fields, on what the fields hold.
Valid(ty, v) ==
  \A i \in DOMAIN TypeDef[ty].fields :
    LET f == TypeDef[ty].fields[i]
    IN  Validated(f.rules, f.type.kind, v.obj[f.name]) = "ok"

\* encoding/json: what a document leaves out keeps its value, and so does what
\* it has another type for, which is an error.
RECURSIVE Unmarshal(_, _, _)
Unmarshal(old, t, doc) ==
  CASE Absent(doc) -> [ok |-> TRUE, val |-> IF t.kind = "any" /\ doc = Nil THEN Nil ELSE old]
    [] t.kind = "struct" /\ Is(doc, "obj") ->
         LET rs == [i \in DOMAIN t.fields |->
                      Unmarshal(old.obj[t.fields[i].name], t.fields[i].type, Get(doc, t.fields[i].name))]
         IN  [ok |-> \A i \in DOMAIN rs : rs[i].ok,
              val |-> Obj([n \in DOMAIN old.obj |->
                             rs[CHOOSE i \in DOMAIN rs : t.fields[i].name = n].val])]
    [] ~Absent(doc) /\ \/ t.kind = "any" /\ ~Is(doc, "bad")
                       \/ t.kind = "string" /\ Is(doc, "str")
                       \/ t.kind = "int" /\ Is(doc, "num") -> [ok |-> TRUE, val |-> doc]
    [] OTHER -> [ok |-> FALSE, val |-> old]

-----------------------------------------------------------------------------
(* Reading                                                                 *)

\* extractWireEnvelope: the type and the payload, which may be null.
IsEnvelope(doc) ==
  /\ Is(doc, "obj") /\ {Disc, "payload"} \subseteq DOMAIN doc.obj
  /\ Is(doc.obj[Disc], "str") \/ Is(doc.obj[Disc], "nil")

WireType(doc) == IF Is(doc.obj[Disc], "str") THEN doc.obj[Disc].str ELSE ""

\* Conversion between struct types looks at the fields' names and types only.
Convertible(a, b) ==
  LET Shape(ty) == [i \in DOMAIN TypeDef[ty].fields |->
                      <<TypeDef[ty].fields[i].name, TypeDef[ty].fields[i].type>>]
  IN  Shape(a) = Shape(b)

\* Variant of PopulateEnvelope: a zero message leaves the payload field alone.
PopulateNonzero(ty, old, type, schema, decoded) ==
  [ok |-> ty \in DOMAIN PayloadType,
   val |-> IF ty \in DOMAIN PayloadType /\ decoded # ZeroOf(schema)
             THEN [old EXCEPT !.obj[Disc] = Str(type), !.obj["payload"] = decoded] ELSE old]

\* The type goes into its field, if there is one; the payload must fit.
PopulateEnvelope(ty, old, type, schema, decoded) ==
  LET typed == IF Disc \in DOMAIN old.obj /\ Is(old.obj[Disc], "str")
                 THEN [old EXCEPT !.obj[Disc] = Str(type)] ELSE old
      fits == /\ ty \in DOMAIN PayloadType
              /\ PayloadType[ty] = "any" \/ Convertible(schema, PayloadType[ty])
  IN  [ok |-> fits, val |-> IF fits THEN [typed EXCEPT !.obj["payload"] = decoded] ELSE typed]

\* The envelope's part of decode: `old` is what the direct attempt left.
DecodeEnvelope(ty, old, doc) ==
  LET type == WireType(doc)
      raw == doc.obj["payload"]
      schema == SchemaOf(type)
      decoded == Unmarshal(ZeroOf(schema), TypeDef[schema], raw)
      again == Unmarshal(old, TypeDef[ty], raw)
      filled == PopulateEnvelope(ty, old, type, schema, decoded.val)
  IN  CASE ~IsEnvelope(doc) -> Outcome("error", old)
        [] IsEnvelope(doc) /\ (type \notin Declared \/ ~decoded.ok) -> Outcome("error", old)
        [] OTHER ->
             IF ty = schema
               THEN Outcome(IF again.ok /\ Valid(ty, again.val) THEN "ok" ELSE "error", again.val)
               ELSE Outcome(IF filled.ok /\ Valid(schema, decoded.val) THEN "ok" ELSE "error", filled.val)

\* decode: a variable of a variant's type takes the document itself if it can,
\* whatever type the document names.
DecodeFrame(ty, old, doc) ==
  LET direct == Unmarshal(old, TypeDef[ty], doc)
  IN  CASE Variants = <<>> -> Outcome(IF direct.ok THEN "ok" ELSE "error", direct.val)
        [] Variants # <<>> /\ ty \notin Schemas -> DecodeEnvelope(ty, old, doc)
        [] OTHER -> IF direct.ok /\ Valid(ty, direct.val) THEN Outcome("ok", direct.val)
                    ELSE DecodeEnvelope(ty, direct.val, doc)

\* Validate has accepted the handshake, in whole or the selected parts.
Upgraded == Route.ws /\ Len(calls) = 1 /\ call.part = 0 /\ calls[1].st = "ok" /\ ~calls[1].bind

\* ReadJSON(&dst).
ReadJSON(ty) ==
  /\ Upgraded /\ frame # NoFrame /\ reads < MaxReads
  /\ LET r == DecodeFrame(ty, dst[ty], frame.doc)
     IN  /\ dst' = [dst EXCEPT ![ty] = r.val]
         /\ last' = [type |-> ty, st |-> r.st, frame |-> frame, before |-> dst[ty], after |-> r.val]
  /\ reads' = reads + 1
  /\ frame' = NoFrame
  /\ UNCHANGED vars

-----------------------------------------------------------------------------
(* Writing                                                                 *)

\* Variant of ValidatePayload: an envelope's payload is not looked into.
ValidateOuter(o) ==
  \/ Variants = <<>>
  \/ o.type \in Schemas /\ Valid(o.type, o.val)
  \/ o.type \notin Schemas /\ o.type \in DOMAIN PayloadType
     /\ Disc \in DOMAIN o.val.obj /\ o.val.obj[Disc].str \in Declared

\* validate: by the value's type, else as an envelope with a declared type and
\* a payload of its schema's very type.
ValidatePayload(o) ==
  \/ Variants = <<>>
  \/ o.type \in Schemas /\ Valid(o.type, o.val)
  \/ /\ o.type \notin Schemas /\ o.type \in DOMAIN PayloadType
     /\ Disc \in DOMAIN o.val.obj
     /\ LET type == o.val.obj[Disc].str
        IN  type \in Declared /\ SchemaOf(type) = o.inner /\ Valid(o.inner, o.val.obj["payload"])

\* WriteJSON and WriteError send what they have validated.
WriteJSON(o) ==
  /\ Upgraded /\ frame = NoFrame /\ reads < MaxReads /\ ValidatePayload(o)
  /\ frame' = [doc |-> o.val, from |-> o]
  /\ UNCHANGED <<dst, last, reads, vars>>

\* Any other peer.
Arrive(doc) ==
  /\ Upgraded /\ frame = NoFrame /\ reads < MaxReads
  /\ frame' = [doc |-> doc, from |-> Peer]
  /\ UNCHANGED <<dst, last, reads, vars>>

-----------------------------------------------------------------------------
SessionNext ==
  \/ Next /\ frame = NoFrame /\ reads = 0 /\ UNCHANGED sessionVars
  \/ \E ty \in DOMAIN TypeDef : ReadJSON(ty)
  \/ \E o \in Outgoing : WriteJSON(o)
  \/ \E doc \in Incoming : Arrive(doc)

SessionSpec == SessionInit /\ [][SessionNext]_<<vars, sessionVars>>

-----------------------------------------------------------------------------
(* Properties                                                              *)

Envelopes == DOMAIN PayloadType \ Schemas

\* What ReadJSON accepts into an envelope is what the JSON parser of requests
\* would accept and bind as a body of the declared schema, whatever the variable
\* held before; and its type is the frame's.
EnvelopeReadsBody ==
  last.st = "ok" /\ last.type \in Envelopes /\ Variants # <<>> =>
    LET type == WireType(last.frame.doc)
        field == [ItemField(TypeDef[SchemaOf(type)]) EXCEPT !.rules = {Rule("required")}]
        body == DecodeJSON(last.frame.doc.obj["payload"], RuleDef(field), TRUE)
    IN  /\ type \in Declared
        /\ body = Outcome("ok", last.after.obj["payload"])
        /\ Disc \in DOMAIN last.after.obj => last.after.obj[Disc] = Str(type)

\* What WriteJSON lets pass, ReadJSON under the same contract reads back into a
\* fresh variable of that type, and an envelope's message also into one of the
\* message's type, but never into one of another variant's.  (Types with nothing
\* required are left out: a variable of theirs takes any object.)
Demanding(ty) == ~Valid(ty, ZeroOf(ty))

SentIsRead ==
  LET o == last.frame.from IN
  Variants # <<>> /\ o \in Outgoing /\ last.before = ZeroOf(last.type) =>
    /\ last.type = o.type => last.st = "ok" /\ last.after = o.val
    /\ o.type \in Envelopes /\ last.type \in Schemas /\ Demanding(last.type) =>
         IF last.type = o.inner THEN last.st = "ok" /\ last.after = o.val.obj["payload"]
                                ELSE last.st = "error"
===============================================================================
