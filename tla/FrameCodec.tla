----------------------------- MODULE FrameCodec -----------------------------
(***************************************************************************)
(* Frames as bytes: Frame.Encode and Frame.ReadLimit, with the payloads    *)
(* they are made of (KV items, messages and actions).                      *)
(*                                                                         *)
(* Names are byte strings; the three item names ReadLimit knows stand for  *)
(* themselves.                                                             *)
(***************************************************************************)
EXTENDS TypedData

CONSTANT MaxFrameSize

ASSUME MaxFrameSizeAssumption == MaxFrameSize \in Nat

Healthcheck == <<1>>
MaxSizeItem == <<2>>
EngineID == <<3>>

(* The buffers an encoder appends, one after the other.                    *)
Joined(bufs) ==
    LET upTo[i \in 0 .. Len(bufs)] == IF i = 0 THEN <<>> ELSE upTo[i - 1] \o bufs[i]
    IN  upTo[Len(bufs)]

-----------------------------------------------------------------------------
(* Package kv.                                                             *)

Item(name, val) == [name |-> name, val |-> val]
PutItem(i) == PutString(i.name) \o Encode(i.val)

Bytes(items) == Joined([i \in DOMAIN items |-> PutItem(items[i])])

(* One item, as both Unmarshal and UnmarshalNB read it.                    *)
GetItem(buf) ==
    AndThen(GetString(buf), LAMBDA name :
        AndThen(Decode(Drop(buf, name.n)), LAMBDA val :
            Ok(Item(name.val, val.val), name.n + val.n)))

(* What is read, and then what the rest of the buffer holds.               *)
Then(entry, more) ==
    AndThen(more, LAMBDA m : Ok(<<entry.val>> \o m.val, entry.n + m.n))

UnmarshalNB[count \in Nat] ==
    [buf \in Seq(Byte) |->
        IF count = 0 THEN Ok(<<>>, 0)
        ELSE AndThen(GetItem(buf), LAMBDA item :
                 Then(item, UnmarshalNB[count - 1][Drop(buf, item.n)]))]

-----------------------------------------------------------------------------
(* Package message: a name, a count of arguments and the arguments.        *)
GetMessage(buf) ==
    AndThen(GetString(buf), LAMBDA name :
        IF Len(buf) = name.n THEN Error
        ELSE AndThen(UnmarshalNB[buf[name.n + 1]][Drop(buf, name.n + 1)], LAMBDA args :
                 Ok([name |-> name.val, kv |-> args.val], name.n + 1 + args.n)))

(* HAProxy's side of it; this package does not encode messages.            *)
PutMessage(m) == PutString(m.name) \o <<Len(m.kv)>> \o Bytes(m.kv)

-----------------------------------------------------------------------------
(* Package action: SET-VAR is 1 and takes 3 arguments, UNSET-VAR is 2 and  *)
(* takes 2.                                                                *)
SetVar == 1
UnsetVar == 2
nbVars(t) == IF t = SetVar THEN 3 ELSE 2
Scopes == 0 .. 4

(* Mutant: UNSET-VAR is given a value, nil.                                *)
MarshalWithNil(a) ==
    <<a.type, nbVars(a.type), a.scope>> \o PutString(a.name) \o Encode(a.val)

Marshal(a) ==
    <<a.type, nbVars(a.type), a.scope>> \o PutString(a.name)
        \o (IF a.type = UnsetVar THEN <<>> ELSE Encode(a.val))

Action(buf, name, val) ==
    [type |-> buf[1], scope |-> buf[3], name |-> name, val |-> val]

GetAction(buf) ==
    IF \/ Len(buf) < 3
       \/ buf[1] \notin {SetVar, UnsetVar}
       \/ buf[2] # nbVars(buf[1])
       \/ buf[3] \notin Scopes
      THEN Error
      ELSE AndThen(GetString(Drop(buf, 3)), LAMBDA name :
               IF buf[1] = UnsetVar THEN Ok(Action(buf, name.val, Nil), 3 + name.n)
               ELSE AndThen(Decode(Drop(buf, 3 + name.n)), LAMBDA val :
                        Ok(Action(buf, name.val, val.val), 3 + name.n + val.n)))

-----------------------------------------------------------------------------
(* Package frame.  A frame here has one payload: the items, messages or    *)
(* actions its type calls for.                                             *)

minFrameLen == 5
FromHAProxy == {1, 2, 3}
FromAgent == {101, 102, 103}
Notify == 3
AgentAck == 103
AnyType == FromHAProxy \cup FromAgent

fin(flags) == flags % 2 = 1
abort(flags) == (flags \div 2) % 2 = 1

Uint32(n) ==
    <<(((n \div 256) \div 256) \div 256) % 256, ((n \div 256) \div 256) % 256,
      (n \div 256) % 256, n % 256>>
BigEndian(b) == ((b[1] * 256 + b[2]) * 256 + b[3]) * 256 + b[4]

(* Encode gives up before it writes: ABORT without FIN, a value or an      *)
(* action that has no encoding, a NOTIFY with messages.                    *)
Encodable(f) ==
    /\ abort(f.flags) => fin(f.flags)
    /\ f.type \in AnyType
    /\ f.type = Notify => f.payload = <<>>
    /\ f.type = AgentAck => \A i \in DOMAIN f.payload :
          f.payload[i].type \in {SetVar, UnsetVar}
    /\ \A i \in DOMAIN f.payload :
          \/ f.type = AgentAck /\ f.payload[i].type = UnsetVar
          \/ Supported(f.payload[i].val)

PutEntry(type, e) ==
    IF type = Notify THEN PutMessage(e)
    ELSE IF type = AgentAck THEN Marshal(e) ELSE PutItem(e)

Payload(type, entries) == Joined([i \in DOMAIN entries |-> PutEntry(type, entries[i])])

Body(f) ==
    <<f.type>> \o Uint32(f.flags) \o PutUvarint(f.stream) \o PutUvarint(f.frame)
        \o Payload(f.type, f.payload)

EncodeFrame(f) == Uint32(Len(Body(f))) \o Body(f)

(* ReadLimit asserts the types of the three items it copies out, in a      *)
(* frame of HAProxy's.  Get finds the first item of a name.                *)
WellTyped(items, name, type) ==
    \A i \in DOMAIN items :
        items[i].name = name /\ (\A j \in 1 .. i - 1 : items[j].name # name)
            => items[i].val.type = type

(* Entries until the buffer is used up: KV.Unmarshal, Messages.Decode and  *)
(* action.Unmarshal are this loop, each with its own kind of entry.        *)
GetEntry(type, buf) ==
    IF type = Notify THEN GetMessage(buf)
    ELSE IF type = AgentAck THEN GetAction(buf) ELSE GetItem(buf)

Entries(type) ==
    LET get[buf \in Seq(Byte)] ==
            IF buf = <<>> THEN Ok(<<>>, 0)
            ELSE AndThen(GetEntry(type, buf), LAMBDA entry :
                     Then(entry, get[Drop(buf, entry.n)]))
    IN get

HelloItems(items) ==
    /\ WellTyped(items, Healthcheck, "bool")
    /\ WellTyped(items, MaxSizeItem, "uint32")
    /\ WellTyped(items, EngineID, "string")

GetPayload(type, buf) ==
    AndThen(Entries(type)[buf], LAMBDA p :
        IF type \in {Notify} \cup FromAgent \/ HelloItems(p.val) THEN p ELSE Error)

(* The header and then the body, in the order ReadLimit judges them.  What *)
(* it returns: a frame, "eof" (io.EOF as it is) where not one byte is      *)
(* left, "more" where it waits for the rest of a frame, and where the      *)
(* stream ends there wraps the error, "toobig", or "malformed".            *)
Outcome(o) == [outcome |-> o, n |-> 0]

(* io.ReadFull short of a header; the mutant does not tell a stream that   *)
(* ends between two frames from one that ends in a frame.                  *)
AlwaysEOF(stream) == "eof"
HeaderMissing(stream) == IF stream = <<>> THEN "eof" ELSE "more"

(* The body, behind the type byte of the header.                           *)
ReadBody(type, body) ==
    AndThen(Uvarint(Drop(body, 4)), LAMBDA s :
        AndThen(Uvarint(Drop(body, 4 + s.n)), LAMBDA f :
            AndThen(GetPayload(type, Drop(body, 4 + s.n + f.n)), LAMBDA p :
                Ok([type |-> type, flags |-> BigEndian(body), stream |-> s.val,
                    frame |-> f.val, payload |-> p.val], Len(body)))))

ReadFrame(r) ==
    IF Failed(r) THEN Outcome("malformed")
    ELSE [outcome |-> "frame", n |-> 5 + r.n, frame |-> r.val]

ReadLimit(stream, limit, accept) ==
    IF Len(stream) < 5 THEN Outcome(HeaderMissing(stream))
    ELSE LET len == BigEndian(stream)
             type == stream[5]
         IN IF type \notin accept \/ len < minFrameLen THEN Outcome("malformed")
            ELSE IF len > limit \/ len > MaxFrameSize THEN Outcome("toobig")
            ELSE IF Len(stream) < 4 + len THEN Outcome("more")
            ELSE ReadFrame(ReadBody(type, SubSeq(stream, 6, 4 + len)))

-----------------------------------------------------------------------------
(* The frames there are in Go.  In a message HAProxy puts at most 255      *)
(* arguments, of types that have an encoding.                              *)
Items == [name : Strings, val : Values]
Messages ==
    [name : Strings,
     kv : {args \in Seq(Items) :
              Len(args) < 256 /\ \A i \in DOMAIN args : Supported(args[i].val)}]
Actions ==
    {a \in [type : Byte, scope : Scopes, name : Strings, val : Values] :
        a.type = UnsetVar => a.val = Nil}

EntriesOf(type) ==
    IF type = Notify THEN Messages ELSE IF type = AgentAck THEN Actions ELSE Items

IsUint32(n) == n \in Nat /\ ((n \div 256) \div 256) \div 256 < 256

Sendable(f) == Encodable(f) \/ f.type = Notify

GoFrame(f) ==
    /\ f \in [type : Byte, flags : Nat, stream : 0 .. Word - 1, frame : 0 .. Word - 1,
              payload : Seq(EntriesOf(f.type))]
    /\ IsUint32(f.flags)
    /\ Sendable(f) => IsUint32(Len(Body(f)))

-----------------------------------------------------------------------------
(* A frame as it is after a journey: its values in their canonical form.   *)
CanonicalItem(i) == Item(i.name, Canonical(i.val))
CanonicalEntry(type, e) ==
    IF type = Notify
      THEN [e EXCEPT !.kv = [i \in DOMAIN e.kv |-> CanonicalItem(e.kv[i])]]
      ELSE [e EXCEPT !.val = Canonical(e.val)]
CanonicalEntries(type, entries) ==
    [i \in DOMAIN entries |-> CanonicalEntry(type, entries[i])]
CanonicalFrame(f) == [f EXCEPT !.payload = CanonicalEntries(f.type, f.payload)]

(* A frame ReadLimit refuses for the type of an item.                      *)
Mistyped(f) == f.type \in FromHAProxy \ {Notify} /\ ~HelloItems(f.payload)

=============================================================================
