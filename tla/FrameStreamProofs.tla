------------------------- MODULE FrameStreamProofs --------------------------
(***************************************************************************)
(* Frames and the stream they are sent on: what was sent is read, a frame  *)
(* that was cut short is noticed, numbers have one encoding and what is    *)
(* accepted can be written again.  For all frames, every limit and every   *)
(* bound.                                                                  *)
(***************************************************************************)
EXTENDS FrameStream, CodecProofs

(* The table of the SPOE specification in its own numbers.                 *)
LEMMA TableRows ==
    ASSUME NEW n \in Nat, NEW len \in Nat,
           len <= 1 <=> n < Table(1), len <= 2 <=> n < Table(2),
           len <= 3 <=> n < Table(3), len <= 4 <=> n < Table(4),
           Table(1) = 240, Table(2) = 240 + 16 * 128, Table(3) = 240 + 16 * (128 + 128 * 128),
           Table(4) = 240 + 16 * (128 + 128 * (128 + 128 * 128))
    PROVE  InTable(n, len)
  BY SMT DEF InTable

USE ZenonT(2), SMTT(60), SMTT(59)

-----------------------------------------------------------------------------
(* Frames.                                                                 *)

(* A number below 2^32 in four digits of base 256.                         *)
LEMMA Digits ==
    ASSUME NEW n \in Nat, ((n \div 256) \div 256) \div 256 < 256
    PROVE  LET a == (((n \div 256) \div 256) \div 256) % 256
               b == ((n \div 256) \div 256) % 256
               c == (n \div 256) % 256
               d == n % 256
           IN  /\ a \in Nat /\ a < 256 /\ b \in Nat /\ b < 256
               /\ c \in Nat /\ c < 256 /\ d \in Nat /\ d < 256
               /\ ((a * 256 + b) * 256 + c) * 256 + d = n
<1> DEFINE x == n \div 256
           y == x \div 256
           z == y \div 256
<1>1. x \in Nat /\ n = 256 * x + (n % 256) /\ n % 256 \in Nat /\ n % 256 < 256
  OBVIOUS
<1> HIDE DEF x
<1>2. y \in Nat /\ x = 256 * y + (x % 256) /\ x % 256 \in Nat /\ x % 256 < 256
  BY <1>1
<1> HIDE DEF y
<1>3. z \in Nat /\ y = 256 * z + (y % 256) /\ y % 256 \in Nat /\ y % 256 < 256
  BY <1>2
<1>4. z < 256
  BY DEF x, y
<1> HIDE DEF z
<1>5. z % 256 = z
  BY <1>3, <1>4
<1>6. ((z * 256 + (y % 256)) * 256 + (x % 256)) * 256 + (n % 256) = n
  BY <1>1, <1>2, <1>3
<1> QED
  BY <1>1, <1>2, <1>3, <1>4, <1>5, <1>6 DEF x, y, z

(* A uint32 in four bytes.                                                 *)
FourBytes(n, s) ==
    /\ Uint32(n) \in Seq(Byte) /\ Len(Uint32(n)) = 4
    /\ BigEndian(Uint32(n) \o s) = n

(* Four bytes in network order give the number back.                       *)
LEMMA Uint32Back ==
    ASSUME NEW n, IsUint32(n), NEW s \in Seq(Byte)
    PROVE  FourBytes(n, s)
<1> DEFINE a == (((n \div 256) \div 256) \div 256) % 256
           b == ((n \div 256) \div 256) % 256
           c == (n \div 256) % 256
           d == n % 256
<1>1. n \in Nat /\ ((n \div 256) \div 256) \div 256 < 256
  BY Zenon DEF IsUint32
<1>2. /\ a \in Nat /\ a < 256 /\ b \in Nat /\ b < 256
      /\ c \in Nat /\ c < 256 /\ d \in Nat /\ d < 256
      /\ ((a * 256 + b) * 256 + c) * 256 + d = n
  BY <1>1, Digits
<1>3. Uint32(n) = <<a, b, c, d>>
  BY Zenon DEF Uint32
<1> HIDE DEF a, b, c, d
<1>4. a \in Byte /\ b \in Byte /\ c \in Byte /\ d \in Byte
  BY <1>2, ByteIs, Zenon
<1> DEFINE q == <<a, b, c, d>>
<1>5. q \in Seq(Byte) /\ Len(q) = 4
  BY <1>4
<1>6. (q \o s)[1] = a /\ (q \o s)[2] = b /\ (q \o s)[3] = c /\ (q \o s)[4] = d
  BY <1>4
<1>7. BigEndian(q \o s) = ((a * 256 + b) * 256 + c) * 256 + d
  BY <1>6, ZenonT(60) DEF BigEndian
<1> QED
  BY <1>2, <1>3, <1>5, <1>7, ZenonT(60) DEF FourBytes

(* A sequence whose elements all lie in a set.                             *)
LEMMA AllWithin ==
    ASSUME NEW S, NEW T, NEW s \in Seq(S), \A i \in DOMAIN s : s[i] \in T
    PROVE  s \in Seq(T)
<1>1. DOMAIN s = 1 .. Len(s) /\ Len(s) \in Nat /\ s = [i \in 1 .. Len(s) |-> s[i]]
  OBVIOUS
<1>2. [i \in 1 .. Len(s) |-> s[i]] \in Seq(T)
  BY <1>1
<1> QED
  BY <1>1, <1>2, Zenon

(* What can be sent has an encoding.                                       *)
LEMMA SendableValid ==
    ASSUME NEW f, GoFrame(f), Sendable(f)
    PROVE  f.payload \in Seq(ValidEntries(f.type))
<1> DEFINE t == f.type
           es == f.payload
<1>1. es \in Seq(EntriesOf(t))
  BY DEF GoFrame
<1>2. \A i \in DOMAIN es : es[i] \in EntriesOf(t)
  BY <1>1
<1>3. ASSUME NEW i \in Items, Supported(i.val) PROVE i \in ValidItems
  BY <1>3 DEF Items, ValidItems, SupportedValues
<1>4. CASE t = Notify
  <2>1. ASSUME NEW e \in Messages PROVE e \in ValidMessages
    <3>1. /\ e.name \in Strings /\ e.kv \in Seq(Items) /\ Len(e.kv) < 256
          /\ e = [name |-> e.name, kv |-> e.kv]
          /\ \A i \in DOMAIN e.kv : Supported(e.kv[i].val)
      BY DEF Messages
    <3>2. \A i \in DOMAIN e.kv : e.kv[i] \in Items
      BY <3>1
    <3>3. \A i \in DOMAIN e.kv : e.kv[i] \in ValidItems
      BY <1>3, <3>1, <3>2, Zenon
    <3>4. e.kv \in Seq(ValidItems)
      BY <3>1, <3>3, AllWithin, Zenon
    <3> QED
      BY <3>1, <3>4 DEF ValidMessages
  <2>2. \A i \in DOMAIN es : es[i] \in ValidEntries(t)
    BY <1>2, <1>4, <2>1, ZenonT(60) DEF EntriesOf, ValidEntries
  <2> QED
    BY <1>1, <2>2, AllWithin, Zenon
<1>5. CASE t # Notify
  <2>1. /\ t = AgentAck => \A i \in DOMAIN es : es[i].type \in {SetVar, UnsetVar}
        /\ \A i \in DOMAIN es :
              \/ t = AgentAck /\ es[i].type = UnsetVar
              \/ Supported(es[i].val)
    BY <1>5, Zenon DEF Sendable, Encodable
  <2>2. CASE t = AgentAck
    <3>1. ASSUME NEW i \in DOMAIN es PROVE es[i] \in ValidActions
      <4> DEFINE e == es[i]
      <4>1. e \in Actions
        BY <1>2, <1>5, <2>2, Zenon DEF EntriesOf
      <4>2. /\ e.type \in {SetVar, UnsetVar}
            /\ e.type = UnsetVar \/ Supported(e.val)
        BY <2>1, <2>2, Zenon
      <4> HIDE DEF e
      <4>3. /\ e \in [type : Byte, scope : Scopes, name : Strings, val : Values]
            /\ e.type = UnsetVar => e.val = Nil
        BY <4>1, Zenon DEF Actions
      <4>4. Nil \in SupportedValues
        BY DecodedValues, Zenon DEF Nil
      <4>5. e.val \in SupportedValues
        BY <4>2, <4>3, <4>4 DEF SupportedValues
      <4>6. e \in ValidActions
        BY <4>2, <4>3, <4>5 DEF ValidActions
      <4> QED
        BY <4>6, Zenon DEF e
    <3>2. ValidEntries(t) = ValidActions
      BY <1>5, <2>2, Zenon DEF ValidEntries
    <3> QED
      BY <1>1, <3>1, <3>2, AllWithin, Zenon
  <2>3. CASE t # AgentAck
    <3>1. EntriesOf(t) = Items /\ ValidEntries(t) = ValidItems
      BY <1>5, <2>3, Zenon DEF EntriesOf, ValidEntries
    <3>2. \A i \in DOMAIN es : es[i] \in ValidItems
      BY <1>2, <1>3, <2>1, <2>3, <3>1, Zenon
    <3> QED
      BY <1>1, <3>1, <3>2, AllWithin, Zenon
  <2> QED
    BY <2>2, <2>3, Zenon
<1> QED
  BY <1>4, <1>5, Zenon

(* A journey changes none of the types ReadLimit asserts.                  *)
LEMMA HelloItemsKept ==
    ASSUME NEW type, type # Notify, type # AgentAck, NEW es \in Seq(ValidEntries(type))
    PROVE  HelloItems(CanonicalEntries(type, es)) <=> HelloItems(es)
<1> DEFINE cs == CanonicalEntries(type, es)
<1>0. ValidEntries(type) = ValidItems
  BY Zenon DEF ValidEntries
<1>1. DOMAIN cs = DOMAIN es /\ DOMAIN es = 1 .. Len(es) /\ Len(es) \in Nat
  BY DEF CanonicalEntries
<1>2. ASSUME NEW i \in DOMAIN es
      PROVE  /\ cs[i].name = es[i].name
             /\ \A t \in {"bool", "uint32", "string"} : cs[i].val.type = t <=> es[i].val.type = t
  <2> DEFINE e == es[i]
  <2>1. e \in ValidItems
    BY <1>0
  <2>2. cs[i] = [e EXCEPT !.val = Canonical(e.val)]
    BY Zenon DEF CanonicalEntries, CanonicalEntry
  <2> HIDE DEF e, cs
  <2>3. cs[i].name = e.name /\ cs[i].val = Canonical(e.val)
    BY <2>1, <2>2 DEF ValidItems
  <2>4. \A t \in {"bool", "uint32", "string"} : Canonical(e.val).type = t <=> e.val.type = t
    BY DEF Canonical, Value
  <2> QED
    BY <2>3, <2>4, Zenon DEF e
<1> HIDE DEF cs
<1>3. \A i \in DOMAIN es : \A j \in 1 .. i - 1 : j \in DOMAIN es
  BY <1>1
<1>4. ASSUME NEW name, NEW t \in {"bool", "uint32", "string"}
      PROVE  WellTyped(cs, name, t) <=> WellTyped(es, name, t)
  BY <1>1, <1>2, <1>3, ZenonT(60) DEF WellTyped
<1> QED
  BY <1>4, Zenon DEF HelloItems, cs

(* What stands in a frame that can be sent.                                *)
LEMMA Fields ==
    ASSUME NEW f, GoFrame(f), Sendable(f)
    PROVE  /\ f.type \in AnyType /\ f.type \in Byte
           /\ f.stream \in 0 .. Word - 1 /\ f.frame \in 0 .. Word - 1
           /\ f.stream \in Nat /\ f.frame \in Nat
           /\ f = [type |-> f.type, flags |-> f.flags, stream |-> f.stream,
                   frame |-> f.frame, payload |-> f.payload]
           /\ IsUint32(f.flags) /\ IsUint32(Len(Body(f)))
           /\ f.payload \in Seq(ValidEntries(f.type))
           /\ Payload(f.type, f.payload) \in Seq(Byte)
<1>1. f \in [type : Byte, flags : Nat, stream : 0 .. Word - 1, frame : 0 .. Word - 1,
             payload : Seq(EntriesOf(f.type))]
  BY Zenon DEF GoFrame
<1>2. /\ f.type \in Byte /\ f.stream \in 0 .. Word - 1 /\ f.frame \in 0 .. Word - 1
      /\ f = [type |-> f.type, flags |-> f.flags, stream |-> f.stream,
              frame |-> f.frame, payload |-> f.payload]
  BY <1>1
<1>3. f.stream \in Nat /\ f.frame \in Nat
  BY <1>2, WordAssumption
<1>4. IsUint32(f.flags) /\ IsUint32(Len(Body(f)))
  BY Zenon DEF GoFrame
<1>5. f.type \in AnyType
  <2>1. Notify \in AnyType
    BY DEF Notify, AnyType, FromHAProxy
  <2> QED
    BY <2>1, Zenon DEF Sendable, Encodable
<1>6. f.payload \in Seq(ValidEntries(f.type))
  BY SendableValid, Zenon
<1>7. Payload(f.type, f.payload) \in Seq(Byte)
  BY <1>6, PayloadBack, Zenon
<1> QED
  BY <1>2, <1>3, <1>4, <1>5, <1>6, <1>7, Zenon

(* The body behind its type byte.                                          *)
Behind4(f) == PutUvarint(f.stream) \o (PutUvarint(f.frame) \o Payload(f.type, f.payload))
Rest(f) == Uint32(f.flags) \o Behind4(f)

(* The body of a frame: its type, its flags, its ids and its payload.      *)
LEMMA BodyIs ==
    ASSUME NEW f, GoFrame(f), Sendable(f)
    PROVE  /\ Behind4(f) \in Seq(Byte) /\ Rest(f) \in Seq(Byte) /\ Len(Rest(f)) \in Nat
           /\ Body(f) = <<f.type>> \o Rest(f)
           /\ Len(Body(f)) = 1 + Len(Rest(f)) /\ minFrameLen <= Len(Body(f))
           /\ Len(Body(f)) \in Nat
<1> DEFINE u == Uint32(f.flags)
           a == PutUvarint(f.stream)
           b == PutUvarint(f.frame)
           p == Payload(f.type, f.payload)
           h == <<f.type>>
<1>1. a \in Seq(Byte) /\ b \in Seq(Byte) /\ p \in Seq(Byte) /\ f.type \in Byte
  BY Fields, PutBytes, Zenon
<1>2. h \in Seq(Byte) /\ Len(h) = 1
  BY <1>1
<1>3. u \in Seq(Byte) /\ Len(u) = 4
  <2>1. FourBytes(f.flags, p)
    BY <1>1, Fields, Uint32Back, Zenon
  <2> QED
    BY <2>1, Zenon DEF FourBytes
<1>4. Body(f) = (((h \o u) \o a) \o b) \o p
  BY Zenon DEF Body
<1>5. Behind4(f) = a \o (b \o p) /\ Rest(f) = u \o Behind4(f)
  BY Zenon DEF Behind4, Rest
<1> HIDE DEF u, a, b, p, h
<1>6. b \o p \in Seq(Byte) /\ h \o u \in Seq(Byte)
  BY <1>1, <1>2, <1>3, Assoc, Zenon
<1>7. a \o (b \o p) \in Seq(Byte) /\ (h \o u) \o a \in Seq(Byte)
  BY <1>1, <1>6, Assoc, Zenon
<1>8. u \o (a \o (b \o p)) \in Seq(Byte)
  BY <1>3, <1>7, Assoc, Zenon
<1>9. (((h \o u) \o a) \o b) \o p = ((h \o u) \o a) \o (b \o p)
  <2> DEFINE k == (h \o u) \o a
  <2>1. k \in Seq(Byte) /\ b \in Seq(Byte) /\ p \in Seq(Byte)
    BY <1>1, <1>7, Zenon
  <2> HIDE DEF k
  <2>2. (k \o b) \o p = k \o (b \o p)
    BY <2>1, Assoc, ZenonT(60)
  <2> QED
    BY <2>2, Zenon DEF k
<1>10. ((h \o u) \o a) \o (b \o p) = (h \o u) \o (a \o (b \o p))
  <2> DEFINE k == h \o u
             m == b \o p
  <2>1. k \in Seq(Byte) /\ a \in Seq(Byte) /\ m \in Seq(Byte)
    BY <1>1, <1>6, Zenon
  <2> HIDE DEF k, m
  <2>2. (k \o a) \o m = k \o (a \o m)
    BY <2>1, Assoc, ZenonT(60)
  <2> QED
    BY <2>2, Zenon DEF k, m
<1>11. (h \o u) \o (a \o (b \o p)) = h \o (u \o (a \o (b \o p)))
  BY <1>2, <1>3, <1>7, Assoc, ZenonT(60)
<1>12. Body(f) = h \o Rest(f)
  BY <1>4, <1>5, <1>9, <1>10, <1>11, Zenon
<1>13. Behind4(f) \in Seq(Byte) /\ Rest(f) \in Seq(Byte)
  BY <1>5, <1>7, <1>8, Zenon
<1>14. Len(Rest(f)) = 4 + Len(Behind4(f)) /\ Len(Behind4(f)) \in Nat
  <2>1. Len(u \o Behind4(f)) = Len(u) + Len(Behind4(f)) /\ Len(Behind4(f)) \in Nat
    BY <1>3, <1>13, Lengths, Zenon
  <2> QED
    BY <1>3, <1>5, <2>1, Zenon
<1>15. Len(Body(f)) = 1 + Len(Rest(f))
  <2>1. Len(h \o Rest(f)) = Len(h) + Len(Rest(f))
    BY <1>2, <1>13, Lengths, Zenon
  <2> QED
    BY <1>2, <1>12, <2>1, Zenon
<1>16. Len(Rest(f)) \in Nat /\ 5 <= Len(Body(f)) /\ Len(Body(f)) \in Nat
  BY <1>14, <1>15
<1> QED
  BY <1>12, <1>13, <1>15, <1>16, Zenon DEF minFrameLen, h

(* The payload is refused only for the type of an item.                    *)
LEMMA GetPayloadBack ==
    ASSUME NEW f, GoFrame(f), Sendable(f)
    PROVE  GetPayload(f.type, Payload(f.type, f.payload)) =
              IF Mistyped(f) THEN Error
              ELSE Ok(CanonicalEntries(f.type, f.payload), Len(Payload(f.type, f.payload)))
<1> DEFINE t == f.type
           es == f.payload
           p == Payload(t, es)
           cs == CanonicalEntries(t, es)
<1>1. es \in Seq(ValidEntries(t)) /\ t \in AnyType
  BY Fields, Zenon
<1>2. Entries(t)[p] = Ok(cs, Len(p)) /\ Len(p) \in Nat
  BY <1>1, PayloadBack, Zenon
<1>3. ~Failed(Ok(cs, Len(p))) /\ Ok(cs, Len(p)).val = cs
  BY <1>2, FailedIs, Zenon
<1>4. GetPayload(t, p) =
         IF t \in {Notify} \cup FromAgent \/ HelloItems(cs) THEN Ok(cs, Len(p)) ELSE Error
  BY <1>2, <1>3, Zenon DEF GetPayload, AndThen
<1>5. CASE t \in {Notify} \cup FromAgent
  <2>1. ~(t \in FromHAProxy \ {Notify})
    BY <1>5 DEF FromAgent, FromHAProxy
  <2>2. ~Mistyped(f)
    BY <2>1, Zenon DEF Mistyped
  <2> QED
    BY <1>4, <1>5, <2>2, Zenon
<1>6. CASE ~(t \in {Notify} \cup FromAgent)
  <2>1. t # Notify /\ t # AgentAck /\ t \in FromHAProxy \ {Notify}
    BY <1>1, <1>6 DEF AnyType, FromAgent, AgentAck
  <2>2. HelloItems(cs) <=> HelloItems(es)
    BY <1>1, <2>1, HelloItemsKept, Zenon
  <2>3. Mistyped(f) <=> ~HelloItems(cs)
    BY <2>1, <2>2, Zenon DEF Mistyped
  <2> QED
    BY <1>4, <1>6, <2>3, Zenon
<1> QED
  BY <1>5, <1>6, Zenon

(* The body is read back, or refused for the type of an item.              *)
LEMMA ReadBodyBack ==
    ASSUME NEW f, GoFrame(f), Sendable(f)
    PROVE  ReadBody(f.type, Rest(f)) =
              IF Mistyped(f) THEN Error ELSE Ok(CanonicalFrame(f), Len(Rest(f)))
<1> DEFINE t == f.type
           u == Uint32(f.flags)
           a == PutUvarint(f.stream)
           b == PutUvarint(f.frame)
           p == Payload(t, f.payload)
           body == Rest(f)
           x == Ok(f.stream, Len(a))
           y == Ok(f.frame, Len(b))
           cs == CanonicalEntries(t, f.payload)
           g == Ok(cs, Len(p))
<1>1. /\ a \in Seq(Byte) /\ b \in Seq(Byte) /\ p \in Seq(Byte)
      /\ Len(a) \in Nat /\ Len(b) \in Nat
      /\ Behind4(f) \in Seq(Byte)
  BY Fields, PutBytes, BodyIs, Zenon
<1>2. u \in Seq(Byte) /\ Len(u) = 4 /\ BigEndian(u \o Behind4(f)) = f.flags
  <2>1. FourBytes(f.flags, Behind4(f))
    BY <1>1, Fields, Uint32Back, Zenon
  <2> QED
    BY <2>1, Zenon DEF FourBytes
<1>3. body = u \o Behind4(f) /\ Behind4(f) = a \o (b \o p)
  BY Zenon DEF Rest, Behind4
<1>4. b \o p \in Seq(Byte)
  BY <1>1, Assoc, Zenon
<1>5. Uvarint(a \o (b \o p)) = x
  BY <1>4, Fields, UvarintPut, Zenon
<1>6. Uvarint(b \o p) = y
  BY <1>1, Fields, UvarintPut, Zenon
<1>7. GetPayload(t, p) = IF Mistyped(f) THEN Error ELSE g
  BY GetPayloadBack, Zenon
<1>8. ~Failed(x) /\ x.val = f.stream /\ x.n = Len(a)
  BY <1>1, FailedIs, Zenon
<1>9. ~Failed(y) /\ y.val = f.frame /\ y.n = Len(b)
  BY <1>1, FailedIs, Zenon
<1>10. Failed(Error) /\ ~Failed(g) /\ g.val = cs
  <2>1. Len(p) \in Nat
    BY <1>1
  <2> QED
    BY <2>1, FailedIs, Zenon
<1>11. CanonicalFrame(f) = [type |-> t, flags |-> f.flags, stream |-> f.stream,
                            frame |-> f.frame, payload |-> cs]
  <2>1. f = [type |-> f.type, flags |-> f.flags, stream |-> f.stream,
             frame |-> f.frame, payload |-> f.payload]
    BY Fields, Zenon
  <2>2. CanonicalFrame(f) = [f EXCEPT !.payload = cs]
    BY Zenon DEF CanonicalFrame
  <2> HIDE DEF cs
  <2> QED
    BY <2>1, <2>2
<1>12. Drop(body, 4) = a \o (b \o p)
  BY <1>1, <1>2, <1>3, Parts, Zenon
<1> HIDE DEF u, a, b, p, cs
<1>13. u \o a \in Seq(Byte) /\ Len(u \o a) = 4 + Len(a) /\ body = (u \o a) \o (b \o p)
  <2>1. (u \o a) \o (b \o p) = u \o (a \o (b \o p)) /\ u \o a \in Seq(Byte)
    BY <1>1, <1>2, <1>4, Assoc, ZenonT(60)
  <2>2. Len(u \o a) = Len(u) + Len(a)
    BY <1>1, <1>2, Lengths, Zenon
  <2> QED
    BY <1>2, <1>3, <2>1, <2>2, Zenon
<1>14. Drop(body, 4 + Len(a)) = b \o p
  BY <1>4, <1>13, Parts, Zenon
<1>15. Drop(body, 4 + Len(a) + Len(b)) = p
  <2>1. u \o a \in Seq(Byte) /\ Len(u \o a) = 4 + Len(a) /\ body = (u \o a) \o (b \o p)
    BY <1>13, Zenon
  <2>2. ((u \o a) \o b) \o p = (u \o a) \o (b \o p) /\ (u \o a) \o b \in Seq(Byte)
    BY <1>1, <2>1, Assoc, Zenon
  <2>3. Len((u \o a) \o b) = 4 + Len(a) + Len(b)
    BY <1>1, <2>1, Lengths, Zenon
  <2>4. Drop(((u \o a) \o b) \o p, Len((u \o a) \o b)) = p
    BY <1>1, <2>2, Parts, Zenon
  <2> QED
    BY <2>1, <2>2, <2>3, <2>4, Zenon
<1> HIDE DEF body, x, y, g
<1>16. ReadBody(t, body) =
          AndThen(GetPayload(t, Drop(body, 4 + Len(a) + Len(b))), LAMBDA q :
              Ok([type |-> t, flags |-> BigEndian(body), stream |-> f.stream,
                  frame |-> f.frame, payload |-> q.val], Len(body)))
  <2>1. Uvarint(Drop(body, 4)) = x
    BY <1>5, <1>12, Zenon
  <2>2. Uvarint(Drop(body, 4 + Len(a))) = y
    BY <1>6, <1>14, Zenon
  <2> QED
    BY <2>1, <2>2, <1>8, <1>9, Zenon DEF ReadBody, AndThen
<1>17. CASE Mistyped(f)
  BY <1>7, <1>10, <1>15, <1>16, <1>17, ZenonT(60) DEF AndThen, body
<1>18. CASE ~Mistyped(f)
  <2>1. GetPayload(t, Drop(body, 4 + Len(a) + Len(b))) = g
    BY <1>7, <1>15, <1>18, Zenon
  <2>2. ReadBody(t, body) = Ok([type |-> t, flags |-> BigEndian(body), stream |-> f.stream,
                                frame |-> f.frame, payload |-> cs], Len(body))
    BY <1>10, <1>16, <2>1, Zenon DEF AndThen
  <2>3. BigEndian(body) = f.flags
    BY <1>2, <1>3, Zenon
  <2> QED
    BY <1>11, <1>18, <2>2, <2>3, Zenon DEF body
<1> QED
  BY <1>17, <1>18, Zenon

(* The header: the length of the frame and its type.                       *)
Headed(n, x, s) ==
    /\ Uint32(n) \o (<<x>> \o s) = (Uint32(n) \o <<x>>) \o s
    /\ Uint32(n) \o <<x>> \in Seq(Byte) /\ Len(Uint32(n) \o <<x>>) = 5
    /\ Uint32(n) \o (<<x>> \o s) \in Seq(Byte)
    /\ Len(Uint32(n) \o (<<x>> \o s)) = 5 + Len(s) /\ Len(s) \in Nat
    /\ BigEndian(Uint32(n) \o (<<x>> \o s)) = n
    /\ (Uint32(n) \o (<<x>> \o s))[5] = x

(* The header is read back, whatever follows it.                           *)
LEMMA Header ==
    ASSUME NEW n, IsUint32(n), NEW x \in Byte, NEW s \in Seq(Byte)
    PROVE  Headed(n, x, s)
<1> DEFINE a == Uint32(n)
           b == <<x>> \o s
           w == a \o b
           h == a \o <<x>>
<1>1. b \in Seq(Byte)
  OBVIOUS
<1>2. a \in Seq(Byte) /\ Len(a) = 4 /\ BigEndian(w) = n
  <2>1. FourBytes(n, b)
    BY <1>1, Uint32Back, Zenon
  <2> QED
    BY <2>1, Zenon DEF FourBytes
<1>3. h \o s = w /\ h \in Seq(Byte) /\ Len(h) = Len(a) + 1 /\ w[Len(a) + 1] = x
  <2>1. Amid(a, x, s)
    BY <1>2, Between, Zenon
  <2> QED
    BY <2>1, Zenon DEF Amid
<1>4. Len(a) + 1 = 5
  BY <1>2
<1>5. w \in Seq(Byte)
  BY <1>1, <1>2, Assoc, Zenon
<1>6. Len(h \o s) = Len(h) + Len(s) /\ Len(s) \in Nat
  BY <1>3, Lengths, Zenon
<1>7. Len(w) = 5 + Len(s)
  BY <1>3, <1>4, <1>6, Zenon
<1> QED
  BY <1>2, <1>3, <1>4, <1>5, <1>6, <1>7, ZenonT(60) DEF Headed

(* The bytes of a frame, and what may follow them.                         *)
LEMMA FrameBytes ==
    ASSUME NEW f, GoFrame(f), Sendable(f)
    PROVE  /\ EncodeFrame(f) = Uint32(Len(Body(f))) \o (<<f.type>> \o Rest(f))
           /\ EncodeFrame(f) \in Seq(Byte) /\ Len(EncodeFrame(f)) = 4 + Len(Body(f))
           /\ Len(EncodeFrame(f)) = 5 + Len(Rest(f))
           /\ Len(EncodeFrame(f)) \in Nat \ {0}
           /\ \A u \in Seq(Byte) : EncodeFrame(f) \o u =
                 Uint32(Len(Body(f))) \o (<<f.type>> \o (Rest(f) \o u))
<1> DEFINE n == Len(Body(f))
           x == f.type
           r == Rest(f)
           h == Uint32(n) \o <<x>>
<1>1. r \in Seq(Byte) /\ x \in Byte /\ IsUint32(n) /\ Body(f) = <<x>> \o r
  BY Fields, BodyIs, Zenon
<1>2. Headed(n, x, r)
  BY <1>1, Header, Zenon
<1>3. EncodeFrame(f) = Uint32(n) \o (<<x>> \o r)
  BY <1>1, Zenon DEF EncodeFrame
<1>4. /\ EncodeFrame(f) = h \o r /\ h \in Seq(Byte) /\ EncodeFrame(f) \in Seq(Byte)
      /\ Len(EncodeFrame(f)) = 5 + Len(r) /\ Len(r) \in Nat
  BY <1>2, <1>3, Zenon DEF Headed
<1>5. n = 1 + Len(r)
  BY BodyIs, Zenon
<1>6. Len(EncodeFrame(f)) = 4 + n /\ Len(EncodeFrame(f)) \in Nat \ {0}
  <2> HIDE DEF n, r
  <2> QED
    BY <1>4, <1>5
<1>7. ASSUME NEW u \in Seq(Byte)
      PROVE  EncodeFrame(f) \o u = Uint32(n) \o (<<x>> \o (r \o u))
  <2>1. r \o u \in Seq(Byte)
    BY <1>1, Assoc, Zenon
  <2>2. Headed(n, x, r \o u)
    BY <1>1, <2>1, Header, Zenon
  <2>3. Uint32(n) \o (<<x>> \o (r \o u)) = h \o (r \o u)
    BY <2>2, Zenon DEF Headed
  <2> HIDE DEF h, n, x, r
  <2>4. (h \o r) \o u = h \o (r \o u)
    <3>1. h \in Seq(Byte) /\ r \in Seq(Byte)
      BY <1>1, <1>4, Zenon
    <3> QED
      BY <3>1, Assoc, ZenonT(60)
  <2> QED
    BY <1>4, <2>3, <2>4, Zenon
<1> QED
  BY <1>3, <1>4, <1>6, <1>7, Zenon

(* ReadLimit on a whole frame, whatever follows it.                        *)
Over(f, limit) == Len(Body(f)) > limit \/ Len(Body(f)) > MaxFrameSize

(* A whole frame is read back, whatever follows it: it is refused only for *)
(* its size or for the type of an item, and ReadLimit takes all its bytes  *)
(* and no other.                                                           *)
THEOREM ReadWhole ==
    ASSUME NEW f, GoFrame(f), Sendable(f), NEW u \in Seq(Byte), NEW limit
    PROVE  ReadLimit(EncodeFrame(f) \o u, limit, AnyType) =
              IF Over(f, limit) THEN Outcome("toobig")
              ELSE IF Mistyped(f) THEN Outcome("malformed")
              ELSE [outcome |-> "frame", n |-> Len(EncodeFrame(f)), frame |-> CanonicalFrame(f)]
<1> DEFINE n == Len(Body(f))
           x == f.type
           r == Rest(f)
           h == Uint32(n) \o <<x>>
           w == EncodeFrame(f) \o u
<1>1. /\ r \in Seq(Byte) /\ x \in Byte /\ IsUint32(n) /\ x \in AnyType
      /\ n = 1 + Len(r) /\ Len(r) \in Nat /\ minFrameLen <= n /\ n \in Nat
  BY Fields, BodyIs, Zenon
<1>2. r \o u \in Seq(Byte)
  BY <1>1, Assoc, Zenon
<1>3. Headed(n, x, r \o u)
  BY <1>1, <1>2, Header, Zenon
<1>4. w = Uint32(n) \o (<<x>> \o (r \o u))
  BY FrameBytes, Zenon
<1>5. /\ w = h \o (r \o u) /\ h \in Seq(Byte) /\ Len(h) = 5
      /\ Len(w) = 5 + Len(r \o u) /\ Len(r \o u) \in Nat
      /\ BigEndian(w) = n /\ w[5] = x
  BY <1>3, <1>4, Zenon DEF Headed
<1>6. Len(r \o u) = Len(r) + Len(u) /\ Len(u) \in Nat
  BY <1>1, Lengths, Zenon
<1>7. SubSeq(h \o (r \o u), Len(h) + 1, Len(h) + Len(r)) = r
  BY <1>1, <1>5, Parts, Zenon
<1>8. Len(EncodeFrame(f)) = 5 + Len(r)
  BY FrameBytes, Zenon
<1>9. ReadBody(x, r) = IF Mistyped(f) THEN Error ELSE Ok(CanonicalFrame(f), Len(r))
  BY ReadBodyBack, Zenon
<1> HIDE DEF n, x, r, h, w
<1>10. /\ ~(Len(w) < 5) /\ ~(n < minFrameLen) /\ ~(Len(w) < 4 + n)
       /\ 4 + n = Len(h) + Len(r) /\ Len(h) + 1 = 6
  BY <1>1, <1>5, <1>6 DEF minFrameLen
<1>11. SubSeq(w, 6, 4 + n) = r
  BY <1>5, <1>7, <1>10, Zenon
<1>12. ReadLimit(w, limit, AnyType) =
          IF n > limit \/ n > MaxFrameSize THEN Outcome("toobig")
          ELSE ReadFrame(ReadBody(x, r))
  BY <1>1, <1>5, <1>10, <1>11, ZenonT(60) DEF ReadLimit
<1>13. ReadFrame(ReadBody(x, r)) =
          IF Mistyped(f) THEN Outcome("malformed")
          ELSE [outcome |-> "frame", n |-> 5 + Len(r), frame |-> CanonicalFrame(f)]
  <2>1. Failed(Error)
    BY FailedIs, Zenon
  <2>2. /\ ~Failed(Ok(CanonicalFrame(f), Len(r)))
        /\ Ok(CanonicalFrame(f), Len(r)).val = CanonicalFrame(f)
        /\ Ok(CanonicalFrame(f), Len(r)).n = Len(r)
    BY <1>1, FailedIs, Zenon
  <2> QED
    BY <1>9, <2>1, <2>2, Zenon DEF ReadFrame
<1> QED
  BY <1>8, <1>12, <1>13, Zenon DEF Over, n, w

(* The header is the same whether what follows it is there or not.         *)
Begins(s, t) == (s \o t)[5] = s[5] /\ BigEndian(s \o t) = BigEndian(s)

(* The header is read as soon as it is there.                              *)
LEMMA HeaderThere ==
    ASSUME NEW s \in Seq(Byte), NEW t \in Seq(Byte), ~(Len(s) < 5)
    PROVE  Begins(s, t)
<1>1. 1 \in 1 .. Len(s) /\ 2 \in 1 .. Len(s) /\ 3 \in 1 .. Len(s) /\ 4 \in 1 .. Len(s) /\ 5 \in 1 .. Len(s)
  OBVIOUS
<1>2. \A i \in 1 .. Len(s) : (s \o t)[i] = s[i]
  OBVIOUS
<1>3. /\ (s \o t)[1] = s[1] /\ (s \o t)[2] = s[2] /\ (s \o t)[3] = s[3]
      /\ (s \o t)[4] = s[4] /\ (s \o t)[5] = s[5]
  BY <1>1, <1>2, Zenon
<1> QED
  BY <1>3, ZenonT(60) DEF Begins, BigEndian

(* ReadLimit on a frame that is not all there.                             *)
THEOREM ReadPart ==
    ASSUME NEW f, GoFrame(f), Sendable(f), NEW s \in Seq(Byte), NEW t \in Seq(Byte), NEW limit,
           s \o t = EncodeFrame(f), t # <<>>
    PROVE  \/ s = <<>> /\ ReadLimit(s, limit, AnyType) = Outcome("eof")
           \/ s # <<>> /\ ReadLimit(s, limit, AnyType) = Outcome("more")
           \/ Over(f, limit) /\ ReadLimit(s, limit, AnyType) = Outcome("toobig")
<1> DEFINE n == Len(Body(f))
           x == f.type
           r == Rest(f)
           w == EncodeFrame(f)
<1>1. /\ r \in Seq(Byte) /\ x \in Byte /\ IsUint32(n) /\ x \in AnyType
      /\ minFrameLen <= n /\ n \in Nat
  BY Fields, BodyIs, Zenon
<1>2. CASE Len(s) < 5
  <2>1. ReadLimit(s, limit, AnyType) = Outcome(HeaderMissing(s))
    BY <1>2, Zenon DEF ReadLimit
  <2> QED
    BY <2>1, Zenon DEF HeaderMissing
<1>3. CASE ~(Len(s) < 5)
  <2>1. Headed(n, x, r)
    BY <1>1, Header, Zenon
  <2>2. w = Uint32(n) \o (<<x>> \o r) /\ Len(w) = 4 + n
    BY FrameBytes, Zenon
  <2>3. BigEndian(w) = n /\ w[5] = x
    BY <2>1, <2>2, Zenon DEF Headed
  <2> HIDE DEF n, x, r, w
  <2>4. Begins(s, t)
    BY <1>3, HeaderThere, Zenon
  <2>5. w[5] = s[5] /\ BigEndian(w) = BigEndian(s)
    BY <2>4, Zenon DEF Begins, w
  <2>6. Len(s \o t) = Len(s) + Len(t) /\ Len(s) \in Nat /\ Len(t) \in Nat
    BY Lengths, Zenon
  <2>7. Len(t) # 0 /\ s # <<>>
    BY <1>3
  <2>8. Len(s) + Len(t) = 4 + n
    BY <2>2, <2>6, Zenon DEF w
  <2>9. Len(s) < 4 + n /\ ~(n < minFrameLen)
    BY <1>1, <2>6, <2>7, <2>8 DEF minFrameLen
  <2>10. ReadLimit(s, limit, AnyType) =
            IF n > limit \/ n > MaxFrameSize THEN Outcome("toobig") ELSE Outcome("more")
    BY <1>1, <1>3, <2>3, <2>5, <2>9, Zenon DEF ReadLimit
  <2> QED
    BY <2>7, <2>10, Zenon DEF Over, n
<1> QED
  BY <1>2, <1>3, Zenon

-----------------------------------------------------------------------------
(* The stream.                                                             *)

(* What is left of a sequence when its first k elements are done.          *)
Left(s, k) == SubSeq(s, k + 1, Len(s))

(* What is left, and what is left when one more was added.                 *)
LEMMA LeftIs ==
    ASSUME NEW S, NEW s \in Seq(S), NEW k \in 0 .. Len(s)
    PROVE  /\ Left(s, k) \in Seq(S) /\ Len(Left(s, k)) = Len(s) - k
           /\ k = Len(s) => Left(s, k) = <<>>
           /\ \A e \in S : Left(Append(s, e), k) = Append(Left(s, k), e)
<1>1. Left(s, k) \in Seq(S) /\ Len(Left(s, k)) = Len(s) - k
  BY DEF Left
<1>2. k = Len(s) => Left(s, k) = <<>>
  BY DEF Left
<1>3. ASSUME NEW e \in S PROVE Left(Append(s, e), k) = Append(Left(s, k), e)
  <2> DEFINE x == Left(Append(s, e), k)
             y == Append(Left(s, k), e)
  <2>1. x \in Seq(S) /\ y \in Seq(S) /\ Len(x) = Len(y) /\ Len(x) = Len(s) + 1 - k
    BY DEF Left
  <2>2. \A i \in 1 .. Len(x) : x[i] = y[i]
    BY DEF Left
  <2> QED
    BY <2>1, <2>2, SeqEqual
<1> QED
  BY <1>1, <1>2, <1>3

(* What is left begins with the next element.                              *)
LEMMA LeftSplits ==
    ASSUME NEW S, NEW s \in Seq(S), NEW k \in 0 .. Len(s), k < Len(s)
    PROVE  /\ s[k + 1] \in S /\ k + 1 \in 0 .. Len(s)
           /\ Left(s, k) = <<s[k + 1]>> \o Left(s, k + 1)
<1>1. s[k + 1] \in S /\ k + 1 \in 0 .. Len(s)
  OBVIOUS
<1> DEFINE x == Left(s, k)
           y == <<s[k + 1]>> \o Left(s, k + 1)
<1>2. x \in Seq(S) /\ y \in Seq(S) /\ Len(x) = Len(y) /\ Len(x) = Len(s) - k
  BY <1>1 DEF Left
<1>3. \A i \in 1 .. Len(x) : x[i] = y[i]
  BY <1>1 DEF Left
<1> QED
  BY <1>1, <1>2, <1>3, SeqEqual

(* What is left ends with the last element.                                *)
LEMMA LeftLast ==
    ASSUME NEW S, NEW s \in Seq(S), NEW k \in 0 .. Len(s), k < Len(s)
    PROVE  \E es \in Seq(S) : Left(s, k) = Append(es, s[Len(s)]) /\ s[Len(s)] \in S
<1> DEFINE es == SubSeq(s, k + 1, Len(s) - 1)
           x == Left(s, k)
           y == Append(es, s[Len(s)])
<1>1. es \in Seq(S) /\ s[Len(s)] \in S
  OBVIOUS
<1>2. x \in Seq(S) /\ y \in Seq(S) /\ Len(x) = Len(y) /\ Len(x) = Len(s) - k
  BY <1>1 DEF Left
<1>3. \A i \in 1 .. Len(x) : x[i] = y[i]
  BY <1>1 DEF Left
<1> QED
  BY <1>1, <1>2, <1>3, SeqEqual

(* The elements of what was put together.                                  *)
LEMMA Indices ==
    \A s, t \in Seq(Byte) : /\ \A i \in 1 .. Len(s) : (s \o t)[i] = s[i]
                            /\ \A i \in 1 .. Len(t) : (s \o t)[Len(s) + i] = t[i]
  OBVIOUS

(* A run of bytes cut in two.                                              *)
Halves(w, n) ==
    /\ SubSeq(w, 1, n) \in Seq(Byte) /\ Drop(w, n) \in Seq(Byte)
    /\ Len(SubSeq(w, 1, n)) = n /\ Len(Drop(w, n)) = Len(w) - n
    /\ SubSeq(w, 1, n) \o Drop(w, n) = w

(* What was taken and what was left, put together again.                   *)
LEMMA TakeAndDrop ==
    ASSUME NEW w \in Seq(Byte), NEW n \in 0 .. Len(w)
    PROVE  Halves(w, n)
<1> DEFINE a == SubSeq(w, 1, n)
           b == Drop(w, n)
<1>1. a \in Seq(Byte) /\ Len(a) = n /\ \A i \in 1 .. n : a[i] = w[i]
  OBVIOUS
<1>2. b \in Seq(Byte) /\ Len(b) = Len(w) - n /\ \A i \in 1 .. Len(w) - n : b[i] = w[n + i]
  BY DEF Drop
<1> HIDE DEF a, b
<1>3. a \o b \in Seq(Byte) /\ Len(a \o b) = Len(w)
  BY <1>1, <1>2
<1>4. \A i \in 1 .. Len(w) : (a \o b)[i] = w[i]
  <2> SUFFICES ASSUME NEW i \in 1 .. Len(w) PROVE (a \o b)[i] = w[i]
    BY Zenon
  <2>1. CASE i <= n
    BY <1>1, <1>2, <2>1
  <2>2. CASE ~(i <= n)
    <3>1. (a \o b)[i] = b[i - n]
      BY <1>1, <1>2, <2>2
    <3>2. i - n \in 1 .. Len(w) - n /\ n + (i - n) = i
      BY <2>2
    <3> QED
      BY <1>2, <3>1, <3>2, Zenon
  <2> QED
    BY <2>1, <2>2, Zenon
<1>5. a \o b = w
  BY <1>3, <1>4, SeqEqual
<1> QED
  BY <1>1, <1>2, <1>5, ZenonT(60) DEF Halves, a, b

(* Two ways to take a run of bytes apart: the shorter first part begins    *)
(* the longer one.                                                         *)
Overlaps(s, t, a, b) ==
    /\ Len(s) \in Nat /\ Len(t) \in Nat /\ Len(a) \in Nat /\ Len(b) \in Nat
    /\ Len(s) + Len(t) = Len(a) + Len(b)
    /\ ~(Len(s) < Len(a)) => /\ Drop(s, Len(a)) \in Seq(Byte)
                             /\ s = a \o Drop(s, Len(a)) /\ Drop(s, Len(a)) \o t = b
    /\ Len(s) < Len(a) => /\ Drop(a, Len(s)) \in Seq(Byte) /\ Drop(a, Len(s)) # <<>>
                          /\ s \o Drop(a, Len(s)) = a

(* The stream may end before or behind the end of a frame.                 *)
LEMMA Overlap ==
    ASSUME NEW s \in Seq(Byte), NEW t \in Seq(Byte), NEW a \in Seq(Byte), NEW b \in Seq(Byte),
           s \o t = a \o b
    PROVE  Overlaps(s, t, a, b)
<1>1. /\ Len(s) \in Nat /\ Len(t) \in Nat /\ Len(a) \in Nat /\ Len(b) \in Nat
      /\ Len(s) + Len(t) = Len(a) + Len(b)
  <2>1. Len(s \o t) = Len(s) + Len(t) /\ Len(s) \in Nat /\ Len(t) \in Nat
    BY Lengths, Zenon
  <2>2. Len(a \o b) = Len(a) + Len(b) /\ Len(a) \in Nat /\ Len(b) \in Nat
    BY Lengths, Zenon
  <2> QED
    BY <2>1, <2>2, Zenon
<1> DEFINE w == s \o t
<1>2. /\ \A i \in 1 .. Len(s) : w[i] = s[i]
      /\ \A i \in 1 .. Len(t) : w[Len(s) + i] = t[i]
  BY Indices, Zenon
<1>3. /\ \A i \in 1 .. Len(a) : w[i] = a[i]
      /\ \A i \in 1 .. Len(b) : w[Len(a) + i] = b[i]
  <2>1. /\ \A i \in 1 .. Len(a) : (a \o b)[i] = a[i]
        /\ \A i \in 1 .. Len(b) : (a \o b)[Len(a) + i] = b[i]
    BY Indices, Zenon
  <2> QED
    BY <2>1, Zenon
<1> HIDE DEF w
<1>4. ASSUME ~(Len(s) < Len(a))
      PROVE  /\ Drop(s, Len(a)) \in Seq(Byte)
             /\ s = a \o Drop(s, Len(a)) /\ Drop(s, Len(a)) \o t = b
  <2> DEFINE d == Drop(s, Len(a))
  <2>1. /\ d \in Seq(Byte) /\ Len(d) = Len(s) - Len(a)
        /\ \A i \in 1 .. Len(d) : d[i] = s[Len(a) + i]
    BY <1>1, <1>4 DEF Drop
  <2> HIDE DEF d
  <2>2. s = a \o d
    <3>1. a \o d \in Seq(Byte) /\ Len(a \o d) = Len(s)
      BY <1>1, <2>1
    <3>2. \A i \in 1 .. Len(s) : s[i] = (a \o d)[i]
      <4> SUFFICES ASSUME NEW i \in 1 .. Len(s) PROVE s[i] = (a \o d)[i]
        BY Zenon
      <4>1. CASE i <= Len(a)
        <5>1. i \in 1 .. Len(a)
          BY <1>1, <4>1
        <5>2. (a \o d)[i] = a[i]
          BY <2>1, <5>1
        <5> QED
          BY <1>2, <1>3, <5>1, <5>2, ZenonT(60)
      <4>2. CASE ~(i <= Len(a))
        <5>1. i - Len(a) \in 1 .. Len(d) /\ Len(a) + (i - Len(a)) = i
          BY <1>1, <2>1, <4>2
        <5>2. (a \o d)[i] = d[i - Len(a)]
          BY <2>1, <4>2
        <5> QED
          BY <2>1, <5>1, <5>2, ZenonT(60)
      <4> QED
        BY <4>1, <4>2, Zenon
    <3> QED
      BY <3>1, <3>2, SeqEqual
  <2>3. d \o t = b
    <3>1. d \o t \in Seq(Byte) /\ Len(d \o t) = Len(b)
      BY <1>1, <2>1
    <3>2. \A i \in 1 .. Len(b) : (d \o t)[i] = b[i]
      <4> SUFFICES ASSUME NEW i \in 1 .. Len(b) PROVE (d \o t)[i] = b[i]
        BY Zenon
      <4>1. b[i] = w[Len(a) + i]
        BY <1>3, Zenon
      <4>2. CASE i <= Len(d)
        <5>1. i \in 1 .. Len(d) /\ Len(a) + i \in 1 .. Len(s)
          BY <1>1, <2>1, <4>2
        <5>2. (d \o t)[i] = d[i]
          BY <2>1, <5>1
        <5> QED
          BY <1>2, <2>1, <4>1, <5>1, <5>2, ZenonT(60)
      <4>3. CASE ~(i <= Len(d))
        <5>1. i - Len(d) \in 1 .. Len(t) /\ Len(s) + (i - Len(d)) = Len(a) + i
          BY <1>1, <2>1, <4>3
        <5>2. (d \o t)[i] = t[i - Len(d)]
          BY <1>1, <2>1, <4>3
        <5> QED
          BY <1>2, <4>1, <5>1, <5>2, ZenonT(60)
      <4> QED
        BY <4>2, <4>3, Zenon
    <3> QED
      BY <3>1, <3>2, SeqEqual
  <2> QED
    BY <2>1, <2>2, <2>3, ZenonT(60) DEF d
<1>5. ASSUME Len(s) < Len(a)
      PROVE  /\ Drop(a, Len(s)) \in Seq(Byte) /\ Drop(a, Len(s)) # <<>>
             /\ s \o Drop(a, Len(s)) = a
  <2> DEFINE d == Drop(a, Len(s))
  <2>1. /\ d \in Seq(Byte) /\ Len(d) = Len(a) - Len(s)
        /\ \A i \in 1 .. Len(d) : d[i] = a[Len(s) + i]
    BY <1>1, <1>5 DEF Drop
  <2> HIDE DEF d
  <2>2. d # <<>>
    BY <1>1, <1>5, <2>1
  <2>3. s \o d = a
    <3>1. s \o d \in Seq(Byte) /\ Len(s \o d) = Len(a)
      BY <1>1, <2>1
    <3>2. \A i \in 1 .. Len(a) : (s \o d)[i] = a[i]
      <4> SUFFICES ASSUME NEW i \in 1 .. Len(a) PROVE (s \o d)[i] = a[i]
        BY Zenon
      <4>1. CASE i <= Len(s)
        <5>1. i \in 1 .. Len(s)
          BY <1>1, <4>1
        <5>2. (s \o d)[i] = s[i]
          BY <2>1, <5>1
        <5> QED
          BY <1>2, <1>3, <5>1, <5>2, ZenonT(60)
      <4>2. CASE ~(i <= Len(s))
        <5>1. i - Len(s) \in 1 .. Len(d) /\ Len(s) + (i - Len(s)) = i
          BY <1>1, <2>1, <4>2
        <5>2. (s \o d)[i] = d[i - Len(s)]
          BY <2>1, <4>2
        <5> QED
          BY <2>1, <5>1, <5>2, Zenon
      <4> QED
        BY <4>1, <4>2, Zenon
    <3> QED
      BY <3>1, <3>2, SeqEqual
  <2> QED
    BY <2>1, <2>2, <2>3, Zenon DEF d
<1> QED
  BY <1>1, <1>4, <1>5, Zenon DEF Overlaps

(* No frames are no bytes.                                                 *)
LEMMA WireEmpty == \A g : Wire(g, <<>>) = <<>>
<1>1. ASSUME NEW g PROVE Image(g, <<>>) = <<>>
  BY DEF Image
<1> QED
  BY <1>1, JoinedEmpty, Zenon DEF Wire

(* The frames that can be sent, and their bytes.                           *)
Frames == {f \in Samples : Sendable(f)}
Wires == [f \in Frames |-> EncodeFrame(f)]

(* The bytes on the stream are those of the frames that were sent and not  *)
(* read, but for the m at the end that never came.                         *)
Cut(s, k, bytes, m) ==
    \E t \in Seq(Byte) : Len(t) = m /\ bytes \o t = Wire(Wires, Left(s, k))

(* Every frame that can be sent has bytes.                                 *)
LEMMA WiresAre ==
    /\ Wires \in [Frames -> Seq(Byte)]
    /\ \A f \in Frames : /\ GoFrame(f) /\ Sendable(f) /\ Wires[f] = EncodeFrame(f)
                         /\ EncodeFrame(f) \in Seq(Byte) /\ Len(EncodeFrame(f)) \in Nat \ {0}
<1>1. ASSUME NEW f \in Frames
      PROVE  /\ GoFrame(f) /\ Sendable(f) /\ Wires[f] = EncodeFrame(f)
             /\ EncodeFrame(f) \in Seq(Byte) /\ Len(EncodeFrame(f)) \in Nat \ {0}
  <2>1. GoFrame(f) /\ Sendable(f)
    BY SamplesAssumption, Zenon DEF Frames
  <2>2. Wires[f] = EncodeFrame(f)
    BY Zenon DEF Wires
  <2>3. EncodeFrame(f) \in Seq(Byte) /\ Len(EncodeFrame(f)) \in Nat \ {0}
    BY <2>1, FrameBytes, Zenon
  <2> QED
    BY <2>1, <2>2, <2>3, ZenonT(60)
<1>2. \A f \in Frames : EncodeFrame(f) \in Seq(Byte)
  BY <1>1, Zenon
<1>3. Wires \in [Frames -> Seq(Byte)]
  BY <1>2, Zenon DEF Wires
<1> QED
  BY <1>1, <1>3, Zenon

(* A frame is written behind those not yet read.                           *)
LEMMA CutWrite ==
    ASSUME NEW s \in Seq(Frames), NEW k \in 0 .. Len(s), NEW bytes \in Seq(Byte),
           NEW f \in Frames, Cut(s, k, bytes, 0)
    PROVE  Cut(Append(s, f), k, bytes \o EncodeFrame(f), 0)
<1> DEFINE es == Left(s, k)
           e == EncodeFrame(f)
<1>1. PICK t \in Seq(Byte) : Len(t) = 0 /\ bytes \o t = Wire(Wires, es)
  BY Zenon DEF Cut
<1>2. bytes \o t = bytes
  BY <1>1
<1>3. es \in Seq(Frames) /\ Left(Append(s, f), k) = Append(es, f)
  BY LeftIs, ZenonT(60)
<1>4. e \in Seq(Byte) /\ Wires[f] = e
  BY WiresAre, Zenon
<1>5. Wire(Wires, Append(es, f)) = Wire(Wires, es) \o Wires[f]
  <2>1. WireGrows(Wires, f, es)
    BY <1>3, WiresAre, WireCons, ZenonT(60)
  <2> QED
    BY <2>1, Zenon DEF WireGrows
<1>6. (bytes \o e) \o <<>> = bytes \o e /\ <<>> \in Seq(Byte) /\ Len(<<>>) = 0
  <2> HIDE DEF e
  <2> QED
    BY <1>4
<1>7. (bytes \o e) \o <<>> = Wire(Wires, Left(Append(s, f), k))
  BY <1>1, <1>2, <1>3, <1>4, <1>5, <1>6, Zenon
<1> QED
  BY <1>6, <1>7, Zenon DEF Cut

(* The end of the stream is lost.                                          *)
LEMMA CutDie ==
    ASSUME NEW s \in Seq(Frames), NEW k \in 0 .. Len(s), NEW bytes \in Seq(Byte),
           NEW m \in 0 .. Len(bytes), Cut(s, k, bytes, 0)
    PROVE  /\ SubSeq(bytes, 1, Len(bytes) - m) \in Seq(Byte)
           /\ Cut(s, k, SubSeq(bytes, 1, Len(bytes) - m), m)
<1> DEFINE a == SubSeq(bytes, 1, Len(bytes) - m)
           b == SubSeq(bytes, Len(bytes) - m + 1, Len(bytes))
<1>1. PICK t \in Seq(Byte) : Len(t) = 0 /\ bytes \o t = Wire(Wires, Left(s, k))
  BY Zenon DEF Cut
<1>2. bytes \o t = bytes
  BY <1>1
<1>3. Len(bytes) \in Nat /\ Len(bytes) - m \in 0 .. Len(bytes) /\ Len(bytes) - (Len(bytes) - m) = m
  OBVIOUS
<1>4. a \in Seq(Byte) /\ b \in Seq(Byte) /\ Len(b) = m /\ a \o b = bytes
  <2>1. Halves(bytes, Len(bytes) - m)
    BY <1>3, TakeAndDrop, Zenon
  <2> QED
    BY <1>3, <2>1, Zenon DEF Halves, Drop
<1> QED
  BY <1>1, <1>2, <1>4, ZenonT(60) DEF Cut

(* What ReadLimit can return, and what it leaves behind.                   *)
Frame(f) == [outcome |-> "frame", n |-> Len(EncodeFrame(f)), frame |-> CanonicalFrame(f)]

AllRead(s, k, m, r) == k = Len(s) /\ m = 0 /\ r = Outcome("eof")
OneRead(s, k, bytes, m, r) ==
    /\ k < Len(s) /\ r = Frame(s[k + 1])
    /\ Drop(bytes, Len(EncodeFrame(s[k + 1]))) \in Seq(Byte)
    /\ Cut(s, k + 1, Drop(bytes, Len(EncodeFrame(s[k + 1]))), m)
Refused(s, k, r) ==
    /\ k < Len(s)
    /\ \/ TooBig(s[k + 1]) /\ r = Outcome("toobig")
       \/ Mistyped(s[k + 1]) /\ r = Outcome("malformed")
Interrupted(s, k, m, r) ==
    /\ k = Len(s) - 1 /\ m > 0
    /\ \/ m = Len(EncodeFrame(s[Len(s)])) /\ r = Outcome("eof")
       \/ m # Len(EncodeFrame(s[Len(s)])) /\ r = Outcome("more")

(* ReadLimit returns the next frame, refuses it for what it is, or finds   *)
(* that the stream has ended.                                              *)
LEMMA CutRead ==
    ASSUME NEW s \in Seq(Frames), NEW k \in 0 .. Len(s), NEW bytes \in Seq(Byte), NEW m \in Nat,
           s # <<>> => m <= Len(EncodeFrame(s[Len(s)])),
           Cut(s, k, bytes, m)
    PROVE  LET r == ReadLimit(bytes, Limit, AnyType) IN
           \/ AllRead(s, k, m, r) \/ OneRead(s, k, bytes, m, r)
           \/ Refused(s, k, r) \/ Interrupted(s, k, m, r)
<1> DEFINE r == ReadLimit(bytes, Limit, AnyType)
<1> SUFFICES \/ AllRead(s, k, m, r) \/ OneRead(s, k, bytes, m, r)
             \/ Refused(s, k, r) \/ Interrupted(s, k, m, r)
  BY Zenon
<1> HIDE DEF r
<1>1. PICK t \in Seq(Byte) : Len(t) = m /\ bytes \o t = Wire(Wires, Left(s, k))
  BY Zenon DEF Cut
<1>2. Len(s) \in Nat /\ k \in Nat /\ (k < Len(s) \/ k = Len(s))
  OBVIOUS
<1>3. CASE k = Len(s)
  <2>1. Left(s, k) = <<>>
    BY <1>3, LeftIs, Zenon
  <2>2. Wire(Wires, <<>>) = <<>>
    BY WireEmpty, Zenon
  <2>3. bytes \o t = <<>>
    BY <1>1, <2>1, <2>2, ZenonT(60)
  <2>4. bytes = <<>> /\ m = 0
    BY <1>1, <2>3
  <2>5. Len(bytes) < 5
    BY <2>4
  <2>6. r = Outcome("eof")
    BY <2>4, <2>5, ZenonT(60) DEF ReadLimit, HeaderMissing, r
  <2> QED
    BY <1>3, <2>4, <2>6, Zenon DEF AllRead
<1>4. CASE k < Len(s)
  <2> DEFINE f == s[k + 1]
             es == Left(s, k + 1)
             a == EncodeFrame(f)
             b == Wire(Wires, es)
  <2>1. f \in Frames /\ k + 1 \in 0 .. Len(s) /\ Left(s, k) = <<f>> \o es
    BY <1>4, LeftSplits, Zenon
  <2>2. es \in Seq(Frames)
    BY <2>1, LeftIs, Zenon
  <2>3. GoFrame(f) /\ Sendable(f) /\ Wires[f] = a /\ a \in Seq(Byte) /\ Len(a) \in Nat \ {0}
    BY <2>1, WiresAre, Zenon
  <2>4. b \in Seq(Byte) /\ Wire(Wires, <<f>> \o es) = Wires[f] \o b
    <3>1. WireGrows(Wires, f, es)
      BY <2>1, <2>2, WiresAre, WireCons, ZenonT(60)
    <3> QED
      BY <3>1, Zenon DEF WireGrows
  <2>5. bytes \o t = a \o b
    BY <1>1, <2>1, <2>3, <2>4, ZenonT(60)
  <2>6. Overlaps(bytes, t, a, b)
    BY <2>3, <2>4, <2>5, Overlap, ZenonT(60)
  <2>7. CASE ~(Len(bytes) < Len(a))
    <3> DEFINE u == Drop(bytes, Len(a))
    <3>1. u \in Seq(Byte) /\ bytes = a \o u /\ u \o t = b
      BY <2>6, <2>7, Zenon DEF Overlaps
    <3>2. ReadLimit(a \o u, Limit, AnyType) =
             IF Over(f, Limit) THEN Outcome("toobig")
             ELSE IF Mistyped(f) THEN Outcome("malformed") ELSE Frame(f)
      <4> HIDE DEF u
      <4> QED
        BY <2>3, <3>1, ReadWhole, Zenon DEF Frame
    <3>3. Cut(s, k + 1, u, m)
      <4> HIDE DEF u
      <4> QED
        BY <1>1, <3>1, ZenonT(60) DEF Cut
    <3>4. r = IF Over(f, Limit) THEN Outcome("toobig")
              ELSE IF Mistyped(f) THEN Outcome("malformed") ELSE Frame(f)
      BY <3>1, <3>2, ZenonT(60) DEF r
    <3>5. CASE Over(f, Limit)
      BY <1>4, <3>4, <3>5, ZenonT(60) DEF Refused, Over, TooBig
    <3>6. CASE ~Over(f, Limit) /\ Mistyped(f)
      BY <1>4, <3>4, <3>6, ZenonT(60) DEF Refused
    <3>7. CASE ~Over(f, Limit) /\ ~Mistyped(f)
      <4>1. r = Frame(f)
        BY <3>4, <3>7, ZenonT(60)
      <4> QED
        BY <1>4, <3>1, <3>3, <4>1, ZenonT(60) DEF OneRead
    <3> QED
      BY <3>5, <3>6, <3>7, Zenon
  <2>8. CASE Len(bytes) < Len(a)
    <3> DEFINE d == Drop(a, Len(bytes))
    <3>1. d \in Seq(Byte) /\ d # <<>> /\ bytes \o d = a
      BY <2>6, <2>8, ZenonT(60) DEF Overlaps
    <3>2. /\ Len(bytes) \in Nat /\ Len(b) \in Nat /\ Len(a) \in Nat
          /\ Len(bytes) + m = Len(a) + Len(b)
      BY <1>1, <2>6, ZenonT(60) DEF Overlaps
    <3>3. \/ bytes = <<>> /\ r = Outcome("eof")
          \/ bytes # <<>> /\ r = Outcome("more")
          \/ Over(f, Limit) /\ r = Outcome("toobig")
      <4> HIDE DEF d
      <4> QED
        BY <2>3, <3>1, ReadPart, ZenonT(60) DEF r
    <3>4. k = Len(s) - 1
      <4> SUFFICES ASSUME k # Len(s) - 1 PROVE FALSE
        BY Zenon
      <4>1. k + 1 < Len(s) /\ s # <<>>
        BY <1>2, <1>4
      <4>2. PICK fs \in Seq(Frames) : es = Append(fs, s[Len(s)]) /\ s[Len(s)] \in Frames
        BY <2>1, <4>1, LeftLast, Zenon
      <4> DEFINE l == s[Len(s)]
                 e == EncodeFrame(l)
                 c == Wire(Wires, fs)
      <4>3. Wires[l] = e /\ e \in Seq(Byte)
        BY <4>2, WiresAre, ZenonT(60)
      <4>4. c \in Seq(Byte) /\ b = c \o e
        <5>1. WireGrows(Wires, l, fs)
          BY <4>2, WiresAre, WireCons, ZenonT(60)
        <5>2. c \in Seq(Byte) /\ Wire(Wires, Append(fs, l)) = c \o Wires[l]
          BY <5>1, Zenon DEF WireGrows
        <5> QED
          BY <4>2, <4>3, <5>2, ZenonT(60)
      <4>5. Len(c \o e) = Len(c) + Len(e) /\ Len(c) \in Nat /\ Len(e) \in Nat
        BY <4>3, <4>4, Lengths, ZenonT(60)
      <4>6. Len(b) = Len(c) + Len(e) /\ m <= Len(e)
        BY <4>1, <4>4, <4>5, ZenonT(60)
      <4> HIDE DEF a, b, c, e
      <4> QED
        BY <2>8, <3>2, <4>5, <4>6
    <3>5. k + 1 = Len(s)
      BY <1>2, <3>4
    <3>6. f = s[Len(s)]
      BY <3>5, Zenon
    <3>7. es = <<>>
      BY <2>1, <3>5, LeftIs, ZenonT(60)
    <3>8. b = <<>>
      BY <3>7, WireEmpty, ZenonT(60)
    <3>9. Len(b) = 0
      BY <3>8
    <3>10. m > 0 /\ (bytes = <<>> <=> m = Len(a))
      <4>1. bytes = <<>> <=> Len(bytes) = 0
        OBVIOUS
      <4> HIDE DEF a, b
      <4> QED
        BY <2>8, <3>2, <3>9, <4>1
    <3>11. CASE Over(f, Limit) /\ r = Outcome("toobig")
      BY <1>4, <3>11, Zenon DEF Refused, Over, TooBig
    <3>12. CASE bytes = <<>> /\ r = Outcome("eof")
      BY <3>4, <3>6, <3>10, <3>12, ZenonT(60) DEF Interrupted
    <3>13. CASE bytes # <<>> /\ r = Outcome("more")
      BY <3>4, <3>6, <3>10, <3>13, ZenonT(60) DEF Interrupted
    <3> QED
      BY <3>3, <3>11, <3>12, <3>13, ZenonT(60)
  <2> QED
    BY <2>7, <2>8, Zenon
<1> QED
  BY <1>2, <1>3, <1>4, ZenonT(60)

(* What was read is what was sent, as far as it goes.                      *)
Matches(g, s) ==
    /\ g \in Seq({CanonicalFrame(f) : f \in Frames}) /\ Len(g) <= Len(s)
    /\ \A i \in DOMAIN g : g[i] = CanonicalFrame(s[i])

(* The bytes that never came are of the last frame.                        *)
Died(s, m) == m = -1 \/ (m \in Nat /\ s # <<>> /\ m <= Len(EncodeFrame(s[Len(s)])))
Missing(m) == IF m = -1 THEN 0 ELSE m

(* Why the reader stopped, if it did.                                      *)
Ended(l, s, k, m) ==
    /\ l \in {"none", "eof", "more", "toobig", "malformed"}
    /\ l = "toobig" => k < Len(s) /\ TooBig(s[k + 1])
    /\ l = "malformed" => k < Len(s) /\ Mistyped(s[k + 1])
    /\ l = "eof" => m \in Nat /\ m \in {0, Len(EncodeFrame(s[Len(s)]))}
    /\ l = "more" => /\ m \in Nat /\ m \notin {0, Len(EncodeFrame(s[Len(s)]))}
                     /\ k = Len(s) - 1

StreamInv ==
    /\ sent \in Seq(Frames) /\ stream \in Seq(Byte) /\ fed \in Seq(Byte)
    /\ Died(sent, lost)
    /\ Matches(got, sent)
    /\ Cut(sent, Len(got), stream, Missing(lost))
    /\ Ended(last, sent, Len(got), lost)

(* What was read stays as it was, and grows by the next frame.             *)
LEMMA MatchesIs ==
    ASSUME NEW s \in Seq(Frames), NEW g, Matches(g, s)
    PROVE  /\ Len(g) \in 0 .. Len(s) /\ Len(g) \in Nat /\ Len(s) \in Nat
           /\ \A f \in Frames : Matches(g, Append(s, f))
           /\ Len(g) < Len(s) => Matches(Append(g, CanonicalFrame(s[Len(g) + 1])), s)
<1> DEFINE C == {CanonicalFrame(f) : f \in Frames}
<1>1. g \in Seq(C) /\ Len(g) <= Len(s) /\ \A i \in DOMAIN g : g[i] = CanonicalFrame(s[i])
  BY Zenon DEF Matches
<1>2. \A f \in Frames : CanonicalFrame(f) \in C
  BY Zenon
<1> HIDE DEF C
<1>3. Len(g) \in 0 .. Len(s) /\ Len(g) \in Nat /\ Len(s) \in Nat /\ DOMAIN g = 1 .. Len(g)
  BY <1>1
<1>4. ASSUME NEW f \in Frames PROVE Matches(g, Append(s, f))
  <2>1. Len(g) <= Len(Append(s, f)) /\ \A i \in DOMAIN g : Append(s, f)[i] = s[i]
    BY <1>1, <1>3
  <2> QED
    BY <1>1, <2>1, Zenon DEF Matches, C
<1>5. ASSUME Len(g) < Len(s) PROVE Matches(Append(g, CanonicalFrame(s[Len(g) + 1])), s)
  <2> DEFINE c == CanonicalFrame(s[Len(g) + 1])
             h == Append(g, c)
  <2>1. s[Len(g) + 1] \in Frames
    BY <1>3, <1>5
  <2>2. c \in C
    BY <1>2, <2>1, Zenon
  <2>3. c = CanonicalFrame(s[Len(g) + 1])
    BY Zenon
  <2> HIDE DEF c
  <2>4. h \in Seq(C) /\ Len(h) = Len(g) + 1 /\ Len(h) <= Len(s) /\ DOMAIN h = 1 .. Len(g) + 1
    BY <1>1, <1>3, <1>5, <2>2
  <2>5. ASSUME NEW i \in DOMAIN h PROVE h[i] = CanonicalFrame(s[i])
    <3>1. CASE i = Len(g) + 1
      <4>1. h[Len(g) + 1] = c
        BY <1>1, <2>2
      <4> QED
        BY <2>3, <3>1, <4>1, ZenonT(60)
    <3>2. CASE i # Len(g) + 1
      <4>1. i \in DOMAIN g /\ h[i] = g[i]
        BY <1>1, <1>3, <2>2, <2>4, <3>2
      <4> QED
        BY <1>1, <4>1, Zenon
    <3> QED
      BY <3>1, <3>2, Zenon
  <2> QED
    BY <2>4, <2>5, Zenon DEF Matches, C, c
<1> QED
  BY <1>3, <1>4, <1>5, ZenonT(60)

(* At first nothing was sent, and nothing read.                            *)
LEMMA InitInv == Init => StreamInv
<1> SUFFICES ASSUME Init PROVE StreamInv
  BY Zenon
<1>1. /\ sent = <<>> /\ stream = <<>> /\ lost = -1
      /\ got = <<>> /\ last = "none" /\ fed = <<>>
  BY Zenon DEF Init
<1>2. sent \in Seq(Frames) /\ stream \in Seq(Byte) /\ fed \in Seq(Byte)
  BY <1>1
<1>3. Matches(got, sent)
  BY <1>1 DEF Matches
<1>4. Cut(sent, Len(got), stream, Missing(lost))
  <2>1. Len(<<>>) = 0 /\ Len(<<>>) \in 0 .. Len(<<>>) /\ <<>> \in Seq(Frames) /\ <<>> \in Seq(Byte)
    OBVIOUS
  <2>2. Left(<<>>, Len(<<>>)) = <<>>
    BY DEF Left
  <2>3. <<>> \o <<>> = <<>>
    OBVIOUS
  <2>4. <<>> \o <<>> = Wire(Wires, Left(<<>>, Len(<<>>)))
    BY <2>2, <2>3, WireEmpty, Zenon
  <2>5. Cut(<<>>, Len(<<>>), <<>>, 0)
    BY <2>1, <2>4, ZenonT(60) DEF Cut
  <2> QED
    BY <1>1, <2>5, ZenonT(60) DEF Missing
<1>5. Ended(last, sent, Len(got), lost)
  BY <1>1, Zenon DEF Ended
<1> QED
  BY <1>1, <1>2, <1>3, <1>4, <1>5, Zenon DEF StreamInv, Died

(* Encode and its Write keep the invariant.                                *)
LEMMA WriteStep ==
    ASSUME StreamInv, NEW f \in Samples, Write(f)
    PROVE  StreamInv'
<1>1. /\ sent \in Seq(Frames) /\ stream \in Seq(Byte) /\ fed \in Seq(Byte)
      /\ Matches(got, sent) /\ Cut(sent, Len(got), stream, Missing(lost))
      /\ Ended(last, sent, Len(got), lost)
  BY Zenon DEF StreamInv
<1>2. /\ Sendable(f) /\ lost = -1
      /\ sent' = Append(sent, f) /\ stream' = stream \o EncodeFrame(f)
      /\ lost' = lost /\ got' = got /\ last' = last /\ fed' = fed
  BY Zenon DEF Write
<1>3. f \in Frames
  BY <1>2, Zenon DEF Frames
<1>4. EncodeFrame(f) \in Seq(Byte)
  BY <1>3, WiresAre, ZenonT(60)
<1>5. /\ Len(got) \in 0 .. Len(sent) /\ Len(got) \in Nat /\ Len(sent) \in Nat
      /\ Matches(got, Append(sent, f))
  BY <1>1, <1>3, MatchesIs, ZenonT(60)
<1>6. sent' \in Seq(Frames)
  BY <1>1, <1>2, <1>3
<1>7. stream' \in Seq(Byte)
  BY <1>1, <1>2, <1>4, Assoc, Zenon
<1>8. Cut(sent', Len(got'), stream', Missing(lost'))
  <2>1. Cut(sent, Len(got), stream, 0)
    BY <1>1, <1>2, ZenonT(60) DEF Missing
  <2>2. Cut(Append(sent, f), Len(got), stream \o EncodeFrame(f), 0)
    BY <1>1, <1>3, <1>5, <2>1, CutWrite, ZenonT(60)
  <2> QED
    BY <1>2, <2>2, ZenonT(60) DEF Missing
<1>9. Ended(last', sent', Len(got'), lost')
  <2>1. -1 \notin Nat
    OBVIOUS
  <2>2. last # "eof" /\ last # "more"
    BY <1>1, <1>2, <2>1, Zenon DEF Ended
  <2>3. ASSUME Len(got) < Len(sent)
        PROVE  Len(got) < Len(Append(sent, f)) /\ Append(sent, f)[Len(got) + 1] = sent[Len(got) + 1]
    BY <1>1, <1>3, <1>5, <2>3
  <2> QED
    BY <1>1, <1>2, <2>2, <2>3, ZenonT(60) DEF Ended
<1> QED
  BY <1>1, <1>2, <1>5, <1>6, <1>7, <1>8, <1>9, ZenonT(60) DEF StreamInv, Died

(* The death of the writer keeps the invariant.                            *)
LEMMA DieStep == ASSUME StreamInv, Die PROVE StreamInv'
<1>1. /\ sent \in Seq(Frames) /\ stream \in Seq(Byte) /\ fed \in Seq(Byte)
      /\ Matches(got, sent) /\ Cut(sent, Len(got), stream, Missing(lost))
      /\ Ended(last, sent, Len(got), lost)
  BY Zenon DEF StreamInv
<1>2. PICK k \in 0 .. Len(EncodeFrame(sent[Len(sent)])) :
         k <= Len(stream) /\ lost' = k /\ stream' = SubSeq(stream, 1, Len(stream) - k)
  BY Zenon DEF Die
<1>3. lost = -1 /\ sent # <<>> /\ sent' = sent /\ got' = got /\ last' = last /\ fed' = fed
  BY Zenon DEF Die
<1>4. sent[Len(sent)] \in Frames
  BY <1>1, <1>3
<1>5. Len(EncodeFrame(sent[Len(sent)])) \in Nat
  BY <1>4, WiresAre, Zenon
<1>6. k \in Nat /\ k <= Len(EncodeFrame(sent[Len(sent)])) /\ k \in 0 .. Len(stream) /\ k # -1
  BY <1>1, <1>2, <1>5
<1>7. Len(got) \in 0 .. Len(sent)
  BY <1>1, MatchesIs, Zenon
<1>8. stream' \in Seq(Byte) /\ Cut(sent', Len(got'), stream', Missing(lost'))
  <2>1. Cut(sent, Len(got), stream, 0)
    BY <1>1, <1>3, ZenonT(60) DEF Missing
  <2>2. /\ SubSeq(stream, 1, Len(stream) - k) \in Seq(Byte)
        /\ Cut(sent, Len(got), SubSeq(stream, 1, Len(stream) - k), k)
    BY <1>1, <1>6, <1>7, <2>1, CutDie, ZenonT(60)
  <2> QED
    BY <1>2, <1>3, <1>6, <2>2, ZenonT(60) DEF Missing
<1>9. Ended(last', sent', Len(got'), lost')
  <2>1. -1 \notin Nat
    OBVIOUS
  <2>2. last # "eof" /\ last # "more"
    BY <1>1, <1>3, <2>1, Zenon DEF Ended
  <2> QED
    BY <1>1, <1>3, <2>2, ZenonT(60) DEF Ended
<1> QED
  BY <1>1, <1>2, <1>3, <1>6, <1>8, <1>9, Zenon DEF StreamInv, Died

(* The fields of what ReadLimit returns.                                   *)
LEMMA OutcomesAre ==
    /\ \A o : Outcome(o).outcome = o
    /\ \A f : /\ Frame(f).outcome = "frame" /\ Frame(f).frame = CanonicalFrame(f)
              /\ Frame(f).n = Len(EncodeFrame(f))
  BY DEF Outcome, Frame

(* ReadLimit keeps the invariant.                                          *)
LEMMA ReadStep == ASSUME StreamInv, Read PROVE StreamInv'
<1> DEFINE r == ReadLimit(stream, Limit, AnyType)
           k == Len(got)
           m == Missing(lost)
<1>1. /\ sent \in Seq(Frames) /\ stream \in Seq(Byte) /\ fed \in Seq(Byte)
      /\ Died(sent, lost) /\ Matches(got, sent) /\ Cut(sent, k, stream, m)
  BY Zenon DEF StreamInv
<1>2. /\ \/ /\ r.outcome = "frame" /\ got' = Append(got, r.frame)
            /\ stream' = Drop(stream, r.n) /\ last' = last
         \/ /\ r.outcome \in {"eof", "more"} /\ lost >= 0 /\ last' = r.outcome
            /\ got' = got /\ stream' = stream
         \/ /\ r.outcome \in {"malformed", "toobig"} /\ last' = r.outcome
            /\ got' = got /\ stream' = stream
      /\ last = "none" /\ sent' = sent /\ lost' = lost /\ fed' = fed
  BY Zenon DEF Read
<1>3. /\ k \in 0 .. Len(sent) /\ k \in Nat /\ Len(sent) \in Nat
      /\ (k < Len(sent) => Matches(Append(got, CanonicalFrame(sent[k + 1])), sent))
  BY <1>1, MatchesIs, ZenonT(60)
<1>4. m \in Nat /\ (sent # <<>> => m <= Len(EncodeFrame(sent[Len(sent)])))
  <2>1. CASE lost = -1
    <3>1. m = 0
      BY <2>1, Zenon DEF Missing
    <3>2. ASSUME sent # <<>> PROVE Len(EncodeFrame(sent[Len(sent)])) \in Nat
      <4>1. sent[Len(sent)] \in Frames
        BY <1>1, <3>2
      <4> QED
        BY <4>1, WiresAre, ZenonT(60)
    <3>3. \A x \in Nat : 0 <= x
      OBVIOUS
    <3>4. 0 \in Nat
      OBVIOUS
    <3> QED
      BY <3>1, <3>2, <3>3, <3>4, ZenonT(60)
  <2>2. CASE lost # -1
    BY <1>1, <2>2, ZenonT(60) DEF Died, Missing
  <2> QED
    BY <2>1, <2>2, ZenonT(60)
<1>5. lost >= 0 => lost = m /\ lost \in Nat
  <2>1. lost >= 0 => lost # -1
    OBVIOUS
  <2> QED
    BY <1>1, <2>1, ZenonT(60) DEF Died, Missing
<1>6. \/ AllRead(sent, k, m, r) \/ OneRead(sent, k, stream, m, r)
      \/ Refused(sent, k, r) \/ Interrupted(sent, k, m, r)
  <2> HIDE DEF k, m
  <2> QED
    BY <1>1, <1>3, <1>4, CutRead, Zenon
<1> HIDE DEF r, m
<1>7. CASE AllRead(sent, k, m, r)
  <2>1. k = Len(sent) /\ m = 0 /\ r = Outcome("eof") /\ r.outcome = "eof"
    BY <1>7, OutcomesAre, ZenonT(60) DEF AllRead
  <2>2. last' = "eof" /\ lost >= 0 /\ got' = got /\ stream' = stream
    BY <1>2, <2>1, ZenonT(60)
  <2>3. Ended(last', sent', Len(got'), lost')
    BY <1>2, <1>5, <2>1, <2>2, ZenonT(60) DEF Ended
  <2> QED
    BY <1>1, <1>2, <2>2, <2>3, ZenonT(60) DEF StreamInv, m
<1>8. CASE OneRead(sent, k, stream, m, r)
  <2> DEFINE f == sent[k + 1]
             u == Drop(stream, Len(EncodeFrame(f)))
  <2>1. /\ k < Len(sent) /\ r = Frame(f) /\ u \in Seq(Byte) /\ Cut(sent, k + 1, u, m)
    BY <1>8, Zenon DEF OneRead
  <2>2. r.outcome = "frame" /\ r.frame = CanonicalFrame(f) /\ r.n = Len(EncodeFrame(f))
    BY <2>1, OutcomesAre, ZenonT(60)
  <2>3. got' = Append(got, CanonicalFrame(f)) /\ stream' = u /\ last' = "none"
    BY <1>2, <2>2, ZenonT(60)
  <2>4. Len(got') = k + 1
    <3>1. got \in Seq({CanonicalFrame(g) : g \in Frames})
      BY <1>1, Zenon DEF Matches
    <3>2. \A S, c : \A g \in Seq(S) : Len(Append(g, c)) = Len(g) + 1
      OBVIOUS
    <3> QED
      BY <2>3, <3>1, <3>2, ZenonT(60)
  <2>5. Matches(got', sent')
    BY <1>2, <1>3, <2>1, <2>3, Zenon
  <2>6. Ended(last', sent', Len(got'), lost')
    BY <2>3, Zenon DEF Ended
  <2> QED
    BY <1>1, <1>2, <2>1, <2>3, <2>4, <2>5, <2>6, ZenonT(60) DEF StreamInv, m
<1>9. CASE Refused(sent, k, r)
  <2>1. /\ k < Len(sent)
        /\ \/ TooBig(sent[k + 1]) /\ r.outcome = "toobig"
           \/ Mistyped(sent[k + 1]) /\ r.outcome = "malformed"
    BY <1>9, OutcomesAre, ZenonT(60) DEF Refused
  <2>2. last' = r.outcome /\ got' = got /\ stream' = stream
    BY <1>2, <2>1, ZenonT(60)
  <2>3. Ended(last', sent', Len(got'), lost')
    BY <1>2, <2>1, <2>2, ZenonT(60) DEF Ended
  <2> QED
    BY <1>1, <1>2, <2>2, <2>3, ZenonT(60) DEF StreamInv, m
<1>10. CASE Interrupted(sent, k, m, r)
  <2>1. /\ k = Len(sent) - 1 /\ m > 0
        /\ \/ m = Len(EncodeFrame(sent[Len(sent)])) /\ r.outcome = "eof"
           \/ m # Len(EncodeFrame(sent[Len(sent)])) /\ r.outcome = "more"
    BY <1>10, OutcomesAre, ZenonT(60) DEF Interrupted
  <2>2. last' = r.outcome /\ lost >= 0 /\ got' = got /\ stream' = stream
    BY <1>2, <2>1, ZenonT(60)
  <2>3. m # 0
    BY <1>4, <2>1
  <2>4. Ended(last', sent', Len(got'), lost')
    BY <1>2, <1>5, <2>1, <2>2, <2>3, Zenon DEF Ended
  <2> QED
    BY <1>1, <1>2, <2>2, <2>4, ZenonT(60) DEF StreamInv, m
<1> QED
  BY <1>6, <1>7, <1>8, <1>9, <1>10, ZenonT(60)

(* Every step keeps the invariant.                                         *)
LEMMA NextInv == StreamInv /\ [Next]_vars => StreamInv'
<1> SUFFICES ASSUME StreamInv, [Next]_vars PROVE StreamInv'
  BY Zenon
<1>1. ASSUME NEW b \in FedBytes, Feed(b) PROVE StreamInv'
  <2>1. b \in Byte /\ fed \in Seq(Byte)
    BY FedAssumption, Zenon DEF StreamInv
  <2>2. Append(fed, b) \in Seq(Byte)
    BY <2>1
  <2>3. /\ fed' = Append(fed, b) /\ sent' = sent /\ stream' = stream /\ lost' = lost
        /\ got' = got /\ last' = last
    BY <1>1, Zenon DEF Feed
  <2> QED
    BY <2>2, <2>3, ZenonT(60) DEF StreamInv
<1>2. CASE UNCHANGED vars
  BY <1>2, Zenon DEF StreamInv, vars
<1> QED
  BY <1>1, <1>2, WriteStep, DieStep, ReadStep, ZenonT(60) DEF Next

(* The invariant holds.                                                    *)
LEMMA StreamInvariance == Spec => []StreamInv
  BY InitInv, NextInv, PTL DEF Spec

(* Every frame Encode puts on the stream is read as it was, in order.      *)
THEOREM FramesReadBack == Spec => []ReadsWhatWasSent
<1>1. StreamInv => ReadsWhatWasSent
  <2> SUFFICES ASSUME StreamInv PROVE ReadsWhatWasSent
    BY ZenonT(60)
  <2> QED
    BY Zenon DEF StreamInv, Matches, Ended, ReadsWhatWasSent
<1> QED
  BY <1>1, StreamInvariance, PTL

(* A frame cut short is taken neither for a frame nor for the end.         *)
THEOREM CutNeverHidden == Spec => []CutIsNoticed
<1>1. StreamInv => CutIsNoticed
  <2> SUFFICES ASSUME StreamInv PROVE CutIsNoticed
    BY Zenon
  <2>1. /\ sent \in Seq(Frames) /\ stream \in Seq(Byte) /\ Matches(got, sent)
        /\ Cut(sent, Len(got), stream, Missing(lost)) /\ Ended(last, sent, Len(got), lost)
    BY Zenon DEF StreamInv
  <2>2. Len(got) \in 0 .. Len(sent) /\ Len(got) \in Nat /\ Len(sent) \in Nat
    BY <2>1, MatchesIs, ZenonT(60)
  <2>3. ASSUME lost > 0, Len(got) = Len(sent) PROVE FALSE
    <3>1. lost # -1 /\ lost # 0
      BY <2>3
    <3>2. PICK t \in Seq(Byte) : Len(t) = lost /\ stream \o t = Wire(Wires, Left(sent, Len(got)))
      BY <2>1, <3>1, Zenon DEF Cut, Missing
    <3>3. Left(sent, Len(got)) = <<>>
      BY <2>1, <2>2, <2>3, LeftIs, ZenonT(60)
    <3>4. stream \o t = <<>>
      BY <3>2, <3>3, WireEmpty, ZenonT(60)
    <3>5. Len(t) = 0
      BY <2>1, <3>4
    <3> QED
      BY <3>1, <3>2, <3>5, ZenonT(60)
  <2>4. lost > 0 => Len(got) < Len(sent)
    <3>1. Len(got) = Len(sent) \/ Len(got) < Len(sent)
      BY <2>2
    <3> QED
      BY <2>3, <3>1, Zenon
  <2> QED
    BY <2>1, <2>4, ZenonT(60) DEF Ended, CutIsNoticed
<1> QED
  BY <1>1, StreamInvariance, PTL

(* A number has one encoding, of the length the specification's table says. *)
THEOREM VarintsAreCanonical == Spec => []VarintCanonical
<1>1. ASSUME NEW n \in 0 .. Word - 1
      PROVE  InTable(n, Len(PutUvarint(n))) /\ Len(PutUvarint(n)) <= MaxLen
  <2> DEFINE len == Len(PutUvarint(n))
  <2>1. n \in Nat /\ len \in Nat
    <3>1. n \in Nat
      BY WordAssumption
    <3> QED
      BY <3>1, PutBytes, Zenon
  <2>2. 1 \in Nat \ {0} /\ 2 \in Nat \ {0} /\ 3 \in Nat \ {0} /\ 4 \in Nat \ {0}
    OBVIOUS
  <2>3. /\ len <= 1 <=> n < Table(1)
        /\ len <= 2 <=> n < Table(2)
        /\ len <= 3 <=> n < Table(3)
        /\ len <= 4 <=> n < Table(4)
    BY <2>1, <2>2, PutLength, ZenonT(60)
  <2> HIDE DEF len
  <2>4. InTable(n, len)
    BY <2>1, <2>3, TableIs, TableRows, ZenonT(60)
  <2> QED
    BY <2>4, ScratchSuffices, Zenon DEF len
<1>2. StreamInv => VarintCanonical
  <2> SUFFICES ASSUME StreamInv PROVE VarintCanonical
    BY Zenon
  <2>1. sent \in Seq(Frames) /\ fed \in Seq(Byte)
    BY Zenon DEF StreamInv
  <2>2. ASSUME NEW i \in DOMAIN sent
        PROVE  LET len == Len(PutUvarint(sent[i].stream)) IN
               InTable(sent[i].stream, len) /\ len <= MaxLen
    <3>1. sent[i] \in Frames
      BY <2>1
    <3>2. sent[i].stream \in 0 .. Word - 1
      BY <3>1, WiresAre, Fields, Zenon
    <3> QED
      BY <1>1, <3>2, ZenonT(60)
  <2> DEFINE u == Uvarint(fed)
  <2>3. ASSUME ~Failed(u), u.n < MaxLen
        PROVE  PutUvarint(u.val) = SubSeq(fed, 1, u.n) /\ InTable(u.val, u.n)
    <3>1. u # Error
      BY <2>3, FailedIs, Zenon
    <3>2. PICK v, n : u = Ok(v, n) /\ Reads(fed, v, n)
      BY <2>1, <3>1, UvarintResult, ZenonT(60)
    <3>3. v \in 0 .. Word - 1 /\ n \in 1 .. Len(fed)
      BY <3>2, Zenon DEF Reads
    <3>4. u.val = v /\ u.n = n
      BY <3>2 DEF Ok
    <3>5. Len(PutUvarint(v)) = n /\ \E rest \in Seq(Byte) : fed = PutUvarint(v) \o rest
      BY <2>3, <3>2, <3>4, Zenon DEF Reads
    <3>6. PICK rest \in Seq(Byte) : fed = PutUvarint(v) \o rest
      BY <3>5, Zenon
    <3>7. PutUvarint(v) \in Seq(Byte)
      <4>1. v \in Nat
        BY <3>3, WordAssumption
      <4> QED
        BY <4>1, PutBytes, ZenonT(60)
    <3>8. \A a, b \in Seq(Byte) : SubSeq(a \o b, 1, Len(a)) = a
      OBVIOUS
    <3>9. SubSeq(PutUvarint(v) \o rest, 1, Len(PutUvarint(v))) = PutUvarint(v)
      BY <3>7, <3>8, ZenonT(60)
    <3>10. InTable(v, Len(PutUvarint(v)))
      BY <1>1, <3>3, ZenonT(60)
    <3> HIDE DEF u
    <3> QED
      BY <3>4, <3>5, <3>6, <3>9, <3>10, ZenonT(60)
  <2> QED
    BY <2>2, <2>3, ZenonT(60) DEF VarintCanonical
<1> QED
  BY <1>2, StreamInvariance, PTL

(* Whatever the decoders accept can be written down again.                 *)
THEOREM AcceptedMeansSomething == Spec => []AcceptedIsEncodable
<1>1. StreamInv => AcceptedIsEncodable
  <2> SUFFICES ASSUME StreamInv, NEW type \in {1, AgentAck}, ~Failed(Entries(type)[fed])
               PROVE  Entries(type)[Payload(type, Entries(type)[fed].val)].val =
                         CanonicalEntries(type, Entries(type)[fed].val)
    BY Zenon DEF AcceptedIsEncodable
  <2>1. fed \in Seq(Byte)
    BY Zenon DEF StreamInv
  <2> QED
    BY <2>1, ReadAgain, ZenonT(60)
<1> QED
  BY <1>1, StreamInvariance, PTL

=============================================================================
