----------------------------- MODULE TypedData ------------------------------
(***************************************************************************)
(* Package typeddata: values that carry their type.  Go's 64-bit integers  *)
(* have Word values here, and its 32-bit integers Half.                    *)
(***************************************************************************)
EXTENDS Varint

CONSTANT Half   \* 2^32 in Go

ASSUME HalfAssumption ==
    /\ Half \in Nat /\ Half > 0 /\ Half < Word
    /\ Half % 2 = 0 /\ Word % Half = 0

(* A length and that many bytes: the form of strings, binaries and names.  *)
PutString(s) == PutUvarint(Len(s)) \o s

GetString(buf) ==
    AndThen(Uvarint(buf), LAMBDA u :
        IF Len(buf) - u.n < u.val THEN Error
        ELSE Ok(SubSeq(buf, u.n + 1, u.n + u.val), u.n + u.val))

(* A Go value is its type and, whatever the type, a sequence of numbers.   *)
Value(type, v) == [type |-> type, v |-> v]
Nil == Value("nil", <<>>)

Integer == {"int32", "uint32", "int", "int64", "uint", "uint64"}
Signed == {"int32", "int", "int64"}
Size(t) == IF t \in {"int32", "uint32"} THEN Half ELSE Word

(* The type numbers, from 0.                                               *)
Types == <<"nil", "bool", "int32", "uint32", "int64", "uint64", "ip", "ip",
           "string", "bytes">>
WireType(t) ==
    CASE t = "int32" -> 2 [] t = "uint32" -> 3
      [] t \in {"int", "int64"} -> 4 [] t \in {"uint", "uint64"} -> 5
      [] t = "string" -> 8 [] t = "bytes" -> 9

(* net.IP.To4: an IPv4 address, also in its 16-byte form, in 4 bytes.      *)
V4InV6 == <<0, 0, 0, 0, 0, 0, 0, 0, 0, 0, 255, 255>>
To4(ip) ==
    IF Len(ip) = 4 THEN ip
    ELSE IF Len(ip) = 16 /\ SubSeq(ip, 1, 12) = V4InV6 THEN SubSeq(ip, 13, 16)
    ELSE <<>>

Supported(d) ==
    \/ d.type \in Integer \cup {"nil", "bool", "string", "bytes"}
    \/ d.type = "ip" /\ Len(d.v) \in {4, 16}

EncodeIP(ip) == IF To4(ip) # <<>> THEN <<6>> \o To4(ip) ELSE <<7>> \o ip

(* Encode, of a value that is supported.  A negative integer is converted  *)
(* to an unsigned one of full width.                                       *)
Encode(d) ==
    CASE d.type = "nil" -> <<0>>
      [] d.type = "bool" -> IF d.v = <<1>> THEN <<17>> ELSE <<1>>
      [] d.type = "ip" -> EncodeIP(d.v)
      [] d.type \in {"string", "bytes"} -> <<WireType(d.type)>> \o PutString(d.v)
      [] OTHER -> <<WireType(d.type)>> \o PutUvarint(d.v[1] % Word)

(* The conversion to int32, uint32, int64 or uint64; the mutant does not   *)
(* cut a number down to the type's width.                                  *)
NotConverted(i, t) == i
Converted(i, t) ==
    LET low == i % Size(t) IN
    IF t \in Signed /\ low >= Size(t) \div 2 THEN low - Size(t) ELSE low

(* Decode, after the byte that holds the type t and the flags.             *)
Took(t, v, n) == Ok(Value(Types[t + 1], v), n + 1)

IPLen(t) == IF t = 6 THEN 4 ELSE 16

DecodeAs(t, flags, rest) ==
    CASE t > 9 -> Error
      [] t = 0 -> Took(t, <<>>, 0)
      [] t = 1 -> Took(t, <<flags % 2>>, 0)
      [] t \in {6, 7} -> IF Len(rest) < IPLen(t) THEN Error
                         ELSE Took(t, SubSeq(rest, 1, IPLen(t)), IPLen(t))
      [] t \in {8, 9} -> AndThen(GetString(rest), LAMBDA s : Took(t, s.val, s.n))
      [] OTHER -> AndThen(Uvarint(rest), LAMBDA u :
                      Took(t, <<Converted(u.val, Types[t + 1])>>, u.n))

Decode(buf) ==
    IF buf = <<>> THEN Error ELSE DecodeAs(buf[1] % 16, buf[1] \div 16, Tail(buf))

-----------------------------------------------------------------------------
(* The strings and the values there are in Go; "other" stands for a type   *)
(* that has no encoding.                                                   *)
Strings == {s \in Seq(Byte) : Len(s) < Word}

Fits(i, t) ==
    IF t \in Signed THEN -(Size(t) \div 2) <= i /\ i < Size(t) \div 2
                    ELSE 0 <= i /\ i < Size(t)

GoTypes == Integer \cup {"nil", "bool", "ip", "string", "bytes", "other"}

Values ==
    {d \in [type : GoTypes, v : Seq(Int)] :
        /\ d.type = "nil" => d.v = <<>>
        /\ d.type = "bool" => d.v \in {<<0>>, <<1>>}
        /\ d.type \in Integer => Len(d.v) = 1 /\ Fits(d.v[1], d.type)
        /\ d.type \in {"string", "bytes", "ip"} => d.v \in Strings}

(* What a value is once it has been sent and read: Go's int and uint come  *)
(* back as 64-bit integers, and an IPv4 address in 4 bytes.                *)
Canonical(d) ==
    CASE d.type = "int" -> Value("int64", d.v)
      [] d.type = "uint" -> Value("uint64", d.v)
      [] d.type = "ip" /\ To4(d.v) # <<>> -> Value("ip", To4(d.v))
      [] OTHER -> d

=============================================================================
