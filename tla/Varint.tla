------------------------------- MODULE Varint -------------------------------
(***************************************************************************)
(* Package varint: integers of variable length.  A byte is a number below  *)
(* 256 and a buffer a sequence of bytes.  A uint64 has Word values here.   *)
(***************************************************************************)
EXTENDS Integers, Sequences

CONSTANTS
    Word,    \* 2^64 in Go
    MaxLen   \* the constant of that name, 10 in Go

Byte == 0 .. 255
Drop(buf, n) == SubSeq(buf, n + 1, Len(buf))

(* What a decoder returns: a value and the bytes it took, or an error.     *)
Ok(val, n) == [val |-> val, n |-> n]
Error == [val |-> <<>>, n |-> -1]
Failed(r) == r.n < 0

(* Use what was decoded, unless that failed: `if err != nil { return }'.   *)
AndThen(r, Use(_)) == IF Failed(r) THEN Error ELSE Use(r)

-----------------------------------------------------------------------------
(* The first byte carries 4 bits of the value, every byte after it 7: what *)
(* k bytes after the first reach, and the least number that takes more     *)
(* than k bytes in all.                                                    *)
Reach[k \in Nat] == IF k = 0 THEN 0 ELSE 128 + 128 * Reach[k - 1]
Table(k) == 240 + 16 * Reach[k - 1]

ASSUME WordAssumption == Word \in Nat /\ Word > 255

ASSUME MaxLenAssumption ==
    MaxLen \in Nat /\ MaxLen > 1 /\ Table(MaxLen - 1) < Word /\ Word <= Table(MaxLen)

Continuation[n \in Nat] ==
    IF n < 128 THEN <<n>>
               ELSE <<128 + (n % 128)>> \o Continuation[(n - 128) \div 128]

(* Mutant: the offset of the second range is forgotten.                    *)
PutWithoutOffset(n) ==
    IF n < 240 THEN <<n>> ELSE <<240 + (n % 16)>> \o Continuation[n \div 16]

PutUvarint(n) ==
    IF n < 240 THEN <<n>>
               ELSE <<240 + (n % 16)>> \o Continuation[(n - 240) \div 16]

(* Uvarint's loop adds buf[p] << r to n, r growing by 7: here the sum from *)
(* its far end.  It wraps round, and nothing bounds the number of bytes.   *)
Plus(byte, r, more) == AndThen(more, LAMBDA m : Ok((byte + r * m.val) % Word, 1 + m.n))

Continued[buf \in Seq(Byte)] ==
    IF buf = <<>> THEN Error
    ELSE IF buf[1] < 128 THEN Ok(buf[1], 1)
    ELSE Plus(buf[1], 128, Continued[Tail(buf)])

Uvarint(buf) ==
    IF buf = <<>> THEN Error
    ELSE IF buf[1] < 240 THEN Ok(buf[1], 1)
    ELSE Plus(buf[1], 16, Continued[Tail(buf)])

=============================================================================
