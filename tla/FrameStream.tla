---------------------------- MODULE FrameStream -----------------------------
(***************************************************************************)
(* A writer that encodes frames onto a byte stream and may die in the      *)
(* middle of one, and a reader that decodes them; and, apart from that,    *)
(* what the decoders make of any bytes whatever, fed one by one.           *)
(***************************************************************************)
EXTENDS FrameCodec

CONSTANTS
    Samples,    \* the frames there are to send
    Limit,      \* the reader's limit
    MaxFrames,  \* bound: frames sent
    FedBytes,   \* the bytes fed one by one
    MaxFed      \* bound: how many of them

ASSUME SamplesAssumption == \A f \in Samples : GoFrame(f)
ASSUME FedAssumption == FedBytes \subseteq Byte /\ MaxFed \in Nat
ASSUME LimitAssumption == Limit \in Nat /\ MaxFrames \in Nat

VARIABLES
    sent,    \* the frames written
    stream,  \* the bytes written and not read
    lost,    \* how many bytes of the last frame the writer's death cost, or -1
    got,     \* what ReadLimit returned: frames
    last,    \* and in the end an error, or "none"
    fed      \* the bytes fed

vars == <<sent, stream, lost, got, last, fed>>

Init ==
    /\ sent = <<>> /\ stream = <<>> /\ lost = -1
    /\ got = <<>> /\ last = "none"
    /\ fed = <<>>

(* Encode and the single Write it ends in.  A NOTIFY with messages can     *)
(* only come from HAProxy.                                                 *)
Write(f) ==
    /\ Sendable(f)
    /\ lost = -1 /\ fed = <<>> /\ Len(sent) < MaxFrames
    /\ sent' = Append(sent, f)
    /\ stream' = stream \o EncodeFrame(f)
    /\ UNCHANGED <<lost, got, last, fed>>

(* The writer dies, and of the last frame k bytes were still to come.      *)
Die ==
    /\ lost = -1 /\ sent # <<>>
    /\ \E k \in 0 .. Len(EncodeFrame(sent[Len(sent)])) :
          /\ k <= Len(stream)
          /\ lost' = k
          /\ stream' = SubSeq(stream, 1, Len(stream) - k)
    /\ UNCHANGED <<sent, got, last, fed>>

(* ReadLimit waits while the writer lives and the frame is not all there.  *)
Read ==
    /\ last = "none"
    /\ LET r == ReadLimit(stream, Limit, AnyType) IN
       \/ /\ r.outcome = "frame"
          /\ got' = Append(got, r.frame)
          /\ stream' = Drop(stream, r.n)
          /\ UNCHANGED last
       \/ /\ r.outcome \in {"eof", "more"} /\ lost >= 0
          /\ last' = r.outcome
          /\ UNCHANGED <<got, stream>>
       \/ /\ r.outcome \in {"malformed", "toobig"}
          /\ last' = r.outcome
          /\ UNCHANGED <<got, stream>>
    /\ UNCHANGED <<sent, lost, fed>>

Feed(b) ==
    /\ sent = <<>> /\ Len(fed) < MaxFed
    /\ fed' = Append(fed, b)
    /\ UNCHANGED <<sent, stream, lost, got, last>>

Next == (\E f \in Samples : Write(f)) \/ Die \/ Read \/ (\E b \in FedBytes : Feed(b))

Spec == Init /\ [][Next]_vars

-----------------------------------------------------------------------------
TooBig(f) == Len(Body(f)) > Limit \/ Len(Body(f)) > MaxFrameSize

(* Every frame Encode puts on the stream is read as it was, in order,      *)
(* whatever its values and ids and whatever follows it; a frame is refused *)
(* only for its size or for an item of the wrong type.                     *)
ReadsWhatWasSent ==
    /\ Len(got) <= Len(sent)
    /\ \A i \in DOMAIN got : got[i] = CanonicalFrame(sent[i])
    /\ last = "toobig" => TooBig(sent[Len(got) + 1])
    /\ last = "malformed" => Mistyped(sent[Len(got) + 1])

(* A frame cut short by the writer's death is never taken for a frame, nor *)
(* for the end of the stream: io.EOF itself, which the worker compares     *)
(* with, is returned between two frames only.                              *)
CutIsNoticed ==
    LET whole == lost \in {0, Len(EncodeFrame(sent[Len(sent)]))} IN
    /\ last = "eof" => whole
    /\ last = "more" => ~whole /\ Len(got) = Len(sent) - 1
    /\ lost > 0 => Len(got) < Len(sent)

(* The table of the SPOE specification, quoted in package varint: how many *)
(* bytes a number takes.                                                   *)
InTable(n, len) ==
    /\ len <= 1 <=> n < 240
    /\ len <= 2 <=> n < 2288
    /\ len <= 3 <=> n < 264432
    /\ len <= 4 <=> n < 33818864

(* Uvarint's shift has no bound, so that long encodings wrap round; below  *)
(* MaxLen bytes nothing is lost, and a number has one encoding, as long as *)
(* the table says, which is what PutUvarint makes of it.  What PutUvarint  *)
(* makes of any number fits its scratch array.                             *)
VarintCanonical ==
    LET u == Uvarint(fed) IN
    /\ ~Failed(u) /\ u.n < MaxLen =>
          PutUvarint(u.val) = SubSeq(fed, 1, u.n) /\ InTable(u.val, u.n)
    /\ \A i \in DOMAIN sent :
          LET len == Len(PutUvarint(sent[i].stream)) IN
          InTable(sent[i].stream, len) /\ len <= MaxLen

(* Whatever bytes the decoders of items and of actions accept mean         *)
(* something that can be written down again: encoding what was decoded     *)
(* gives bytes that decode to the same.                                    *)
AcceptedIsEncodable ==
    \A type \in {1, AgentAck} :
        LET p == Entries(type)[fed] IN
        ~Failed(p) => Entries(type)[Payload(type, p.val)].val = CanonicalEntries(type, p.val)

=============================================================================
