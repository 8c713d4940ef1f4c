----------------------------- MODULE Handshake ------------------------------
(***************************************************************************)
(* The HELLO handshake and the frame ceiling it settles: ReadLimit's       *)
(* checks on a HAPROXY-HELLO, negotiate, and frameLimit as it bounds the   *)
(* frames of the session in both directions.  Module Worker keeps only the *)
(* outcome of what is modelled here.                                       *)
(***************************************************************************)
EXTENDS Integers, Sequences, FiniteSetsExt

CONSTANTS
    MaxFrameSize,   \* frame.MaxFrameSize
    minFrameSize,   \* the floor of section 3.2
    minFrameLen,    \* the shortest frame body
    Lens,           \* bound: the frame lengths and announced sizes explored
    VersionLists,   \* bound: the supported-versions lists explored
    MaxItems        \* bound: items in a HELLO

ASSUME SizesAssumption ==
    /\ {MaxFrameSize, minFrameSize, minFrameLen, MaxItems} \subseteq Nat
    /\ 0 < minFrameSize /\ minFrameSize <= MaxFrameSize
    /\ Lens \subseteq Nat
    /\ VersionLists \subseteq Seq([ok : BOOLEAN, major : Int, minor : Int])

VARIABLES
    phase,   \* "header", "items", "ready", "closed", or "cut" when the body
             \* of the HELLO was broken
    kv,      \* Frame.KV, the items of the HELLO in the order they came
    agreed,  \* worker.maxFrameSize; 0 until negotiated
    code,    \* the status code of the AGENT-DISCONNECT
    moved    \* history: the last frame taken from or put on the wire

vars == <<phase, kv, agreed, code, moved>>

Init ==
    /\ phase = "header"
    /\ kv = <<>>
    /\ agreed = 0
    /\ code = "none"
    /\ moved = [way |-> "none", len |-> 0]

-----------------------------------------------------------------------------
(* An item has a name and a value whose type the peer chose: ok says that  *)
(* it is the type the item should have, and then one field is meaningful.  *)
Item(name, ok, size, list, flag) ==
    [name |-> name, ok |-> ok, size |-> size, list |-> list, flag |-> flag]

Names == {"supported-versions", "max-frame-size", "capabilities", "healthcheck",
          "engine-id"}

Items ==
    {Item(name, FALSE, 0, <<>>, FALSE) : name \in Names}
      \cup {Item("supported-versions", TRUE, 0, list, FALSE) : list \in VersionLists}
      \cup {Item("max-frame-size", TRUE, size, <<>>, FALSE) : size \in Lens}
      \cup {Item("healthcheck", TRUE, 0, <<>>, flag) : flag \in BOOLEAN}
      \cup {Item(name, TRUE, 0, <<>>, FALSE) : name \in {"capabilities", "engine-id"}}

(* KV.Get finds the first item of a name.                                  *)
FirstOf(name) ==
    LET found == {i \in 1 .. Len(kv) : kv[i].name = name}
    IN IF found = {} THEN 0 ELSE Min(found)

Found(name) == FirstOf(name) # 0
Usable(name) == Found(name) /\ kv[FirstOf(name)].ok
Value(name) == kv[FirstOf(name)]

-----------------------------------------------------------------------------
(* parseVersion has read each entry of the list as a major and a minor     *)
(* number, or failed; entries that failed are skipped.  The mutant lets    *)
(* one of them spoil the list.                                             *)
versionMajor == 2
versionMinor == 0

Accepts(entry) ==
    /\ entry.ok
    /\ \/ entry.major > versionMajor
       \/ entry.major = versionMajor /\ entry.minor >= versionMinor

AllVersions(list) == list # <<>> /\ \A i \in 1 .. Len(list) : Accepts(list[i])
versionSupported(list) == \E i \in 1 .. Len(list) : Accepts(list[i])

(* ReadLimit refuses these three when they are present and mistyped.       *)
ReadRefuses ==
    \E name \in {"healthcheck", "max-frame-size", "engine-id"} :
        Found(name) /\ ~Usable(name)

(* The code negotiate refuses the HELLO with, checked in this order.       *)
negotiate ==
    IF ~Usable("supported-versions") THEN "NoVersion"
    ELSE IF ~versionSupported(Value("supported-versions").list) THEN "BadVersion"
    ELSE IF ~Usable("max-frame-size") THEN "NoMaxFrameSize"
    ELSE IF Value("max-frame-size").size < minFrameSize THEN "BadFrameSize"
    ELSE IF ~Usable("capabilities") THEN "NoCapabilities"
    ELSE "none"

(* The lower of the two maxima.                                            *)
LowerSize == Min({Value("max-frame-size").size, MaxFrameSize})

(* The mutant forgets what was negotiated.                                 *)
LibraryLimit == MaxFrameSize
frameLimit == IF agreed = 0 THEN MaxFrameSize ELSE agreed

-----------------------------------------------------------------------------
Refuse(c) == phase' = "closed" /\ code' = c

(* The header of a frame, as ReadLimit judges its length.                  *)
ReadHeader(len) ==
    /\ phase \in {"header", "ready"}
    /\ \/ /\ len < minFrameLen
          /\ Refuse("InvalidFrame")
          /\ UNCHANGED moved
       \/ /\ len >= minFrameLen
          /\ len > Min({frameLimit, MaxFrameSize})
          /\ Refuse("FrameTooBig")
          /\ UNCHANGED moved
       \/ /\ len >= minFrameLen
          /\ len <= Min({frameLimit, MaxFrameSize})
          /\ moved' = [way |-> "in", len |-> len]
          /\ phase' = IF phase = "header" THEN "items" ELSE phase
          /\ UNCHANGED code
    /\ UNCHANGED <<kv, agreed>>

(* KV.Unmarshal appends one item after another, or finds the body broken.  *)
Unmarshal(item) ==
    /\ phase = "items"
    /\ Len(kv) < MaxItems
    /\ kv' = Append(kv, item)
    /\ UNCHANGED <<phase, agreed, code, moved>>

Truncated ==
    /\ phase = "items"
    /\ phase' = "cut" /\ code' = "InvalidFrame"
    /\ UNCHANGED <<kv, agreed, moved>>

(* The rest of ReadLimit and dispatch's HAPROXY-HELLO case.  maxFrameSize  *)
(* is set before the AGENT-HELLO goes out, and a health check ends there.  *)
Hello ==
    /\ phase = "items"
    /\ \/ ReadRefuses /\ Refuse("InvalidFrame") /\ UNCHANGED agreed
       \/ /\ ~ReadRefuses /\ negotiate # "none"
          /\ Refuse(negotiate)
          /\ UNCHANGED agreed
       \/ /\ ~ReadRefuses /\ negotiate = "none"
          /\ agreed' = LowerSize
          /\ phase' = IF Usable("healthcheck") /\ Value("healthcheck").flag
                        THEN "closed" ELSE "ready"
          /\ UNCHANGED code
    /\ moved' = [way |-> "none", len |-> 0]
    /\ UNCHANGED kv

(* An ACK of this length, as writeFrame judges it.                         *)
WriteFrame(len) ==
    /\ phase = "ready"
    /\ \/ len > frameLimit /\ Refuse("FrameTooBig") /\ UNCHANGED moved
       \/ /\ len <= frameLimit
          /\ moved' = [way |-> "out", len |-> len]
          /\ UNCHANGED <<phase, code>>
    /\ UNCHANGED <<kv, agreed>>

Closed == phase \in {"closed", "cut"} /\ UNCHANGED vars

Next ==
    \/ \E len \in Lens : ReadHeader(len) \/ WriteFrame(len)
    \/ \E item \in Items : Unmarshal(item)
    \/ Truncated
    \/ Hello
    \/ Closed

Spec == Init /\ [][Next]_vars
-----------------------------------------------------------------------------
(* Section 3.2: "Frames cannot exceed a maximum size negotiated between    *)
(* HAProxy and agents", in either direction: no frame of the session is    *)
(* longer than what each side said it can take.  The 0 with which          *)
(* frameLimit tells "not yet negotiated" is never a negotiated size.       *)
BothCeilings ==
    /\ phase = "ready" => agreed \in minFrameSize .. MaxFrameSize
    /\ phase = "ready" /\ moved.way # "none" =>
          /\ moved.len <= MaxFrameSize
          /\ \E i \in 1 .. Len(kv) :
                /\ kv[i].name = "max-frame-size" /\ moved.len <= kv[i].size
                /\ \A j \in 1 .. i - 1 : kv[j].name # "max-frame-size"

(* What is wrong with a HELLO that names no item twice, by code.           *)
WellTyped(name) == {i \in 1 .. Len(kv) : kv[i].name = name /\ kv[i].ok}
Distinct == \A i, j \in 1 .. Len(kv) : kv[i].name = kv[j].name => i = j
Defects ==
    (IF WellTyped("supported-versions") = {} THEN {"NoVersion"} ELSE {})
      \cup (IF \E i \in WellTyped("supported-versions") :
                  \A k \in 1 .. Len(kv[i].list) :
                     LET e == kv[i].list[k] IN e.ok => e.major < 2 \/ (e.major = 2 /\ e.minor < 0)
            THEN {"BadVersion"} ELSE {})
      \cup (IF WellTyped("max-frame-size") = {} THEN {"NoMaxFrameSize"} ELSE {})
      \cup (IF \E i \in WellTyped("max-frame-size") : kv[i].size < minFrameSize
            THEN {"BadFrameSize"} ELSE {})
      \cup (IF WellTyped("capabilities") = {} THEN {"NoCapabilities"} ELSE {})

(* Section 3.2.4: a HELLO is accepted only if nothing is wrong with it,    *)
(* and refused with a code that names something that is, in whatever order *)
(* its items came and whatever else the list of versions holds.            *)
CodeNamesDefect ==
    Distinct =>
        /\ agreed # 0 => Defects = {}
        /\ code \in {"NoVersion", "BadVersion", "NoMaxFrameSize", "BadFrameSize",
                     "NoCapabilities"} => code \in Defects

=============================================================================
