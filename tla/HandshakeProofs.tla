-------------------------- MODULE HandshakeProofs ---------------------------
(***************************************************************************)
(* Proofs about module Handshake, for HELLOs of any length with any items  *)
(* in any order, any sizes and any lists of versions.                      *)
(***************************************************************************)
EXTENDS Handshake, WellFoundedInduction, TLAPS

USE ZenonT(2), SMTT(60), SMTT(59)

(* A nonempty set of naturals has a minimum.                               *)
LEMMA Minimum ==
    ASSUME NEW S \in SUBSET Nat, S # {}
    PROVE  Min(S) \in S /\ \A y \in S : Min(S) <= y
<1> DEFINE R == OpToRel(<, Nat)
<1>1. IsWellFoundedOn(R, Nat)
  BY NatLessThanWellFounded, Zenon
<1>2. \A x, y \in Nat : x < y => <<x, y>> \in R
  BY Zenon DEF OpToRel
<1> HIDE DEF R
<1>3. PICK x \in S : \A y \in S : ~(<<y, x>> \in R)
  BY <1>1, WFMin, Zenon
<1>4. ASSUME NEW y \in S PROVE x <= y
  <2>1. x \in Nat /\ y \in Nat
    OBVIOUS
  <2>2. ~(y < x)
    BY <1>2, <1>3, <2>1, Zenon
  <2> QED
    BY <2>1, <2>2
<1> QED
  BY <1>4, Zenon DEF Min

(* An item's size is a number and its list one of the lists there are.     *)
LEMMA ItemFields ==
    \A item \in Items : /\ item.size \in Nat
                        /\ item.list \in VersionLists \cup {<<>>}
  BY SizesAssumption DEF Items, Item, Names

(* KV.Get: the item found has the name, and no earlier one does.           *)
LEMMA FirstFound ==
    ASSUME kv \in Seq(Items), NEW name
    PROVE  /\ Found(name) => /\ FirstOf(name) \in 1 .. Len(kv)
                             /\ kv[FirstOf(name)].name = name
                             /\ \A j \in 1 .. FirstOf(name) - 1 : kv[j].name # name
           /\ ~Found(name) => \A j \in 1 .. Len(kv) : kv[j].name # name
<1> DEFINE found == {i \in 1 .. Len(kv) : kv[i].name = name}
<1>1. found \in SUBSET Nat
  OBVIOUS
<1>2. CASE found = {}
  BY <1>2 DEF Found, FirstOf
<1>3. CASE found # {}
  <2>1. Min(found) \in found /\ \A y \in found : Min(found) <= y
    BY <1>1, <1>3, Minimum
  <2>2. FirstOf(name) = Min(found)
    BY <1>3 DEF FirstOf
  <2> HIDE DEF found
  <2>3. FirstOf(name) \in found /\ \A y \in found : FirstOf(name) <= y
    BY <2>1, <2>2
  <2> USE DEF found
  <2> QED
    BY <2>3 DEF Found
<1> QED
  BY <1>2, <1>3

(* What the HELLO settles stays settled: once there is an agreed size or a *)
(* code of negotiate's, it is the one for the items that came, because no  *)
(* item comes after that.  And no frame of the session exceeds it.         *)
Codes == {"NoVersion", "BadVersion", "NoMaxFrameSize", "BadFrameSize", "NoCapabilities"}

HelloInv ==
    /\ kv \in Seq(Items)
    /\ agreed \in Nat
    /\ moved.len \in Nat
    /\ phase \in {"header", "items"} => agreed = 0 /\ code = "none"
    /\ phase = "ready" => agreed # 0
    /\ agreed # 0 => negotiate = "none" /\ agreed = LowerSize
    /\ code \in Codes => negotiate = code
    /\ phase = "ready" /\ moved.way # "none" => moved.len <= agreed

(* The lower of the two sizes, for a HELLO that negotiate accepts.         *)
LEMMA LowerFacts ==
    ASSUME kv \in Seq(Items), negotiate = "none"
    PROVE  /\ Usable("max-frame-size")
           /\ LowerSize \in minFrameSize .. MaxFrameSize
           /\ LowerSize <= Value("max-frame-size").size
<1> DEFINE size == Value("max-frame-size").size
<1>1. Usable("max-frame-size") /\ ~(size < minFrameSize)
  BY DEF negotiate
<1>2. size \in Nat
  BY <1>1, FirstFound, ItemFields DEF Usable, Value
<1> HIDE DEF size
<1>3. MaxFrameSize \in Nat /\ minFrameSize \in Nat /\ minFrameSize <= MaxFrameSize
  BY SizesAssumption
<1>4. LowerSize \in {size, MaxFrameSize} /\ LowerSize <= size /\ LowerSize <= MaxFrameSize
  <2>1. {size, MaxFrameSize} \in SUBSET Nat /\ {size, MaxFrameSize} # {}
    BY <1>2, <1>3
  <2>2. LowerSize = Min({size, MaxFrameSize})
    BY DEF LowerSize, size
  <2> QED
    BY <2>1, <2>2, Minimum
<1>5. LowerSize \in minFrameSize .. MaxFrameSize
  BY <1>1, <1>2, <1>3, <1>4
<1> QED
  BY <1>1, <1>4, <1>5 DEF size

(* negotiate looks at the items and at nothing else.                       *)
LEMMA SameItems ==
    ASSUME UNCHANGED kv
    PROVE  negotiate' = negotiate /\ LowerSize' = LowerSize
<1>1. \A name : FirstOf(name)' = FirstOf(name)
  BY Zenon DEF FirstOf
<1> QED
  BY <1>1, Zenon DEF negotiate, LowerSize, Usable, Found, Value

LEMMA HelloInductive == HelloInv /\ [Next]_vars => HelloInv'
<1> SUFFICES ASSUME HelloInv, [Next]_vars PROVE HelloInv'
  OBVIOUS
<1> USE DEF HelloInv, Codes
<1>1. ASSUME NEW len \in Lens, ReadHeader(len) PROVE HelloInv'
  <2>1. UNCHANGED <<kv, agreed>> /\ phase \in {"header", "ready"}
    BY <1>1 DEF ReadHeader
  <2>2. negotiate' = negotiate /\ LowerSize' = LowerSize
    BY <2>1, SameItems
  <2>3. CASE Refuse("InvalidFrame") /\ UNCHANGED moved
    BY <2>1, <2>2, <2>3 DEF Refuse
  <2>4. CASE Refuse("FrameTooBig") /\ UNCHANGED moved
    BY <2>1, <2>2, <2>4 DEF Refuse
  <2>5. CASE /\ len <= Min({frameLimit, MaxFrameSize})
             /\ moved' = [way |-> "in", len |-> len]
             /\ phase' = IF phase = "header" THEN "items" ELSE phase
             /\ UNCHANGED code
    <3>1. frameLimit \in Nat /\ MaxFrameSize \in Nat /\ len \in Nat
      BY SizesAssumption DEF frameLimit
    <3>2. {frameLimit, MaxFrameSize} \in SUBSET Nat /\ {frameLimit, MaxFrameSize} # {}
      BY <3>1
    <3>3. Min({frameLimit, MaxFrameSize}) \in Nat /\ Min({frameLimit, MaxFrameSize}) <= frameLimit
      BY <3>1, <3>2, Minimum
    <3>4. len <= frameLimit
      BY <2>5, <3>1, <3>3
    <3>5. phase = "ready" => len <= agreed
      BY <3>4 DEF frameLimit
    <3> QED
      BY <2>1, <2>2, <2>5, <3>1, <3>5
  <2> QED
    BY <1>1, <2>3, <2>4, <2>5 DEF ReadHeader
<1>2. ASSUME NEW len \in Lens, WriteFrame(len) PROVE HelloInv'
  <2>1. UNCHANGED <<kv, agreed>> /\ phase = "ready"
    BY <1>2 DEF WriteFrame
  <2>2. negotiate' = negotiate /\ LowerSize' = LowerSize
    BY <2>1, SameItems
  <2>3. CASE Refuse("FrameTooBig") /\ UNCHANGED moved
    BY <2>1, <2>2, <2>3 DEF Refuse
  <2>4. CASE /\ len <= frameLimit
             /\ moved' = [way |-> "out", len |-> len]
             /\ UNCHANGED <<phase, code>>
    BY <2>1, <2>2, <2>4, SizesAssumption DEF frameLimit
  <2> QED
    BY <1>2, <2>3, <2>4 DEF WriteFrame
<1>3. ASSUME NEW item \in Items, Unmarshal(item) PROVE HelloInv'
  BY <1>3 DEF Unmarshal
<1>4. CASE Truncated
  <2>1. negotiate' = negotiate /\ LowerSize' = LowerSize
    BY <1>4, SameItems DEF Truncated
  <2> QED
    BY <1>4, <2>1 DEF Truncated
<1>5. CASE Hello
  <2>1. /\ phase = "items" /\ UNCHANGED kv /\ moved' = [way |-> "none", len |-> 0]
        /\ negotiate' = negotiate /\ LowerSize' = LowerSize
    BY <1>5, SameItems DEF Hello
  <2>2. CASE Refuse("InvalidFrame") /\ UNCHANGED agreed
    BY <2>1, <2>2 DEF Refuse
  <2>3. CASE negotiate # "none" /\ Refuse(negotiate) /\ UNCHANGED agreed
    BY <2>1, <2>3 DEF Refuse
  <2>4. CASE /\ negotiate = "none"
             /\ agreed' = LowerSize
             /\ phase' \in {"closed", "ready"}
             /\ UNCHANGED code
    <3>1. LowerSize \in Nat /\ LowerSize # 0
      BY <2>4, LowerFacts, SizesAssumption
    <3> QED
      BY <2>1, <2>4, <3>1
  <2> QED
    BY <1>5, <2>2, <2>3, <2>4 DEF Hello
<1>6. CASE UNCHANGED vars
  <2>1. negotiate' = negotiate /\ LowerSize' = LowerSize
    BY <1>6, SameItems DEF vars
  <2> QED
    BY <1>6, <2>1 DEF vars
<1> QED
  BY <1>1, <1>2, <1>3, <1>4, <1>5, <1>6 DEF Next, Closed

LEMMA HelloHolds == Spec => []HelloInv
<1>1. Init => HelloInv
  BY DEF Init, HelloInv, Codes
<1> QED
  BY <1>1, HelloInductive, PTL DEF Spec

(* No frame of a session is longer than what either side announced.        *)
THEOREM CeilingsHold == Spec => []BothCeilings
<1>1. HelloInv => BothCeilings
  <2> SUFFICES ASSUME HelloInv, phase = "ready" PROVE BothCeilings
    BY DEF BothCeilings
  <2> DEFINE i == FirstOf("max-frame-size")
  <2>1. negotiate = "none" /\ agreed = LowerSize /\ kv \in Seq(Items)
    BY DEF HelloInv
  <2>2. agreed \in minFrameSize .. MaxFrameSize /\ agreed <= kv[i].size
    BY <2>1, LowerFacts DEF Value
  <2>3. /\ i \in 1 .. Len(kv) /\ kv[i].name = "max-frame-size"
        /\ \A j \in 1 .. i - 1 : kv[j].name # "max-frame-size"
    BY <2>1, LowerFacts, FirstFound DEF Usable
  <2>4. kv[i].size \in Nat
    BY <2>1, <2>3, ItemFields
  <2> HIDE DEF i
  <2>5. ASSUME moved.way # "none"
        PROVE  moved.len <= MaxFrameSize /\ moved.len <= kv[i].size
    BY <2>2, <2>4, <2>5, SizesAssumption DEF HelloInv
  <2> QED
    BY <2>2, <2>3, <2>5 DEF BothCeilings
<1> QED
  BY <1>1, HelloHolds, PTL

-----------------------------------------------------------------------------
(* In a HELLO that names no item twice, the item KV.Get finds is the only  *)
(* one there could be.                                                     *)
LEMMA OnlyItem ==
    ASSUME kv \in Seq(Items), Distinct, NEW name
    PROVE  /\ Usable(name) => WellTyped(name) = {FirstOf(name)}
           /\ ~Usable(name) => WellTyped(name) = {}
<1>1. CASE ~Found(name)
  BY <1>1, FirstFound DEF Usable, WellTyped
<1>2. CASE Found(name)
  <2> DEFINE i == FirstOf(name)
  <2>1. i \in 1 .. Len(kv) /\ kv[i].name = name
    BY <1>2, FirstFound
  <2>2. \A j \in 1 .. Len(kv) : kv[j].name = name => j = i
    BY <2>1 DEF Distinct
  <2>3. Usable(name) <=> kv[i].ok
    BY <1>2 DEF Usable
  <2> HIDE DEF i
  <2>4. Usable(name) => WellTyped(name) = {i}
    BY <2>1, <2>2, <2>3, Zenon DEF WellTyped
  <2>5. ~Usable(name) => WellTyped(name) = {}
    BY <2>2, <2>3, Zenon DEF WellTyped
  <2> QED
    BY <2>4, <2>5, Zenon DEF i
<1> QED
  BY <1>1, <1>2

(* An entry is below 2.0 exactly if it does not make the list acceptable.  *)
Low(e) == e.ok => e.major < 2 \/ (e.major = 2 /\ e.minor < 0)

LEMMA LowEntries ==
    ASSUME NEW list \in VersionLists \cup {<<>>}
    PROVE  versionSupported(list) <=> ~\A k \in 1 .. Len(list) : Low(list[k])
<1>1. ASSUME NEW k \in 1 .. Len(list) PROVE Accepts(list[k]) <=> ~Low(list[k])
  <2> DEFINE Entries == [ok : BOOLEAN, major : Int, minor : Int]
  <2>1. list \in Seq(Entries)
    BY SizesAssumption
  <2> HIDE DEF Entries
  <2>2. list[k] \in Entries
    BY <2>1
  <2> DEFINE e == list[k]
  <2>3. e.major \in Int /\ e.minor \in Int
    BY <2>2 DEF Entries
  <2> HIDE DEF e
  <2>4. (e.major > 2 \/ (e.major = 2 /\ e.minor >= 0)) <=>
           ~(e.major < 2 \/ (e.major = 2 /\ e.minor < 0))
    BY <2>3
  <2>5. Accepts(e) <=> ~Low(e)
    BY <2>4, Zenon DEF Accepts, Low, versionMajor, versionMinor
  <2> QED
    BY <2>5 DEF e
<1> QED
  BY <1>1, Zenon DEF versionSupported

(* What each of negotiate's verdicts says of the items.                    *)
LEMMA Verdicts ==
    ASSUME kv \in Seq(Items), Distinct
    PROVE  /\ "NoVersion" \in Defects <=> ~Usable("supported-versions")
           /\ "BadVersion" \in Defects <=>
                 /\ Usable("supported-versions")
                 /\ ~versionSupported(Value("supported-versions").list)
           /\ "NoMaxFrameSize" \in Defects <=> ~Usable("max-frame-size")
           /\ "BadFrameSize" \in Defects <=>
                 Usable("max-frame-size") /\ Value("max-frame-size").size < minFrameSize
           /\ "NoCapabilities" \in Defects <=> ~Usable("capabilities")
           /\ Defects \subseteq Codes
<1>1. /\ "NoVersion" \in Defects <=> WellTyped("supported-versions") = {}
      /\ "BadVersion" \in Defects <=>
            \E i \in WellTyped("supported-versions") :
               \A k \in 1 .. Len(kv[i].list) : Low(kv[i].list[k])
      /\ "NoMaxFrameSize" \in Defects <=> WellTyped("max-frame-size") = {}
      /\ "BadFrameSize" \in Defects <=>
            \E i \in WellTyped("max-frame-size") : kv[i].size < minFrameSize
      /\ "NoCapabilities" \in Defects <=> WellTyped("capabilities") = {}
      /\ Defects \subseteq Codes
  BY Zenon DEF Defects, Low, Codes
<1>2. ASSUME NEW name PROVE WellTyped(name) = {} <=> ~Usable(name)
  <2>1. {FirstOf(name)} # {}
    OBVIOUS
  <2> QED
    BY <2>1, OnlyItem, Zenon
<1>3. (\E i \in WellTyped("max-frame-size") : kv[i].size < minFrameSize) <=>
         Usable("max-frame-size") /\ Value("max-frame-size").size < minFrameSize
  BY OnlyItem DEF Value
<1>4. (\E i \in WellTyped("supported-versions") :
          \A k \in 1 .. Len(kv[i].list) : Low(kv[i].list[k])) <=>
         /\ Usable("supported-versions")
         /\ ~versionSupported(Value("supported-versions").list)
  <2>1. CASE ~Usable("supported-versions")
    BY <2>1, OnlyItem
  <2>2. CASE Usable("supported-versions")
    <3> DEFINE i == FirstOf("supported-versions")
    <3>1. WellTyped("supported-versions") = {i}
      BY <2>2, OnlyItem
    <3>2. i \in 1 .. Len(kv)
      BY <2>2, FirstFound DEF Usable
    <3>3. kv[i].list \in VersionLists \cup {<<>>}
      BY <3>2, ItemFields
    <3>4. Value("supported-versions") = kv[i]
      BY DEF Value
    <3> HIDE DEF i
    <3>5. versionSupported(kv[i].list) <=>
             ~\A k \in 1 .. Len(kv[i].list) : Low(kv[i].list[k])
      BY <3>3, LowEntries
    <3> QED
      BY <2>2, <3>1, <3>4, <3>5, Zenon
  <2> QED
    BY <2>1, <2>2
<1> QED
  BY <1>1, <1>2, <1>3, <1>4, Zenon

(* A HELLO in which no item comes twice is accepted only without defects,  *)
(* and refused with a code that names one of its defects.                  *)
THEOREM RefusalIsTrue == Spec => []CodeNamesDefect
<1>1. HelloInv => CodeNamesDefect
  <2> SUFFICES ASSUME HelloInv, Distinct
               PROVE  /\ agreed # 0 => Defects = {}
                      /\ code \in Codes => code \in Defects
    BY DEF CodeNamesDefect, Codes
  <2>1. kv \in Seq(Items)
    BY DEF HelloInv
  <2>2. ASSUME agreed # 0 PROVE Defects = {}
    <3>1. negotiate = "none"
      BY <2>2 DEF HelloInv
    <3>2. /\ Usable("supported-versions") /\ versionSupported(Value("supported-versions").list)
          /\ Usable("max-frame-size") /\ ~(Value("max-frame-size").size < minFrameSize)
          /\ Usable("capabilities")
      BY <3>1 DEF negotiate
    <3>3. \A c \in Codes : c \notin Defects
      BY <2>1, <3>2, Verdicts, Zenon DEF Codes
    <3> QED
      BY <2>1, <3>3, Verdicts, Zenon
  <2>3. ASSUME code \in Codes PROVE code \in Defects
    <3>1. negotiate = code /\ code # "none"
      BY <2>3 DEF HelloInv, Codes
    <3>2. /\ code = "NoVersion" => ~Usable("supported-versions")
          /\ code = "BadVersion" =>
                /\ Usable("supported-versions")
                /\ ~versionSupported(Value("supported-versions").list)
          /\ code = "NoMaxFrameSize" => ~Usable("max-frame-size")
          /\ code = "BadFrameSize" =>
                Usable("max-frame-size") /\ Value("max-frame-size").size < minFrameSize
          /\ code = "NoCapabilities" => ~Usable("capabilities")
      BY <3>1 DEF negotiate
    <3> QED
      BY <2>1, <2>3, <3>2, Verdicts, Zenon DEF Codes
  <2> QED
    BY <2>2, <2>3
<1> QED
  BY <1>1, HelloHolds, PTL

=============================================================================
