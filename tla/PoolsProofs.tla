---------------------------- MODULE PoolsProofs -----------------------------
(***************************************************************************)
(* Proofs about module Pools, for any number of NOTIFYs, of messages in    *)
(* each and of objects: no object has two owners, handlers and ACKs see    *)
(* nothing of another task's, and what is in a pool is as good as new.     *)
(* First the invariant that says who owns what, what each step does to     *)
(* what is free, and that the types, the frames, the requests and the      *)
(* lists of messages stay in order.                                        *)
(***************************************************************************)
EXTENDS Pools, TLAPS

USE ZenonT(2), SMTT(60), SMTT(59) DEF Goto

(* A pool that holds nothing twice, as a set: Put adds to it and Get takes *)
(* from it.                                                                *)
LEMMA PutBag ==
    ASSUME NEW S, NEW x, x \notin S
    PROVE  SetToBag(S) (+) SetToBag({x}) = SetToBag(S \cup {x})
  BY DEF SetToBag, (+)

LEMMA GetBag ==
    ASSUME NEW S, NEW x
    PROVE  SetToBag(S) (-) SetToBag({x}) = SetToBag(S \ {x})
  BY DEF SetToBag, (-)

(* What Get may return: what is in the pool or was never made.  The rest   *)
(* is in use.                                                              *)
Free(k) == Pooled(k) \cup {x \in Ids : x > made[k]}
InUse(k) == Ids \ Free(k)

BagInv ==
    /\ made \in [Kinds -> 0 .. MaxObjs]
    /\ DOMAIN pool = Kinds
    /\ \A k \in Kinds : pool[k] = SetToBag(Pooled(k)) /\ Pooled(k) \subseteq 1 .. made[k]

(* The effect of sync.Pool's two operations on what is free.               *)
LEMMA GotFree ==
    ASSUME BagInv, NEW k \in Kinds, NEW x \in Pooled(k) \cup Fresh(k), pool' = Got(pool, k, x)
    PROVE  /\ Make(made, k, x) \in [Kinds -> 0 .. MaxObjs] /\ DOMAIN pool' = Kinds
           /\ pool'[k] = SetToBag(Pooled(k) \ {x})
           /\ Pooled(k) \ {x} \subseteq 1 .. Make(made, k, x)[k]
           /\ x \in Free(k) /\ x \in Ids
           /\ (Pooled(k) \ {x}) \cup {y \in Ids : y > Make(made, k, x)[k]} = Free(k) \ {x}
           /\ \A j \in Kinds \ {k} : pool'[j] = pool[j] /\ Make(made, k, x)[j] = made[j]
<1> DEFINE n == Make(made, k, x)
<1>1. /\ made \in [Kinds -> 0 .. MaxObjs] /\ DOMAIN pool = Kinds
      /\ pool[k] = SetToBag(Pooled(k)) /\ Pooled(k) \subseteq 1 .. made[k]
      /\ MaxObjs \in Nat
  BY PoolsAssumption DEF BagInv
<1>2. x \in Ids /\ x \in Free(k)
  BY <1>1 DEF Fresh, Free, Ids
<1>3. n \in [Kinds -> 0 .. MaxObjs] /\ \A j \in Kinds \ {k} : n[j] = made[j]
  BY <1>1, <1>2 DEF Make, Ids
<1>4. n[k] = IF x > made[k] THEN x ELSE made[k]
  BY <1>1 DEF Make
<1> HIDE DEF n
<1>5. Pooled(k) \ {x} \subseteq 1 .. n[k]
  BY <1>1, <1>2, <1>4 DEF Ids
<1>6. (Pooled(k) \ {x}) \cup {y \in Ids : y > n[k]} = Free(k) \ {x}
  BY <1>1, <1>2, <1>4 DEF Ids, Fresh, Free
<1>7. DOMAIN pool' = Kinds /\ pool'[k] = pool[k] (-) SetToBag({x})
      /\ \A j \in Kinds \ {k} : pool'[j] = pool[j]
  BY <1>1 DEF Got
<1>8. pool'[k] = SetToBag(Pooled(k) \ {x})
  BY <1>1, <1>7, GetBag, Zenon
<1> QED
  BY <1>2, <1>3, <1>5, <1>6, <1>7, <1>8 DEF n

LEMMA GetEffect ==
    ASSUME BagInv, NEW k \in Kinds, NEW x, Get(k, x)
    PROVE  /\ BagInv'
           /\ x \in Free(k) /\ x \in Ids
           /\ Pooled(k)' = Pooled(k) \ {x} /\ Free(k)' = Free(k) \ {x}
           /\ \A j \in Kinds \ {k} : Pooled(j)' = Pooled(j) /\ Free(j)' = Free(j)
           /\ \A j \in Kinds \ {k} : made'[j] = made[j]
<1>1. x \in Pooled(k) \cup Fresh(k) /\ pool' = Got(pool, k, x) /\ made' = Make(made, k, x)
  BY DEF Get
<1>2. /\ made' \in [Kinds -> 0 .. MaxObjs] /\ DOMAIN pool' = Kinds
      /\ pool'[k] = SetToBag(Pooled(k) \ {x}) /\ Pooled(k) \ {x} \subseteq 1 .. made'[k]
      /\ x \in Free(k) /\ x \in Ids
      /\ (Pooled(k) \ {x}) \cup {y \in Ids : y > made'[k]} = Free(k) \ {x}
      /\ \A j \in Kinds \ {k} : pool'[j] = pool[j] /\ made'[j] = made[j]
  <2> DEFINE n == Make(made, k, x)
  <2>1. /\ n \in [Kinds -> 0 .. MaxObjs] /\ DOMAIN pool' = Kinds
        /\ pool'[k] = SetToBag(Pooled(k) \ {x}) /\ Pooled(k) \ {x} \subseteq 1 .. n[k]
        /\ x \in Free(k) /\ x \in Ids
        /\ (Pooled(k) \ {x}) \cup {y \in Ids : y > n[k]} = Free(k) \ {x}
        /\ \A j \in Kinds \ {k} : pool'[j] = pool[j] /\ n[j] = made[j]
    BY <1>1, GotFree, Zenon
  <2>2. made' = n
    BY <1>1
  <2> HIDE DEF n
  <2> QED
    BY <2>1, <2>2, Zenon
<1>3. Pooled(k)' = Pooled(k) \ {x}
  BY <1>2, Zenon DEF Pooled, BagToSet, SetToBag
<1>4. Free(k)' = Free(k) \ {x}
  BY <1>2, <1>3, Zenon DEF Free, Ids
<1>5. \A j \in Kinds \ {k} : Pooled(j)' = Pooled(j)
  BY <1>2, Zenon DEF Pooled
<1>6. \A j \in Kinds \ {k} : Free(j)' = Free(j)
  BY <1>2, <1>5, Zenon DEF Free, Ids
<1>7. BagInv'
  <2>1. ASSUME NEW j \in Kinds
        PROVE  pool'[j] = SetToBag(Pooled(j)') /\ Pooled(j)' \subseteq 1 .. made'[j]
    BY <1>2, <1>3, <1>5, <2>1, Zenon DEF BagInv
  <2> QED
    BY <1>2, <2>1 DEF BagInv
<1> QED
  BY <1>2, <1>3, <1>4, <1>5, <1>6, <1>7

LEMMA PutEffect ==
    ASSUME BagInv, NEW k \in Kinds, NEW x \in InUse(k), pool' = Put(pool, k, x), made' = made
    PROVE  /\ BagInv'
           /\ Pooled(k)' = Pooled(k) \cup {x} /\ Free(k)' = Free(k) \cup {x}
           /\ \A j \in Kinds \ {k} : Pooled(j)' = Pooled(j) /\ Free(j)' = Free(j)
<1>1. /\ made \in [Kinds -> 0 .. MaxObjs] /\ DOMAIN pool = Kinds
      /\ pool[k] = SetToBag(Pooled(k)) /\ Pooled(k) \subseteq 1 .. made[k]
      /\ MaxObjs \in Nat
  BY PoolsAssumption DEF BagInv
<1>2. x \notin Pooled(k) /\ x \in 1 .. made[k]
  BY <1>1 DEF InUse, Free, Ids
<1>3. DOMAIN pool' = Kinds /\ pool'[k] = pool[k] (+) SetToBag({x})
      /\ \A j \in Kinds \ {k} : pool'[j] = pool[j]
  BY <1>1 DEF Put
<1>4. pool'[k] = SetToBag(Pooled(k) \cup {x})
  BY <1>1, <1>2, <1>3, PutBag, Zenon
<1>5. Pooled(k)' = Pooled(k) \cup {x}
  BY <1>4, Zenon DEF Pooled, BagToSet, SetToBag
<1>6. Free(k)' = Free(k) \cup {x}
  BY <1>5, Zenon DEF Free, Ids
<1>7. \A j \in Kinds \ {k} : Pooled(j)' = Pooled(j)
  BY <1>3, Zenon DEF Pooled
<1>8. \A j \in Kinds \ {k} : Free(j)' = Free(j)
  BY <1>7, Zenon DEF Free, Ids
<1>9. BagInv'
  <2>1. ASSUME NEW j \in Kinds
        PROVE  pool'[j] = SetToBag(Pooled(j)') /\ Pooled(j)' \subseteq 1 .. made'[j]
    <3>1. CASE j = k
      BY <1>1, <1>2, <1>4, <1>5, <3>1
    <3>2. CASE j # k
      BY <1>3, <1>7, <3>2, Zenon DEF BagInv
    <3> QED
      BY <3>1, <3>2
  <2> QED
    BY <1>1, <1>3, <2>1 DEF BagInv
<1> QED
  BY <1>5, <1>6, <1>7, <1>8, <1>9

(* A new message comes with a KV: two Gets in one.                         *)
LEMMA NewEffect ==
    ASSUME BagInv, NEW x \in Fresh("message"), NEW k \in Pooled("kv") \cup Fresh("kv"),
           pool' = Got(pool, "kv", k), made' = Make(Make(made, "message", x), "kv", k)
    PROVE  /\ BagInv'
           /\ x \in Free("message") /\ x \in Ids /\ k \in Free("kv") /\ k \in Ids
           /\ x = made["message"] + 1 /\ made'["message"] = x
           /\ Pooled("message")' = Pooled("message")
           /\ Free("message")' = Free("message") \ {x}
           /\ Pooled("kv")' = Pooled("kv") \ {k} /\ Free("kv")' = Free("kv") \ {k}
           /\ \A j \in {"frame", "request"} : Pooled(j)' = Pooled(j) /\ Free(j)' = Free(j)
<1> DEFINE n == Make(made, "kv", k)
<1>1. /\ n \in [Kinds -> 0 .. MaxObjs] /\ DOMAIN pool' = Kinds
      /\ pool'["kv"] = SetToBag(Pooled("kv") \ {k}) /\ Pooled("kv") \ {k} \subseteq 1 .. n["kv"]
      /\ k \in Free("kv") /\ k \in Ids
      /\ (Pooled("kv") \ {k}) \cup {y \in Ids : y > n["kv"]} = Free("kv") \ {k}
      /\ \A j \in Kinds \ {"kv"} : pool'[j] = pool[j] /\ n[j] = made[j]
  <2>1. "kv" \in Kinds
    BY DEF Kinds
  <2> QED
    BY <2>1, GotFree, Zenon
<1>2. /\ made \in [Kinds -> 0 .. MaxObjs] /\ MaxObjs \in Nat
      /\ {"frame", "message", "kv", "request"} = Kinds
      /\ x \in Ids /\ x = made["message"] + 1
      /\ Pooled("message") \subseteq 1 .. made["message"]
  BY PoolsAssumption DEF BagInv, Kinds, Fresh
<1>3. /\ made' \in [Kinds -> 0 .. MaxObjs]
      /\ made'["message"] = x /\ made'["kv"] = n["kv"]
      /\ made'["frame"] = made["frame"] /\ made'["request"] = made["request"]
  BY <1>1, <1>2 DEF Make, Ids
<1> HIDE DEF n
<1>4. Pooled("kv")' = Pooled("kv") \ {k}
  BY <1>1, Zenon DEF Pooled, BagToSet, SetToBag
<1>5. Free("kv")' = Free("kv") \ {k}
  BY <1>1, <1>3, <1>4, Zenon DEF Free, Ids
<1>6. /\ Pooled("message")' = Pooled("message") /\ Pooled("frame")' = Pooled("frame")
      /\ Pooled("request")' = Pooled("request")
  BY <1>1, Zenon DEF Pooled, Kinds
<1>7. Free("frame")' = Free("frame") /\ Free("request")' = Free("request")
  BY <1>3, <1>6, Zenon DEF Free, Ids
<1>8. Free("message")' = Free("message") \ {x} /\ x \in Free("message")
  BY <1>2, <1>3, <1>6 DEF Free, Ids
<1>9. BagInv'
  <2>1. pool'["kv"] = SetToBag(Pooled("kv")') /\ Pooled("kv")' \subseteq 1 .. made'["kv"]
    BY <1>1, <1>3, <1>4
  <2>2. ASSUME NEW j \in {"frame", "message", "request"}
        PROVE  pool'[j] = SetToBag(Pooled(j)') /\ Pooled(j)' \subseteq 1 .. made'[j]
    <3>1. pool'[j] = pool[j] /\ Pooled(j)' = Pooled(j)
      BY <1>1, <1>6 DEF Kinds
    <3>2. pool[j] = SetToBag(Pooled(j)) /\ Pooled(j) \subseteq 1 .. made[j]
      BY DEF BagInv, Kinds
    <3>3. made[j] \in Nat /\ made'[j] \in Nat /\ made[j] <= made'[j]
      BY <1>2, <1>3
    <3> QED
      BY <3>1, <3>2, <3>3
  <2> QED
    BY <1>1, <1>2, <1>3, <2>1, <2>2 DEF BagInv
<1> QED
  BY <1>1, <1>2, <1>3, <1>4, <1>5, <1>6, <1>7, <1>8, <1>9

-----------------------------------------------------------------------------
(* The inductive invariant.  Types first, as far as they matter.           *)
DomInv ==
    /\ DOMAIN pc = Tasks /\ DOMAIN f = Tasks /\ DOMAIN m = Tasks
    /\ DOMAIN req = Tasks /\ DOMAIN ack = Tasks
    /\ DOMAIN Actions = Ids /\ DOMAIN Name = Ids /\ DOMAIN KV = Ids
    /\ DOMAIN items = Ids /\ DOMAIN Borrowed = Ids /\ DOMAIN actions = Ids

ListInv == todo \in [Tasks -> Seq(Ids)] /\ Messages \in [Ids -> Seq(Ids)]

(* A task's frames are in use, and no two of them are the same.            *)
FrameInv ==
    /\ \A t \in Tasks : HoldsInbound(t) => f[t] \in InUse("frame")
    /\ \A t \in Tasks : pc[t] = "write" => ack[t] \in InUse("frame")
    /\ \A t, u \in Tasks : HoldsInbound(t) /\ HoldsInbound(u) /\ t # u => f[t] # f[u]
    /\ \A t, u \in Tasks : HoldsInbound(t) /\ pc[u] = "write" => f[t] # ack[u]
    /\ \A t, u \in Tasks : pc[t] = "write" /\ pc[u] = "write" /\ t # u => ack[t] # ack[u]

(* Only an inbound frame lists messages.                                   *)
EmptyInv ==
    /\ \A x \in Free("frame") : Messages[x] = <<>>
    /\ \A t \in Tasks : pc[t] = "write" => Messages[ack[t]] = <<>>

HasRequest(t) == pc[t] \in {"handler", "ack", "write", "written"}
RequestInv ==
    /\ \A t \in Tasks : HasRequest(t) => req[t] \in InUse("request")
    /\ \A t, u \in Tasks : HasRequest(t) /\ HasRequest(u) /\ t # u => req[t] # req[u]

(* So are its messages; none is listed twice, and the one being decoded or *)
(* given back is not listed.                                               *)
NoDup(s) == \A i, j \in 1 .. Len(s) : s[i] = s[j] => i = j
MessageInv ==
    /\ \A t \in Tasks : HeldMessages(t) \subseteq InUse("message")
    /\ \A t, u \in Tasks : t # u => HeldMessages(t) \cap HeldMessages(u) = {}
    /\ \A t \in Tasks : NoDup(Listed(t))
    /\ \A t \in Tasks : Working(t) => m[t] \notin Elems(Listed(t))

(* A message, in its pool or out of it, owns a KV that no other one does,  *)
(* except while ReleaseMessage swaps it for another.                       *)
Owns(x) == x \in 1 .. made["message"] /\ \A t \in Tasks : pc[t] \in Swapping => m[t] # x
KVInv ==
    /\ \A x \in 1 .. made["message"] : KV[x] \in Ids
    /\ \A x \in Ids : Owns(x) => KV[x] \in InUse("kv")
    /\ \A x, y \in Ids : Owns(x) /\ Owns(y) /\ x # y => KV[x] # KV[y]

OwnerInv ==
    /\ DomInv /\ ListInv /\ BagInv /\ FrameInv /\ EmptyInv
    /\ RequestInv /\ MessageInv /\ KVInv

-----------------------------------------------------------------------------
(* What each step does to what is free.                                    *)
Same(k) == Pooled(k)' = Pooled(k) /\ Free(k)' = Free(k)
Took(k, x) == /\ x \in Free(k) /\ x \in Ids
              /\ Pooled(k)' = Pooled(k) \ {x} /\ Free(k)' = Free(k) \ {x}
Gave(k, x) == x \in InUse(k) /\ Pooled(k)' = Pooled(k) \cup {x} /\ Free(k)' = Free(k) \cup {x}

(* The message a task works on owns its KV, which is in use.               *)
LEMMA WorkingOwns ==
    ASSUME OwnerInv, NEW t \in Tasks, Working(t), pc[t] \notin Swapping
    PROVE  m[t] \in Ids /\ m[t] \in InUse("message") /\ Owns(m[t]) /\ KV[m[t]] \in InUse("kv")
<1>1. m[t] \in HeldMessages(t)
  BY DEF HeldMessages
<1>2. m[t] \in InUse("message")
  BY <1>1 DEF OwnerInv, MessageInv
<1>3. m[t] \in Ids /\ m[t] \in 1 .. made["message"]
  BY <1>2, PoolsAssumption DEF OwnerInv, BagInv, Kinds, InUse, Free, Ids
<1>4. ASSUME NEW u \in Tasks, pc[u] \in Swapping PROVE m[u] # m[t]
  <2>1. m[u] \in HeldMessages(u)
    BY <1>4 DEF HeldMessages, Working
  <2> QED
    BY <1>1, <1>4, <2>1 DEF OwnerInv, MessageInv
<1> QED
  BY <1>2, <1>3, <1>4 DEF Owns, OwnerInv, KVInv

(* A pooled message owns its KV.                                           *)
LEMMA PooledOwns ==
    ASSUME OwnerInv, NEW x \in Pooled("message")
    PROVE  x \in Ids /\ Owns(x) /\ KV[x] \in InUse("kv")
<1>1. x \in 1 .. made["message"] /\ x \in Ids /\ x \notin InUse("message")
  BY PoolsAssumption DEF OwnerInv, BagInv, Kinds, InUse, Free, Ids
<1>2. ASSUME NEW u \in Tasks, pc[u] \in Swapping PROVE m[u] # x
  <2>1. m[u] \in HeldMessages(u)
    BY <1>2 DEF HeldMessages, Working
  <2> QED
    BY <1>1, <1>2, <2>1 DEF OwnerInv, MessageInv
<1> QED
  BY <1>1, <1>2 DEF Owns, OwnerInv, KVInv

LEMMA PoolsUnchanged ==
    ASSUME BagInv, UNCHANGED <<pool, made>>
    PROVE  BagInv' /\ \A k \in Kinds : Same(k)
<1>1. \A k \in Kinds : Same(k)
  BY Zenon DEF Same, Free, Pooled, Ids
<1>2. BagInv'
  BY <1>1, Zenon DEF BagInv, Same
<1> QED
  BY <1>1, <1>2

(* One lemma for the steps that take from a pool, one for those that give  *)
(* to one, and one that says which pools a step leaves alone.              *)
LEMMA TakingSteps ==
    ASSUME OwnerInv, NEW t \in Tasks
    PROVE  /\ AcquireFrame(t) => \E x : Took("frame", x) /\ f' = [f EXCEPT ![t] = x]
           /\ AcquireAck(t) => \E x : /\ Took("frame", x) /\ ack' = [ack EXCEPT ![t] = x]
                                      /\ Actions' = [Actions EXCEPT ![x] = req[t]]
           /\ AcquireRequest(t) => \E x : /\ Took("request", x) /\ req' = [req EXCEPT ![t] = x]
                                          /\ Borrowed' = [Borrowed EXCEPT ![x] = f[t]]
           /\ ReacquireKV(t) => \E k : Took("kv", k) /\ KV' = [KV EXCEPT ![m[t]] = k]
<1> BagInv /\ {"frame", "message", "kv", "request"} = Kinds
  BY DEF OwnerInv, Kinds
<1>1. ASSUME NEW k \in Kinds, NEW x, Get(k, x) PROVE Took(k, x)
  BY <1>1, GetEffect, Zenon DEF Took
<1>2. AcquireFrame(t) => \E x : Took("frame", x) /\ f' = [f EXCEPT ![t] = x]
  BY <1>1, Zenon DEF AcquireFrame, Kinds
<1>3. AcquireAck(t) => \E x : /\ Took("frame", x) /\ ack' = [ack EXCEPT ![t] = x]
                              /\ Actions' = [Actions EXCEPT ![x] = req[t]]
  BY <1>1, Zenon DEF AcquireAck, Kinds
<1>4. AcquireRequest(t) => \E x : /\ Took("request", x) /\ req' = [req EXCEPT ![t] = x]
                                  /\ Borrowed' = [Borrowed EXCEPT ![x] = f[t]]
  BY <1>1, Zenon DEF AcquireRequest, Kinds
<1>5. ReacquireKV(t) => \E k : Took("kv", k) /\ KV' = [KV EXCEPT ![m[t]] = k]
  BY <1>1, Zenon DEF ReacquireKV, AcquireKV, Kinds
<1> QED
  BY <1>2, <1>3, <1>4, <1>5

(* AcquireMessage brings a message from the pool, with the KV it owns, or  *)
(* makes one and takes a KV for it.                                        *)
LEMMA MessageStep ==
    ASSUME OwnerInv, NEW t \in Tasks, AcquireMessage(t)
    PROVE  /\ BagInv' /\ Same("frame") /\ Same("request")
           /\ \E x : /\ Took("message", x) /\ m' = [m EXCEPT ![t] = x]
                     /\ \/ /\ x \in Pooled("message") /\ Same("kv") /\ KV' = KV
                           /\ made'["message"] = made["message"]
                        \/ /\ x = made["message"] + 1 /\ made'["message"] = x
                           /\ \E k : Took("kv", k) /\ KV' = [KV EXCEPT ![x] = k]
<1>0. BagInv /\ {"frame", "message", "kv", "request"} = Kinds
  BY DEF OwnerInv, Kinds
<1>1. PICK x \in Ids :
         /\ m' = [m EXCEPT ![t] = x]
         /\ \/ x \in Pooled("message") /\ Get("message", x) /\ UNCHANGED KV
            \/ /\ x \in Fresh("message")
               /\ \E k \in Pooled("kv") \cup Fresh("kv") :
                     /\ pool' = Got(pool, "kv", k)
                     /\ made' = Make(Make(made, "message", x), "kv", k)
                     /\ KV' = [KV EXCEPT ![x] = k]
  BY Zenon DEF AcquireMessage
<1>2. CASE x \in Pooled("message") /\ Get("message", x) /\ UNCHANGED KV
  <2>1. /\ BagInv' /\ Took("message", x) /\ Same("frame") /\ Same("request") /\ Same("kv")
    BY <1>0, <1>2, GetEffect DEF Took, Same
  <2>2. made'["message"] = made["message"]
    BY <1>0, <1>2, PoolsAssumption DEF Get, Make, BagInv, Ids
  <2> QED
    BY <1>1, <1>2, <2>1, <2>2, Zenon
<1>3. ASSUME x \in Fresh("message"), NEW k \in Pooled("kv") \cup Fresh("kv"),
             pool' = Got(pool, "kv", k), made' = Make(Make(made, "message", x), "kv", k),
             KV' = [KV EXCEPT ![x] = k]
      PROVE  /\ BagInv' /\ Same("frame") /\ Same("request") /\ Took("message", x)
             /\ x = made["message"] + 1 /\ made'["message"] = x /\ Took("kv", k)
  <2>1. /\ BagInv'
        /\ x \in Free("message") /\ x \in Ids /\ k \in Free("kv") /\ k \in Ids
        /\ x = made["message"] + 1 /\ made'["message"] = x
        /\ Pooled("message")' = Pooled("message")
        /\ Free("message")' = Free("message") \ {x}
        /\ Pooled("kv")' = Pooled("kv") \ {k} /\ Free("kv")' = Free("kv") \ {k}
        /\ \A j \in {"frame", "request"} : Pooled(j)' = Pooled(j) /\ Free(j)' = Free(j)
    BY <1>0, <1>3, NewEffect, Zenon
  <2>2. x \notin Pooled("message")
    BY <1>0, <2>1 DEF BagInv
  <2>3. Pooled("message")' = Pooled("message") \ {x}
    BY <2>1, <2>2
  <2> QED
    BY <2>1, <2>3, Zenon DEF Same, Took
<1> QED
  BY <1>1, <1>2, <1>3, Zenon

LEMMA GivingSteps ==
    ASSUME OwnerInv, NEW t \in Tasks
    PROVE  /\ ReleaseFrame(t) => Gave("frame", f[t])
           /\ ReleaseAck(t) => Gave("frame", ack[t])
           /\ ReleaseRequest(t) => Gave("request", req[t])
           /\ PutMessage(t) => Gave("message", m[t])
           /\ ReleaseKV(t) => Gave("kv", KV[m[t]])
<1> BagInv /\ {"frame", "message", "kv", "request"} = Kinds
  BY DEF OwnerInv, Kinds
<1>1. ASSUME NEW k \in Kinds, NEW x \in InUse(k), pool' = Put(pool, k, x), made' = made
      PROVE  Gave(k, x)
  BY <1>1, PutEffect, Zenon DEF Gave
<1>2. ReleaseFrame(t) => Gave("frame", f[t])
  <2>1. pc[t] = "next" => f[t] \in InUse("frame")
    BY DEF OwnerInv, FrameInv, HoldsInbound
  <2> QED
    BY <1>1, <2>1, Zenon DEF ReleaseFrame, Kinds
<1>3. ReleaseAck(t) => Gave("frame", ack[t])
  BY <1>1, Zenon DEF ReleaseAck, Kinds, OwnerInv, FrameInv
<1>4. ReleaseRequest(t) => Gave("request", req[t])
  BY <1>1, Zenon DEF ReleaseRequest, ResetRequest, Kinds, OwnerInv, RequestInv, HasRequest
<1>5. PutMessage(t) => Gave("message", m[t])
  <2>1. pc[t] \in Putting => m[t] \in InUse("message")
    BY WorkingOwns DEF Working, Putting, Swapping
  <2> QED
    BY <1>1, <2>1, Zenon DEF PutMessage, Kinds
<1>6. ReleaseKV(t) => Gave("kv", KV[m[t]])
  <2>1. pc[t] \in Releasing => KV[m[t]] \in InUse("kv")
    BY WorkingOwns DEF Working, Releasing, Swapping
  <2> QED
    BY <1>1, <2>1, Zenon DEF ReleaseKV, Kinds
<1> QED
  BY <1>2, <1>3, <1>4, <1>5, <1>6

LEMMA LeftAlone ==
    ASSUME OwnerInv, NEW t \in Tasks, Step(t)
    PROVE  /\ BagInv'
           /\ \/ AcquireFrame(t) \/ AcquireAck(t) \/ ReleaseFrame(t) \/ ReleaseAck(t)
              \/ Same("frame")
           /\ AcquireMessage(t) \/ PutMessage(t) \/ Same("message")
           /\ AcquireMessage(t) \/ ReleaseKV(t) \/ ReacquireKV(t) \/ Same("kv")
           /\ AcquireRequest(t) \/ ReleaseRequest(t) \/ Same("request")
           /\ AcquireMessage(t) \/ made'["message"] = made["message"]
<1>0. /\ BagInv
      /\ "frame" \in Kinds /\ "message" \in Kinds /\ "kv" \in Kinds /\ "request" \in Kinds
  BY DEF OwnerInv, Kinds
<1> DEFINE Goal(k) ==
      BagInv' /\ (\A j \in Kinds \ {k} : Same(j)) /\ (k # "message" => made'["message"] = made["message"])
<1>t. ASSUME NEW k \in Kinds, NEW x, Get(k, x) PROVE Goal(k)
  BY <1>0, <1>t, GetEffect DEF Same
<1>g. ASSUME NEW k \in Kinds, NEW x \in InUse(k), pool' = Put(pool, k, x), made' = made
      PROVE  Goal(k)
  BY <1>0, <1>g, PutEffect DEF Same
<1>1. ASSUME AcquireFrame(t) \/ AcquireAck(t) PROVE Goal("frame")
  BY <1>0, <1>1, <1>t, Zenon DEF AcquireFrame, AcquireAck
<1>2. ASSUME ReleaseFrame(t) \/ ReleaseAck(t) PROVE Goal("frame")
  <2>1. ReleaseFrame(t) => f[t] \in InUse("frame")
    BY GivingSteps, Zenon DEF Gave
  <2>2. ReleaseAck(t) => ack[t] \in InUse("frame")
    BY GivingSteps, Zenon DEF Gave
  <2> QED
    BY <1>0, <1>2, <1>g, <2>1, <2>2, Zenon DEF ReleaseFrame, ReleaseAck
<1>3. ASSUME AcquireRequest(t) PROVE Goal("request")
  BY <1>0, <1>3, <1>t, Zenon DEF AcquireRequest
<1>4. ASSUME ReleaseRequest(t) PROVE Goal("request")
  <2>1. req[t] \in InUse("request")
    BY <1>4, GivingSteps, Zenon DEF Gave
  <2> QED
    BY <1>0, <1>4, <1>g, <2>1, Zenon DEF ReleaseRequest, ResetRequest
<1>5. ASSUME PutMessage(t) PROVE Goal("message") /\ made'["message"] = made["message"]
  <2>1. m[t] \in InUse("message")
    BY <1>5, GivingSteps, Zenon DEF Gave
  <2> QED
    BY <1>0, <1>5, <1>g, <2>1, Zenon DEF PutMessage
<1>6. ASSUME ReleaseKV(t) PROVE Goal("kv")
  <2>1. KV[m[t]] \in InUse("kv")
    BY <1>6, GivingSteps, Zenon DEF Gave
  <2> QED
    BY <1>0, <1>6, <1>g, <2>1, Zenon DEF ReleaseKV
<1>7. ASSUME ReacquireKV(t) PROVE Goal("kv")
  BY <1>0, <1>7, <1>t, Zenon DEF ReacquireKV, AcquireKV
<1>8. ASSUME \/ DecodeMessage(t) \/ DecodeDone(t) \/ QuoteName(t) \/ ResetFrame(t)
             \/ ResetMessage(t) \/ Handler(t)
      PROVE  /\ BagInv' /\ (\A j \in Kinds : Same(j))
             /\ made'["message"] = made["message"]
  <2>1. UNCHANGED <<pool, made>>
    BY <1>8, Zenon DEF DecodeMessage, DecodeDone, QuoteName, ResetFrame, ResetMessage, Handler
  <2> QED
    BY <1>0, <2>1, PoolsUnchanged
<1>9. AcquireMessage(t) => BagInv' /\ Same("frame") /\ Same("request")
  BY MessageStep, Zenon
<1>10. /\ "frame" # "message" /\ "frame" # "kv" /\ "frame" # "request"
       /\ "message" # "kv" /\ "message" # "request" /\ "kv" # "request"
  OBVIOUS
<1> QED
  BY <1>0, <1>1, <1>2, <1>3, <1>4, <1>5, <1>6, <1>7, <1>8, <1>9, <1>10, Zenon DEF Step

(* A step of one task changes no variable of another's.                    *)
LEMMA OthersAlone ==
    ASSUME OwnerInv, NEW t \in Tasks, Step(t), NEW u \in Tasks, u # t
    PROVE  /\ pc'[u] = pc[u] /\ f'[u] = f[u] /\ m'[u] = m[u] /\ todo'[u] = todo[u]
           /\ req'[u] = req[u] /\ ack'[u] = ack[u]
<1>0. /\ DOMAIN pc = Tasks /\ DOMAIN f = Tasks /\ DOMAIN m = Tasks /\ DOMAIN todo = Tasks
      /\ DOMAIN req = Tasks /\ DOMAIN ack = Tasks
  BY DEF OwnerInv, DomInv, ListInv
<1> USE DEF Step, AcquireFrame, AcquireMessage, DecodeMessage, DecodeDone, ReleaseKV, ReacquireKV,
            PutMessage, QuoteName, ResetFrame, ResetMessage, ReleaseFrame, AcquireRequest,
            Handler, AcquireAck, ReleaseAck, ReleaseRequest, taskVars
<1>1. \E l : pc' = [pc EXCEPT ![t] = l]
  BY Zenon
<1>2. f' = f \/ \E x : f' = [f EXCEPT ![t] = x]
  BY Zenon
<1>3. m' = m \/ \E x : m' = [m EXCEPT ![t] = x]
  BY Zenon
<1>4. todo' = todo \/ \E x : todo' = [todo EXCEPT ![t] = x]
  BY Zenon
<1>5. req' = req \/ \E x : req' = [req EXCEPT ![t] = x]
  BY Zenon
<1>6. ack' = ack \/ \E x : ack' = [ack EXCEPT ![t] = x]
  BY Zenon
<1> HIDE DEF Step
<1> QED
  BY <1>0, <1>1, <1>2, <1>3, <1>4, <1>5, <1>6

(* Four steps handle frames and two handle requests; the others leave them *)
(* alone.                                                                  *)
FrameStep(t) == AcquireFrame(t) \/ AcquireAck(t) \/ ReleaseFrame(t) \/ ReleaseAck(t)
LEMMA FramesAlone ==
    ASSUME OwnerInv, NEW t \in Tasks, Step(t), ~FrameStep(t)
    PROVE  /\ Same("frame") /\ UNCHANGED <<f, ack, Actions>>
           /\ \A u \in Tasks : HoldsInbound(u)' => HoldsInbound(u)
           /\ \A u \in Tasks : pc'[u] = "write" => pc[u] = "write"
<1>0. DOMAIN pc = Tasks
  BY DEF OwnerInv, DomInv
<1>1. Same("frame")
  BY LeftAlone, Zenon DEF FrameStep
<1>2. UNCHANGED <<f, ack, Actions>>
  BY Zenon
     DEF FrameStep, Step, AcquireMessage, DecodeMessage, DecodeDone, ReleaseKV, ReacquireKV,
         PutMessage, QuoteName, ResetFrame, ResetMessage, AcquireRequest, Handler,
         ReleaseRequest, taskVars, heapVars
<1>3. HoldsInbound(t) /\ pc'[t] # "write"
  BY <1>0
     DEF FrameStep, Step, AcquireMessage, DecodeMessage, DecodeDone, ReleaseKV, ReacquireKV,
         AcquireKV, PutMessage, QuoteName, ResetFrame, ResetMessage, AcquireRequest, Handler,
         ReleaseRequest, ResetRequest, HoldsInbound, Releasing, Swapping, Putting
<1>4. \A u \in Tasks : u # t => pc'[u] = pc[u]
  BY OthersAlone
<1> QED
  BY <1>1, <1>2, <1>3, <1>4 DEF HoldsInbound

RequestStep(t) == AcquireRequest(t) \/ ReleaseRequest(t)
LEMMA RequestsAlone ==
    ASSUME OwnerInv, NEW t \in Tasks, Step(t), ~RequestStep(t)
    PROVE  /\ Same("request") /\ UNCHANGED <<req, Borrowed>>
           /\ \A u \in Tasks : HasRequest(u)' => HasRequest(u)
<1>0. DOMAIN pc = Tasks
  BY DEF OwnerInv, DomInv
<1>1. Same("request")
  BY LeftAlone, Zenon DEF RequestStep
<1>2. UNCHANGED <<req, Borrowed>>
  BY Zenon
     DEF RequestStep, Step, AcquireFrame, AcquireMessage, DecodeMessage, DecodeDone, ReleaseKV,
         ReacquireKV, PutMessage, QuoteName, ResetFrame, ResetMessage, ReleaseFrame, Handler,
         AcquireAck, ReleaseAck, taskVars, heapVars
<1>3. HasRequest(t)' => HasRequest(t)
  BY <1>0
     DEF RequestStep, Step, AcquireFrame, AcquireMessage, DecodeMessage, DecodeDone, ReleaseKV,
         ReacquireKV, AcquireKV, PutMessage, QuoteName, ResetFrame, ResetMessage, ReleaseFrame,
         Handler, AcquireAck, ReleaseAck, HasRequest, Releasing, Swapping, Putting
<1>4. \A u \in Tasks : u # t => pc'[u] = pc[u]
  BY OthersAlone
<1> QED
  BY <1>1, <1>2, <1>3, <1>4 DEF HasRequest

-----------------------------------------------------------------------------
(* Each part of the invariant is kept.  The types:                         *)
LEMMA DomainsKept == ASSUME OwnerInv, NEW t \in Tasks, Step(t) PROVE DomInv'
<1>0. DomInv
  BY DEF OwnerInv
<1> USE DEF DomInv, heapVars, taskVars, Ids
<1>1. CASE AcquireFrame(t) \/ DecodeDone(t) \/ QuoteName(t) \/ PutMessage(t)
  BY <1>0, <1>1 DEF AcquireFrame, DecodeDone, QuoteName, PutMessage
<1>2. CASE AcquireMessage(t)
  <2>1. DOMAIN m' = DOMAIN m /\ DOMAIN KV' = DOMAIN KV
    BY <1>2, MessageStep
  <2> QED
    BY <1>0, <1>2, <2>1 DEF AcquireMessage
<1>3. CASE DecodeMessage(t)
  BY <1>0, <1>3 DEF DecodeMessage
<1>4. CASE ReleaseKV(t)
  BY <1>0, <1>4 DEF ReleaseKV
<1>5. CASE ReacquireKV(t)
  BY <1>0, <1>5 DEF ReacquireKV, AcquireKV
<1>6. CASE ResetFrame(t) \/ ResetMessage(t) \/ ReleaseFrame(t)
  BY <1>0, <1>6 DEF ResetFrame, ResetMessage, ReleaseFrame
<1>7. CASE AcquireRequest(t) \/ Handler(t) \/ ReleaseRequest(t)
  BY <1>0, <1>7 DEF AcquireRequest, Handler, ReleaseRequest, ResetRequest
<1>8. CASE AcquireAck(t) \/ ReleaseAck(t)
  BY <1>0, <1>8 DEF AcquireAck, ReleaseAck
<1> QED
  BY <1>1, <1>2, <1>3, <1>4, <1>5, <1>6, <1>7, <1>8 DEF Step

LEMMA ListsKept == ASSUME OwnerInv, NEW t \in Tasks, Step(t) PROVE ListInv'
<1>0. ListInv /\ Ids' = Ids
  BY DEF OwnerInv, Ids
<1>f. HoldsInbound(t) => f[t] \in Ids
  BY DEF OwnerInv, FrameInv, InUse
<1>q. ASSUME todo' = todo, Messages' = Messages PROVE ListInv'
  BY <1>0, <1>q DEF ListInv
<1>e. ASSUME NEW i, NEW list, list \in Seq(Ids), Messages' = [Messages EXCEPT ![i] = list],
             todo' = todo
      PROVE  ListInv'
  <2> DEFINE Lists == Seq(Ids)
  <2>1. /\ todo \in [Tasks -> Lists] /\ Messages \in [Ids -> Lists] /\ list \in Lists
        /\ Messages' = [Messages EXCEPT ![i] = list] /\ todo' = todo
    BY <1>0, <1>e DEF ListInv
  <2> HIDE DEF Lists
  <2>2. todo' \in [Tasks -> Lists] /\ Messages' \in [Ids -> Lists]
    BY <2>1, Zenon
  <2> QED
    BY <1>0, <2>2 DEF ListInv, Lists
<1>1. CASE DecodeMessage(t)
  <2>1. m[t] \in Ids /\ f[t] \in Ids
    BY <1>1, <1>f, WorkingOwns DEF DecodeMessage, Working, HoldsInbound, Swapping
  <2>2. todo' = todo
    BY <1>1 DEF DecodeMessage, taskVars
  <2>3. Messages' = Messages \/ Messages' = [Messages EXCEPT ![f[t]] = Append(@, m[t])]
    BY <1>1, Zenon DEF DecodeMessage
  <2>4. Messages[f[t]] \in Seq(Ids) /\ Append(Messages[f[t]], m[t]) \in Seq(Ids)
    BY <1>0, <2>1 DEF ListInv
  <2> QED
    BY <1>q, <1>e, <2>2, <2>3, <2>4, Zenon
<1>2. CASE ResetFrame(t)
  <2>1. /\ f[t] \in Ids /\ todo' = [todo EXCEPT ![t] = Messages[f[t]]]
        /\ Messages' = Messages
    BY <1>2, <1>f DEF ResetFrame, HoldsInbound, heapVars
  <2> QED
    BY <1>0, <2>1 DEF ListInv
<1>3. CASE ResetMessage(t)
  <2>1. todo' = [todo EXCEPT ![t] = Tail(@)] /\ Messages' = Messages /\ todo[t] # <<>>
    BY <1>3 DEF ResetMessage, heapVars
  <2>2. Tail(todo[t]) \in Seq(Ids)
    BY <1>0, <2>1 DEF ListInv
  <2> QED
    BY <1>0, <2>1, <2>2 DEF ListInv
<1>4. CASE ReleaseFrame(t)
  <2>1. Messages' = [Messages EXCEPT ![f[t]] = <<>>] /\ todo' = todo
    BY <1>4 DEF ReleaseFrame, taskVars
  <2>2. <<>> \in Seq(Ids)
    OBVIOUS
  <2> QED
    BY <1>e, <2>1, <2>2, Zenon
<1>5. CASE \/ AcquireFrame(t) \/ AcquireMessage(t) \/ DecodeDone(t) \/ ReleaseKV(t)
           \/ ReacquireKV(t) \/ PutMessage(t) \/ QuoteName(t) \/ AcquireRequest(t)
           \/ Handler(t) \/ AcquireAck(t) \/ ReleaseAck(t) \/ ReleaseRequest(t)
  BY <1>5, <1>q, Zenon
     DEF AcquireFrame, AcquireMessage, DecodeDone, ReleaseKV, ReacquireKV, PutMessage, QuoteName,
         AcquireRequest, Handler, AcquireAck, ReleaseAck, ReleaseRequest, taskVars, heapVars
<1> QED
  BY <1>1, <1>2, <1>3, <1>4, <1>5 DEF Step

(* Frames.                                                                 *)
LEMMA FramesKept == ASSUME OwnerInv, NEW t \in Tasks, Step(t) PROVE FrameInv'
<1>0. DOMAIN pc = Tasks /\ DOMAIN f = Tasks /\ DOMAIN ack = Tasks /\ FrameInv
  BY DEF OwnerInv, DomInv
<1> USE DEF FrameInv, HoldsInbound, InUse, Releasing, Swapping, Putting, taskVars
<1>i. Ids' = Ids
  BY DEF Ids
<1>1. CASE AcquireFrame(t)
  <2>1. PICK x : Took("frame", x) /\ f' = [f EXCEPT ![t] = x]
    BY <1>1, TakingSteps
  <2> QED
    BY <1>0, <1>i, <1>1, <2>1 DEF AcquireFrame, Took
<1>2. CASE AcquireAck(t)
  <2>1. PICK x : Took("frame", x) /\ ack' = [ack EXCEPT ![t] = x]
    BY <1>2, TakingSteps
  <2> QED
    BY <1>0, <1>i, <1>2, <2>1 DEF AcquireAck, Took
<1>3. CASE ReleaseAck(t)
  <2>1. Gave("frame", ack[t])
    BY <1>3, GivingSteps
  <2> QED
    BY <1>0, <1>i, <1>3, <2>1 DEF ReleaseAck, Gave
<1>4. CASE ReleaseFrame(t)
  <2>1. Gave("frame", f[t])
    BY <1>4, GivingSteps
  <2> QED
    BY <1>0, <1>i, <1>4, <2>1 DEF ReleaseFrame, Gave
<1>5. CASE ~FrameStep(t)
  BY <1>0, <1>i, <1>5, FramesAlone DEF Same
<1> QED
  BY <1>1, <1>2, <1>3, <1>4, <1>5 DEF FrameStep

(* Requests.                                                               *)
LEMMA RequestsKept == ASSUME OwnerInv, NEW t \in Tasks, Step(t) PROVE RequestInv'
<1>0. DOMAIN pc = Tasks /\ DOMAIN req = Tasks /\ RequestInv /\ Ids' = Ids
  BY DEF OwnerInv, DomInv, Ids
<1> USE DEF RequestInv, HasRequest, InUse, Releasing, Swapping, Putting, taskVars
<1>1. CASE AcquireRequest(t)
  <2>1. PICK x : Took("request", x) /\ req' = [req EXCEPT ![t] = x]
    BY <1>1, TakingSteps
  <2> QED
    BY <1>0, <1>1, <2>1 DEF AcquireRequest, Took
<1>2. CASE ReleaseRequest(t)
  <2>1. Gave("request", req[t])
    BY <1>2, GivingSteps
  <2> QED
    BY <1>0, <1>2, <2>1 DEF ReleaseRequest, ResetRequest, Gave
<1>3. CASE ~RequestStep(t)
  BY <1>0, <1>3, RequestsAlone DEF Same
<1> QED
  BY <1>1, <1>2, <1>3 DEF RequestStep

(* The lists: what a task has listed, and is at work on, is changed by no  *)
(* other task.                                                             *)
LEMMA OthersLists ==
    ASSUME OwnerInv, NEW t \in Tasks, Step(t), NEW u \in Tasks, u # t
    PROVE  /\ pc'[u] = pc[u] /\ m'[u] = m[u]
           /\ Listed(u)' = Listed(u) /\ HeldMessages(u)' = HeldMessages(u)
<1>0. DomInv /\ ListInv /\ FrameInv
  BY DEF OwnerInv
<1>1. /\ pc'[u] = pc[u] /\ f'[u] = f[u] /\ m'[u] = m[u] /\ todo'[u] = todo[u]
  BY OthersAlone
<1>2. HoldsInbound(u) => Messages'[f[u]] = Messages[f[u]]
  <2>1. \/ Messages' = Messages
        \/ HoldsInbound(t) /\ \E x : Messages' = [Messages EXCEPT ![f[t]] = x]
    <3>1. CASE DecodeMessage(t) \/ ReleaseFrame(t)
      <4>1. HoldsInbound(t)
        BY <3>1 DEF DecodeMessage, ReleaseFrame, HoldsInbound
      <4> QED
        BY <3>1, <4>1, Zenon DEF DecodeMessage, ReleaseFrame
    <3>2. CASE ~(DecodeMessage(t) \/ ReleaseFrame(t))
      BY <3>2, Zenon
         DEF Step, AcquireFrame, AcquireMessage, DecodeDone, ReleaseKV, ReacquireKV, PutMessage,
             QuoteName, ResetFrame, ResetMessage, AcquireRequest, Handler, AcquireAck,
             ReleaseAck, ReleaseRequest, heapVars
    <3> QED
      BY <3>1, <3>2
  <2>2. DOMAIN Messages = Ids
    BY <1>0 DEF ListInv
  <2>3. HoldsInbound(u) => f[u] \in Ids
    BY <1>0 DEF FrameInv, InUse
  <2>4. HoldsInbound(u) /\ HoldsInbound(t) => f[u] # f[t]
    BY <1>0 DEF FrameInv
  <2> QED
    BY <2>1, <2>2, <2>3, <2>4
<1>3. Listed(u)' = Listed(u)
  BY <1>1, <1>2, Zenon DEF Listed, HoldsInbound
<1>4. HeldMessages(u)' = HeldMessages(u)
  BY <1>1, <1>3, Zenon DEF HeldMessages, Working, Elems
<1> QED
  BY <1>1, <1>3, <1>4

(* The frames that list nothing.                                           *)
LEMMA EmptyKept == ASSUME OwnerInv, NEW t \in Tasks, Step(t) PROVE EmptyInv'
<1>0. /\ DOMAIN pc = Tasks /\ DOMAIN f = Tasks /\ DOMAIN ack = Tasks /\ DOMAIN Messages = Ids
      /\ FrameInv /\ EmptyInv
  BY DEF OwnerInv, DomInv, ListInv
<1> USE DEF EmptyInv, HoldsInbound, InUse, Releasing, Swapping, Putting, heapVars, taskVars
<1>1. CASE AcquireFrame(t)
  <2>1. PICK x : Took("frame", x) /\ f' = [f EXCEPT ![t] = x]
    BY <1>1, TakingSteps
  <2> QED
    BY <1>0, <1>1, <2>1 DEF AcquireFrame, Took
<1>2. CASE AcquireAck(t)
  <2>1. PICK x : Took("frame", x) /\ ack' = [ack EXCEPT ![t] = x]
    BY <1>2, TakingSteps
  <2> QED
    BY <1>0, <1>2, <2>1 DEF AcquireAck, Took
<1>3. CASE ReleaseAck(t)
  <2>1. Gave("frame", ack[t])
    BY <1>3, GivingSteps
  <2> QED
    BY <1>0, <1>3, <2>1 DEF ReleaseAck, Gave
<1>4. CASE ReleaseFrame(t)
  <2>1. Gave("frame", f[t])
    BY <1>4, GivingSteps
  <2> QED
    BY <1>0, <1>4, <2>1 DEF ReleaseFrame, Gave, FrameInv
<1>5. CASE DecodeMessage(t)
  <2>1. Same("frame") /\ ack' = ack /\ \A u \in Tasks : pc'[u] = "write" => pc[u] = "write"
    <3>1. ~FrameStep(t)
      BY <1>5 DEF DecodeMessage, FrameStep, AcquireFrame, AcquireAck, ReleaseFrame, ReleaseAck
    <3> QED
      BY <3>1, FramesAlone
  <2>2. f[t] \in InUse("frame") /\ \A u \in Tasks : pc[u] = "write" => f[t] # ack[u]
    BY <1>0, <1>5 DEF DecodeMessage, FrameInv
  <2>3. \A i \in Ids : i # f[t] => Messages'[i] = Messages[i]
    BY <1>0, <1>5 DEF DecodeMessage
  <2>4. Free("frame") \subseteq Ids /\ \A u \in Tasks : pc[u] = "write" => ack[u] \in Ids
    BY <1>0, PoolsAssumption DEF OwnerInv, BagInv, Free, Ids, Kinds, FrameInv
  <2> QED
    BY <1>0, <2>1, <2>2, <2>3, <2>4 DEF Same
<1>6. CASE ~FrameStep(t) /\ ~DecodeMessage(t)
  <2>1. Messages' = Messages
    BY <1>6, Zenon
       DEF FrameStep, Step, AcquireMessage, DecodeDone, ReleaseKV, ReacquireKV, PutMessage,
           QuoteName, ResetFrame, ResetMessage, AcquireRequest, Handler, ReleaseRequest, heapVars
  <2> QED
    BY <1>0, <1>6, <2>1, FramesAlone DEF Same
<1> QED
  BY <1>1, <1>2, <1>3, <1>4, <1>5, <1>6 DEF FrameStep

(* Lists.                                                                  *)
LEMMA AppendElems ==
    ASSUME NEW s \in Seq(Ids), NEW x \in Ids
    PROVE  /\ Elems(Append(s, x)) = Elems(s) \cup {x}
           /\ NoDup(s) /\ x \notin Elems(s) => NoDup(Append(s, x))
  BY DEF Elems, NoDup

LEMMA TailElems ==
    ASSUME NEW s \in Seq(Ids), s # <<>>
    PROVE  /\ Elems(s) = Elems(Tail(s)) \cup {Head(s)}
           /\ NoDup(s) => NoDup(Tail(s)) /\ Head(s) \notin Elems(Tail(s))
<1>1. /\ Len(s) \in Nat /\ Len(s) > 0 /\ DOMAIN s = 1 .. Len(s)
      /\ DOMAIN Tail(s) = 1 .. Len(s) - 1 /\ Len(Tail(s)) = Len(s) - 1
      /\ Head(s) = s[1] /\ \A i \in 1 .. Len(s) - 1 : Tail(s)[i] = s[i + 1]
  OBVIOUS
<1> DEFINE r == Tail(s) n == Len(s)
<1>2. /\ n \in Nat /\ n > 0 /\ DOMAIN s = 1 .. n /\ DOMAIN r = 1 .. n - 1 /\ Len(r) = n - 1
      /\ Len(s) = n /\ Head(s) = s[1] /\ \A i \in 1 .. n - 1 : r[i] = s[i + 1]
  BY <1>1
<1> HIDE DEF r, n
<1>3. Elems(s) \subseteq Elems(r) \cup {Head(s)}
  <2> SUFFICES ASSUME NEW i \in 1 .. n PROVE s[i] \in Elems(r) \cup {s[1]}
    BY <1>2 DEF Elems
  <2>1. CASE i = 1
    BY <2>1
  <2>2. CASE i # 1
    <3>1. i - 1 \in 1 .. n - 1 /\ r[i - 1] = s[i]
      BY <1>2, <2>2
    <3> QED
      BY <1>2, <3>1 DEF Elems
  <2> QED
    BY <2>1, <2>2
<1>4. Elems(r) \cup {Head(s)} \subseteq Elems(s)
  <2>1. 1 \in 1 .. n /\ \A i \in 1 .. n - 1 : i + 1 \in 1 .. n
    BY <1>2
  <2> QED
    BY <1>2, <2>1 DEF Elems
<1>5. ASSUME NoDup(s) PROVE NoDup(r) /\ Head(s) \notin Elems(r)
  <2>1. \A i, j \in 1 .. n : s[i] = s[j] => i = j
    BY <1>2, <1>5 DEF NoDup
  <2>2. NoDup(r)
    BY <1>2, <2>1 DEF NoDup
  <2>3. \A i \in 1 .. n - 1 : r[i] # s[1]
    BY <1>2, <2>1
  <2> QED
    BY <1>2, <2>2, <2>3 DEF Elems
<1> QED
  BY <1>3, <1>4, <1>5 DEF r

(* A task's own list: what a step does to it and to what the task holds.   *)
LEMMA OwnList ==
    ASSUME OwnerInv, NEW t \in Tasks, Step(t)
    PROVE  /\ NoDup(Listed(t)')
           /\ Working(t)' => m'[t] \notin Elems(Listed(t)')
           /\ \/ Same("message") /\ HeldMessages(t)' \subseteq HeldMessages(t)
              \/ \E x : /\ Took("message", x)
                        /\ HeldMessages(t)' \subseteq HeldMessages(t) \cup {x}
              \/ /\ Gave("message", m[t])
                 /\ HeldMessages(t)' \subseteq HeldMessages(t) \ {m[t]}
<1>0. /\ DOMAIN pc = Tasks /\ DOMAIN f = Tasks /\ DOMAIN m = Tasks /\ DOMAIN todo = Tasks
      /\ DOMAIN Messages = Ids
  BY DEF OwnerInv, DomInv, ListInv
<1>1. /\ NoDup(Listed(t)) /\ (Working(t) => m[t] \notin Elems(Listed(t)))
      /\ HeldMessages(t) \subseteq InUse("message")
  BY DEF OwnerInv, MessageInv
<1>2. HoldsInbound(t) => f[t] \in Ids /\ Messages[f[t]] \in Seq(Ids)
  BY DEF OwnerInv, ListInv, FrameInv, InUse
<1>s. pc[t] \notin Putting /\ ~(pc[t] = "decode" /\ pc'[t] = "name") => Same("message")
  <2>1. AcquireMessage(t) => pc[t] = "decode" /\ pc'[t] = "name"
    BY <1>0 DEF AcquireMessage
  <2>2. PutMessage(t) => pc[t] \in Putting
    BY DEF PutMessage
  <2> QED
    BY <2>1, <2>2, LeftAlone, Zenon
<1> DEFINE L == Listed(t) LL == Listed(t)' W == Working(t) WW == Working(t)'
<1>3. /\ HeldMessages(t) = Elems(L) \cup (IF W THEN {m[t]} ELSE {})
      /\ HeldMessages(t)' = Elems(LL) \cup (IF WW THEN {m'[t]} ELSE {})
  BY Zenon DEF HeldMessages, Elems
(* Most steps only move the task on.                                       *)
<1>k. ASSUME LL = L, WW => W /\ m'[t] = m[t], Same("message")
      PROVE  /\ NoDup(LL) /\ (WW => m'[t] \notin Elems(LL))
             /\ Same("message") /\ HeldMessages(t)' \subseteq HeldMessages(t)
  <2> HIDE DEF L, LL, W, WW
  <2>1. NoDup(L) /\ (W => m[t] \notin Elems(L))
    BY <1>1 DEF L, W
  <2> QED
    BY <1>3, <1>k, <2>1
<1>4. CASE AcquireFrame(t)
  <2>1. PICK x : Took("frame", x) /\ f' = [f EXCEPT ![t] = x]
    BY <1>4, TakingSteps
  <2>2. Messages[x] = <<>> /\ Messages' = Messages
    BY <1>4, <2>1 DEF AcquireFrame, Took, OwnerInv, EmptyInv, heapVars
  <2>3. LL = <<>> /\ ~WW
    BY <1>0, <1>4, <2>1, <2>2
       DEF AcquireFrame, Listed, HoldsInbound, Working, Releasing, Swapping, Putting
  <2>4. Same("message")
    BY <1>0, <1>4, <1>s DEF AcquireFrame, Putting
  <2>5. Elems(<<>>) = {} /\ NoDup(<<>>)
    BY DEF Elems, NoDup
  <2> HIDE DEF LL, WW
  <2>6. NoDup(LL) /\ HeldMessages(t)' \subseteq HeldMessages(t)
    BY <1>3, <2>3, <2>5
  <2> QED
    BY <2>3, <2>4, <2>6 DEF LL, WW
<1>5. CASE AcquireMessage(t)
  <2>1. PICK x : Took("message", x) /\ m' = [m EXCEPT ![t] = x]
    BY <1>5, MessageStep
  <2>2. LL = L
    BY <1>0, <1>5 DEF AcquireMessage, Listed, HoldsInbound
  <2>3. x \notin HeldMessages(t) /\ m'[t] = x
    BY <1>0, <1>1, <2>1 DEF Took, InUse
  <2> HIDE DEF LL, L, W, WW
  <2>4. x \notin Elems(LL) /\ HeldMessages(t)' \subseteq HeldMessages(t) \cup {x} /\ NoDup(LL)
    BY <1>1, <1>3, <2>2, <2>3 DEF L
  <2> QED
    BY <2>1, <2>3, <2>4, Zenon DEF LL, WW
<1>6. CASE DecodeMessage(t)
  <2>1. Same("message")
    BY <1>0, <1>6, <1>s DEF DecodeMessage, Putting
  <2>2. /\ pc[t] = "name" /\ f' = f /\ m' = m /\ HoldsInbound(t) /\ W
        /\ L = Messages[f[t]]
    BY <1>6 DEF DecodeMessage, taskVars, HoldsInbound, Listed, Working
  <2>3. \/ Messages' = Messages /\ pc'[t] \in {"drop", "dropAndQuote"}
        \/ /\ Messages' = [Messages EXCEPT ![f[t]] = Append(@, m[t])]
           /\ pc'[t] = "decode"
    BY <1>0, <1>6 DEF DecodeMessage
  <2>4. CASE Messages' = Messages /\ pc'[t] \in {"drop", "dropAndQuote"}
    <3>1. LL = L
      BY <2>2, <2>4 DEF Listed, HoldsInbound
    <3> HIDE DEF LL, L, W, WW
    <3> QED
      BY <1>k, <2>1, <2>2, <3>1 DEF LL, WW
  <2>5. CASE /\ Messages' = [Messages EXCEPT ![f[t]] = Append(@, m[t])]
             /\ pc'[t] = "decode"
    <3>1. LL = Append(L, m[t]) /\ ~WW
      BY <1>0, <1>2, <2>2, <2>5
         DEF Listed, HoldsInbound, Working, Releasing, Swapping, Putting
    <3>2. m[t] \in Ids /\ L \in Seq(Ids)
      BY <1>2, <2>2, WorkingOwns DEF Swapping
    <3>3. NoDup(L) /\ m[t] \notin Elems(L)
      BY <1>1, <2>2
    <3> HIDE DEF LL, L, W, WW
    <3>4. NoDup(LL) /\ Elems(LL) = Elems(L) \cup {m[t]}
      BY <3>1, <3>2, <3>3, AppendElems
    <3>5. HeldMessages(t)' \subseteq HeldMessages(t)
      BY <1>3, <2>2, <3>1, <3>4
    <3> QED
      BY <2>1, <3>1, <3>4, <3>5 DEF LL, WW
  <2> QED
    BY <2>3, <2>4, <2>5
<1>7. CASE PutMessage(t)
  <2>1. Gave("message", m[t])
    BY <1>7, GivingSteps
  <2>2. LL = L /\ ~WW /\ W
    BY <1>0, <1>7 DEF PutMessage, Listed, HoldsInbound, Working, Releasing, Swapping, Putting,
                      taskVars, heapVars
  <2> HIDE DEF LL, L, W, WW
  <2>3. NoDup(LL) /\ HeldMessages(t)' \subseteq HeldMessages(t) \ {m[t]}
    BY <1>1, <1>3, <2>2 DEF L, W
  <2> QED
    BY <2>1, <2>2, <2>3 DEF LL, WW
<1>8. CASE ResetMessage(t)
  <2>1. Same("message")
    BY <1>0, <1>8, <1>s DEF ResetMessage, Putting
  <2>2. /\ L = todo[t] /\ L # <<>> /\ LL = Tail(L) /\ m'[t] = Head(L)
    BY <1>0, <1>8 DEF ResetMessage, Listed
  <2>3. L \in Seq(Ids)
    BY <2>2 DEF OwnerInv, ListInv
  <2>4. NoDup(L)
    BY <1>1
  <2> HIDE DEF LL, L, W, WW
  <2>5. /\ Elems(L) = Elems(LL) \cup {m'[t]} /\ NoDup(LL) /\ m'[t] \notin Elems(LL)
    BY <2>2, <2>3, <2>4, TailElems
  <2>6. HeldMessages(t)' \subseteq HeldMessages(t)
    BY <1>3, <2>5
  <2> QED
    BY <2>1, <2>5, <2>6 DEF LL, WW
<1>9. CASE ReleaseFrame(t)
  <2>1. Same("message")
    BY <1>0, <1>9, <1>s DEF ReleaseFrame, Putting
  <2>2. LL = <<>> /\ L = <<>> /\ ~WW
    BY <1>0, <1>9 DEF ReleaseFrame, Listed, HoldsInbound, Working, Releasing, Swapping, Putting,
                      taskVars
  <2> HIDE DEF LL, L, W, WW
  <2> QED
    BY <1>k, <2>1, <2>2 DEF LL, WW
<1>10. CASE DecodeDone(t) \/ QuoteName(t) \/ ResetFrame(t)
  <2>1. Same("message")
    BY <1>0, <1>10, <1>s DEF DecodeDone, QuoteName, ResetFrame, Putting
  <2>2. LL = L /\ ~WW
    BY <1>0, <1>10 DEF DecodeDone, QuoteName, ResetFrame, Listed, HoldsInbound, Working,
                       Releasing, Swapping, Putting, taskVars, heapVars
  <2> HIDE DEF LL, L, W, WW
  <2> QED
    BY <1>k, <2>1, <2>2 DEF LL, WW
<1>11. CASE ReleaseKV(t) \/ ReacquireKV(t)
  <2>1. Same("message")
    BY <1>11, <1>s DEF ReleaseKV, ReacquireKV, AcquireKV, Releasing, Swapping, Putting
  <2>2. LL = L /\ W /\ m' = m
    BY <1>0, <1>11 DEF ReleaseKV, ReacquireKV, AcquireKV, Listed, HoldsInbound, Working,
                       Releasing, Swapping, Putting, taskVars
  <2> HIDE DEF LL, L, W, WW
  <2> QED
    BY <1>k, <2>1, <2>2 DEF LL, WW
<1>12. CASE AcquireRequest(t) \/ Handler(t) \/ ReleaseRequest(t) \/ AcquireAck(t) \/ ReleaseAck(t)
  <2>1. Same("message")
    BY <1>12, <1>s DEF AcquireRequest, Handler, ReleaseRequest, ResetRequest, AcquireAck,
                       ReleaseAck, Putting
  <2>2. LL = L /\ ~WW
    BY <1>0, <1>12 DEF AcquireRequest, Handler, ReleaseRequest, ResetRequest, AcquireAck,
                       ReleaseAck, Listed, HoldsInbound, Working, Releasing, Swapping, Putting,
                       taskVars
  <2> HIDE DEF LL, L, W, WW
  <2> QED
    BY <1>k, <2>1, <2>2 DEF LL, WW
<1> QED
  BY <1>4, <1>5, <1>6, <1>7, <1>8, <1>9, <1>10, <1>11, <1>12, Zenon DEF Step

-----------------------------------------------------------------------------

(* Messages: what a task holds is in use, and held by nobody else.         *)
LEMMA MessagesKept == ASSUME OwnerInv, NEW t \in Tasks, Step(t) PROVE MessageInv'
<1>0. MessageInv /\ Ids' = Ids
  BY DEF OwnerInv, Ids
<1> DEFINE H(u) == HeldMessages(u)  HH(u) == HeldMessages(u)'
           F == Free("message")  FF == Free("message")'
<1>1. /\ \A u \in Tasks : H(u) \subseteq Ids \ F
      /\ \A u, v \in Tasks : u # v => H(u) \cap H(v) = {}
  BY <1>0 DEF MessageInv, InUse
<1>2. \A u \in Tasks : u # t => HH(u) = H(u)
  BY OthersLists, Zenon
<1>3. \/ FF = F /\ HH(t) \subseteq H(t)
      \/ \E x \in Ids : x \in F /\ FF = F \ {x} /\ HH(t) \subseteq H(t) \cup {x}
      \/ FF = F \cup {m[t]} /\ m[t] \in H(t) /\ HH(t) \subseteq H(t) \ {m[t]}
  <2>1. CASE Gave("message", m[t]) /\ HeldMessages(t)' \subseteq HeldMessages(t) \ {m[t]}
    <3>1. CASE m[t] \in H(t)
      BY <2>1, <3>1 DEF Gave
    <3>2. CASE m[t] \notin H(t)
      <4>1. ~PutMessage(t)
        BY <3>2 DEF PutMessage, HeldMessages, Working
      <4>2. m[t] \notin F /\ m[t] \in FF
        BY <2>1 DEF Gave, InUse
      <4>3. AcquireMessage(t)
        BY <4>1, <4>2, LeftAlone, Zenon DEF Same
      <4> QED
        BY <4>2, <4>3, MessageStep DEF Took
    <3> QED
      BY <3>1, <3>2
  <2> QED
    BY <2>1, OwnList DEF Same, Took
<1>4. (\A u \in Tasks : NoDup(Listed(u)') /\ (Working(u)' => m'[u] \notin Elems(Listed(u)')))
  <2> SUFFICES ASSUME NEW u \in Tasks, u # t
               PROVE NoDup(Listed(u)') /\ (Working(u)' => m'[u] \notin Elems(Listed(u)'))
    BY OwnList
  <2>1. pc'[u] = pc[u] /\ m'[u] = m[u] /\ Listed(u)' = Listed(u)
    BY OthersLists
  <2>2. Working(u)' = Working(u)
    BY <2>1 DEF Working
  <2> QED
    BY <1>0, <2>1, <2>2, Zenon DEF MessageInv
<1> HIDE DEF H, HH, F, FF
<1>5. /\ \A u \in Tasks : HH(u) \subseteq Ids \ FF
      /\ \A u, v \in Tasks : u # v => HH(u) \cap HH(v) = {}
  <2>1. CASE FF = F /\ HH(t) \subseteq H(t)
    BY <1>1, <1>2, <2>1
  <2>2. CASE \E x \in Ids : x \in F /\ FF = F \ {x} /\ HH(t) \subseteq H(t) \cup {x}
    BY <1>1, <1>2, <2>2
  <2>3. CASE FF = F \cup {m[t]} /\ m[t] \in H(t) /\ HH(t) \subseteq H(t) \ {m[t]}
    BY <1>1, <1>2, <2>3
  <2> QED
    BY <1>3, <2>1, <2>2, <2>3
<1>6. /\ \A u \in Tasks : HeldMessages(u)' \subseteq InUse("message")'
      /\ \A u, v \in Tasks : u # v => HeldMessages(u)' \cap HeldMessages(v)' = {}
  BY <1>0, <1>5, Zenon DEF HH, FF, InUse
<1> QED
  BY <1>4, <1>6, Zenon DEF MessageInv, NoDup, Elems

(* KVs: a message that is made or swaps its KV gets one nobody owns.       *)
LEMMA KVsKept == ASSUME OwnerInv, NEW t \in Tasks, Step(t) PROVE KVInv'
<1>0. /\ KVInv /\ DOMAIN pc = Tasks /\ DOMAIN m = Tasks /\ DOMAIN KV = Ids /\ Ids' = Ids
      /\ made["message"] \in Nat /\ 1 .. made["message"] \subseteq Ids
      /\ \A x \in Free("kv") : x \notin InUse("kv")
  BY PoolsAssumption DEF OwnerInv, DomInv, BagInv, Kinds, Ids, InUse
<1>1. \A u \in Tasks : u # t => pc'[u] = pc[u] /\ m'[u] = m[u]
  BY OthersLists, Zenon
(* The effect of a step on who owns a KV.                                  *)
<1>o. ASSUME pc[t] \notin Swapping, NEW x, x \in 1 .. made["message"], Owns(x)'
      PROVE  Owns(x)
  BY <1>1, <1>o DEF Owns
<1>q. ASSUME KV' = KV, Same("kv"), made'["message"] = made["message"], pc[t] \notin Swapping
      PROVE  KVInv'
  <2>1. \A x : Owns(x)' => Owns(x)
    BY <1>o, <1>q DEF Owns
  <2>2. InUse("kv")' = InUse("kv")
    BY <1>0, <1>q DEF InUse, Same
  <2> QED
    BY <1>0, <1>q, <2>1, <2>2 DEF KVInv
<1>2. CASE AcquireMessage(t)
  <2>0. pc[t] \notin Swapping
    BY <1>2 DEF AcquireMessage, Swapping
  <2>1. PICK x : /\ Took("message", x) /\ m' = [m EXCEPT ![t] = x]
                 /\ \/ /\ x \in Pooled("message") /\ Same("kv") /\ KV' = KV
                       /\ made'["message"] = made["message"]
                    \/ /\ x = made["message"] + 1 /\ made'["message"] = x
                       /\ \E k : Took("kv", k) /\ KV' = [KV EXCEPT ![x] = k]
    BY <1>2, MessageStep, Zenon
  <2>2. CASE Same("kv") /\ KV' = KV /\ made'["message"] = made["message"]
    BY <1>q, <2>0, <2>2
  <2>3. ASSUME x = made["message"] + 1, made'["message"] = x, NEW k, Took("kv", k),
               KV' = [KV EXCEPT ![x] = k]
        PROVE  KVInv'
    <3>1. x \in Ids /\ k \in Ids /\ k \notin InUse("kv") /\ InUse("kv")' = InUse("kv") \cup {k}
      BY <1>0, <2>1, <2>3 DEF Took, InUse
    <3>2. KV'[x] = k /\ \A y \in Ids : y # x => KV'[y] = KV[y]
      BY <1>0, <2>3, <3>1
    <3>3. \A y : Owns(y)' => Owns(y) \/ y = x
      <4> SUFFICES ASSUME NEW y, Owns(y)', y # x PROVE Owns(y)
        OBVIOUS
      <4>1. y \in 1 .. made["message"]
        BY <1>0, <2>3 DEF Owns
      <4> QED
        BY <1>o, <2>0, <4>1
    <3>4. ~Owns(x) /\ 1 .. made'["message"] = (1 .. made["message"]) \cup {x}
      BY <1>0, <2>3 DEF Owns
    <3>5. \A y \in 1 .. made'["message"] : KV'[y] \in Ids
      BY <1>0, <3>1, <3>2, <3>4 DEF KVInv
    <3>6. \A y \in Ids : Owns(y)' => KV'[y] \in InUse("kv")'
      BY <1>0, <3>1, <3>2, <3>3 DEF KVInv
    <3>7. \A y, z \in Ids : Owns(y)' /\ Owns(z)' /\ y # z => KV'[y] # KV'[z]
      BY <1>0, <3>1, <3>2, <3>3 DEF KVInv
    <3> QED
      BY <1>0, <3>5, <3>6, <3>7 DEF KVInv
  <2> QED
    BY <2>1, <2>2, <2>3, Zenon
<1>3. CASE ReleaseKV(t)
  <2>1. /\ pc[t] \in Releasing /\ pc[t] \notin Swapping /\ pc'[t] \in Swapping /\ m' = m
        /\ KV' = KV
    BY <1>0, <1>3 DEF ReleaseKV, Releasing, Swapping, taskVars
  <2>2. Gave("kv", KV[m[t]]) /\ made'["message"] = made["message"]
    BY <1>3, GivingSteps, Zenon DEF ReleaseKV
  <2>3. Owns(m[t]) /\ m[t] \in Ids
    BY <2>1, WorkingOwns DEF Working
  <2>4. \A y : Owns(y)' => Owns(y) /\ y # m[t]
    BY <1>o, <2>1, <2>2 DEF Owns
  <2>5. InUse("kv")' = InUse("kv") \ {KV[m[t]]}
    BY <1>0, <2>2 DEF InUse, Gave
  <2>6. \A y \in 1 .. made'["message"] : KV'[y] \in Ids
    BY <1>0, <2>1, <2>2 DEF KVInv
  <2>7. \A y \in Ids : Owns(y)' => KV'[y] \in InUse("kv")'
    BY <1>0, <2>1, <2>3, <2>4, <2>5 DEF KVInv
  <2>8. \A y, z \in Ids : Owns(y)' /\ Owns(z)' /\ y # z => KV'[y] # KV'[z]
    BY <1>0, <2>1, <2>4 DEF KVInv
  <2> QED
    BY <1>0, <2>6, <2>7, <2>8 DEF KVInv
<1>4. CASE ReacquireKV(t)
  <2>1. PICK k : Took("kv", k) /\ KV' = [KV EXCEPT ![m[t]] = k]
    BY <1>4, TakingSteps
  <2>2. pc[t] \in Swapping /\ m' = m
    BY <1>4 DEF ReacquireKV, AcquireKV, taskVars
  <2>3. made'["message"] = made["message"]
    BY <2>2, LeftAlone DEF AcquireMessage, Swapping
  <2>4. k \in Ids /\ k \notin InUse("kv") /\ InUse("kv")' = InUse("kv") \cup {k}
    BY <1>0, <2>1 DEF Took, InUse
  <2>5. \A y \in Ids : KV'[y] = IF y = m[t] THEN k ELSE KV[y]
    BY <1>0, <2>1
  <2>6. \A y : Owns(y)' => Owns(y) \/ y = m[t]
    BY <1>1, <2>2, <2>3 DEF Owns
  <2>7. \A y \in 1 .. made'["message"] : KV'[y] \in Ids
    BY <1>0, <2>3, <2>4, <2>5 DEF KVInv
  <2>8. \A y \in Ids : Owns(y)' => KV'[y] \in InUse("kv")'
    BY <1>0, <2>4, <2>5, <2>6 DEF KVInv
  <2>9. \A y, z \in Ids : Owns(y)' /\ Owns(z)' /\ y # z => KV'[y] # KV'[z]
    BY <1>0, <2>4, <2>5, <2>6 DEF KVInv
  <2> QED
    BY <1>0, <2>7, <2>8, <2>9 DEF KVInv
<1>5. CASE ~(AcquireMessage(t) \/ ReleaseKV(t) \/ ReacquireKV(t))
  <2>1. KV' = KV
    BY <1>5, Zenon
       DEF Step, AcquireFrame, DecodeMessage, DecodeDone, PutMessage, QuoteName, ResetFrame,
           ResetMessage, ReleaseFrame, AcquireRequest, Handler, AcquireAck, ReleaseAck,
           ReleaseRequest, heapVars
  <2>2. pc[t] \notin Swapping
    BY <1>5
       DEF Step, AcquireFrame, DecodeMessage, DecodeDone, PutMessage, QuoteName, ResetFrame,
           ResetMessage, ReleaseFrame, AcquireRequest, Handler, AcquireAck, ReleaseAck,
           ReleaseRequest, ResetRequest, Swapping, Putting
  <2>3. Same("kv") /\ made'["message"] = made["message"]
    BY <1>5, LeftAlone, Zenon
  <2> QED
    BY <1>q, <2>1, <2>2, <2>3
<1> QED
  BY <1>2, <1>3, <1>4, <1>5

LEMMA OwnersKept == ASSUME OwnerInv, [Next]_vars PROVE OwnerInv'
<1>1. ASSUME NEW t \in Tasks, Step(t) PROVE OwnerInv'
  BY <1>1, LeftAlone, DomainsKept, ListsKept, FramesKept, EmptyKept, RequestsKept, MessagesKept,
     KVsKept, Zenon DEF OwnerInv
<1>2. ASSUME UNCHANGED vars PROVE OwnerInv'
  <2>1. /\ UNCHANGED <<pc, pool, made, f, m, todo, req, ack>>
        /\ UNCHANGED <<Messages, Actions, Name, KV, items, Borrowed, actions>>
    BY <1>2 DEF vars, taskVars, heapVars
  <2>2. Ids' = Ids /\ \A k : Pooled(k)' = Pooled(k) /\ Free(k)' = Free(k)
    BY <2>1, Zenon DEF Ids, Pooled, Free
  <2>3. \A k : InUse(k)' = InUse(k)
    BY <2>2, Zenon DEF InUse
  <2>4. \A t : Listed(t)' = Listed(t) /\ HeldMessages(t)' = HeldMessages(t)
    BY <2>1, Zenon DEF Listed, HeldMessages, HoldsInbound, Working, Elems
  <2>5. DomInv' /\ ListInv' /\ BagInv'
    BY <2>1, <2>2, Zenon DEF OwnerInv, DomInv, ListInv, BagInv
  <2>6. FrameInv' /\ EmptyInv' /\ RequestInv'
    BY <2>1, <2>2, <2>3, Zenon
       DEF OwnerInv, FrameInv, EmptyInv, RequestInv, HoldsInbound, HasRequest
  <2>7. MessageInv'
    BY <2>1, <2>3, <2>4, Zenon DEF OwnerInv, MessageInv, Working, NoDup, Elems
  <2>8. KVInv'
    BY <2>1, <2>2, <2>3, Zenon DEF OwnerInv, KVInv, Owns
  <2> QED
    BY <2>5, <2>6, <2>7, <2>8 DEF OwnerInv
<1> QED
  BY <1>1, <1>2 DEF Next, Terminated

LEMMA OwnersInit == Init => OwnerInv
<1> SUFFICES ASSUME Init PROVE OwnerInv
  OBVIOUS
<1> USE PoolsAssumption DEF Init, Ids, Kinds, None
<1>1. DomInv /\ ListInv
  BY DEF DomInv, ListInv
<1>2. \A k \in Kinds : pool[k] = EmptyBag /\ made[k] = 0 /\ Pooled(k) = {}
  BY DEF Pooled, BagToSet, EmptyBag, SetToBag
<1>3. BagInv
  <2>1. made \in [Kinds -> 0 .. MaxObjs] /\ DOMAIN pool = Kinds
    OBVIOUS
  <2> QED
    BY <1>2, <2>1, Zenon DEF BagInv, EmptyBag
<1>4. \A t \in Tasks : pc[t] = "start" /\ ~HoldsInbound(t) /\ ~HasRequest(t) /\ ~Working(t)
  BY DEF HoldsInbound, HasRequest, Working, Releasing, Swapping, Putting
<1>5. \A t \in Tasks : Listed(t) = <<>>
  BY <1>4 DEF Listed
<1>6. Elems(<<>>) = {} /\ NoDup(<<>>)
  BY DEF Elems, NoDup
<1>7. \A t \in Tasks : HeldMessages(t) = {}
  BY <1>4, <1>5, <1>6, Zenon DEF HeldMessages
<1>8. FrameInv /\ RequestInv
  BY <1>4 DEF FrameInv, RequestInv
<1>9. EmptyInv
  BY <1>2, <1>4 DEF EmptyInv, Free
<1>10. MessageInv
  BY <1>4, <1>5, <1>6, <1>7, Zenon DEF MessageInv
<1>11. KVInv
  BY <1>2 DEF KVInv, Owns
<1> QED
  BY <1>1, <1>3, <1>8, <1>9, <1>10, <1>11 DEF OwnerInv

LEMMA OwnersHold == Spec => []OwnerInv
  BY OwnersInit, OwnersKept, PTL DEF Spec

(* A message a task holds owns its KV, but for the one whose KV is being   *)
(* swapped.                                                                *)
LEMMA HeldOwns ==
    ASSUME OwnerInv, NEW t \in Tasks, NEW x \in HeldMessages(t),
           pc[t] \in Swapping => x # m[t]
    PROVE  x \in Ids /\ Owns(x) /\ KV[x] \in InUse("kv")
<1>1. x \in Ids /\ x \in 1 .. made["message"]
  <2>1. x \in InUse("message")
    BY DEF OwnerInv, MessageInv
  <2> QED
    BY <2>1, PoolsAssumption DEF OwnerInv, BagInv, Kinds, InUse, Free, Ids
<1>2. ASSUME NEW u \in Tasks, pc[u] \in Swapping, u # t PROVE m[u] # x
  <2>1. m[u] \in HeldMessages(u)
    BY <1>2 DEF HeldMessages, Working
  <2> QED
    BY <1>2, <2>1 DEF OwnerInv, MessageInv
<1> QED
  BY <1>1, <1>2 DEF Owns, OwnerInv, KVInv

(* Every object has one owner, its pool or a task: of frames and requests  *)
(* by what a task holds at each point, of messages by its lists, of KVs    *)
(* because a message owns one that no other does.  A task that has given a *)
(* message back does not own it, though QuoteName still reads its name.    *)
THEOREM ObjectsOwned == Spec => []OneOwner
<1>1. OwnerInv => OneOwner
  <2> SUFFICES ASSUME OwnerInv PROVE OneOwner
    OBVIOUS
  <2>1. \A k \in Kinds : \A x \in Pooled(k) : pool[k][x] = 1
    <3> SUFFICES ASSUME NEW k \in Kinds, NEW x \in Pooled(k) PROVE pool[k][x] = 1
      OBVIOUS
    <3>1. pool[k] = SetToBag(Pooled(k))
      BY DEF OwnerInv, BagInv
    <3> QED
      BY <3>1, Zenon DEF SetToBag
  <2>2. \A k \in Kinds : InUse(k) \cap Pooled(k) = {}
    BY DEF InUse, Free
  <2>3. ASSUME NEW t \in Tasks
        PROVE  /\ Held(t, "frame") = (IF HoldsInbound(t) THEN {f[t]} ELSE {})
                                     \cup (IF pc[t] = "write" THEN {ack[t]} ELSE {})
               /\ Held(t, "message") = HeldMessages(t)
               /\ Held(t, "kv") = {KV[x] : x \in HeldMessages(t) \
                                      (IF pc[t] \in Swapping THEN {m[t]} ELSE {})}
               /\ Held(t, "request") = IF HasRequest(t) THEN {req[t]} ELSE {}
    BY DEF Held, HasRequest
  <2>f. ASSUME NEW t \in Tasks
        PROVE  /\ Held(t, "frame") \subseteq InUse("frame")
               /\ \A u \in Tasks : t # u => Held(t, "frame") \cap Held(u, "frame") = {}
    BY <2>3 DEF OwnerInv, FrameInv, HoldsInbound
  <2>r. ASSUME NEW t \in Tasks
        PROVE  /\ Held(t, "request") \subseteq InUse("request")
               /\ \A u \in Tasks : t # u => Held(t, "request") \cap Held(u, "request") = {}
    BY <2>3 DEF OwnerInv, RequestInv
  <2>m. ASSUME NEW t \in Tasks
        PROVE  /\ Held(t, "message") \subseteq InUse("message")
               /\ \A u \in Tasks : t # u => Held(t, "message") \cap Held(u, "message") = {}
    BY <2>3 DEF OwnerInv, MessageInv
  <2>k. ASSUME NEW t \in Tasks
        PROVE  /\ Held(t, "kv") \subseteq InUse("kv")
               /\ \A u \in Tasks : t # u => Held(t, "kv") \cap Held(u, "kv") = {}
    <3>1. ASSUME NEW u \in Tasks, NEW k \in Held(u, "kv")
          PROVE  \E x \in HeldMessages(u) : /\ k = KV[x] /\ x \in Ids /\ Owns(x)
                                            /\ KV[x] \in InUse("kv")
      <4>1. PICK x \in HeldMessages(u) \ (IF pc[u] \in Swapping THEN {m[u]} ELSE {}) : k = KV[x]
        BY <2>3, <3>1
      <4>2. x \in HeldMessages(u) /\ (pc[u] \in Swapping => x # m[u])
        BY <4>1
      <4> QED
        BY <4>1, <4>2, HeldOwns
    <3>2. ASSUME NEW u \in Tasks, t # u PROVE Held(t, "kv") \cap Held(u, "kv") = {}
      <4> SUFFICES ASSUME NEW k, k \in Held(t, "kv"), k \in Held(u, "kv") PROVE FALSE
        OBVIOUS
      <4>1. PICK x \in HeldMessages(t) : k = KV[x] /\ x \in Ids /\ Owns(x)
        BY <3>1
      <4>2. PICK y \in HeldMessages(u) : k = KV[y] /\ y \in Ids /\ Owns(y)
        BY <3>1
      <4>3. x # y
        BY <3>2 DEF OwnerInv, MessageInv
      <4> QED
        BY <4>1, <4>2, <4>3, Zenon DEF OwnerInv, KVInv
    <3>3. Held(t, "kv") \subseteq InUse("kv")
      BY <3>1
    <3> QED
      BY <3>2, <3>3
  <2>4. ASSUME NEW k \in Kinds, NEW t \in Tasks
        PROVE  /\ Held(t, k) \subseteq InUse(k)
               /\ \A u \in Tasks : t # u => Held(t, k) \cap Held(u, k) = {}
    <3>1. k = "frame" \/ k = "request" \/ k = "message" \/ k = "kv"
      BY DEF Kinds
    <3> QED
      BY <2>f, <2>r, <2>m, <2>k, <3>1, Zenon
  <2> QED
    BY <2>1, <2>2, <2>4 DEF OneOwner
<1> QED
  BY <1>1, OwnersHold, PTL

-----------------------------------------------------------------------------
(* What the objects hold.  Actions is set in the frame of an ACK only, and *)
(* to the request of its task.                                             *)
ActionsInv ==
    /\ \A x \in Free("frame") : Actions[x] = None
    /\ \A t \in Tasks : HoldsInbound(t) => Actions[f[t]] = None
    /\ \A t \in Tasks : pc[t] = "write" => Actions[ack[t]] = req[t]

(* A request has the messages of its task's frame and the actions its      *)
(* handler set, a free one neither.                                        *)
RequestData ==
    /\ \A x \in Free("request") : Borrowed[x] = None /\ actions[x] = <<>>
    /\ \A t \in Tasks : HasRequest(t) => Borrowed[req[t]] = f[t]
    /\ \A t \in Tasks : pc[t] = "handler" => actions[req[t]] = <<>>
    /\ \A t \in Tasks : pc[t] \in {"ack", "write"} => actions[req[t]] = <<t>>

(* A message in the pool has no name and an empty KV, and so has one on    *)
(* its way there.                                                          *)
MessageClean ==
    /\ \A x \in Pooled("message") : Name[x] = Empty /\ items[KV[x]] = Empty
    /\ \A x \in Free("kv") : items[x] = Empty
    /\ \A t \in Tasks : pc[t] \in Swapping \cup Putting => Name[m[t]] = Empty
    /\ \A t \in Tasks : pc[t] \in Putting => items[KV[m[t]]] = Empty

(* The messages of a frame are those decoded into it, in order.            *)
Reading == {"decode", "name", "request", "handler"}
ListedData ==
    \A t \in Tasks : pc[t] \in Reading =>
        \A i \in 1 .. Len(Listed(t)) :
            Name[Listed(t)[i]] = <<t, i>> /\ items[KV[Listed(t)[i]]] = <<t, i>>

DataInv == ActionsInv /\ RequestData /\ MessageClean /\ ListedData

LEMMA FreeIds == ASSUME OwnerInv, NEW k \in Kinds PROVE Free(k) \subseteq Ids
  BY PoolsAssumption DEF OwnerInv, BagInv, Free, Ids

LEMMA ActionsKept ==
    ASSUME OwnerInv, ActionsInv, NEW t \in Tasks, Step(t)
    PROVE  ActionsInv'
<1>0. /\ DOMAIN pc = Tasks /\ DOMAIN f = Tasks /\ DOMAIN ack = Tasks /\ DOMAIN req = Tasks
      /\ DOMAIN Actions = Ids /\ FrameInv /\ Free("frame") \subseteq Ids
  BY FreeIds DEF OwnerInv, DomInv, Kinds
<1> USE DEF ActionsInv, HoldsInbound, InUse, taskVars
<1>1. CASE AcquireFrame(t)
  <2>1. PICK x : Took("frame", x) /\ f' = [f EXCEPT ![t] = x]
    BY <1>1, TakingSteps
  <2> QED
    BY <1>0, <1>1, <2>1 DEF AcquireFrame, Took, heapVars
<1>2. CASE AcquireAck(t)
  <2>1. PICK x : /\ Took("frame", x) /\ ack' = [ack EXCEPT ![t] = x]
                 /\ Actions' = [Actions EXCEPT ![x] = req[t]]
    BY <1>2, TakingSteps
  <2> QED
    BY <1>0, <1>2, <2>1 DEF AcquireAck, Took, FrameInv
<1>3. CASE ReleaseAck(t)
  <2>1. Gave("frame", ack[t])
    BY <1>3, GivingSteps
  <2> QED
    BY <1>0, <1>3, <2>1 DEF ReleaseAck, Gave, FrameInv
<1>4. CASE ReleaseFrame(t)
  <2>1. Gave("frame", f[t])
    BY <1>4, GivingSteps
  <2> QED
    BY <1>0, <1>4, <2>1 DEF ReleaseFrame, Gave
<1>5. CASE ~FrameStep(t)
  <2>1. \A u \in Tasks : pc'[u] = "write" => req'[u] = req[u]
    <3>1. pc'[t] # "write"
      BY <1>0, <1>5
         DEF FrameStep, Step, AcquireMessage, DecodeMessage, DecodeDone, ReleaseKV, ReacquireKV,
             AcquireKV, PutMessage, QuoteName, ResetFrame, ResetMessage, AcquireRequest, Handler,
             ReleaseRequest, ResetRequest, Releasing, Swapping, Putting
    <3> QED
      BY <3>1, OthersAlone
  <2> QED
    BY <1>0, <1>5, <2>1, FramesAlone DEF Same
<1> QED
  BY <1>1, <1>2, <1>3, <1>4, <1>5 DEF FrameStep

LEMMA RequestDataKept ==
    ASSUME OwnerInv, RequestData, NEW t \in Tasks, Step(t)
    PROVE  RequestData'
<1>0. /\ DOMAIN pc = Tasks /\ DOMAIN f = Tasks /\ DOMAIN req = Tasks /\ DOMAIN Borrowed = Ids
      /\ DOMAIN actions = Ids /\ RequestInv /\ Free("request") \subseteq Ids
  BY FreeIds DEF OwnerInv, DomInv, Kinds
<1>f. \A u \in Tasks : HasRequest(u) => f'[u] = f[u]
  <2>1. f' = f \/ AcquireFrame(t)
    BY Zenon
       DEF Step, AcquireMessage, DecodeMessage, DecodeDone, ReleaseKV, ReacquireKV, PutMessage,
           QuoteName, ResetFrame, ResetMessage, ReleaseFrame, AcquireRequest, Handler,
           AcquireAck, ReleaseAck, ReleaseRequest, taskVars
  <2>2. AcquireFrame(t) => ~HasRequest(t)
    BY DEF AcquireFrame, HasRequest
  <2> QED
    BY <2>1, <2>2, OthersAlone
<1> USE DEF RequestData, HasRequest, InUse, taskVars
<1>1. CASE AcquireRequest(t)
  <2>1. PICK x : /\ Took("request", x) /\ req' = [req EXCEPT ![t] = x]
                 /\ Borrowed' = [Borrowed EXCEPT ![x] = f[t]]
    BY <1>1, TakingSteps
  <2> QED
    BY <1>0, <1>1, <2>1 DEF AcquireRequest, Took, RequestInv
<1>2. CASE ReleaseRequest(t)
  <2>1. Gave("request", req[t])
    BY <1>2, GivingSteps
  <2> QED
    BY <1>0, <1>2, <2>1 DEF ReleaseRequest, ResetRequest, Gave, RequestInv
<1>3. CASE Handler(t)
  <2>1. Same("request") /\ UNCHANGED <<f, req, Borrowed>>
    <3>1. ~RequestStep(t)
      BY <1>3 DEF Handler, RequestStep, AcquireRequest, ReleaseRequest, ResetRequest
    <3> QED
      BY <1>3, <3>1, RequestsAlone DEF Handler
  <2>2. /\ pc[t] = "handler" /\ pc' = [pc EXCEPT ![t] = "ack"]
        /\ actions' = [actions EXCEPT ![req[t]] = <<t>>]
    <3>1. /\ pc[t] = "handler" /\ pc' = [pc EXCEPT ![t] = "ack"]
          /\ actions' = [actions EXCEPT ![req[t]] = Append(actions[req[t]], t)]
      BY <1>3 DEF Handler
    <3>2. actions[req[t]] = <<>>
      BY <3>1
    <3>3. Append(<<>>, t) = <<t>>
      OBVIOUS
    <3> QED
      BY <3>1, <3>2, <3>3, Zenon
  <2>3. /\ req[t] \in InUse("request")
        /\ \A u \in Tasks : HasRequest(u) => req[u] \in Ids /\ (u # t => req[u] # req[t])
    BY <1>0, <2>2 DEF RequestInv
  <2>4. actions'[req[t]] = <<t>> /\ \A x \in Ids : x # req[t] => actions'[x] = actions[x]
    BY <1>0, <2>2, <2>3
  <2>5. pc'[t] = "ack" /\ \A u \in Tasks : u # t => pc'[u] = pc[u]
    BY <1>0, <2>2
  <2>6. \A x \in Free("request")' : Borrowed'[x] = None /\ actions'[x] = <<>>
    BY <1>0, <2>1, <2>3, <2>4 DEF Same
  <2>7. \A u \in Tasks : HasRequest(u)' => Borrowed'[req'[u]] = f'[u]
    BY <2>1, <2>2, <2>5
  <2>8. \A u \in Tasks : pc'[u] = "handler" => actions'[req'[u]] = <<>>
    BY <2>1, <2>3, <2>4, <2>5
  <2>9. \A u \in Tasks : pc'[u] \in {"ack", "write"} => actions'[req'[u]] = <<u>>
    BY <2>1, <2>3, <2>4, <2>5
  <2> QED
    BY <2>6, <2>7, <2>8, <2>9
<1>4. CASE ~RequestStep(t) /\ ~Handler(t)
  <2>1. actions' = actions
    BY <1>4, Zenon
       DEF RequestStep, Step, AcquireFrame, AcquireMessage, DecodeMessage, DecodeDone, ReleaseKV,
           ReacquireKV, PutMessage, QuoteName, ResetFrame, ResetMessage, ReleaseFrame,
           AcquireAck, ReleaseAck, heapVars
  <2>2. \A u \in Tasks : /\ pc'[u] = "handler" => pc[u] = "handler"
                         /\ pc'[u] \in {"ack", "write"} => pc[u] \in {"ack", "write"}
    <3>1. /\ pc'[t] = "handler" => pc[t] = "handler"
          /\ pc'[t] \in {"ack", "write"} => pc[t] \in {"ack", "write"}
      BY <1>0, <1>4
         DEF RequestStep, Step, AcquireFrame, AcquireMessage, DecodeMessage, DecodeDone,
             ReleaseKV, ReacquireKV, AcquireKV, PutMessage, QuoteName, ResetFrame, ResetMessage,
             ReleaseFrame, AcquireAck, ReleaseAck, Releasing, Swapping, Putting
    <3> QED
      BY <3>1, OthersAlone
  <2>3. /\ Same("request") /\ UNCHANGED <<req, Borrowed>>
        /\ \A u \in Tasks : HasRequest(u)' => HasRequest(u)
    BY <1>4, RequestsAlone
  <2> QED
    BY <1>0, <1>f, <2>1, <2>2, <2>3 DEF Same
<1> QED
  BY <1>1, <1>2, <1>3, <1>4 DEF RequestStep

(* A step changes the name, the KV or the KV's items of no listed message: *)
(* they are those of the message its task is at work on, or of a new one.  *)
LEMMA ListedIntact ==
    ASSUME OwnerInv, NEW t \in Tasks, Step(t), NEW u \in Tasks, NEW x \in Elems(Listed(u))
    PROVE  Name'[x] = Name[x] /\ KV'[x] = KV[x] /\ items'[KV[x]] = items[KV[x]]
<1>0. DOMAIN Name = Ids /\ DOMAIN KV = Ids /\ DOMAIN items = Ids
  BY DEF OwnerInv, DomInv
<1>1. x \in HeldMessages(u) /\ (Working(u) => x # m[u])
  BY DEF HeldMessages, OwnerInv, MessageInv
<1>2. x \in Ids /\ Owns(x) /\ KV[x] \in InUse("kv") /\ x \in InUse("message")
  <2>1. pc[u] \in Swapping => x # m[u]
    BY <1>1 DEF Working
  <2> QED
    BY <1>1, <2>1, HeldOwns DEF OwnerInv, MessageInv
<1>3. Working(t) => x # m[t]
  <2>1. Working(t) => m[t] \in HeldMessages(t)
    BY DEF HeldMessages
  <2> QED
    BY <1>1, <2>1 DEF OwnerInv, MessageInv
<1>4. Working(t) /\ pc[t] \notin Swapping => KV[m[t]] # KV[x]
  BY <1>2, <1>3, WorkingOwns DEF OwnerInv, KVInv
<1>5. CASE AcquireMessage(t)
  <2>1. PICK y : Took("message", y) /\ (KV' = KV \/ \E k : KV' = [KV EXCEPT ![y] = k])
    BY <1>5, MessageStep, Zenon
  <2>2. y # x
    BY <1>2, <2>1 DEF Took, InUse
  <2>3. KV'[x] = KV[x]
    BY <1>0, <1>2, <2>1, <2>2
  <2> QED
    BY <1>5, <2>3 DEF AcquireMessage
<1>6. CASE DecodeMessage(t)
  <2>1. Working(t) /\ pc[t] \notin Swapping /\ KV' = KV
    BY <1>6 DEF DecodeMessage, Working, Swapping
  <2>2. Name' = Name \/ \E v : Name' = [Name EXCEPT ![m[t]] = v]
    BY <1>6, Zenon DEF DecodeMessage
  <2>3. items' = items \/ \E v : items' = [items EXCEPT ![KV[m[t]]] = v]
    BY <1>6, Zenon DEF DecodeMessage
  <2> QED
    BY <1>0, <1>2, <1>3, <1>4, <2>1, <2>2, <2>3 DEF InUse
<1>7. CASE ReleaseKV(t)
  <2>1. Working(t) /\ pc[t] \notin Swapping
    BY <1>7 DEF ReleaseKV, Working, Releasing, Swapping
  <2> QED
    BY <1>0, <1>2, <1>3, <1>4, <1>7, <2>1 DEF ReleaseKV, InUse
<1>8. CASE ReacquireKV(t)
  <2>1. PICK k : KV' = [KV EXCEPT ![m[t]] = k]
    BY <1>8, TakingSteps
  <2>2. Working(t) /\ UNCHANGED <<Name, items>>
    BY <1>8 DEF ReacquireKV, AcquireKV, Working
  <2> QED
    BY <1>0, <1>2, <1>3, <2>1, <2>2
<1>9. CASE ~(AcquireMessage(t) \/ DecodeMessage(t) \/ ReleaseKV(t) \/ ReacquireKV(t))
  <2>1. UNCHANGED <<Name, KV, items>>
    BY <1>9, Zenon
       DEF Step, AcquireFrame, DecodeDone, PutMessage, QuoteName, ResetFrame, ResetMessage,
           ReleaseFrame, AcquireRequest, Handler, AcquireAck, ReleaseAck, ReleaseRequest, heapVars
  <2> QED
    BY <2>1
<1> QED
  BY <1>5, <1>6, <1>7, <1>8, <1>9

LEMMA MessagesCleanKept ==
    ASSUME OwnerInv, MessageClean, NEW t \in Tasks, Step(t)
    PROVE  MessageClean'
<1>0. /\ DOMAIN pc = Tasks /\ DOMAIN m = Tasks /\ DOMAIN Name = Ids /\ DOMAIN KV = Ids
      /\ DOMAIN items = Ids /\ Free("kv") \subseteq Ids
  BY FreeIds DEF OwnerInv, DomInv, Kinds
<1>1. \A u \in Tasks : u # t => pc'[u] = pc[u] /\ m'[u] = m[u]
  BY OthersAlone
(* The messages the invariant is about: pooled, or on their way.           *)
<1>p. \A x \in Pooled("message") : x \in Ids /\ Owns(x) /\ KV[x] \in Ids /\ x \notin InUse("message")
  BY PooledOwns DEF InUse, Free
<1>w. \A u \in Tasks : pc[u] \in Swapping \cup Putting => m[u] \in Ids /\ m[u] \in InUse("message")
  <2>1. \A u \in Tasks : pc[u] \in Swapping \cup Putting => m[u] \in HeldMessages(u)
    BY DEF HeldMessages, Working
  <2> QED
    BY <2>1 DEF OwnerInv, MessageInv, InUse
<1>v. \A u \in Tasks : pc[u] \in Putting => Owns(m[u]) /\ KV[m[u]] \in Ids
  BY WorkingOwns DEF Working, Swapping, Putting, InUse
<1>d. \A u \in Tasks : u # t /\ Working(t) /\ pc[u] \in Swapping \cup Putting => m[u] # m[t]
  <2>1. \A u \in Tasks : Working(u) => m[u] \in HeldMessages(u)
    BY DEF HeldMessages
  <2> QED
    BY <2>1 DEF OwnerInv, MessageInv, Working
<1>k. \A x, y \in Ids : Owns(x) /\ Owns(y) /\ x # y => KV[x] # KV[y]
  BY DEF OwnerInv, KVInv
<1>2. CASE AcquireMessage(t)
  <2>1. PICK x : /\ Took("message", x)
                 /\ \/ Same("kv") /\ KV' = KV
                    \/ \E k : Took("kv", k) /\ KV' = [KV EXCEPT ![x] = k]
    BY <1>2, MessageStep, Zenon
  <2>2. /\ UNCHANGED <<Name, items>> /\ pc'[t] \notin Swapping \cup Putting
    BY <1>0, <1>2 DEF AcquireMessage, Swapping, Putting
  <2>3. Free("kv")' \subseteq Free("kv")
    BY <2>1 DEF Same, Took
  <2>4. \A y \in Ids : y # x => KV'[y] = KV[y]
    BY <1>0, <2>1
  <2>5. Pooled("message")' = Pooled("message") \ {x} /\ x \notin InUse("message")
    BY <2>1 DEF Took, InUse
  <2>6. \A y \in Pooled("message")' : Name'[y] = Empty /\ items'[KV'[y]] = Empty
    BY <1>p, <2>2, <2>4, <2>5 DEF MessageClean
  <2>7. \A u \in Tasks : pc'[u] \in Swapping \cup Putting => Name'[m'[u]] = Empty
    BY <1>1, <2>2 DEF MessageClean
  <2>8. \A u \in Tasks : pc'[u] \in Putting => items'[KV'[m'[u]]] = Empty
    BY <1>1, <1>w, <2>2, <2>4, <2>5 DEF MessageClean
  <2> QED
    BY <2>2, <2>3, <2>6, <2>7, <2>8 DEF MessageClean, Swapping, Putting
<1>3. CASE DecodeMessage(t)
  <2>1. Working(t) /\ pc[t] \notin Swapping /\ KV' = KV /\ pc'[t] \notin Swapping \cup Putting
    BY <1>0, <1>3 DEF DecodeMessage, Working, Swapping, Putting
  <2>2. m[t] \in InUse("message") /\ Owns(m[t]) /\ m[t] \in Ids /\ KV[m[t]] \in InUse("kv")
    BY <2>1, WorkingOwns
  <2>3. Same("message") /\ Same("kv")
    BY <1>3, PoolsUnchanged DEF DecodeMessage, OwnerInv, Kinds
  <2>4. \A x \in Ids : x # m[t] => Name'[x] = Name[x]
    BY <1>0, <1>3 DEF DecodeMessage
  <2>5. \A k \in Ids : k # KV[m[t]] => items'[k] = items[k]
    BY <1>0, <1>3 DEF DecodeMessage
  <2>6. \A x \in Pooled("message")' : Name'[x] = Empty /\ items'[KV'[x]] = Empty
    BY <1>p, <1>k, <2>1, <2>2, <2>3, <2>4, <2>5 DEF MessageClean, Same
  <2>7. \A x \in Free("kv")' : items'[x] = Empty
    BY <1>0, <2>2, <2>3, <2>5 DEF MessageClean, Same, InUse
  <2>8. \A u \in Tasks : pc'[u] \in Swapping \cup Putting => Name'[m'[u]] = Empty
    BY <1>1, <1>w, <1>d, <2>1, <2>4 DEF MessageClean
  <2>9. \A u \in Tasks : pc'[u] \in Putting => items'[KV'[m'[u]]] = Empty
    BY <1>1, <1>w, <1>v, <1>d, <1>k, <2>1, <2>2, <2>5 DEF MessageClean
  <2> QED
    BY <2>6, <2>7, <2>8, <2>9 DEF MessageClean, Swapping, Putting
<1>4. CASE ReleaseKV(t)
  <2>1. /\ Working(t) /\ pc[t] \notin Swapping /\ KV' = KV /\ m' = m
        /\ pc'[t] \notin Putting
    BY <1>0, <1>4 DEF ReleaseKV, Working, Releasing, Swapping, Putting, taskVars
  <2>2. m[t] \in Ids /\ KV[m[t]] \in InUse("kv")
    BY <2>1, WorkingOwns
  <2>3. Same("message")
    <3>1. pc[t] \in Releasing
      BY <1>4 DEF ReleaseKV
    <3>2. ~AcquireMessage(t) /\ ~PutMessage(t)
      BY <3>1 DEF AcquireMessage, PutMessage, Releasing, Putting
    <3> QED
      BY <3>2, LeftAlone, Zenon
  <2>4. Free("kv")' = Free("kv") \cup {KV[m[t]]}
    BY <1>4, GivingSteps DEF Gave
  <2>5. \A x \in Ids : Name'[x] = IF x = m[t] THEN Empty ELSE Name[x]
    BY <1>0, <1>4 DEF ReleaseKV
  <2>6. \A k \in Ids : items'[k] = IF k = KV[m[t]] THEN Empty ELSE items[k]
    BY <1>0, <1>4 DEF ReleaseKV
  <2>7. \A x \in Pooled("message")' : Name'[x] = Empty /\ items'[KV'[x]] = Empty
    BY <1>p, <2>1, <2>3, <2>5, <2>6 DEF MessageClean, Same
  <2>8. \A x \in Free("kv")' : items'[x] = Empty
    BY <1>0, <2>2, <2>4, <2>6 DEF MessageClean, InUse
  <2>9. \A u \in Tasks : pc'[u] \in Swapping \cup Putting => Name'[m'[u]] = Empty
    BY <1>1, <1>w, <2>1, <2>2, <2>5 DEF MessageClean
  <2>10. \A u \in Tasks : pc'[u] \in Putting => items'[KV'[m'[u]]] = Empty
    BY <1>1, <1>w, <1>v, <2>1, <2>6 DEF MessageClean
  <2> QED
    BY <2>7, <2>8, <2>9, <2>10 DEF MessageClean, Swapping, Putting
<1>5. CASE ReacquireKV(t)
  <2>1. PICK k : Took("kv", k) /\ KV' = [KV EXCEPT ![m[t]] = k]
    BY <1>5, TakingSteps
  <2>2. pc[t] \in Swapping /\ Working(t) /\ UNCHANGED <<m, Name, items>>
    BY <1>5 DEF ReacquireKV, AcquireKV, Working, taskVars
  <2>3. Same("message")
    BY <2>2, LeftAlone DEF AcquireMessage, PutMessage, Swapping, Putting
  <2>4. m[t] \in Ids /\ m[t] \in InUse("message")
    BY <1>w, <2>2
  <2>5. KV'[m[t]] = k /\ \A y \in Ids : y # m[t] => KV'[y] = KV[y]
    BY <1>0, <2>1, <2>4
  <2>6. items[k] = Empty /\ Free("kv")' \subseteq Free("kv")
    BY <2>1 DEF Took, MessageClean
  <2>7. \A x \in Pooled("message")' : Name'[x] = Empty /\ items'[KV'[x]] = Empty
    BY <1>p, <2>2, <2>3, <2>4, <2>5 DEF MessageClean, Same
  <2>8. \A u \in Tasks : pc'[u] \in Swapping \cup Putting => Name'[m'[u]] = Empty
    BY <1>1, <2>2 DEF MessageClean
  <2>9. \A u \in Tasks : pc'[u] \in Putting => items'[KV'[m'[u]]] = Empty
    BY <1>1, <1>w, <1>d, <2>2, <2>5, <2>6 DEF MessageClean
  <2> QED
    BY <2>2, <2>6, <2>7, <2>8, <2>9 DEF MessageClean, Swapping, Putting
<1>6. CASE PutMessage(t)
  <2>1. Gave("message", m[t])
    BY <1>6, GivingSteps
  <2>2. /\ pc[t] \in Putting /\ UNCHANGED <<m, KV, Name, items>>
        /\ pc'[t] \notin Swapping \cup Putting
    BY <1>0, <1>6 DEF PutMessage, Swapping, Putting, taskVars, heapVars
  <2>3. Same("kv")
    BY <2>2, LeftAlone DEF AcquireMessage, ReleaseKV, ReacquireKV, AcquireKV, Releasing,
                           Swapping, Putting
  <2>4. \A x \in Pooled("message")' : Name'[x] = Empty /\ items'[KV'[x]] = Empty
    BY <2>1, <2>2 DEF MessageClean, Gave
  <2>5. \A u \in Tasks : pc'[u] \in Swapping \cup Putting => Name'[m'[u]] = Empty
    BY <1>1, <2>2 DEF MessageClean
  <2>6. \A u \in Tasks : pc'[u] \in Putting => items'[KV'[m'[u]]] = Empty
    BY <1>1, <2>2 DEF MessageClean
  <2> QED
    BY <2>2, <2>3, <2>4, <2>5, <2>6 DEF MessageClean, Same, Swapping, Putting
<1>7. CASE ~(\/ AcquireMessage(t) \/ DecodeMessage(t) \/ ReleaseKV(t) \/ ReacquireKV(t)
             \/ PutMessage(t))
  <2>1. UNCHANGED <<Name, KV, items>>
    BY <1>7, Zenon
       DEF Step, AcquireFrame, DecodeDone, QuoteName, ResetFrame, ResetMessage, ReleaseFrame,
           AcquireRequest, Handler, AcquireAck, ReleaseAck, ReleaseRequest, heapVars
  <2>2. pc'[t] \notin Swapping \cup Putting
    BY <1>0, <1>7
       DEF Step, AcquireFrame, DecodeDone, QuoteName, ResetFrame, ResetMessage, ReleaseFrame,
           AcquireRequest, Handler, AcquireAck, ReleaseAck, ReleaseRequest, Swapping, Putting
  <2>3. Same("message") /\ Same("kv")
    BY <1>7, LeftAlone, Zenon
  <2>4. \A u \in Tasks : pc'[u] \in Swapping \cup Putting => Name'[m'[u]] = Empty
    BY <1>1, <2>1, <2>2 DEF MessageClean
  <2>5. \A u \in Tasks : pc'[u] \in Putting => items'[KV'[m'[u]]] = Empty
    BY <1>1, <2>1, <2>2 DEF MessageClean
  <2> QED
    BY <2>1, <2>3, <2>4, <2>5 DEF MessageClean, Same, Swapping, Putting
<1> QED
  BY <1>2, <1>3, <1>4, <1>5, <1>6, <1>7

LEMMA ListedDataKept ==
    ASSUME OwnerInv, ListedData, NEW t \in Tasks, Step(t)
    PROVE  ListedData'
<1>0. /\ DOMAIN pc = Tasks /\ DOMAIN f = Tasks /\ DOMAIN Messages = Ids /\ DOMAIN Name = Ids
      /\ DOMAIN items = Ids
  BY DEF OwnerInv, DomInv, ListInv
<1> DEFINE L(u) == Listed(u)  LL(u) == Listed(u)'
           Good(u) == \A i \in 1 .. Len(L(u)) :
                          Name[L(u)[i]] = <<u, i>> /\ items[KV[L(u)[i]]] = <<u, i>>
           GoodNext(u) == \A i \in 1 .. Len(LL(u)) :
                          Name'[LL(u)[i]] = <<u, i>> /\ items'[KV'[LL(u)[i]]] = <<u, i>>
<1> SUFFICES ASSUME NEW u \in Tasks, pc'[u] \in Reading PROVE GoodNext(u)
  BY Zenon DEF ListedData, Reading
<1>l. L(u) \in Seq(Ids)
  BY DEF Listed, OwnerInv, ListInv, FrameInv, InUse
(* The entries of the list stay as they are.                               *)
<1>1. \A i \in 1 .. Len(L(u)) : /\ Name'[L(u)[i]] = Name[L(u)[i]]
                                /\ items'[KV'[L(u)[i]]] = items[KV[L(u)[i]]]
  <2> SUFFICES ASSUME NEW i \in 1 .. Len(L(u))
               PROVE  /\ Name'[L(u)[i]] = Name[L(u)[i]]
                      /\ items'[KV'[L(u)[i]]] = items[KV[L(u)[i]]]
    OBVIOUS
  <2>1. DOMAIN L(u) = 1 .. Len(L(u))
    BY <1>l
  <2>2. L(u)[i] \in Elems(Listed(u))
    BY <2>1, Zenon DEF Elems
  <2> QED
    BY <2>2, ListedIntact
<1>2. ASSUME LL(u) = L(u), pc[u] \in Reading PROVE GoodNext(u)
  <2>1. Good(u)
    BY <1>2, Zenon DEF ListedData
  <2> HIDE DEF L, LL
  <2> QED
    BY <1>1, <1>2, <2>1, Zenon
<1>3. CASE u # t
  BY <1>2, <1>3, OthersLists
<1>4. CASE u = t /\ AcquireFrame(t)
  <2>1. PICK x : Took("frame", x) /\ f' = [f EXCEPT ![t] = x]
    BY <1>4, TakingSteps
  <2>2. Messages[x] = <<>> /\ Messages' = Messages
    BY <1>4, <2>1 DEF AcquireFrame, Took, OwnerInv, EmptyInv, heapVars
  <2>3. LL(u) = <<>>
    BY <1>0, <1>4, <2>1, <2>2 DEF AcquireFrame, Listed, HoldsInbound
  <2> HIDE DEF LL
  <2> QED
    BY <2>3
<1>5. CASE u = t /\ DecodeMessage(t)
  <2>1. /\ pc[t] = "name" /\ f' = f /\ m' = m /\ KV' = KV /\ L(t) = Messages[f[t]]
        /\ Working(t) /\ pc[t] \notin Swapping /\ f[t] \in Ids
    BY <1>5 DEF DecodeMessage, taskVars, HoldsInbound, Listed, Working, Swapping, OwnerInv,
                FrameInv, InUse
  <2>2. /\ Messages' = [Messages EXCEPT ![f[t]] = Append(@, m[t])] /\ pc'[t] = "decode"
        /\ Name' = [Name EXCEPT ![m[t]] = Mine(t)]
        /\ items' = [items EXCEPT ![KV[m[t]]] = Mine(t)]
    BY <1>0, <1>5 DEF DecodeMessage, Reading
  <2>3. m[t] \in Ids /\ KV[m[t]] \in Ids
    BY <2>1, WorkingOwns DEF InUse
  <2>4. LL(t) = Append(L(t), m[t])
    BY <1>0, <2>1, <2>2 DEF Listed, HoldsInbound
  <2>5. Name'[m[t]] = <<t, Len(L(t)) + 1>> /\ items'[KV'[m[t]]] = <<t, Len(L(t)) + 1>>
    BY <1>0, <2>1, <2>2, <2>3 DEF Mine
  <2>6. Good(t)
    <3>1. pc[t] \in Reading
      BY <2>1 DEF Reading
    <3> QED
      BY <3>1, Zenon DEF ListedData
  <2> DEFINE s == L(t)  n == Len(s)
  <2>7. /\ s \in Seq(Ids) /\ n \in Nat /\ Len(Append(s, m[t])) = n + 1
        /\ \A i \in 1 .. n : Append(s, m[t])[i] = s[i]
        /\ Append(s, m[t])[n + 1] = m[t]
    BY <1>5, <1>l, <2>3
  <2>8. ASSUME NEW i \in 1 .. Len(LL(t))
        PROVE  Name'[LL(t)[i]] = <<t, i>> /\ items'[KV'[LL(t)[i]]] = <<t, i>>
    <3>1. CASE i = n + 1
      <4>1. LL(t)[i] = m[t]
        BY <2>4, <2>7, <3>1
      <4> QED
        BY <2>5, <3>1, <4>1
    <3>2. CASE i # n + 1
      <4>1. i \in 1 .. n /\ LL(t)[i] = s[i]
        BY <2>4, <2>7, <3>2
      <4> HIDE DEF L, LL
      <4> QED
        BY <1>1, <1>5, <2>6, <4>1, Zenon
    <3> QED
      BY <3>1, <3>2
  <2> QED
    BY <1>5, <2>8, Zenon
<1>6. CASE u = t /\ ~AcquireFrame(t) /\ ~DecodeMessage(t)
  <2>1. AcquireMessage(t) \/ DecodeDone(t) \/ AcquireRequest(t)
    BY <1>0, <1>6
       DEF Step, ReleaseKV, ReacquireKV, PutMessage, QuoteName, ResetFrame, ResetMessage,
           ReleaseFrame, Handler, AcquireAck, ReleaseAck, ReleaseRequest, Reading
  <2>2. LL(t) = L(t) /\ pc[t] \in Reading
    BY <1>0, <1>6, <2>1 DEF AcquireMessage, DecodeDone, AcquireRequest, Listed, HoldsInbound,
                            Reading, taskVars, heapVars
  <2> QED
    BY <1>2, <1>6, <2>2, Zenon
<1> QED
  BY <1>3, <1>4, <1>5, <1>6, Zenon

LEMMA DataInit == Init => DataInv
<1> SUFFICES ASSUME Init PROVE DataInv
  OBVIOUS
<1>1. OwnerInv
  BY OwnersInit
<1>2. \A k \in Kinds : Free(k) \subseteq Ids /\ Pooled(k) = {}
  BY <1>1, FreeIds DEF Init, Pooled, BagToSet, EmptyBag, SetToBag
<1>3. \A t \in Tasks : pc[t] = "start"
  BY DEF Init
<1>4. /\ \A x \in Ids : Actions[x] = None /\ Borrowed[x] = None /\ actions[x] = <<>>
      /\ \A x \in Ids : items[x] = Empty
  BY DEF Init
<1>5. ActionsInv
  BY <1>2, <1>3, <1>4 DEF ActionsInv, HoldsInbound, Kinds
<1>6. RequestData
  BY <1>2, <1>3, <1>4 DEF RequestData, HasRequest, Kinds
<1>7. MessageClean
  BY <1>2, <1>3, <1>4 DEF MessageClean, Swapping, Putting, Kinds
<1>8. ListedData
  BY <1>3 DEF ListedData, Reading
<1> QED
  BY <1>5, <1>6, <1>7, <1>8 DEF DataInv

LEMMA DataKept == ASSUME OwnerInv, DataInv, [Next]_vars PROVE DataInv'
<1>1. ASSUME NEW t \in Tasks, Step(t) PROVE DataInv'
  BY <1>1, ActionsKept, RequestDataKept, MessagesCleanKept, ListedDataKept, Zenon DEF DataInv
<1>2. ASSUME UNCHANGED vars PROVE DataInv'
  <2>1. /\ UNCHANGED <<pc, pool, made, f, m, todo, req, ack>>
        /\ UNCHANGED <<Messages, Actions, Name, KV, items, Borrowed, actions>>
    BY <1>2 DEF vars, taskVars, heapVars
  <2>2. Ids' = Ids /\ \A k : Pooled(k)' = Pooled(k) /\ Free(k)' = Free(k)
    BY <2>1, Zenon DEF Ids, Pooled, Free
  <2>3. \A t : Listed(t)' = Listed(t)
    BY <2>1, Zenon DEF Listed, HoldsInbound
  <2>4. ActionsInv' /\ RequestData'
    BY <2>1, <2>2, Zenon DEF DataInv, ActionsInv, RequestData, HoldsInbound, HasRequest
  <2>5. MessageClean'
    BY <2>1, <2>2, Zenon DEF DataInv, MessageClean
  <2>6. ListedData'
    BY <2>1, <2>3, Zenon DEF DataInv, ListedData
  <2> QED
    BY <2>4, <2>5, <2>6 DEF DataInv
<1> QED
  BY <1>1, <1>2 DEF Next, Terminated

LEMMA DataHolds == Spec => [](OwnerInv /\ DataInv)
<1>1. Init => OwnerInv /\ DataInv
  BY OwnersInit, DataInit
<1>2. OwnerInv /\ DataInv /\ [Next]_vars => (OwnerInv /\ DataInv)'
  BY OwnersKept, DataKept
<1> QED
  BY <1>1, <1>2, PTL DEF Spec

(* A handler reads its own frame's messages, each with its own name and    *)
(* arguments, and an ACK carries its own handler's actions: what a request *)
(* borrows stays its task's until the deferred releases.                   *)
THEOREM HandlersReadTheirOwn == Spec => []OwnData
<1>1. OwnerInv /\ DataInv => OwnData
  <2> SUFFICES ASSUME OwnerInv, DataInv, NEW t \in Tasks
               PROVE  /\ pc[t] = "handler" =>
                            \A i \in DOMAIN Messages[Borrowed[req[t]]] :
                               /\ Name[Messages[Borrowed[req[t]]][i]] = <<t, i>>
                               /\ items[KV[Messages[Borrowed[req[t]]][i]]] = <<t, i>>
                      /\ pc[t] = "write" => actions[Actions[ack[t]]] = <<t>>
    BY Zenon DEF OwnData
  <2>1. pc[t] = "write" => actions[Actions[ack[t]]] = <<t>>
    BY DEF DataInv, ActionsInv, RequestData
  <2>2. ASSUME pc[t] = "handler", NEW i \in DOMAIN Messages[Borrowed[req[t]]]
        PROVE  /\ Name[Messages[Borrowed[req[t]]][i]] = <<t, i>>
               /\ items[KV[Messages[Borrowed[req[t]]][i]]] = <<t, i>>
    <3>1. Borrowed[req[t]] = f[t] /\ f[t] \in Ids
      BY <2>2 DEF DataInv, RequestData, HasRequest, OwnerInv, FrameInv, HoldsInbound, InUse
    <3>2. Listed(t) = Messages[f[t]]
      BY <2>2 DEF Listed, HoldsInbound
    <3>3. DOMAIN Messages[f[t]] = 1 .. Len(Messages[f[t]])
      BY <3>1 DEF OwnerInv, ListInv
    <3>4. i \in 1 .. Len(Listed(t)) /\ pc[t] \in Reading
      BY <2>2, <3>1, <3>2, <3>3 DEF Reading
    <3>5. Name[Listed(t)[i]] = <<t, i>> /\ items[KV[Listed(t)[i]]] = <<t, i>>
      BY <3>4, Zenon DEF DataInv, ListedData
    <3> QED
      BY <3>1, <3>2, <3>5, Zenon
  <2> QED
    BY <2>1, <2>2, Zenon
<1> QED
  BY <1>1, DataHolds, PTL

(* What Put returns to a pool is as good as new, and a pooled message owns *)
(* a KV that is not in the pool of those.                                  *)
THEOREM PoolsAreClean == Spec => []PooledClean
<1>1. OwnerInv /\ DataInv => PooledClean
  <2> SUFFICES ASSUME OwnerInv, DataInv PROVE PooledClean
    OBVIOUS
  <2>1. \A k \in Kinds : Pooled(k) \subseteq Free(k)
    BY DEF Free
  <2>2. \A x \in Pooled("frame") : Messages[x] = <<>> /\ Actions[x] = None
    BY <2>1 DEF OwnerInv, EmptyInv, DataInv, ActionsInv, Kinds
  <2>3. \A x \in Pooled("message") :
           Name[x] = Empty /\ items[KV[x]] = Empty /\ KV[x] \notin Pooled("kv")
    <3>1. \A x \in Pooled("message") : KV[x] \notin Pooled("kv")
      BY PooledOwns DEF InUse, Free
    <3> QED
      BY <3>1 DEF DataInv, MessageClean
  <2>4. \A x \in Pooled("kv") : items[x] = Empty
    BY <2>1 DEF DataInv, MessageClean, Kinds
  <2>5. \A x \in Pooled("request") : Borrowed[x] = None /\ actions[x] = <<>>
    BY <2>1 DEF DataInv, RequestData, Kinds
  <2> QED
    BY <2>2, <2>3, <2>4, <2>5 DEF PooledClean
<1> QED
  BY <1>1, DataHolds, PTL

=============================================================================
