------------------------------- MODULE Pools --------------------------------
(***************************************************************************)
(* The object pools: frames, messages, KVs and requests that goroutines    *)
(* take from sync.Pools shared by the whole program, point at each other   *)
(* and give back.  A task is the handling of one NOTIFY, from the read     *)
(* loop's AcquireFrame to processNotifyFrame's last deferred call.         *)
(*                                                                         *)
(* Objects of a kind are numbered as they are made.  A frame's own KV,     *)
(* which it keeps for good, is left out.                                   *)
(***************************************************************************)
EXTENDS Integers, Sequences, Bags

CONSTANTS
    Tasks,    \* the NOTIFYs
    MaxMsgs,  \* bound: messages in a NOTIFY
    MaxObjs   \* bound: objects made of each kind

Ids == 1 .. MaxObjs
None == 0
Empty == <<>>
Kinds == {"frame", "message", "kv", "request"}

ASSUME PoolsAssumption == MaxMsgs \in Nat /\ MaxObjs \in Nat /\ None \notin Tasks

VARIABLES
    pc,        \* where each task is
    pool,      \* the bag of objects in each pool
    made,      \* how many of each kind exist
    f,         \* each task's inbound frame
    m,         \* the message it is decoding or giving back
    todo,      \* the messages of its frame it has yet to give back
    req, ack,  \* its request and its ACK frame
    Messages,  \* Frame.Messages
    Actions,   \* Frame.Actions: the request whose array it shares, or None
    Name,      \* Message.Name: whose it is, a task and a position, or Empty
    KV,        \* Message.KV
    items,     \* what a KV holds: whose arguments, or Empty
    Borrowed,  \* Request.Messages: the frame they are borrowed from, or None
    actions    \* the array of Request.Actions: the tasks that appended to it

taskVars == <<f, m, todo, req, ack>>
heapVars == <<Messages, Actions, Name, KV, items, Borrowed, actions>>
vars == <<pc, pool, made, taskVars, heapVars>>

Init ==
    /\ pc = [t \in Tasks |-> "start"]
    /\ pool = [k \in Kinds |-> EmptyBag]
    /\ made = [k \in Kinds |-> 0]
    /\ f = [t \in Tasks |-> None] /\ m = [t \in Tasks |-> None]
    /\ todo = [t \in Tasks |-> <<>>]
    /\ req = [t \in Tasks |-> None] /\ ack = [t \in Tasks |-> None]
    /\ Messages = [i \in Ids |-> <<>>] /\ Actions = [i \in Ids |-> None]
    /\ Name = [i \in Ids |-> Empty] /\ KV = [i \in Ids |-> None]
    /\ items = [i \in Ids |-> Empty]
    /\ Borrowed = [i \in Ids |-> None] /\ actions = [i \in Ids |-> <<>>]

Goto(t, l) == pc' = [pc EXCEPT ![t] = l]

(* sync.Pool.Get: any object in the pool, or a new one though there be     *)
(* others; and Put.                                                        *)
Pooled(k) == BagToSet(pool[k])
Fresh(k) == {i \in Ids : i = made[k] + 1}
Got(p, k, x) == [p EXCEPT ![k] = @ (-) SetToBag({x})]
Put(p, k, x) == [p EXCEPT ![k] = @ (+) SetToBag({x})]
Make(n, k, x) == [n EXCEPT ![k] = IF x > @ THEN x ELSE @]

Get(k, x) ==
    /\ x \in Pooled(k) \cup Fresh(k)
    /\ pool' = Got(pool, k, x)
    /\ made' = Make(made, k, x)

-----------------------------------------------------------------------------
(* run and ReadLimit.                                                      *)

AcquireFrame(t) ==
    /\ pc[t] = "start"
    /\ \E x \in Ids : Get("frame", x) /\ f' = [f EXCEPT ![t] = x]
    /\ Goto(t, "decode")
    /\ UNCHANGED <<m, todo, req, ack, heapVars>>

(* A turn of Messages.Decode.  A new message comes with a KV of its own    *)
(* from the pool of those.                                                 *)
AcquireMessage(t) ==
    /\ pc[t] = "decode"
    /\ Len(Messages[f[t]]) < MaxMsgs
    /\ \E x \in Ids :
          /\ m' = [m EXCEPT ![t] = x]
          /\ \/ x \in Pooled("message") /\ Get("message", x) /\ UNCHANGED KV
             \/ /\ x \in Fresh("message")
                /\ \E k \in Pooled("kv") \cup Fresh("kv") :
                      /\ pool' = Got(pool, "kv", k)
                      /\ made' = Make(Make(made, "message", x), "kv", k)
                      /\ KV' = [KV EXCEPT ![x] = k]
    /\ Goto(t, "name")
    /\ UNCHANGED <<f, todo, req, ack, Messages, Actions, Name, items, Borrowed, actions>>

Mine(t) == <<t, Len(Messages[f[t]]) + 1>>

(* The name is truncated, or there is nothing behind it, or a broken list  *)
(* of arguments, or a good one.                                            *)
DecodeMessage(t) ==
    /\ pc[t] = "name"
    /\ \/ Goto(t, "drop") /\ UNCHANGED <<Name, items, Messages>>
       \/ /\ Name' = [Name EXCEPT ![m[t]] = Mine(t)]
          /\ Goto(t, "dropAndQuote")
          /\ UNCHANGED <<items, Messages>>
       \/ /\ Name' = [Name EXCEPT ![m[t]] = Mine(t)]
          /\ items' = [items EXCEPT ![KV[m[t]]] = Mine(t)]
          /\ \/ Goto(t, "drop") /\ UNCHANGED Messages
             \/ /\ Messages' = [Messages EXCEPT ![f[t]] = Append(@, m[t])]
                /\ Goto(t, "decode")
    /\ UNCHANGED <<pool, made, taskVars, Actions, KV, Borrowed, actions>>

(* The buffer is used up, or ReadLimit fails for another reason.           *)
DecodeDone(t) ==
    /\ pc[t] = "decode"
    /\ Goto(t, "request") \/ Goto(t, "reset")
    /\ UNCHANGED <<pool, made, taskVars, heapVars>>

-----------------------------------------------------------------------------
(* ReleaseMessage, of a message dropped by Decode or of the next one of a  *)
(* frame that is reset: clear the name, give the KV back, take another,    *)
(* and give the message back.                                              *)

Releasing == {"drop", "dropAndQuote", "resetting"}
Swapping == {"dropKV", "dropAndQuoteKV", "resettingKV"}
Putting == {"put", "putAndQuote", "putAndReset"}

ReleaseKV(t) ==
    /\ pc[t] \in Releasing
    /\ Name' = [Name EXCEPT ![m[t]] = Empty]
    /\ items' = [items EXCEPT ![KV[m[t]]] = Empty]
    /\ pool' = Put(pool, "kv", KV[m[t]])
    /\ Goto(t, CASE pc[t] = "drop" -> "dropKV" [] pc[t] = "dropAndQuote" -> "dropAndQuoteKV"
                 [] OTHER -> "resettingKV")
    /\ UNCHANGED <<made, taskVars, Messages, Actions, KV, Borrowed, actions>>

(* Mutant: the message keeps the KV it gave back.                          *)
KeepKV(t) ==
    /\ pc[t] \in Swapping
    /\ UNCHANGED <<pool, made, KV>>

AcquireKV(t) ==
    /\ pc[t] \in Swapping
    /\ \E k \in Ids : Get("kv", k) /\ KV' = [KV EXCEPT ![m[t]] = k]

ReacquireKV(t) ==
    /\ AcquireKV(t)
    /\ Goto(t, CASE pc[t] = "dropKV" -> "put" [] pc[t] = "dropAndQuoteKV" -> "putAndQuote"
                 [] OTHER -> "putAndReset")
    /\ UNCHANGED <<taskVars, Messages, Actions, Name, items, Borrowed, actions>>

PutMessage(t) ==
    /\ pc[t] \in Putting
    /\ pool' = Put(pool, "message", m[t])
    /\ Goto(t, CASE pc[t] = "put" -> "reset" [] pc[t] = "putAndQuote" -> "quote"
                 [] OTHER -> "next")
    /\ UNCHANGED <<made, taskVars, heapVars>>

(* Decode formats the name of the message it has just given back into its  *)
(* error, by when the name is empty or another task's.  The read changes   *)
(* nothing, and the error goes to the log.                                 *)
QuoteName(t) ==
    /\ pc[t] = "quote"
    /\ Goto(t, "reset")
    /\ UNCHANGED <<pool, made, taskVars, heapVars>>

(* ReleaseFrame: Reset gives the messages back one by one, then empties    *)
(* the list, and the frame goes back.                                      *)
ResetFrame(t) ==
    /\ pc[t] = "reset"
    /\ todo' = [todo EXCEPT ![t] = Messages[f[t]]]
    /\ Goto(t, "next")
    /\ UNCHANGED <<pool, made, f, m, req, ack, heapVars>>

ResetMessage(t) ==
    /\ pc[t] = "next" /\ todo[t] # <<>>
    /\ m' = [m EXCEPT ![t] = Head(todo[t])]
    /\ todo' = [todo EXCEPT ![t] = Tail(@)]
    /\ Goto(t, "resetting")
    /\ UNCHANGED <<pool, made, f, req, ack, heapVars>>

ReleaseFrame(t) ==
    /\ pc[t] = "next" /\ todo[t] = <<>>
    /\ Messages' = [Messages EXCEPT ![f[t]] = <<>>]
    /\ pool' = Put(pool, "frame", f[t])
    /\ Goto(t, "done")
    /\ UNCHANGED <<made, taskVars, Actions, Name, KV, items, Borrowed, actions>>

-----------------------------------------------------------------------------
(* processNotifyFrame.                                                     *)

AcquireRequest(t) ==
    /\ pc[t] = "request"
    /\ \E x \in Ids :
          /\ Get("request", x)
          /\ req' = [req EXCEPT ![t] = x]
          /\ Borrowed' = [Borrowed EXCEPT ![x] = f[t]]
    /\ Goto(t, "handler")
    /\ UNCHANGED <<f, m, todo, ack, Messages, Actions, Name, KV, items, actions>>

(* The handler reads the messages and sets a variable.                     *)
Handler(t) ==
    /\ pc[t] = "handler"
    /\ actions' = [actions EXCEPT ![req[t]] = Append(@, t)]
    /\ Goto(t, "ack")
    /\ UNCHANGED <<pool, made, taskVars, Messages, Actions, Name, KV, items, Borrowed>>

AcquireAck(t) ==
    /\ pc[t] = "ack"
    /\ \E x \in Ids :
          /\ Get("frame", x)
          /\ ack' = [ack EXCEPT ![t] = x]
          /\ Actions' = [Actions EXCEPT ![x] = req[t]]
    /\ Goto(t, "write")
    /\ UNCHANGED <<f, m, todo, req, Messages, Name, KV, items, Borrowed, actions>>

(* writeFrame, and the deferred releases, the ACK's frame first.           *)
ReleaseAck(t) ==
    /\ pc[t] = "write"
    /\ Actions' = [Actions EXCEPT ![ack[t]] = None]
    /\ pool' = Put(pool, "frame", ack[t])
    /\ Goto(t, "written")
    /\ UNCHANGED <<made, taskVars, Messages, Name, KV, items, Borrowed, actions>>

(* Mutants: the request keeps its Messages, or gives them back.            *)
KeepMessages(t) ==
    /\ pc[t] = "written"
    /\ actions' = [actions EXCEPT ![req[t]] = <<>>]
    /\ pool' = Put(pool, "request", req[t])
    /\ UNCHANGED <<Borrowed>>
ResetMessages(t) ==
    /\ pc[t] = "written"
    /\ actions' = [actions EXCEPT ![req[t]] = <<>>]
    /\ Borrowed' = [Borrowed EXCEPT ![req[t]] = None]
    /\ pool' = [Put(pool, "request", req[t]) EXCEPT !["message"] =
                   @ (+) SetToBag({Messages[f[t]][i] : i \in DOMAIN Messages[f[t]]})]

ResetRequest(t) ==
    /\ pc[t] = "written"
    /\ actions' = [actions EXCEPT ![req[t]] = <<>>]
    /\ Borrowed' = [Borrowed EXCEPT ![req[t]] = None]
    /\ pool' = Put(pool, "request", req[t])

ReleaseRequest(t) ==
    /\ ResetRequest(t)
    /\ Goto(t, "reset")
    /\ UNCHANGED <<made, taskVars, Messages, Actions, Name, KV, items>>

-----------------------------------------------------------------------------
Step(t) ==
    \/ AcquireFrame(t) \/ AcquireMessage(t) \/ DecodeMessage(t) \/ DecodeDone(t)
    \/ ReleaseKV(t) \/ ReacquireKV(t) \/ PutMessage(t) \/ QuoteName(t)
    \/ ResetFrame(t) \/ ResetMessage(t) \/ ReleaseFrame(t)
    \/ AcquireRequest(t) \/ Handler(t) \/ AcquireAck(t) \/ ReleaseAck(t)
    \/ ReleaseRequest(t)

Terminated == (\A t \in Tasks : pc[t] = "done") /\ UNCHANGED vars

Next == (\E t \in Tasks : Step(t)) \/ Terminated

Spec == Init /\ [][Next]_vars

-----------------------------------------------------------------------------
Elems(s) == {s[i] : i \in DOMAIN s}

(* The objects a task owns: it has acquired them, by itself or through an  *)
(* object it owns, and not yet given them back.  A message that is being   *)
(* given back has no KV between its two steps, and once it is back it is   *)
(* nobody's.  QuoteName is the one step that reads what its task does not  *)
(* own any more; QuotesOwnMessage is about it.                             *)
HoldsInbound(t) == pc[t] \notin {"start", "done"}
Working(t) == pc[t] \in {"name"} \cup Releasing \cup Swapping \cup Putting
Listed(t) ==
    IF pc[t] \in {"resetting", "resettingKV", "putAndReset", "next"} THEN todo[t]
    ELSE IF HoldsInbound(t) THEN Messages[f[t]] ELSE <<>>
HeldMessages(t) == Elems(Listed(t)) \cup (IF Working(t) THEN {m[t]} ELSE {})
Held(t, k) ==
    CASE k = "frame" -> (IF HoldsInbound(t) THEN {f[t]} ELSE {})
                        \cup (IF pc[t] = "write" THEN {ack[t]} ELSE {})
      [] k = "message" -> HeldMessages(t)
      [] k = "kv" -> {KV[x] : x \in HeldMessages(t) \
                        (IF pc[t] \in Swapping THEN {m[t]} ELSE {})}
      [] k = "request" -> IF pc[t] \in {"handler", "ack", "write", "written"}
                          THEN {req[t]} ELSE {}

(* No object is in its pool twice, or in its pool while a task owns it, or *)
(* owned by two tasks, however many connections share the pools and        *)
(* wherever a decoding fails.  So no step of a task but QuoteName touches  *)
(* an object that another task, or the pool, may have by then.             *)
OneOwner ==
    /\ \A k \in Kinds : \A x \in Pooled(k) : pool[k][x] = 1
    /\ \A k \in Kinds, t \in Tasks : Held(t, k) \cap Pooled(k) = {}
    /\ \A k \in Kinds, t, u \in Tasks : t # u => Held(t, k) \cap Held(u, k) = {}

(* "Valid only for the duration of the handler call": what a handler reads *)
(* through its request is what its own frame carried, and what its ACK     *)
(* carries is what it set itself.                                          *)
OwnData ==
    \A t \in Tasks :
        /\ pc[t] = "handler" =>
              LET msgs == Messages[Borrowed[req[t]]] IN
              \A i \in DOMAIN msgs :
                  Name[msgs[i]] = <<t, i>> /\ items[KV[msgs[i]]] = <<t, i>>
        /\ pc[t] = "write" => actions[Actions[ack[t]]] = <<t>>

(* An object in its pool is as good as new: the next task finds nothing of *)
(* the last one in it, nor a pointer to what has another owner by then.    *)
PooledClean ==
    /\ \A x \in Pooled("frame") : Messages[x] = <<>> /\ Actions[x] = None
    /\ \A x \in Pooled("message") :
          Name[x] = Empty /\ items[KV[x]] = Empty /\ KV[x] \notin Pooled("kv")
    /\ \A x \in Pooled("kv") : items[x] = Empty
    /\ \A x \in Pooled("request") : Borrowed[x] = None /\ actions[x] = <<>>

-----------------------------------------------------------------------------
(* What an error says that the code does not do.                           *)

(* "error decode message %q, missing NB-ARGS byte": the message the error  *)
(* names is the one that was cut short, still in the hands of the task     *)
(* that decodes it.                                                        *)
QuotesOwnMessage ==
    \A t \in Tasks : pc[t] = "quote" =>
        /\ Name[m[t]] = Mine(t)
        /\ m[t] \notin Pooled("message")
        /\ \A u \in Tasks \ {t} : m[t] \notin Held(u, "message")

=============================================================================
