----------------------------- MODULE Connection -----------------------------
(***************************************************************************)
(* What the rest of the agent may rely on in a connection being served:    *)
(* when handlers may start, what a drain waits for, in which order the     *)
(* connection is taken down, and what ends it from outside.  Module Worker *)
(* implements this specification in full detail, and module Agent treats   *)
(* each of its connections as one of these.                                *)
(***************************************************************************)

VARIABLES
    stage,     \* "serving", "draining", "closing", "cancelling", "returned"
    busy,      \* is a NOTIFY between its dispatch and the end of its handling ?
    closer,    \* "none", who has raised the closed flag and not yet closed the
               \* socket ("handler", "worker" or "agent"), or "closed"
    ctxDone,   \* is the handlers' context done ?
    draining,  \* has the agent begun to drain ?
    poked      \* has the read deadline been expired to say so ?

vars == <<stage, busy, closer, ctxDone, draining, poked>>

Init ==
    /\ stage = "serving"
    /\ busy = FALSE /\ closer = "none" /\ ctxDone = FALSE
    /\ draining = FALSE /\ poked = FALSE

(* NOTIFYs are dispatched by the read loop only.                           *)
StartHandler ==
    /\ stage = "serving" /\ ~busy
    /\ busy' = TRUE
    /\ UNCHANGED <<stage, closer, ctxDone, draining, poked>>

(* An ACK that cannot be written takes the connection down with it.  Here  *)
(* as below, whoever closes the connection raises its flag and then closes *)
(* the socket, unless somebody else had raised the flag.                   *)
HandlerFlag ==
    /\ busy
    /\ closer = "none" /\ closer' = "handler"
    /\ UNCHANGED <<stage, busy, ctxDone, draining, poked>>

HandlerClose ==
    /\ closer = "handler" /\ closer' = "closed"
    /\ UNCHANGED <<stage, busy, ctxDone, draining, poked>>

(* A handler is not through while it has the socket to close.              *)
HandlersDone ==
    /\ busy /\ closer # "handler"
    /\ busy' = FALSE
    /\ UNCHANGED <<stage, closer, ctxDone, draining, poked>>

(* The read loop ends: for a drain, and then the handlers are waited for,  *)
(* or for anything else, and then they are not.                            *)
Drain ==
    /\ stage = "serving" /\ draining
    /\ stage' = "draining"
    /\ UNCHANGED <<busy, closer, ctxDone, draining, poked>>

Leave ==
    /\ stage = "serving" \/ (stage = "draining" /\ ~busy)
    /\ stage' = "closing"
    /\ UNCHANGED <<busy, closer, ctxDone, draining, poked>>

(* The read loop's goroutine closes the connection, cancels the handlers   *)
(* and returns, in that order.  Its close returns at once, with the socket *)
(* perhaps still open, where a handler or the agent is at it.              *)
RaiseFlag ==
    /\ stage = "closing"
    /\ closer = "none" /\ closer' = "worker"
    /\ UNCHANGED <<stage, busy, ctxDone, draining, poked>>

Close ==
    /\ stage = "closing" /\ closer # "none"
    /\ stage' = "cancelling"
    /\ closer' = IF closer = "worker" THEN "closed" ELSE closer
    /\ UNCHANGED <<busy, ctxDone, draining, poked>>

Cancel ==
    /\ stage = "cancelling"
    /\ stage' = "returned"
    /\ ctxDone' = TRUE
    /\ UNCHANGED <<busy, closer, draining, poked>>

(* What the agent does to the connection from outside.  A loop waiting for *)
(* a slot notices a drain as it begins; and when a connection has to be    *)
(* torn down, its handlers hear of it before the socket dies.              *)
BeginDrain ==
    /\ ~draining
    /\ draining' = TRUE
    /\ \/ UNCHANGED stage
       \/ stage = "serving" /\ stage' = "draining"
    /\ UNCHANGED <<busy, closer, ctxDone, poked>>

Poke ==
    /\ draining
    /\ poked' = TRUE
    /\ UNCHANGED <<stage, busy, closer, ctxDone, draining>>

ForceCancel ==
    /\ draining
    /\ ctxDone' = TRUE
    /\ UNCHANGED <<stage, busy, closer, draining, poked>>

ForceFlag ==
    /\ draining /\ ctxDone
    /\ closer = "none" /\ closer' = "agent"
    /\ UNCHANGED <<stage, busy, ctxDone, draining, poked>>

ForceClose ==
    /\ closer = "agent" /\ closer' = "closed"
    /\ UNCHANGED <<stage, busy, ctxDone, draining, poked>>

Next ==
    \/ StartHandler \/ HandlerFlag \/ HandlerClose \/ HandlersDone
    \/ Drain \/ Leave \/ RaiseFlag \/ Close \/ Cancel
    \/ BeginDrain \/ Poke \/ ForceCancel \/ ForceFlag \/ ForceClose

Spec == Init /\ [][Next]_vars

-----------------------------------------------------------------------------
(* What may be waited for.  A closed connection returns, unless it drains  *)
(* and a handler keeps it; a poked one leaves its read loop too, and one   *)
(* that has waited for its handlers returns, if writes come back.          *)
ClosedLeaves == closer = "closed" ~> (stage = "returned" \/ (stage = "draining" /\ busy))
PokedLeaves == poked ~> stage # "serving"
DrainedReturns == (stage = "draining" /\ ~busy) ~> stage = "returned"

=============================================================================
