-------------------------- MODULE WorkerConnection --------------------------
(***************************************************************************)
(* Module Worker implements module Connection.                             *)
(***************************************************************************)
EXTENDS Worker

(* What the read loop's pc amounts to.  The goodbye of a drain belongs to  *)
(* the drain; every other goodbye is still part of serving.                *)
Goodbye == {"once", "lockDisc", "writeDisc"}

Stage ==
    IF pc[Loop] = "end" THEN "returned"
    ELSE IF pc[Loop] = "cancel" THEN "cancelling"
    ELSE IF pc[Loop] = "close" THEN "closing"
    ELSE IF pc[Loop] = "drain" \/ (pc[Loop] \in Goodbye /\ code[Loop] = "shutdown")
         THEN "draining"
    ELSE "serving"

(* Who is in the middle of transport.Conn.Close.                           *)
Closer == IF closer \in Notifies THEN "handler" ELSE IF closer = Loop THEN "worker" ELSE closer

Conn == INSTANCE Connection WITH
    stage <- Stage,
    busy <- inflight # {},
    closer <- Closer,
    ctxDone <- cancelled,
    draining <- shuttingDown,
    poked <- shutdown \notin {"no", "done"}

(* The worker is a connection as the agent takes it to be: every step of   *)
(* its goroutines, of HAProxy and of Shutdown is a step of Connection or   *)
(* changes nothing there.                                                  *)
ImplementsConnection == Conn!Spec

-----------------------------------------------------------------------------
(* Handlers return, and writes come back.                                  *)
HandlersReturn == \A n \in Notifies : []<>(pc[n] # "handler")
WritesReturn ==
    \A p \in Procs : []<>(pc[p] \notin {"hello", "ackWrite", "writeDisc"})

(* The worker moves when the agent counts on it: a closed connection       *)
(* leaves its read loop without help from anybody, a poked one does and a  *)
(* drained one returns if the socket's writes come back.                   *)
LeavesWhenTold ==
    /\ Conn!ClosedLeaves
    /\ WritesReturn => Conn!PokedLeaves /\ Conn!DrainedReturns

(* Section 3.2.9: the socket closes after the AGENT-DISCONNECT, if the     *)
(* write of it comes back.                                                 *)
GoodbyeThenClose == WritesReturn => (goodbyeSent ~> SocketClosed)

(* Backpressure lets go: a loop parked in acquireSlot moves on once a      *)
(* handler has returned and its ACK is out.                                *)
ParkedMovesOn ==
    HandlersReturn /\ WritesReturn => (pc[Loop] = "parked" ~> pc[Loop] # "parked")

=============================================================================
