------------------------------- MODULE Worker -------------------------------
(***************************************************************************)
(* One SPOP connection as the worker package serves it: the read loop      *)
(* (worker.run), one goroutine per NOTIFY (processNotifyFrame), the two    *)
(* locks and the latch that order their writes, the read deadline, and the *)
(* two outsiders that act on the same connection, HAProxy and              *)
(* Agent.Shutdown.                                                         *)
(*                                                                         *)
(* A step of the model is a stretch of code between two points at which    *)
(* goroutines can meet: a lock, a channel, the WaitGroup, the socket, or a *)
(* look at the done channel.                                               *)
(***************************************************************************)
EXTENDS Integers, Sequences, FiniteSets

CONSTANTS
    Notifies,          \* the NOTIFY frames HAProxy may send, each handled by
                       \* a goroutine of the same name
    MaxInFlight,       \* Config.MaxInFlight; 0 is unlimited
    HandshakeTimeout,  \* is Timeouts.Handshake > 0 ?
    IdleTimeout,       \* is Timeouts.Idle > 0 ?
    WriteTimeout,      \* does the connection have a write timeout ?
    MaxControl,        \* bound: frames other than NOTIFYs that HAProxy sends
    MaxQueue           \* bound: frames sent and not yet decoded

Loop == "loop"                       \* the read-loop goroutine
Procs == Notifies \cup {Loop}

(* What ReadLimit and negotiate make of a frame that is not a NOTIFY.      *)
(* "malformed" is every frame ReadLimit refuses other than for its size,   *)
(* a frame cut short by the end of the stream included.                    *)
Control == {"hello", "badhello", "health", "disc", "malformed", "toobig"}
Frames == Notifies \cup Control

(* Status codes of section 3.5; the two reasons the code reports as        *)
(* statusCodeNormal are kept apart by their messages.                      *)
Codes == {"none", "closed", "shutdown", "IOError", "Timeout", "FrameTooBig",
          "InvalidFrame", "Handshake", "Unknown"}

ASSUME NotifiesAssumption ==
    Notifies \cap (Control \cup Codes \cup {Loop, "free", "new", "done", "agent"}) = {}
ASSUME LimitsAssumption ==
    /\ MaxInFlight \in Nat
    /\ MaxControl \in Nat
    /\ MaxQueue \in Nat
    /\ {HandshakeTimeout, IdleTimeout, WriteTimeout} \subseteq BOOLEAN
    /\ IsFiniteSet(Notifies)

VARIABLES
    pc,           \* where each goroutine is
    code,         \* the error a goroutine is about to report
    cur,          \* the frame the read loop has decoded
    owned,        \* the inbound frames each goroutine has got from the pool or
                  \* from the loop, less those it has given back or handed on
    ready,        \* worker.ready
    deadline,     \* the socket's read deadline: "none", "armed" or "past"
    slots,        \* the goroutines whose token is in worker.slots
    inflight,     \* the goroutines worker.inflight counts
    once,         \* worker.disconnectOnce: "new", its runner, or "done"
    sendMu,       \* worker.sendMu: "free" or its holder
    goodbyeSent,  \* worker.goodbyeSent
    closer,       \* transport.Conn.Close: "none", who has raised its flag and
                  \* not yet closed the socket, or "closed"
    cancelled,    \* is the handlers' context done ?
    stream,       \* frames HAProxy sent and the loop has not decoded
    buffered,     \* how many of them are already in the bufio.Reader
    peer,         \* HAProxy's end: "open", "eof" or "reset"
    control,      \* control frames HAProxy has sent
    shutdown,     \* how far Agent.Shutdown has got with this connection
    wire,         \* history: what this connection has put on the socket
    late          \* history: NOTIFYs dispatched after the drain began

loopVars == <<cur, ready, deadline>>
lockVars == <<once, sendMu, goodbyeSent>>
workVars == <<slots, inflight, owned>>
inVars   == <<stream, buffered, peer, control>>
vars == <<pc, code, loopVars, workVars, lockVars, closer, cancelled, inVars,
          shutdown, wire, late>>

(* close(agent.done) has happened, which is all shuttingDown looks at.     *)
shuttingDown == shutdown # "no"

(* transport.Conn.closed, the flag WritePayload looks at before it writes, *)
(* and the socket.  Close raises the flag under its lock and closes the    *)
(* socket after the unlock, and whoever finds the flag up returns at once, *)
(* with the socket perhaps still open.                                     *)
IsClosed == closer # "none"
SocketClosed == closer = "closed"

Goto(p, l) == pc' = [pc EXCEPT ![p] = l]
Fail(p, c) == /\ code' = [code EXCEPT ![p] = c]
              /\ Goto(p, "once")

ReleaseFrame(p) == owned' = [owned EXCEPT ![p] = @ - 1]

Init ==
    /\ pc = [p \in Procs |-> IF p = Loop THEN "top" ELSE "idle"]
    /\ code = [p \in Procs |-> "none"]
    /\ cur = "none" /\ ready = FALSE /\ deadline = "none"
    /\ slots = {} /\ inflight = {} /\ owned = [p \in Procs |-> 0]
    /\ once = "new" /\ sendMu = "free" /\ goodbyeSent = FALSE
    /\ closer = "none" /\ cancelled = FALSE
    /\ stream = <<>> /\ buffered = 0 /\ peer = "open" /\ control = 0
    /\ shutdown = "no"
    /\ wire = <<>> /\ late = {}

-----------------------------------------------------------------------------
(* Writing to the socket.  transport.Conn.WriteFrame puts a whole frame on *)
(* the wire, or fails having put nothing there, or fails part way through. *)
(* A goroutine whose pc is at a write has found IsClosed false; from there *)
(* the write cannot succeed once the socket is closed, and fails only when *)
(* the socket is closed, the peer is gone or a write timeout is set.       *)

Frame(t, a) == [type |-> t, arg |-> a]

WriteMayFail == SocketClosed \/ WriteTimeout \/ peer # "open"

WriteOk(f) == /\ ~SocketClosed /\ peer # "reset"
              /\ wire' = Append(wire, f)

WriteError == /\ WriteMayFail
              /\ \/ wire' = wire
                 \/ /\ ~SocketClosed /\ peer # "reset" /\ WriteTimeout
                    /\ wire' = Append(wire, Frame("part", "none"))

-----------------------------------------------------------------------------
(* The read loop: run and armReadDeadline.                                 *)

(* The top of the loop: take a frame from the pool and look at done.       *)
AcquireFrame ==
    /\ pc[Loop] = "top"
    /\ owned' = [owned EXCEPT ![Loop] = @ + 1]
    /\ Goto(Loop, IF shuttingDown THEN "expire" ELSE "arm")
    /\ UNCHANGED <<code, loopVars, slots, inflight, lockVars, closer,
                   cancelled, inVars, shutdown, wire, late>>

(* Setting the deadline of a closed connection is an error, on which run   *)
(* releases the frame and returns without a word to the peer.              *)
SetReadDeadline(d, next) ==
    /\ \/ /\ SocketClosed
          /\ ReleaseFrame(Loop)
          /\ Goto(Loop, "close")
          /\ UNCHANGED deadline
       \/ /\ ~SocketClosed
          /\ deadline' = d
          /\ Goto(Loop, next)
          /\ UNCHANGED owned
    /\ UNCHANGED <<code, cur, ready, slots, inflight, lockVars, closer,
                   cancelled, inVars, shutdown, wire, late>>

readTimeout == IF ready THEN IdleTimeout ELSE HandshakeTimeout

ArmDeadline ==
    /\ pc[Loop] = "arm"
    /\ SetReadDeadline(IF readTimeout THEN "armed" ELSE "none", "recheck")

(* Mutant: the deadline is armed without a second look at done.            *)
ArmAndRead ==
    /\ pc[Loop] = "recheck"
    /\ Goto(Loop, "read")
    /\ UNCHANGED <<code, loopVars, workVars, lockVars, closer, cancelled,
                   inVars, shutdown, wire, late>>

RecheckDone ==
    /\ pc[Loop] = "recheck"
    /\ Goto(Loop, IF shuttingDown THEN "expire" ELSE "read")
    /\ UNCHANGED <<code, loopVars, workVars, lockVars, closer, cancelled,
                   inVars, shutdown, wire, late>>

ExpireDeadline ==
    /\ pc[Loop] = "expire"
    /\ SetReadDeadline("past", "read")

(* ReadLimit finds a whole frame.  One already in the bufio.Reader is      *)
(* served without touching the socket; otherwise the socket is read, which *)
(* an expired deadline or a close forbids, and brings in at least the next *)
(* frame and perhaps more.                                                 *)
ReadFrame ==
    /\ pc[Loop] = "read"
    /\ stream # <<>>
    /\ \/ buffered > 0 /\ buffered' = buffered - 1
       \/ /\ buffered = 0 /\ ~SocketClosed /\ deadline # "past"
          /\ buffered' \in 0 .. Len(stream) - 1
    /\ stream' = Tail(stream)
    /\ LET f == Head(stream) IN
       \/ /\ f \in {"malformed", "toobig"}
          /\ ReleaseFrame(Loop)
          /\ Fail(Loop, IF f = "toobig" THEN "FrameTooBig" ELSE "InvalidFrame")
          /\ UNCHANGED cur
       \/ /\ f \notin {"malformed", "toobig"}
          /\ cur' = f
          /\ Goto(Loop, "dispatch")
          /\ UNCHANGED <<code, owned>>
    /\ UNCHANGED <<ready, deadline, slots, inflight, lockVars, closer,
                   cancelled, peer, control, shutdown, wire, late>>

(* ReadLimit fails: nothing is buffered and the socket reports, in the     *)
(* order Go's poller looks at them, a close, an expired deadline, the end  *)
(* of the stream or a reset.                                               *)
ReadFails(next) ==
    /\ pc[Loop] = "read"
    /\ buffered = 0
    /\ ReleaseFrame(Loop)
    /\ next
    /\ UNCHANGED <<loopVars, slots, inflight, lockVars, closer, cancelled,
                   inVars, shutdown, wire, late>>

ReadDeadline ==
    ReadFails(/\ ~SocketClosed /\ deadline \in {"armed", "past"}
              /\ Goto(Loop, "deadline")
              /\ UNCHANGED code)

ReadEOF ==
    ReadFails(/\ ~SocketClosed /\ deadline # "past" /\ stream = <<>> /\ peer = "eof"
              /\ Goto(Loop, "close")
              /\ UNCHANGED code)

ReadError ==
    ReadFails(/\ SocketClosed \/ (deadline # "past" /\ stream = <<>> /\ peer = "reset")
              /\ Fail(Loop, "InvalidFrame"))

(* Mutant: every expired deadline is an idle peer.                         *)
AlwaysTimeout ==
    /\ pc[Loop] = "deadline"
    /\ Fail(Loop, "Timeout")
    /\ UNCHANGED <<loopVars, workVars, lockVars, closer, cancelled, inVars,
                   shutdown, wire, late>>

(* run tells a drain from an idle peer by looking at done.                 *)
ClassifyDeadline ==
    /\ pc[Loop] = "deadline"
    /\ \/ shuttingDown /\ Goto(Loop, "drain") /\ UNCHANGED code
       \/ ~shuttingDown /\ Fail(Loop, "Timeout")
    /\ UNCHANGED <<loopVars, workVars, lockVars, closer, cancelled, inVars,
                   shutdown, wire, late>>

-----------------------------------------------------------------------------
(* dispatch, one action per case.  Only the first look at the frame; what  *)
(* blocks comes in the steps after it.                                     *)

DispatchHello ==
    /\ pc[Loop] = "dispatch"
    /\ cur \in {"hello", "badhello", "health"}
    /\ \/ ready /\ Fail(Loop, "InvalidFrame") /\ UNCHANGED <<cur, owned>>
       \/ /\ ~ready /\ cur = "badhello"
          /\ Fail(Loop, "Handshake")
          /\ UNCHANGED <<cur, owned>>
       \/ /\ ~ready /\ cur # "badhello" /\ ~IsClosed
          /\ Goto(Loop, "hello")
          /\ UNCHANGED <<code, cur, owned>>
       \/ /\ ~ready /\ cur # "badhello" /\ IsClosed
          /\ Goto(Loop, "close")
          /\ cur' = "none" /\ ReleaseFrame(Loop)
          /\ UNCHANGED code
    /\ UNCHANGED <<ready, deadline, slots, inflight, lockVars, closer,
                   cancelled, inVars, shutdown, wire, late>>

AgentHello == Frame("hello", "none")

(* sendAgentHello writes without sendMu; a health check ends the           *)
(* connection there, and so does a failed write.                           *)
SendAgentHello ==
    /\ pc[Loop] = "hello"
    /\ \/ /\ WriteOk(AgentHello)
          /\ ready' = (cur = "hello")
          /\ Goto(Loop, IF cur = "hello" THEN "top" ELSE "close")
       \/ /\ WriteError
          /\ Goto(Loop, "close")
          /\ UNCHANGED ready
    /\ cur' = "none"
    /\ ReleaseFrame(Loop)
    /\ UNCHANGED <<code, deadline, slots, inflight, lockVars, closer,
                   cancelled, inVars, shutdown, late>>

(* The reply to a HAPROXY-DISCONNECT is sent by sendAgentDisconnect itself *)
(* and not through disconnectOnce.                                         *)
DispatchDisconnect ==
    /\ pc[Loop] = "dispatch"
    /\ cur = "disc"
    /\ \/ ~ready /\ Fail(Loop, "InvalidFrame")
       \/ /\ ready
          /\ code' = [code EXCEPT ![Loop] = "closed"]
          /\ Goto(Loop, "lockDisc")
    /\ UNCHANGED <<loopVars, workVars, lockVars, closer, cancelled, inVars,
                   shutdown, wire, late>>

(* The end of the NOTIFY case: count the handler, give it the frame and    *)
(* start it.                                                               *)
StartHandler(n) ==
    /\ inflight' = inflight \cup {n}
    /\ owned' = [owned EXCEPT ![Loop] = @ - 1, ![n] = @ + 1]
    /\ pc' = [pc EXCEPT ![Loop] = "top", ![n] = "handler"]
    /\ cur' = "none"
    /\ late' = IF shuttingDown THEN late \cup {n} ELSE late

(* acquireSlot's own look at done, before its select; the mutant leaves it *)
(* to the select.                                                          *)
SelectOnly == "select"
LookAtDone == IF shuttingDown THEN "drain" ELSE "select"

(* The NOTIFY case up to acquireSlot's own look at done, which an          *)
(* unlimited connection never reaches.                                     *)
DispatchNotify ==
    /\ pc[Loop] = "dispatch"
    /\ cur \in Notifies
    /\ \/ /\ ~ready
          /\ Fail(Loop, "InvalidFrame")
          /\ UNCHANGED <<cur, inflight, owned, late>>
       \/ /\ ready /\ MaxInFlight = 0
          /\ StartHandler(cur)
          /\ UNCHANGED code
       \/ /\ ready /\ MaxInFlight > 0
          /\ Goto(Loop, LookAtDone)
          /\ UNCHANGED <<code, cur, inflight, owned, late>>
    /\ UNCHANGED <<ready, deadline, slots, lockVars, closer, cancelled,
                   inVars, shutdown, wire>>

(* A send into worker.slots does not block; the mutant's channel is one    *)
(* too large.                                                              *)
OneSlotMore == Cardinality(slots) <= MaxInFlight
SlotFree == Cardinality(slots) < MaxInFlight

(* acquireSlot's select picks any ready case, or parks the loop on both.   *)
AcquireSlot ==
    /\ pc[Loop] = "select"
    /\ \/ /\ SlotFree
          /\ slots' = slots \cup {cur}
          /\ StartHandler(cur)
       \/ /\ shuttingDown
          /\ Goto(Loop, "drain")
          /\ UNCHANGED <<slots, cur, inflight, owned, late>>
       \/ /\ ~SlotFree /\ ~shuttingDown
          /\ Goto(Loop, "parked")
          /\ UNCHANGED <<slots, cur, inflight, owned, late>>
    /\ UNCHANGED <<code, ready, deadline, lockVars, closer, cancelled, inVars,
                   shutdown, wire>>

(* Mutant: the goodbye does not wait for inflight.                         *)
DrainAtOnce ==
    /\ pc[Loop] = "drain"
    /\ Fail(Loop, "shutdown")
    /\ UNCHANGED <<loopVars, workVars, lockVars, closer, cancelled, inVars,
                   shutdown, wire, late>>

(* drain: inflight.Wait, then the goodbye.                                 *)
Drain ==
    /\ pc[Loop] = "drain"
    /\ inflight = {}
    /\ Fail(Loop, "shutdown")
    /\ UNCHANGED <<loopVars, workVars, lockVars, closer, cancelled, inVars,
                   shutdown, wire, late>>

-----------------------------------------------------------------------------
(* disconnect and close, run by the read loop and by NOTIFY goroutines.    *)

(* Mutant: the read loop gives its frame back even when the failed read    *)
(* has already done so.                                                    *)
ReleaseAgain(p) ==
    /\ Goto(p, "close")
    /\ IF p = Loop THEN ReleaseFrame(Loop) ELSE UNCHANGED owned
    /\ cur' = IF p = Loop THEN "none" ELSE cur

(* What p does when disconnect returns: the read loop releases a frame     *)
(* that dispatch still held, and both go on to close the connection.       *)
AfterDisconnect(p) ==
    /\ Goto(p, "close")
    /\ IF p = Loop /\ cur # "none" THEN ReleaseFrame(Loop) ELSE UNCHANGED owned
    /\ cur' = IF p = Loop THEN "none" ELSE cur

(* disconnectOnce.Do: the first caller runs, later callers wait for it to  *)
(* return and then do nothing.                                             *)
DisconnectOnce(p) ==
    /\ pc[p] = "once"
    /\ \/ /\ once = "new"
          /\ once' = p
          /\ Goto(p, "lockDisc")
          /\ UNCHANGED <<cur, owned>>
       \/ /\ once = "done"
          /\ AfterDisconnect(p)
          /\ UNCHANGED once
    /\ UNCHANGED <<code, ready, deadline, slots, inflight, sendMu,
                   goodbyeSent, closer, cancelled, inVars, shutdown, wire,
                   late>>

(* sendAgentDisconnect: lock and latch, then write and unlock.  The latch  *)
(* is set even if the connection turns out to be closed.                   *)
LockDisconnect(p) ==
    /\ pc[p] = "lockDisc"
    /\ sendMu = "free"
    /\ goodbyeSent' = TRUE
    /\ \/ /\ ~IsClosed
          /\ sendMu' = p
          /\ Goto(p, "writeDisc")
          /\ UNCHANGED <<cur, owned, once>>
       \/ /\ IsClosed
          /\ once' = IF once = p THEN "done" ELSE once
          /\ AfterDisconnect(p)
          /\ UNCHANGED sendMu
    /\ UNCHANGED <<code, ready, deadline, slots, inflight, closer, cancelled,
                   inVars, shutdown, wire, late>>

WriteDisconnect(p) ==
    /\ pc[p] = "writeDisc"
    /\ WriteOk(Frame("disc", code[p])) \/ WriteError
    /\ sendMu' = "free"
    /\ once' = IF once = p THEN "done" ELSE once
    /\ AfterDisconnect(p)
    /\ UNCHANGED <<code, ready, deadline, slots, inflight, goodbyeSent,
                   closer, cancelled, inVars, shutdown, late>>

(* Where transport.Conn.Close returns to.                                  *)
AfterClose(p) == Goto(p, IF p = Loop THEN "cancel" ELSE "release")

(* Mutant: a NOTIFY goroutine leaves the close to the read loop.           *)
CloseByLoopOnly(p) ==
    /\ pc[p] = "close"
    /\ \/ p = Loop /\ closer = "none" /\ closer' = p /\ UNCHANGED pc
       \/ closer = p /\ closer' = "closed" /\ AfterClose(p)
       \/ (p # Loop \/ closer \notin {"none", p}) /\ AfterClose(p) /\ UNCHANGED closer
    /\ UNCHANGED <<code, loopVars, workVars, lockVars, cancelled, inVars,
                   shutdown, wire, late>>

(* The flag, then the socket; or nothing at all where the flag was up.     *)
Close(p) ==
    /\ pc[p] = "close"
    /\ \/ closer = "none" /\ closer' = p /\ UNCHANGED pc
       \/ closer = p /\ closer' = "closed" /\ AfterClose(p)
       \/ closer \notin {"none", p} /\ AfterClose(p) /\ UNCHANGED closer
    /\ UNCHANGED <<code, loopVars, workVars, lockVars, cancelled, inVars,
                   shutdown, wire, late>>

(* run's other deferred call, after which Handle returns.                  *)
Cancel ==
    /\ pc[Loop] = "cancel"
    /\ cancelled' = TRUE
    /\ Goto(Loop, "end")
    /\ UNCHANGED <<code, loopVars, workVars, lockVars, closer, inVars,
                   shutdown, wire, late>>

-----------------------------------------------------------------------------
(* processNotifyFrame, run by goroutine n.                                 *)

(* The handler returns, leaving actions that fit an ACK, that make it too  *)
(* large, or that cannot be encoded.                                       *)
HandlerReturn(n) ==
    /\ pc[n] = "handler"
    /\ code' \in {[code EXCEPT ![n] = c] : c \in {"none", "FrameTooBig", "Unknown"}}
    /\ Goto(n, "ackLock")
    /\ UNCHANGED <<loopVars, workVars, lockVars, closer, cancelled, inVars,
                   shutdown, wire, late>>

(* Mutant: the ACK is written without a look at goodbyeSent.               *)
AckRegardless(n) ==
    /\ pc[n] = "ackLock"
    /\ sendMu = "free"
    /\ \/ code[n] # "none" /\ Goto(n, "once") /\ UNCHANGED <<code, sendMu>>
       \/ code[n] = "none" /\ IsClosed /\ Fail(n, "IOError") /\ UNCHANGED sendMu
       \/ /\ code[n] = "none" /\ ~IsClosed
          /\ Goto(n, "ackWrite") /\ sendMu' = n
          /\ UNCHANGED code
    /\ UNCHANGED <<loopVars, workVars, once, goodbyeSent, closer, cancelled,
                   inVars, shutdown, wire, late>>

(* writeFrame up to the write: nothing is sent behind a goodbye, and an    *)
(* ACK that cannot be encoded or is too large never reaches the socket.    *)
LockAck(n) ==
    /\ pc[n] = "ackLock"
    /\ sendMu = "free"
    /\ \/ goodbyeSent /\ Goto(n, "release") /\ UNCHANGED <<code, sendMu>>
       \/ /\ ~goodbyeSent /\ code[n] # "none"
          /\ Goto(n, "once")
          /\ UNCHANGED <<code, sendMu>>
       \/ /\ ~goodbyeSent /\ code[n] = "none" /\ IsClosed
          /\ Fail(n, "IOError")
          /\ UNCHANGED sendMu
       \/ /\ ~goodbyeSent /\ code[n] = "none" /\ ~IsClosed
          /\ Goto(n, "ackWrite") /\ sendMu' = n
          /\ UNCHANGED code
    /\ UNCHANGED <<loopVars, workVars, once, goodbyeSent, closer, cancelled,
                   inVars, shutdown, wire, late>>

WriteAck(n) ==
    /\ pc[n] = "ackWrite"
    /\ sendMu' = "free"
    /\ \/ WriteOk(Frame("ack", n)) /\ Goto(n, "release") /\ UNCHANGED code
       \/ WriteError /\ Fail(n, "IOError")
    /\ UNCHANGED <<loopVars, workVars, once, goodbyeSent, closer, cancelled,
                   inVars, shutdown, late>>

(* Is the read loop asleep in acquireSlot's select ?  The mutants wake a   *)
(* loop that is not, and forget one that is.                               *)
WakeAnyone == TRUE
WakeNobody == FALSE
LoopParked == pc[Loop] = "parked"

(* The deferred ReleaseFrame and releaseSlot.  Receiving from a full       *)
(* channel on which the read loop is parked hands it the slot.             *)
ReleaseSlot(n) ==
    /\ pc[n] = "release"
    /\ ReleaseFrame(n)
    /\ IF LoopParked
         THEN /\ slots' = (slots \ {n}) \cup {cur}
              /\ pc' = [pc EXCEPT ![n] = "finish", ![Loop] = "granted"]
         ELSE /\ slots' = slots \ {n}
              /\ Goto(n, "finish")
    /\ UNCHANGED <<code, loopVars, inflight, lockVars, closer, cancelled,
                   inVars, shutdown, wire, late>>

(* The read loop, woken with a slot, carries on from acquireSlot.          *)
SlotGranted ==
    /\ pc[Loop] = "granted"
    /\ StartHandler(cur)
    /\ UNCHANGED <<code, ready, deadline, slots, lockVars, closer, cancelled,
                   inVars, shutdown, wire>>

(* The deferred inflight.Done.                                             *)
InflightDone(n) ==
    /\ pc[n] = "finish"
    /\ inflight' = inflight \ {n}
    /\ Goto(n, "end")
    /\ UNCHANGED <<code, loopVars, slots, owned, lockVars, closer, cancelled,
                   inVars, shutdown, wire, late>>

-----------------------------------------------------------------------------
(* HAProxy, constrained only by the order of a byte stream.                *)

PeerSend(f) ==
    /\ peer = "open"
    /\ Len(stream) < MaxQueue
    /\ \/ /\ f \in Control /\ control < MaxControl
          /\ control' = control + 1
       \/ /\ f \in Notifies /\ pc[f] = "idle" /\ cur # f
          /\ \A i \in 1 .. Len(stream) : stream[i] # f
          /\ UNCHANGED control
    /\ stream' = Append(stream, f)
    /\ UNCHANGED <<pc, code, loopVars, workVars, lockVars, closer, cancelled,
                   buffered, peer, shutdown, wire, late>>

PeerLeave ==
    /\ peer = "open"
    /\ peer' \in {"eof", "reset"}
    /\ UNCHANGED <<pc, code, loopVars, workVars, lockVars, closer, cancelled,
                   stream, buffered, control, shutdown, wire, late>>

(* Agent.Shutdown, as this connection meets it: close(done), which wakes a *)
(* loop parked in acquireSlot; the poke of the read deadline; and, when    *)
(* the grace period ends first, the cancel and the close.                  *)
CloseDone ==
    /\ shutdown = "no"
    /\ shutdown' = "done"
    /\ pc' = IF pc[Loop] = "parked" THEN [pc EXCEPT ![Loop] = "drain"] ELSE pc
    /\ UNCHANGED <<code, loopVars, workVars, lockVars, closer, cancelled,
                   inVars, wire, late>>

Poke ==
    /\ shutdown = "done"
    /\ shutdown' = "poked"
    /\ deadline' = IF SocketClosed THEN deadline ELSE "past"
    /\ UNCHANGED <<pc, code, cur, ready, workVars, lockVars, closer,
                   cancelled, inVars, wire, late>>

GraceCancel ==
    /\ shutdown = "poked"
    /\ pc[Loop] # "end"
    /\ shutdown' = "cancelled"
    /\ cancelled' = TRUE
    /\ UNCHANGED <<pc, code, loopVars, workVars, lockVars, closer, inVars,
                   wire, late>>

(* transport.Conn.Close on behalf of Shutdown, which returns at once when  *)
(* a goroutine of the connection has called it first.                      *)
GraceFlag ==
    /\ shutdown = "cancelled"
    /\ \/ closer = "none" /\ closer' = "agent" /\ shutdown' = "flagged"
       \/ closer # "none" /\ shutdown' = "closed" /\ UNCHANGED closer
    /\ UNCHANGED <<pc, code, loopVars, workVars, lockVars, cancelled, inVars,
                   wire, late>>

(* Mutant: the end of the grace period only cancels.                       *)
CancelOnly ==
    /\ shutdown = "flagged"
    /\ shutdown' = "closed"
    /\ UNCHANGED <<pc, code, loopVars, workVars, lockVars, closer, cancelled,
                   inVars, wire, late>>

GraceClose ==
    /\ shutdown = "flagged"
    /\ shutdown' = "closed"
    /\ closer' = "closed"
    /\ UNCHANGED <<pc, code, loopVars, workVars, lockVars, cancelled, inVars,
                   wire, late>>

-----------------------------------------------------------------------------
(* What a goroutine does on its own, and the writes, which wait for the    *)
(* peer to make room.                                                      *)
LoopStep ==
    \/ AcquireFrame \/ ArmDeadline \/ RecheckDone \/ ExpireDeadline
    \/ ReadFrame \/ ReadDeadline \/ ReadEOF \/ ReadError \/ ClassifyDeadline
    \/ DispatchHello \/ DispatchDisconnect \/ DispatchNotify \/ AcquireSlot
    \/ SlotGranted \/ Drain \/ Cancel

CommonStep(p) == DisconnectOnce(p) \/ LockDisconnect(p) \/ Close(p)

NotifyStep(n) == LockAck(n) \/ ReleaseSlot(n) \/ InflightDone(n)

WriteStep ==
    \/ SendAgentHello
    \/ \E p \in Procs : WriteDisconnect(p)
    \/ \E n \in Notifies : WriteAck(n)

Peer == (\E f \in Frames : PeerSend(f)) \/ PeerLeave

Shutdown == CloseDone \/ Poke \/ GraceCancel \/ GraceFlag \/ GraceClose

(* Handle has returned, so have the goroutines it started, and Shutdown    *)
(* has nothing left to do to this connection.                              *)
Terminated ==
    /\ pc[Loop] = "end"
    /\ \A n \in Notifies : pc[n] \in {"idle", "end"}
    /\ UNCHANGED vars

Next ==
    \/ LoopStep
    \/ \E p \in Procs : CommonStep(p)
    \/ \E n \in Notifies : NotifyStep(n) \/ HandlerReturn(n)
    \/ WriteStep
    \/ Peer
    \/ Shutdown
    \/ Terminated

Spec == Init /\ [][Next]_vars

(* The Go scheduler runs every goroutine that can run, and a runtime timer *)
(* that is set goes off.  A write comes back only once something makes it: *)
(* the peer is free to stop reading, and then it is the write timeout or a *)
(* close that returns it.  Shutdown, once called, pokes the connection,    *)
(* and once it has cancelled, closes it.                                   *)
Scheduling ==
    /\ WF_vars(LoopStep)
    /\ \A p \in Procs : WF_vars(CommonStep(p))
    /\ \A n \in Notifies : WF_vars(NotifyStep(n))
    /\ WF_vars(WriteMayFail /\ WriteStep)
    /\ WF_vars(Poke) /\ WF_vars(GraceFlag) /\ WF_vars(GraceClose)

(* Handlers are the user's code, of which no more is assumed than that     *)
(* they return once their context is done.                                 *)
HandlersHeedCancel == \A n \in Notifies : WF_vars(cancelled /\ HandlerReturn(n))

FairSpec == Spec /\ Scheduling /\ HandlersHeedCancel

-----------------------------------------------------------------------------
Labels ==
    {"top", "arm", "recheck", "expire", "read", "deadline", "dispatch",
     "hello", "select", "parked", "granted", "drain", "once", "lockDisc",
     "writeDisc", "close", "cancel", "end", "idle", "handler", "ackLock",
     "ackWrite", "release", "finish"}

WireFrames == [type : {"hello", "ack", "disc", "part"}, arg : Codes \cup Notifies]

(* The shape of the state.  The read loop decodes into cur only frames     *)
(* ReadLimit accepted, and it is a NOTIFY wherever acquireSlot works on it.*)
TypeOK ==
    /\ pc \in [Procs -> Labels]
    /\ code \in [Procs -> Codes]
    /\ cur \in Frames \cup {"none"}
    /\ pc[Loop] \in {"select", "parked", "granted"} => cur \in Notifies
    /\ owned \in [Procs -> Int]
    /\ deadline \in {"none", "armed", "past"}
    /\ slots \subseteq Notifies
    /\ inflight \subseteq Notifies
    /\ once \in Procs \cup {"new", "done"}
    /\ sendMu \in Procs \cup {"free"}
    /\ closer \in Procs \cup {"none", "agent", "closed"}
    /\ {ready, goodbyeSent, cancelled} \subseteq BOOLEAN
    /\ stream \in Seq(Frames)
    /\ buffered \in Nat /\ buffered <= Len(stream)
    /\ peer \in {"open", "eof", "reset"}
    /\ control \in 0 .. MaxControl
    /\ shutdown \in {"no", "done", "poked", "cancelled", "flagged", "closed"}
    /\ wire \in Seq(WireFrames)
    /\ late \subseteq Notifies

(* Section 3.2.9, and the reason sendMu spans both writes: once an         *)
(* AGENT-DISCONNECT is on the wire no ACK follows it, whichever goroutine  *)
(* sent it and however far a handler had got.                              *)
NoAckAfterGoodbye ==
    \A i, j \in 1 .. Len(wire) :
        wire[i].type = "disc" /\ wire[j].type = "ack" => j < i

(* armReadDeadline: a poke is never erased or outlasted.  Once Shutdown    *)
(* has poked the connection, a loop waiting in a read has an expired       *)
(* deadline, so it cannot be asleep for good.                              *)
PokeNeverLost ==
    shutdown \in {"poked", "cancelled", "flagged", "closed"} /\ pc[Loop] = "read"
        => deadline = "past" \/ SocketClosed

(* drain "finishes the work already dispatched, lets its ACKs out, and     *)
(* says goodbye": a shutdown goodbye on the wire has before it the ACK of  *)
(* every NOTIFY the connection ever dispatched.                            *)
DrainDeliversAcks ==
    \A i \in 1 .. Len(wire) : wire[i] = Frame("disc", "shutdown") =>
        \A n \in Notifies : pc[n] # "idle" =>
            \E j \in 1 .. i : wire[j] = Frame("ack", n)

Busy == {"handler", "ackLock", "ackWrite", "once", "lockDisc", "writeDisc",
         "close", "release"}

(* WithMaxInFlight: never more NOTIFYs between dispatch and the end of     *)
(* their ACK than the limit, counting one whose ACK is still going out.    *)
InFlightBound ==
    MaxInFlight > 0 =>
        Cardinality({n \in Notifies : pc[n] \in Busy}) <= MaxInFlight

(* A limited connection dispatches at most one NOTIFY after a drain began: *)
(* the one that had passed acquireSlot's check when done closed.           *)
LateDispatchBound == MaxInFlight > 0 => Cardinality(late) <= 1

(* Does p have an inbound frame it may still read ?  The read loop keeps   *)
(* the frame dispatch refused until the goodbye for it has been sent.      *)
HoldsFrame(p) ==
    \/ p \in Notifies /\ pc[p] \in Busy
    \/ p = Loop /\ pc[p] \in {"arm", "recheck", "expire", "read", "dispatch",
                              "hello", "select", "parked", "granted"}
    \/ p = Loop /\ pc[p] \in {"drain", "once", "lockDisc", "writeDisc"} /\ cur # "none"

(* "One release for every acquire": a goroutine's acquires and hand-overs  *)
(* exceed its releases by the frame it may still read, and by none once it *)
(* is through with it, so that none is lost and none is released twice.    *)
FrameOwnership ==
    \A p \in Procs : owned[p] = IF HoldsFrame(p) THEN 1 ELSE 0

(* "A shutdown must never report itself as section 3.5's code 2": the loop *)
(* reports a timeout only when its own timer woke it, never for a poke.    *)
TimeoutOnlyByTimer ==
    [][code'[Loop] = "Timeout" /\ code[Loop] # "Timeout" => deadline = "armed"]_vars

(* The end of the grace period frees every goroutine of the connection,    *)
(* one stuck in a write that no timeout bounds included, and the socket is *)
(* closed, whoever of them it was left to.                                 *)
ForcedCloseCompletes ==
    shutdown = "closed" ~> /\ SocketClosed
                           /\ pc[Loop] = "end"
                           /\ \A n \in Notifies : pc[n] \in {"idle", "end"}

-----------------------------------------------------------------------------
(* What comments and tests say that the code does not do.                  *)

(* "The peer is owed at most one AGENT-DISCONNECT however many goroutines  *)
(* reach the failure."                                                     *)
AtMostOneGoodbye ==
    \A i, j \in 1 .. Len(wire) :
        wire[i].type = "disc" /\ wire[j].type = "disc" => i = j

=============================================================================
