----------------------------- MODULE Transport ------------------------------
(***************************************************************************)
(* transport.Conn: payloads written by goroutines that share a connection, *)
(* under a lock and perhaps a deadline, while others close it.             *)
(*                                                                         *)
(* The socket takes a payload piece by piece, as the peer makes room, and  *)
(* the peer may stop doing so at any piece.                                *)
(***************************************************************************)
EXTENDS Naturals, Sequences, FiniteSets

CONSTANTS
    Writers,    \* the goroutines that call WritePayload, each once
    Closers,    \* the goroutines that call Close, each once
    Pieces,     \* how many pieces the socket takes a payload in
    MaxSets     \* bound: calls of SetWriteTimeout after the first

ASSUME TransportAssumption ==
    /\ Pieces \in Nat \ {0}
    /\ MaxSets \in Nat
    /\ {"free", "none"} \cap Writers = {}

VARIABLES
    pc,            \* where each call of WritePayload is
    result,        \* what it returns: "none" yet, "ok" or the kind of error
    sent,          \* the pieces of its payload the socket has taken
    writeMu,       \* Conn.writeMu: "free" or its holder
    closed,        \* Conn.closed
    writeTimeout,  \* is Conn.writeTimeout > 0 ?
    sets,          \* calls of SetWriteTimeout so far
    socket,        \* net.Conn: "open", "closed" or "reset" by the peer
    deadline,      \* its write deadline: "none" or the payload it was set for
    cpc,           \* where each call of Close is
    wire,          \* history: whose pieces the socket took
    late           \* history: calls of WritePayload begun after a Close returned

callVars == <<pc, result, sent, writeMu>>
sockVars == <<socket, deadline, wire>>
vars == <<callVars, closed, writeTimeout, sets, sockVars, cpc, late>>

Init ==
    /\ pc = [w \in Writers |-> "start"]
    /\ result = [w \in Writers |-> "none"]
    /\ sent = [w \in Writers |-> 0]
    /\ writeMu = "free"
    /\ closed = FALSE
    /\ writeTimeout \in BOOLEAN /\ sets = 0
    /\ socket = "open" /\ deadline = "none"
    /\ cpc = [k \in Closers |-> "start"]
    /\ wire = <<>> /\ late = {}

Goto(w, l) == pc' = [pc EXCEPT ![w] = l]
Return(w, r) == result' = [result EXCEPT ![w] = r]

-----------------------------------------------------------------------------
(* WritePayload.                                                           *)

Call(w) ==
    /\ pc[w] = "start"
    /\ Goto(w, "lock")
    /\ late' = IF \E k \in Closers : cpc[k] = "done" THEN late \cup {w} ELSE late
    /\ UNCHANGED <<result, sent, writeMu, closed, writeTimeout, sets, sockVars, cpc>>

(* Mutant: a payload does not wait for the one before it.                  *)
LockFree(w) == TRUE
MayLock(w) == writeMu = "free"

Lock(w) ==
    /\ pc[w] = "lock"
    /\ MayLock(w)
    /\ writeMu' = w
    /\ Goto(w, "check")
    /\ UNCHANGED <<result, sent, closed, writeTimeout, sets, sockVars, cpc, late>>

(* Mutant: the flag is not looked at.                                      *)
CheckNothing(w) ==
    /\ pc[w] = "check"
    /\ Goto(w, "timeout")
    /\ UNCHANGED <<result, sent, writeMu, closed, writeTimeout, sets, sockVars, cpc, late>>

(* IsClosed.                                                               *)
CheckClosed(w) ==
    /\ pc[w] = "check"
    /\ \/ closed /\ Return(w, "refused") /\ Goto(w, "unlock")
       \/ ~closed /\ Goto(w, "timeout") /\ UNCHANGED result
    /\ UNCHANGED <<sent, writeMu, closed, writeTimeout, sets, sockVars, cpc, late>>

(* Mutant: no deadline reaches the socket.                                 *)
ArmNothing(w) ==
    /\ pc[w] = "timeout"
    /\ Goto(w, "write")
    /\ UNCHANGED <<result, sent, writeMu, closed, writeTimeout, sets, sockVars, cpc, late>>

(* WriteTimeout, and SetWriteDeadline if there is one, which a closed      *)
(* socket refuses.                                                         *)
Arm(w) ==
    /\ pc[w] = "timeout"
    /\ \/ ~writeTimeout /\ Goto(w, "write") /\ UNCHANGED <<result, deadline>>
       \/ /\ writeTimeout /\ socket # "closed"
          /\ deadline' = w
          /\ Goto(w, "write")
          /\ UNCHANGED result
       \/ /\ writeTimeout /\ socket = "closed"
          /\ Return(w, "error") /\ Goto(w, "unlock")
          /\ UNCHANGED deadline
    /\ UNCHANGED <<sent, writeMu, closed, writeTimeout, sets, socket, wire, cpc, late>>

(* Where the deferred calls take up: clearing a deadline that was set.     *)
After(w) == IF deadline = w THEN "clear" ELSE "unlock"

(* The socket takes a piece; with the last one Write and fn return.        *)
WritePiece(w) ==
    /\ pc[w] = "write"
    /\ socket = "open"
    /\ sent' = [sent EXCEPT ![w] = @ + 1]
    /\ wire' = Append(wire, w)
    /\ IF sent'[w] = Pieces
         THEN Return(w, "ok") /\ Goto(w, After(w))
         ELSE UNCHANGED <<pc, result>>
    /\ UNCHANGED <<writeMu, closed, writeTimeout, sets, socket, deadline, cpc, late>>

(* Mutant: a short write is taken for a write.                             *)
ShortIsOk(r) == IF r = "short" THEN "ok" ELSE r
WriteResult(r) == r

(* Write fails: the socket is closed or reset, the deadline passes, or it  *)
(* comes back short of the payload, which WriteFrame makes an error.       *)
WriteFails(w, r) ==
    /\ pc[w] = "write"
    /\ \/ r = "error" /\ socket # "open"
       \/ r = "timeout" /\ socket = "open" /\ deadline # "none"
       \/ r = "short" /\ socket = "open" /\ sent[w] > 0
    /\ Return(w, WriteResult(r))
    /\ Goto(w, After(w))
    /\ UNCHANGED <<sent, writeMu, closed, writeTimeout, sets, sockVars, cpc, late>>

(* Mutant: the deadline is left standing.                                  *)
KeepDeadline(w) ==
    /\ pc[w] = "clear"
    /\ Goto(w, "unlock")
    /\ UNCHANGED <<result, sent, writeMu, closed, writeTimeout, sets, sockVars, cpc, late>>

(* The two deferred calls, last first.  A closed socket's deadline cannot  *)
(* be cleared, and the error is dropped.                                   *)
ClearDeadline(w) ==
    /\ pc[w] = "clear"
    /\ deadline' = IF socket = "closed" THEN deadline ELSE "none"
    /\ Goto(w, "unlock")
    /\ UNCHANGED <<result, sent, writeMu, closed, writeTimeout, sets, socket, wire, cpc, late>>

Unlock(w) ==
    /\ pc[w] = "unlock"
    /\ writeMu' = "free"
    /\ Goto(w, "done")
    /\ UNCHANGED <<result, sent, closed, writeTimeout, sets, sockVars, cpc, late>>

-----------------------------------------------------------------------------
(* Close: the first caller sets the flag and closes the socket; any other  *)
(* returns at once, the socket closed or not.                              *)

CloseFlag(k) ==
    /\ cpc[k] = "start"
    /\ cpc' = [cpc EXCEPT ![k] = IF closed THEN "done" ELSE "socket"]
    /\ closed' = TRUE
    /\ UNCHANGED <<callVars, writeTimeout, sets, sockVars, late>>

(* Mutant: Close waits for writeMu.                                        *)
CloseBehindWriters(k) ==
    /\ cpc[k] = "socket"
    /\ writeMu = "free"
    /\ cpc' = [cpc EXCEPT ![k] = "done"]
    /\ socket' = "closed"
    /\ UNCHANGED <<callVars, closed, writeTimeout, sets, deadline, wire, late>>

CloseSocket(k) ==
    /\ cpc[k] = "socket"
    /\ cpc' = [cpc EXCEPT ![k] = "done"]
    /\ socket' = "closed"
    /\ UNCHANGED <<callVars, closed, writeTimeout, sets, deadline, wire, late>>

SetWriteTimeout(d) ==
    /\ sets < MaxSets
    /\ sets' = sets + 1
    /\ writeTimeout' = d
    /\ UNCHANGED <<callVars, closed, sockVars, cpc, late>>

PeerReset ==
    /\ socket = "open"
    /\ socket' = "reset"
    /\ UNCHANGED <<callVars, closed, writeTimeout, sets, deadline, wire, cpc, late>>

-----------------------------------------------------------------------------
WriterStep(w) ==
    \/ Lock(w) \/ CheckClosed(w) \/ Arm(w) \/ ClearDeadline(w) \/ Unlock(w)
    \/ \E r \in {"error", "timeout"} : WriteFails(w, r)

CloserStep(k) == CloseFlag(k) \/ CloseSocket(k)

Terminated ==
    /\ \A w \in Writers : pc[w] = "done"
    /\ \A k \in Closers : cpc[k] = "done"
    /\ UNCHANGED vars

Next ==
    \/ \E w \in Writers :
          Call(w) \/ WriterStep(w) \/ WritePiece(w) \/ WriteFails(w, "short")
    \/ \E k \in Closers : CloserStep(k)
    \/ \E d \in BOOLEAN : SetWriteTimeout(d)
    \/ PeerReset
    \/ Terminated

Spec == Init /\ [][Next]_vars

(* Goroutines that can run are run, a timer goes off, and a write on a     *)
(* closed or reset socket returns.  The peer need not read, so nothing     *)
(* says that WritePiece is taken; nor need anyone call Close.              *)
FairSpec ==
    /\ Spec
    /\ \A w \in Writers : WF_vars(WriterStep(w))
    /\ \A k \in Closers : WF_vars(CloseSocket(k))

-----------------------------------------------------------------------------
(* The shape of the state; a call that holds the lock is in the middle.    *)
TypeOK ==
    /\ pc \in [Writers -> {"start", "lock", "check", "timeout", "write", "clear",
                           "unlock", "done"}]
    /\ result \in [Writers -> {"none", "ok", "refused", "error", "timeout", "short"}]
    /\ sent \in [Writers -> 0 .. Pieces]
    /\ writeMu \in Writers \cup {"free"}
    /\ closed \in BOOLEAN /\ writeTimeout \in BOOLEAN
    /\ sets \in 0 .. MaxSets
    /\ socket \in {"open", "closed", "reset"}
    /\ deadline \in Writers \cup {"none"}
    /\ cpc \in [Closers -> {"start", "socket", "done"}]
    /\ wire \in Seq(Writers)
    /\ late \subseteq Writers

(* "Writes are serialised across whole payloads": whatever goroutines      *)
(* write, the pieces of a payload lie side by side on the wire, and a      *)
(* payload whose write returned nil is all there.                          *)
PayloadsWhole ==
    /\ \A i, j \in 1 .. Len(wire) : i < j /\ wire[i] = wire[j] =>
          \A k \in i .. j : wire[k] = wire[i]
    /\ \A w \in Writers : result[w] = "ok" => sent[w] = Pieces

(* "A short write leaves the peer parsing from the wrong offset": another  *)
(* payload can follow one that was cut off only if that one failed on its  *)
(* deadline or came back short; a close or a reset ends the stream.        *)
CutOffIsLast ==
    \A i \in 1 .. Len(wire) :
        wire[i] # wire[Len(wire)] /\ sent[wire[i]] < Pieces =>
            result[wire[i]] \in {"timeout", "short"}

(* "Clear it, or the deadline outlives this payload and expires the next   *)
(* write": a payload fails on no deadline but its own.                     *)
OwnDeadline ==
    [][\A w \in Writers :
         result[w] = "none" /\ result'[w] = "timeout" => deadline = w]_vars

(* Once any call of Close has returned, also one that returned at once     *)
(* with the socket still open, no later payload reaches the peer.          *)
NothingAfterClose ==
    \A w \in late : sent[w] = 0 /\ result[w] # "ok"

(* "closing the socket out from under it is what unblocks that write":     *)
(* a Close gets through, and with it every call under way, however long    *)
(* the peer has not read.                                                  *)
CloseFreesAll ==
    /\ \A k \in Closers : cpc[k] = "socket" ~> cpc[k] = "done"
    /\ \A w \in Writers : closed /\ pc[w] # "start" ~> pc[w] = "done"

(* With a write timeout in force, every payload ends, the ones that wait   *)
(* behind another included, with nobody closing the connection and the     *)
(* peer not reading.                                                       *)
TimeoutBounds ==
    []writeTimeout => \A w \in Writers : pc[w] # "start" ~> pc[w] = "done"

=============================================================================
