-------------------------- MODULE TransportProofs ---------------------------
(***************************************************************************)
(* Proofs about module Transport, for any goroutines, any number of pieces *)
(* and any calls of SetWriteTimeout.                                       *)
(***************************************************************************)
EXTENDS Transport, TLAPS

USE ZenonT(2), SMTT(60), SMTT(59) DEF Goto, Return, callVars, sockVars, vars

Inside == {"check", "timeout", "write", "clear", "unlock"}

(* A call that is past Lock and not past Unlock holds writeMu, and nobody  *)
(* else does.                                                              *)
LockInv ==
    \A w \in Writers : pc[w] \in Inside <=> writeMu = w

(* A call that has not come to its write has written nothing, one that is  *)
(* in it has a piece to go, and nil means that none was left.              *)
CallInv ==
    \A w \in Writers :
        /\ pc[w] \in {"start", "lock", "check", "timeout", "write"} => result[w] = "none"
        /\ pc[w] \in {"start", "lock", "check", "timeout"} => sent[w] = 0
        /\ pc[w] = "write" => sent[w] < Pieces
        /\ result[w] = "ok" => sent[w] = Pieces

(* What is on the wire was counted, and a call in the middle of its write  *)
(* wrote the last piece there is.                                          *)
WireInv ==
    /\ \A i \in 1 .. Len(wire) : sent[wire[i]] > 0
    /\ \A w \in Writers : pc[w] = "write" /\ sent[w] > 0 =>
          wire # <<>> /\ wire[Len(wire)] = w

(* A call cut off in its write, and not by its deadline or a short write,  *)
(* found the socket dead.                                                  *)
CutInv ==
    \A w \in Writers :
        sent[w] > 0 /\ sent[w] < Pieces /\ pc[w] # "write"
            /\ result[w] \notin {"timeout", "short"} => socket # "open"

(* A deadline is that of a call in its write or about to clear it, unless  *)
(* the socket is closed.                                                   *)
DeadlineInv ==
    deadline # "none" /\ socket # "closed" => pc[deadline] \in {"write", "clear"}

(* A Close that got anywhere has set the flag, and a call begun after one  *)
(* returned gets no further than the look at it.                           *)
LateInv ==
    /\ \A k \in Closers : cpc[k] # "start" => closed
    /\ \A w \in late :
          /\ closed
          /\ pc[w] \in {"lock", "check", "unlock", "done"}
          /\ sent[w] = 0
          /\ result[w] \in {"none", "refused"}

IInv == TypeOK /\ LockInv /\ CallInv /\ WireInv /\ CutInv /\ DeadlineInv /\ LateInv

-----------------------------------------------------------------------------
(* The initial state satisfies the invariant.                              *)
LEMMA InitHolds == Init => IInv
<1> SUFFICES ASSUME Init PROVE IInv
  OBVIOUS
<1> USE TransportAssumption DEF Init
<1>1. TypeOK
  <2>1. closed \in BOOLEAN /\ writeTimeout \in BOOLEAN
    BY Zenon
  <2> QED
    BY <2>1 DEF TypeOK
<1>2. LockInv /\ CallInv
  BY DEF LockInv, CallInv, Inside
<1>3. WireInv /\ CutInv /\ DeadlineInv /\ LateInv
  BY DEF WireInv, CutInv, DeadlineInv, LateInv
<1> QED
  BY <1>1, <1>2, <1>3 DEF IInv

(* Next, one disjunct per action.                                          *)
LEMMA Steps ==
    ASSUME [Next]_vars
    PROVE  \/ \E w \in Writers :
                 \/ Call(w) \/ Lock(w) \/ CheckClosed(w) \/ Arm(w) \/ WritePiece(w)
                 \/ ClearDeadline(w) \/ Unlock(w)
                 \/ \E r \in {"error", "timeout", "short"} : WriteFails(w, r)
           \/ \E k \in Closers : CloseFlag(k) \/ CloseSocket(k)
           \/ \E d \in BOOLEAN : SetWriteTimeout(d)
           \/ PeerReset
           \/ UNCHANGED vars
  BY DEF Next, WriterStep, CloserStep, Terminated

(* The state keeps its shape.                                              *)
LEMMA TypeInductive == IInv /\ [Next]_vars => TypeOK'
<1> SUFFICES ASSUME IInv, [Next]_vars PROVE TypeOK'
  OBVIOUS
<1> USE TransportAssumption DEF IInv, TypeOK
<1>1. ASSUME NEW w \in Writers, Call(w) PROVE TypeOK'
  BY <1>1 DEF Call
<1>2. ASSUME NEW w \in Writers, Lock(w) PROVE TypeOK'
  BY <1>2 DEF Lock
<1>3. ASSUME NEW w \in Writers, CheckClosed(w) PROVE TypeOK'
  <2>1. closed' \in BOOLEAN /\ writeTimeout' \in BOOLEAN
    BY <1>3, Zenon DEF CheckClosed
  <2>2. result' \in [Writers -> {"none", "ok", "refused", "error", "timeout", "short"}]
    BY <1>3 DEF CheckClosed
  <2>3. pc' \in [Writers -> {"start", "lock", "check", "timeout", "write", "clear",
                             "unlock", "done"}]
    BY <1>3 DEF CheckClosed
  <2> QED
    BY <1>3, <2>1, <2>2, <2>3 DEF CheckClosed
<1>4. ASSUME NEW w \in Writers, Arm(w) PROVE TypeOK'
  BY <1>4 DEF Arm
<1>5. ASSUME NEW w \in Writers, WritePiece(w) PROVE TypeOK'
  <2>1. sent[w] < Pieces /\ sent[w] \in Nat
    BY <1>5 DEF WritePiece, CallInv
  <2>2. sent' \in [Writers -> 0 .. Pieces] /\ wire' \in Seq(Writers)
    BY <1>5, <2>1 DEF WritePiece
  <2>3. pc' \in [Writers -> {"start", "lock", "check", "timeout", "write", "clear",
                             "unlock", "done"}]
    BY <1>5 DEF WritePiece, After
  <2>4. result' \in [Writers -> {"none", "ok", "refused", "error", "timeout", "short"}]
    BY <1>5 DEF WritePiece
  <2> QED
    BY <1>5, <2>2, <2>3, <2>4 DEF WritePiece
<1>6. ASSUME NEW w \in Writers, NEW r \in {"error", "timeout", "short"}, WriteFails(w, r)
      PROVE  TypeOK'
  BY <1>6 DEF WriteFails, WriteResult, After
<1>7. ASSUME NEW w \in Writers, ClearDeadline(w) PROVE TypeOK'
  BY <1>7 DEF ClearDeadline
<1>8. ASSUME NEW w \in Writers, Unlock(w) PROVE TypeOK'
  BY <1>8 DEF Unlock
<1>9. ASSUME NEW k \in Closers, CloseFlag(k) \/ CloseSocket(k) PROVE TypeOK'
  <2>1. closed' \in BOOLEAN /\ writeTimeout' \in BOOLEAN
    BY <1>9, Zenon DEF CloseFlag, CloseSocket
  <2>2. cpc' \in [Closers -> {"start", "socket", "done"}]
    BY <1>9 DEF CloseFlag, CloseSocket
  <2> QED
    BY <1>9, <2>1, <2>2 DEF CloseFlag, CloseSocket
<1>10. CASE \E d \in BOOLEAN : SetWriteTimeout(d)
  BY <1>10 DEF SetWriteTimeout
<1>11. CASE PeerReset
  BY <1>11 DEF PeerReset
<1>12. CASE UNCHANGED vars
  BY <1>12
<1> QED
  BY Steps, <1>1, <1>2, <1>3, <1>4, <1>5, <1>6, <1>7, <1>8, <1>9, <1>10, <1>11, <1>12

(* The lock, the calls and the deadline.                                   *)
LEMMA CallsInductive ==
    IInv /\ [Next]_vars => LockInv' /\ CallInv' /\ DeadlineInv'
<1> DEFINE Goal == LockInv' /\ CallInv' /\ DeadlineInv'
<1> SUFFICES ASSUME IInv, [Next]_vars PROVE Goal
  OBVIOUS
<1> USE TransportAssumption DEF IInv, TypeOK, LockInv, CallInv, DeadlineInv, Inside
<1>1. ASSUME NEW w \in Writers, Call(w) PROVE Goal
  BY <1>1 DEF Call
<1>2. ASSUME NEW w \in Writers, Lock(w) PROVE Goal
  BY <1>2 DEF Lock, MayLock
<1>3. ASSUME NEW w \in Writers, CheckClosed(w) PROVE Goal
  BY <1>3 DEF CheckClosed
<1>4. ASSUME NEW w \in Writers, Arm(w) PROVE Goal
  BY <1>4 DEF Arm
<1>5. ASSUME NEW w \in Writers, WritePiece(w) PROVE Goal
  BY <1>5 DEF WritePiece, After
<1>6. ASSUME NEW w \in Writers, NEW r \in {"error", "timeout", "short"}, WriteFails(w, r)
      PROVE  Goal
  BY <1>6 DEF WriteFails, WriteResult, After
<1>7. ASSUME NEW w \in Writers, ClearDeadline(w) PROVE Goal
  BY <1>7 DEF ClearDeadline
<1>8. ASSUME NEW w \in Writers, Unlock(w) PROVE Goal
  BY <1>8 DEF Unlock
<1>9. ASSUME NEW k \in Closers, CloseFlag(k) \/ CloseSocket(k) PROVE Goal
  BY <1>9 DEF CloseFlag, CloseSocket
<1>10. CASE \E d \in BOOLEAN : SetWriteTimeout(d)
  BY <1>10 DEF SetWriteTimeout
<1>11. CASE PeerReset
  BY <1>11 DEF PeerReset
<1>12. CASE UNCHANGED vars
  BY <1>12
<1> QED
  BY Steps, <1>1, <1>2, <1>3, <1>4, <1>5, <1>6, <1>7, <1>8, <1>9, <1>10, <1>11, <1>12

(* The wire.  Only the holder of the lock writes, so that the piece before *)
(* a piece that continues a payload is of the same payload.                *)
LEMMA WireInductive == IInv /\ [Next]_vars => WireInv' /\ CutInv'
<1> DEFINE Goal == WireInv' /\ CutInv'
<1> SUFFICES ASSUME IInv, [Next]_vars PROVE Goal
  OBVIOUS
<1> USE TransportAssumption DEF IInv, TypeOK, LockInv, CallInv, WireInv, CutInv, Inside
<1>1. ASSUME NEW w \in Writers, Call(w) PROVE Goal
  BY <1>1 DEF Call
<1>2. ASSUME NEW w \in Writers, Lock(w) PROVE Goal
  BY <1>2 DEF Lock
<1>3. ASSUME NEW w \in Writers, CheckClosed(w) PROVE Goal
  <2>1. wire' = wire /\ sent' = sent /\ socket' = socket
    BY <1>3 DEF CheckClosed
  <2>2. \A v \in Writers : v # w => pc'[v] = pc[v] /\ result'[v] = result[v]
    BY <1>3 DEF CheckClosed
  <2>3. pc[w] = "check" /\ sent[w] = 0
    BY <1>3 DEF CheckClosed
  <2>4. pc'[w] # "write"
    BY <1>3 DEF CheckClosed
  <2> QED
    BY <2>1, <2>2, <2>3, <2>4
<1>4. ASSUME NEW w \in Writers, Arm(w) PROVE Goal
  BY <1>4 DEF Arm
<1>5. ASSUME NEW w \in Writers, WritePiece(w) PROVE Goal
  <2>1. /\ Len(wire') = Len(wire) + 1 /\ wire'[Len(wire')] = w
        /\ \A i \in 1 .. Len(wire) : wire'[i] = wire[i]
    BY <1>5 DEF WritePiece
  <2>2. /\ sent'[w] = sent[w] + 1
        /\ \A v \in Writers \ {w} : sent'[v] = sent[v] /\ pc[v] # "write" /\ pc'[v] = pc[v]
                                    /\ result'[v] = result[v]
    BY <1>5 DEF WritePiece
  <2>3. WireInv'
    <3>1. \A i \in 1 .. Len(wire) : wire[i] \in Writers
      OBVIOUS
    <3>2. \A i \in 1 .. Len(wire') : sent'[wire'[i]] > 0
      BY <2>1, <2>2, <3>1
    <3> QED
      BY <2>1, <2>2, <3>2
  <2>4. CutInv'
    <3>1. sent'[w] < Pieces => pc'[w] = "write"
      BY <1>5 DEF WritePiece
    <3> QED
      BY <1>5, <2>2, <3>1 DEF WritePiece
  <2> QED
    BY <2>3, <2>4
<1>6. ASSUME NEW w \in Writers, NEW r \in {"error", "timeout", "short"}, WriteFails(w, r)
      PROVE  Goal
  BY <1>6 DEF WriteFails, WriteResult, After
<1>7. ASSUME NEW w \in Writers, ClearDeadline(w) PROVE Goal
  BY <1>7 DEF ClearDeadline
<1>8. ASSUME NEW w \in Writers, Unlock(w) PROVE Goal
  BY <1>8 DEF Unlock
<1>9. ASSUME NEW k \in Closers, CloseFlag(k) \/ CloseSocket(k) PROVE Goal
  BY <1>9 DEF CloseFlag, CloseSocket
<1>10. CASE \E d \in BOOLEAN : SetWriteTimeout(d)
  BY <1>10 DEF SetWriteTimeout
<1>11. CASE PeerReset
  BY <1>11 DEF PeerReset
<1>12. CASE UNCHANGED vars
  BY <1>12
<1> QED
  BY Steps, <1>1, <1>2, <1>3, <1>4, <1>5, <1>6, <1>7, <1>8, <1>9, <1>10, <1>11, <1>12

(* The flag and the calls begun after a Close.                             *)
LEMMA LateInductive == IInv /\ [Next]_vars => LateInv'
<1> SUFFICES ASSUME IInv, [Next]_vars PROVE LateInv'
  OBVIOUS
<1> USE TransportAssumption DEF IInv, TypeOK, CallInv, LateInv
<1>1. ASSUME NEW w \in Writers, Call(w) PROVE LateInv'
  BY <1>1 DEF Call
<1>2. ASSUME NEW w \in Writers, Lock(w) PROVE LateInv'
  BY <1>2 DEF Lock
<1>3. ASSUME NEW w \in Writers, CheckClosed(w) PROVE LateInv'
  BY <1>3 DEF CheckClosed
<1>4. ASSUME NEW w \in Writers, Arm(w) PROVE LateInv'
  BY <1>4 DEF Arm
<1>5. ASSUME NEW w \in Writers, WritePiece(w) PROVE LateInv'
  BY <1>5 DEF WritePiece
<1>6. ASSUME NEW w \in Writers, NEW r \in {"error", "timeout", "short"}, WriteFails(w, r)
      PROVE  LateInv'
  BY <1>6 DEF WriteFails
<1>7. ASSUME NEW w \in Writers, ClearDeadline(w) PROVE LateInv'
  BY <1>7 DEF ClearDeadline
<1>8. ASSUME NEW w \in Writers, Unlock(w) PROVE LateInv'
  BY <1>8 DEF Unlock
<1>9. ASSUME NEW k \in Closers, CloseFlag(k) PROVE LateInv'
  BY <1>9 DEF CloseFlag
<1>10. ASSUME NEW k \in Closers, CloseSocket(k) PROVE LateInv'
  BY <1>10 DEF CloseSocket
<1>11. CASE (\E d \in BOOLEAN : SetWriteTimeout(d)) \/ PeerReset
  BY <1>11 DEF SetWriteTimeout, PeerReset
<1>12. CASE UNCHANGED vars
  BY <1>12
<1> QED
  BY Steps, <1>1, <1>2, <1>3, <1>4, <1>5, <1>6, <1>7, <1>8, <1>9, <1>10, <1>11, <1>12

(* The invariant holds of every behaviour.                                 *)
LEMMA Invariance == Spec => []IInv
<1>1. IInv /\ [Next]_vars => IInv'
  BY TypeInductive, CallsInductive, WireInductive, LateInductive DEF IInv
<1> QED
  BY InitHolds, <1>1, PTL DEF Spec

-----------------------------------------------------------------------------
(* Only WritePiece touches the wire, and only it moves sent.               *)
LEMMA WireSteps ==
    IInv /\ [Next]_vars => \/ \E w \in Writers : WritePiece(w)
                           \/ UNCHANGED <<wire, sent>>
<1> SUFFICES ASSUME IInv, [Next]_vars PROVE (\E w \in Writers : WritePiece(w)) \/ UNCHANGED <<wire, sent>>
  OBVIOUS
<1>1. ASSUME NEW w \in Writers,
             Call(w) \/ Lock(w) \/ CheckClosed(w) \/ Arm(w) \/ ClearDeadline(w) \/ Unlock(w)
      PROVE  UNCHANGED <<wire, sent>>
  BY <1>1 DEF Call, Lock, CheckClosed, Arm, ClearDeadline, Unlock
<1>2. ASSUME NEW w \in Writers, NEW r \in {"error", "timeout", "short"}, WriteFails(w, r)
      PROVE  UNCHANGED <<wire, sent>>
  BY <1>2 DEF WriteFails
<1>3. ASSUME NEW k \in Closers, CloseFlag(k) \/ CloseSocket(k)
      PROVE  UNCHANGED <<wire, sent>>
  BY <1>3 DEF CloseFlag, CloseSocket
<1>4. ASSUME (\E d \in BOOLEAN : SetWriteTimeout(d)) \/ PeerReset \/ UNCHANGED vars
      PROVE  UNCHANGED <<wire, sent>>
  BY <1>4 DEF SetWriteTimeout, PeerReset
<1> QED
  BY Steps, <1>1, <1>2, <1>3, <1>4

(* What a write adds is one piece at the end, and it is the writer's that  *)
(* holds the lock.                                                         *)
LEMMA Piece ==
    ASSUME IInv, NEW w \in Writers, WritePiece(w)
    PROVE  /\ Len(wire) \in Nat
           /\ wire' \in Seq(Writers) /\ Len(wire') = Len(wire) + 1 /\ wire'[Len(wire')] = w
           /\ \A i \in 1 .. Len(wire) : wire'[i] = wire[i] /\ wire[i] \in Writers
           /\ \A v \in Writers \ {w} : sent'[v] = sent[v] /\ pc[v] # "write" /\ result'[v] = result[v]
           /\ sent[w] > 0 => wire # <<>> /\ wire[Len(wire)] = w
           /\ socket = "open"
  BY DEF IInv, TypeOK, LockInv, Inside, WireInv, WritePiece

(* "Writes are serialised across whole payloads": WritePayload's lock      *)
(* keeps the pieces of a payload together, and nil means all of them.      *)
THEOREM WritesSerialised == Spec => []PayloadsWhole
<1> DEFINE Together == \A i, j \in 1 .. Len(wire) : i < j /\ wire[i] = wire[j] =>
                          \A k \in i .. j : wire[k] = wire[i]
<1>1. Init => Together
  BY DEF Init
<1>2. IInv /\ Together /\ [Next]_vars => Together'
  <2> SUFFICES ASSUME IInv, Together, [Next]_vars PROVE Together'
    OBVIOUS
  <2>1. ASSUME NEW w \in Writers, WritePiece(w) PROVE Together'
    <3> SUFFICES ASSUME NEW i \in 1 .. Len(wire'), NEW j \in 1 .. Len(wire'),
                        i < j, wire'[i] = wire'[j], NEW k \in i .. j
                 PROVE  wire'[k] = wire'[i]
      OBVIOUS
    <3>1. CASE j <= Len(wire)
      BY <2>1, <3>1, Piece
    <3>2. CASE j = Len(wire')
      <4>1. wire[i] = w /\ i \in 1 .. Len(wire)
        BY <2>1, <3>2, Piece
      <4>2. sent[w] > 0
        BY <4>1 DEF IInv, WireInv
      <4>3. wire[Len(wire)] = w
        BY <2>1, <4>2, Piece
      <4>4. \A m \in i .. Len(wire) : wire[m] = w
        BY <2>1, <4>1, <4>3, Piece
      <4> QED
        BY <2>1, <3>2, <4>1, <4>4, Piece
    <3> QED
      BY <2>1, <3>1, <3>2, Piece
  <2>2. CASE UNCHANGED <<wire, sent>>
    BY <2>2
  <2> QED
    BY <2>1, <2>2, WireSteps
<1>3. IInv /\ Together => PayloadsWhole
  BY DEF IInv, CallInv, PayloadsWhole
<1> QED
  BY <1>1, <1>2, <1>3, Invariance, PTL DEF Spec

(* "A short write leaves the peer parsing from the wrong offset": only a   *)
(* payload that failed on its deadline or came back short is cut off and   *)
(* followed by another.                                                    *)
THEOREM CutOffEndsStream == Spec => []CutOffIsLast
<1>1. Init => CutOffIsLast
  BY DEF Init, CutOffIsLast
<1>2. IInv /\ CutOffIsLast /\ [Next]_vars => CutOffIsLast'
  <2> SUFFICES ASSUME IInv, CutOffIsLast, [Next]_vars PROVE CutOffIsLast'
    OBVIOUS
  <2>1. ASSUME NEW w \in Writers, WritePiece(w) PROVE CutOffIsLast'
    <3> SUFFICES ASSUME NEW i \in 1 .. Len(wire'), wire'[i] # w, sent'[wire'[i]] < Pieces
                 PROVE  result'[wire'[i]] \in {"timeout", "short"}
      BY <2>1, Piece DEF CutOffIsLast
    <3>1. i \in 1 .. Len(wire) /\ wire'[i] = wire[i] /\ wire[i] \in Writers \ {w}
      BY <2>1, Piece
    <3>2. sent[wire[i]] > 0 /\ sent[wire[i]] < Pieces /\ pc[wire[i]] # "write"
      BY <2>1, <3>1, Piece DEF IInv, WireInv
    <3>3. result[wire[i]] \in {"timeout", "short"}
      BY <2>1, <3>1, <3>2, Piece DEF IInv, CutInv
    <3> QED
      BY <2>1, <3>1, <3>3, Piece
  <2>2. CASE UNCHANGED <<wire, sent>>
    <3>1. ASSUME NEW v \in Writers, sent[v] > 0, result[v] \in {"timeout", "short"}
          PROVE  result'[v] = result[v]
      <4> USE <3>1 DEF IInv, TypeOK, CallInv
      <4>1. ASSUME NEW w \in Writers, CheckClosed(w) \/ Arm(w) PROVE result'[v] = result[v]
        BY <4>1 DEF CheckClosed, Arm
      <4>2. ASSUME NEW w \in Writers, NEW r \in {"error", "timeout", "short"}, WriteFails(w, r)
            PROVE  result'[v] = result[v]
        BY <4>2 DEF WriteFails
      <4>3. ASSUME NEW w \in Writers, WritePiece(w) PROVE result'[v] = result[v]
        BY <4>3 DEF WritePiece
      <4>4. ASSUME NEW w \in Writers, Call(w) \/ Lock(w) \/ ClearDeadline(w) \/ Unlock(w)
            PROVE  result'[v] = result[v]
        BY <4>4 DEF Call, Lock, ClearDeadline, Unlock
      <4>5. ASSUME NEW k \in Closers, CloseFlag(k) \/ CloseSocket(k) PROVE result'[v] = result[v]
        BY <4>5 DEF CloseFlag, CloseSocket
      <4>6. ASSUME (\E d \in BOOLEAN : SetWriteTimeout(d)) \/ PeerReset \/ UNCHANGED vars
            PROVE  result'[v] = result[v]
        BY <4>6 DEF SetWriteTimeout, PeerReset
      <4> QED
        BY Steps, <4>1, <4>2, <4>3, <4>4, <4>5, <4>6
    <3>2. \A i \in 1 .. Len(wire) : wire[i] \in Writers /\ sent[wire[i]] > 0
      BY DEF IInv, TypeOK, WireInv
    <3> QED
      BY <2>2, <3>1, <3>2 DEF CutOffIsLast
  <2> QED
    BY <2>1, <2>2, WireSteps
<1> QED
  BY <1>1, <1>2, Invariance, PTL DEF Spec

(* The flag is set before a Close returns, and every payload looks at it   *)
(* under the lock: what is begun after that writes nothing.                *)
THEOREM ClosedWritesNothing == Spec => []NothingAfterClose
<1>1. IInv => NothingAfterClose
  BY DEF IInv, LateInv, NothingAfterClose
<1> QED
  BY <1>1, Invariance, PTL

(* "Clear it, or the deadline outlives this payload": as it is cleared     *)
(* before the lock is let go, a write times out on no deadline but its own. *)
THEOREM DeadlineIsOwn == Spec => OwnDeadline
<1>1. IInv /\ [Next]_vars =>
        [\A w \in Writers : result[w] = "none" /\ result'[w] = "timeout" => deadline = w]_vars
  <2> SUFFICES ASSUME IInv, [Next]_vars, NEW v \in Writers,
                      result[v] = "none", result'[v] = "timeout"
               PROVE  deadline = v
    OBVIOUS
  <2> USE DEF IInv, TypeOK
  <2>1. ASSUME NEW w \in Writers, NEW r \in {"error", "timeout", "short"}, WriteFails(w, r)
        PROVE  deadline = v
    <3>1. w = v /\ r = "timeout" /\ pc[v] = "write"
      BY <2>1 DEF WriteFails, WriteResult
    <3>2. pc[deadline] \in {"write", "clear"} /\ deadline \in Writers
      BY <2>1, <3>1 DEF WriteFails, DeadlineInv
    <3> QED
      BY <3>1, <3>2 DEF LockInv, Inside
  <2>2. ASSUME NEW w \in Writers, CheckClosed(w) \/ Arm(w) PROVE FALSE
    BY <2>2 DEF CheckClosed, Arm
  <2>3. ASSUME NEW w \in Writers, WritePiece(w) PROVE FALSE
    <3>1. result' = result \/ result' = [result EXCEPT ![w] = "ok"]
      BY <2>3 DEF WritePiece
    <3> QED
      BY <3>1
  <2>4. ASSUME NEW w \in Writers, Call(w) \/ Lock(w) \/ ClearDeadline(w) \/ Unlock(w)
        PROVE  FALSE
    <3>1. result' = result
      BY <2>4 DEF Call, Lock, ClearDeadline, Unlock
    <3> QED
      BY <3>1
  <2>5. ASSUME NEW k \in Closers, CloseFlag(k) \/ CloseSocket(k) PROVE FALSE
    BY <2>5 DEF CloseFlag, CloseSocket
  <2>6. ASSUME (\E d \in BOOLEAN : SetWriteTimeout(d)) \/ PeerReset \/ UNCHANGED vars
        PROVE  FALSE
    BY <2>6 DEF SetWriteTimeout, PeerReset
  <2> QED
    BY Steps, <2>1, <2>2, <2>3, <2>4, <2>5, <2>6
<1> QED
  BY <1>1, Invariance, PTL DEF Spec, OwnDeadline

=============================================================================
