---------------------------- MODULE WorkerProofs ----------------------------
(***************************************************************************)
(* The types, the wake-up and the freshness of NOTIFYs in module Worker,   *)
(* and what a connection never does: write after a goodbye, share a frame, *)
(* report a timeout without the timer, or end a drain before its last ACK. *)
(* Then the limits of a Worker, and that it is a Connection: the           *)
(* refinement the agent rests on.  For every set of NOTIFYs, every limit   *)
(* and every choice of timeouts.                                           *)
(***************************************************************************)
EXTENDS WorkerConnection, FiniteSetTheorems, TLAPS

(* Zenon finds most leaves, and quickly; the others go to the SMT backend, *)
(* whose default time limit is too short when the prover works on several  *)
(* obligations at once.  In a long module an attempt is now and then given *)
(* up before it reaches the solver: hence the second.                      *)
USE ZenonT(2), SMTT(60), SMTT(59) DEF Loop, AfterClose

(* The steps of the read loop that write nothing.                          *)
LEMMA TypeLoopStep == TypeOK /\ LoopStep => TypeOK'
<1> SUFFICES ASSUME TypeOK, LoopStep PROVE TypeOK'
  OBVIOUS
<1> USE NotifiesAssumption, LimitsAssumption
    DEF TypeOK, Procs, Frames, Control, Codes, Labels, loopVars, lockVars,
        workVars, inVars, Goto, Fail, shuttingDown, ReleaseFrame
<1>1. CASE AcquireFrame
  BY <1>1 DEF AcquireFrame
<1>2. CASE ArmDeadline
  BY <1>2 DEF ArmDeadline, SetReadDeadline
<1>3. CASE RecheckDone
  BY <1>3 DEF RecheckDone
<1>4. CASE ExpireDeadline
  BY <1>4 DEF ExpireDeadline, SetReadDeadline
<1>5. CASE ReadFrame
  BY <1>5 DEF ReadFrame
<1>6. CASE ReadDeadline
  BY <1>6 DEF ReadDeadline, ReadFails
<1>7. CASE ReadEOF
  BY <1>7 DEF ReadEOF, ReadFails
<1>8. CASE ReadError
  BY <1>8 DEF ReadError, ReadFails
<1>9. CASE ClassifyDeadline
  BY <1>9 DEF ClassifyDeadline
<1>10. CASE DispatchHello
  <2>1. pc' \in [Procs -> Labels] /\ pc'[Loop] \in {"once", "hello", "close"}
    BY <1>10 DEF DispatchHello
  <2>2. code' \in [Procs -> Codes]
    BY <1>10 DEF DispatchHello
  <2>3. cur' \in Frames \cup {"none"}
    BY Zenon, <1>10 DEF DispatchHello
  <2>4. owned' \in [Procs -> Int]
    BY <1>10 DEF DispatchHello
  <2> QED
    BY <1>10, <2>1, <2>2, <2>3, <2>4 DEF DispatchHello
<1>11. CASE DispatchDisconnect
  BY <1>11 DEF DispatchDisconnect
<1>12. CASE DispatchNotify
  BY <1>12 DEF DispatchNotify, LookAtDone, StartHandler
<1>13. CASE AcquireSlot
  BY <1>13 DEF AcquireSlot, SlotFree, StartHandler
<1>14. CASE SlotGranted
  BY <1>14 DEF SlotGranted, StartHandler
<1>15. CASE Drain
  BY <1>15 DEF Drain
<1>16. CASE Cancel
  BY <1>16 DEF Cancel
<1> QED
  BY <1>1, <1>2, <1>3, <1>4, <1>5, <1>6, <1>7, <1>8, <1>9, <1>10, <1>11,
     <1>12, <1>13, <1>14, <1>15, <1>16 DEF LoopStep

(* The steps the read loop shares with NOTIFY goroutines, and theirs.      *)
LEMMA TypeGoroutineStep ==
    ASSUME TypeOK,
           \/ \E p \in Procs : CommonStep(p)
           \/ \E n \in Notifies : NotifyStep(n) \/ HandlerReturn(n)
    PROVE  TypeOK'
<1> USE NotifiesAssumption
    DEF TypeOK, Procs, Frames, Control, Codes, Labels, loopVars, lockVars,
        workVars, inVars, Goto, Fail, AfterDisconnect, ReleaseFrame
<1>1. ASSUME NEW p \in Procs, DisconnectOnce(p) PROVE TypeOK'
  BY <1>1 DEF DisconnectOnce
<1>2. ASSUME NEW p \in Procs, LockDisconnect(p) PROVE TypeOK'
  <2>1. pc' \in [Procs -> Labels] /\ pc'[Loop] \in {pc[Loop], "writeDisc", "close"}
    BY <1>2 DEF LockDisconnect
  <2>2. cur' \in {cur, "none"}
    BY Zenon, <1>2 DEF LockDisconnect
  <2>6. owned' \in [Procs -> Int]
    BY <1>2 DEF LockDisconnect
  <2>3. p # Loop => pc'[Loop] = pc[Loop] /\ cur' = cur
    BY <1>2 DEF LockDisconnect
  <2>4. /\ sendMu' \in Procs \cup {"free"} /\ once' \in Procs \cup {"new", "done"}
        /\ goodbyeSent' = TRUE
        /\ UNCHANGED <<code, ready, deadline, slots, inflight, closer, cancelled,
                       stream, buffered, peer, control, shutdown, wire, late>>
    BY <1>2 DEF LockDisconnect
  <2>5. pc'[Loop] \in {"select", "parked", "granted"} => cur' \in Notifies
    BY <2>1, <2>3, <1>2 DEF LockDisconnect
  <2> QED
    BY <2>1, <2>2, <2>4, <2>5, <2>6
<1>3. ASSUME NEW p \in Procs, Close(p) PROVE TypeOK'
  BY <1>3 DEF Close
<1>4. ASSUME NEW n \in Notifies, LockAck(n) PROVE TypeOK'
  BY <1>4 DEF LockAck
<1>5. ASSUME NEW n \in Notifies, ReleaseSlot(n) PROVE TypeOK'
  BY <1>5 DEF ReleaseSlot, LoopParked
<1>6. ASSUME NEW n \in Notifies, InflightDone(n) PROVE TypeOK'
  BY <1>6 DEF InflightDone
<1>7. ASSUME NEW n \in Notifies, HandlerReturn(n) PROVE TypeOK'
  BY <1>7 DEF HandlerReturn
<1> QED
  BY Zenon, <1>1, <1>2, <1>3, <1>4, <1>5, <1>6, <1>7 DEF CommonStep, NotifyStep

(* The steps that put frames on the wire.                                  *)
LEMMA TypeWriteStep == TypeOK /\ WriteStep => TypeOK'
<1> SUFFICES ASSUME TypeOK, WriteStep PROVE TypeOK'
  OBVIOUS
<1>1. ASSUME NEW t \in {"hello", "ack", "disc", "part"},
             NEW a \in Codes \cup Notifies,
             wire' = Append(wire, Frame(t, a))
      PROVE  wire' \in Seq(WireFrames)
  BY <1>1 DEF TypeOK, WireFrames, Frame
<1>2. ASSUME WriteError PROVE wire' \in Seq(WireFrames)
  BY <1>1, <1>2 DEF WriteError, TypeOK, Codes
<1> USE NotifiesAssumption
    DEF TypeOK, Procs, Frames, Control, Codes, Labels, loopVars, lockVars,
        workVars, inVars, Goto, Fail, AfterDisconnect, ReleaseFrame
<1>3. CASE SendAgentHello
  <2>1. wire' \in Seq(WireFrames)
    BY <1>1, <1>2, <1>3 DEF SendAgentHello, AgentHello, WriteOk
  <2>2. ready' \in BOOLEAN
    BY <1>3, Zenon DEF SendAgentHello, AgentHello
  <2>3. pc' \in [Procs -> Labels] /\ pc'[Loop] \in {"top", "close"}
    BY <1>3 DEF SendAgentHello, AgentHello
  <2> QED
    BY <1>3, <2>1, <2>2, <2>3 DEF SendAgentHello, AgentHello
<1>4. ASSUME NEW p \in Procs, WriteDisconnect(p) PROVE TypeOK'
  <2>1. wire' \in Seq(WireFrames)
    BY Zenon, <1>1, <1>2, <1>4 DEF WriteDisconnect, WriteOk
  <2> QED
    BY <1>4, <2>1 DEF WriteDisconnect
<1>5. ASSUME NEW n \in Notifies, WriteAck(n) PROVE TypeOK'
  <2>1. wire' \in Seq(WireFrames)
    BY Zenon, <1>1, <1>2, <1>5 DEF WriteAck, WriteOk
  <2> QED
    BY <1>5, <2>1 DEF WriteAck
<1> QED
  BY <1>3, <1>4, <1>5 DEF WriteStep

(* HAProxy's steps and Shutdown's.                                         *)
LEMMA TypeOutsideStep == TypeOK /\ (Peer \/ Shutdown) => TypeOK'
<1> SUFFICES ASSUME TypeOK, Peer \/ Shutdown PROVE TypeOK'
  OBVIOUS
<1> USE NotifiesAssumption, LimitsAssumption
    DEF TypeOK, Procs, Frames, Control, Labels, loopVars, lockVars, workVars,
        inVars
<1>1. ASSUME NEW f \in Frames, PeerSend(f) PROVE TypeOK'
  BY <1>1 DEF PeerSend
<1>2. CASE PeerLeave
  BY <1>2 DEF PeerLeave
<1>3. CASE CloseDone
  BY <1>3 DEF CloseDone
<1>4. CASE Poke
  BY <1>4 DEF Poke
<1>5. CASE GraceCancel
  BY <1>5 DEF GraceCancel
<1>6. CASE GraceFlag
  BY <1>6 DEF GraceFlag
<1>7. CASE GraceClose
  BY <1>7 DEF GraceClose
<1> QED
  BY <1>1, <1>2, <1>3, <1>4, <1>5, <1>6, <1>7 DEF Peer, Shutdown

LEMMA TypeStart == Init => TypeOK
<1> SUFFICES ASSUME Init PROVE TypeOK
  OBVIOUS
<1>1. pc \in [Procs -> Labels] /\ code \in [Procs -> Codes]
  BY DEF Init, Labels, Codes
<1>2. pc[Loop] = "top"
  BY DEF Init, Procs
<1>3. stream \in Seq(Frames) /\ wire \in Seq(WireFrames) /\ Len(stream) = 0
  BY DEF Init
<1>4. {ready, goodbyeSent, cancelled} \subseteq BOOLEAN
  BY Zenon DEF Init
<1>5. buffered \in Nat /\ buffered <= Len(stream) /\ control \in 0 .. MaxControl
  BY <1>3, LimitsAssumption DEF Init
<1> QED
  BY <1>1, <1>2, <1>3, <1>4, <1>5 DEF Init, TypeOK

LEMMA TypeInductive == TypeOK /\ [Next]_vars => TypeOK'
<1> SUFFICES ASSUME TypeOK, [Next]_vars PROVE TypeOK'
  OBVIOUS
<1>1. CASE UNCHANGED vars
  BY <1>1 DEF vars, TypeOK, loopVars, lockVars, workVars, inVars
<1> QED
  BY <1>1, TypeLoopStep, TypeGoroutineStep, TypeWriteStep, TypeOutsideStep
     DEF Next, Terminated

(* The variables keep their types, whatever the worker, HAProxy and        *)
(* Shutdown do.                                                            *)
THEOREM TypeCorrect == Spec => []TypeOK
  BY TypeStart, TypeInductive, PTL DEF Spec

-----------------------------------------------------------------------------
(* The wake-up: no read waits behind a poke it cannot see.  The invariant  *)
(* is inductive as it stands: the loop enters "read" either past a look at *)
(* done that came after the arming, and then nobody has poked yet, or      *)
(* having expired the deadline itself.                                     *)
THEOREM PokeSafe == Spec => []PokeNeverLost
<1>1. Init => PokeNeverLost
  BY DEF Init, PokeNeverLost
<1>2. TypeOK /\ PokeNeverLost /\ [Next]_vars => PokeNeverLost'
  <2> SUFFICES ASSUME TypeOK, PokeNeverLost, [Next]_vars PROVE PokeNeverLost'
    OBVIOUS
  <2> USE NotifiesAssumption
      DEF TypeOK, PokeNeverLost, Procs, loopVars, lockVars, workVars, inVars,
          Goto, Fail, shuttingDown, AfterDisconnect, SocketClosed
  <2>1. CASE LoopStep
    <3>1. CASE RecheckDone
      BY <3>1 DEF RecheckDone
    <3>2. CASE ExpireDeadline
      BY <3>2 DEF ExpireDeadline, SetReadDeadline
    <3>3. CASE AcquireFrame \/ ArmDeadline
      BY <3>3 DEF AcquireFrame, ArmDeadline, SetReadDeadline
    <3>4. CASE ReadFrame \/ ReadDeadline \/ ReadEOF \/ ReadError
      BY <3>4 DEF ReadFrame, ReadDeadline, ReadEOF, ReadError, ReadFails
    <3>5. CASE ClassifyDeadline \/ DispatchHello \/ DispatchDisconnect
      BY <3>5 DEF ClassifyDeadline, DispatchHello, DispatchDisconnect
    <3>6. CASE DispatchNotify \/ AcquireSlot \/ SlotGranted
      BY <3>6 DEF DispatchNotify, LookAtDone, AcquireSlot, SlotGranted, StartHandler
    <3>7. CASE Drain \/ Cancel
      BY <3>7 DEF Drain, Cancel
    <3> QED
      BY <2>1, <3>1, <3>2, <3>3, <3>4, <3>5, <3>6, <3>7 DEF LoopStep
  <2>2. ASSUME NEW p \in Procs, CommonStep(p) PROVE PokeNeverLost'
    BY <2>2 DEF CommonStep, DisconnectOnce, LockDisconnect, Close
  <2>3. ASSUME NEW n \in Notifies, NotifyStep(n) \/ HandlerReturn(n)
        PROVE  PokeNeverLost'
    BY <2>3 DEF NotifyStep, LockAck, ReleaseSlot, LoopParked, InflightDone, HandlerReturn
  <2>4. CASE WriteStep
    BY <2>4
       DEF WriteStep, SendAgentHello, AgentHello, WriteDisconnect, WriteAck
  <2>5. CASE Peer
    BY <2>5 DEF Peer, PeerSend, PeerLeave
  <2>6. CASE Shutdown
    BY <2>6 DEF Shutdown, CloseDone, Poke, GraceCancel, GraceFlag, GraceClose
  <2>7. CASE UNCHANGED vars
    BY <2>7 DEF vars
  <2> QED
    BY <2>1, <2>2, <2>3, <2>4, <2>5, <2>6, <2>7 DEF Next, Terminated
<1> QED
  BY <1>1, <1>2, TypeCorrect, PTL DEF Spec

-----------------------------------------------------------------------------
(* Every NOTIFY that is on its way to dispatch is on its way once, and its *)
(* goroutine has not been started.                                         *)
FreshInv ==
    /\ cur \in Notifies => pc[cur] = "idle"
    /\ \A i \in 1 .. Len(stream) : stream[i] \in Notifies =>
          /\ pc[stream[i]] = "idle"
          /\ stream[i] # cur
          /\ \A j \in 1 .. Len(stream) : stream[i] = stream[j] => i = j

LEMMA FreshStart == Init => FreshInv
  BY NotifiesAssumption DEF Init, FreshInv, Codes

LEMMA FreshInductive == TypeOK /\ FreshInv /\ [Next]_vars => FreshInv'
<1> SUFFICES ASSUME TypeOK, FreshInv, [Next]_vars PROVE FreshInv'
  OBVIOUS
<1>0. /\ pc \in [Procs -> Labels]
      /\ Loop \notin Notifies /\ Loop \in Procs /\ Notifies \subseteq Procs
      /\ "none" \notin Notifies
      /\ stream \in Seq(Frames) /\ Len(stream) \in Nat
  BY NotifiesAssumption DEF Procs, TypeOK, Codes
<1> USE <1>0 DEF loopVars, lockVars, workVars, inVars, Goto, Fail,
                 AfterDisconnect
(* Steps that leave the frames alone and start no goroutine.             *)
<1>q. ASSUME UNCHANGED stream, cur' \in {cur, "none"},
             \A n \in Notifies : pc[n] = "idle" => pc'[n] = "idle"
      PROVE  FreshInv'
  BY <1>q DEF FreshInv
(* Starting the goroutine of cur, which no frame behind it names.        *)
<1>s. ASSUME cur \in Notifies, StartHandler(cur), UNCHANGED stream
      PROVE  FreshInv'
  BY <1>s DEF FreshInv, StartHandler
<1>1. CASE LoopStep
  <2>1. CASE AcquireFrame \/ ArmDeadline \/ RecheckDone \/ ExpireDeadline
    BY <2>1, <1>q DEF AcquireFrame, ArmDeadline, RecheckDone,
                      ExpireDeadline, SetReadDeadline
  <2>2. CASE ReadFrame
    <3>1. /\ stream # <<>> /\ stream' = Tail(stream)
          /\ cur' = cur \/ cur' = Head(stream)
          /\ \A n \in Notifies : pc'[n] = pc[n]
      BY <2>2 DEF ReadFrame
    <3>2. /\ Len(stream') = Len(stream) - 1
          /\ \A i \in 1 .. Len(stream') : stream'[i] = stream[i + 1]
          /\ Head(stream) = stream[1]
      BY <3>1
    <3> QED
      BY <3>1, <3>2 DEF FreshInv
  <2>3. CASE ReadDeadline \/ ReadEOF \/ ReadError
    BY <2>3, <1>q DEF ReadDeadline, ReadEOF, ReadError, ReadFails
  <2>4. CASE ClassifyDeadline \/ DispatchHello \/ DispatchDisconnect
    BY <2>4, <1>q DEF ClassifyDeadline, DispatchHello, DispatchDisconnect
  <2>5. CASE DispatchNotify
    BY <2>5, <1>q, <1>s DEF DispatchNotify, LookAtDone
  <2>6. CASE AcquireSlot
    BY <2>6, <1>q, <1>s DEF AcquireSlot, SlotFree, TypeOK
  <2>7. CASE SlotGranted
    BY <2>7, <1>s DEF SlotGranted, TypeOK
  <2>8. CASE Drain \/ Cancel
    BY <2>8, <1>q DEF Drain, Cancel
  <2> QED
    BY <1>1, <2>1, <2>2, <2>3, <2>4, <2>5, <2>6, <2>7, <2>8 DEF LoopStep
<1>2. ASSUME NEW p \in Procs, CommonStep(p) PROVE FreshInv'
  BY <1>2, <1>q DEF CommonStep, DisconnectOnce, LockDisconnect, Close
<1>3. ASSUME NEW n \in Notifies, NotifyStep(n) \/ HandlerReturn(n)
      PROVE  FreshInv'
  BY <1>3, <1>q
     DEF NotifyStep, LockAck, ReleaseSlot, LoopParked, InflightDone, HandlerReturn
<1>4. CASE WriteStep
  BY <1>4, <1>q DEF WriteStep, SendAgentHello, AgentHello, WriteDisconnect, WriteAck
<1>5. ASSUME NEW f \in Frames, PeerSend(f) PROVE FreshInv'
  <2>1. /\ Len(stream') = Len(stream) + 1
        /\ stream'[Len(stream')] = f
        /\ \A i \in 1 .. Len(stream) : stream'[i] = stream[i]
    BY <1>5 DEF PeerSend
  <2>2. f \in Notifies => /\ pc[f] = "idle" /\ cur # f
                          /\ \A i \in 1 .. Len(stream) : stream[i] # f
    BY <1>5, NotifiesAssumption DEF PeerSend
  <2>3. UNCHANGED <<pc, cur>>
    BY <1>5 DEF PeerSend
  <2> QED
    BY <2>1, <2>2, <2>3 DEF FreshInv
<1>6. CASE PeerLeave \/ Shutdown
  BY <1>6, <1>q DEF PeerLeave, Shutdown, CloseDone, Poke, GraceCancel, GraceFlag, GraceClose
<1>7. CASE UNCHANGED vars
  BY <1>7, <1>q DEF vars
<1> QED
  BY <1>1, <1>2, <1>3, <1>4, <1>5, <1>6, <1>7 DEF Next, Terminated, Peer

LEMMA Fresh == Spec => []FreshInv
  BY FreshStart, FreshInductive, TypeCorrect, PTL DEF Spec

-----------------------------------------------------------------------------
(* Who may write, and what has been said.  sendMu is held exactly by the   *)
(* goroutine that is writing an ACK or a goodbye; an ACK is under way only *)
(* while no goodbye has been latched, and a goodbye is on the wire only    *)
(* after the latch.                                                        *)
GoodbyeInv ==
    /\ \A p \in Procs : sendMu = p <=> pc[p] \in {"ackWrite", "writeDisc"}
    /\ \A p \in Procs : pc[p] = "ackWrite" => ~goodbyeSent
    /\ \A p \in Procs : pc[p] = "writeDisc" => goodbyeSent
    /\ \A i \in 1 .. Len(wire) : wire[i].type = "disc" => goodbyeSent
    /\ NoAckAfterGoodbye

(* What WriteOk and WriteError do to the wire.                             *)
LEMMA WireGrows ==
    ASSUME TypeOK, NEW f, wire' = Append(wire, f)
    PROVE  /\ Len(wire) \in Nat
           /\ Len(wire') = Len(wire) + 1
           /\ wire'[Len(wire')] = f
           /\ \A i \in 1 .. Len(wire) : wire'[i] = wire[i]
  BY DEF TypeOK

LEMMA GoodbyeStart == Init => GoodbyeInv
  BY NotifiesAssumption DEF Init, GoodbyeInv, NoAckAfterGoodbye, Procs

LEMMA GoodbyeInductive ==
    TypeOK /\ FreshInv /\ GoodbyeInv /\ [Next]_vars => GoodbyeInv'
<1> SUFFICES ASSUME TypeOK, FreshInv, GoodbyeInv, [Next]_vars PROVE GoodbyeInv'
  OBVIOUS
<1>0. /\ \A p \in Procs : p # "free"
      /\ pc \in [Procs -> Labels]
      /\ Loop \in Procs /\ Notifies \subseteq Procs
  BY NotifiesAssumption DEF Procs, TypeOK
<1> USE <1>0 DEF loopVars, lockVars, workVars, inVars, Goto, Fail,
                 AfterDisconnect
<1> DEFINE Writing == {"ackWrite", "writeDisc"}
(* Steps that touch neither lock, latch nor wire: it is enough that no     *)
(* goroutine starts or stops writing.                                      *)
<1>q. ASSUME UNCHANGED <<sendMu, goodbyeSent, wire>>,
             \A p \in Procs : \/ pc'[p] = pc[p]
                              \/ pc[p] \notin Writing /\ pc'[p] \notin Writing
      PROVE  GoodbyeInv'
  BY <1>q DEF GoodbyeInv, NoAckAfterGoodbye
<1>s. ASSUME cur \in Notifies, StartHandler(cur), pc[Loop] \notin Writing,
             UNCHANGED <<sendMu, goodbyeSent, wire>>
      PROVE  GoodbyeInv'
  BY <1>q, <1>s DEF StartHandler, FreshInv
(* A write that is not an ACK, by a goroutine that may hold the lock.      *)
<1>w. ASSUME wire' = wire \/ \E f : wire' = Append(wire, f) /\ f.type # "ack",
             goodbyeSent'
      PROVE  /\ NoAckAfterGoodbye'
             /\ \A i \in 1 .. Len(wire') : wire'[i].type = "disc" => goodbyeSent'
  BY <1>w, WireGrows DEF GoodbyeInv, NoAckAfterGoodbye
<1>1. CASE LoopStep
  <2>1. CASE AcquireFrame \/ ArmDeadline \/ RecheckDone \/ ExpireDeadline
    BY <2>1, <1>q DEF AcquireFrame, ArmDeadline, RecheckDone, ExpireDeadline,
                      SetReadDeadline
  <2>2. CASE ReadFrame \/ ReadDeadline \/ ReadEOF \/ ReadError
    BY <2>2, <1>q DEF ReadFrame, ReadDeadline, ReadEOF, ReadError, ReadFails
  <2>3. CASE ClassifyDeadline \/ DispatchHello \/ DispatchDisconnect
    BY <2>3, <1>q DEF ClassifyDeadline, DispatchHello, DispatchDisconnect
  <2>4. CASE DispatchNotify
    BY <2>4, <1>q, <1>s DEF DispatchNotify, LookAtDone
  <2>5. CASE AcquireSlot
    BY <2>5, <1>q, <1>s DEF AcquireSlot, SlotFree, TypeOK
  <2>6. CASE SlotGranted
    BY <2>6, <1>s DEF SlotGranted, TypeOK
  <2>7. CASE Drain \/ Cancel
    BY <2>7, <1>q DEF Drain, Cancel
  <2> QED
    BY <1>1, <2>1, <2>2, <2>3, <2>4, <2>5, <2>6, <2>7 DEF LoopStep
<1>2. ASSUME NEW p \in Procs, CommonStep(p) PROVE GoodbyeInv'
  <2>1. CASE DisconnectOnce(p) \/ Close(p)
    BY <2>1, <1>q DEF DisconnectOnce, Close
  (* The latch is set while nobody else is writing.                        *)
  <2>2. CASE LockDisconnect(p)
    BY <2>2 DEF LockDisconnect, GoodbyeInv, NoAckAfterGoodbye
  <2> QED
    BY <1>2, <2>1, <2>2 DEF CommonStep
<1>3. ASSUME NEW n \in Notifies, NotifyStep(n) \/ HandlerReturn(n)
      PROVE  GoodbyeInv'
  <2>1. CASE LockAck(n)
    BY <2>1 DEF LockAck, GoodbyeInv, NoAckAfterGoodbye
  <2>2. CASE ReleaseSlot(n) \/ InflightDone(n) \/ HandlerReturn(n)
    BY <2>2, <1>q DEF ReleaseSlot, LoopParked, InflightDone, HandlerReturn
  <2> QED
    BY <1>3, <2>1, <2>2 DEF NotifyStep
<1>4. CASE SendAgentHello
  <2>1. /\ UNCHANGED <<sendMu, goodbyeSent>>
        /\ pc[Loop] \notin Writing /\ pc'[Loop] \notin Writing
        /\ \A n \in Notifies : pc'[n] = pc[n]
    BY <1>4, NotifiesAssumption DEF SendAgentHello, AgentHello
  <2>2. wire' = wire \/ \E f : /\ wire' = Append(wire, f)
                               /\ f.type \notin {"ack", "disc"}
    BY <1>4 DEF SendAgentHello, AgentHello, WriteOk, WriteError, Frame
  <2>3. /\ NoAckAfterGoodbye'
        /\ \A i \in 1 .. Len(wire') : wire'[i].type = "disc" => goodbyeSent'
    BY <2>1, <2>2, WireGrows DEF GoodbyeInv, NoAckAfterGoodbye
  <2> QED
    BY <2>1, <2>3 DEF GoodbyeInv, Procs
<1>5. ASSUME NEW p \in Procs, WriteDisconnect(p) PROVE GoodbyeInv'
  <2>1. wire' = wire \/ \E f : wire' = Append(wire, f) /\ f.type # "ack"
    BY <1>5 DEF WriteDisconnect, WriteOk, WriteError, Frame
  <2>2. goodbyeSent /\ goodbyeSent' = goodbyeSent
    BY <1>5 DEF WriteDisconnect, GoodbyeInv
  <2> QED
    BY <1>5, <2>1, <2>2, <1>w DEF WriteDisconnect, GoodbyeInv
(* An ACK is written while no goodbye is on the wire.                      *)
<1>6. ASSUME NEW n \in Notifies, WriteAck(n) PROVE GoodbyeInv'
  <2>1. wire' = wire \/ \E f : wire' = Append(wire, f) /\ f.type # "disc"
    BY <1>6 DEF WriteAck, WriteOk, WriteError, Frame
  <2>2. ~goodbyeSent /\ goodbyeSent' = goodbyeSent
    BY <1>6 DEF WriteAck, GoodbyeInv
  <2>3. \A i \in 1 .. Len(wire') : wire'[i].type # "disc"
    BY <2>1, <2>2, WireGrows DEF GoodbyeInv
  <2> QED
    BY <1>6, <2>2, <2>3 DEF WriteAck, GoodbyeInv, NoAckAfterGoodbye
<1>7. CASE Peer \/ Shutdown
  BY <1>7, <1>q DEF Peer, PeerSend, PeerLeave, Shutdown, CloseDone, Poke,
                    GraceCancel, GraceFlag, GraceClose
<1>8. CASE UNCHANGED vars
  BY <1>8, <1>q DEF vars
<1> QED
  BY <1>1, <1>2, <1>3, <1>4, <1>5, <1>6, <1>7, <1>8
     DEF Next, WriteStep, Terminated

(* Section 3.2.9 on the wire: whatever the interleaving, no ACK goes out   *)
(* behind an AGENT-DISCONNECT.                                             *)
THEOREM GoodbyeIsLast == Spec => []NoAckAfterGoodbye
<1>1. GoodbyeInv => NoAckAfterGoodbye
  BY DEF GoodbyeInv
<1> QED
  BY <1>1, GoodbyeStart, GoodbyeInductive, TypeCorrect, Fresh, PTL DEF Spec

-----------------------------------------------------------------------------
(* Whose the inbound frame is at every point: the loop's from the moment   *)
(* it takes one from the pool until dispatch has passed it on or dropped   *)
(* it, the NOTIFY goroutine's from its start to its deferred ReleaseFrame. *)
(* Where the loop is between a failure and its close, cur tells whether it *)
(* came from dispatch, and then it has one, or from a failed read.         *)
OwnInv ==
    /\ FrameOwnership
    /\ pc[Loop] \in {"top", "arm", "recheck", "expire", "read", "deadline",
                     "close", "cancel", "end"} => cur = "none"
    /\ pc[Loop] \in {"dispatch", "hello", "select", "parked", "granted"}
          => cur # "none"

LEMMA OwnInductive ==
    TypeOK /\ FreshInv /\ OwnInv /\ [Next]_vars => OwnInv'
<1> SUFFICES ASSUME TypeOK, FreshInv, OwnInv, [Next]_vars PROVE OwnInv'
  OBVIOUS
<1>0. /\ pc \in [Procs -> Labels]
      /\ Loop \in Procs /\ Loop \notin Notifies /\ Notifies \subseteq Procs
      /\ owned \in [Procs -> Int] /\ Frames \cap {"none"} = {}
  BY NotifiesAssumption DEF Procs, TypeOK, Frames, Control, Codes
<1> USE <1>0 DEF loopVars, lockVars, workVars, inVars, Goto, Fail, Busy,
                 FrameOwnership, HoldsFrame, ReleaseFrame
(* Dispatch hands the loop's frame to the goroutine it starts.             *)
<1>s. ASSUME cur \in Notifies, StartHandler(cur),
             pc[Loop] \in {"dispatch", "select", "granted"}
      PROVE  OwnInv'
  <2>1. owned[Loop] = 1 /\ owned[cur] = 0
    BY <1>s DEF OwnInv, FreshInv
  <2>2. /\ owned' = [owned EXCEPT ![Loop] = 0, ![cur] = 1]
        /\ pc' = [pc EXCEPT ![Loop] = "top", ![cur] = "handler"]
        /\ cur' = "none"
    BY <1>s, <2>1 DEF StartHandler
  <2> QED
    BY <1>s, <2>2 DEF OwnInv
<1>1. CASE LoopStep
  <2>1. CASE AcquireFrame \/ ArmDeadline \/ RecheckDone \/ ExpireDeadline
    BY <2>1 DEF AcquireFrame, ArmDeadline, RecheckDone, ExpireDeadline,
                SetReadDeadline, OwnInv
  <2>2. CASE ReadFrame
    <3>1. Head(stream) # "none"
      BY <2>2 DEF ReadFrame, TypeOK
    <3>2. pc[Loop] = "read" /\ cur = "none" /\ owned[Loop] = 1
      BY <2>2 DEF ReadFrame, OwnInv
    <3>3. CASE ReleaseFrame(Loop) /\ pc' = [pc EXCEPT ![Loop] = "once"] /\ cur' = cur
      BY <3>2, <3>3 DEF OwnInv
    <3>4. CASE UNCHANGED owned /\ pc' = [pc EXCEPT ![Loop] = "dispatch"] /\ cur' = Head(stream)
      BY <3>1, <3>2, <3>4 DEF OwnInv
    <3> QED
      BY Zenon, <2>2, <3>3, <3>4 DEF ReadFrame
  <2>3. CASE ReadDeadline \/ ReadEOF \/ ReadError
    BY <2>3 DEF ReadDeadline, ReadEOF, ReadError, ReadFails, OwnInv
  <2>4. CASE ClassifyDeadline \/ DispatchHello \/ DispatchDisconnect
    BY <2>4 DEF ClassifyDeadline, DispatchHello, DispatchDisconnect, OwnInv
  <2>5. CASE DispatchNotify
    BY <2>5, <1>s DEF DispatchNotify, LookAtDone, OwnInv
  <2>6. CASE AcquireSlot
    BY <2>6, <1>s DEF AcquireSlot, SlotFree, TypeOK, OwnInv
  <2>7. CASE SlotGranted
    BY <2>7, <1>s DEF SlotGranted, TypeOK
  <2>8. CASE Drain \/ Cancel
    BY <2>8 DEF Drain, Cancel, OwnInv
  <2> QED
    BY <1>1, <2>1, <2>2, <2>3, <2>4, <2>5, <2>6, <2>7, <2>8 DEF LoopStep
<1>2. ASSUME NEW p \in Procs, CommonStep(p) PROVE OwnInv'
  BY <1>2 DEF CommonStep, DisconnectOnce, AfterDisconnect, LockDisconnect,
              Close, Procs, OwnInv
<1>3. ASSUME NEW n \in Notifies, NotifyStep(n) \/ HandlerReturn(n)
      PROVE  OwnInv'
  BY <1>3 DEF NotifyStep, LockAck, ReleaseSlot, LoopParked, InflightDone,
              HandlerReturn, OwnInv
<1>4. CASE WriteStep
  BY <1>4 DEF WriteStep, SendAgentHello, AgentHello, WriteDisconnect,
              AfterDisconnect, WriteAck, Procs, OwnInv
<1>5. CASE Peer \/ Shutdown
  BY <1>5 DEF Peer, PeerSend, PeerLeave, Shutdown, CloseDone, Poke,
              GraceCancel, GraceFlag, GraceClose, OwnInv
<1>6. CASE UNCHANGED vars
  BY <1>6 DEF vars, OwnInv
<1> QED
  BY <1>1, <1>2, <1>3, <1>4, <1>5, <1>6 DEF Next, Terminated

(* "One release for every acquire", on every path of run, dispatch and     *)
(* processNotifyFrame: whoever may still read a frame has released one     *)
(* fewer than it got, and everybody else as many.                          *)
THEOREM FramesOwned == Spec => []FrameOwnership
<1>1. Init => OwnInv
  BY NotifiesAssumption DEF Init, OwnInv, FrameOwnership, HoldsFrame, Busy, Procs
<1>2. OwnInv => FrameOwnership
  BY DEF OwnInv
<1> QED
  BY <1>1, <1>2, OwnInductive, TypeCorrect, Fresh, PTL DEF Spec

-----------------------------------------------------------------------------
(* A deadline in the past is Shutdown's doing or the loop's own once it    *)
(* has seen done closed; any other that ended a read was the timer's.      *)
TimerInv ==
    /\ deadline = "past" \/ pc[Loop] = "expire" => shuttingDown
    /\ pc[Loop] = "deadline" => deadline # "none"

LEMMA TimerInductive == TypeOK /\ TimerInv /\ [Next]_vars => TimerInv'
<1> SUFFICES ASSUME TypeOK, TimerInv, [Next]_vars PROVE TimerInv'
  OBVIOUS
<1>0. /\ pc \in [Procs -> Labels]
      /\ Loop \in Procs /\ Loop \notin Notifies /\ Notifies \subseteq Procs
  BY NotifiesAssumption DEF Procs, TypeOK
<1> USE <1>0 DEF loopVars, lockVars, workVars, inVars, Goto, Fail, shuttingDown
(* Steps that leave the deadline alone and do not bring the loop to one.   *)
<1>q. ASSUME UNCHANGED deadline, shuttingDown => shuttingDown',
             pc'[Loop] \in {"expire", "deadline"} => pc'[Loop] = pc[Loop]
      PROVE  TimerInv'
  BY <1>q DEF TimerInv
<1>1. CASE LoopStep
  <2>1. CASE AcquireFrame \/ ArmDeadline \/ RecheckDone \/ ExpireDeadline
    BY <2>1 DEF AcquireFrame, ArmDeadline, RecheckDone, ExpireDeadline,
                SetReadDeadline, TimerInv
  <2>2. CASE ReadDeadline
    BY <2>2 DEF ReadDeadline, ReadFails, TimerInv
  <2>3. CASE ReadFrame \/ ReadEOF \/ ReadError
    BY <2>3, <1>q DEF ReadFrame, ReadEOF, ReadError, ReadFails
  <2>4. CASE ClassifyDeadline \/ DispatchHello \/ DispatchDisconnect
    BY <2>4, <1>q DEF ClassifyDeadline, DispatchHello, DispatchDisconnect
  <2>5. CASE DispatchNotify \/ AcquireSlot \/ SlotGranted
    BY <2>5, <1>q DEF DispatchNotify, LookAtDone, AcquireSlot, SlotGranted, StartHandler
  <2>6. CASE Drain \/ Cancel
    BY <2>6, <1>q DEF Drain, Cancel
  <2> QED
    BY <1>1, <2>1, <2>2, <2>3, <2>4, <2>5, <2>6 DEF LoopStep
<1>2. ASSUME NEW p \in Procs, CommonStep(p) PROVE TimerInv'
  BY <1>2, <1>q DEF CommonStep, DisconnectOnce, AfterDisconnect,
                    LockDisconnect, Close
<1>3. ASSUME NEW n \in Notifies, NotifyStep(n) \/ HandlerReturn(n)
      PROVE  TimerInv'
  BY <1>3, <1>q DEF NotifyStep, LockAck, ReleaseSlot, LoopParked, InflightDone, HandlerReturn
<1>4. CASE WriteStep
  BY <1>4, <1>q DEF WriteStep, SendAgentHello, AgentHello, WriteDisconnect,
                    AfterDisconnect, WriteAck
<1>5. CASE Peer \/ Shutdown
  BY <1>5 DEF Peer, PeerSend, PeerLeave, Shutdown, CloseDone, Poke,
              GraceCancel, GraceFlag, GraceClose, TimerInv
<1>6. CASE UNCHANGED vars
  BY <1>6, <1>q DEF vars
<1> QED
  BY <1>1, <1>2, <1>3, <1>4, <1>5, <1>6 DEF Next, Terminated

(* Only ClassifyDeadline reports a timeout, and it does so only while done *)
(* is open.                                                                *)
LEMMA TimeoutStep ==
    ASSUME TypeOK, TimerInv, [Next]_vars,
           code'[Loop] = "Timeout", code[Loop] # "Timeout"
    PROVE  deadline = "armed"
<1>0. /\ code \in [Procs -> Codes]
      /\ Loop \in Procs /\ Loop \notin Notifies /\ Notifies \subseteq Procs
  BY NotifiesAssumption DEF Procs, TypeOK
<1> USE <1>0 DEF loopVars, lockVars, workVars, inVars, Goto, Fail
<1>1. CASE LoopStep
  <2>1. CASE ClassifyDeadline
    BY <2>1 DEF ClassifyDeadline, TimerInv, TypeOK
  <2>2. CASE AcquireFrame \/ ArmDeadline \/ RecheckDone \/ ExpireDeadline
    BY <2>2 DEF AcquireFrame, ArmDeadline, RecheckDone, ExpireDeadline, SetReadDeadline
  <2>3. CASE ReadFrame \/ ReadDeadline \/ ReadEOF \/ ReadError
    BY <2>3 DEF ReadFrame, ReadDeadline, ReadEOF, ReadError, ReadFails
  <2>4. CASE DispatchHello \/ DispatchDisconnect \/ DispatchNotify
    BY <2>4 DEF DispatchHello, DispatchDisconnect, DispatchNotify
  <2>5. CASE AcquireSlot \/ SlotGranted \/ Drain \/ Cancel
    BY <2>5 DEF AcquireSlot, SlotGranted, Drain, Cancel
  <2> QED
    BY <1>1, <2>1, <2>2, <2>3, <2>4, <2>5 DEF LoopStep
<1>2. ASSUME NEW p \in Procs, CommonStep(p) PROVE code' = code
  BY <1>2 DEF CommonStep, DisconnectOnce, LockDisconnect, Close
<1>3. ASSUME NEW n \in Notifies, NotifyStep(n) \/ HandlerReturn(n)
      PROVE  code'[Loop] = code[Loop]
  BY <1>3 DEF NotifyStep, LockAck, ReleaseSlot, InflightDone, HandlerReturn
<1>4. CASE WriteStep
  BY <1>4 DEF WriteStep, SendAgentHello, WriteDisconnect, WriteAck
<1>5. CASE Peer \/ Shutdown \/ UNCHANGED vars
  BY <1>5 DEF Peer, PeerSend, PeerLeave, Shutdown, CloseDone, Poke,
              GraceCancel, GraceFlag, GraceClose, vars
<1> QED
  BY <1>1, <1>2, <1>3, <1>4, <1>5 DEF Next, Terminated

(* "A shutdown must never report itself as section 3.5's code 2", as an    *)
(* action property of every Worker.                                        *)
THEOREM TimeoutMeansTimer == Spec => TimeoutOnlyByTimer
<1>1. Init => TimerInv
  BY DEF Init, TimerInv, Procs
<1>2. TypeOK /\ TimerInv /\ [Next]_vars =>
        [code'[Loop] = "Timeout" /\ code[Loop] # "Timeout" => deadline = "armed"]_vars
  BY TimeoutStep
<1> QED
  BY <1>1, <1>2, TimerInductive, TypeCorrect, PTL DEF Spec, TimeoutOnlyByTimer

-----------------------------------------------------------------------------
Acked(n) == \E j \in 1 .. Len(wire) : wire[j] = Frame("ack", n)

(* The read loop has committed to answering a HAPROXY-DISCONNECT.          *)
Answered == /\ code[Loop] = "closed"
            /\ pc[Loop] \in {"writeDisc", "close", "cancel", "end"}

(* Nobody will be the first through disconnectOnce any more, or need not.  *)
Over == once # "new" \/ Answered

(* Why a shutdown goodbye comes after every ACK: a NOTIFY goroutine is     *)
(* through without its ACK only if somebody has already ended the          *)
(* connection, and then the drain's disconnect sends nothing.              *)
DrainInv ==
    /\ \A n \in Notifies : code[n] # "shutdown"
    /\ \A n \in Notifies : n \notin inflight => pc[n] \in {"idle", "end"}
    /\ goodbyeSent => Over
    /\ pc[Loop] = "lockDisc" => once = Loop \/ code[Loop] = "closed"
    /\ \A n \in Notifies : pc[n] \in {"lockDisc", "writeDisc", "close"} => once # "new"
    /\ \A n \in Notifies : pc[n] \in {"release", "finish", "end"} => Acked(n) \/ Over
    /\ code[Loop] = "shutdown" /\ pc[Loop] \in {"once", "lockDisc", "writeDisc"} =>
          inflight = {}
    /\ code[Loop] = "shutdown" /\ pc[Loop] \in {"lockDisc", "writeDisc"} =>
          \A n \in Notifies : pc[n] # "idle" => Acked(n)
    /\ \A i \in 1 .. Len(wire) : wire[i] = Frame("disc", "shutdown") =>
          pc[Loop] \in {"close", "cancel", "end"}
    /\ DrainDeliversAcks

(* The three ways a step bears on the part of DrainInv that speaks of a    *)
(* goodbye on the wire: it leaves the wire alone; it adds a frame that is  *)
(* not the shutdown goodbye; or there is no such goodbye yet.              *)
LEMMA GoodbyeKept ==
    ASSUME TypeOK, DrainInv,
           \/ wire' = wire
           \/ \E f : wire' = Append(wire, f) /\ f # Frame("disc", "shutdown"),
           \/ /\ \A n \in Notifies : pc[n] = "idle" => pc'[n] = "idle"
              /\ pc[Loop] \in {"close", "cancel", "end"} =>
                    pc'[Loop] \in {"close", "cancel", "end"}
           \/ pc[Loop] \notin {"close", "cancel", "end"}
    PROVE  /\ \A n \in Notifies : Acked(n) => Acked(n)'
           /\ \A i \in 1 .. Len(wire') : wire'[i] = Frame("disc", "shutdown") =>
                 pc'[Loop] \in {"close", "cancel", "end"}
           /\ DrainDeliversAcks'
<1>1. CASE wire' = wire
  BY <1>1 DEF DrainInv, DrainDeliversAcks, Acked
<1>2. ASSUME NEW f, wire' = Append(wire, f), f # Frame("disc", "shutdown")
      PROVE  /\ \A n \in Notifies : Acked(n) => Acked(n)'
             /\ \A i \in 1 .. Len(wire') : wire'[i] = Frame("disc", "shutdown") =>
                   pc'[Loop] \in {"close", "cancel", "end"}
             /\ DrainDeliversAcks'
  <2>1. /\ Len(wire) \in Nat
        /\ Len(wire') = Len(wire) + 1
        /\ wire'[Len(wire')] = f
        /\ \A i \in 1 .. Len(wire) : wire'[i] = wire[i]
    BY <1>2, WireGrows
  <2>2. \A n \in Notifies : Acked(n) => Acked(n)'
    BY <2>1 DEF Acked
  <2>3. \A i \in 1 .. Len(wire') : wire'[i] = Frame("disc", "shutdown") =>
           i \in 1 .. Len(wire) /\ wire[i] = Frame("disc", "shutdown")
    BY <1>2, <2>1
  <2>4. DrainDeliversAcks'
    <3> SUFFICES ASSUME NEW i \in 1 .. Len(wire'),
                        wire'[i] = Frame("disc", "shutdown"),
                        NEW n \in Notifies, pc'[n] # "idle"
                 PROVE  \E j \in 1 .. i : wire'[j] = Frame("ack", n)
      BY DEF DrainDeliversAcks
    <3>1. i \in 1 .. Len(wire) /\ wire[i] = Frame("disc", "shutdown")
      BY <2>3
    <3>2. pc[n] # "idle"
      BY <3>1 DEF DrainInv
    <3>3. PICK j \in 1 .. i : wire[j] = Frame("ack", n)
      BY <3>1, <3>2 DEF DrainInv, DrainDeliversAcks
    <3> QED
      BY <2>1, <3>1, <3>3
  <2> QED
    BY <2>2, <2>3, <2>4 DEF DrainInv
<1> QED
  BY <1>1, <1>2

LEMMA DrainInductive ==
    TypeOK /\ FreshInv /\ GoodbyeInv /\ DrainInv /\ [Next]_vars => DrainInv'
<1> SUFFICES ASSUME TypeOK, FreshInv, GoodbyeInv, DrainInv, [Next]_vars
             PROVE  DrainInv'
  OBVIOUS
<1>0. /\ \A p \in Procs : p \notin {"new", "done"}
      /\ pc \in [Procs -> Labels] /\ code \in [Procs -> Codes]
      /\ Loop \in Procs /\ Loop \notin Notifies /\ Notifies \subseteq Procs
      /\ inflight \subseteq Notifies
  BY NotifiesAssumption DEF Procs, TypeOK
<1> USE <1>0
<1> DEFINE Ended == {"close", "cancel", "end"}
           Quiet == \A n \in Notifies : pc'[n] = pc[n] /\ code'[n] = code[n]
           Apart(n) == /\ pc'[Loop] = pc[Loop]
                       /\ \A m \in Procs \ {n} : pc'[m] = pc[m]
                       /\ \A m \in Procs \ {n} : code'[m] = code[m]
           AcksStay == \A n \in Notifies : Acked(n) => Acked(n)'
           GoodbyesStay == /\ \A i \in 1 .. Len(wire') :
                                 wire'[i] = Frame("disc", "shutdown") =>
                                     pc'[Loop] \in {"close", "cancel", "end"}
                           /\ DrainDeliversAcks'
(* A step of the read loop that is not yet about to say goodbye.           *)
<1>q. ASSUME UNCHANGED <<once, goodbyeSent, inflight, wire>>, Quiet,
             pc[Loop] \notin {"once", "lockDisc", "writeDisc"} \cup Ended,
             pc'[Loop] = "lockDisc" => code'[Loop] = "closed",
             pc'[Loop] # "writeDisc",
             code'[Loop] = "shutdown" /\ pc'[Loop] = "once" => inflight = {}
      PROVE  DrainInv'
  <2>1. AcksStay /\ GoodbyesStay
    BY <1>q, GoodbyeKept
  <2> QED
    BY <1>q, <2>1 DEF DrainInv, Over, Answered
<1>s. ASSUME cur \in Notifies, StartHandler(cur),
             pc[Loop] \in {"dispatch", "select", "granted"},
             UNCHANGED <<once, goodbyeSent, wire, code>>
      PROVE  DrainInv'
  <2>1. /\ pc'[Loop] = "top" /\ pc'[cur] = "handler"
        /\ \A n \in Notifies \ {cur} : pc'[n] = pc[n]
        /\ inflight' = inflight \cup {cur}
    BY <1>s DEF StartHandler
  <2>2. AcksStay /\ GoodbyesStay
    BY <1>s, GoodbyeKept
  <2> QED
    BY <1>s, <2>1, <2>2 DEF DrainInv, Over, Answered
<1>u. ASSUME UNCHANGED <<pc, code, once, goodbyeSent, inflight, wire>>
      PROVE  DrainInv'
  <2>1. AcksStay /\ GoodbyesStay
    BY <1>u, GoodbyeKept
  <2> QED
    BY <1>u, <2>1 DEF DrainInv, Over, Answered
<1> USE DEF loopVars, lockVars, workVars, inVars, Goto, Fail
<1>1. CASE LoopStep
  <2>1. CASE AcquireFrame \/ ArmDeadline \/ RecheckDone \/ ExpireDeadline
    BY <2>1, <1>q DEF AcquireFrame, ArmDeadline, RecheckDone, ExpireDeadline,
                      SetReadDeadline
  <2>2. CASE ReadFrame
    BY <2>2, <1>q DEF ReadFrame
  <2>3. CASE ReadDeadline \/ ReadEOF \/ ReadError
    BY <2>3, <1>q DEF ReadDeadline, ReadEOF, ReadError, ReadFails
  <2>4. CASE ClassifyDeadline \/ DispatchDisconnect
    BY <2>4, <1>q DEF ClassifyDeadline, DispatchDisconnect
  <2>5. CASE DispatchHello
    BY <2>5, <1>q DEF DispatchHello
  <2>6. CASE DispatchNotify
    BY <2>6, <1>q, <1>s DEF DispatchNotify, LookAtDone
  <2>7. CASE AcquireSlot
    BY <2>7, <1>q, <1>s DEF AcquireSlot, TypeOK
  <2>8. CASE SlotGranted
    BY <2>8, <1>s DEF SlotGranted, TypeOK
  (* drain has waited, and only then reports the shutdown.                 *)
  <2>9. CASE Drain
    BY <2>9, <1>q DEF Drain
  <2>10. CASE Cancel
    <3>1. /\ pc[Loop] = "cancel" /\ pc'[Loop] = "end" /\ Quiet
          /\ UNCHANGED <<code, once, goodbyeSent, inflight, wire>>
      BY <2>10 DEF Cancel
    <3>2. AcksStay /\ GoodbyesStay
      BY <3>1, GoodbyeKept
    <3> QED
      BY <3>1, <3>2 DEF DrainInv, Over, Answered
  <2> QED
    BY <1>1, <2>1, <2>2, <2>3, <2>4, <2>5, <2>6, <2>7, <2>8, <2>9, <2>10 DEF LoopStep
<1>2. CASE DisconnectOnce(Loop)
  <2>0. /\ pc[Loop] = "once" /\ Quiet
        /\ UNCHANGED <<code, goodbyeSent, inflight, wire>>
        /\ \/ once = "new" /\ once' = Loop /\ pc'[Loop] = "lockDisc"
           \/ once = "done" /\ once' = once /\ pc'[Loop] = "close"
    BY <1>2 DEF DisconnectOnce, AfterDisconnect
  (* With disconnectOnce unused, every goroutine that is through was ACKed.*)
  <2>1. code[Loop] = "shutdown" /\ once = "new" =>
           \A n \in Notifies : pc[n] # "idle" => Acked(n)
    BY <2>0 DEF DrainInv, Over, Answered
  <2>2. AcksStay /\ GoodbyesStay
    BY <2>0, GoodbyeKept
  <2> QED
    BY <2>0, <2>1, <2>2 DEF DrainInv, Over, Answered
<1>3. ASSUME NEW n \in Notifies, DisconnectOnce(n) PROVE DrainInv'
  <2>1. /\ pc[n] = "once" /\ Apart(n)
        /\ UNCHANGED <<code, goodbyeSent, inflight, wire>>
        /\ \/ once = "new" /\ once' = n /\ pc'[n] = "lockDisc"
           \/ once = "done" /\ once' = once /\ pc'[n] = "close"
    BY <1>3 DEF DisconnectOnce, AfterDisconnect
  <2>2. AcksStay /\ GoodbyesStay
    BY <2>1, GoodbyeKept
  <2> QED
    BY <2>1, <2>2 DEF DrainInv, Over, Answered
(* The latch is set by whoever won disconnectOnce, or by the loop on its   *)
(* way to answer a HAPROXY-DISCONNECT.                                     *)
<1>4. CASE LockDisconnect(Loop)
  <2>1. /\ pc[Loop] = "lockDisc" /\ pc'[Loop] \in {"writeDisc", "close"} /\ Quiet
        /\ goodbyeSent'
        /\ UNCHANGED <<code, inflight, wire>>
        /\ once' = once \/ (once = Loop /\ once' = "done")
    BY <1>4 DEF LockDisconnect, AfterDisconnect
  <2>2. AcksStay /\ GoodbyesStay
    BY <2>1, GoodbyeKept
  <2> QED
    BY <2>1, <2>2 DEF DrainInv, Over, Answered
<1>5. ASSUME NEW n \in Notifies, LockDisconnect(n) PROVE DrainInv'
  <2>1. /\ pc[n] = "lockDisc" /\ pc'[n] \in {"writeDisc", "close"} /\ Apart(n)
        /\ UNCHANGED <<code, inflight, wire>>
        /\ once' = once \/ (once = n /\ once' = "done")
    BY <1>5 DEF LockDisconnect, AfterDisconnect
  <2>2. AcksStay /\ GoodbyesStay
    BY <2>1, GoodbyeKept
  <2> QED
    BY <2>1, <2>2 DEF DrainInv, Over, Answered
<1>6. CASE Close(Loop)
  <2>1. /\ pc[Loop] = "close" /\ pc'[Loop] \in {"close", "cancel"} /\ Quiet
        /\ UNCHANGED <<code, once, goodbyeSent, inflight, wire>>
    BY <1>6 DEF Close
  <2>2. AcksStay /\ GoodbyesStay
    BY <2>1, GoodbyeKept
  <2> QED
    BY <2>1, <2>2 DEF DrainInv, Over, Answered
<1>7. ASSUME NEW n \in Notifies, Close(n) PROVE DrainInv'
  <2>1. /\ pc[n] = "close" /\ pc'[n] \in {"close", "release"} /\ Apart(n)
        /\ UNCHANGED <<code, once, goodbyeSent, inflight, wire>>
    BY <1>7 DEF Close
  <2>2. AcksStay /\ GoodbyesStay
    BY <2>1, GoodbyeKept
  <2> QED
    BY <2>1, <2>2 DEF DrainInv, Over, Answered
<1>8. ASSUME NEW n \in Notifies, NotifyStep(n) \/ HandlerReturn(n)
      PROVE  DrainInv'
  <2>1. CASE LockAck(n)
    <3>1. /\ pc[n] = "ackLock" /\ pc'[n] \in {"release", "once", "ackWrite"}
          /\ pc'[n] = "release" => goodbyeSent
          /\ code'[n] \in {code[n], "IOError"} /\ Apart(n)
          /\ UNCHANGED <<once, goodbyeSent, inflight, wire>>
      BY <2>1 DEF LockAck
    <3>2. AcksStay /\ GoodbyesStay
      BY <3>1, GoodbyeKept
    <3> QED
      BY <3>1, <3>2 DEF DrainInv, Over, Answered
  <2>2. CASE ReleaseSlot(n)
    <3>1. /\ pc[n] = "release" /\ pc'[n] = "finish"
          /\ \A m \in Notifies \ {n} : pc'[m] = pc[m]
          /\ \/ pc'[Loop] = pc[Loop]
             \/ pc[Loop] = "parked" /\ pc'[Loop] = "granted"
          /\ UNCHANGED <<code, once, goodbyeSent, inflight, wire>>
      BY <2>2 DEF ReleaseSlot, LoopParked
    <3>2. AcksStay /\ GoodbyesStay
      BY <3>1, GoodbyeKept
    <3> QED
      BY <3>1, <3>2 DEF DrainInv, Over, Answered
  <2>3. CASE InflightDone(n)
    <3>1. /\ pc[n] = "finish" /\ pc'[n] = "end" /\ Apart(n)
          /\ inflight' = inflight \ {n}
          /\ UNCHANGED <<code, once, goodbyeSent, wire>>
      BY <2>3 DEF InflightDone
    <3>2. AcksStay /\ GoodbyesStay
      BY <3>1, GoodbyeKept
    <3> QED
      BY <3>1, <3>2 DEF DrainInv, Over, Answered
  <2>4. CASE HandlerReturn(n)
    <3>1. /\ pc[n] = "handler" /\ pc'[n] = "ackLock" /\ Apart(n)
          /\ code'[n] \in {"none", "FrameTooBig", "Unknown"}
          /\ UNCHANGED <<once, goodbyeSent, inflight, wire>>
      BY <2>4 DEF HandlerReturn
    <3>2. AcksStay /\ GoodbyesStay
      BY <3>1, GoodbyeKept
    <3> QED
      BY <3>1, <3>2 DEF DrainInv, Over, Answered
  <2> QED
    BY <1>8, <2>1, <2>2, <2>3, <2>4 DEF NotifyStep
<1>9. CASE Peer \/ Shutdown
  <2>1. CASE CloseDone
    <3>1. /\ Quiet
          /\ \/ pc'[Loop] = pc[Loop]
             \/ pc[Loop] = "parked" /\ pc'[Loop] = "drain"
          /\ UNCHANGED <<code, once, goodbyeSent, inflight, wire>>
      BY <2>1 DEF CloseDone
    <3>2. AcksStay /\ GoodbyesStay
      BY <3>1, GoodbyeKept
    <3> QED
      BY <3>1, <3>2 DEF DrainInv, Over, Answered
  <2>2. CASE Peer
    BY <2>2, <1>u DEF Peer, PeerSend, PeerLeave
  <2>3. CASE Poke \/ GraceCancel \/ GraceFlag \/ GraceClose
    BY <2>3, <1>u DEF Poke, GraceCancel, GraceFlag, GraceClose
  <2> QED
    BY <1>9, <2>1, <2>2, <2>3 DEF Shutdown
<1>10. CASE WriteStep
  <2> DEFINE Adds == \/ wire' = wire
                     \/ \E f : wire' = Append(wire, f) /\ f # Frame("disc", "shutdown")
  <2>1. CASE SendAgentHello
    <3>1. Adds
      BY <2>1 DEF SendAgentHello, AgentHello, WriteOk, WriteError, Frame
    <3>2. /\ pc[Loop] = "hello" /\ pc'[Loop] \in {"top", "close"} /\ Quiet
          /\ UNCHANGED <<code, once, goodbyeSent, inflight>>
      BY <2>1 DEF SendAgentHello
    <3>3. AcksStay /\ GoodbyesStay
      BY <3>1, <3>2, GoodbyeKept
    <3> QED
      BY <3>2, <3>3 DEF DrainInv, Over, Answered
  (* The read loop's goodbye: if it is the drain's, the ACKs are all out.  *)
  <2>2. CASE WriteDisconnect(Loop)
    <3>1. /\ pc[Loop] = "writeDisc" /\ pc'[Loop] = "close" /\ Quiet
          /\ once' = IF once = Loop THEN "done" ELSE once
          /\ UNCHANGED <<code, goodbyeSent, inflight>>
      BY <2>2 DEF WriteDisconnect, AfterDisconnect
    <3>2. AcksStay /\ GoodbyesStay
      <4>1. CASE wire' = Append(wire, Frame("disc", "shutdown")) /\ code[Loop] = "shutdown"
        <5>1. /\ Len(wire) \in Nat
              /\ Len(wire') = Len(wire) + 1
              /\ \A i \in 1 .. Len(wire) : wire'[i] = wire[i]
          BY <4>1, WireGrows
        <5>2. AcksStay
          BY <5>1 DEF Acked
        <5>3. \A n \in Notifies : pc'[n] # "idle" => Acked(n)
          BY <3>1, <4>1 DEF DrainInv
        <5>4. \A i \in 1 .. Len(wire) : wire[i] # Frame("disc", "shutdown")
          BY <3>1 DEF DrainInv
        <5>5. \A i \in 1 .. Len(wire') :
                 wire'[i] = Frame("disc", "shutdown") => i = Len(wire')
          BY <5>1, <5>4
        <5>6. DrainDeliversAcks'
          BY <5>1, <5>3, <5>5 DEF DrainDeliversAcks, Acked
        <5> QED
          BY <3>1, <5>2, <5>6
      <4>2. CASE Adds
        BY <3>1, <4>2, GoodbyeKept
      <4>3. \/ Adds
            \/ wire' = Append(wire, Frame("disc", "shutdown")) /\ code[Loop] = "shutdown"
        BY <2>2 DEF WriteDisconnect, WriteOk, WriteError, Frame
      <4> QED
        BY <4>1, <4>2, <4>3
    <3> QED
      BY <3>1, <3>2 DEF DrainInv, Over, Answered
  <2>3. ASSUME NEW n \in Notifies, WriteDisconnect(n) PROVE DrainInv'
    <3>1. Adds
      <4>1. /\ Frame("disc", code[n]) # Frame("disc", "shutdown")
            /\ Frame("part", "none") # Frame("disc", "shutdown")
        BY DEF Frame, DrainInv
      <4>2. \/ wire' = wire
            \/ wire' = Append(wire, Frame("disc", code[n]))
            \/ wire' = Append(wire, Frame("part", "none"))
        BY <2>3 DEF WriteDisconnect, WriteOk, WriteError
      <4> QED
        BY <4>1, <4>2
    <3>2. /\ pc[n] = "writeDisc" /\ pc'[n] = "close" /\ Apart(n)
          /\ once' = IF once = n THEN "done" ELSE once
          /\ UNCHANGED <<code, goodbyeSent, inflight>>
      BY <2>3 DEF WriteDisconnect, AfterDisconnect
    <3>3. AcksStay /\ GoodbyesStay
      BY <3>1, <3>2, GoodbyeKept
    <3> QED
      BY <3>2, <3>3 DEF DrainInv, Over, Answered
  <2>4. ASSUME NEW n \in Notifies, WriteAck(n) PROVE DrainInv'
    <3>1. Adds
      BY <2>4 DEF WriteAck, WriteOk, WriteError, Frame
    <3>2. pc'[n] = "release" => Acked(n)'
      <4> SUFFICES ASSUME pc'[n] = "release" PROVE Acked(n)'
        OBVIOUS
      <4>1. wire' = Append(wire, Frame("ack", n))
        BY <2>4 DEF WriteAck, WriteOk
      <4>2. /\ Len(wire) \in Nat
            /\ Len(wire') = Len(wire) + 1
            /\ wire'[Len(wire')] = Frame("ack", n)
        BY <4>1, WireGrows
      <4> QED
        BY <4>2 DEF Acked
    <3>3. /\ pc[n] = "ackWrite" /\ pc'[n] \in {"release", "once"} /\ Apart(n)
          /\ code'[n] \in {code[n], "IOError"}
          /\ UNCHANGED <<once, goodbyeSent, inflight>>
      BY <2>4 DEF WriteAck
    <3>4. AcksStay /\ GoodbyesStay
      BY <3>1, <3>3, GoodbyeKept
    <3> QED
      BY <3>2, <3>3, <3>4 DEF DrainInv, Over, Answered
  <2> QED
    BY <1>10, <2>1, <2>2, <2>3, <2>4 DEF WriteStep, Procs
<1>11. CASE UNCHANGED vars
  BY <1>11, <1>u DEF vars
<1>12. ASSUME NEW p \in Procs, CommonStep(p) PROVE DrainInv'
  BY <1>2, <1>3, <1>4, <1>5, <1>6, <1>7, <1>12 DEF CommonStep, Procs
<1> QED
  BY <1>1, <1>8, <1>9, <1>10, <1>11, <1>12 DEF Next, Terminated

LEMMA DrainHolds == Spec => []DrainInv
<1>1. Init => DrainInv
  BY NotifiesAssumption DEF Init, DrainInv, DrainDeliversAcks, Procs, Over
<1> QED
  BY <1>1, DrainInductive, GoodbyeStart, GoodbyeInductive, TypeCorrect, Fresh, PTL DEF Spec

(* drain's promise, for any number of NOTIFYs: the shutdown goodbye comes  *)
(* after the ACK of every NOTIFY the connection dispatched.                *)
THEOREM DrainAcksFirst == Spec => []DrainDeliversAcks
<1>1. DrainInv => DrainDeliversAcks
  BY DEF DrainInv
<1> QED
  BY <1>1, DrainHolds, PTL

-----------------------------------------------------------------------------

(* A goroutine that is busy with a NOTIFY has a token in slots, and slots  *)
(* never outgrows its capacity.                                            *)
SlotInv ==
    MaxInFlight > 0 =>
        /\ \A n \in Notifies : pc[n] \in Busy => n \in slots
        /\ pc[Loop] = "granted" => cur \in slots
        /\ Cardinality(slots) <= MaxInFlight

LEMMA SlotInductive ==
    TypeOK /\ FreshInv /\ SlotInv /\ [Next]_vars => SlotInv'
<1> SUFFICES ASSUME TypeOK, FreshInv, SlotInv, [Next]_vars, MaxInFlight > 0
             PROVE  SlotInv'
  BY DEF SlotInv
<1>0. /\ pc \in [Procs -> Labels]
      /\ Loop \in Procs /\ Loop \notin Notifies /\ Notifies \subseteq Procs
      /\ MaxInFlight \in Nat
  BY NotifiesAssumption, LimitsAssumption DEF Procs, TypeOK
<1>f. IsFiniteSet(slots) /\ Cardinality(slots) \in Nat
  BY LimitsAssumption, FS_Subset, FS_CardinalityType DEF TypeOK
<1> USE <1>0 DEF loopVars, lockVars, workVars, inVars, Goto, Fail, Busy
(* Steps that move no token and make nobody busy.                          *)
<1>q. ASSUME UNCHANGED slots,
             \A n \in Notifies : pc'[n] \in Busy => pc[n] \in Busy,
             pc'[Loop] # "granted" \/ (pc'[Loop] = pc[Loop] /\ cur' = cur)
      PROVE  SlotInv'
  BY <1>q DEF SlotInv
<1>1. CASE LoopStep
  <2>1. CASE AcquireFrame \/ ArmDeadline \/ RecheckDone \/ ExpireDeadline
    BY <2>1, <1>q
       DEF AcquireFrame, ArmDeadline, RecheckDone, ExpireDeadline,
                      SetReadDeadline
  <2>2. CASE ReadFrame \/ ReadDeadline \/ ReadEOF \/ ReadError
    BY <2>2, <1>q
       DEF ReadFrame, ReadDeadline, ReadEOF, ReadError, ReadFails
  <2>3. CASE ClassifyDeadline \/ DispatchHello \/ DispatchDisconnect
    BY <2>3, <1>q DEF ClassifyDeadline, DispatchHello, DispatchDisconnect
  <2>4. CASE DispatchNotify
    BY <2>4, <1>q DEF DispatchNotify, LookAtDone
  (* The send into slots, which succeeds only below the capacity.          *)
  <2>5. CASE AcquireSlot
    <3>1. CASE /\ Cardinality(slots) < MaxInFlight
               /\ slots' = slots \cup {cur}
               /\ StartHandler(cur)
      <4>1. Cardinality(slots \cup {cur}) \in {Cardinality(slots), Cardinality(slots) + 1}
        BY <1>f, FS_AddElement
      <4>2. Cardinality(slots') <= MaxInFlight
        BY <3>1, <1>f, <4>1
      <4> QED
        BY <2>5, <3>1, <4>2 DEF SlotInv, StartHandler
    <3>2. CASE UNCHANGED slots /\ pc' \in {[pc EXCEPT ![Loop] = l] : l \in {"drain", "parked"}}
      BY <3>2, <1>q
    <3> QED
      BY <2>5, <3>1, <3>2 DEF AcquireSlot, SlotFree
  <2>6. CASE SlotGranted
    BY <2>6 DEF SlotGranted, StartHandler, SlotInv
  <2>7. CASE Drain \/ Cancel
    BY <2>7, <1>q DEF Drain, Cancel
  <2> QED
    BY <1>1, <2>1, <2>2, <2>3, <2>4, <2>5, <2>6, <2>7 DEF LoopStep
<1>2. ASSUME NEW p \in Procs, CommonStep(p) PROVE SlotInv'
  BY <1>2, <1>q DEF CommonStep, DisconnectOnce, AfterDisconnect,
                    LockDisconnect, Close, Procs
<1>3. ASSUME NEW n \in Notifies, LockAck(n) \/ InflightDone(n) \/ HandlerReturn(n)
      PROVE  SlotInv'
  BY <1>3, <1>q DEF LockAck, InflightDone, HandlerReturn
(* The receive from slots, with or without a parked loop to take the room. *)
<1>4. ASSUME NEW n \in Notifies, ReleaseSlot(n) PROVE SlotInv'
  <2>1. n \in slots
    BY <1>4 DEF ReleaseSlot, LoopParked, SlotInv
  <2> DEFINE rest == slots \ {n}
  <2>2. IsFiniteSet(rest) /\ Cardinality(rest) = Cardinality(slots) - 1
    BY <2>1, <1>f, FS_RemoveElement
  <2> HIDE DEF rest
  <2>3. Cardinality(rest \cup {cur}) \in {Cardinality(rest), Cardinality(rest) + 1}
    BY Zenon, <2>2, FS_AddElement
  <2>4. Cardinality(slots') <= MaxInFlight
    <3>1. slots' = rest \/ slots' = rest \cup {cur}
      BY <1>4 DEF ReleaseSlot, LoopParked, rest
    <3>2. Cardinality(slots) <= MaxInFlight
      BY DEF SlotInv
    <3>3. CASE slots' = rest
      BY <1>f, <2>2, <3>2, <3>3
    <3>4. CASE slots' = rest \cup {cur}
      BY <1>f, <2>2, <2>3, <3>2, <3>4
    <3> QED
      BY <3>1, <3>3, <3>4
  <2>5. \A m \in Notifies : pc'[m] \in Busy => m \in slots'
    <3>1. \A m \in Notifies : pc'[m] \in Busy => m # n /\ pc[m] \in Busy
      BY <1>4 DEF ReleaseSlot, LoopParked
    <3>2. slots \ {n} \subseteq slots'
      BY <1>4 DEF ReleaseSlot
    <3> QED
      BY <3>1, <3>2 DEF SlotInv
  <2>6. pc'[Loop] = "granted" => cur' \in slots'
    <3>1. CASE LoopParked
      BY <1>4, <3>1 DEF ReleaseSlot
    <3>2. CASE ~LoopParked
      <4>1. slots' = slots \ {n} /\ cur' = cur /\ pc'[Loop] = pc[Loop]
        BY <1>4, <3>2 DEF ReleaseSlot
      <4>2. pc[Loop] = "granted" => cur \in Notifies
        BY DEF TypeOK
      <4>3. cur \in Notifies => pc[cur] = "idle"
        BY DEF FreshInv
      <4>4. pc[n] = "release"
        BY <1>4 DEF ReleaseSlot
      <4>5. pc[Loop] = "granted" => cur # n
        BY <4>2, <4>3, <4>4
      <4> QED
        BY <4>1, <4>5 DEF SlotInv
    <3> QED
      BY <3>1, <3>2
  <2> QED
    BY <2>4, <2>5, <2>6 DEF SlotInv
<1>5. CASE WriteStep
  BY <1>5, <1>q
     DEF WriteStep, SendAgentHello, AgentHello, WriteDisconnect,
                    AfterDisconnect, WriteAck, Procs
<1>6. CASE Peer \/ Shutdown
  BY <1>6, <1>q DEF Peer, PeerSend, PeerLeave, Shutdown, CloseDone, Poke,
                    GraceCancel, GraceFlag, GraceClose
<1>7. CASE UNCHANGED vars
  BY <1>7, <1>q DEF vars
<1> QED
  BY <1>1, <1>2, <1>3, <1>4, <1>5, <1>6, <1>7 DEF Next, NotifyStep, Terminated

(* acquireSlot and releaseSlot keep WithMaxInFlight's promise for every    *)
(* limit: the NOTIFYs being worked on never outnumber it.                  *)
THEOREM InFlightLimited == Spec => []InFlightBound
<1>1. Init => SlotInv
  BY NotifiesAssumption, LimitsAssumption, FS_EmptySet
     DEF Init, SlotInv, Busy, Procs
<1>2. TypeOK /\ SlotInv => InFlightBound
  <2> SUFFICES ASSUME TypeOK, SlotInv, MaxInFlight > 0
               PROVE  Cardinality({n \in Notifies : pc[n] \in Busy}) <= MaxInFlight
    BY DEF InFlightBound
  <2> DEFINE B == {n \in Notifies : pc[n] \in Busy}
  <2>1. B \in SUBSET slots
    BY DEF SlotInv
  <2>2. IsFiniteSet(slots)
    BY LimitsAssumption, FS_Subset DEF TypeOK
  <2>3. /\ IsFiniteSet(B)
        /\ Cardinality(B) <= Cardinality(slots)
    BY <2>1, <2>2, FS_Subset
  <2>4. Cardinality(B) \in Nat /\ Cardinality(slots) \in Nat
    BY <2>2, <2>3, FS_CardinalityType
  <2> QED
    BY <2>3, <2>4, LimitsAssumption DEF SlotInv
<1> QED
  BY <1>1, <1>2, SlotInductive, TypeCorrect, Fresh, PTL DEF Spec

-----------------------------------------------------------------------------
(* Once a NOTIFY has been dispatched late, the loop never again works on a *)
(* slot: its next look at done comes first.                                *)
LateInv ==
    MaxInFlight > 0 /\ late # {} =>
        /\ shuttingDown
        /\ pc[Loop] \notin {"select", "parked", "granted"}
        /\ \E n \in Notifies : late = {n}

LEMMA LateInductive == TypeOK /\ LateInv /\ [Next]_vars => LateInv'
<1> SUFFICES ASSUME TypeOK, LateInv, [Next]_vars, MaxInFlight > 0
             PROVE  LateInv'
  BY DEF LateInv
<1>0. /\ pc \in [Procs -> Labels]
      /\ Loop \in Procs /\ Loop \notin Notifies /\ Notifies \subseteq Procs
      /\ MaxInFlight \in Nat
  BY NotifiesAssumption, LimitsAssumption DEF Procs, TypeOK
<1> USE <1>0 DEF loopVars, lockVars, workVars, inVars, Goto, Fail, shuttingDown
<1> DEFINE Slotting == {"select", "parked", "granted"}
(* Steps that dispatch nothing and do not bring the loop to acquireSlot.   *)
<1>q. ASSUME UNCHANGED late, shuttingDown => shuttingDown',
             pc'[Loop] \in Slotting => pc[Loop] \in Slotting \/ ~shuttingDown
      PROVE  LateInv'
  BY <1>q DEF LateInv
(* A dispatch by way of acquireSlot is the first late one, if it is late.  *)
<1>s. ASSUME pc[Loop] \in Slotting, StartHandler(cur), UNCHANGED shutdown
      PROVE  LateInv'
  BY <1>s DEF LateInv, StartHandler, TypeOK
<1>1. CASE LoopStep
  <2>1. CASE AcquireFrame \/ ArmDeadline \/ RecheckDone \/ ExpireDeadline
    BY <2>1, <1>q
       DEF AcquireFrame, ArmDeadline, RecheckDone, ExpireDeadline,
                      SetReadDeadline
  <2>2. CASE ReadFrame \/ ReadDeadline \/ ReadEOF \/ ReadError
    BY <2>2, <1>q DEF ReadFrame, ReadDeadline, ReadEOF, ReadError, ReadFails
  <2>3. CASE ClassifyDeadline \/ DispatchHello \/ DispatchDisconnect
    BY <2>3, <1>q DEF ClassifyDeadline, DispatchHello, DispatchDisconnect
  <2>4. CASE DispatchNotify
    BY <2>4, <1>q DEF DispatchNotify, LookAtDone
  <2>5. CASE AcquireSlot
    BY <2>5, <1>q, <1>s DEF AcquireSlot, SlotFree
  <2>6. CASE SlotGranted
    BY <2>6, <1>s DEF SlotGranted
  <2>7. CASE Drain \/ Cancel
    BY <2>7, <1>q DEF Drain, Cancel
  <2> QED
    BY <1>1, <2>1, <2>2, <2>3, <2>4, <2>5, <2>6, <2>7 DEF LoopStep
<1>2. ASSUME NEW p \in Procs, CommonStep(p) PROVE LateInv'
  BY <1>2, <1>q DEF CommonStep, DisconnectOnce, AfterDisconnect,
                    LockDisconnect, Close
<1>3. ASSUME NEW n \in Notifies, NotifyStep(n) \/ HandlerReturn(n)
      PROVE  LateInv'
  BY <1>3, <1>q DEF NotifyStep, LockAck, ReleaseSlot, LoopParked, InflightDone, HandlerReturn
<1>4. CASE WriteStep
  BY <1>4, <1>q
     DEF WriteStep, SendAgentHello, AgentHello, WriteDisconnect,
                    AfterDisconnect, WriteAck
<1>5. CASE Peer \/ Shutdown
  BY <1>5, <1>q DEF Peer, PeerSend, PeerLeave, Shutdown, CloseDone, Poke,
                    GraceCancel, GraceFlag, GraceClose
<1>6. CASE UNCHANGED vars
  BY <1>6, <1>q DEF vars
<1> QED
  BY <1>1, <1>2, <1>3, <1>4, <1>5, <1>6 DEF Next, Terminated

(* A limited connection's drain takes in at most one more NOTIFY, whatever *)
(* the limit and however many HAProxy has pipelined.                       *)
THEOREM LateDispatchBounded == Spec => []LateDispatchBound
<1>1. Init => LateInv
  BY DEF Init, LateInv
<1>2. LateInv => LateDispatchBound
  <2> SUFFICES ASSUME LateInv, MaxInFlight > 0 PROVE Cardinality(late) <= 1
    BY DEF LateDispatchBound
  <2>1. CASE late = {}
    BY <2>1, FS_EmptySet
  <2>2. ASSUME NEW n \in Notifies, late = {n} PROVE Cardinality(late) <= 1
    <3>1. Cardinality({n}) = 1
      BY Zenon, FS_Singleton
    <3> QED
      BY <2>2, <3>1
  <2> QED
    BY <2>1, <2>2 DEF LateInv
<1> QED
  BY <1>1, <1>2, LateInductive, TypeCorrect, PTL DEF Spec

-----------------------------------------------------------------------------
(* Shutdown closes a connection only after it has cancelled its handlers.  *)
CancelInv == shutdown \in {"cancelled", "flagged", "closed"} => cancelled

LEMMA CancelFirst == Spec => []CancelInv
<1>1. Init => CancelInv
  BY DEF Init, CancelInv
<1>2. CancelInv /\ [Next]_vars => CancelInv'
  <2> SUFFICES ASSUME CancelInv, [Next]_vars PROVE CancelInv'
    OBVIOUS
  <2>1. CASE UNCHANGED <<shutdown, cancelled>>
    BY <2>1 DEF CancelInv
  <2>2. CASE Shutdown
    BY <2>2 DEF Shutdown, CloseDone, Poke, GraceCancel, GraceFlag, GraceClose, CancelInv
  <2>3. CASE Cancel
    BY <2>3 DEF Cancel, CancelInv
  <2>4. CASE LoopStep
    <3> USE DEF ReadFails, SetReadDeadline
    <3>1. CASE AcquireFrame \/ ArmDeadline \/ RecheckDone \/ ExpireDeadline \/ ReadFrame
      BY <2>1, <3>1 DEF AcquireFrame, ArmDeadline, RecheckDone, ExpireDeadline, ReadFrame
    <3>2. CASE ReadDeadline \/ ReadEOF \/ ReadError \/ ClassifyDeadline
      BY <2>1, <3>2 DEF ReadDeadline, ReadEOF, ReadError, ClassifyDeadline
    <3>3. CASE DispatchHello \/ DispatchDisconnect \/ DispatchNotify
      BY <2>1, <3>3 DEF DispatchHello, DispatchDisconnect, DispatchNotify
    <3>4. CASE AcquireSlot \/ SlotGranted \/ Drain
      BY <2>1, <3>4 DEF AcquireSlot, SlotGranted, Drain
    <3> QED
      BY <2>3, <2>4, <3>1, <3>2, <3>3, <3>4 DEF LoopStep
  <2>5. ASSUME NEW p \in Procs, CommonStep(p) PROVE CancelInv'
    BY <2>1, <2>5 DEF CommonStep, DisconnectOnce, LockDisconnect, Close
  <2>6. ASSUME NEW n \in Notifies, NotifyStep(n) \/ HandlerReturn(n) PROVE CancelInv'
    BY <2>1, <2>6 DEF NotifyStep, LockAck, ReleaseSlot, InflightDone, HandlerReturn
  <2>7. CASE WriteStep
    BY <2>1, <2>7 DEF WriteStep, SendAgentHello, WriteDisconnect, WriteAck
  <2>8. CASE Peer
    BY <2>1, <2>8 DEF Peer, PeerSend, PeerLeave
  <2>9. CASE UNCHANGED vars
    BY <2>1, <2>9 DEF vars
  <2> QED
    BY <2>2, <2>4, <2>5, <2>6, <2>7, <2>8, <2>9 DEF Next, Terminated
<1> QED
  BY <1>1, <1>2, PTL DEF Spec

-----------------------------------------------------------------------------
(* Whoever has raised the connection's flag has yet to close the socket: a *)
(* NOTIFY goroutine is still at its close, and Shutdown between its two    *)
(* steps.                                                                  *)
CloserInv ==
    /\ \A n \in Notifies : closer = n => pc[n] = "close"
    /\ shutdown = "flagged" => closer = "agent"

LEMMA CloserInductive ==
    TypeOK /\ FreshInv /\ CloserInv /\ [Next]_vars => CloserInv'
<1> SUFFICES ASSUME TypeOK, FreshInv, CloserInv, [Next]_vars PROVE CloserInv'
  OBVIOUS
<1>0. /\ pc \in [Procs -> Labels]
      /\ Loop \in Procs /\ Loop \notin Notifies /\ Notifies \subseteq Procs
      /\ "agent" \notin Procs /\ "closed" \notin Notifies
  BY NotifiesAssumption DEF Procs, TypeOK, Codes
<1> USE <1>0 DEF loopVars, lockVars, workVars, inVars, Goto, Fail
(* Steps that leave the connection open, or closed, as it is, and move no  *)
(* NOTIFY goroutine that is at its close.                                  *)
<1>q. ASSUME UNCHANGED <<closer, shutdown>>,
             \A n \in Notifies : pc[n] = "close" => pc'[n] = "close"
      PROVE  CloserInv'
  BY <1>q DEF CloserInv
<1>s. ASSUME cur \in Notifies, StartHandler(cur), UNCHANGED <<closer, shutdown>>
      PROVE  CloserInv'
  BY <1>s, <1>q DEF StartHandler, FreshInv
<1>1. CASE LoopStep
  <2>1. CASE AcquireFrame \/ ArmDeadline \/ RecheckDone \/ ExpireDeadline
    BY <2>1, <1>q DEF AcquireFrame, ArmDeadline, RecheckDone, ExpireDeadline,
                      SetReadDeadline
  <2>2. CASE ReadFrame \/ ReadDeadline \/ ReadEOF \/ ReadError
    BY <2>2, <1>q DEF ReadFrame, ReadDeadline, ReadEOF, ReadError, ReadFails
  <2>3. CASE ClassifyDeadline \/ DispatchHello \/ DispatchDisconnect
    BY <2>3, <1>q DEF ClassifyDeadline, DispatchHello, DispatchDisconnect
  <2>4. CASE DispatchNotify
    BY <2>4, <1>q, <1>s DEF DispatchNotify, LookAtDone
  <2>5. CASE AcquireSlot
    BY <2>5, <1>q, <1>s DEF AcquireSlot, SlotFree, TypeOK
  <2>6. CASE SlotGranted
    BY <2>6, <1>s DEF SlotGranted, TypeOK
  <2>7. CASE Drain \/ Cancel
    BY <2>7, <1>q DEF Drain, Cancel
  <2> QED
    BY <1>1, <2>1, <2>2, <2>3, <2>4, <2>5, <2>6, <2>7 DEF LoopStep
<1>2. ASSUME NEW p \in Procs, DisconnectOnce(p) \/ LockDisconnect(p) \/ WriteDisconnect(p)
      PROVE  CloserInv'
  BY <1>2, <1>q DEF DisconnectOnce, LockDisconnect, WriteDisconnect, AfterDisconnect
(* Close: the flag goes up only where it was down, and the goroutine that  *)
(* leaves its close has closed the socket or had not raised the flag.      *)
<1>3. ASSUME NEW p \in Procs, Close(p) PROVE CloserInv'
  BY <1>3 DEF Close, CloserInv, Procs
<1>4. ASSUME NEW n \in Notifies,
             NotifyStep(n) \/ HandlerReturn(n) \/ WriteAck(n)
      PROVE  CloserInv'
  BY <1>4, <1>q DEF NotifyStep, LockAck, ReleaseSlot, LoopParked, InflightDone,
                    HandlerReturn, WriteAck
<1>5. CASE SendAgentHello \/ Peer
  BY <1>5, <1>q DEF SendAgentHello, Peer, PeerSend, PeerLeave
<1>6. CASE Shutdown
  BY <1>6 DEF Shutdown, CloseDone, Poke, GraceCancel, GraceFlag, GraceClose, CloserInv
<1>7. CASE UNCHANGED vars
  BY <1>7, <1>q DEF vars
<1> QED
  BY <1>1, <1>2, <1>3, <1>4, <1>5, <1>6, <1>7
     DEF Next, Terminated, CommonStep, WriteStep

LEMMA CloserHolds == Spec => []CloserInv
<1>1. Init => CloserInv
  BY NotifiesAssumption DEF Init, CloserInv, Codes
<1> QED
  BY <1>1, CloserInductive, TypeCorrect, Fresh, PTL DEF Spec

-----------------------------------------------------------------------------
(* A step of the worker is a step of the connection, or none.              *)
LEMMA StepRefines ==
    ASSUME TypeOK, DrainInv, CancelInv, CloserInv, [Next]_vars
    PROVE  [Conn!Next]_(Conn!vars)
<1>0. /\ pc \in [Procs -> Labels] /\ code \in [Procs -> Codes]
      /\ Loop \in Procs /\ Loop \notin Notifies /\ Notifies \subseteq Procs
      /\ inflight \subseteq Notifies
      /\ closer \in Procs \cup {"none", "agent", "closed"}
      /\ Procs \cap {"none", "agent", "closed"} = {}
      /\ cancelled \in BOOLEAN
  BY NotifiesAssumption DEF Procs, TypeOK, Codes
<1> USE <1>0
<1> DEFINE Still == UNCHANGED <<closer, cancelled, shutdown>>
(* Steps that the connection does not show.                                *)
<1>q. ASSUME UNCHANGED <<inflight, closer, cancelled>>, Stage' = Stage,
             shuttingDown' = shuttingDown,
             (shutdown' \notin {"no", "done"}) = (shutdown \notin {"no", "done"})
      PROVE  UNCHANGED Conn!vars
  BY <1>q DEF Conn!vars, Closer
(* Steps of a read loop that is serving and goes on, drains, leaves, or    *)
(* is about to report an error.                                            *)
<1>l. ASSUME UNCHANGED inflight, Still, Stage = "serving",
             \/ Stage' = "serving"
             \/ Stage' = "closing"
             \/ Stage' = "draining" /\ shuttingDown
      PROVE  [Conn!Next]_(Conn!vars)
  <2>1. CASE Stage' = "serving"
    BY <1>l, <1>q, <2>1 DEF shuttingDown
  <2>2. CASE Stage' = "closing"
    BY <1>l, <2>2 DEF Conn!Next, Conn!Leave, Closer, shuttingDown
  <2>3. CASE Stage' = "draining" /\ shuttingDown
    BY <1>l, <2>3 DEF Conn!Next, Conn!Drain, Closer, shuttingDown
  <2> QED
    BY <1>l, <2>1, <2>2, <2>3
<1>s. ASSUME cur \in Notifies, StartHandler(cur), Still, Stage = "serving"
      PROVE  [Conn!Next]_(Conn!vars)
  <2>1. Stage' = "serving" /\ inflight' # {}
    BY <1>s DEF StartHandler, Stage, Goodbye
  <2>2. CASE inflight = {}
    BY <1>s, <2>1, <2>2 DEF Conn!Next, Conn!StartHandler, Closer, shuttingDown
  <2>3. CASE inflight # {}
    BY <1>s, <2>1, <2>3 DEF Conn!vars, Closer, shuttingDown
  <2> QED
    BY <2>2, <2>3
<1> USE DEF loopVars, lockVars, workVars, inVars, Goto, Fail
<1>1. CASE LoopStep
  <2> USE DEF Stage, Goodbye
  <2>1. CASE AcquireFrame \/ ArmDeadline \/ RecheckDone \/ ExpireDeadline
    BY <2>1, <1>l DEF AcquireFrame, ArmDeadline, RecheckDone, ExpireDeadline, SetReadDeadline
  <2>2. CASE ReadFrame
    BY <2>2, <1>l DEF ReadFrame
  <2>3. CASE ReadDeadline \/ ReadEOF \/ ReadError
    BY <2>3, <1>l DEF ReadDeadline, ReadEOF, ReadError, ReadFails
  <2>4. CASE ClassifyDeadline
    BY <2>4, <1>l DEF ClassifyDeadline
  <2>5. CASE DispatchHello
    BY <2>5, <1>l DEF DispatchHello
  <2>6. CASE DispatchDisconnect
    BY <2>6, <1>l DEF DispatchDisconnect
  <2>7. CASE DispatchNotify
    BY <2>7, <1>l, <1>s DEF DispatchNotify, LookAtDone
  <2>8. CASE AcquireSlot
    BY <2>8, <1>l, <1>s DEF AcquireSlot, TypeOK
  <2>9. CASE SlotGranted
    BY <2>9, <1>s DEF SlotGranted, TypeOK
  (* drain's wait is over, and its goodbye still belongs to the drain.     *)
  <2>10. CASE Drain
    <3>1. Stage = "draining" /\ Stage' = "draining" /\ UNCHANGED inflight /\ Still
      BY <2>10 DEF Drain
    <3> QED
      BY <3>1, <1>q DEF shuttingDown
  <2>11. CASE Cancel
    <3>1. /\ Stage = "cancelling" /\ Stage' = "returned" /\ cancelled' = TRUE
          /\ UNCHANGED <<inflight, closer, shutdown>>
      BY <2>11 DEF Cancel
    <3> HIDE DEF Stage
    <3> QED
      BY <3>1 DEF Conn!Next, Conn!Cancel, Closer, shuttingDown
  <2> QED
    BY <1>1, <2>1, <2>2, <2>3, <2>4, <2>5, <2>6, <2>7, <2>8, <2>9, <2>10, <2>11 DEF LoopStep
(* The loop on its way through disconnect: it goes on with its goodbye, or *)
(* is done with it, and if it is the drain's nothing is in flight.         *)
<1>g. ASSUME pc[Loop] \in Goodbye, pc'[Loop] \in Goodbye \cup {"close"},
             UNCHANGED <<code, inflight>>, Still
      PROVE  [Conn!Next]_(Conn!vars)
  <2>1. Stage = "draining" => inflight = {}
    BY <1>g DEF Stage, Goodbye, DrainInv
  <2>2. Stage \in {"serving", "draining"}
    BY <1>g DEF Stage, Goodbye
  <2>3. CASE pc'[Loop] = "close"
    <3>1. Stage' = "closing"
      BY <2>3 DEF Stage
    <3> QED
      BY <1>g, <2>1, <2>2, <3>1 DEF Conn!Next, Conn!Leave, Closer, shuttingDown
  <2>4. CASE pc'[Loop] \in Goodbye
    <3>1. Stage' = Stage
      BY <1>g, <2>4 DEF Stage, Goodbye
    <3> QED
      BY <1>g, <3>1, <1>q DEF shuttingDown
  <2> QED
    BY <1>g, <2>3, <2>4
<1>2. CASE DisconnectOnce(Loop) \/ LockDisconnect(Loop) \/ WriteDisconnect(Loop)
  BY <1>2, <1>g DEF DisconnectOnce, LockDisconnect, WriteDisconnect, AfterDisconnect, Goodbye
<1>3. CASE Close(Loop)
  <2>1. pc[Loop] = "close" /\ UNCHANGED <<code, inflight, cancelled, shutdown>>
    BY <1>3 DEF Close
  <2>2. CASE closer = "none" /\ closer' = Loop /\ UNCHANGED pc
    <3>1. Stage = "closing" /\ Stage' = Stage /\ Closer = "none" /\ Closer' = "worker"
      BY <2>1, <2>2 DEF Stage, Closer
    <3> QED
      BY <2>1, <3>1 DEF Conn!Next, Conn!RaiseFlag, shuttingDown
  <2>3. CASE closer # "none" /\ pc'[Loop] = "cancel"
               /\ closer' = IF closer = Loop THEN "closed" ELSE closer
    <3>1. /\ Stage = "closing" /\ Stage' = "cancelling" /\ Closer # "none"
          /\ Closer' = IF Closer = "worker" THEN "closed" ELSE Closer
      BY <2>1, <2>3 DEF Stage, Closer, Procs
    <3> QED
      BY <2>1, <3>1 DEF Conn!Next, Conn!Close, shuttingDown
  <2> QED
    BY <1>3, <2>2, <2>3 DEF Close
(* NOTIFY goroutines leave the loop's stage alone.                         *)
<1>n. ASSUME pc'[Loop] = pc[Loop], code'[Loop] = code[Loop]
      PROVE  Stage' = Stage
  BY <1>n DEF Stage
<1>4. ASSUME NEW n \in Notifies,
             \/ DisconnectOnce(n) \/ LockDisconnect(n) \/ WriteDisconnect(n)
             \/ LockAck(n) \/ WriteAck(n) \/ HandlerReturn(n)
      PROVE  [Conn!Next]_(Conn!vars)
  <2>1. pc'[Loop] = pc[Loop] /\ code'[Loop] = code[Loop] /\ UNCHANGED inflight /\ Still
    BY <1>4 DEF DisconnectOnce, LockDisconnect, WriteDisconnect, AfterDisconnect,
                LockAck, WriteAck, HandlerReturn
  <2> QED
    BY <2>1, <1>n, <1>q DEF shuttingDown
(* A goroutine that closes the connection has not been counted out.        *)
<1>5. ASSUME NEW n \in Notifies, Close(n) PROVE [Conn!Next]_(Conn!vars)
  <2>1. /\ pc[n] = "close" /\ pc'[Loop] = pc[Loop]
        /\ UNCHANGED <<code, inflight, cancelled, shutdown>>
        /\ \/ closer = "none" /\ closer' = n
           \/ closer = n /\ closer' = "closed"
           \/ closer' = closer
    BY <1>5 DEF Close
  <2>2. inflight # {}
    BY <2>1 DEF DrainInv
  <2>3. CASE closer = "none" /\ closer' = n
    <3>1. Closer = "none" /\ Closer' = "handler"
      BY <2>3 DEF Closer
    <3> QED
      BY <2>1, <2>2, <3>1, <1>n DEF Conn!Next, Conn!HandlerFlag, shuttingDown
  <2>4. CASE closer = n /\ closer' = "closed"
    <3>1. Closer = "handler" /\ Closer' = "closed"
      BY <2>4 DEF Closer
    <3> QED
      BY <2>1, <3>1, <1>n DEF Conn!Next, Conn!HandlerClose, shuttingDown
  <2>5. CASE closer' = closer
    BY <2>1, <2>5, <1>n, <1>q DEF shuttingDown
  <2> QED
    BY <2>1, <2>3, <2>4, <2>5
<1>6. ASSUME NEW n \in Notifies, ReleaseSlot(n) PROVE [Conn!Next]_(Conn!vars)
  <2>1. /\ UNCHANGED <<code, inflight>> /\ Still
        /\ \/ pc'[Loop] = pc[Loop]
           \/ pc[Loop] = "parked" /\ pc'[Loop] = "granted"
    BY <1>6 DEF ReleaseSlot, LoopParked
  <2>2. Stage' = Stage
    BY <2>1 DEF Stage, Goodbye
  <2> QED
    BY <2>1, <2>2, <1>q DEF shuttingDown
<1>7. ASSUME NEW n \in Notifies, InflightDone(n) PROVE [Conn!Next]_(Conn!vars)
  <2>1. pc[n] = "finish" /\ pc'[Loop] = pc[Loop] /\ inflight' = inflight \ {n}
        /\ UNCHANGED code /\ Still
    BY <1>7 DEF InflightDone
  <2>2. inflight # {}
    BY <2>1 DEF DrainInv
  <2>3. CASE inflight' = {}
    <3>1. Closer # "handler"
      BY <2>1, <2>3 DEF Closer, CloserInv, DrainInv, Procs
    <3>2. Closer' = Closer
      BY <2>1 DEF Closer
    <3> QED
      BY <2>1, <2>2, <2>3, <3>1, <3>2, <1>n DEF Conn!Next, Conn!HandlersDone, shuttingDown
  <2>4. CASE inflight' # {}
    BY <2>1, <2>2, <2>4, <1>n DEF Conn!vars, Closer, shuttingDown
  <2> QED
    BY <2>3, <2>4
<1>8. CASE SendAgentHello
  BY <1>8, <1>l DEF SendAgentHello, Stage, Goodbye
<1>9. CASE Peer
  <2>1. UNCHANGED <<pc, code, inflight>> /\ Still
    BY <1>9 DEF Peer, PeerSend, PeerLeave
  <2> QED
    BY <2>1, <1>n, <1>q DEF shuttingDown
<1>10. CASE Shutdown
  <2>1. CASE CloseDone
    <3>1. /\ shutdown = "no" /\ shutdown' = "done"
          /\ UNCHANGED <<code, inflight, closer, cancelled>>
          /\ \/ pc'[Loop] = pc[Loop]
             \/ pc[Loop] = "parked" /\ pc'[Loop] = "drain"
      BY <2>1 DEF CloseDone
    <3>2. Stage' = Stage \/ (Stage = "serving" /\ Stage' = "draining")
      BY <3>1 DEF Stage, Goodbye
    <3> QED
      BY <3>1, <3>2 DEF Conn!Next, Conn!BeginDrain, Closer, shuttingDown
  <2>2. CASE Poke
    <3>1. /\ shutdown = "done" /\ shutdown' = "poked"
          /\ UNCHANGED <<pc, code, inflight, closer, cancelled>>
      BY <2>2 DEF Poke
    <3> QED
      BY <3>1, <1>n DEF Conn!Next, Conn!Poke, Closer, shuttingDown
  <2>3. CASE GraceCancel
    <3>1. /\ shutdown = "poked" /\ shutdown' = "cancelled" /\ cancelled' = TRUE
          /\ UNCHANGED <<pc, code, inflight, closer>>
      BY <2>3 DEF GraceCancel
    <3> QED
      BY <3>1, <1>n DEF Conn!Next, Conn!ForceCancel, Closer, shuttingDown
  <2>4. CASE GraceFlag
    <3>1. /\ shutdown = "cancelled" /\ shutdown' \in {"flagged", "closed"} /\ cancelled
          /\ UNCHANGED <<pc, code, inflight, cancelled>>
      BY <2>4 DEF GraceFlag, CancelInv
    <3>2. CASE closer = "none" /\ closer' = "agent"
      <4>1. Closer = "none" /\ Closer' = "agent"
        BY <3>2 DEF Closer
      <4> QED
        BY <3>1, <4>1, <1>n DEF Conn!Next, Conn!ForceFlag, shuttingDown
    <3>3. CASE closer' = closer
      BY <3>1, <3>3, <1>n, <1>q DEF shuttingDown
    <3> QED
      BY <2>4, <3>2, <3>3 DEF GraceFlag
  <2>5. CASE GraceClose
    <3>1. /\ shutdown = "flagged" /\ shutdown' = "closed"
          /\ UNCHANGED <<pc, code, inflight, cancelled>>
      BY <2>5 DEF GraceClose
    <3>2. Closer = "agent" /\ Closer' = "closed"
      BY <2>5, <3>1 DEF GraceClose, CloserInv, Closer
    <3> QED
      BY <3>1, <3>2, <1>n DEF Conn!Next, Conn!ForceClose, shuttingDown
  <2> QED
    BY <1>10, <2>1, <2>2, <2>3, <2>4, <2>5 DEF Shutdown
<1>11. CASE UNCHANGED vars
  <2>1. UNCHANGED <<pc, code, inflight>> /\ Still
    BY <1>11 DEF vars
  <2> QED
    BY <2>1, <1>n, <1>q DEF shuttingDown
<1>12. ASSUME NEW p \in Procs, CommonStep(p) PROVE [Conn!Next]_(Conn!vars)
  BY <1>2, <1>3, <1>4, <1>5, <1>12 DEF CommonStep, Procs
<1>13. ASSUME NEW n \in Notifies, NotifyStep(n) \/ HandlerReturn(n)
       PROVE  [Conn!Next]_(Conn!vars)
  BY <1>4, <1>6, <1>7, <1>13 DEF NotifyStep
<1>14. CASE WriteStep
  BY <1>2, <1>4, <1>8, <1>14 DEF WriteStep, Procs
<1> QED
  BY <1>1, <1>9, <1>10, <1>11, <1>12, <1>13, <1>14 DEF Next, Terminated

(* The worker implements the connection the agent counts on, down to who   *)
(* raises the closed flag, who closes the socket after it, and who finds   *)
(* the flag up and goes on while the socket is still open.                 *)
THEOREM WorkerIsConnection == Spec => ImplementsConnection
<1>1. Init => Conn!Init
  BY NotifiesAssumption
     DEF Init, Conn!Init, Stage, Closer, Goodbye, shuttingDown, Procs, Codes
<1>2. TypeOK /\ DrainInv /\ CancelInv /\ CloserInv /\ [Next]_vars
         => [Conn!Next]_(Conn!vars)
  BY StepRefines
<1> QED
  BY <1>1, <1>2, DrainHolds, TypeCorrect, CancelFirst, CloserHolds, PTL
     DEF Spec, ImplementsConnection, Conn!Spec

=============================================================================
