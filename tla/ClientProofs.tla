---------------------------- MODULE ClientProofs ----------------------------
(***************************************************************************)
(* What a nil from client.Notify means, for any number of NOTIFYs and      *)
(* control frames, every in-flight limit and every choice of timeouts.     *)
(* The client asks one thing at a time and the agent answers each once, so *)
(* until a goodbye or a close the next frame is the answer to the call     *)
(* that waits; and after them there are no more ACKs.                      *)
(***************************************************************************)
EXTENDS Client, WorkerProofs

USE ZenonT(2), SMTT(60), SMTT(59) DEF Loop, AfterClose, SocketClosed

(* The read loop has a frame in hand, and a goroutine an ACK to write.     *)
Holding == pc[Loop] \in {"dispatch", "hello", "select", "parked", "granted"}
Answering(n) == pc[n] \in {"handler", "ackLock", "ackWrite"}

(* The worker neither closed the socket nor said goodbye.                  *)
Live == ~goodbyeSent /\ ~SocketClosed

WorkerInv == TypeOK /\ FreshInv /\ GoodbyeInv

ClientTypes ==
    /\ call \in Requests \cup {"none"}
    /\ got \in Nat /\ got <= Len(wire)
    /\ returned \in Seq([call : Requests, reply : WireFrames \cup {Nothing}])

(* Before the handshake there is only the read loop: no goroutine, and no  *)
(* goodbye from anyone else.                                               *)
StartInv ==
    /\ ~ready => \A n \in Notifies : pc[n] = "idle"
    /\ ~ready /\ goodbyeSent => pc[Loop] \in {"writeDisc", "close", "cancel", "end"}
    /\ pc[Loop] = "hello" => ~ready /\ cur \in {"hello", "health"}
    /\ pc[Loop] \in {"select", "parked", "granted"} => ready

(* One thing at a time: what the client sent is in one place, in the       *)
(* stream, in the loop's hand, with a goroutine or answered, and its call  *)
(* waits.                                                                  *)
TurnInv ==
    Live =>
        /\ \A n \in Notifies : Answering(n) => call = n /\ got = Len(wire) /\ stream = <<>>
        /\ Holding => call = cur /\ call # "none" /\ got = Len(wire) /\ stream = <<>>
        /\ stream # <<>> => stream = <<call>> /\ call # "none" /\ got = Len(wire)
        /\ got # Len(wire) => got + 1 = Len(wire) /\ call # "none"

(* The handshake, as the client saw it.                                    *)
HelloSeen == \E j \in 1 .. Len(returned) : Ok(j) /\ returned[j].call = "hello"

(* An answer on its way is the next frame and for the call that waits; and *)
(* nothing is unread at the agent's end that would make a close lose it.   *)
AnswerInv ==
    \A i \in got + 1 .. Len(wire) :
        /\ wire[i].type = "ack" =>
              /\ i = got + 1 /\ call = wire[i].arg /\ call \in Notifies
              /\ stream = <<>> /\ HelloSeen
        /\ wire[i].type = "hello" => i = got + 1 /\ call = "hello" /\ stream = <<>>

SeenInv == ready => HelloSeen \/ (got < Len(wire) /\ wire[got + 1].type = "hello")

(* A goodbye the client has seen was on the wire.                          *)
ReadInv ==
    \A j \in 1 .. Len(returned) : returned[j].reply.type = "disc" =>
        \E k \in 1 .. got : wire[k].type = "disc"

ClientInv ==
    /\ WorkerInv /\ ClientTypes /\ StartInv /\ TurnInv /\ AnswerInv /\ SeenInv /\ ReadInv
    /\ OwnAck

-----------------------------------------------------------------------------
(* A step of the session is one of the worker's, except that a write that  *)
(* fails is counted among the control frames.                              *)
LEMMA WorkerKept == ASSUME WorkerInv, [SessionNext]_sessionVars PROVE WorkerInv'
<1>1. ASSUME [Next]_vars PROVE WorkerInv'
  BY <1>1, TypeInductive, FreshInductive, GoodbyeInductive DEF WorkerInv
<1>2. ASSUME NEW f \in Requests, SendFails(f) PROVE WorkerInv'
  <2>1. /\ UNCHANGED <<pc, code, loopVars, workVars, lockVars, closer, cancelled,
                       stream, buffered, peer, shutdown, wire, late>>
    BY <1>2, Zenon DEF SendFails
  <2>2. control' \in 0 .. MaxControl
    BY <1>2, LimitsAssumption DEF SendFails, WorkerInv, TypeOK
  <2>3. TypeOK'
    BY <2>1, <2>2 DEF WorkerInv, TypeOK, loopVars, workVars, lockVars
  <2>4. FreshInv' /\ GoodbyeInv'
    BY <2>1, Zenon DEF WorkerInv, FreshInv, GoodbyeInv, NoAckAfterGoodbye, loopVars, lockVars
  <2> QED
    BY <2>3, <2>4 DEF WorkerInv
<1>3. ASSUME NEW f \in Requests, Send(f) PROVE WorkerInv'
  <2>1. f \in Frames /\ PeerSend(f)
    BY <1>3 DEF Send, Requests, Frames, Control
  <2> QED
    BY <2>1, <1>1 DEF Next, Peer
<1>4. CASE Receive \/ ReceiveFails \/ UNCHANGED sessionVars
  <2>1. UNCHANGED vars
    BY <1>4, Zenon DEF Receive, ReceiveFails, sessionVars
  <2> QED
    BY <2>1, <1>1
<1>5. CASE WorkerStep
  BY <1>5, <1>1, Zenon DEF WorkerStep, Next
<1> QED
  BY <1>2, <1>3, <1>4, <1>5 DEF SessionNext

LEMMA StartKept ==
    ASSUME TypeOK, FreshInv, GoodbyeInv, StartInv, WorkerStep PROVE StartInv'
<1>0. /\ pc \in [Procs -> Labels]
      /\ Loop \in Procs /\ Loop \notin Notifies /\ Notifies \subseteq Procs
  BY NotifiesAssumption DEF Procs, TypeOK
<1> USE <1>0 DEF loopVars, lockVars, workVars, inVars, Goto, Fail, AfterDisconnect
<1>1. CASE AcquireFrame \/ ArmDeadline \/ RecheckDone \/ ExpireDeadline
  BY <1>1 DEF AcquireFrame, ArmDeadline, RecheckDone, ExpireDeadline, SetReadDeadline, StartInv
<1>2. CASE ReadFrame \/ ReadDeadline \/ ReadEOF \/ ReadError
  BY <1>2 DEF ReadFrame, ReadDeadline, ReadEOF, ReadError, ReadFails, StartInv
<1>3. CASE ClassifyDeadline \/ DispatchDisconnect
  BY <1>3 DEF ClassifyDeadline, DispatchDisconnect, StartInv
<1>4. CASE DispatchHello
  BY <1>4 DEF DispatchHello, StartInv
<1>5. CASE DispatchNotify
  BY <1>5 DEF DispatchNotify, StartHandler, LookAtDone, StartInv
<1>6. CASE AcquireSlot \/ SlotGranted
  BY <1>6 DEF AcquireSlot, SlotGranted, StartHandler, StartInv, TypeOK
<1>7. CASE Drain \/ Cancel
  BY <1>7 DEF Drain, Cancel, StartInv
<1>8. ASSUME NEW p \in Procs, CommonStep(p) PROVE StartInv'
  BY <1>8 DEF CommonStep, DisconnectOnce, LockDisconnect, Close, StartInv, Procs
<1>9. ASSUME NEW n \in Notifies, NotifyStep(n) \/ HandlerReturn(n) PROVE StartInv'
  BY <1>9 DEF NotifyStep, LockAck, ReleaseSlot, LoopParked, InflightDone, HandlerReturn, StartInv
<1>10. CASE SendAgentHello
  BY <1>10 DEF SendAgentHello, StartInv
<1>11. ASSUME NEW p \in Procs, WriteDisconnect(p) PROVE StartInv'
  BY <1>11 DEF WriteDisconnect, StartInv, Procs
<1>12. ASSUME NEW n \in Notifies, WriteAck(n) PROVE StartInv'
  BY <1>12 DEF WriteAck, StartInv
<1>13. CASE Shutdown
  BY <1>13 DEF Shutdown, CloseDone, Poke, GraceCancel, GraceFlag, GraceClose, StartInv
<1>14. CASE Terminated
  BY <1>14 DEF Terminated, vars, StartInv
<1> QED
  BY <1>1, <1>2, <1>3, <1>4, <1>5, <1>6, <1>7, <1>8, <1>9, <1>10, <1>11, <1>12, <1>13, <1>14
     DEF WorkerStep, LoopStep, WriteStep

-----------------------------------------------------------------------------
(* What the worker's steps are to the client.  Most of them are nothing:   *)
(* no frame comes in or goes out, and nobody has more to answer than       *)
(* before.  A goroutine is started for the frame in the loop's hand.       *)
Quiet ==
    /\ UNCHANGED <<stream, wire, ready>>
    /\ Live' => Live
    /\ Holding' => Holding /\ cur' = cur
    /\ \A n \in Notifies : Answering(n)' => Answering(n)

Starts ==
    /\ Holding /\ ~Holding' /\ cur \in Notifies
    /\ \A n \in Notifies : Answering(n)' => Answering(n) \/ n = cur
    /\ UNCHANGED <<stream, wire, ready, goodbyeSent, closer>>

LEMMA QuietSteps ==
    ASSUME TypeOK, WorkerStep PROVE Quiet \/ Starts \/ ReadFrame \/ WriteStep
<1>0. /\ pc \in [Procs -> Labels]
      /\ Loop \in Procs /\ Loop \notin Notifies /\ Notifies \subseteq Procs
  BY NotifiesAssumption DEF Procs, TypeOK
<1> USE <1>0 DEF loopVars, lockVars, workVars, inVars, Goto, Fail, AfterDisconnect,
                 Holding, Answering, Live
<1>s. ASSUME cur \in Notifies, StartHandler(cur), Holding,
             UNCHANGED <<stream, wire, ready, goodbyeSent, closer>>
      PROVE  Starts
  BY <1>s DEF StartHandler, Starts
<1>1. CASE AcquireFrame \/ ArmDeadline \/ RecheckDone \/ ExpireDeadline
  BY <1>1 DEF AcquireFrame, ArmDeadline, RecheckDone, ExpireDeadline, SetReadDeadline, Quiet
<1>2. CASE ReadDeadline \/ ReadEOF \/ ReadError
  BY <1>2 DEF ReadDeadline, ReadEOF, ReadError, ReadFails, Quiet
<1>3. CASE ClassifyDeadline \/ DispatchDisconnect
  BY <1>3 DEF ClassifyDeadline, DispatchDisconnect, Quiet
<1>4. CASE DispatchHello
  BY <1>4 DEF DispatchHello, Quiet
<1>5. CASE DispatchNotify
  BY <1>5, <1>s DEF DispatchNotify, LookAtDone, Quiet
<1>6. CASE AcquireSlot \/ SlotGranted
  BY <1>6, <1>s DEF AcquireSlot, SlotGranted, Quiet, TypeOK
<1>7. CASE Drain \/ Cancel
  BY <1>7 DEF Drain, Cancel, Quiet
<1>8. ASSUME NEW p \in Procs, CommonStep(p) PROVE Quiet
  BY <1>8 DEF CommonStep, DisconnectOnce, LockDisconnect, Close, Quiet, Procs
<1>9. ASSUME NEW n \in Notifies, NotifyStep(n) \/ HandlerReturn(n) PROVE Quiet
  BY <1>9 DEF NotifyStep, LockAck, ReleaseSlot, LoopParked, InflightDone, HandlerReturn, Quiet
<1>10. CASE Shutdown
  BY <1>10 DEF Shutdown, CloseDone, Poke, GraceCancel, GraceFlag, GraceClose, Quiet
<1>11. CASE Terminated
  BY <1>11 DEF Terminated, vars, Quiet
<1> QED
  BY <1>1, <1>2, <1>3, <1>4, <1>5, <1>6, <1>7, <1>8, <1>9, <1>10, <1>11
     DEF WorkerStep, LoopStep

(* The writes.  An AGENT-HELLO goes out while the loop holds the HELLO, a  *)
(* goodbye once the latch is set, an ACK before that.                      *)
SaysHello ==
    /\ Holding /\ ~Holding' /\ ~ready /\ ~goodbyeSent /\ cur \in {"hello", "health"}
    /\ \A n \in Notifies : Answering(n)' = Answering(n)
    /\ UNCHANGED <<stream, goodbyeSent, closer>>
    /\ \/ UNCHANGED <<wire, ready>>
       \/ ~SocketClosed /\ wire' = Append(wire, Frame("part", "none")) /\ UNCHANGED ready
       \/ ~SocketClosed /\ wire' = Append(wire, AgentHello)

SaysGoodbye ==
    /\ goodbyeSent /\ goodbyeSent'
    /\ UNCHANGED <<stream, ready>>
    /\ \/ UNCHANGED wire
       \/ \E a : wire' = Append(wire, Frame("disc", a))
       \/ wire' = Append(wire, Frame("part", "none"))

Acknowledges(n) ==
    /\ Answering(n) /\ ~Answering(n)' /\ ~goodbyeSent
    /\ \A k \in Notifies \ {n} : Answering(k)' = Answering(k)
    /\ Holding' = Holding
    /\ UNCHANGED <<stream, ready, cur, goodbyeSent, closer>>
    /\ \/ UNCHANGED wire
       \/ ~SocketClosed /\ wire' = Append(wire, Frame("part", "none"))
       \/ ~SocketClosed /\ wire' = Append(wire, Frame("ack", n))

LEMMA Writes ==
    ASSUME TypeOK, GoodbyeInv, StartInv, WriteStep
    PROVE  SaysHello \/ SaysGoodbye \/ \E n \in Notifies : Acknowledges(n)
<1>0. /\ pc \in [Procs -> Labels]
      /\ Loop \in Procs /\ Loop \notin Notifies /\ Notifies \subseteq Procs
  BY NotifiesAssumption DEF Procs, TypeOK
<1> USE <1>0 DEF loopVars, lockVars, workVars, inVars, Goto, Fail, AfterDisconnect,
                 Holding, Answering, WriteOk, WriteError
<1>1. CASE SendAgentHello
  <2>1. ~ready /\ cur \in {"hello", "health"} /\ ~goodbyeSent
    BY <1>1 DEF SendAgentHello, StartInv
  <2> QED
    BY <1>1, <2>1 DEF SendAgentHello, SaysHello
<1>2. ASSUME NEW p \in Procs, WriteDisconnect(p) PROVE SaysGoodbye
  BY <1>2 DEF WriteDisconnect, GoodbyeInv, SaysGoodbye
<1>3. ASSUME NEW n \in Notifies, WriteAck(n) PROVE Acknowledges(n)
  <2>1. ~goodbyeSent
    BY <1>3 DEF WriteAck, GoodbyeInv
  <2> QED
    BY <1>3, <2>1 DEF WriteAck, Acknowledges
<1> QED
  BY <1>1, <1>2, <1>3 DEF WriteStep

-----------------------------------------------------------------------------
(* A NOTIFY is none of the names that stand for something else.            *)
LEMMA Names ==
    /\ "none" \notin Notifies /\ "none" \notin Requests
    /\ "hello" \notin Notifies /\ "health" \notin Requests /\ "health" \notin Notifies
  BY NotifiesAssumption DEF Requests, Control, Codes

LEMMA TurnByWorker ==
    ASSUME WorkerInv, StartInv, ClientTypes, TurnInv, WorkerStep PROVE TurnInv'
<1> SUFFICES ASSUME Live' PROVE TurnInv'
  BY DEF TurnInv
<1>c. UNCHANGED <<call, got, returned>>
  BY DEF WorkerStep, clientVars
<1>t. TypeOK /\ FreshInv /\ GoodbyeInv /\ Len(wire) \in Nat /\ got \in Nat
  BY DEF WorkerInv, TypeOK, ClientTypes
<1>1. CASE Quiet
  BY <1>c, <1>1 DEF Quiet, TurnInv
<1>2. CASE Starts
  BY <1>c, <1>2 DEF Starts, TurnInv, Live
<1>3. CASE ReadFrame
  <2>1. /\ stream # <<>> /\ stream' = Tail(stream) /\ UNCHANGED <<wire, goodbyeSent, closer>>
        /\ Holding' => cur' = Head(stream)
        /\ \A n \in Notifies : pc'[n] = pc[n]
    BY <1>3, NotifiesAssumption
       DEF ReadFrame, Holding, lockVars, Goto, Fail, WorkerInv, TypeOK, Procs
  <2>2. Live
    BY <2>1 DEF Live
  <2>3. stream = <<call>> /\ call # "none" /\ got = Len(wire)
    BY <2>1, <2>2 DEF TurnInv
  <2>4. stream' = <<>> /\ Head(stream) = call
    BY <2>1, <2>3
  <2>5. \A n \in Notifies : ~Answering(n)'
    BY <2>1, <2>2 DEF TurnInv, Answering
  <2> QED
    BY <1>c, <2>1, <2>3, <2>4, <2>5 DEF TurnInv
<1>4. CASE SaysHello
  <2>1. Live
    BY <1>4 DEF SaysHello, Live
  <2>2. call = cur /\ call # "none" /\ got = Len(wire) /\ stream = <<>>
    BY <1>4, <2>1 DEF SaysHello, TurnInv
  <2>3. \A n \in Notifies : ~Answering(n)'
    BY <1>4, <2>1, <2>2, Names DEF SaysHello, TurnInv
  <2>4. Len(wire') \in {Len(wire), Len(wire) + 1}
    BY <1>4, <1>t, WireGrows DEF SaysHello
  <2>5. got # Len(wire') => got + 1 = Len(wire')
    BY <2>2, <2>4
  <2> QED
    BY <1>c, <1>4, <2>2, <2>3, <2>5 DEF SaysHello, TurnInv
<1>5. CASE SaysGoodbye
  BY <1>5 DEF SaysGoodbye, Live
<1>6. ASSUME NEW n \in Notifies, Acknowledges(n) PROVE TurnInv'
  <2>1. Live
    BY <1>6 DEF Acknowledges, Live
  <2>2. call = n /\ got = Len(wire) /\ stream = <<>>
    BY <1>6, <2>1 DEF Acknowledges, TurnInv
  <2>3. \A k \in Notifies : ~Answering(k)'
    BY <1>6, <2>1, <2>2 DEF Acknowledges, TurnInv
  <2>4. ~Holding'
    BY <1>6, <1>t, <2>1, <2>2 DEF Acknowledges, TurnInv, FreshInv, Answering
  <2>5. Len(wire') \in {Len(wire), Len(wire) + 1}
    BY <1>6, <1>t, WireGrows DEF Acknowledges
  <2>6. got # Len(wire') => got + 1 = Len(wire')
    BY <2>2, <2>5
  <2> QED
    BY <1>c, <1>6, <2>2, <2>3, <2>4, <2>6, Names DEF Acknowledges, TurnInv
<1> QED
  BY <1>t, <1>1, <1>2, <1>3, <1>4, <1>5, <1>6, QuietSteps, Writes

LEMMA TurnByClient ==
    ASSUME WorkerInv, ClientTypes, TurnInv,
           (\E f \in Requests : Send(f) \/ SendFails(f)) \/ Receive \/ ReceiveFails
    PROVE  TurnInv'
<1> SUFFICES ASSUME Live' PROVE TurnInv'
  BY DEF TurnInv
<1>t. Len(wire) \in Nat /\ got \in Nat /\ stream \in Seq(Frames)
  BY DEF WorkerInv, TypeOK, ClientTypes
<1>1. ASSUME NEW f \in Requests, Send(f) PROVE TurnInv'
  <2>1. /\ call = "none" /\ call' = f /\ stream' = Append(stream, f)
        /\ UNCHANGED <<pc, cur, wire, goodbyeSent, closer, got>>
    BY <1>1, Zenon DEF Send, PeerSend, loopVars, lockVars
  <2>2. Live
    BY <2>1 DEF Live
  <2>3. (\A n \in Notifies : ~Answering(n)) /\ ~Holding /\ stream = <<>> /\ got = Len(wire)
    BY <2>1, <2>2, Names DEF TurnInv
  <2>4. (\A n \in Notifies : ~Answering(n)') /\ ~Holding' /\ stream' = <<f>>
    BY <2>1, <2>3 DEF Answering, Holding
  <2> QED
    BY <2>1, <2>3, <2>4, Names DEF TurnInv
<1>2. CASE Receive
  <2>1. /\ got < Len(wire) /\ got' = got + 1
        /\ UNCHANGED <<pc, cur, wire, stream, goodbyeSent, closer>>
    BY <1>2 DEF Receive, vars, loopVars, lockVars, inVars
  <2>2. Live
    BY <2>1 DEF Live
  <2>3. got # Len(wire) /\ got' = Len(wire)
    BY <1>t, <2>1, <2>2 DEF TurnInv
  <2>4. (\A n \in Notifies : ~Answering(n)) /\ ~Holding /\ stream = <<>>
    BY <2>2, <2>3 DEF TurnInv
  <2>5. (\A n \in Notifies : ~Answering(n)') /\ ~Holding'
    BY <2>1, <2>4, Zenon DEF Answering, Holding
  <2> QED
    BY <2>1, <2>3, <2>4, <2>5 DEF TurnInv
<1>3. ASSUME NEW f \in Requests, SendFails(f) PROVE FALSE
  BY <1>3 DEF SendFails, Live
<1>4. CASE ReceiveFails
  BY <1>4 DEF ReceiveFails, vars, Live
<1> QED
  BY <1>1, <1>2, <1>3, <1>4

-----------------------------------------------------------------------------
(* A return adds to what came back and changes none of it.                 *)
LEMMA Returns ==
    ASSUME ClientTypes, NEW f, NEW r, Return(f, r)
    PROVE  /\ Len(returned) \in Nat /\ Len(returned') = Len(returned) + 1
           /\ \A j \in 1 .. Len(returned) : returned'[j] = returned[j]
           /\ returned'[Len(returned) + 1] = [call |-> f, reply |-> r]
           /\ HelloSeen => HelloSeen'
<1>1. /\ Len(returned) \in Nat /\ Len(returned') = Len(returned) + 1
      /\ \A j \in 1 .. Len(returned) : returned'[j] = returned[j]
      /\ returned'[Len(returned) + 1] = [call |-> f, reply |-> r]
  BY DEF ClientTypes, Return
<1>2. ASSUME NEW j \in 1 .. Len(returned), Ok(j) /\ returned[j].call = "hello"
      PROVE  j \in 1 .. Len(returned') /\ Ok(j)' /\ returned'[j].call = "hello"
  <2>1. j \in 1 .. Len(returned') /\ returned'[j] = returned[j]
    BY <1>1
  <2> QED
    BY <1>2, <2>1, Zenon DEF Ok, Expected
<1> QED
  BY <1>1, <1>2, Zenon DEF HelloSeen

(* The wire after a step of the worker: as it was, or longer by a frame.   *)
LEMMA WireKept ==
    ASSUME TypeOK, wire' = wire \/ \E f : wire' = Append(wire, f)
    PROVE  /\ Len(wire) \in Nat /\ Len(wire') \in {Len(wire), Len(wire) + 1}
           /\ \A i \in 1 .. Len(wire) : wire'[i] = wire[i]
<1>1. CASE wire' = wire
  BY <1>1 DEF TypeOK
<1>2. ASSUME NEW f, wire' = Append(wire, f)
      PROVE  /\ Len(wire) \in Nat /\ Len(wire') = Len(wire) + 1
             /\ \A i \in 1 .. Len(wire) : wire'[i] = wire[i]
  BY <1>2, WireGrows
<1> QED
  BY <1>1, <1>2 DEF TypeOK

LEMMA WorkerWire ==
    ASSUME TypeOK, GoodbyeInv, StartInv, WorkerStep
    PROVE  wire' = wire \/ \E f : wire' = Append(wire, f)
<1>1. ReadFrame => wire' = wire
  BY DEF ReadFrame
<1> QED
  BY <1>1, QuietSteps, Writes, Zenon DEF Quiet, Starts, SaysHello, SaysGoodbye, Acknowledges

LEMMA AnswerByWorker ==
    ASSUME WorkerInv, StartInv, ClientTypes, TurnInv, AnswerInv, SeenInv, WorkerStep
    PROVE  AnswerInv'
<1>c. UNCHANGED <<call, got, returned>> /\ HelloSeen' = HelloSeen
  BY Zenon DEF WorkerStep, clientVars, HelloSeen, Ok
<1>t. /\ TypeOK /\ GoodbyeInv /\ Len(wire) \in Nat /\ got \in Nat /\ got <= Len(wire)
      /\ call \in Requests \cup {"none"}
  BY DEF WorkerInv, TypeOK, ClientTypes
(* A frame that is no answer changes nothing.                              *)
<1>q. ASSUME UNCHANGED stream,
             wire' = wire \/ \E f : wire' = Append(wire, f) /\ f.type \notin {"ack", "hello"}
      PROVE  AnswerInv'
  <2>1. CASE wire' = wire
    BY <1>c, <1>q, <2>1, Zenon DEF AnswerInv
  <2>2. ASSUME NEW f, wire' = Append(wire, f), f.type \notin {"ack", "hello"}
        PROVE  AnswerInv'
    <3>1. /\ Len(wire') = Len(wire) + 1 /\ wire'[Len(wire')] = f
          /\ \A i \in 1 .. Len(wire) : wire'[i] = wire[i]
      BY <1>t, <2>2, WireGrows
    <3>2. ASSUME NEW i \in got + 1 .. Len(wire'), wire'[i].type \in {"ack", "hello"}
          PROVE  i \in got + 1 .. Len(wire) /\ wire'[i] = wire[i]
      BY <1>t, <2>2, <3>1, <3>2
    <3> QED
      BY <1>c, <1>q, <3>2 DEF AnswerInv
  <2> QED
    BY <1>q, <2>1, <2>2
<1>1. CASE Quiet \/ Starts
  BY <1>1, <1>q DEF Quiet, Starts
<1>2. CASE ReadFrame
  <2>1. stream # <<>> /\ UNCHANGED wire
    BY <1>2 DEF ReadFrame
  <2> QED
    BY <1>c, <2>1 DEF AnswerInv
<1>3. CASE SaysHello
  <2>1. CASE \/ UNCHANGED wire
             \/ wire' = Append(wire, Frame("part", "none"))
    BY <1>3, <1>q, <2>1 DEF SaysHello, Frame
  <2>2. CASE ~SocketClosed /\ wire' = Append(wire, AgentHello)
    <3>1. call = cur /\ got = Len(wire) /\ stream = <<>>
      BY <1>3, <2>2 DEF SaysHello, TurnInv, Live
    <3>2. call = "hello" /\ stream' = <<>>
      BY <1>3, <1>t, <3>1, Names DEF SaysHello
    <3>3. Len(wire') = got + 1 /\ wire'[got + 1] = AgentHello
      BY <1>t, <2>2, <3>1, WireGrows
    <3>4. AgentHello.type = "hello" /\ (got + 1 .. got + 1) = {got + 1}
      BY <1>t DEF AgentHello, Frame
    <3> QED
      BY <1>c, <3>2, <3>3, <3>4 DEF AnswerInv
  <2> QED
    BY <1>3, <2>1, <2>2 DEF SaysHello
<1>4. CASE SaysGoodbye
  <2>1. \A a : Frame("disc", a).type = "disc" /\ Frame("part", a).type = "part"
    BY DEF Frame
  <2> QED
    BY <1>4, <1>q, <2>1 DEF SaysGoodbye
<1>5. ASSUME NEW n \in Notifies, Acknowledges(n) PROVE AnswerInv'
  <2>1. CASE \/ UNCHANGED wire
             \/ wire' = Append(wire, Frame("part", "none"))
    BY <1>5, <1>q, <2>1 DEF Acknowledges, Frame
  <2>2. CASE ~SocketClosed /\ wire' = Append(wire, Frame("ack", n))
    <3>1. call = n /\ got = Len(wire) /\ stream' = <<>>
      BY <1>5, <2>2 DEF Acknowledges, TurnInv, Live
    <3>2. HelloSeen
      BY <1>5, <1>t, <3>1 DEF Acknowledges, StartInv, Answering, SeenInv
    <3>3. Len(wire') = got + 1 /\ wire'[got + 1] = Frame("ack", n)
      BY <1>t, <2>2, <3>1, WireGrows
    <3>4. /\ Frame("ack", n).type = "ack" /\ Frame("ack", n).arg = n
          /\ (got + 1 .. got + 1) = {got + 1}
      BY <1>t DEF Frame
    <3> QED
      BY <1>c, <3>1, <3>2, <3>3, <3>4 DEF AnswerInv
  <2> QED
    BY <1>5, <2>1, <2>2 DEF Acknowledges
<1> QED
  BY <1>t, <1>1, <1>2, <1>3, <1>4, <1>5, QuietSteps, Writes

LEMMA AnswerByClient ==
    ASSUME WorkerInv, ClientTypes, AnswerInv,
           (\E f \in Requests : Send(f) \/ SendFails(f)) \/ Receive \/ ReceiveFails
    PROVE  AnswerInv'
<1>t. Len(wire) \in Nat /\ got \in Nat /\ got <= Len(wire)
  BY DEF WorkerInv, TypeOK, ClientTypes
(* A client that waits for nothing, or an agent with unread input, has no  *)
(* answer under way.                                                       *)
<1>1. CASE call = "none" \/ stream # <<>> \/ got = Len(wire)
  <2>1. wire' = wire /\ (got' = got \/ got' = got + 1)
    BY Zenon DEF Send, PeerSend, SendFails, Receive, ReceiveFails, vars
  <2>2. \A i \in got + 1 .. Len(wire) : wire[i].type \notin {"ack", "hello"}
    BY <1>1, <1>t, Names DEF AnswerInv
  <2>3. \A i \in got' + 1 .. Len(wire') : i \in got + 1 .. Len(wire) /\ wire'[i] = wire[i]
    BY <1>t, <2>1
  <2> QED
    BY <2>2, <2>3 DEF AnswerInv
<1>2. CASE Receive
  <2>1. \A i \in got' + 1 .. Len(wire') :
            i \in got + 1 .. Len(wire) /\ wire'[i] = wire[i] /\ i # got + 1
    BY <1>2, <1>t DEF Receive, vars
  <2> QED
    BY <2>1 DEF AnswerInv
<1>3. ReceiveFails => stream # <<>> \/ got = Len(wire)
  <2>1. stream = <<>> => ~(buffered < Len(stream))
    BY DEF WorkerInv, TypeOK
  <2> QED
    BY <2>1 DEF ReceiveFails
<1> QED
  BY <1>1, <1>2, <1>3 DEF Send, SendFails

-----------------------------------------------------------------------------
LEMMA TypesKept ==
    ASSUME WorkerInv, StartInv, ClientTypes, SessionNext PROVE ClientTypes'
<1>t. TypeOK /\ GoodbyeInv /\ Len(wire) \in Nat /\ got \in Nat /\ got <= Len(wire)
  BY DEF WorkerInv, TypeOK, ClientTypes
<1>1. CASE WorkerStep
  <2>1. UNCHANGED <<call, got, returned>>
    BY <1>1 DEF WorkerStep, clientVars
  <2>2. got <= Len(wire')
    BY <1>1, <1>t, WorkerWire, WireKept
  <2> QED
    BY <2>1, <2>2 DEF ClientTypes
<1>2. ASSUME NEW f \in Requests, Send(f) PROVE ClientTypes'
  BY <1>2 DEF Send, PeerSend, ClientTypes
<1>3. ASSUME NEW f \in Requests, SendFails(f) PROVE ClientTypes'
  <2>1. UNCHANGED <<call, got, wire>>
    BY <1>3, Zenon DEF SendFails
  <2>2. Return(f, Nothing)
    BY <1>3 DEF SendFails
  <2> QED
    BY <2>1, <2>2 DEF ClientTypes, Return
<1>4. ASSUME NEW r \in WireFrames \cup {Nothing}, call # "none", Return(call, r),
             call' = "none", wire' = wire, got' \in Nat, got' <= Len(wire)
      PROVE  ClientTypes'
  BY <1>4 DEF ClientTypes, Return
<1>5. CASE Receive
  <2>1. wire[got + 1] \in WireFrames
    BY <1>5, <1>t DEF Receive, TypeOK
  <2>2. wire' = wire
    BY <1>5 DEF Receive, vars
  <2> QED
    BY <1>4, <1>5, <1>t, <2>1, <2>2 DEF Receive
<1>6. CASE ReceiveFails
  <2>1. wire' = wire
    BY <1>6 DEF ReceiveFails, vars
  <2> QED
    BY <1>4, <1>6, <1>t, <2>1 DEF ReceiveFails
<1> QED
  BY <1>1, <1>2, <1>3, <1>5, <1>6 DEF SessionNext

(* What a call returns: an answer it read, or Nothing.                     *)
LEMMA ClientSteps ==
    ASSUME NEW f \in Requests, Send(f) \/ SendFails(f) \/ Receive \/ ReceiveFails
    PROVE  /\ UNCHANGED <<ready, wire>>
           /\ \/ Receive
              \/ /\ UNCHANGED got
                 /\ returned' = returned \/ \E c : Return(c, Nothing)
  BY Zenon DEF Send, PeerSend, SendFails, Receive, ReceiveFails, vars, loopVars

LEMMA StartByClient ==
    ASSUME WorkerInv, StartInv,
           (\E f \in Requests : Send(f) \/ SendFails(f)) \/ Receive \/ ReceiveFails
    PROVE  StartInv'
<1>1. UNCHANGED <<ready, goodbyeSent, pc, cur>>
  BY Zenon DEF Send, PeerSend, SendFails, Receive, ReceiveFails, vars, loopVars, lockVars
<1> QED
  BY <1>1 DEF StartInv

LEMMA SeenKept ==
    ASSUME WorkerInv, StartInv, ClientTypes, TurnInv, AnswerInv, SeenInv, SessionNext
    PROVE  SeenInv'
<1>t. TypeOK /\ GoodbyeInv /\ Len(wire) \in Nat /\ got \in Nat /\ got <= Len(wire)
  BY DEF WorkerInv, TypeOK, ClientTypes
<1>1. CASE WorkerStep
  <2>c. UNCHANGED <<call, got, returned>> /\ HelloSeen' = HelloSeen
    BY <1>1, Zenon DEF WorkerStep, clientVars, HelloSeen, Ok
  <2>w. /\ Len(wire') \in {Len(wire), Len(wire) + 1}
        /\ \A i \in 1 .. Len(wire) : wire'[i] = wire[i]
    BY <1>1, <1>t, WorkerWire, WireKept
  <2>1. CASE ready' = ready
    <3>1. ASSUME got < Len(wire) PROVE got < Len(wire') /\ wire'[got + 1] = wire[got + 1]
      BY <1>t, <2>w, <3>1
    <3> QED
      BY <2>c, <2>1, <3>1 DEF SeenInv
  <2>2. CASE ready' # ready
    <3>1. ReadFrame => ready' = ready
      BY DEF ReadFrame, lockVars, loopVars, workVars
    <3>2. SaysHello /\ ~SocketClosed /\ wire' = Append(wire, AgentHello)
      BY <1>1, <1>t, <2>2, <3>1, QuietSteps, Writes
         DEF Quiet, Starts, SaysHello, SaysGoodbye, Acknowledges
    <3>3. got = Len(wire)
      BY <3>2 DEF SaysHello, TurnInv, Live
    <3>4. Len(wire') = got + 1 /\ wire'[got + 1] = AgentHello /\ AgentHello.type = "hello"
      BY <1>t, <3>2, <3>3, WireGrows DEF AgentHello, Frame
    <3> QED
      BY <1>t, <2>c, <3>4 DEF SeenInv
  <2> QED
    BY <2>1, <2>2
<1>2. ASSUME UNCHANGED <<ready, wire, got>>, HelloSeen => HelloSeen' PROVE SeenInv'
  BY <1>2 DEF SeenInv
<1>3. CASE Receive
  <2>1. /\ got < Len(wire) /\ Return(call, wire[got + 1]) /\ ready' = ready
    BY <1>3 DEF Receive, vars, loopVars
  <2>2. CASE wire[got + 1].type = "hello"
    <3>1. got + 1 \in got + 1 .. Len(wire)
      BY <1>t, <2>1
    <3>2. call = "hello"
      BY <2>2, <3>1 DEF AnswerInv
    <3>3. /\ Len(returned) + 1 \in 1 .. Len(returned')
          /\ returned'[Len(returned) + 1] = [call |-> call, reply |-> wire[got + 1]]
      BY <2>1, Returns
    <3>4. /\ returned'[Len(returned) + 1].call = "hello"
          /\ returned'[Len(returned) + 1].reply.type = "hello"
      BY <2>2, <3>2, <3>3
    <3> QED
      BY <3>3, <3>4, Names DEF SeenInv, HelloSeen, Ok, Expected
  <2> QED
    BY <2>1, <2>2, Returns DEF SeenInv
<1> QED
  <2>1. ASSUME NEW f \in Requests, Send(f) \/ SendFails(f) \/ ReceiveFails PROVE SeenInv'
    <3>1. UNCHANGED <<ready, wire>> /\ (Receive \/ UNCHANGED got)
      BY <2>1, ClientSteps
    <3>2. CASE returned' = returned
      BY <3>1, <3>2, <1>2, <1>3, Zenon DEF HelloSeen, Ok
    <3>3. ASSUME NEW c, Return(c, Nothing) PROVE SeenInv'
      BY <3>1, <3>3, <1>2, <1>3, Returns
    <3> QED
      BY <2>1, <3>2, <3>3, <1>3, ClientSteps
  <2>2. "hello" \in Requests
    BY DEF Requests
  <2> QED
    BY <1>1, <1>3, <2>1, <2>2 DEF SessionNext

-----------------------------------------------------------------------------
(* The history, call by call: what an ACK says of the calls before it.     *)
LEMMA HistoryKept ==
    ASSUME WorkerInv, StartInv, ClientTypes, AnswerInv, ReadInv, OwnAck, SessionNext
    PROVE  ReadInv' /\ OwnAck'
<1>t. TypeOK /\ GoodbyeInv /\ Len(wire) \in Nat /\ got \in Nat /\ got <= Len(wire)
  BY DEF WorkerInv, TypeOK, ClientTypes
<1>1. CASE returned' = returned /\ got' = got /\ (wire' = wire \/ \E f : wire' = Append(wire, f))
  <2>1. \A k \in 1 .. got : wire'[k] = wire[k]
    BY <1>1, <1>t, WireKept
  <2>2. ReadInv'
    BY <1>1, <2>1 DEF ReadInv
  <2>3. OwnAck'
    BY <1>1, Zenon DEF OwnAck, Ok
  <2> QED
    BY <2>2, <2>3
<1>2. ASSUME NEW c, NEW r, Return(c, r), wire' = wire, got' \in {got, got + 1},
             r.type = "disc" => \E k \in 1 .. got' : wire[k].type = "disc",
             c \in Notifies /\ r.type = "ack" =>
                /\ r.arg = c /\ HelloSeen
                /\ \A j \in 1 .. Len(returned) : returned[j].reply.type # "disc"
      PROVE  ReadInv' /\ OwnAck'
  <2>1. /\ Len(returned) \in Nat /\ Len(returned') = Len(returned) + 1
        /\ \A j \in 1 .. Len(returned) : returned'[j] = returned[j]
        /\ returned'[Len(returned) + 1] = [call |-> c, reply |-> r]
    BY <1>2, Returns
  <2>2. \A j \in 1 .. Len(returned) : Ok(j)' = Ok(j)
    BY <2>1, Zenon DEF Ok, Expected
  <2>3. \A j \in 1 .. Len(returned') : j \in 1 .. Len(returned) \/ j = Len(returned) + 1
    BY <2>1
  <2>4. ReadInv'
    <3>1. 1 .. got \subseteq 1 .. got'
      BY <1>t, <1>2
    <3>2. ASSUME NEW j \in 1 .. Len(returned'), returned'[j].reply.type = "disc"
          PROVE  \E k \in 1 .. got' : wire'[k].type = "disc"
      <4>1. CASE j \in 1 .. Len(returned)
        BY <1>2, <2>1, <3>1, <3>2, <4>1, Zenon DEF ReadInv
      <4>2. CASE j = Len(returned) + 1
        BY <1>2, <2>1, <3>2, <4>2
      <4> QED
        BY <2>3, <4>1, <4>2
    <3> QED
      BY <3>2, Zenon DEF ReadInv
  <2>5. OwnAck'
    <3> SUFFICES ASSUME NEW i \in 1 .. Len(returned'), Ok(i)', returned'[i].call \in Notifies
                 PROVE  /\ returned'[i].reply.arg = returned'[i].call
                        /\ \E j \in 1 .. i - 1 : Ok(j)' /\ returned'[j].call = "hello"
                        /\ \A j \in 1 .. i - 1 : returned'[j].reply.type # "disc"
      BY Zenon DEF OwnAck
    <3>1. CASE i \in 1 .. Len(returned)
      <4>1. \A j \in 1 .. i - 1 : j \in 1 .. Len(returned)
        BY <2>1, <3>1
      <4>2. /\ returned[i].reply.arg = returned[i].call
            /\ \E j \in 1 .. i - 1 : Ok(j) /\ returned[j].call = "hello"
            /\ \A j \in 1 .. i - 1 : returned[j].reply.type # "disc"
        BY <2>1, <2>2, <3>1, Zenon DEF OwnAck
      <4> QED
        BY <2>1, <2>2, <3>1, <4>1, <4>2, Zenon
    <3>2. CASE i = Len(returned) + 1
      <4>1. returned'[i].call = c /\ returned'[i].reply = r
        BY <2>1, <3>2
      <4>2. r.type = "ack" /\ c \in Notifies
        BY <4>1, Zenon DEF Ok, Expected
      <4>3. 1 .. i - 1 = 1 .. Len(returned)
        BY <2>1, <3>2
      <4> QED
        BY <1>2, <2>1, <2>2, <4>1, <4>2, <4>3, Zenon DEF HelloSeen
    <3> QED
      BY <2>3, <3>1, <3>2
  <2> QED
    BY <2>4, <2>5
<1>3. CASE Receive
  <2>1. /\ got < Len(wire) /\ got' = got + 1 /\ Return(call, wire[got + 1]) /\ wire' = wire
    BY <1>3 DEF Receive, vars
  <2>2. got + 1 \in got + 1 .. Len(wire) /\ got + 1 \in 1 .. got'
    BY <1>t, <2>1
  <2>3. ASSUME wire[got + 1].type = "ack"
        PROVE  /\ wire[got + 1].arg = call /\ HelloSeen
               /\ \A j \in 1 .. Len(returned) : returned[j].reply.type # "disc"
    <3>1. wire[got + 1].arg = call /\ HelloSeen
      BY <2>2, <2>3, Zenon DEF AnswerInv
    <3>2. ASSUME NEW k \in 1 .. got, wire[k].type = "disc" PROVE FALSE
      BY <1>t, <2>1, <2>3, <3>2 DEF GoodbyeInv, NoAckAfterGoodbye
    <3> QED
      BY <3>1, <3>2, Zenon DEF ReadInv
  <2> QED
    BY <1>2, <2>1, <2>2, <2>3
<1>4. ASSUME NEW f \in Requests, Send(f) \/ SendFails(f) \/ ReceiveFails
      PROVE  ReadInv' /\ OwnAck'
  <2>1. Nothing.type = "error"
    BY DEF Nothing, Frame
  <2> QED
    BY <1>1, <1>2, <1>3, <1>4, <2>1, ClientSteps
<1>5. CASE WorkerStep
  <2>1. UNCHANGED <<got, returned>>
    BY <1>5 DEF WorkerStep, clientVars
  <2> QED
    BY <1>1, <1>5, <1>t, <2>1, WorkerWire
<1>6. "hello" \in Requests
  BY DEF Requests
<1> QED
  BY <1>3, <1>4, <1>5, <1>6 DEF SessionNext

LEMMA ClientStart == SessionInit => ClientInv
<1> SUFFICES ASSUME SessionInit PROVE ClientInv
  OBVIOUS
<1>0. Init /\ call = "none" /\ got = 0 /\ returned = <<>>
  BY DEF SessionInit
<1>1. WorkerInv
  BY <1>0, TypeStart, FreshStart, GoodbyeStart DEF WorkerInv
<1>2. wire = <<>> /\ stream = <<>> /\ ~ready /\ ~goodbyeSent
      /\ pc[Loop] \notin {"dispatch", "hello", "select", "parked", "granted"}
      /\ \A n \in Notifies : pc[n] = "idle"
  BY <1>0, NotifiesAssumption DEF Init, Procs
<1>3. ClientTypes /\ AnswerInv /\ SeenInv /\ ReadInv /\ OwnAck
  BY <1>0, <1>2 DEF ClientTypes, AnswerInv, SeenInv, ReadInv, OwnAck
<1>4. StartInv /\ TurnInv
  BY <1>0, <1>2 DEF StartInv, TurnInv, Holding, Answering
<1> QED
  BY <1>1, <1>3, <1>4 DEF ClientInv

LEMMA ClientInductive == ClientInv /\ [SessionNext]_sessionVars => ClientInv'
<1> SUFFICES ASSUME ClientInv, [SessionNext]_sessionVars PROVE ClientInv'
  OBVIOUS
<1>0. WorkerInv /\ ClientTypes /\ StartInv /\ TurnInv /\ AnswerInv /\ SeenInv /\ ReadInv /\ OwnAck
  BY DEF ClientInv
<1>1. WorkerInv'
  BY <1>0, WorkerKept
<1>2. CASE SessionNext
  <2>1. ClientTypes' /\ SeenInv' /\ ReadInv' /\ OwnAck'
    BY <1>0, <1>2, TypesKept, SeenKept, HistoryKept
  <2>2. StartInv' /\ TurnInv' /\ AnswerInv'
    <3>1. CASE WorkerStep
      BY <1>0, <3>1, StartKept, TurnByWorker, AnswerByWorker DEF WorkerInv
    <3>2. CASE (\E f \in Requests : Send(f) \/ SendFails(f)) \/ Receive \/ ReceiveFails
      BY <1>0, <3>2, StartByClient, TurnByClient, AnswerByClient
    <3> QED
      BY <1>2, <3>1, <3>2 DEF SessionNext
  <2> QED
    BY <1>1, <2>1, <2>2 DEF ClientInv
<1>3. CASE UNCHANGED sessionVars
  <2>1. UNCHANGED <<call, got, returned, wire, stream, ready, goodbyeSent, closer, pc, cur>>
    BY <1>3, Zenon DEF sessionVars, clientVars, vars, loopVars, lockVars, inVars
  <2>2. HelloSeen' = HelloSeen
    BY <2>1, Zenon DEF HelloSeen, Ok
  <2>3. ClientTypes' /\ SeenInv' /\ ReadInv' /\ OwnAck'
    BY <1>0, <2>1, <2>2, Zenon DEF ClientTypes, SeenInv, ReadInv, OwnAck, Ok
  <2>4. StartInv' /\ TurnInv' /\ AnswerInv'
    BY <1>0, <2>1, <2>2, Zenon
       DEF StartInv, TurnInv, AnswerInv, Live, Holding, Answering
  <2> QED
    BY <1>1, <2>3, <2>4 DEF ClientInv
<1> QED
  BY <1>2, <1>3

(* A nil from client.Notify means what the caller takes it to mean, though *)
(* Notify compares no ids: this NOTIFY was acknowledged, after the client  *)
(* saw the handshake through and before it saw any goodbye.  For any       *)
(* number of NOTIFYs, every in-flight limit and every choice of timeouts.  *)
THEOREM NilMeansAcknowledged == SessionSpec => []OwnAck
<1>1. ClientInv => OwnAck
  BY DEF ClientInv
<1> QED
  BY <1>1, ClientStart, ClientInductive, PTL DEF SessionSpec

=============================================================================
