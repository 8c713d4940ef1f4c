------------------------------- MODULE Client -------------------------------
(***************************************************************************)
(* client.Client talking to a worker: Init, Notify and Stop, each of which *)
(* sends a frame and takes the next one to arrive for the answer, whatever *)
(* its ids.  HAProxy's place in module Worker is the client's here.        *)
(***************************************************************************)
EXTENDS WorkerConnection

VARIABLES
    call,     \* the frame whose answer a call waits for, or "none"
    got,      \* how many frames of wire the client has read
    returned  \* the calls that have returned and what each one read

clientVars == <<call, got, returned>>
sessionVars == <<vars, clientVars>>

SessionInit ==
    /\ Init
    /\ call = "none" /\ got = 0 /\ returned = <<>>

(* Init, Notify and Stop, by the frame they send.                          *)
Requests == {"hello", "disc"} \cup Notifies

(* The type each of them expects of the answer.                            *)
Expected(f) == IF f \in Notifies THEN "ack" ELSE f

Nothing == Frame("error", "none")
Return(f, reply) == returned' = Append(returned, [call |-> f, reply |-> reply])

Send(f) ==
    /\ call = "none"
    /\ PeerSend(f)
    /\ call' = f
    /\ UNCHANGED <<got, returned>>

(* The write fails, which it may once the agent has closed the connection. *)
SendFails(f) ==
    /\ call = "none"
    /\ SocketClosed
    /\ f \in Control => control < MaxControl
    /\ control' = IF f \in Control THEN control + 1 ELSE control
    /\ f \in Notifies => pc[f] = "idle" /\ \A i \in 1 .. Len(returned) : returned[i].call # f
    /\ Return(f, Nothing)
    /\ UNCHANGED <<pc, code, loopVars, workVars, lockVars, closer, cancelled,
                   stream, buffered, peer, shutdown, wire, late, call, got>>

(* ReadLimit brings the next frame.                                        *)
Receive ==
    /\ call # "none"
    /\ got < Len(wire)
    /\ got' = got + 1
    /\ call' = "none"
    /\ Return(call, wire[got + 1])
    /\ UNCHANGED vars

(* Mutant: a call gives up waiting.                                        *)
ReceiveGivesUp ==
    /\ call # "none"
    /\ call' = "none"
    /\ Return(call, Nothing)
    /\ UNCHANGED <<vars, got>>

(* ReadLimit fails at the end of the stream; or earlier, because an agent  *)
(* that closes with input unread resets the connection, and what was on    *)
(* its way to the client is lost.                                          *)
ReceiveFails ==
    /\ call # "none"
    /\ SocketClosed
    /\ got = Len(wire) \/ buffered < Len(stream)
    /\ call' = "none"
    /\ Return(call, Nothing)
    /\ UNCHANGED <<vars, got>>

WorkerStep ==
    /\ \/ LoopStep
       \/ \E p \in Procs : CommonStep(p)
       \/ \E n \in Notifies : NotifyStep(n) \/ HandlerReturn(n)
       \/ WriteStep
       \/ Shutdown
       \/ Terminated
    /\ UNCHANGED clientVars

SessionNext ==
    \/ WorkerStep
    \/ \E f \in Requests : Send(f) \/ SendFails(f)
    \/ Receive
    \/ ReceiveFails

SessionSpec == SessionInit /\ [][SessionNext]_sessionVars

(* The worker as in module Worker, and a client that is run when it can.   *)
SessionFairSpec ==
    /\ SessionSpec
    /\ Scheduling
    /\ WF_sessionVars(Receive \/ ReceiveFails)

-----------------------------------------------------------------------------
(* Did the i-th call return nil ?                                          *)
Ok(i) == returned[i].reply.type = Expected(returned[i].call)

(* Notify compares no ids, and still a nil means that this NOTIFY was      *)
(* acknowledged, on a connection whose handshake the client has seen       *)
(* through: against this agent the next frame is never another's ACK, nor  *)
(* one that it should not have sent.                                       *)
OwnAck ==
    \A i \in 1 .. Len(returned) :
        Ok(i) /\ returned[i].call \in Notifies =>
            /\ returned[i].reply.arg = returned[i].call
            /\ \E j \in 1 .. i - 1 : Ok(j) /\ returned[j].call = "hello"
            /\ \A j \in 1 .. i - 1 : returned[j].reply.type # "disc"

(* No call hangs: whatever the client calls in whatever order, and         *)
(* whenever the agent is shut down or drops the connection, an answer or   *)
(* an error comes, if handlers return and writes come back.                *)
CallsReturn ==
    HandlersReturn /\ WritesReturn => (call # "none" ~> call = "none")

=============================================================================
