------------------------------- MODULE Agent --------------------------------
(***************************************************************************)
(* The agent package: Serve loops that accept connections under a limit,   *)
(* one goroutine per connection, and Shutdown, which drains them all or    *)
(* gives up when its grace period ends.  A connection being served is what *)
(* module Connection says, no more: this module is shown to implement it   *)
(* for each of its connections, and module Worker for the one it models.   *)
(***************************************************************************)
EXTENDS Naturals, FiniteSets

CONSTANTS
    Listeners,       \* a Serve call for each
    Conns,           \* the connections peers may open
    MaxConnections,  \* WithMaxConnections; 0 is unlimited
    MinBackoff,      \* minAcceptBackoff
    MaxBackoff       \* maxAcceptBackoff

ASSUME AgentAssumption ==
    /\ MaxConnections \in Nat
    /\ MinBackoff \in Nat \ {0} /\ MaxBackoff \in Nat
    /\ MinBackoff <= MaxBackoff
    /\ IsFiniteSet(Listeners) /\ IsFiniteSet(Conns)
    /\ Listeners \cap Conns = {}
    /\ "none" \notin Listeners \cup Conns

VARIABLES
    serve,      \* where each Serve loop is; "shutdown" and "error" are returns
    have,       \* the connection each loop has accepted and not handed over
    backoff,    \* Serve's backoff
    connSlots,  \* how many tokens are in agent.connSlots
    draining,   \* agent.draining, and with it the closed agent.done
    listeners,  \* agent.listeners
    lclosed,    \* the listeners that are closed
    conns,      \* agent.conns
    wg,         \* the connections agent.wg counts
    cancelled,  \* has agent.cancel been called ?
    worker,     \* how far each connection's goroutine is
    handler,    \* is a NOTIFY of the connection being handled ?
    closer,     \* transport.Conn.Close: "none", who has raised the flag and not
                \* yet closed the socket, or "closed"
    poked,      \* has Shutdown expired the connection's read deadline ?
    ctxDone,    \* has the connection's worker cancelled its context ?
    graceOver,  \* is the context Shutdown was given done ?
    shut,       \* where Shutdown is; "nil" and "ctxErr" are returns
    todo        \* what is left of the loop Shutdown is in

connVars == <<worker, handler, closer, poked, ctxDone>>
rosterVars == <<draining, listeners, lclosed, conns, wg>>
shutVars == <<shut, todo, graceOver>>
vars == <<serve, have, backoff, connSlots, rosterVars, cancelled, connVars,
          shutVars>>

Init ==
    /\ serve = [l \in Listeners |-> "idle"]
    /\ have = [l \in Listeners |-> "none"]
    /\ backoff = [l \in Listeners |-> 0]
    /\ connSlots = 0
    /\ draining = FALSE /\ listeners = {} /\ lclosed = {}
    /\ conns = {} /\ wg = {} /\ cancelled = FALSE
    /\ worker = [c \in Conns |-> "none"]
    /\ handler = [c \in Conns |-> FALSE]
    /\ closer = [c \in Conns |-> "none"]
    /\ poked = [c \in Conns |-> FALSE]
    /\ ctxDone = [c \in Conns |-> FALSE]
    /\ shut = "idle" /\ todo = {} /\ graceOver = FALSE

ServeTo(l, label) == serve' = [serve EXCEPT ![l] = label]
WorkerTo(c, label) == worker' = [worker EXCEPT ![c] = label]

-----------------------------------------------------------------------------
(* Serve.                                                                  *)

AddListener(l) ==
    /\ serve[l] = "idle"
    /\ \/ draining /\ ServeTo(l, "shutdown") /\ UNCHANGED listeners
       \/ /\ ~draining
          /\ listeners' = listeners \cup {l}
          /\ ServeTo(l, "gate")
    /\ UNCHANGED <<have, backoff, connSlots, draining, lclosed, conns, wg,
                   cancelled, connVars, shutVars>>

(* acquireConn: no limit, or a look at draining before the select.         *)
CheckDraining(l) ==
    /\ serve[l] = "gate"
    /\ ServeTo(l, IF MaxConnections = 0 THEN "accept"
                  ELSE IF draining THEN "shutdown" ELSE "select")
    /\ UNCHANGED <<have, backoff, connSlots, rosterVars, cancelled, connVars,
                   shutVars>>

(* A send into agent.connSlots does not block; the mutant's channel is one *)
(* too large.                                                              *)
OneConnMore == connSlots <= MaxConnections
ConnSlotFree == connSlots < MaxConnections

(* acquireConn's select: any ready case, or sleep until one is.            *)
AcquireConn(l) ==
    /\ serve[l] = "select"
    /\ \/ /\ ConnSlotFree
          /\ connSlots' = connSlots + 1
          /\ ServeTo(l, "accept")
       \/ draining /\ ServeTo(l, "shutdown") /\ UNCHANGED connSlots
       \/ /\ ~ConnSlotFree /\ ~draining
          /\ ServeTo(l, "parked")
          /\ UNCHANGED connSlots
    /\ UNCHANGED <<have, backoff, rosterVars, cancelled, connVars, shutVars>>

(* releaseConn, while Serve loop l goes on to label (l = "none" for a      *)
(* connection's goroutine).  A token taken from a full channel makes room  *)
(* for that of a Serve loop parked on it, which is then as good as in      *)
(* Accept.  An empty channel has none to take.                             *)
ReleaseConn(l, label) ==
    LET moved == [k \in Listeners |-> IF k = l THEN label ELSE serve[k]]
        parked == {k \in Listeners : serve[k] = "parked"}
    IN \/ /\ parked = {}
          /\ MaxConnections > 0 => connSlots > 0
          /\ connSlots' = IF MaxConnections > 0 THEN connSlots - 1 ELSE connSlots
          /\ serve' = moved
       \/ \E k \in parked :
             /\ serve' = [moved EXCEPT ![k] = "accept"]
             /\ UNCHANGED connSlots

(* Accept succeeds.                                                        *)
Accept(l, c) ==
    /\ serve[l] = "accept"
    /\ l \notin lclosed
    /\ worker[c] = "none"
    /\ WorkerTo(c, "accepted")
    /\ have' = [have EXCEPT ![l] = c]
    /\ backoff' = [backoff EXCEPT ![l] = 0]
    /\ ServeTo(l, "track")
    /\ UNCHANGED <<connSlots, rosterVars, cancelled, handler, closer, poked,
                   ctxDone, shutVars>>

(* Mutant: the slot of a failed Accept is kept.                            *)
KeepSlot(l, transient) ==
    /\ serve[l] = "accept"
    /\ l \in lclosed => ~transient
    /\ ServeTo(l, IF transient THEN "transient" ELSE "permanent")
    /\ UNCHANGED <<have, backoff, connSlots, rosterVars, cancelled, connVars,
                   shutVars>>

(* Accept fails: for a while, for good, or because the listener is closed. *)
AcceptError(l, transient) ==
    /\ serve[l] = "accept"
    /\ l \in lclosed => ~transient
    /\ ReleaseConn(l, IF transient THEN "transient" ELSE "permanent")
    /\ UNCHANGED <<have, backoff, rosterVars, cancelled, connVars, shutVars>>

(* Mutant: the pause is not capped.                                        *)
Uncapped(d) == IF d = 0 THEN MinBackoff ELSE d * 2

nextAcceptBackoff(d) ==
    IF d = 0 THEN MinBackoff
    ELSE IF d * 2 > MaxBackoff THEN MaxBackoff ELSE d * 2

(* Mutant: the error is classified without a look at draining.             *)
ClassifyBlindly(l) ==
    /\ \/ /\ serve[l] = "permanent"
          /\ ServeTo(l, "error")
          /\ UNCHANGED backoff
       \/ /\ serve[l] = "transient"
          /\ backoff' = [backoff EXCEPT ![l] = nextAcceptBackoff(backoff[l])]
          /\ ServeTo(l, "pause")
    /\ UNCHANGED <<have, connSlots, rosterVars, cancelled, connVars, shutVars>>

(* What Serve makes of the error, once it has looked at draining.          *)
ClassifyAcceptError(l) ==
    /\ serve[l] \in {"transient", "permanent"}
    /\ \/ draining /\ ServeTo(l, "shutdown") /\ UNCHANGED backoff
       \/ /\ ~draining /\ serve[l] = "permanent"
          /\ ServeTo(l, "error")
          /\ UNCHANGED backoff
       \/ /\ ~draining /\ serve[l] = "transient"
          /\ backoff' = [backoff EXCEPT ![l] = nextAcceptBackoff(backoff[l])]
          /\ ServeTo(l, "pause")
    /\ UNCHANGED <<have, connSlots, rosterVars, cancelled, connVars, shutVars>>

(* pause: the timer, or done.                                              *)
Pause(l) ==
    /\ serve[l] = "pause"
    /\ ServeTo(l, "gate") \/ (draining /\ ServeTo(l, "shutdown"))
    /\ UNCHANGED <<have, backoff, connSlots, rosterVars, cancelled, connVars,
                   shutVars>>

(* track takes no connection once a drain has begun; the mutant takes all. *)
TrackAll == TRUE
MayTrack == ~draining

(* track, and what hangs on it: the connection gets a goroutine and the    *)
(* loop's slot, or, the drain having begun, neither.                      *)
Track(l) ==
    /\ serve[l] = "track"
    /\ LET c == have[l] IN
       \/ /\ MayTrack
          /\ conns' = conns \cup {c}
          /\ wg' = wg \cup {c}
          /\ WorkerTo(c, "serving")
          /\ have' = [have EXCEPT ![l] = "none"]
          /\ ServeTo(l, "gate")
          /\ UNCHANGED connSlots
       \/ /\ ~MayTrack
          /\ ReleaseConn(l, "late")
          /\ UNCHANGED <<have, conns, wg, worker>>
    /\ UNCHANGED <<backoff, draining, listeners, lclosed, cancelled, handler,
                   closer, poked, ctxDone, shutVars>>

(* Nobody else has the connection, so its close is one step.               *)
CloseLate(l) ==
    /\ serve[l] = "late"
    /\ closer' = [closer EXCEPT ![have[l]] = "closed"]
    /\ WorkerTo(have[l], "refused")
    /\ have' = [have EXCEPT ![l] = "none"]
    /\ ServeTo(l, "shutdown")
    /\ UNCHANGED <<backoff, connSlots, rosterVars, cancelled, handler, poked,
                   ctxDone, shutVars>>

-----------------------------------------------------------------------------
(* A connection's goroutine: worker.Handle in outline, then the two        *)
(* deferred calls.                                                         *)

(* transport.Conn.Close of connection c: who raises the flag and closes    *)
(* the socket; or returns at once, another having raised the flag.         *)
RaiseFlag(c, who) ==
    /\ closer[c] = "none"
    /\ closer' = [closer EXCEPT ![c] = who]

CloseReturns(c, who) ==
    \/ closer[c] = who /\ closer' = [closer EXCEPT ![c] = "closed"]
    \/ closer[c] \notin {"none", who} /\ UNCHANGED closer

quiet == <<serve, have, backoff, connSlots, rosterVars, cancelled, shutVars>>

StartHandler(c) ==
    /\ worker[c] = "serving"
    /\ ~handler[c]
    /\ handler' = [handler EXCEPT ![c] = TRUE]
    /\ UNCHANGED <<quiet, worker, closer, poked, ctxDone>>

(* A handler whose ACK cannot be written takes the connection down with    *)
(* it, and is done after that.                                             *)
HandlerFlag(c) ==
    /\ handler[c]
    /\ RaiseFlag(c, "handler")
    /\ UNCHANGED <<quiet, worker, handler, poked, ctxDone>>

HandlerClose(c) ==
    /\ closer[c] = "handler"
    /\ closer' = [closer EXCEPT ![c] = "closed"]
    /\ UNCHANGED <<quiet, worker, handler, poked, ctxDone>>

HandlerReturn(c) ==
    /\ handler[c] /\ closer[c] # "handler"
    /\ handler' = [handler EXCEPT ![c] = FALSE]
    /\ UNCHANGED <<quiet, worker, closer, poked, ctxDone>>

(* The read loop ends: for a drain, and then its handlers are waited for,  *)
(* or for anything else, and then they are not.                            *)
WorkerDrain(c) ==
    /\ worker[c] = "serving"
    /\ draining
    /\ WorkerTo(c, "draining")
    /\ UNCHANGED <<quiet, handler, closer, poked, ctxDone>>

WorkerLeave(c) ==
    /\ \/ worker[c] = "serving"
       \/ worker[c] = "draining" /\ ~handler[c]
    /\ WorkerTo(c, "closing")
    /\ UNCHANGED <<quiet, handler, closer, poked, ctxDone>>

(* run's deferred close and cancel, in that order.                         *)
WorkerClose(c) ==
    /\ worker[c] = "closing"
    /\ \/ RaiseFlag(c, "worker") /\ UNCHANGED worker
       \/ CloseReturns(c, "worker") /\ WorkerTo(c, "cancelling")
    /\ UNCHANGED <<quiet, handler, poked, ctxDone>>

(* Mutant: the worker returns without cancelling its handlers' context.    *)
ReturnUncancelled(c) ==
    /\ worker[c] = "cancelling"
    /\ WorkerTo(c, "returned")
    /\ UNCHANGED <<quiet, handler, closer, poked, ctxDone>>

WorkerCancel(c) ==
    /\ worker[c] = "cancelling"
    /\ ctxDone' = [ctxDone EXCEPT ![c] = TRUE]
    /\ WorkerTo(c, "returned")
    /\ UNCHANGED <<quiet, handler, closer, poked>>

(* forget: off the roster under the lock, then wg.Done.                    *)
Forget(c) ==
    /\ worker[c] = "returned"
    /\ conns' = conns \ {c}
    /\ WorkerTo(c, "forgotten")
    /\ UNCHANGED <<serve, have, backoff, connSlots, draining, listeners,
                   lclosed, wg, cancelled, handler, closer, poked, ctxDone,
                   shutVars>>

WgDone(c) ==
    /\ worker[c] = "forgotten"
    /\ wg' = wg \ {c}
    /\ WorkerTo(c, "done")
    /\ UNCHANGED <<serve, have, backoff, connSlots, draining, listeners,
                   lclosed, conns, cancelled, handler, closer, poked, ctxDone,
                   shutVars>>

FreeSlot(c) ==
    /\ worker[c] = "done"
    /\ ReleaseConn("none", "none")
    /\ WorkerTo(c, "gone")
    /\ UNCHANGED <<have, backoff, rosterVars, cancelled, handler, closer,
                   poked, ctxDone, shutVars>>

-----------------------------------------------------------------------------
(* Shutdown.  A second call finds draining set and changes nothing.        *)

(* The critical section: from here nothing is added to wg, and closing     *)
(* done wakes the Serve loops parked in acquireConn.                       *)
BeginShutdown ==
    /\ shut = "idle"
    /\ draining' = TRUE
    /\ todo' = listeners \cup conns
    /\ listeners' = {}
    /\ serve' = [l \in Listeners |->
                    IF serve[l] = "parked" THEN "shutdown" ELSE serve[l]]
    /\ shut' = "waking"
    /\ UNCHANGED <<have, backoff, connSlots, lclosed, conns, wg, cancelled,
                   connVars, graceOver>>

(* Mutant: the listener is forgotten and not closed.                       *)
DropListener(l) ==
    /\ shut = "waking"
    /\ l \in todo
    /\ todo' = todo \ {l}
    /\ UNCHANGED <<serve, have, backoff, connSlots, rosterVars, cancelled,
                   connVars, shut, graceOver>>

CloseListener(l) ==
    /\ shut = "waking"
    /\ l \in todo
    /\ lclosed' = lclosed \cup {l}
    /\ todo' = todo \ {l}
    /\ UNCHANGED <<serve, have, backoff, connSlots, draining, listeners,
                   conns, wg, cancelled, connVars, shut, graceOver>>

(* Mutant: the connection's read deadline is left alone.                   *)
SkipConn(c) ==
    /\ shut = "waking"
    /\ c \in todo /\ todo \subseteq Conns
    /\ todo' = todo \ {c}
    /\ UNCHANGED <<serve, have, backoff, connSlots, rosterVars, cancelled,
                   connVars, shut, graceOver>>

PokeConn(c) ==
    /\ shut = "waking"
    /\ c \in todo /\ todo \subseteq Conns
    /\ poked' = [poked EXCEPT ![c] = TRUE]
    /\ todo' = todo \ {c}
    /\ UNCHANGED <<serve, have, backoff, connSlots, rosterVars, cancelled,
                   worker, handler, closer, ctxDone, shut, graceOver>>

(* The context the caller gave Shutdown runs out, whatever Shutdown does.  *)
ContextDone ==
    /\ shut # "idle" /\ ~graceOver
    /\ graceOver' = TRUE
    /\ UNCHANGED <<serve, have, backoff, connSlots, rosterVars, cancelled,
                   connVars, shut, todo>>

(* The select: every worker has returned, or the caller's context ended.   *)
Drained ==
    /\ shut = "waking" /\ todo = {}
    /\ wg = {}
    /\ cancelled' = TRUE
    /\ shut' = "nil"
    /\ UNCHANGED <<serve, have, backoff, connSlots, rosterVars, connVars, todo,
                   graceOver>>

GraceExpires ==
    /\ shut = "waking" /\ todo = {}
    /\ graceOver
    /\ cancelled' = TRUE
    /\ shut' = "expired"
    /\ UNCHANGED <<serve, have, backoff, connSlots, rosterVars, connVars, todo,
                   graceOver>>

(* Mutant: only the connections with a handler running are closed.         *)
SnapshotBusy ==
    /\ shut = "expired"
    /\ todo' = {c \in conns : handler[c]}
    /\ shut' = "closing"
    /\ UNCHANGED <<serve, have, backoff, connSlots, rosterVars, cancelled,
                   connVars, graceOver>>

(* closeAll: a snapshot of the roster, then one close after another.       *)
SnapshotConns ==
    /\ shut = "expired"
    /\ todo' = conns
    /\ shut' = "closing"
    /\ UNCHANGED <<serve, have, backoff, connSlots, rosterVars, cancelled,
                   connVars, graceOver>>

CloseConn(c) ==
    /\ shut = "closing"
    /\ c \in todo
    /\ \A d \in Conns \ {c} : closer[d] # "agent"
    /\ \/ RaiseFlag(c, "agent") /\ UNCHANGED todo
       \/ CloseReturns(c, "agent") /\ todo' = todo \ {c}
    /\ UNCHANGED <<serve, have, backoff, connSlots, rosterVars, cancelled,
                   worker, handler, poked, ctxDone, shut, graceOver>>

GaveUp ==
    /\ shut = "closing" /\ todo = {}
    /\ shut' = "ctxErr"
    /\ UNCHANGED <<serve, have, backoff, connSlots, rosterVars, cancelled,
                   connVars, todo, graceOver>>

-----------------------------------------------------------------------------
Serving(l) == serve[l] \notin {"idle", "shutdown", "error"}

(* A Serve loop's own steps; a peer's connection may never come, but a     *)
(* closed listener makes Accept return.                                    *)
ServeStep(l) ==
    \/ CheckDraining(l) \/ AcquireConn(l) \/ ClassifyAcceptError(l)
    \/ Pause(l) \/ Track(l) \/ CloseLate(l)

(* What a connection's goroutine does on its own.                          *)
Teardown(c) ==
    \/ WorkerClose(c) \/ WorkerCancel(c) \/ Forget(c) \/ WgDone(c)
    \/ FreeSlot(c)

ShutdownStep ==
    \/ \E l \in Listeners : CloseListener(l)
    \/ \E c \in Conns : PokeConn(c) \/ CloseConn(c)
    \/ Drained \/ GraceExpires \/ SnapshotConns \/ GaveUp

Terminated ==
    /\ \A l \in Listeners : serve[l] \in {"shutdown", "error"}
    /\ \A c \in Conns : worker[c] \in {"none", "refused", "gone"} /\ ~handler[c]
    /\ shut \in {"nil", "ctxErr"}
    /\ UNCHANGED vars

Next ==
    \/ \E l \in Listeners :
          \/ AddListener(l)
          \/ ServeStep(l)
          \/ \E c \in Conns : Accept(l, c)
          \/ \E transient \in BOOLEAN : AcceptError(l, transient)
    \/ \E c \in Conns :
          \/ StartHandler(c)
          \/ HandlerFlag(c) \/ HandlerClose(c) \/ HandlerReturn(c)
          \/ WorkerDrain(c)
          \/ WorkerLeave(c)
          \/ Teardown(c)
    \/ BeginShutdown
    \/ ShutdownStep
    \/ ContextDone
    \/ Terminated

Spec == Init /\ [][Next]_vars

(* A goroutine that can run is run.  A connection that is closed leaves    *)
(* its read loop, and its drain if nothing is in flight; a handler heeds   *)
(* its context.                                                            *)
Scheduling ==
    /\ \A l \in Listeners :
          /\ WF_vars(ServeStep(l))
          /\ WF_vars(l \in lclosed /\ AcceptError(l, FALSE))
    /\ \A c \in Conns :
          /\ WF_vars(closer[c] = "closed" /\ (WorkerDrain(c) \/ WorkerLeave(c)))
          /\ WF_vars((ctxDone[c] \/ cancelled) /\ HandlerReturn(c))
          /\ WF_vars(HandlerClose(c))
          /\ WF_vars(Teardown(c))
    /\ WF_vars(ShutdownStep)

(* Handlers return and writes come back, and then a poke is heeded and a   *)
(* drain ends.                                                             *)
Cooperative ==
    \A c \in Conns :
        /\ WF_vars(HandlerReturn(c))
        /\ WF_vars(poked[c] /\ (WorkerDrain(c) \/ WorkerLeave(c)))
        /\ WF_vars(worker[c] = "draining" /\ WorkerLeave(c))

(* Either that, and then no grace period is needed, or the grace period    *)
(* ends some time.                                                         *)
FairSpec == Spec /\ Scheduling /\ (Cooperative \/ WF_vars(ContextDone))

-----------------------------------------------------------------------------
ServeLabels ==
    {"idle", "gate", "select", "parked", "accept", "transient", "permanent",
     "pause", "track", "late", "shutdown", "error"}
WorkerLabels ==
    {"none", "accepted", "serving", "draining", "closing", "cancelling",
     "returned", "forgotten", "done", "gone", "refused"}

(* The connections a worker was started for.                               *)
Served(c) == worker[c] \notin {"none", "accepted", "refused"}

(* The shape of the state.                                                 *)
TypeOK ==
    /\ serve \in [Listeners -> ServeLabels]
    /\ have \in [Listeners -> Conns \cup {"none"}]
    /\ \A l \in Listeners : serve[l] \in {"track", "late"} => have[l] \in Conns
    /\ backoff \in [Listeners -> 0 .. MaxBackoff]
    /\ connSlots \in Nat
    /\ draining \in BOOLEAN /\ cancelled \in BOOLEAN /\ graceOver \in BOOLEAN
    /\ listeners \subseteq Listeners /\ lclosed \subseteq Listeners
    /\ conns \subseteq Conns /\ wg \subseteq Conns
    /\ worker \in [Conns -> WorkerLabels]
    /\ closer \in [Conns -> {"none", "handler", "worker", "agent", "closed"}]
    /\ handler \in [Conns -> BOOLEAN]
    /\ poked \in [Conns -> BOOLEAN] /\ ctxDone \in [Conns -> BOOLEAN]
    /\ shut \in {"idle", "waking", "expired", "closing", "nil", "ctxErr"}
    /\ todo \subseteq Listeners \cup Conns

(* The connections the agent has open: those it serves and, until a drain  *)
(* begins, those accepted and not yet tracked.                             *)
OpenConns ==
    {c \in Conns : \/ Served(c) /\ worker[c] # "gone"
                   \/ worker[c] = "accepted" /\ ~draining}

(* WithMaxConnections: however many Serve loops share the agent, it never  *)
(* serves more connections at once than the limit, and until a drain       *)
(* begins holds no others open: one accepted and not yet tracked counts.   *)
ConnLimit ==
    MaxConnections > 0 => Cardinality(OpenConns) <= MaxConnections

(* Who owes agent.connSlots a receive: a Serve loop between acquireConn    *)
(* and the hand-over, and a connection's goroutine that has not ended.     *)
SlotHolders ==
    {l \in Listeners : serve[l] \in {"accept", "track"}} \cup
    {c \in Conns : Served(c) /\ worker[c] # "gone"}

(* "Every path below that does not reach the worker goroutine has to       *)
(* release this": a slot taken is a slot somebody will give back, so none  *)
(* leaks and none is given back twice, on whichever path Serve leaves.     *)
NoSlotLeak ==
    MaxConnections > 0 => connSlots = Cardinality(SlotHolders)

(* No connection slips past Shutdown: once it has gone through its         *)
(* snapshot, every connection still served has been woken, those accepted  *)
(* while it was starting included.                                         *)
EveryConnWoken ==
    draining => \A c \in Conns :
        worker[c] \in {"serving", "draining"} => poked[c] \/ c \in todo

(* "Every handler has either returned on its own or been cancelled by its  *)
(* worker": when Shutdown returns nil, so it is, by the worker and not by  *)
(* the cancel Shutdown itself adds.  The tracked sockets are closed, but   *)
(* for one whose handler has raised the flag, which kept the worker from   *)
(* closing it, and has the close of the socket before it.                  *)
NilMeansFinishedOrCancelled ==
    shut = "nil" => \A c \in Conns :
        /\ handler[c] => ctxDone[c]
        /\ Served(c) => closer[c] = "closed" \/ (closer[c] = "handler" /\ handler[c])

(* "having cancelled the handlers and closed the connections still         *)
(* running": when Shutdown has given up, every connection on the roster    *)
(* refuses payloads and its socket is closed, or a goroutine of its own    *)
(* was there first and is about to close it.                               *)
GiveUpClosesAll ==
    shut = "ctxErr" =>
        /\ cancelled
        /\ \A c \in conns : \/ closer[c] = "closed"
                            \/ closer[c] = "handler" /\ handler[c]
                            \/ closer[c] = "worker" /\ worker[c] = "closing"

(* Serve reports a listener that Shutdown closed as ErrShutdown and never  *)
(* as a failure of the listener.                                           *)
ShutdownIsNotAnError ==
    [][\A l \in Listeners : serve[l] # "error" /\ serve'[l] = "error" => l \notin lclosed]_vars

(* A drain ends every call: each Serve returns, wherever its loop sleeps,  *)
(* and so does Shutdown.                                                   *)
EveryCallReturns ==
    /\ \A l \in Listeners : draining ~> ~Serving(l)
    /\ draining ~> shut \in {"nil", "ctxErr"}

(* Nobody is left behind: some time after a drain has begun no goroutine   *)
(* of any connection is left, no handler and no open socket, whoever was   *)
(* left to close it.                                                       *)
EveryoneLeaves ==
    draining ~> \A c \in Conns :
        /\ worker[c] \in {"none", "refused", "gone"} /\ ~handler[c]
        /\ worker[c] # "none" => closer[c] = "closed"

(* "only that none was left running past the grace period", of a nil       *)
(* return.                                                                 *)
NilMeansNoneRunning ==
    shut = "nil" /\ graceOver => \A c \in Conns : ~handler[c]

-----------------------------------------------------------------------------
(* What the agent makes of a connection is a Connection.                   *)
Stage(c) ==
    IF worker[c] \in {"draining", "closing", "cancelling"} THEN worker[c]
    ELSE IF worker[c] \in {"returned", "forgotten", "done", "gone"} THEN "returned"
    ELSE "serving"

Conn(c) == INSTANCE Connection WITH
    stage <- Stage(c),
    busy <- handler[c],
    closer <- IF Served(c) THEN closer[c] ELSE "none",
    ctxDone <- ctxDone[c] \/ cancelled,
    poked <- poked[c]

(* Serve, Shutdown and the goroutines do nothing to a connection that      *)
(* module Connection, which Worker implements, does not foresee: each      *)
(* connection starts as one and every step is one of its steps or none.    *)
ImplementsConnections ==
    /\ \A c \in Conns : Conn(c)!Init
    /\ [][\A c \in Conns : [Conn(c)!Next]_(Conn(c)!vars)]_vars

=============================================================================
