---------------------------- MODULE AgentProofs -----------------------------
(***************************************************************************)
(* Proofs about module Agent, for any listeners, any connections and any   *)
(* limit: Shutdown misses nobody, what its two returns mean, that a        *)
(* listener it closed is no failure, that what an Agent makes of each of   *)
(* its connections is a Connection, which is what WorkerConnectionProofs   *)
(* shows of a Worker, and that the limit on connections holds.             *)
(***************************************************************************)
EXTENDS Agent, FiniteSetTheorems, TLAPS

USE ZenonT(2), SMTT(60), SMTT(59) DEF ServeTo, WorkerTo, RaiseFlag, CloseReturns

(* The typing of the flags, and of the rest.                               *)
Flags ==
    /\ draining \in BOOLEAN /\ cancelled \in BOOLEAN /\ graceOver \in BOOLEAN
    /\ handler \in [Conns -> BOOLEAN]
    /\ poked \in [Conns -> BOOLEAN] /\ ctxDone \in [Conns -> BOOLEAN]

Places ==
    /\ serve \in [Listeners -> ServeLabels]
    /\ have \in [Listeners -> Conns \cup {"none"}]
    /\ \A l \in Listeners : serve[l] \in {"track", "late"} => have[l] \in Conns
    /\ backoff \in [Listeners -> 0 .. MaxBackoff]
    /\ connSlots \in Nat
    /\ listeners \subseteq Listeners /\ lclosed \subseteq Listeners
    /\ conns \subseteq Conns /\ wg \subseteq Conns
    /\ worker \in [Conns -> WorkerLabels]
    /\ closer \in [Conns -> {"none", "handler", "worker", "agent", "closed"}]
    /\ shut \in {"idle", "waking", "expired", "closing", "nil", "ctxErr"}
    /\ todo \subseteq Listeners \cup Conns

(* The steps there are.                                                    *)
LEMMA Steps ==
    ASSUME [Next]_vars
    PROVE  \/ \E l \in Listeners :
                 \/ AddListener(l) \/ CheckDraining(l) \/ AcquireConn(l)
                 \/ ClassifyAcceptError(l) \/ Pause(l) \/ Track(l) \/ CloseLate(l)
                 \/ \E c \in Conns : Accept(l, c)
                 \/ \E transient \in BOOLEAN : AcceptError(l, transient)
                 \/ CloseListener(l)
           \/ \E c \in Conns :
                 \/ StartHandler(c) \/ HandlerFlag(c) \/ HandlerClose(c) \/ HandlerReturn(c)
                 \/ WorkerDrain(c) \/ WorkerLeave(c) \/ WorkerClose(c) \/ WorkerCancel(c)
                 \/ Forget(c) \/ WgDone(c) \/ FreeSlot(c) \/ PokeConn(c) \/ CloseConn(c)
           \/ BeginShutdown \/ ContextDone \/ Drained \/ GraceExpires
           \/ SnapshotConns \/ GaveUp \/ UNCHANGED vars
  BY Zenon DEF Next, ServeStep, Teardown, ShutdownStep, Terminated

(* The flags keep their type: each is left alone, or set or reset.         *)
LEMMA FlagsInductive == Flags /\ [Next]_vars => Flags'
<1> SUFFICES ASSUME Flags, [Next]_vars PROVE Flags'
  OBVIOUS
<1> USE DEF Flags
<1>1. ASSUME NEW l \in Listeners,
             \/ AddListener(l) \/ CheckDraining(l) \/ AcquireConn(l)
             \/ ClassifyAcceptError(l) \/ Pause(l) \/ CloseListener(l)
      PROVE  Flags'
  BY <1>1 DEF AddListener, CheckDraining, AcquireConn, ClassifyAcceptError, Pause,
              CloseListener, connVars, shutVars, rosterVars
<1>2. ASSUME NEW l \in Listeners,
             \/ Track(l) \/ (\E c \in Conns : Accept(l, c))
             \/ \E transient \in BOOLEAN : AcceptError(l, transient)
      PROVE  Flags'
  BY <1>2 DEF Track, Accept, AcceptError, connVars, shutVars, rosterVars
<1>3. ASSUME NEW l \in Listeners, CloseLate(l) PROVE Flags'
  BY <1>3, Zenon DEF CloseLate, connVars, shutVars, rosterVars
<1>4. ASSUME NEW c \in Conns,
             StartHandler(c) \/ HandlerFlag(c) \/ HandlerClose(c) \/ HandlerReturn(c)
      PROVE  Flags'
  BY <1>4, Zenon DEF StartHandler, HandlerFlag, HandlerClose, HandlerReturn, quiet, shutVars,
                     rosterVars
<1>5. ASSUME NEW c \in Conns,
             WorkerDrain(c) \/ WorkerLeave(c) \/ WorkerClose(c) \/ WorkerCancel(c)
      PROVE  Flags'
  BY <1>5, Zenon DEF WorkerDrain, WorkerLeave, WorkerClose, WorkerCancel, quiet, shutVars,
                     rosterVars
<1>6. ASSUME NEW c \in Conns,
             Forget(c) \/ WgDone(c) \/ FreeSlot(c) \/ PokeConn(c) \/ CloseConn(c)
      PROVE  Flags'
  BY <1>6, Zenon DEF Forget, WgDone, FreeSlot, PokeConn, CloseConn, rosterVars, shutVars
<1>7. ASSUME BeginShutdown \/ ContextDone \/ Drained \/ GraceExpires \/ SnapshotConns \/ GaveUp
      PROVE  Flags'
  BY <1>7, Zenon DEF BeginShutdown, ContextDone, Drained, GraceExpires, SnapshotConns, GaveUp,
                     connVars, rosterVars
<1>8. CASE UNCHANGED vars
  BY <1>8 DEF vars, connVars, shutVars, rosterVars
<1> QED
  BY Steps, <1>1, <1>2, <1>3, <1>4, <1>5, <1>6, <1>7, <1>8

(* releaseConn moves Serve loops to places there are.                      *)
LEMMA ReleaseTypes ==
    ASSUME serve \in [Listeners -> ServeLabels], connSlots \in Nat,
           NEW l, NEW label \in ServeLabels, ReleaseConn(l, label)
    PROVE  /\ serve' \in [Listeners -> ServeLabels]
           /\ connSlots' \in Nat
           /\ \A k \in Listeners :
                 \/ serve'[k] = serve[k]
                 \/ k = l /\ serve'[k] = label
                 \/ serve[k] = "parked" /\ serve'[k] = "accept"
<1> DEFINE moved == [k \in Listeners |-> IF k = l THEN label ELSE serve[k]]
<1>1. moved \in [Listeners -> ServeLabels]
  OBVIOUS
<1>2. ASSUME MaxConnections > 0 => connSlots > 0, serve' = moved,
             connSlots' = IF MaxConnections > 0 THEN connSlots - 1 ELSE connSlots
      PROVE  /\ serve' \in [Listeners -> ServeLabels]
             /\ connSlots' \in Nat
             /\ \A j \in Listeners : serve'[j] = serve[j] \/ (j = l /\ serve'[j] = label)
  BY <1>1, <1>2
<1>3. ASSUME NEW k \in Listeners, serve[k] = "parked", UNCHANGED connSlots,
             serve' = [moved EXCEPT ![k] = "accept"]
      PROVE  /\ serve' \in [Listeners -> ServeLabels]
             /\ connSlots' \in Nat
             /\ \A j \in Listeners :
                   \/ serve'[j] = serve[j]
                   \/ j = l /\ serve'[j] = label
                   \/ serve[j] = "parked" /\ serve'[j] = "accept"
  BY <1>1, <1>3 DEF ServeLabels
<1> QED
  BY <1>2, <1>3 DEF ReleaseConn

LEMMA PlacesInductive == Places /\ [Next]_vars => Places'
<1> SUFFICES ASSUME Places, [Next]_vars PROVE Places'
  OBVIOUS
<1> USE DEF Places, connVars, shutVars, rosterVars, quiet
<1>1. ASSUME NEW l \in Listeners,
             AddListener(l) \/ CheckDraining(l) \/ AcquireConn(l) \/ Pause(l)
      PROVE  Places'
  BY <1>1 DEF AddListener, CheckDraining, AcquireConn, Pause, ServeLabels
<1>2. ASSUME NEW l \in Listeners, ClassifyAcceptError(l) PROVE Places'
  <2>1. \A d \in 0 .. MaxBackoff : nextAcceptBackoff(d) \in 0 .. MaxBackoff
    BY AgentAssumption DEF nextAcceptBackoff
  <2> QED
    BY <1>2, <2>1 DEF ClassifyAcceptError, ServeLabels
<1>3. ASSUME NEW l \in Listeners, NEW c \in Conns, Accept(l, c) PROVE Places'
  BY <1>3, AgentAssumption DEF Accept, ServeLabels, WorkerLabels
<1>4. ASSUME NEW l \in Listeners, NEW t \in BOOLEAN, AcceptError(l, t) PROVE Places'
  <2>1. PICK label \in {"transient", "permanent"} : ReleaseConn(l, label)
    BY <1>4 DEF AcceptError
  <2>2. label \in ServeLabels
    BY DEF ServeLabels
  <2> QED
    BY <1>4, <2>1, <2>2, ReleaseTypes DEF AcceptError
<1>5. ASSUME NEW l \in Listeners, Track(l) PROVE Places'
  <2>1. have[l] \in Conns
    BY <1>5 DEF Track
  <2>2. CASE MayTrack
    BY <1>5, <2>1, <2>2 DEF Track, ServeLabels, WorkerLabels
  <2>3. CASE ~MayTrack
    <3>1. "late" \in ServeLabels
      BY DEF ServeLabels
    <3>2. ReleaseConn(l, "late") /\ UNCHANGED <<have, conns, wg, worker>>
      BY <1>5, <2>3 DEF Track
    <3> QED
      BY <1>5, <2>1, <3>1, <3>2, ReleaseTypes DEF Track
  <2> QED
    BY <2>2, <2>3
<1>6. ASSUME NEW l \in Listeners, CloseLate(l) \/ CloseListener(l) PROVE Places'
  BY <1>6 DEF CloseLate, CloseListener, ServeLabels, WorkerLabels
<1>7. ASSUME NEW c \in Conns,
             StartHandler(c) \/ HandlerFlag(c) \/ HandlerClose(c) \/ HandlerReturn(c)
      PROVE  Places'
  BY <1>7 DEF StartHandler, HandlerFlag, HandlerClose, HandlerReturn
<1>8. ASSUME NEW c \in Conns,
             WorkerDrain(c) \/ WorkerLeave(c) \/ WorkerClose(c) \/ WorkerCancel(c)
      PROVE  Places'
  BY <1>8 DEF WorkerDrain, WorkerLeave, WorkerClose, WorkerCancel, WorkerLabels
<1>9. ASSUME NEW c \in Conns, Forget(c) \/ WgDone(c) PROVE Places'
  BY <1>9 DEF Forget, WgDone, WorkerLabels
<1>10. ASSUME NEW c \in Conns, FreeSlot(c) PROVE Places'
  <2>1. ReleaseConn("none", "idle")
    BY <1>10, AgentAssumption DEF FreeSlot, ReleaseConn
  <2>2. "idle" \in ServeLabels /\ "gone" \in WorkerLabels /\ "none" \notin Listeners
    BY AgentAssumption DEF ServeLabels, WorkerLabels
  <2> QED
    BY <1>10, <2>1, <2>2, ReleaseTypes DEF FreeSlot
<1>11. ASSUME NEW c \in Conns, PokeConn(c) \/ CloseConn(c) PROVE Places'
  BY <1>11 DEF PokeConn, CloseConn
<1>12. CASE BeginShutdown
  BY <1>12 DEF BeginShutdown, ServeLabels
<1>13. CASE ContextDone \/ Drained \/ GraceExpires \/ SnapshotConns \/ GaveUp
  BY <1>13 DEF ContextDone, Drained, GraceExpires, SnapshotConns, GaveUp
<1>14. CASE UNCHANGED vars
  BY <1>14 DEF vars
<1> QED
  BY Steps, <1>1, <1>2, <1>3, <1>4, <1>5, <1>6, <1>7, <1>8, <1>9, <1>10, <1>11, <1>12,
     <1>13, <1>14

LEMMA InitTypes == Init => Flags /\ Places
<1> SUFFICES ASSUME Init PROVE Flags /\ Places
  OBVIOUS
<1>1. draining \in BOOLEAN /\ cancelled \in BOOLEAN /\ graceOver \in BOOLEAN
  BY Zenon DEF Init
<1>2. handler \in [Conns -> BOOLEAN]
  BY Zenon DEF Init
<1>3. poked \in [Conns -> BOOLEAN] /\ ctxDone \in [Conns -> BOOLEAN]
  BY Zenon DEF Init
<1>4. Places
  BY AgentAssumption DEF Init, Places, ServeLabels, WorkerLabels
<1> QED
  BY <1>1, <1>2, <1>3, <1>4 DEF Flags

(* The state keeps its shape.                                              *)
THEOREM TypeCorrect == Spec => []TypeOK
<1>1. Flags /\ Places => TypeOK
  BY DEF Flags, Places, TypeOK
<1> QED
  BY <1>1, InitTypes, FlagsInductive, PlacesInductive, PTL DEF Spec

-----------------------------------------------------------------------------
(* The connection a Serve loop has in hand is accepted and no more, and no *)
(* two loops have the same.                                                *)
HaveInv ==
    /\ \A l \in Listeners : serve[l] \in {"track", "late"} => worker[have[l]] = "accepted"
    /\ \A l, m \in Listeners :
          l # m /\ serve[l] \in {"track", "late"} /\ serve[m] \in {"track", "late"} =>
              have[l] # have[m]

(* From Track to forget a connection is on the roster, and to wg.Done it   *)
(* counts; only a served one has handlers.  Its closed flag is raised      *)
(* before its context is cancelled, and that is before its worker returns. *)
(* Who raised the flag and has not closed the socket is still there to do  *)
(* so: the worker before it cancels, a handler before it returns.          *)
Returned == {"returned", "forgotten", "done", "gone"}
Tracked == {"serving", "draining", "closing", "cancelling", "returned"}
LifeInv ==
    \A c \in Conns :
        /\ worker[c] \in Tracked => c \in conns
        /\ worker[c] \in Tracked \cup {"forgotten"} => c \in wg
        /\ handler[c] => Served(c)
        /\ worker[c] \in Returned \cup {"cancelling"} => closer[c] \notin {"none", "worker"}
        /\ closer[c] = "worker" => worker[c] = "closing"
        /\ closer[c] = "handler" => handler[c]
        /\ worker[c] \in Returned => ctxDone[c]

LEMMA HaveInductive == Places /\ HaveInv /\ [Next]_vars => HaveInv'
<1> SUFFICES ASSUME Places, HaveInv, [Next]_vars PROVE HaveInv'
  OBVIOUS
<1> USE DEF Places, HaveInv, connVars, shutVars, rosterVars, quiet
(* Steps that put nothing in a loop's hand and leave what is there alone.  *)
<1>q. ASSUME UNCHANGED have,
             \A l \in Listeners : serve'[l] \in {"track", "late"} => serve[l] \in {"track", "late"},
             \A c \in Conns : worker[c] = "accepted" => worker'[c] = "accepted"
      PROVE  HaveInv'
  BY <1>q
<1>1. ASSUME NEW l \in Listeners,
             \/ AddListener(l) \/ CheckDraining(l) \/ AcquireConn(l) \/ Pause(l)
             \/ ClassifyAcceptError(l) \/ CloseListener(l)
      PROVE  HaveInv'
  BY <1>1, <1>q DEF AddListener, CheckDraining, AcquireConn, Pause, ClassifyAcceptError,
                    CloseListener
<1>2. ASSUME NEW l \in Listeners, NEW c \in Conns, Accept(l, c) PROVE HaveInv'
  BY <1>2 DEF Accept
<1>3. ASSUME NEW l \in Listeners, NEW t \in BOOLEAN, AcceptError(l, t) PROVE HaveInv'
  <2>1. PICK label \in {"transient", "permanent"} : ReleaseConn(l, label)
    BY <1>3 DEF AcceptError
  <2>2. label \in ServeLabels
    BY DEF ServeLabels
  <2> QED
    BY <1>3, <1>q, <2>1, <2>2, ReleaseTypes DEF AcceptError
<1>4. ASSUME NEW l \in Listeners, Track(l) PROVE HaveInv'
  <2>1. have[l] \in Conns /\ serve[l] = "track"
    BY <1>4 DEF Track
  <2>2. CASE MayTrack
    BY <1>4, <2>1, <2>2 DEF Track
  <2>3. CASE ~MayTrack
    <3>1. "late" \in ServeLabels
      BY DEF ServeLabels
    <3>2. ReleaseConn(l, "late") /\ UNCHANGED <<have, conns, wg, worker>>
      BY <1>4, <2>3 DEF Track
    <3>3. \A k \in Listeners : serve'[k] \in {"track", "late"} => serve[k] \in {"track", "late"}
      BY <2>1, <3>1, <3>2, ReleaseTypes
    <3> QED
      BY <1>q, <3>2, <3>3
  <2> QED
    BY <2>2, <2>3
<1>5. ASSUME NEW l \in Listeners, CloseLate(l) PROVE HaveInv'
  BY <1>5 DEF CloseLate
<1>6. ASSUME NEW c \in Conns,
             \/ StartHandler(c) \/ HandlerFlag(c) \/ HandlerClose(c) \/ HandlerReturn(c)
             \/ PokeConn(c) \/ CloseConn(c)
      PROVE  HaveInv'
  BY <1>6, <1>q DEF StartHandler, HandlerFlag, HandlerClose, HandlerReturn, PokeConn, CloseConn
<1>7. ASSUME NEW c \in Conns,
             \/ WorkerDrain(c) \/ WorkerLeave(c) \/ WorkerClose(c) \/ WorkerCancel(c)
             \/ Forget(c) \/ WgDone(c)
      PROVE  HaveInv'
  BY <1>7, <1>q DEF WorkerDrain, WorkerLeave, WorkerClose, WorkerCancel, Forget, WgDone
<1>8. ASSUME NEW c \in Conns, FreeSlot(c) PROVE HaveInv'
  <2>1. ReleaseConn("none", "idle")
    BY <1>8, AgentAssumption DEF FreeSlot, ReleaseConn
  <2>2. "idle" \in ServeLabels /\ "none" \notin Listeners
    BY AgentAssumption DEF ServeLabels
  <2> QED
    BY <1>8, <1>q, <2>1, <2>2, ReleaseTypes DEF FreeSlot
<1>9. CASE BeginShutdown
  BY <1>9, <1>q DEF BeginShutdown
<1>10. CASE ContextDone \/ Drained \/ GraceExpires \/ SnapshotConns \/ GaveUp
  BY <1>10, <1>q DEF ContextDone, Drained, GraceExpires, SnapshotConns, GaveUp
<1>11. CASE UNCHANGED vars
  BY <1>11, <1>q DEF vars
<1> QED
  BY Steps, <1>1, <1>2, <1>3, <1>4, <1>5, <1>6, <1>7, <1>8, <1>9, <1>10, <1>11

LEMMA LifeInductive ==
    Flags /\ Places /\ HaveInv /\ LifeInv /\ [Next]_vars => LifeInv'
<1> SUFFICES ASSUME Flags, Places, HaveInv, LifeInv, [Next]_vars PROVE LifeInv'
  OBVIOUS
<1> USE DEF Flags, Places, LifeInv, Returned, Tracked, Served, connVars, shutVars, rosterVars,
        quiet
(* Steps that leave the connections alone.                                 *)
<1>q. ASSUME UNCHANGED <<worker, handler, closer, ctxDone, conns, wg>> PROVE LifeInv'
  BY <1>q
<1>1. ASSUME NEW l \in Listeners,
             \/ AddListener(l) \/ CheckDraining(l) \/ AcquireConn(l) \/ Pause(l)
             \/ ClassifyAcceptError(l) \/ CloseListener(l)
             \/ \E t \in BOOLEAN : AcceptError(l, t)
      PROVE  LifeInv'
  BY <1>1, <1>q DEF AddListener, CheckDraining, AcquireConn, Pause, ClassifyAcceptError,
                    CloseListener, AcceptError
<1>2. ASSUME NEW l \in Listeners, NEW c \in Conns, Accept(l, c) PROVE LifeInv'
  BY <1>2 DEF Accept
<1>3. ASSUME NEW l \in Listeners, Track(l) PROVE LifeInv'
  <2>1. CASE MayTrack
    BY <1>3, <2>1 DEF Track, HaveInv
  <2>2. CASE ~MayTrack
    BY <1>3, <1>q, <2>2 DEF Track
  <2> QED
    BY <2>1, <2>2
<1>4. ASSUME NEW l \in Listeners, CloseLate(l) PROVE LifeInv'
  BY <1>4 DEF CloseLate, HaveInv
<1>5. ASSUME NEW c \in Conns, StartHandler(c) \/ HandlerReturn(c) PROVE LifeInv'
  BY <1>5 DEF StartHandler, HandlerReturn
<1>6. ASSUME NEW c \in Conns, HandlerFlag(c) \/ HandlerClose(c) \/ CloseConn(c) PROVE LifeInv'
  BY <1>6 DEF HandlerFlag, HandlerClose, CloseConn
<1>7. ASSUME NEW c \in Conns, WorkerDrain(c) \/ WorkerLeave(c) PROVE LifeInv'
  BY <1>7 DEF WorkerDrain, WorkerLeave
<1>8. ASSUME NEW c \in Conns, WorkerClose(c) PROVE LifeInv'
  BY <1>8 DEF WorkerClose
<1>9. ASSUME NEW c \in Conns, WorkerCancel(c) PROVE LifeInv'
  BY <1>9 DEF WorkerCancel
<1>10. ASSUME NEW c \in Conns, Forget(c) \/ WgDone(c) \/ FreeSlot(c) PROVE LifeInv'
  BY <1>10 DEF Forget, WgDone, FreeSlot
<1>11. ASSUME NEW c \in Conns, PokeConn(c) PROVE LifeInv'
  BY <1>11, <1>q DEF PokeConn
<1>12. CASE \/ BeginShutdown \/ ContextDone \/ Drained \/ GraceExpires \/ SnapshotConns
            \/ GaveUp \/ UNCHANGED vars
  BY <1>12, <1>q DEF BeginShutdown, ContextDone, Drained, GraceExpires, SnapshotConns, GaveUp, vars
<1> QED
  BY Steps, <1>1, <1>2, <1>3, <1>4, <1>5, <1>6, <1>7, <1>8, <1>9, <1>10, <1>11, <1>12

(* Where Shutdown is, and what it has got done by then: until it has gone  *)
(* through its first snapshot, whom it has not woken is still in it; after *)
(* that nothing is left to wake.  closeAll's snapshot likewise: whose flag *)
(* is down, and whose socket closeAll has still to close, is in it.        *)
ShutInv ==
    /\ draining <=> shut # "idle"
    /\ draining => \A c \in Conns :
          worker[c] \in {"serving", "draining"} => poked[c] \/ (shut = "waking" /\ c \in todo)
    /\ shut = "nil" => wg = {}
    /\ shut \in {"expired", "closing", "ctxErr"} => cancelled
    /\ shut = "closing" => \A c \in conns : closer[c] # "none" \/ c \in todo
    /\ shut = "ctxErr" => \A c \in conns : closer[c] # "none"
    /\ \A c \in Conns : closer[c] = "agent" => shut = "closing" /\ c \in todo

LEMMA ShutInductive ==
    Flags /\ Places /\ LifeInv /\ ShutInv /\ [Next]_vars => ShutInv'
<1> SUFFICES ASSUME Flags, Places, LifeInv, ShutInv, [Next]_vars PROVE ShutInv'
  OBVIOUS
<1> USE DEF Flags, Places, ShutInv, connVars, shutVars, rosterVars, quiet
(* Steps of Serve loops and connections: nothing is added to the roster,   *)
(* to wg or to those that have to be woken, and nothing is undone.         *)
<1>q. ASSUME UNCHANGED <<draining, cancelled, shut, todo>>,
             conns' \subseteq conns, wg' \subseteq wg,
             \A c \in Conns : /\ poked[c] => poked'[c]
                              /\ closer[c] # "none" => closer'[c] # "none"
                              /\ closer'[c] = "agent" => closer[c] = "agent"
                              /\ worker'[c] \in {"serving", "draining"} =>
                                    worker[c] \in {"serving", "draining"}
      PROVE  ShutInv'
  BY <1>q
<1>1. ASSUME NEW l \in Listeners,
             \/ AddListener(l) \/ CheckDraining(l) \/ AcquireConn(l) \/ Pause(l)
             \/ ClassifyAcceptError(l) \/ \E t \in BOOLEAN : AcceptError(l, t)
      PROVE  ShutInv'
  BY <1>1, <1>q DEF AddListener, CheckDraining, AcquireConn, Pause, ClassifyAcceptError,
                    AcceptError
<1>2. ASSUME NEW l \in Listeners, NEW c \in Conns, Accept(l, c) PROVE ShutInv'
  BY <1>2, <1>q DEF Accept
(* track adds to the roster, but not once draining is set.                 *)
<1>3. ASSUME NEW l \in Listeners, Track(l) PROVE ShutInv'
  <2>1. CASE MayTrack
    BY <1>3, <2>1 DEF Track, MayTrack
  <2>2. CASE ~MayTrack
    BY <1>3, <1>q, <2>2 DEF Track
  <2> QED
    BY <2>1, <2>2
<1>4. ASSUME NEW l \in Listeners, CloseLate(l) PROVE ShutInv'
  BY <1>4, <1>q DEF CloseLate
<1>5. ASSUME NEW c \in Conns,
             StartHandler(c) \/ HandlerReturn(c) \/ HandlerFlag(c) \/ HandlerClose(c)
      PROVE  ShutInv'
  BY <1>5, <1>q DEF StartHandler, HandlerReturn, HandlerFlag, HandlerClose
<1>6. ASSUME NEW c \in Conns, WorkerDrain(c) \/ WorkerLeave(c) \/ WorkerCancel(c) PROVE ShutInv'
  BY <1>6, <1>q DEF WorkerDrain, WorkerLeave, WorkerCancel
<1>7. ASSUME NEW c \in Conns, WorkerClose(c) PROVE ShutInv'
  BY <1>7, <1>q DEF WorkerClose
<1>8. ASSUME NEW c \in Conns, Forget(c) \/ WgDone(c) \/ FreeSlot(c) PROVE ShutInv'
  BY <1>8, <1>q DEF Forget, WgDone, FreeSlot
<1>9. CASE BeginShutdown
  BY <1>9 DEF BeginShutdown, LifeInv, Tracked
<1>10. ASSUME NEW l \in Listeners, CloseListener(l) PROVE ShutInv'
  BY <1>10, AgentAssumption DEF CloseListener
<1>11. ASSUME NEW c \in Conns, PokeConn(c) PROVE ShutInv'
  BY <1>11 DEF PokeConn
<1>12. CASE Drained \/ GraceExpires
  BY <1>12 DEF Drained, GraceExpires
<1>13. CASE SnapshotConns \/ GaveUp
  BY <1>13 DEF SnapshotConns, GaveUp
<1>14. ASSUME NEW c \in Conns, CloseConn(c) PROVE ShutInv'
  BY <1>14 DEF CloseConn
<1>15. CASE ContextDone \/ UNCHANGED vars
  BY <1>15, <1>q DEF ContextDone, vars
<1> QED
  BY Steps, <1>1, <1>2, <1>3, <1>4, <1>5, <1>6, <1>7, <1>8, <1>9, <1>10, <1>11, <1>12,
     <1>13, <1>14, <1>15

AgentInv == Flags /\ Places /\ HaveInv /\ LifeInv /\ ShutInv

LEMMA Invariance == Spec => []AgentInv
<1>1. Init => AgentInv
  <2>1. Init => HaveInv /\ LifeInv /\ ShutInv
    BY DEF Init, HaveInv, LifeInv, ShutInv, Tracked, Returned
  <2> QED
    BY <2>1, InitTypes DEF AgentInv
<1>2. AgentInv /\ [Next]_vars => AgentInv'
  BY FlagsInductive, PlacesInductive, HaveInductive, LifeInductive, ShutInductive DEF AgentInv
<1> QED
  BY <1>1, <1>2, PTL DEF Spec

(* No connection slips past Shutdown's snapshot, whatever track and        *)
(* Shutdown's critical section race.                                       *)
THEOREM NobodyMissed == Spec => []EveryConnWoken
<1>1. AgentInv => EveryConnWoken
  BY DEF AgentInv, ShutInv, EveryConnWoken
<1> QED
  BY <1>1, Invariance, PTL

(* A nil return of Shutdown: every handler has returned or been cancelled  *)
(* by its worker, and every tracked socket is closed, but for the one that *)
(* a handler still running has the close of before it.                     *)
THEOREM NilReturn == Spec => []NilMeansFinishedOrCancelled
<1>1. AgentInv => NilMeansFinishedOrCancelled
  BY DEF AgentInv, Places, LifeInv, ShutInv, NilMeansFinishedOrCancelled, Served, Tracked,
         Returned, WorkerLabels
<1> QED
  BY <1>1, Invariance, PTL

(* Any other return: the handlers are cancelled, and the flag of whatever  *)
(* is still on the roster is raised, its socket closed by closeAll or left *)
(* to the goroutine of the connection that raised the flag first and has   *)
(* not got further.                                                        *)
THEOREM GiveUpReturn == Spec => []GiveUpClosesAll
<1>1. AgentInv => GiveUpClosesAll
  BY DEF AgentInv, Places, LifeInv, ShutInv, GiveUpClosesAll
<1> QED
  BY <1>1, Invariance, PTL

-----------------------------------------------------------------------------
(* Only Shutdown closes a listener, and only past its critical section.    *)
ClosedInv == lclosed # {} => draining

LEMMA ClosedInductive == AgentInv /\ ClosedInv /\ [Next]_vars => ClosedInv'
<1> SUFFICES ASSUME AgentInv, ClosedInv, [Next]_vars PROVE ClosedInv'
  OBVIOUS
<1>q. ASSUME UNCHANGED <<draining, lclosed>> PROVE ClosedInv'
  BY <1>q DEF ClosedInv
<1> USE DEF connVars, shutVars, rosterVars, quiet
<1>1. ASSUME NEW l \in Listeners, CloseListener(l) PROVE ClosedInv'
  BY <1>1 DEF CloseListener, ClosedInv, AgentInv, ShutInv
<1>2. CASE BeginShutdown
  BY <1>2 DEF BeginShutdown, ClosedInv
<1>3. ASSUME NEW l \in Listeners,
             \/ AddListener(l) \/ CheckDraining(l) \/ AcquireConn(l)
             \/ ClassifyAcceptError(l) \/ Pause(l) \/ Track(l) \/ CloseLate(l)
             \/ \E c \in Conns : Accept(l, c)
             \/ \E t \in BOOLEAN : AcceptError(l, t)
      PROVE  ClosedInv'
  BY <1>3, <1>q DEF AddListener, CheckDraining, AcquireConn, ClassifyAcceptError, Pause, Track,
                    CloseLate, Accept, AcceptError
<1>4. ASSUME NEW c \in Conns,
             \/ StartHandler(c) \/ HandlerFlag(c) \/ HandlerClose(c) \/ HandlerReturn(c)
             \/ WorkerDrain(c) \/ WorkerLeave(c) \/ WorkerClose(c) \/ WorkerCancel(c)
             \/ Forget(c) \/ WgDone(c) \/ FreeSlot(c) \/ PokeConn(c) \/ CloseConn(c)
      PROVE  ClosedInv'
  BY <1>4, <1>q DEF StartHandler, HandlerFlag, HandlerClose, HandlerReturn, WorkerDrain,
                    WorkerLeave, WorkerClose, WorkerCancel, Forget, WgDone, FreeSlot, PokeConn,
                    CloseConn
<1>5. CASE \/ ContextDone \/ Drained \/ GraceExpires \/ SnapshotConns \/ GaveUp
           \/ UNCHANGED vars
  BY <1>5, <1>q DEF ContextDone, Drained, GraceExpires, SnapshotConns, GaveUp, vars
<1> QED
  BY Steps, <1>1, <1>2, <1>3, <1>4, <1>5

(* A Serve loop comes to report a failed listener by classifying its error *)
(* while nobody drains, and in no other step.                              *)
NoNewError == \A k \in Listeners : serve'[k] = "error" => serve[k] = "error"

LEMMA ErrorStep == AgentInv /\ draining /\ [Next]_vars => NoNewError
<1> SUFFICES ASSUME AgentInv, draining, [Next]_vars PROVE NoNewError
  OBVIOUS
<1>p. Places
  BY DEF AgentInv
<1>q. ASSUME serve' = serve PROVE NoNewError
  BY <1>q DEF NoNewError
<1>s. ASSUME NEW l \in Listeners, NEW label, label # "error", serve' = [serve EXCEPT ![l] = label]
      PROVE  NoNewError
  BY <1>s, <1>p DEF Places, NoNewError
<1>r. ASSUME NEW l, NEW label \in ServeLabels \ {"error"}, ReleaseConn(l, label)
      PROVE  NoNewError
  BY <1>r, <1>p, ReleaseTypes DEF Places, NoNewError
<1> USE DEF connVars, shutVars, rosterVars, quiet
<1>1. ASSUME NEW l \in Listeners, AddListener(l) \/ Pause(l) PROVE NoNewError
  BY <1>1, <1>s, Zenon DEF AddListener, Pause
<1>2. ASSUME NEW l \in Listeners, CheckDraining(l) \/ AcquireConn(l) PROVE NoNewError
  BY <1>2, <1>s, Zenon DEF CheckDraining, AcquireConn
<1>3. ASSUME NEW l \in Listeners, ClassifyAcceptError(l) \/ CloseLate(l) PROVE NoNewError
  BY <1>3, <1>s, Zenon DEF ClassifyAcceptError, CloseLate
<1>4. ASSUME NEW l \in Listeners, NEW c \in Conns, Accept(l, c) PROVE NoNewError
  BY <1>4, <1>p DEF Accept, Places, NoNewError
<1>5. ASSUME NEW l \in Listeners, CloseListener(l) PROVE NoNewError
  BY <1>5, <1>q, Zenon DEF CloseListener
<1>6. ASSUME NEW l \in Listeners, NEW t \in BOOLEAN, AcceptError(l, t) PROVE NoNewError
  BY <1>6, <1>r DEF AcceptError, ServeLabels
<1>7. ASSUME NEW l \in Listeners, Track(l) PROVE NoNewError
  BY <1>7, <1>r DEF Track, MayTrack, ServeLabels
<1>8. ASSUME NEW c \in Conns,
             \/ StartHandler(c) \/ HandlerFlag(c) \/ HandlerClose(c) \/ HandlerReturn(c)
             \/ WorkerDrain(c) \/ WorkerLeave(c) \/ WorkerClose(c) \/ WorkerCancel(c)
             \/ Forget(c) \/ WgDone(c) \/ PokeConn(c) \/ CloseConn(c)
      PROVE  NoNewError
  BY <1>8, <1>q, Zenon DEF StartHandler, HandlerFlag, HandlerClose, HandlerReturn, WorkerDrain,
                           WorkerLeave, WorkerClose, WorkerCancel, Forget, WgDone, PokeConn,
                           CloseConn
<1>9. ASSUME NEW c \in Conns, FreeSlot(c) PROVE NoNewError
  <2>1. ReleaseConn("none", "idle")
    BY <1>9, AgentAssumption DEF FreeSlot, ReleaseConn
  <2> QED
    BY <2>1, <1>r DEF ServeLabels
<1>10. CASE BeginShutdown
  BY <1>10, <1>p DEF BeginShutdown, Places, NoNewError
<1>11. CASE \/ ContextDone \/ Drained \/ GraceExpires \/ SnapshotConns \/ GaveUp
           \/ UNCHANGED vars
  BY <1>11, <1>q, Zenon DEF ContextDone, Drained, GraceExpires, SnapshotConns, GaveUp, vars
<1> QED
  BY Steps, <1>1, <1>2, <1>3, <1>4, <1>5, <1>6, <1>7, <1>8, <1>9, <1>10, <1>11

(* Serve returns the error of a listener that Shutdown closed as           *)
(* ErrShutdown: whatever Accept failed with, the loop looks at draining    *)
(* after it, and draining was set before the listener was closed.          *)
THEOREM ClosedIsShutdown == Spec => ShutdownIsNotAnError
<1>1. Init => ClosedInv
  BY DEF Init, ClosedInv
<1>2. AgentInv /\ ClosedInv /\ [Next]_vars =>
         [\A l \in Listeners : serve[l] # "error" /\ serve'[l] = "error" => l \notin lclosed]_vars
  BY ErrorStep DEF ClosedInv, NoNewError
<1> QED
  BY <1>1, <1>2, ClosedInductive, Invariance, PTL DEF Spec, ShutdownIsNotAnError

-----------------------------------------------------------------------------
(* The refinement of Connection.                                           *)
(* Only a connection that got a worker is closed by anyone but Serve       *)
(* itself, and only such are on the roster and in closeAll's snapshot.     *)
OpenInv ==
    /\ \A c \in Conns : worker[c] \in {"none", "accepted"} => closer[c] = "none"
    /\ \A c \in conns : Served(c)
    /\ shut = "closing" => \A c \in Conns : c \in todo => Served(c)

LEMMA OpenInductive == AgentInv /\ OpenInv /\ [Next]_vars => OpenInv'
<1> SUFFICES ASSUME AgentInv, OpenInv, [Next]_vars PROVE OpenInv'
  OBVIOUS
<1> USE DEF AgentInv, Flags, Places, OpenInv, Served, connVars, shutVars, rosterVars, quiet
(* Steps that close nothing that has no worker, and put nothing without    *)
(* one on a list.                                                          *)
<1>q. ASSUME conns' \subseteq conns, shut' = "closing" => shut = "closing" /\ todo' \subseteq todo,
             \A c \in Conns : /\ Served(c) => Served(c)'
                              /\ Served(c)' => Served(c)
                              /\ worker'[c] \in {"none", "accepted"} =>
                                    worker[c] \in {"none", "accepted"} /\ closer'[c] = closer[c]
      PROVE  OpenInv'
  BY <1>q
<1>1. ASSUME NEW l \in Listeners,
             \/ AddListener(l) \/ CheckDraining(l) \/ AcquireConn(l) \/ Pause(l)
             \/ ClassifyAcceptError(l) \/ CloseListener(l)
             \/ \E t \in BOOLEAN : AcceptError(l, t)
      PROVE  OpenInv'
  BY <1>1, <1>q DEF AddListener, CheckDraining, AcquireConn, Pause, ClassifyAcceptError,
                    CloseListener, AcceptError
<1>2. ASSUME NEW l \in Listeners, NEW c \in Conns, Accept(l, c) PROVE OpenInv'
  BY <1>2, <1>q DEF Accept
<1>3. ASSUME NEW l \in Listeners, Track(l) PROVE OpenInv'
  <2>1. CASE MayTrack
    BY <1>3, <2>1 DEF Track
  <2>2. CASE ~MayTrack
    BY <1>3, <1>q, <2>2 DEF Track
  <2> QED
    BY <2>1, <2>2
<1>4. ASSUME NEW l \in Listeners, CloseLate(l) PROVE OpenInv'
  BY <1>4, <1>q DEF CloseLate, HaveInv
<1>5. ASSUME NEW c \in Conns, StartHandler(c) \/ HandlerReturn(c) \/ PokeConn(c) PROVE OpenInv'
  BY <1>5, <1>q DEF StartHandler, HandlerReturn, PokeConn
<1>6. ASSUME NEW c \in Conns, HandlerFlag(c) \/ HandlerClose(c) PROVE OpenInv'
  BY <1>6, <1>q DEF HandlerFlag, HandlerClose, LifeInv
<1>7. ASSUME NEW c \in Conns, CloseConn(c) PROVE OpenInv'
  BY <1>7, <1>q DEF CloseConn
<1>8. ASSUME NEW c \in Conns, WorkerDrain(c) \/ WorkerLeave(c) \/ WorkerCancel(c) PROVE OpenInv'
  BY <1>8, <1>q DEF WorkerDrain, WorkerLeave, WorkerCancel
<1>9. ASSUME NEW c \in Conns, WorkerClose(c) PROVE OpenInv'
  BY <1>9, <1>q DEF WorkerClose
<1>10. ASSUME NEW c \in Conns, Forget(c) \/ WgDone(c) \/ FreeSlot(c) PROVE OpenInv'
  BY <1>10, <1>q DEF Forget, WgDone, FreeSlot
<1>11. CASE SnapshotConns
  BY <1>11 DEF SnapshotConns
<1>12. CASE \/ BeginShutdown \/ ContextDone \/ Drained \/ GraceExpires \/ GaveUp \/ UNCHANGED vars
  BY <1>12, <1>q DEF BeginShutdown, ContextDone, Drained, GraceExpires, GaveUp, vars
<1> QED
  BY Steps, <1>1, <1>2, <1>3, <1>4, <1>5, <1>6, <1>7, <1>8, <1>9, <1>10, <1>11, <1>12

-----------------------------------------------------------------------------
LEMMA InitRefines == Init => \A c \in Conns : Conn(c)!Init
  BY DEF Init, Conn!Init, Stage, Served

(* A step that changes nothing of what c shows is a stutter of c.          *)
LEMMA Stutter ==
    ASSUME NEW c, UNCHANGED <<draining, cancelled>>, Stage(c)' = Stage(c),
           handler'[c] = handler[c], poked'[c] = poked[c], ctxDone'[c] = ctxDone[c],
           (IF Served(c) THEN closer[c] ELSE "none")' = IF Served(c) THEN closer[c] ELSE "none"
    PROVE  [Conn(c)!Next]_(Conn(c)!vars)
  BY DEF Conn!vars

(* Every step of the agent is, for each connection, a step of Connection   *)
(* or none.                                                                *)
LEMMA StepRefines ==
    ASSUME AgentInv, OpenInv, [Next]_vars, NEW c \in Conns
    PROVE  [Conn(c)!Next]_(Conn(c)!vars)
<1> DEFINE Goal == [Conn(c)!Next]_(Conn(c)!vars)
<1> USE DEF connVars, shutVars, rosterVars, quiet
<1>0. /\ worker \in [Conns -> WorkerLabels] /\ handler \in [Conns -> BOOLEAN]
      /\ closer \in [Conns -> {"none", "handler", "worker", "agent", "closed"}]
      /\ poked \in [Conns -> BOOLEAN] /\ ctxDone \in [Conns -> BOOLEAN]
  BY DEF AgentInv, Flags, Places
<1> USE <1>0
(* Steps that leave c alone.                                               *)
<1>q. ASSUME draining' = draining, cancelled' = cancelled, worker'[c] = worker[c],
             handler'[c] = handler[c], closer'[c] = closer[c],
             poked'[c] = poked[c], ctxDone'[c] = ctxDone[c]
      PROVE  Goal
  BY <1>q, Stutter DEF Stage, Served
<1> HIDE DEF Goal
<1>1. ASSUME NEW l \in Listeners,
             \/ AddListener(l) \/ CheckDraining(l) \/ AcquireConn(l) \/ Pause(l)
             \/ ClassifyAcceptError(l) \/ CloseListener(l)
             \/ \E t \in BOOLEAN : AcceptError(l, t)
      PROVE  Goal
  BY <1>1, <1>q DEF AddListener, CheckDraining, AcquireConn, Pause, ClassifyAcceptError,
                    CloseListener, AcceptError
(* Accepted, tracked or turned away, the connection looks the same.        *)
<1>2. ASSUME NEW l \in Listeners, NEW d \in Conns, Accept(l, d) PROVE Goal
  <2>1. /\ UNCHANGED <<draining, cancelled, handler, closer, poked, ctxDone>>
        /\ Stage(c)' = Stage(c) /\ Served(c)' = Served(c)
    BY <1>2 DEF Accept, Stage, Served
  <2> QED
    BY <2>1, Stutter, Zenon DEF Goal
<1>3. ASSUME NEW l \in Listeners, Track(l) PROVE Goal
  <2>1. have[l] \in Conns /\ worker[have[l]] = "accepted" /\ closer[have[l]] = "none"
    BY <1>3 DEF Track, AgentInv, Places, HaveInv, OpenInv
  <2>2. UNCHANGED <<draining, cancelled, handler, closer, poked, ctxDone>>
    BY <1>3 DEF Track
  <2>3. CASE MayTrack /\ have[l] = c
    <3>1. worker'[c] = "serving"
      BY <1>3, <2>1, <2>3 DEF Track
    <3>2. Stage(c)' = Stage(c) /\ closer[c] = "none" /\ closer'[c] = "none"
      BY <2>1, <2>2, <2>3, <3>1 DEF Stage
    <3> QED
      BY <2>2, <3>2, Stutter, Zenon DEF Goal
  <2>4. CASE ~MayTrack \/ have[l] # c
    <3>1. worker'[c] = worker[c]
      BY <1>3, <2>1, <2>4 DEF Track
    <3> QED
      BY <1>q, <2>2, <3>1
  <2> QED
    BY <2>3, <2>4
<1>4. ASSUME NEW l \in Listeners, CloseLate(l) PROVE Goal
  <2>1. /\ have[l] \in Conns /\ worker[have[l]] = "accepted"
        /\ UNCHANGED <<draining, cancelled, handler, poked, ctxDone>>
    BY <1>4 DEF CloseLate, AgentInv, Places, HaveInv
  <2>2. CASE have[l] = c
    <3>1. worker'[c] = "refused" /\ worker[c] = "accepted"
      BY <1>4, <2>1, <2>2 DEF CloseLate
    <3>2. Stage(c)' = Stage(c) /\ ~Served(c) /\ ~Served(c)'
      BY <3>1 DEF Stage, Served
    <3> QED
      BY <2>1, <3>2, Stutter, Zenon DEF Goal
  <2>3. CASE have[l] # c
    <3>1. worker'[c] = worker[c]
      BY <1>4, <2>1, <2>3 DEF CloseLate
    <3>2. closer'[c] = closer[c]
      BY <1>4, <2>1, <2>3, Zenon DEF CloseLate
    <3> QED
      BY <1>q, <2>1, <3>1, <3>2
  <2> QED
    BY <2>2, <2>3
(* The steps of another connection.                                        *)
<1>5. ASSUME NEW d \in Conns, d # c,
             \/ StartHandler(d) \/ HandlerFlag(d) \/ HandlerClose(d) \/ HandlerReturn(d)
             \/ WorkerDrain(d) \/ WorkerLeave(d) \/ WorkerClose(d) \/ WorkerCancel(d)
      PROVE  Goal
  BY <1>5, <1>q DEF StartHandler, HandlerFlag, HandlerClose, HandlerReturn, WorkerDrain,
                    WorkerLeave, WorkerClose, WorkerCancel
<1>6. ASSUME NEW d \in Conns, d # c,
             Forget(d) \/ WgDone(d) \/ FreeSlot(d) \/ PokeConn(d) \/ CloseConn(d)
      PROVE  Goal
  BY <1>6, <1>q DEF Forget, WgDone, FreeSlot, PokeConn, CloseConn
(* The connection's own.                                                   *)
<1>7. ASSUME NEW d \in Conns, d = c, StartHandler(d) PROVE Goal
  <2>1. /\ Stage(c) = "serving" /\ ~handler[c] /\ handler'[c]
        /\ UNCHANGED <<draining, cancelled, worker, closer, poked, ctxDone>>
    BY <1>7 DEF StartHandler, Stage
  <2> QED
    BY <2>1 DEF Goal, Conn!Next, Conn!StartHandler, Stage, Served
<1>8. ASSUME NEW d \in Conns, d = c, HandlerFlag(d) \/ HandlerClose(d) PROVE Goal
  <2>1. /\ handler[c] /\ Served(c)
        /\ UNCHANGED <<draining, cancelled, worker, handler, poked, ctxDone>>
        /\ \/ closer[c] = "none" /\ closer'[c] = "handler"
           \/ closer[c] = "handler" /\ closer'[c] = "closed"
    BY <1>8 DEF HandlerFlag, HandlerClose, AgentInv, LifeInv
  <2> QED
    BY <2>1 DEF Goal, Conn!Next, Conn!HandlerFlag, Conn!HandlerClose, Stage, Served
<1>9. ASSUME NEW d \in Conns, d = c, HandlerReturn(d) PROVE Goal
  <2>1. /\ handler[c] /\ ~handler'[c] /\ (Served(c) => closer[c] # "handler")
        /\ UNCHANGED <<draining, cancelled, worker, closer, poked, ctxDone>>
    BY <1>9 DEF HandlerReturn
  <2> QED
    BY <2>1 DEF Goal, Conn!Next, Conn!HandlersDone, Stage, Served
<1>10. ASSUME NEW d \in Conns, d = c, WorkerDrain(d) PROVE Goal
  <2>1. /\ worker[c] = "serving" /\ draining /\ worker'[c] = "draining"
        /\ UNCHANGED <<draining, cancelled, handler, closer, poked, ctxDone>>
    BY <1>10 DEF WorkerDrain
  <2> QED
    BY <2>1 DEF Goal, Conn!Next, Conn!Drain, Stage, Served
<1>11. ASSUME NEW d \in Conns, d = c, WorkerLeave(d) PROVE Goal
  <2>1. /\ worker[c] = "serving" \/ (worker[c] = "draining" /\ ~handler[c])
        /\ worker'[c] = "closing"
        /\ UNCHANGED <<draining, cancelled, handler, closer, poked, ctxDone>>
    BY <1>11 DEF WorkerLeave
  <2> QED
    BY <2>1 DEF Goal, Conn!Next, Conn!Leave, Stage, Served
<1>12. ASSUME NEW d \in Conns, d = c, WorkerClose(d) PROVE Goal
  <2>1. /\ worker[c] = "closing"
        /\ UNCHANGED <<draining, cancelled, handler, poked, ctxDone>>
    BY <1>12 DEF WorkerClose
  <2>2. CASE closer[c] = "none" /\ closer'[c] = "worker" /\ worker'[c] = "closing"
    BY <2>1, <2>2 DEF Goal, Conn!Next, Conn!RaiseFlag, Stage, Served
  <2>3. CASE /\ worker'[c] = "cancelling" /\ closer[c] # "none"
             /\ closer'[c] = IF closer[c] = "worker" THEN "closed" ELSE closer[c]
    BY <2>1, <2>3 DEF Goal, Conn!Next, Conn!Close, Stage, Served
  <2> QED
    BY <1>12, <2>2, <2>3 DEF WorkerClose
<1>13. ASSUME NEW d \in Conns, d = c, WorkerCancel(d) PROVE Goal
  <2>1. /\ worker[c] = "cancelling" /\ worker'[c] = "returned" /\ ctxDone'[c]
        /\ UNCHANGED <<draining, cancelled, handler, poked, closer>>
    BY <1>13 DEF WorkerCancel
  <2> QED
    BY <2>1 DEF Goal, Conn!Next, Conn!Cancel, Stage, Served
<1>14. ASSUME NEW d \in Conns, d = c, Forget(d) \/ WgDone(d) \/ FreeSlot(d) PROVE Goal
  <2>1. /\ Stage(c)' = Stage(c) /\ Served(c) /\ Served(c)'
        /\ UNCHANGED <<draining, cancelled, handler, closer, poked, ctxDone>>
    BY <1>14 DEF Forget, WgDone, FreeSlot, Stage, Served
  <2> QED
    BY <2>1, Stutter, Zenon DEF Goal
(* Shutdown's.                                                             *)
<1>15. ASSUME NEW d \in Conns, d = c, PokeConn(d) PROVE Goal
  <2>1. /\ draining /\ poked'[c]
        /\ UNCHANGED <<draining, cancelled, worker, handler, closer, ctxDone>>
    BY <1>15 DEF PokeConn, AgentInv, ShutInv
  <2> QED
    BY <2>1 DEF Goal, Conn!Next, Conn!Poke, Stage, Served
<1>16. ASSUME NEW d \in Conns, d = c, CloseConn(d) PROVE Goal
  <2>1. /\ draining /\ cancelled /\ Served(c)
        /\ UNCHANGED <<draining, cancelled, worker, handler, poked, ctxDone>>
    BY <1>16 DEF CloseConn, AgentInv, ShutInv, OpenInv
  <2>2. CASE closer[c] = "none" /\ closer'[c] = "agent"
    BY <2>1, <2>2 DEF Goal, Conn!Next, Conn!ForceFlag, Stage, Served
  <2>3. CASE closer[c] = "agent" /\ closer'[c] = "closed"
    BY <2>1, <2>3 DEF Goal, Conn!Next, Conn!ForceClose, Stage, Served
  <2>4. CASE closer'[c] = closer[c]
    BY <2>1, <2>4, <1>q
  <2> QED
    BY <1>16, <2>2, <2>3, <2>4 DEF CloseConn
<1>17. ASSUME BeginShutdown PROVE Goal
  <2>1. /\ ~draining /\ draining'
        /\ UNCHANGED <<cancelled, worker, handler, closer, poked, ctxDone>>
    BY <1>17 DEF BeginShutdown, AgentInv, ShutInv
  <2> QED
    BY <2>1 DEF Goal, Conn!Next, Conn!BeginDrain, Stage, Served
<1>18. ASSUME Drained \/ GraceExpires PROVE Goal
  <2>1. /\ draining /\ cancelled'
        /\ UNCHANGED <<draining, worker, handler, closer, poked, ctxDone>>
    BY <1>18 DEF Drained, GraceExpires, AgentInv, ShutInv
  <2> QED
    BY <2>1 DEF Goal, Conn!Next, Conn!ForceCancel, Stage, Served
<1>19. ASSUME ContextDone \/ SnapshotConns \/ GaveUp \/ UNCHANGED vars PROVE Goal
  <2>1. /\ draining' = draining /\ cancelled' = cancelled /\ worker' = worker
        /\ handler' = handler /\ closer' = closer /\ poked' = poked /\ ctxDone' = ctxDone
    BY <1>19 DEF ContextDone, SnapshotConns, GaveUp, vars
  <2> QED
    BY <2>1, <1>q, Zenon
<1>20. Goal
  <2>1. ASSUME NEW l \in Listeners,
               \/ AddListener(l) \/ CheckDraining(l) \/ AcquireConn(l)
               \/ ClassifyAcceptError(l) \/ Pause(l) \/ Track(l) \/ CloseLate(l)
               \/ (\E d \in Conns : Accept(l, d))
               \/ (\E transient \in BOOLEAN : AcceptError(l, transient))
               \/ CloseListener(l)
        PROVE  Goal
    BY <2>1, <1>1, <1>2, <1>3, <1>4
  <2>2. ASSUME NEW d \in Conns,
               \/ StartHandler(d) \/ HandlerFlag(d) \/ HandlerClose(d) \/ HandlerReturn(d)
               \/ WorkerDrain(d) \/ WorkerLeave(d) \/ WorkerClose(d) \/ WorkerCancel(d)
               \/ Forget(d) \/ WgDone(d) \/ FreeSlot(d) \/ PokeConn(d) \/ CloseConn(d)
        PROVE  Goal
    <3>1. CASE d = c
      BY <2>2, <3>1, <1>7, <1>8, <1>9, <1>10, <1>11, <1>12, <1>13, <1>14, <1>15, <1>16
    <3>2. CASE d # c
      BY <2>2, <3>2, <1>5, <1>6
    <3> QED
      BY <3>1, <3>2
  <2> QED
    BY Steps, <2>1, <2>2, <1>17, <1>18, <1>19
<1> QED
  BY <1>20 DEF Goal

(* Whatever Serve, Shutdown and its goroutines do, each connection of the  *)
(* agent behaves as the Connection that a Worker implements: the three who *)
(* may close it included, whichever raises the flag while another is       *)
(* between its flag and its socket.                                        *)
THEOREM AgentServesConnections == Spec => ImplementsConnections
<1>1. Init => OpenInv
  BY DEF Init, OpenInv
<1>2. Spec => [](AgentInv /\ OpenInv)
  BY <1>1, Invariance, OpenInductive, PTL DEF Spec
<1>3. AgentInv /\ OpenInv /\ [Next]_vars =>
        [\A c \in Conns : [Conn(c)!Next]_(Conn(c)!vars)]_vars
  BY StepRefines
<1> QED
  BY <1>2, <1>3, InitRefines, PTL DEF Spec, ImplementsConnections

-----------------------------------------------------------------------------
(* WithMaxConnections: connSlots counts those who owe it a receive, and    *)
(* the limit holds.                                                        *)
Holding == {"accept", "track"}

(* The loops of an agent without limit never come to acquireConn's select. *)
SlotInv ==
    /\ MaxConnections = 0 => \A l \in Listeners : serve[l] \notin {"select", "parked"}
    /\ NoSlotLeak

LimitInv == MaxConnections > 0 => connSlots <= MaxConnections

(* A connection accepted and not handed over is in some loop's hand, and   *)
(* a loop gives its token back before that only in a drain.                *)
HandInv ==
    /\ \A l \in Listeners : serve[l] = "late" => draining
    /\ \A c \in Conns : worker[c] = "accepted" =>
          \E l \in Listeners : serve[l] \in {"track", "late"} /\ have[l] = c

(* releaseConn takes a token out, or leaves their number as it is and      *)
(* brings one loop that waits for a token to Accept.                       *)
LEMMA Release ==
    ASSUME serve \in [Listeners -> ServeLabels], NEW l, NEW label, ReleaseConn(l, label)
    PROVE  \/ /\ MaxConnections > 0 => connSlots' = connSlots - 1
              /\ \A j \in Listeners : serve'[j] = IF j = l THEN label ELSE serve[j]
           \/ \E k \in Listeners :
                 /\ serve[k] = "parked" /\ UNCHANGED connSlots
                 /\ \A j \in Listeners :
                       serve'[j] = IF j = k THEN "accept" ELSE IF j = l THEN label ELSE serve[j]
<1> DEFINE moved == [k \in Listeners |-> IF k = l THEN label ELSE serve[k]]
<1>1. \A j \in Listeners : moved[j] = IF j = l THEN label ELSE serve[j]
  OBVIOUS
<1>2. ASSUME NEW k \in Listeners, serve' = [moved EXCEPT ![k] = "accept"]
      PROVE  \A j \in Listeners :
                serve'[j] = IF j = k THEN "accept" ELSE IF j = l THEN label ELSE serve[j]
  BY <1>1, <1>2
<1> QED
  BY <1>1, <1>2 DEF ReleaseConn

(* Who holds a token, of the loops and of the connections; here and, for   *)
(* every step, after it.                                                   *)
HolderFacts ==
    /\ SlotHolders \subseteq Listeners \cup Conns
    /\ \A l \in Listeners : l \in SlotHolders <=> serve[l] \in Holding
    /\ \A c \in Conns : c \in SlotHolders <=> Served(c) /\ worker[c] # "gone"

LEMMA Holders ==
    HolderFacts /\ HolderFacts' /\ IsFiniteSet(SlotHolders) /\ Cardinality(SlotHolders) \in Nat
<1>0. Listeners \cap Conns = {}
  BY AgentAssumption
<1>1. HolderFacts
  BY <1>0 DEF HolderFacts, SlotHolders, Holding
<1>2. HolderFacts'
  BY <1>0 DEF HolderFacts, SlotHolders, Holding
<1>3. IsFiniteSet(Listeners \cup Conns)
  BY AgentAssumption, FS_Union, Zenon
<1>4. SlotHolders \in SUBSET (Listeners \cup Conns)
  BY <1>1 DEF HolderFacts
<1>5. IsFiniteSet(SlotHolders)
  BY <1>3, <1>4, FS_Subset, Zenon
<1>6. Cardinality(SlotHolders) \in Nat
  BY <1>5, FS_CardinalityType, Zenon
<1> QED
  BY <1>1, <1>2, <1>5, <1>6

(* A token goes in or comes out with its holder, or passes from one to     *)
(* another: the count is still right.                                      *)
LEMMA Count ==
    ASSUME NEW S, IsFiniteSet(S), NEW x, x \notin S
    PROVE  /\ Cardinality(S \cup {x}) = Cardinality(S) + 1
           /\ \A p \in S : /\ Cardinality(S \ {p}) = Cardinality(S) - 1
                           /\ Cardinality((S \ {p}) \cup {x}) = Cardinality(S)
<1>1. Cardinality(S) \in Nat
  BY FS_CardinalityType, Zenon
<1>2. Cardinality(S \cup {x}) = Cardinality(S) + 1
  BY FS_AddElement
<1>3. ASSUME NEW p \in S
      PROVE  /\ Cardinality(S \ {p}) = Cardinality(S) - 1
             /\ Cardinality((S \ {p}) \cup {x}) = Cardinality(S)
  <2>1. IsFiniteSet(S \ {p}) /\ Cardinality(S \ {p}) = Cardinality(S) - 1
    BY FS_RemoveElement
  <2>2. Cardinality((S \ {p}) \cup {x}) = Cardinality(S \ {p}) + 1
    BY <2>1, FS_AddElement
  <2> QED
    BY <1>1, <2>1, <2>2
<1> QED
  BY <1>2, <1>3

LEMMA Uncount ==
    ASSUME NEW S, IsFiniteSet(S), NEW p \in S
    PROVE  Cardinality(S \ {p}) = Cardinality(S) - 1
  BY FS_RemoveElement

(* releaseConn by a holder p that is none after it.                        *)
LEMMA ReleaseCounts ==
    ASSUME Places, Places', NoSlotLeak, NEW p \in SlotHolders, NEW l, NEW label,
           ReleaseConn(l, label), label \notin Holding,
           p \in Listeners => l = p,
           p \in Conns => l \notin Listeners /\ worker'[p] = "gone",
           \A c \in Conns \ {p} : worker'[c] = worker[c],
           p \in Listeners => UNCHANGED worker
    PROVE  NoSlotLeak'
<1> SUFFICES ASSUME MaxConnections > 0 PROVE connSlots' = Cardinality(SlotHolders')
  BY DEF NoSlotLeak
<1>0. connSlots = Cardinality(SlotHolders) /\ connSlots \in Nat
  BY DEF NoSlotLeak, Places
<1>1. /\ Listeners \cap Conns = {} /\ SlotHolders \subseteq Listeners \cup Conns
      /\ SlotHolders' \subseteq Listeners \cup Conns
      /\ \A j \in Listeners : j \in SlotHolders <=> serve[j] \in Holding
      /\ \A j \in Listeners : j \in SlotHolders' <=> serve'[j] \in Holding
      /\ \A c \in Conns : c \in SlotHolders <=> Served(c) /\ worker[c] # "gone"
      /\ \A c \in Conns : c \in SlotHolders' <=> (Served(c) /\ worker[c] # "gone")'
      /\ IsFiniteSet(SlotHolders)
  BY Holders, AgentAssumption DEF HolderFacts
<1>2. \A c \in Conns \ {p} : c \in SlotHolders' <=> c \in SlotHolders
  BY <1>1 DEF Served
<1>3. p \in Conns => p \notin SlotHolders'
  BY <1>1
<1>4. CASE /\ connSlots' = connSlots - 1
           /\ \A j \in Listeners : serve'[j] = IF j = l THEN label ELSE serve[j]
  <2>1. \A x \in Listeners \cup Conns : x \in SlotHolders' <=> x \in SlotHolders /\ x # p
    BY <1>1, <1>2, <1>3, <1>4
  <2>2. SlotHolders' = SlotHolders \ {p}
    BY <1>1, <2>1
  <2> QED
    BY <1>0, <1>1, <1>4, <2>2, Uncount
<1>5. ASSUME NEW k \in Listeners, serve[k] = "parked", UNCHANGED connSlots,
             \A j \in Listeners :
                serve'[j] = IF j = k THEN "accept" ELSE IF j = l THEN label ELSE serve[j]
      PROVE  connSlots' = Cardinality(SlotHolders')
  <2>0. k \notin SlotHolders /\ k # p /\ "accept" \in Holding
    BY <1>1, <1>5 DEF Holding
  <2>1. \A x \in Listeners \cup Conns :
           x \in SlotHolders' <=> (x \in SlotHolders /\ x # p) \/ x = k
    BY <1>1, <1>2, <1>3, <1>5, <2>0
  <2>2. SlotHolders' = (SlotHolders \ {p}) \cup {k}
    BY <1>1, <2>1
  <2> QED
    BY <1>0, <1>1, <1>5, <2>0, <2>2, Count
<1> QED
  BY Release, <1>4, <1>5 DEF Places

LEMMA SlotInductive == Places /\ HaveInv /\ SlotInv /\ [Next]_vars => SlotInv'
<1> SUFFICES ASSUME Places, HaveInv, SlotInv, [Next]_vars PROVE SlotInv'
  OBVIOUS
<1>t. Places'
  BY PlacesInductive
<1>0. Listeners \cap Conns = {} /\ MaxConnections \in Nat /\ "none" \notin Listeners
  BY AgentAssumption
<1>h. /\ IsFiniteSet(SlotHolders) /\ connSlots \in Nat
      /\ SlotHolders \subseteq Listeners \cup Conns /\ SlotHolders' \subseteq Listeners \cup Conns
      /\ \A l \in Listeners : l \in SlotHolders <=> serve[l] \in Holding
      /\ \A l \in Listeners : l \in SlotHolders' <=> serve'[l] \in Holding
      /\ \A c \in Conns : c \in SlotHolders <=> Served(c) /\ worker[c] # "gone"
      /\ \A c \in Conns : c \in SlotHolders' <=> (Served(c) /\ worker[c] # "gone")'
  BY Holders DEF Places, HolderFacts
<1> DEFINE NoSelect ==
             MaxConnections = 0 => \A l \in Listeners : serve[l] \notin {"select", "parked"}
<1>s. ASSUME NoSelect', NoSlotLeak' PROVE SlotInv'
  BY <1>s DEF SlotInv
<1> USE DEF Places, connVars, shutVars, rosterVars, quiet
(* Steps that move no token, nobody into or out of holding one, and no     *)
(* loop to the select.                                                     *)
<1>q. ASSUME UNCHANGED connSlots,
             \A l \in Listeners : /\ serve'[l] \in Holding <=> serve[l] \in Holding
                                  /\ serve'[l] \in {"select", "parked"} =>
                                        serve[l] \in {"select", "parked"} \/ MaxConnections > 0,
             \A c \in Conns : (Served(c) /\ worker[c] # "gone")' <=> Served(c) /\ worker[c] # "gone"
      PROVE  SlotInv'
  <2>1. SlotHolders' = SlotHolders
    BY <1>h, <1>q
  <2>2. NoSlotLeak'
    BY <1>q, <2>1 DEF SlotInv, NoSlotLeak
  <2>3. NoSelect'
    BY <1>0, <1>q DEF SlotInv
  <2> QED
    BY <1>s, <2>2, <2>3
<1>1. ASSUME NEW l \in Listeners,
             AddListener(l) \/ Pause(l) \/ ClassifyAcceptError(l) \/ CloseListener(l)
      PROVE  SlotInv'
  BY <1>1, <1>q DEF AddListener, Pause, ClassifyAcceptError, CloseListener, Served, Holding
(* An agent without limit has no count to keep.                            *)
<1>2. ASSUME NEW l \in Listeners, CheckDraining(l) PROVE SlotInv'
  <2>1. CASE MaxConnections = 0
    BY <1>2, <2>1 DEF CheckDraining, SlotInv, NoSlotLeak
  <2>2. CASE MaxConnections > 0
    BY <1>2, <2>2, <1>q DEF CheckDraining, Served, Holding
  <2> QED
    BY <1>0, <2>1, <2>2
<1>3. ASSUME NEW l \in Listeners, AcquireConn(l) PROVE SlotInv'
  <2>0. MaxConnections > 0 /\ serve[l] = "select" /\ UNCHANGED worker
    BY <1>0, <1>3 DEF AcquireConn, SlotInv
  <2>1. CASE connSlots' = connSlots + 1 /\ serve' = [serve EXCEPT ![l] = "accept"]
    <3>1. l \notin SlotHolders
      BY <1>h, <2>0 DEF Holding
    <3>2. \A x \in Listeners \cup Conns : x \in SlotHolders' <=> x \in SlotHolders \/ x = l
      BY <1>0, <1>h, <2>0, <2>1 DEF Served, Holding
    <3>3. SlotHolders' = SlotHolders \cup {l}
      BY <1>h, <3>2
    <3>4. Cardinality(SlotHolders') = Cardinality(SlotHolders) + 1
      BY <1>h, <3>1, <3>3, Count
    <3> QED
      BY <2>0, <2>1, <3>4 DEF SlotInv, NoSlotLeak
  <2>2. CASE UNCHANGED connSlots /\ serve'[l] \notin Holding
    BY <1>3, <1>q, <2>0, <2>2 DEF AcquireConn, Served, Holding
  <2> QED
    BY <1>3, <2>1, <2>2 DEF AcquireConn, Holding
<1>4. ASSUME NEW l \in Listeners, NEW c \in Conns, Accept(l, c) PROVE SlotInv'
  BY <1>4, <1>q DEF Accept, Served, Holding
<1>5. ASSUME NEW l \in Listeners, NEW t \in BOOLEAN, AcceptError(l, t) PROVE SlotInv'
  <2>1. PICK label \in {"transient", "permanent"} : ReleaseConn(l, label)
    BY <1>5 DEF AcceptError
  <2>2. l \in SlotHolders /\ label \notin Holding /\ UNCHANGED worker
    BY <1>5, <1>h DEF AcceptError, Holding
  <2>3. NoSlotLeak'
    BY <1>0, <1>t, <2>1, <2>2, ReleaseCounts DEF SlotInv
  <2>4. NoSelect'
    BY <2>1, Release DEF SlotInv
  <2> QED
    BY <1>s, <2>3, <2>4
(* track hands the loop's token to the connection, or gives it back.       *)
<1>6. ASSUME NEW l \in Listeners, Track(l) PROVE SlotInv'
  <2>1. have[l] \in Conns /\ serve[l] = "track" /\ worker[have[l]] = "accepted"
    BY <1>6 DEF Track, HaveInv
  <2>2. CASE MayTrack
    <3>0. /\ UNCHANGED connSlots /\ serve' = [serve EXCEPT ![l] = "gate"]
          /\ worker' = [worker EXCEPT ![have[l]] = "serving"]
      BY <1>6, <2>2 DEF Track
    <3>1. l \in SlotHolders /\ have[l] \notin SlotHolders
      BY <1>h, <2>1 DEF Holding, Served
    <3>2. \A x \in Listeners \cup Conns :
             x \in SlotHolders' <=> (x \in SlotHolders /\ x # l) \/ x = have[l]
      BY <1>0, <1>h, <2>1, <3>0 DEF Served, Holding
    <3>3. SlotHolders' = (SlotHolders \ {l}) \cup {have[l]}
      BY <1>h, <2>1, <3>2
    <3>4. Cardinality(SlotHolders') = Cardinality(SlotHolders)
      BY <1>h, <3>1, <3>3, Count
    <3>5. NoSelect'
      BY <3>0 DEF SlotInv
    <3> QED
      BY <1>s, <3>0, <3>4, <3>5 DEF SlotInv, NoSlotLeak
  <2>3. CASE ~MayTrack
    <3>1. ReleaseConn(l, "late") /\ UNCHANGED worker
      BY <1>6, <2>3 DEF Track
    <3>2. l \in SlotHolders /\ "late" \notin Holding
      BY <1>h, <2>1 DEF Holding
    <3>3. NoSlotLeak'
      BY <1>0, <1>t, <3>1, <3>2, ReleaseCounts DEF SlotInv
    <3>4. NoSelect'
      BY <3>1, Release DEF SlotInv
    <3> QED
      BY <1>s, <3>3, <3>4
  <2> QED
    BY <2>2, <2>3
<1>7. ASSUME NEW l \in Listeners, CloseLate(l) PROVE SlotInv'
  BY <1>7, <1>q DEF CloseLate, HaveInv, Served, Holding
<1>8. ASSUME NEW c \in Conns,
             \/ StartHandler(c) \/ HandlerFlag(c) \/ HandlerClose(c) \/ HandlerReturn(c)
             \/ PokeConn(c) \/ CloseConn(c)
      PROVE  SlotInv'
  BY <1>8, <1>q DEF StartHandler, HandlerFlag, HandlerClose, HandlerReturn, PokeConn, CloseConn,
                    Served
<1>9. ASSUME NEW c \in Conns,
             \/ WorkerDrain(c) \/ WorkerLeave(c) \/ WorkerClose(c) \/ WorkerCancel(c)
             \/ Forget(c) \/ WgDone(c)
      PROVE  SlotInv'
  BY <1>9, <1>q DEF WorkerDrain, WorkerLeave, WorkerClose, WorkerCancel, Forget, WgDone, Served
<1>10. ASSUME NEW c \in Conns, FreeSlot(c) PROVE SlotInv'
  <2>1. ReleaseConn("none", "none") /\ worker[c] = "done" /\ worker' = [worker EXCEPT ![c] = "gone"]
    BY <1>10 DEF FreeSlot
  <2>2. c \in SlotHolders /\ "none" \notin Holding
    BY <1>h, <2>1 DEF Served, Holding
  <2>3. NoSlotLeak'
    BY <1>0, <1>t, <2>1, <2>2, ReleaseCounts DEF SlotInv
  <2>4. NoSelect'
    BY <1>0, <2>1, Release DEF SlotInv
  <2> QED
    BY <1>s, <2>3, <2>4
<1>11. CASE BeginShutdown
  BY <1>11, <1>q DEF BeginShutdown, Served, Holding
<1>12. CASE \/ ContextDone \/ Drained \/ GraceExpires \/ SnapshotConns \/ GaveUp
            \/ UNCHANGED vars
  BY <1>12, <1>q DEF ContextDone, Drained, GraceExpires, SnapshotConns, GaveUp, vars, Served
<1> QED
  BY Steps, <1>1, <1>2, <1>3, <1>4, <1>5, <1>6, <1>7, <1>8, <1>9, <1>10, <1>11, <1>12

(* Only acquireConn's select puts a token in, and only where one fits.     *)
LEMMA LimitInductive == Places /\ LimitInv /\ [Next]_vars => LimitInv'
<1> SUFFICES ASSUME Places, LimitInv, [Next]_vars, MaxConnections > 0
             PROVE  connSlots' <= MaxConnections
  BY DEF LimitInv
<1>0. connSlots <= MaxConnections /\ MaxConnections \in Nat /\ connSlots \in Nat
  BY AgentAssumption DEF LimitInv, Places
<1>q. ASSUME UNCHANGED connSlots PROVE connSlots' <= MaxConnections
  BY <1>0, <1>q
<1>r. ASSUME NEW l, NEW label, ReleaseConn(l, label) PROVE connSlots' <= MaxConnections
  BY <1>0, <1>r DEF ReleaseConn
<1> USE DEF connVars, shutVars, rosterVars, quiet
<1>1. ASSUME NEW l \in Listeners, AcquireConn(l) PROVE connSlots' <= MaxConnections
  BY <1>0, <1>1 DEF AcquireConn, ConnSlotFree
<1>2. ASSUME NEW l \in Listeners, NEW t \in BOOLEAN, AcceptError(l, t)
      PROVE  connSlots' <= MaxConnections
  BY <1>2, <1>r, Zenon DEF AcceptError
<1>3. ASSUME NEW l \in Listeners, Track(l) PROVE connSlots' <= MaxConnections
  BY <1>3, <1>q, <1>r, Zenon DEF Track
<1>4. ASSUME NEW c \in Conns, FreeSlot(c) PROVE connSlots' <= MaxConnections
  BY <1>4, <1>r, Zenon DEF FreeSlot
<1>5. ASSUME NEW l \in Listeners,
             \/ AddListener(l) \/ CheckDraining(l) \/ Pause(l) \/ ClassifyAcceptError(l)
             \/ CloseListener(l) \/ CloseLate(l) \/ \E c \in Conns : Accept(l, c)
      PROVE  UNCHANGED connSlots
  BY <1>5 DEF AddListener, CheckDraining, Pause, ClassifyAcceptError, CloseListener, CloseLate,
              Accept
<1>6. ASSUME NEW c \in Conns,
             \/ StartHandler(c) \/ HandlerFlag(c) \/ HandlerClose(c) \/ HandlerReturn(c)
             \/ PokeConn(c) \/ CloseConn(c) \/ WorkerDrain(c) \/ WorkerLeave(c) \/ WorkerClose(c)
             \/ WorkerCancel(c) \/ Forget(c) \/ WgDone(c)
      PROVE  UNCHANGED connSlots
  BY <1>6 DEF StartHandler, HandlerFlag, HandlerClose, HandlerReturn, PokeConn, CloseConn,
              WorkerDrain, WorkerLeave, WorkerClose, WorkerCancel, Forget, WgDone
<1>7. ASSUME \/ BeginShutdown \/ ContextDone \/ Drained \/ GraceExpires \/ SnapshotConns
             \/ GaveUp \/ UNCHANGED vars
      PROVE  UNCHANGED connSlots
  BY <1>7 DEF BeginShutdown, ContextDone, Drained, GraceExpires, SnapshotConns, GaveUp, vars
<1> QED
  BY Steps, <1>q, <1>1, <1>2, <1>3, <1>4, <1>5, <1>6, <1>7

LEMMA HandInductive == Flags /\ Places /\ HaveInv /\ HandInv /\ [Next]_vars => HandInv'
<1> SUFFICES ASSUME Flags, Places, HaveInv, HandInv, [Next]_vars PROVE HandInv'
  OBVIOUS
<1> USE DEF Flags, Places, HandInv, connVars, shutVars, rosterVars, quiet
<1>0. draining => draining'
  <2>1. ASSUME NEW l \in Listeners,
               \/ AddListener(l) \/ CheckDraining(l) \/ AcquireConn(l) \/ Pause(l)
               \/ ClassifyAcceptError(l) \/ CloseListener(l) \/ CloseLate(l) \/ Track(l)
               \/ (\E c \in Conns : Accept(l, c)) \/ \E t \in BOOLEAN : AcceptError(l, t)
        PROVE  UNCHANGED draining
    BY <2>1 DEF AddListener, CheckDraining, AcquireConn, Pause, ClassifyAcceptError, CloseListener,
                CloseLate, Accept, AcceptError, Track
  <2>2. ASSUME NEW c \in Conns,
               \/ StartHandler(c) \/ HandlerFlag(c) \/ HandlerClose(c) \/ HandlerReturn(c)
               \/ PokeConn(c) \/ CloseConn(c) \/ WorkerDrain(c) \/ WorkerLeave(c) \/ WorkerClose(c)
               \/ WorkerCancel(c) \/ Forget(c) \/ WgDone(c) \/ FreeSlot(c)
        PROVE  UNCHANGED draining
    BY <2>2 DEF StartHandler, HandlerFlag, HandlerClose, HandlerReturn, PokeConn, CloseConn,
                WorkerDrain, WorkerLeave, WorkerClose, WorkerCancel, Forget, WgDone, FreeSlot
  <2>3. ASSUME \/ BeginShutdown \/ ContextDone \/ Drained \/ GraceExpires \/ SnapshotConns
               \/ GaveUp \/ UNCHANGED vars
        PROVE  draining => draining'
    BY <2>3, Zenon DEF BeginShutdown, ContextDone, Drained, GraceExpires, SnapshotConns,
                       GaveUp, vars
  <2> QED
    BY Steps, <2>1, <2>2, <2>3, Zenon
(* Steps that put nothing in a loop's hand and take nothing from it.       *)
<1>q. ASSUME UNCHANGED have,
             \A l \in Listeners : /\ serve[l] \in {"track", "late"} => serve'[l] = serve[l]
                                  /\ serve'[l] = "late" => serve[l] = "late",
             \A c \in Conns : worker'[c] = "accepted" => worker[c] = "accepted"
      PROVE  HandInv'
  BY <1>0, <1>q
<1>1. ASSUME NEW l \in Listeners,
             \/ AddListener(l) \/ CheckDraining(l) \/ AcquireConn(l) \/ Pause(l)
             \/ ClassifyAcceptError(l) \/ CloseListener(l)
      PROVE  HandInv'
  BY <1>1, <1>q DEF AddListener, CheckDraining, AcquireConn, Pause, ClassifyAcceptError,
                    CloseListener
<1>2. ASSUME NEW l \in Listeners, NEW c \in Conns, Accept(l, c) PROVE HandInv'
  <2>1. /\ serve[l] = "accept" /\ serve'[l] = "track" /\ have'[l] = c /\ UNCHANGED draining
        /\ \A k \in Listeners \ {l} : serve'[k] = serve[k] /\ have'[k] = have[k]
        /\ \A d \in Conns \ {c} : worker'[d] = worker[d]
    BY <1>2 DEF Accept
  <2> QED
    BY <2>1
<1>3. ASSUME NEW l \in Listeners, NEW t \in BOOLEAN, AcceptError(l, t) PROVE HandInv'
  <2>1. PICK label \in {"transient", "permanent"} : ReleaseConn(l, label)
    BY <1>3 DEF AcceptError
  <2> QED
    BY <1>3, <1>q, <2>1, Release DEF AcceptError
<1>4. ASSUME NEW l \in Listeners, Track(l) PROVE HandInv'
  <2>1. have[l] \in Conns /\ serve[l] = "track" /\ UNCHANGED draining
    BY <1>4 DEF Track
  <2>2. CASE MayTrack
    <3>1. /\ serve'[l] = "gate" /\ worker'[have[l]] = "serving"
          /\ \A k \in Listeners \ {l} : serve'[k] = serve[k] /\ have'[k] = have[k]
          /\ \A d \in Conns \ {have[l]} : worker'[d] = worker[d]
      BY <1>4, <2>1, <2>2 DEF Track
    <3> QED
      BY <2>1, <3>1
  <2>3. CASE ~MayTrack
    <3>1. ReleaseConn(l, "late") /\ UNCHANGED <<have, worker>> /\ draining
      BY <1>4, <2>3 DEF Track, MayTrack
    <3>2. \A k \in Listeners : serve[k] \in {"track", "late"} => serve'[k] \in {"track", "late"}
      BY <2>1, <3>1, Release
    <3> QED
      BY <2>1, <3>1, <3>2
  <2> QED
    BY <2>2, <2>3
<1>5. ASSUME NEW l \in Listeners, CloseLate(l) PROVE HandInv'
  <2>1. /\ serve'[l] = "shutdown" /\ have[l] \in Conns /\ worker'[have[l]] = "refused"
        /\ \A k \in Listeners \ {l} : serve'[k] = serve[k] /\ have'[k] = have[k]
        /\ \A d \in Conns \ {have[l]} : worker'[d] = worker[d]
    BY <1>5 DEF CloseLate
  <2> QED
    BY <1>0, <2>1
<1>6. ASSUME NEW c \in Conns,
             \/ StartHandler(c) \/ HandlerFlag(c) \/ HandlerClose(c) \/ HandlerReturn(c)
             \/ PokeConn(c) \/ CloseConn(c)
      PROVE  HandInv'
  BY <1>6, <1>q DEF StartHandler, HandlerFlag, HandlerClose, HandlerReturn, PokeConn, CloseConn
<1>7. ASSUME NEW c \in Conns,
             \/ WorkerDrain(c) \/ WorkerLeave(c) \/ WorkerClose(c) \/ WorkerCancel(c)
             \/ Forget(c) \/ WgDone(c)
      PROVE  HandInv'
  BY <1>7, <1>q DEF WorkerDrain, WorkerLeave, WorkerClose, WorkerCancel, Forget, WgDone
<1>8. ASSUME NEW c \in Conns, FreeSlot(c) PROVE HandInv'
  <2>1. ReleaseConn("none", "none") /\ "none" \notin Listeners
    BY <1>8, AgentAssumption DEF FreeSlot
  <2> QED
    BY <1>8, <1>q, <2>1, Release DEF FreeSlot
<1>9. CASE BeginShutdown
  BY <1>9, <1>q DEF BeginShutdown
<1>10. CASE \/ ContextDone \/ Drained \/ GraceExpires \/ SnapshotConns \/ GaveUp
            \/ UNCHANGED vars
  BY <1>10, <1>q DEF ContextDone, Drained, GraceExpires, SnapshotConns, GaveUp, vars
<1> QED
  BY Steps, <1>1, <1>2, <1>3, <1>4, <1>5, <1>6, <1>7, <1>8, <1>9, <1>10

LEMMA SlotsHold == Spec => [](AgentInv /\ SlotInv /\ LimitInv /\ HandInv)
<1>1. Init => HandInv /\ LimitInv
  BY AgentAssumption DEF Init, HandInv, LimitInv
<1>2. Init => SlotInv
  <2>1. Cardinality({}) = 0
    BY FS_EmptySet, Zenon
  <2>2. Init => SlotHolders = {}
    BY DEF Init, SlotHolders, Served
  <2> QED
    BY <2>1, <2>2 DEF Init, SlotInv, NoSlotLeak
<1>3. AgentInv /\ SlotInv /\ LimitInv /\ HandInv /\ [Next]_vars => SlotInv' /\ LimitInv' /\ HandInv'
  BY SlotInductive, LimitInductive, HandInductive DEF AgentInv
<1> QED
  BY <1>1, <1>2, <1>3, Invariance, PTL DEF Spec

(* "Every path below that does not reach the worker goroutine has to       *)
(* release this", and each does, once: the tokens in connSlots are as many *)
(* as those who owe it a receive, on every path of every Serve loop.       *)
THEOREM SlotsNotLeaked == Spec => []NoSlotLeak
<1>1. SlotInv => NoSlotLeak
  BY DEF SlotInv
<1> QED
  BY <1>1, SlotsHold, PTL

(* WithMaxConnections holds, for any number of Serve loops.  Each          *)
(* connection that counts has a token of its own: its goroutine's, or that *)
(* of the loop that has it in hand.                                        *)
THEOREM LimitKept == Spec => []ConnLimit
<1>1. AgentInv /\ SlotInv /\ LimitInv /\ HandInv => ConnLimit
  <2> DEFINE Hand(c) == CHOOSE l \in Listeners : serve[l] \in {"track", "late"} /\ have[l] = c
             Token == [c \in OpenConns |-> IF worker[c] = "accepted" THEN Hand(c) ELSE c]
  <2> SUFFICES ASSUME AgentInv, SlotInv, LimitInv, HandInv, MaxConnections > 0
               PROVE  Cardinality(OpenConns) <= MaxConnections
    BY DEF ConnLimit
  <2>0. /\ IsFiniteSet(SlotHolders) /\ Cardinality(SlotHolders) \in Nat
        /\ \A l \in Listeners : l \in SlotHolders <=> serve[l] \in Holding
        /\ \A c \in Conns : c \in SlotHolders <=> Served(c) /\ worker[c] # "gone"
    BY Holders DEF HolderFacts
  <2>1. ASSUME NEW c \in OpenConns, worker[c] = "accepted"
        PROVE  Hand(c) \in Listeners /\ Hand(c) \in SlotHolders /\ have[Hand(c)] = c
    <3>1. \E l \in Listeners : serve[l] \in {"track", "late"} /\ have[l] = c
      BY <2>1 DEF HandInv, OpenConns
    <3>2. Hand(c) \in Listeners /\ serve[Hand(c)] \in {"track", "late"} /\ have[Hand(c)] = c
      BY <3>1, Zenon
    <3>3. ~draining
      BY <2>1 DEF Served, OpenConns
    <3> HIDE DEF Hand
    <3> QED
      BY <2>0, <3>2, <3>3 DEF HandInv, Holding
  <2>2. ASSUME NEW c \in OpenConns, worker[c] # "accepted" PROVE c \in Conns /\ c \in SlotHolders
    BY <2>0, <2>2 DEF OpenConns
  <2>3. \A c \in OpenConns : Token[c] = IF worker[c] = "accepted" THEN Hand(c) ELSE c
    OBVIOUS
  <2>4. Token \in [OpenConns -> SlotHolders]
    <3> HIDE DEF Hand
    <3> QED
      BY <2>1, <2>2
  <2>5. ASSUME NEW c \in OpenConns, NEW d \in OpenConns, Token[c] = Token[d] PROVE c = d
    <3> HIDE DEF Hand, Token
    <3> QED
      BY <2>1, <2>2, <2>3, <2>5, AgentAssumption
  <2>6. IsFiniteSet(OpenConns) /\ Cardinality(OpenConns) \in Nat
    <3>1. OpenConns \in SUBSET Conns
      BY DEF OpenConns
    <3>2. IsFiniteSet(OpenConns)
      BY <3>1, AgentAssumption, FS_Subset, Zenon
    <3> QED
      BY <3>2, FS_CardinalityType, Zenon
  <2>7. ~(Cardinality(SlotHolders) < Cardinality(OpenConns))
    <3> HIDE DEF Token
    <3> SUFFICES ASSUME Cardinality(SlotHolders) < Cardinality(OpenConns) PROVE FALSE
      OBVIOUS
    <3>1. \E c, d \in OpenConns : c # d /\ Token[c] = Token[d]
      BY <2>0, <2>4, <2>6, FS_PigeonHole
    <3> QED
      BY <2>5, <3>1, Zenon
  <2>8. Cardinality(SlotHolders) <= MaxConnections /\ MaxConnections \in Nat
    BY AgentAssumption DEF LimitInv, SlotInv, NoSlotLeak
  <2> QED
    BY <2>0, <2>6, <2>7, <2>8
<1> QED
  BY <1>1, SlotsHold, PTL

=============================================================================
