# A TLA+ verification of go-spop/spop

`spop` is a Go library for writing SPOE agents: programs HAProxy consults, over
the Stream Processing Offload Protocol, about the streams it handles. This
directory holds TLA+ modules translated from its source, TLC configurations
that check them on small instances, and TLAPS proofs that hold for every value
of the constants. `PROJECT.json` lists components, runs, mutants, the map from
definitions to source lines, findings, hazards and theorems.

## The system and its parts

| part | source | module | proofs |
|---|---|---|---|
| agent: `Serve`, connection limit, accept backoff, roster, `Shutdown` | `src/agent` | `Agent` | `AgentProofs` |
| connection worker: read loop, NOTIFY goroutines, disconnect, drain | `src/worker` | `Worker` | `WorkerProofs` |
| what the agent relies on in a worker | both | `Connection`, `WorkerConnection` | `WorkerProofs`, `AgentProofs` |
| transport: a socket with a write lock, a write timeout and `Close` | `src/transport` | `Transport` | `TransportProofs` |
| handshake: `negotiate`, version and frame size, the frame ceiling | `src/worker/handshake.go` | `Handshake` | `HandshakeProofs` |
| client: `Init`, `Notify`, `Stop` | `src/client` | `Client`, on top of `Worker` | `ClientProofs` |
| varint, typed data | `src/varint`, `src/typeddata` | `Varint`, `TypedData` | `CodecProofs` |
| KV items, messages, actions, frames as bytes | `src/payload/kv`, `src/message`, `src/action`, `src/frame` | `FrameCodec`, `FrameStream` | `CodecProofs`, `FrameStreamProofs` |
| the object pools: frames, messages, KVs, requests | the same, and `src/request` | `Pools` | `PoolsProofs` |
| logger | `src/logger` | not modelled | |

`Agent.Serve` accepts a connection, tracks it and gives it a goroutine that runs
`worker.Handle`. The worker's read loop decodes frames, answers the HELLO, and
starts a goroutine for each NOTIFY, which runs the user's handler and writes the
ACK on the same connection. `Agent.Shutdown` closes `done`, closes the
listeners, and expires the read deadline of every tracked connection (the
"poke"). Each worker then waits for its handlers, says goodbye with an
AGENT-DISCONNECT and closes. When the grace period ends first, Shutdown
cancels the handlers' context and closes the sockets.

How the modules fit together:

- `Connection` is the abstract life of one connection. `Worker` implements it
  (`ImplementsConnection`), and what `Agent` does with each of its connections
  is one of its behaviours (`ImplementsConnections`). So what `Agent` leaves out
  of a worker is stated once, and checked and proved on both sides.
- `Client` takes HAProxy's place in `Worker` and is run against all of it.
- `FrameStream` puts a writer and a reader on either end of `FrameCodec`, which
  is built on `TypedData` and that on `Varint`.
- `Transport`, `Handshake` and `Pools` stand on their own: each looks closely at
  what `Worker` treats as one step (a write, a HELLO, a decoded frame).

## Worker

One step is a stretch of code between two points at which goroutines can meet:
a lock, a channel, the WaitGroup, the socket, or a look at `done`. `pc` says
where each goroutine is.

| state | code |
|---|---|
| `pc["loop"]`, `cur`, `ready`, `deadline` | `run`, the decoded frame, `worker.ready`, the socket's read deadline |
| `slots`, `inflight` | the semaphore channel and the WaitGroup |
| `once`, `sendMu`, `goodbyeSent` | `disconnectOnce`, the send lock, the latch |
| `owned` | for each goroutine, the inbound frames it acquired or was handed, less those it released or handed on: a count, so that a second release shows |
| `closer` | `transport.Conn`: nobody has called `Close`, who has raised the flag and not yet closed the socket, or closed |
| `stream`, `buffered`, `peer` | what HAProxy sent, how much of it is in the `bufio.Reader`, HAProxy's end |
| `shutdown` | how far `Agent.Shutdown` has got with this connection |
| `wire`, `late` | history: frames written; NOTIFYs dispatched after the drain began |

`AcquireFrame`, `ArmDeadline`, `RecheckDone` and `ExpireDeadline` are the top of
the loop and `armReadDeadline`; `ReadFrame`, `ReadDeadline`, `ReadEOF` and
`ReadError` the outcomes of `ReadLimit`; the `Dispatch...` actions the cases of
`dispatch`; `AcquireSlot`, `SlotGranted` and `ReleaseSlot` the semaphore;
`DisconnectOnce`, `LockDisconnect`, `WriteDisconnect`, `Close` and `Cancel` the
way out; `HandlerReturn`, `LockAck`, `WriteAck` and `InflightDone` the NOTIFY
goroutine. HAProxy (`PeerSend`, `PeerLeave`) is constrained only by the order of
a byte stream, and Shutdown appears as `CloseDone`, `Poke`, `GraceCancel`,
`GraceFlag` and `GraceClose`.

Go's semantics, as far as they matter: a closed socket is reported before an
expired deadline, and that before data; a buffered frame is served whatever the
deadline; a select entered with two ready cases picks either, one that is parked
is woken by the first event; a second caller of `sync.Once.Do` waits for the
first; deferred calls run last in, first out.

`transport.Conn.Close` raises its flag under a lock and closes the socket after
the unlock; whoever finds the flag up returns at once. All three are kept apart,
for the loop and the handlers (`Close`) and for Shutdown (`GraceFlag`,
`GraceClose`), so a goroutine can go on from its `Close` while another still has
the socket's before it. A write begun before the flag was up can succeed until the
socket is closed, and a read is woken only by the socket.

Left out: what a blocked write had sent when the socket is
closed under it is not recorded, as nothing can follow it; handlers do not
panic; the AGENT-DISCONNECT always encodes.

## Connection

A connection is serving, draining, closing, cancelling or returned. Handlers
start only while it serves; a drain ends only when no handler is left; `Close` is
called before the handlers are cancelled and both come before `Handle` returns;
from outside it can be drained, poked, and, once its handlers' context is done,
closed. A handler, the worker and Shutdown may each be the one that raises the
closed flag, and that one closes the socket afterwards; a worker that finds the
flag up goes on, so `Handle` may return with the socket still open and only the
flag up. `closer` says who it is. `WorkerConnection` gives the mapping from `Worker`: `Stage` is
what the loop's `pc` amounts to, `busy` is `inflight # {}`, `closer` forgets which
of the handlers it is. `Agent` has its own
at the end of the module. `ClosedLeaves`, `PokedLeaves` and `DrainedReturns` are
what may be waited for; `LeavesWhenTold` checks them of `Worker`, and the
fairness of `Agent` is exactly these.

## Agent

`serve` is where each `Serve` loop is (`AddListener`, `CheckDraining`,
`AcquireConn`, `Accept`, `AcceptError`, `ClassifyAcceptError`, `Pause`, `Track`,
`CloseLate`), `worker` where each connection's goroutine is, `shut` where
Shutdown is. A connection's own work is reduced to what Serve and Shutdown can
tell, as in `Connection`. `ReleaseConn` hands a freed slot to a `Serve` loop
parked on the full channel. `connSlots` is the number of tokens in the channel,
which a goroutine does not mark as its own, so one release too many shows as a
count below what is owed. `closer` is that of `Connection`: `HandlerFlag` and
`HandlerClose`, `WorkerClose`, and `CloseConn`, which is closeAll's, race for each
connection in two steps. Shutdown's two loops over snapshots (`todo`) are one
step per element, interleaved with everything else.

Which accept errors are transient is the environment's choice. A second
Shutdown call, which changes nothing, is left out.

## Transport

One step of a call of `WritePayload` is the lock, the look at `closed`, the
arming of the deadline, a piece taken by the socket, the end of the write, the
clearing of the deadline, the unlock. The socket takes a payload in `Pieces`
pieces, so that a write can be cut off in the middle by a deadline, a close, a
reset or a short return. `Close` is two steps, `CloseFlag` and `CloseSocket`.
`deadline` records for whom it was set, `late` the calls begun after some
`Close` had returned.

## Handshake

A HELLO is a sequence of items; each has a name and a value that is or is not
of the type the item should have. `ReadHeader` judges a length, `Unmarshal`
appends an item, `Truncated` finds the body broken, `Hello` is the rest of
`ReadLimit` and the HELLO case of `dispatch`, and `WriteFrame` judges an ACK's
length. A version list is the sequence of what `parseVersion` returned; the text
is not modelled. Frames after the HELLO are judged by their length only.

## Client

`Send` is the first half of `Init`, `Notify` and `Stop`, `Receive` and
`ReceiveFails` the second. The client reads the worker's `wire` in order. A
connection the agent closes with input unread is reset, and what was on its way
is lost; a write after that may fail (`SendFails`) or seem to succeed. The ids of
the AGENT-HELLO, which the worker leaves 0, are not compared.

## Codecs

A buffer is a sequence of bytes. `PutUvarint`, `Uvarint`, `Encode` and `Decode`
are the functions of that name, `Marshal`, `GetAction`, `GetMessage`, `GetItem`,
`EncodeFrame` and `ReadLimit` those of the packages above. A 64-bit integer has
`Word` values and a 32-bit one `Half`, with Go's wrapping shift, sum and
conversions; the thresholds of the encoding are the real ones. All decoding errors
are one, except where callers tell them apart: `io.EOF` itself, a frame that is too
big, and the rest. (A stream that ends right behind a frame's header gives an error
that wraps `io.EOF`. The worker compares with `!=`, and takes it for a broken frame;
`errors.Is` would take it for a clean end.) Loops that consume a buffer are recursive
functions on the rest of it, so that the prover can reason about them. `FrameStream` has two parts: a
writer that encodes `Samples` and may die after any byte, and a reader; and
bytes fed one at a time to the decoders (`fed`). `PutUvarint`'s refusal of a
short buffer is left out, since every caller passes `MaxLen` bytes.

## Pools

A task is one NOTIFY from `AcquireFrame` to the last deferred call. Objects are
numbers, the fields are functions from objects (`Messages`, `KV`, `Name`, ...),
and a pool is a bag, so that an object given back twice is in it twice.
`sync.Pool.Get` returns any object of the pool or a new one. What an object
holds is recorded by whose it is. `Messages.Decode` can fail at each message in
each of its ways, and `Message.Reset` is taken apart into the KV given back and
the KV taken. `QuoteName` is the read of a message's name for an error, which
comes after the message was given back: the task does not own it then (`Held`),
so `OneOwner` says nothing of that read and `QuotesOwnMessage` is about it alone.

## Runs

| run | instance | what it shows |
|---|---|---|
| `worker_limited` | 2 NOTIFYs, limit 1, all timeouts | no ACK behind a goodbye; a shutdown goodbye comes after the ACK of everything dispatched; a poke is never lost; the in-flight limit holds; at most one late dispatch; every frame acquired is released once, and not while it may be read; a drain is never reported as a timeout; the worker is a `Connection` |
| `worker_live` | fair, no timeouts | a goodbye is followed by the close, a parked loop moves on, the forced close frees every goroutine, one in a blocked write included, and the worker leaves when the agent expects it to |
| `handshake` | HELLOs of up to 4 items, every threshold from both sides | neither direction exceeds what either side announced; the code names a real defect; a negotiated size is never the sentinel 0 (`BothCeilings`) |
| `agent_safety` | 2 listeners, 3 connections, limit 2 | the connection limit, as many slots taken as owed, nobody missed by Shutdown, what a nil and a non-nil return mean, errors told from shutdown, the backoff's cap |
| `agent_live` | 1 listener, 2 connections, limit 2, fair | each connection is a `Connection`; Serve and Shutdown return, every goroutine leaves and every socket is closed |
| `transport` | 3 writers, 2 closers, 2 pieces, fair | payloads lie whole and side by side; what can follow one that was cut off; no payload after a `Close`; deadlines expire only their own payload; `Close` and the timeout free everybody |
| `client` | 2 NOTIFYs, 2 control frames, no limit, fair | a nil from `Notify` means this NOTIFY's ACK, after a finished handshake and before any goodbye; no call hangs |
| `codec` | pairs of 63 sample frames; 6 bytes out of 8 | what is encoded is decoded, canonically; a cut frame is noticed at every byte; one encoding per number below `MaxLen` bytes, of the length in the SPOE table; what is accepted can be encoded again |
| `pools` | 2 tasks, 2 messages, 4 objects of a kind | no object has two owners, is owned while in its pool, or is in its pool twice; a handler sees its own data; a pooled object is clean |

What Shutdown's returns promise of sockets follows from `Close`'s two steps.
When it returns nil or gives up, no connection takes another payload, but a
socket may still be open, if a handler (or, after it gave up, a worker) raised the
flag first: closeAll's `Close`, or the worker's, then returned at once.
`NilMeansFinishedOrCancelled` and `GiveUpClosesAll` say that in every such case the
one who raised the flag is still there, and `EveryoneLeaves` that it gets done.

Three more runs are expected to find a violation; see Findings.

**Bounds.** Two NOTIFYs with a limit of 1 are enough for the loop to be parked
behind a handler, which races the loop, HAProxy and Shutdown; that two handlers
race each other takes a higher limit or none, and is left to the proofs, which
cover every limit; two control frames give a HELLO
and any second one (a repeated HELLO, a DISCONNECT, a broken frame); a queue of
two lets a frame be buffered behind another. In the fair run of the worker one
control frame suffices, the HELLO. Three connections with a limit of two and two
Serve loops give a full channel, a parked loop and a hand-over; one more of
anything only repeats them. The doubling of the backoff overshoots the cap both
at 1 and 1 (`agent_safety`) and at 2 and 3 (`agent_live`, where it is first below).
One Serve loop is enough for `agent_live`, where it can sleep in each of its
places, and for the life of a connection. The agent is only explored with a limit; the proofs cover the
agent without one. Two pieces are a payload that can be cut; three writers are
one that writes, one that waits and one that comes late; one change of the write
timeout can fall anywhere. A limit of 255 bytes lies between the lengths of the
sample frames, which hold every type of value at the ends of its range and ids on
both sides of each of varint's thresholds below 2^23. Six bytes are more than the
longest encoding of a 23-bit number (`MaxLen` 4), so that the wrap is met, and the eight byte values include each
kind of byte the decoders branch on. `MaxObjs` 4 is as many messages as two tasks
can hold. NOTIFYs, listeners, connections and tasks are interchangeable, so
symmetry is used in the safety runs and in no run that checks liveness.

The codec run has no deadlock check: once the writer is dead and the reader has
its error there is nothing left to do. Everywhere else it is on, and a program
that has properly ended stutters in `Terminated` (or `Closed`).

**Fairness.** Goroutines that can run are run, and a timer that is set goes off
(the Go scheduler and runtime). A write is only assumed to come back when
something makes it: a timeout, a close or a peer that has gone. A peer is never
assumed to send, read or leave. Handlers are the user's code and are only assumed
to heed their context; a property that needs more says so itself
(`HandlersReturn`, `WritesReturn` in front of its arrow). In `agent_live` either
handlers return and writes come back, or the grace period ends; of a worker it
assumes what `LeavesWhenTold` checks of `Worker`. In `transport` nobody is
assumed to call `Close`, and in `client` the client to be run when its answer or
the close has come.

**Mutants.** Each property of each passing run has a mutant: a definition that
changes one piece of code in a plausible way (a dropped second look at `done`, a
slot too many, a goodbye that does not wait) and makes the property fail.

## Proofs

Each proof module holds for every value of the constants that satisfies the
assumptions of its component: `NotifiesAssumption` (a finite set of NOTIFYs) and
`LimitsAssumption` for `Worker` and `Client`, `AgentAssumption`, `TransportAssumption`,
`SizesAssumption` for `Handshake` (sizes are naturals, the agent's own is at least
the minimum, a version is a pair of numbers that did or did not parse) and
`PoolsAssumption` (the bounds are naturals). For the codecs: `WordAssumption`,
`HalfAssumption` and `MaxLenAssumption` say of the number of values of the two
integer widths and of `MaxLen` what holds of 2^64, 2^32 and 10 (the widths divide,
are even where halved, and `MaxLen` is the least number of bytes that reaches the
widest number), `MaxFrameSizeAssumption`, `FedAssumption` and `LimitAssumption` that
bounds are naturals and bytes are bytes, and `SamplesAssumption` that the frames to
be sent are `GoFrame`s: ids and values within their Go types, flags and the length of
the body within a uint32, scopes among the five there are, no value in an UNSET-VAR,
and in a message, which HAProxy writes, at most 255 arguments. TLC evaluates all of
them in each run.

| module | theorem | property | rests on |
|---|---|---|---|
| `WorkerProofs` | `TypeCorrect` | `TypeOK` | itself |
| | `PokeSafe` | `PokeNeverLost` | itself: the loop enters the read past a look at `done` that came after the arming, or having expired the deadline itself |
| | `GoodbyeIsLast` | `NoAckAfterGoodbye` | `GoodbyeInv` |
| | `FramesOwned` | `FrameOwnership` | `OwnInv` |
| | `TimeoutMeansTimer` | `TimeoutOnlyByTimer` | `TimerInv` |
| | `DrainAcksFirst` | `DrainDeliversAcks` | `DrainInv`, `GoodbyeInv` |
| | `InFlightLimited` | `InFlightBound` | `SlotInv` |
| | `LateDispatchBounded` | `LateDispatchBound` | `LateInv` |
| | `WorkerIsConnection` | `ImplementsConnection` | `CancelInv`, `CloserInv`, `DrainInv` |
| `TransportProofs` | `WritesSerialised` | `PayloadsWhole` | `LockInv`, `CallInv`, `WireInv` |
| | `CutOffEndsStream` | `CutOffIsLast` | the same, `CutInv` |
| | `ClosedWritesNothing` | `NothingAfterClose` | `LateInv` |
| | `DeadlineIsOwn` | `OwnDeadline` | `DeadlineInv`, `LockInv` |
| `AgentProofs` | `TypeCorrect` | `TypeOK` | `Flags`, `Places` (its two halves) |
| | `NobodyMissed` | `EveryConnWoken` | `ShutInv` |
| | `NilReturn` | `NilMeansFinishedOrCancelled` | `LifeInv`, `ShutInv` |
| | `GiveUpReturn` | `GiveUpClosesAll` | `LifeInv`, `ShutInv` |
| | `ClosedIsShutdown` | `ShutdownIsNotAnError` | `ClosedInv` |
| | `AgentServesConnections` | `ImplementsConnections` | `LifeInv`, `OpenInv` |
| | `SlotsNotLeaked` | `NoSlotLeak` | `SlotInv` |
| | `LimitKept` | `ConnLimit` | `SlotInv`, `LimitInv`, `HandInv` |
| `ClientProofs` | `NilMeansAcknowledged` | `OwnAck` | `ClientInv`, `FreshInv`, `GoodbyeInv` |
| `HandshakeProofs` | `CeilingsHold` | `BothCeilings` | `HelloInv` |
| | `RefusalIsTrue` | `CodeNamesDefect` | `HelloInv` |
| `PoolsProofs` | `ObjectsOwned` | `OneOwner` | `OwnerInv` |
| | `HandlersReadTheirOwn` | `OwnData` | `OwnerInv`, `DataInv` |
| | `PoolsAreClean` | `PooledClean` | `OwnerInv`, `DataInv` |
| `CodecProofs` | `ScratchSuffices` | (of `PutUvarint`) | how many bytes reach how far (`Reach`) |
| | `PayloadBack` | (of `Payload` and `Entries`) | induction on the number of entries |
| | `ReadAgain` | (of `Entries` and `Payload`) | induction on the length of the buffer |
| `FrameStreamProofs` | `ReadWhole`, `ReadPart` | (of `EncodeFrame` and `ReadLimit`) | `PayloadBack` |
| | `FramesReadBack` | `ReadsWhatWasSent` | `StreamInv`, `ReadWhole`, `ReadPart` |
| | `CutNeverHidden` | `CutIsNoticed` | the same |
| | `VarintsAreCanonical` | `VarintCanonical` | `StreamInv`, `ScratchSuffices` |
| | `AcceptedMeansSomething` | `AcceptedIsEncodable` | `StreamInv`, `ReadAgain` |

Worker. Most of it also needs `FreshInv`: a NOTIFY still in the stream or in the
loop's hand has no goroutine yet, and is there once.

- `GoodbyeInv`: the holder of `sendMu` is exactly the goroutine that is writing;
  an ACK is written only before `goodbyeSent`, an AGENT-DISCONNECT only after it.
  The property alone is not inductive: it says nothing of an ACK about to go out.
- `DrainInv`: a goroutine outside `inflight` has not started or is through;
  one that is through has its ACK on the wire, or the connection's last word is
  spoken for (`Over`); so a loop that won `disconnectOnce` with "shutdown" after
  the wait finds every ACK sent.
- `OwnInv`: a frame passes from the loop to the goroutine it starts in one step,
  and that goroutine gives it back before it is through. Acquires and releases
  are counted; what the property lacks to be inductive is where the loop has a
  decoded frame (`cur`), which tells a failure of `dispatch` from one of the read.
- `TimerInv`: a deadline in the past, which only a poke or the loop's own second
  look at `done` sets, means that `done` is closed. So a loop woken by a deadline
  with `done` still open was woken by its timer.
- `SlotInv`: a busy goroutine has a token, and tokens do not outgrow the
  channel. Handing a slot to the parked loop keeps the count.
- `LateInv`: once a NOTIFY was dispatched late, the loop cannot be at the select
  again, because the look at `done` before it turns the loop away.
- The refinement goes action by action: each one is a step of `Connection` or a
  stutter (`StepRefines`). That a goroutine closes the connection only while
  `busy`, and that the goodbye of a drain finds nobody busy, come from `DrainInv`;
  that whoever has raised the flag is about to close the socket, from `CloserInv`.

Transport. `LockInv`: a call is between the lock and the unlock exactly if it
holds `writeMu`. `WireInv`: a call in the middle of its payload wrote the last
piece on the wire, so the next piece keeps payloads together. `CutInv`: a payload
that stopped half way for another reason than a timeout or a short write found
the socket dead. `DeadlineInv`: a deadline standing on a live socket belongs to
the call that is writing or clearing. `LateInv`: a call begun after a `Close`
returned sees the flag and gets no further than the check.

Agent. `HaveInv` and `LifeInv` tie a connection's stage to the loop that holds
it, the WaitGroup, the roster and its flags, and say where the one is who has
raised the closed flag and not yet closed the socket: a handler that runs, a worker
in its `Close`. `ShutInv` says what each stage of Shutdown has done: whatever is
served is poked or in the snapshot, and after the second snapshot its flag is
raised or it is in it. `SlotInv` equates the tokens with the number of those who
owe a receive (`SlotHolders`), which each step of Serve and of a connection's
goroutine changes by one together (`Count`, `Uncount`, `ReleaseCounts`); `LimitInv`
bounds them, `HandInv` says that an accepted connection is in the hand of a loop,
and `LimitKept` maps open connections to holders one to one. `ClosedInv`: a listener is
closed only in a drain, which a loop with an accept error looks at first.

Client. `OwnAck` is about calls that have returned, and `ClientInv` about the one
that waits. `TurnInv`: until the worker closes or says goodbye, what the client
sent is in one place (the stream, the loop's hand, a goroutine, the wire), and it
is the frame of the call that waits. `AnswerInv`: an ACK or an AGENT-HELLO not yet
read is the next frame, for that call, and the agent has no unread input whose
reset could lose it; a goodbye does not change that, since it only adds behind it.
`SeenInv`: a worker that is ready has told the client, or its HELLO comes next.
With `ReadInv` (a goodbye that was read was on the wire) and the worker's own
`NoAckAfterGoodbye`, an ACK read now follows no goodbye. `StartInv` says what can
be under way before the handshake.

Handshake. `HelloInv`: once a size is agreed or a code of `negotiate`'s is given,
it is the one `negotiate` returns for the items that came, since none comes after
it; and a frame that moved is no longer than what was agreed. What `negotiate`
returns is then compared with the items: `FirstOf` finds the first item of a name
(the least index, from the well-foundedness of the naturals), the lower of two
sizes is at most either, and a version list is refused exactly if every entry that
parsed is below 2.0.

Pools. The first half proves what `sync.Pool`'s two operations do to the set of
objects that are free (in the pool or not yet made), and that one task's step
leaves what the others hold alone; the second draws the conclusions.
`OwnerInv`: frames, requests and messages of a task are in use and its own, no
message is listed twice or is both listed and in hand, and every message, pooled
or not, owns a KV that no other one does, except while it swaps it. That the
message's KV stays its own while the message lies in the pool is what `OneOwner`
does not say and its proof needs. `DataInv`: what a free object, one about to be
given back, a listed message and a request hold.

Codecs. A decoder's loop is a recursive function, and the prover takes no induction
theorem that has an operator for a parameter. Everything therefore starts from
`Least` (a set of naturals that is not empty has a least element, which follows from
the well-foundedness of `<`). From it come `Induction` and `SeqInduction`, in which
what is to be proved is a set; `Recursion` and `Typed`, which say that a function
defined from smaller arguments exists, has its type and satisfies its equation; and
with these an unfolding lemma for each recursive function (`ContinuationIs`,
`ContinuedIs`, `UnmarshalNBIs`, `EntriesIs`, ...). Then, for each kind of datum from
varints to frames, two lemmas: `...Put`, that a decoder given what the encoder wrote
followed by any bytes returns the datum in canonical form and takes exactly the
encoder's bytes; and `...Takes`, that whatever a decoder accepts, of any buffer, is a
datum that can be encoded. "Followed by any bytes" is the strengthening: entries have
no terminator, so each proof needs the one before it in front of the bytes that come
next. For varints, `Reach` measures what k bytes carry: below `MaxLen` bytes no sum
`Uvarint` forms wraps round (`NoWrap`, `NoWrapAtAll`), and what `PutUvarint` wrote is
read back whatever its length (`UvarintPut`). `ConvertedBack` is the arithmetic of a negative number that is
widened and cut down again.

The stream. `StreamInv` says what the properties leave out: the bytes on the stream
are those of the frames sent and not yet read, but for those the writer's death cost,
which are of the last frame (`Cut`, `Died`); what was read is what was sent
(`Matches`); and why the reader stopped (`Ended`). A step of the reader meets a whole
frame (`ReadWhole`) or the last one cut short (`ReadPart`). `StreamInv` was checked
with TLC on the instance of the codec run before it was proved.

Only model-checked: the liveness properties, `ParkedMovesOn`, `GoodbyeThenClose`,
`ForcedCloseCompletes`, `LeavesWhenTold`, `EveryCallReturns`, `EveryoneLeaves`,
`CloseFreesAll`, `TimeoutBounds` and `CallsReturn` (fairness is out of the prover's
reach). Every safety property that a passing run checks is proved.

## Findings

1. `worker_two_goodbyes`: the answer to a HAPROXY-DISCONNECT does not go through
   `disconnectOnce`, so a handler whose ACK fails at that moment sends a second
   AGENT-DISCONNECT (`src/worker/worker.go:441` against its comment at 142).
2. `agent_handlers`: Shutdown returns nil past the grace period while a handler
   of a connection whose peer had left is still running (`src/agent/agent.go:353`).
3. `pools_quote`: for a message without its NB-ARGS byte, `Messages.Decode` gives
   the message back to its pool and reads its name for the error afterwards, with
   nothing that orders the read against the next user (`src/message/decode.go:31`).
   The name is empty by then, or that of a message another connection is decoding.

Smaller things the models show and no run is spent on:

- Without an in-flight limit `acquireSlot` never looks at `done`
  (`src/worker/worker.go:255`), so `LateDispatchBound` is a property of limited
  connections only.
- After a write that timed out part way, the AGENT-DISCONNECT goes out behind the
  partial frame (`src/worker/frame_notify.go:77`): that is what `CutOffIsLast`
  has to allow for a timeout.
- `ReadLimit` refuses a mistyped `max-frame-size` with code 4 before `negotiate`
  could report the code 6 its comment speaks of (`src/worker/handshake.go:48`).
- `Uvarint` accepts encodings longer than `MaxLen` and lets the number wrap, so
  from `MaxLen` bytes on a number has several encodings, which `VarintCanonical`
  leaves out. Nothing in the repository says that they are refused.
- Shutdown can return while a socket it was to close is still open
  (`src/agent/agent.go:439`), for as long as the goroutine that raised the flag
  takes to get to `conn.Close` (`src/transport/conn.go:98`).

## What is not modelled

- The logger: output only. The channel logger blocks its caller while its channel
  is full, so whoever uses it must drain the channel; that is not this code.
- Lookups that change nothing: `Messages.GetByName`, `GetByIndex`, `Len`,
  `KV.Data`, and the getters of the options.
- The text of messages and logs, the parsing of version lists as text, and the
  reading of configuration.
- A frame's own KV, which it takes once and keeps; it cannot change hands.
- Panics, of handlers or of the library.
