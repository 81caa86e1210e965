# cli-wrapper in TLA+

cli-wrapper lets a Go program supervise command-line tools through a helper
process.  This directory models the parts of it where goroutines, processes,
messages, timers and crashes meet, checks them with TLC on small instances, and
proves the most important facts with TLAPS for all instances.

Contents: [the system](#the-system) ·
[hard behaviours](#where-it-is-hard) ·
[modules](#modules-and-how-they-follow-the-code) ·
[runs](#what-the-runs-check) ·
[bounds](#bounds) · [fairness](#fairness) · [proofs](#what-is-proved) ·
[disagreements](#where-code-and-documentation-disagree) ·
[what the models show besides](#what-the-models-show-besides) ·
[limits](#not-modelled)

## The system

```
 host process                                   cliwrap-agent process
 Manager ── processHandle ── Controller          agent.Run
   │                            │                   │
 event bus, log watchers     ipc.Conn ══ socket ══ ipc.Conn ── Dispatcher ── Runner ── child
 mgmt server ── CLI          outbox + WAL          outbox + WAL    (persistent: accept loop,
                                                                    ring buffer)
```

| Part | State | Operations | Module |
|---|---|---|---|
| `ipc.Conn` | outbox, spilled frames, sequence counter, dedup watermark, pendingAcks, closed/cancelled flags | SendWithNewSeq, SendAndAwaitAck, readLoop, writeLoop, fireDisconnect, Close | `IpcConn`, `FrameChannel` |
| WAL | log file, descriptor, buffered writer, size | OpenWAL, Append, Replay, Retire, Close | `Wal` |
| Controller, processHandle, Spawner | state, features, capReplyCh, crashSource | Start, Stop, Close, CloseConnOnly, handleMessage, SendPTY | `Session` |
| Agent | cancelFn, runner group, shutdownReq, activePTY | Run, Handle, startChild, stopChild, Drain | `Session`, `StopCascade` |
| Persistent sessions | session directory, listening socket, attach lock, ring | initPersistent, runAcceptLoop, handshake, AdoptConn, Manager.Reattach, ReattachController | `Reattach`, `ReattachOutput` |
| PTY subscriptions | subscribers, ring dump | SubscribePTYData, fanOutPTYData, drain of the dump | `PtySubs` |
| Manager | handles, watch goroutine, flags per handle | Register, Reattach, watchLoop, publishTransition, Shutdown | `Manager` |
| Event bus | subscriptions, drop counters | Publish, Subscribe, Close, disconnect | `EventBus` |
| Log pipeline | chunk buffers, watchers | emitLogChunk, WatchLogs, closeLogWatchers | `LogWatch` |
| Management server, its clients | listener, connections, handlers | acceptLoop, handleConn, streams, Close | `MgmtServer` |
| Buffers and files for output | rings, chunk buffer, log files | Write, Snapshot, filters, rotate | `Rings`, `Buffers`, `Rotator` |
| Heartbeat, restart loop, resource monitor | clock, attempts, breach counts | loop, Run, Evaluate, Stop | `Heartbeat`, `RestartLoop`, `Evaluator` |

## Where it is hard

The full list, each at its source line and with the properties that watch it, is
`hazards` in `PROJECT.json`.  In short:

* **Sequence numbers and the watermark.**  The receiver drops every frame whose
  number is not above the last one.  Two goroutines that number and queue their
  frames in different orders would lose one silently (CW-G5).
* **Acks.**  Stop takes the agent's ack as proof that the child is dead.  It must
  follow the handler's work and the report of the exit, and it races the
  caller's context and the end of the connection.
* **Closing.**  Local Close, the peer's death and a failing write meet in
  the same two loops; Close joins them with no time limit.
* **Files.**  The log of a Conn and the rotated log files survive their process, so
  a crash between any two system calls is a state the next process starts from.
* **State of the controller.**  Stop and handleMessage each read it and then write
  it, on different goroutines; the Manager's poll reads it under a third lock.
* **Three nested timeouts** (CW-G3): StopTimeout within the drain budget within
  the kill grace.
* **Host or agent dying** at any point, and sessions meant to survive that (CW-G4);
  hosts that dial while another is attached, or while the agent starts or ends;
  output that goes on during the handshake.
* **Fan-out.**  Channels of the bus, of the log watchers and of the PTY subscribers
  are closed by one goroutine while another is about to send on them; full
  channels drop.
* **Shutdown** of the Manager while handles start, close and are reattached, and
  streams hang on its bus.

## Modules and how they follow the code

`map` in `PROJECT.json` gives the lines of every definition.

**`IpcConn`** is a pair of Conns joined by a socket.  Each end has application
goroutines inside SendWithNewSeq or SendAndAwaitAck (`call`), the writeLoop
(`wpc`, `hand`), the readLoop (`rpc`, `inbox`) and a closer (`cpc`).  A send is two
steps, taking a number and queueing the frame, with sendMu held between them;
writeLoop's check of the context, its Dequeue and its write are separate steps,
and so are the six steps of Close and fireDisconnect's check and its action.  A
full outbox spills to the log, a failed write spills the frame in hand, a full
log refuses.  The agent's readLoop sends acks after the handler and so competes
for sendMu with the other senders.  Variables under "what happened so far"
(`accepted`, `received`, `handled`, ...) are history and guard nothing.

**`FrameChannel`** is what the pair promises the layers above: accepted numbers
increase, and the peer takes in accepted frames in order and at most once.
`IpcConn!ImplementsChannel` says the pair implements it.  The mapping is the
identity on `accepted` and `received`.

**`Wal`** is the log at the level of system calls.  A file is a sequence of cells,
a header and a payload per record, so that a write cut short is a header
without its payload.  Append is header, payload, fsync; Retire is read, write
beside, rename, reopen; each may fail and the process may die after each.  Every
open belongs to a new Conn whose numbers start at one again, as in the code.

**`Session`** is one managed process from processHandle down to the child.  The
connection is reduced to FrameChannel's promise: each direction is an outbox and
a wire, in order, losing what is unsent when its end goes.  With `Overflow` any
frame may be left in the log (`logged`), which nothing reads back.  Host side: Start with its
negotiation and its failures, handleMessage with the judgement of ChildExited and
the store of the new state as two steps, Stop in four steps per caller, Close.
Agent side: Handle with the ack it owes, the runner goroutine from launch to
release (its last word is ChildExited, or a ChildError when cmd.Wait itself failed),
agent.Run from its wait to its exit.  Timers fire at any moment.
Pipe and PTY mode differ as in the code: a PTY child is started under the context
and killed at once when it is done, a piped one gets SIGTERM first.

**`StopCascade`** adds the clock to the end of a session: StopTimeout, DrainBudget
and Grace as numbers, timers that fire no earlier than due and are acted on
before the clock moves on.

**`Reattach`** is a persistent session from the agent's start to its end.  The agent
writes meta.json and pid, removes an old sock and binds, and listens, in separate steps,
in a directory where an earlier agent of the same id may have left its files (`left`); its accept loop waits
for the attached Conn to be done, takes the attach lock, sends the HELLO and the
ring dump, adopts the new Conn, or gives up on it when none can be made, and goes back.
The output pump sends a chunk to the
current Conn, whose outbox holds `OutboxCap` frames and spills the rest, and then writes it to the ring, in two steps that interleave with
the handshake.  A host reads meta.json, checks the pid, dials, reads the
handshake, compares its StartedAt with that of meta.json, starts its Conn and sets its
state to Running; each is a step, each may find the files of the earlier agent or of
none, and so are the message and the disconnect that may come in between.  A dial may also
be ended by the caller's context.  Hosts detach or die at any
point, the agent may die, its child may end.  **`ReattachOutput`** states what
a reattached host sees of the output.

**`PtySubs`** is the fan-out of that output inside the host: subscribers come and go,
live chunks drop on a full channel, and ring dumps, which may be set while subscribers
race for them, go to one subscriber each, from
a goroutine that waits at most for its timeout.  SetInitialPTYBuffer's two stores, the
swap of the flag and the taking of the buffer are separate steps.

**`Manager`** sees a handle through `Status`: the Controller's state, or what Close
left behind.  Start holds the handle's mutex throughout and Close lets go of it while
it tears down.  watchLoop takes its list of handles, visits one after the other
and publishes one event at a time; Shutdown is begun / stop / close / join / done.
What a Controller may do between two looks is `NextStates`, the moves
Session allows.

**`EventBus`** and **`LogWatch`** are the two fan-outs of the host: a list taken under
the lock, sends outside it, channels that Close, disconnect or
closeLogWatchers close meanwhile.  A send on a closed channel sets `panicked` or
`logPanicked`.  In the bus, send, reset of the drop counter and comparison with the
threshold are three steps of a publisher.  LogWatch has a read loop per process, whose
Controller a caller's Close may take away from Shutdown (`TakeController`), so that
Shutdown does not join it.
**`MgmtServer`** composes both with the server's accept loop, whose Accept and `wg.Add`
are two steps, the
handlers, the clients (who ask, read, stop reading, leave), the first Close of the
server and later ones, and the tail of Manager.Shutdown.

**`Heartbeat`**, **`RestartLoop`**, **`Evaluator`** (with the monitor's loop),
**`Buffers`** and **`Rotator`** are components with no state in common with the others.
Heartbeat has a clock and a ticker that holds one tick; a look at exactly the end of the
window may go either way.  RestartLoop has the backoff with its defaults, its cut and its
jitter, in tenths.  **`Rings`** feeds the same bytes
to the agent's ring and the log ring; Buffers adds the chunk buffer to each of its steps,
and each is compared with what a plain sequence of bytes would give.  Rotator is the rotation of one stream's files a
system call at a time; a rename or an open that fails ends the Write, a Stat or a removal
that fails is passed over, a write may be cut short.

**`MCComponents`** puts the independent components side by side: `focus`, chosen in the
initial state, says which of them moves, so the state space is the sum of theirs and
not the product.  The other `MC*` modules instantiate one specification each and
define its sets of values, symmetry and constraint.

The theorems are in **`IpcConnProofs`**, **`SessionProofs`**, **`ManagerProofs`**,
**`MgmtProofs`** (with the event bus and the log pipeline), **`ReattachProofs`**,
**`ReattachOutputProofs`**, **`ComponentProofs`** (stop cascade, PTY subscriptions, evaluator, restart
loop, heartbeat) and **`StorageProofs`** (write-ahead log, log files, rings).

Composition: Session and Reattach rely on FrameChannel, which IpcConn is shown to
implement; StopCascade gives the untimed shutdown of Session the deadlines
that make it safe; Manager takes from Session the moves of a Controller; MgmtServer is
built from EventBus and LogWatch.

## What the runs check

| Run | Question | Answer |
|---|---|---|
| `conn` | two senders, a local Close, a dying peer, overflow, oversized frames, under fair scheduling | no frame is taken for a duplicate; the channel is implemented; an accepted frame is always somewhere, except the one in hand when write and log both fail; an ack means handled; pendingAcks holds only running calls; only a remote end fires the callback; Close returns, both loops end, waiters are released; what is queued on a connection that stays up arrives |
| `session_safe` | every kind of spec, Stop once or twice, Close, a PTY request, both processes mortal, outboxes that overflow | a nil Stop means a dead child, reported unless a frame was left in a log; a terminal state is the truth; no return to Running; a persistent agent outlives its connection |
| `session_live` | fair scheduling, persistent or not | Stop comes back; the exit is reported; a persistent agent leaves after its child |
| `manager` | handles that start, end, close, are reattached and start again under the poll and under Shutdown | events come once and in order, and a terminal one is true; ends are announced; Shutdown returns, nothing is left behind and nothing is published after it |
| `mgmt` | a follower or subscriber that leaves or stalls, Server.Close, Shutdown | a follower sees chunks in order and misses only what its full channel refused; the Close that closes the listener returns nil only when all is quiet, a later one may return before; what a send on a closed channel takes, before and after Shutdown has joined the senders; Shutdown ends the streams |
| `reattach` | two hosts at once or in turn, output beyond ring and outbox, files of an earlier agent, an agent that starts, ends or dies | no output twice; none lost but what was picked for the previous Conn or found the outbox full; no host whose Conn was adopted is displaced, each is served; ErrAgentDead is true but for two windows of an agent's start; the end of the session is noticed |
| `components` | each independent component alone | *Wal:* stored records stay in the file; without torn records they can be read and the size is right; the cap is overrun only by failed calls. *StopCascade:* a child asked to stop in time is never orphaned. *EventBus:* order per publisher, nothing vanishes uncounted, only subscribers that missed enough are closed, and enough in a row unless publishers came between each other's steps. *PtySubs:* a dump goes to one subscriber at most, once; no silent gap. *Heartbeat:* an alarm means silence and silence means an alarm, within stated times. *RestartLoop:* attempts, backoff with and without jitter, cancellation. *Evaluator:* an action means a sustained breach and the reverse; quiet after Stop. *Buffers:* the latest bytes and chunks, exact filters. *Rotator:* the latest entries in order, without a hole but for files a failing Stat hid, within the size of files and, for MaxFiles above one, their number, through failures and deaths |

Where a property has several parts (`AcksAreSound`, `EventsAreTrue`, `FilesAreSound`, ...)
each part is a definition of its own, with its own comment.  `OrderInv`, `CascadeInv`
and `NoneRejected` are in no run: they are proved.

The remaining five runs expect a violation: see
[disagreements](#where-code-and-documentation-disagree).

Every property of a passing run has a mutant: a definition changed the way a
plausible bug would change the code (no sendMu, ack before the handler, no kill,
adopt before the snapshot, ...), under which TLC finds the property violated.

Deadlock is not checked: a session that has ended, an idle connection and a log
that reached its bounds all stop legitimately.  That nobody waits for ever is
stated by the liveness properties instead.

## Bounds

* `IpcConn`: outbox of one frame, log of one record, socket of one frame, two
  numbers per end, three in `conn_neverlost`.  The second frame overflows into the log
  while the first is queued, or waits behind a full socket; the third can be
  queued after one that was logged.  Two senders suffice for a race on sendMu;
  `SecondSender` lets the second begin only while the peer lives and no Close was
  called, the first meets everything.  The agent has no senders of its own besides readLoop's acks:
  `MaxSeq` also bounds the acks, and an ack that could not be numbered would be a
  wait the code does not have.  The proofs are for any number of senders at both ends.
* `Session`: the spec of the process is chosen in Init.  One PTY request.
  `SecondStop` limits the second of two Stops to a PTY session that is not
  persistent, with both processes alive, no overflow and no request; the first
  Stop meets everything.  `session_live` has one Stop and piped children; a PTY child
  differs in being killed at once, which only shortens the wait.  One life of a
  handle; further lives are in Manager.
* `Manager`: two handles and one Start each.  `SmallManager` keeps the product small:
  alone, p1 does all a handle can do; beside p2, whose Start holds up the poll and
  Shutdown, it is a plain process that ends at most once.  Every action
  assumed fair has a successor within the constraint, so the constraint makes no fair
  behaviour impossible.  The safety properties are proved for any number of
  handles and Starts.
* `MgmtServer`: one client, one process, one publisher with one event; channels of one
  entry, a snapshot of two chunks, three chunks in all: one beyond the
  snapshot and one beyond the channel.  `CloseEarly`: once the server is being closed there
  is at most one chunk, enough to have a handler busy.  A process has one read loop at a time.
* `Reattach`: the host that spawned the agent and two more, a ring of two chunks, an outbox
  of one and three chunks of output.  `InTurn` orders the interchangeable hosts: the second
  begins when the first has dialled the agent whose meta.json it read and comes after it
  in the backlog; the first chunk is there when the first host dials; the host that
  spawned the agent stays until it is displaced.  An attempt that
  fails before its dial is checked and not followed further: its result is all it leaves.
* `Wal`: SizeCap 7 cells (three records and a half, so that the cap falls inside a
  record), four numbers, three opens, two failing system calls: one process's torn
  record, its successor's appends on top of it, and a third that reads them.  Two
  torn halves may form what looks like one record; `cut` marks those files, and the
  properties about reading do not speak of them.
* `StopCascade`: half seconds, so 4 < 5 < 6 are the values of the code; the clock
  runs to 14, beyond the last deadline of a stop sent just before the grace ends.
* `EventBus`: two publishers, one subscription, four events, a channel of one,
  disconnection at two drops.  `PtySubs`: two subscribers, channels of two, two live
  chunks, two dumps.
* `Heartbeat`: intervals 1 and 2, timeouts 1 and 3 (shorter than, equal to and longer
  than the interval), thresholds up to 3, 18 units of time, which covers pongs and then a full silence
  at the slowest setting.  `RestartLoop`: MaxRestarts 0 (no limit), 1 and 3, five
  attempts; the default backoff, one that reaches its Max (1, 2, 4, then 5), one whose
  Initial is above its Max, and one with a jitter of one half.
* `Evaluator`: one process (processes share nothing but the map), thresholds 2 and 3, four
  samples.  `Buffers`: capacities 1 to 4, five bytes in at most three writes, so that a
  write fits, fills, wraps and exceeds the buffer.  `Rotator`: MaxFiles 1, 2 and 4,
  entries of one to three units in files of two, five entries, two faults.

## Fairness

Weak fairness of a goroutine's next step stands for the Go scheduler, which runs
every runnable goroutine.  Handlers are assumed to return (the agent's is modelled
in Session, where it may wait for the runner).

* `IpcConn`: one weak assumption per goroutine and `SF_vars(WriterDequeue)`: Dequeue's
  select is entered again and again with a frame ready, and a ready channel is
  taken when the timer has not fired, so the timer cannot win for ever.
* `Session`: a cancelled runner's timer fires and the kernel delivers signals (weak
  fairness of RunnerTerm and RunnerKill).
* `Manager`: strong fairness of the poll and of Shutdown, which wait for handles' mutexes
  that callers of Start may take again and again; a Go mutex in starvation mode is
  handed to the longest waiter.  Weak fairness of a Start and a Close that were
  called: their waits are bounded by contexts and timers.
* `MgmtServer`: the handlers, publishers, read loops and the steps of Shutdown.
* `Reattach`: the accept loop, the pump, the closing of the session, and a host's reads.

Nothing is assumed to make an application call Stop or Close, give up, read, dial or
detach, or a process or child end by itself.

## What is proved

Every safety property of the passing runs has a theorem, with one exception
(`BuffersKeepLatest`, see below).  The theorems hold for every value of the
constants that the named assumptions allow: any number of senders, hosts, clients,
handles or subscribers, any capacity, any number of steps, failures and restarts.
The assumptions say that capacities and intervals are positive and bounds are
numbers, plus: DrainBudget < Grace (`CascadeAssumption`, the order of the
constants in the code), and that no
process has the empty id (`LogAssumption`; Spec.Validate).  Each theorem rests on
an inductive invariant that holds initially, is kept by every action and implies
the property.

**`IpcConnProofs`**

* `TypeCorrect`: TypeOK is inductive by itself.  It includes that neither queue
  outgrows its capacity.
* `OrderHolds`, `NeverFalseDuplicate` (CW-G5).  That no frame was dropped says nothing
  about the next one; `OrderInv` supplies the reason.  `InOrder`: numbers grow along
  outbox, writeLoop's hand and socket, and everything on that path lies above the
  receiver's watermark and not above the sender's counter.  `HolderNewest`: whoever
  is inside sendMu holds the newest number, which is nowhere on the path yet, and
  is alone there.  A frame that is read is then the head of an increasing wire
  above the watermark, hence no duplicate.
* `DisconnectTold`: `LinkInv` says that a socket closed on this side of a living
  process was closed by Close, which sets `closed` first.
* `AcksTold`: `AckInv` says that every ack on its way, in an outbox, in a hand or on the
  socket, is of a frame whose handler has returned, and that a waiter whose entry is gone
  without its doing was woken by such an ack.
* `NothingElseLost`: `DeliveryInv` follows accepted numbers along the path; what is
  nowhere is the one frame writeLoop held when write and log both failed.
* `ConnIsChannel`: refinement.  Every step is a step of `FrameChannel` or leaves it
  alone; the order of accepted numbers comes from OrderInv, that of the received
  ones from DeliveryInv.

**`SessionProofs`**: `SessionInvariant` is one invariant for four theorems
(`StopMeansOver`, `TerminalIsTrue`, `NoSawtooth`, `PersistentStays`).  It says where the
goroutines can be relative to each other (`ControlInv`), that START_CHILD goes
ahead of every STOP_CHILD (`OrderInv`), that a stop is acked only when no child
runs and none will follow (`QuietInv`), that the agent's news come in order,
started before ended before the ack (`NewsInv`, `ReportInv`), and what the host may
conclude from them (`BeliefInv`).  The queues are handled by three relations, `Has`,
`Ends` and `Leads`, with lemmas on what appending, taking and moving a frame does to them.

**`ManagerProofs`**

* `EventsTold` has two halves.  `LifecycleOrder`: the events of a handle come once each
  and after those they presuppose.  `WordInv` keeps the published words in order and their
  terminal events true; it is preserved because publishTransition takes the first unset
  flag of a state and because of TruthInv.  `TerminalTruth`: Stopped and
  Crashed are published only of handles that came to that end.  `TruthInv` says
  so of every place a state passes through on its way to the bus: the Controller, the
  one being closed, lastStatus, what the poll has found.
* `ShutdownComplete` and `QuietAfterShutdown`.  `ReleaseInv` follows Shutdown's snapshot:
  what is registered and not late is in it, and what was swept has no Controller and
  no Start under way.  `QuietInv`: once Shutdown has returned the poll visits no
  handle, a watcher that a later Reattach starts included.

**`MgmtProofs`**

* `BusDelivers`: `BusInv` adds to the parts of DeliveredOrCounted that an event is
  published once, that a publisher is busy with its latest, that what is still
  to be sent to a subscription is not in its stream, and that the drop counter
  never runs ahead of the events dropped, nor of those dropped in a row unless the
  subscription is marked as raced.
* `ServerUsesBus`: refinement; the composition uses the bus as EventBus specifies, so
  what holds of the bus holds inside the server.
* `CloseIsQuiet`: `CountInv`, Server.wg counts the accept loop and the handlers that
  have not returned; a connection between Accept and `wg.Add` is held by the accept loop,
  which is itself counted.  So nothing can be added once the wait is over.
* `ShutdownIsSafe`: `CloseInv`, who closed a channel and why: Shutdown, when nobody that
  it joined is left to send, or the handler of a client that has gone, or the bus for a slow
  subscriber.  What remains is a read loop whose Controller another Close had
  taken, or one started behind Shutdown's back.
* `FollowerIsServed`: `FollowInv`.  What a watcher was due are the chunks fanned out
  since its registration, without a gap; what it was sent and what waits is due,
  in order, and older than what is still to be sent to it.

**`ReattachProofs`**

* `ReattachedIsSafe`: a reattached host keeps its connection until it leaves, the agent
  ends or no Conn can be made for it.  `LoopInv` ties the accept loop to the Conn it serves: at most one
  reattached host has an open end, it is the current one, and the loop moves on only
  when that Conn is done.
* `NeverTurnedAway`: no host is rejected.  The same invariant shows that the loop never
  meets its own attach lock.  `FrameInv` carries that to the frames in outboxes
  and on the wires.
* `DeadIsDead`: ErrAgentDead is true of the agent whose meta.json was read, and stays true.
  `VerdictInv` says which files of an earlier agent can be around in which phase of
  this one, and that the pump works only while the agent serves, so no step opens
  the listener again.

**`ReattachOutputProofs`**: `ReattachIsSeamless`.  `HeldInv` says that dump, received,
wire and outbox of a host make one rising sequence below the chunk the pump is about to
queue.  It needs that HELLO and dump come first and nothing live before
adoption (`GreetInv`, `AdoptInv`, `PlaceInv`) and that the ring holds the newest chunks and is
full before it lets one go (`PumpInv`).  `CoverInv` follows a snapshot from the socket
into the host: every chunk is in it, older than it, live, in the window
of the handshake, spilled by a full outbox, or in the pump's hand.

**`ComponentProofs`**

* `CascadeSafe` (CW-G3): `CascadeInv` adds that no deadline is overrun while it matters
  and that the agent leaves its drain with the child reaped or the budget spent.
* `FanOutIsSound`: `PtyInv` follows every dump, from the buffer to the goroutine or to a
  stream: the one in the buffer is nobody's yet, and no two subscribers were handed the
  same.  Of each subscriber it says that what it got and missed are the chunks
  since it came.
* `EvaluatorIsRight`: a breach count is the length of the row of breaches that the
  samples end with, and stays below the threshold.
* `RestartsAreBounded`: `RestartInv` ties attempts begun, counted and waited for to
  where Run is, and every wait to the power of the Multiplier it was computed from.
* `HeartbeatIsTimely`: `TickInv` says that looks are one Period apart, whichever of interval
  and timeout is longer and though the ticker holds one tick; `MissInv` turns a
  row of misses into a silence and back.

**`StorageProofs`**

* `StoredRecordsSurvive`: `DiskInv` says what is in the file and beside it at every step
  of Append and Retire; in particular the file beside it has every stored record when it
  is renamed.
* `WalStaysWithinCap`: `SizeInv` compares the size kept by hand with the file at
  every step.
* `LogFilesAreSound`: `RotatorInv`.  In rotateLocked's loop the place of the next file is
  free, the oldest's or that of a file a failing Stat hid (`RotationInv`), the numbers on
  disk have no other hole up to the
  newest, and as long as nothing failed entries go only from the oldest file (`FullInv`).
* `RingsHoldLatest`: `RingsInv` gives every cell of both rings by its position, the
  head and the number of bytes written, for writes that fit, fill, wrap or exceed
  the ring.  This is the part of BuffersKeepLatest about rings.

Only model-checked:

* liveness (LoopsEnd, WaitersReleased, QueuedIsReceived, StopReturns, ExitReported,
  PersistentAgentLeaves, EndIsAnnounced, ShutdownReturns, StreamsEndAtShutdown,
  BacklogIsServed, EndIsNoticed): the prover has neither fairness nor ENABLED;
* the parts of BuffersKeepLatest about the chunk buffer and its filters
  (`ChunksKeepLatest`, `FilterIsExact`): they fold over sequences of chunks, and
  induction over data is out of this prover's reach.

## Where code and documentation disagree

| Run | Property | What the code does |
|---|---|---|
| `conn_neverlost` | NeverLost | a spilled frame is reported as sent and never read back |
| `session_terminal` | StopAckedMeansTerminal | Stop may store Stopping over a terminal state and return nil with the controller in Stopping |
| `session_hostgone` | AgentLeavesWithConn | the end of the connection does not wake agent.Run |
| `bus_panic` | NoSendOnClosed | a subscriber that calls Close between Publish's snapshot and its send makes Publish send on a closed channel |
| `pty_order` | DumpComesFirst | live output overtakes the ring dump, which a goroutine sends after the subscriber was registered |

`findings` in `PROJECT.json` quotes the sentences.  Smaller ones, without a run of their
own; where a property excepts one by name, that name is given:

* `Dispatcher.Drain` cancels no runner: after SIGTERM without a stop request the agent
  leaves once the budget is spent, and the child may still run (dispatcher.go:376-379).
* `Conn.Done` (conn.go:173-178) is documented to be closed when the loops have exited;
  it is closed by the cancellation that makes them exit.
* `WAL.Replay` (wal.go:96) is documented to return every record; after a torn one it
  returns an error and none, which is why UncutIsReadable speaks only of files
  without one.
* `ErrAlreadyAttached` is never returned: the accept loop does not accept while a
  host is attached, so the second host waits in the backlog (`NoneRejected`).
* The rotator with MaxFiles 1 keeps two files (rotator.go:17; `FilesBounded` excepts it,
  and `AtMostMaxFiles` is what the comment says).
* Drops that are not consecutive may close a subscription: two publishers count and
  reset outside each other's sends (bus.go:13-14; `SlowMissedEnough` excepts them).
* `Server.Close` "waits for goroutines to exit" (server.go:347); a second Close returns
  nil at once while the first waits or after it has given up (`CloseNilMeansQuiet`).
* `Manager.Reattach` is documented to return ctx.Err() when its context ends
  (pkg/cliwrap/persistent.go:109); the dial's error comes joined with ErrAgentDead, and
  that of the handshake with ErrIncompatibleAgent.
* The comment at agent/persistent.go:96-97 relies on a policy that rejects a second spawn of
  a live id; there is none under src.  The model takes at most one agent of an id
  to be alive.
* `RestartLoop.Run` returns ErrMaxRestartsExhausted or the context's error where
  restart_loop.go:49-51 promises the last observed error.
* `FileSink.Write` after Close is documented to fail (file_sink.go:77-79); its map
  of rotators is nil by then and the write to it panics.

## What the models show besides

Behaviours that no sentence of the repository contradicts, that the properties above
except by name, and that a maintainer may want to know:

* A host may take the session from the host that spawned the agent: only reattached
  hosts are protected (`NoTakeover` is about `Hosts`, not `Boot`).
* A chunk picked for the previous Conn while the handshake with the next one runs comes
  to the ring after the snapshot and reaches the new host neither way
  (`OnlyWindowIsLost`).
* Between bind and listen of a starting agent a dial is refused and Reattach says
  ErrAgentDead; the comment at persistent.go:142-143 knows of it.  So it does while pid
  or sock are still those a crashed predecessor left (`TooEarly`).
* meta.json is written in place, and again when the child starts: a host that reads it
  half written gets ErrSessionNotFound of a living agent.
* A host that has both frames of the handshake, and takes itself for attached, is
  dropped when the agent cannot make a Conn for it (`NewConnFails`).
* Output that finds the outbox of a slow host full goes to the log and is not seen by
  it (`spilled`).
* A ChildExited or a disconnect that comes between conn.Start and setState(StateRunning)
  is overwritten with Running (`EndIsNoticed`).  In general a disconnect turns
  Stopped into Crashed.
* The goroutine that delivers the ring dump gives up when the channel is full for its
  timeout, and may send on a channel its subscriber has closed (`DumpPanics`).  A dump that
  arrives before the last one was taken replaces it.
* emitLogChunk may send on a closed channel when a follower leaves, and when Shutdown closes the channels
  while a read loop runs that it did not join, because a caller's Close had taken the
  Controller or because it was started late (`ShutdownNeverPanics` names both).
* Started is published also of processes that ended before the poll ever saw them run
  (`Presupposes`), and Status is Pending, or the previous life's end, while a Close is
  under way.
* Reattach does not look at `closed`, and a handle closed by Shutdown may be started
  again: both leave a Controller behind (`late`).
* A chunk written between the snapshot of a follow request and its registration is not
  seen by that follower; the newest of the snapshot may be seen twice (`FollowInOrder`).
* A stream opened after Shutdown never ends; a client that stops reading keeps
  its handler; an idle client keeps Server.Close waiting until its context is done.
* ShutdownReleasesAll speaks of the handles' Controllers: one that another caller's
  Close took may still be tearing down when Shutdown returns.  EndIsAnnounced is met by the
  event of an earlier life: a second end of the same kind after a restart is not
  published again.
* A rotation that fails leaves the rotator unable to write until it is opened again.
* RegisterLimits on a registered process keeps its breach counts; the second Stop of
  a Monitor panics; the first look of a heartbeat comes at the very end of the window that
  its start opened, so that whether it counts as a miss is a matter of how late the
  timers fire.
* Jitter is added after the delay was cut to Max, so a wait may exceed Max (`BackoffGrows`).

## Not modelled

* Code that only tests use: Watcher, CrashInfo, AckTracker, Spiller.Ack and ReplayInto,
  Outbox.InjectFront (which appends at the back, contrary to its comment).
* Byte layouts, payload structs, the cutting of piped output into log chunks, sandbox
  command lines and scripts, configuration, CLI output, /proc collectors, cgroups: no
  control state, and a model would repeat the code line by line.
* ListPersistent, which only reads the session directories, and OnStateChange, a
  callback of the caller.
* Time, except in StopCascade and Heartbeat.  Both take scheduling latency to be small
  against their unit; the code has no protection against a machine that
  stalls longer than the gaps between its deadlines.
* The width of sequence numbers (64 bits).
* A follow request with an empty id, which follows every process at once.
* In Reattach, a host that cannot make its own Conn or finds the id taken in its Manager, and
  ends of a connection by a protocol error.
* In Conn.Close the context bounds only the closing of the log; the join of the
  loops is unconditional in the model as in the code.
