----------------------------- MODULE MgmtServer -----------------------------
(***************************************************************************)
(* internal/mgmt/server.go with its clients (mgmt/client.go and the CLI's  *)
(* loops in cmd_logs.go and cmd_events.go): the accept loop, one handler   *)
(* per connection, the two streaming upgrades and Close.  The streams hang *)
(* on the Manager's event bus and log pipeline, which are composed here    *)
(* with the tail of Manager.Shutdown that closes both.                     *)
(*                                                                         *)
(* A client has one connection; its subscription and its watcher carry the *)
(* client's name.                                                          *)
(***************************************************************************)
EXTENDS EventBus, LogWatch

CONSTANT Clients
ASSUME ClientAssumption == Clients = Subscriptions /\ Clients = Watchers

VARIABLES
  listening,  \* the listener is open
  accepting,  \* acceptLoop has not returned
  wg,         \* Server.wg
  closer,     \* Server.Close: the first call is idle, waiting, or has returned nil or
              \* ctx.Err(); the later ones have returned nil, or not been made
  conn,       \* each client's connection: none, queued, in the hands of acceptLoop,
              \* accepted, or closed by the server
  client,     \* each client: idle, waiting for an answer, streaming, stalled, or gone
  handler,    \* handleConn of each client
  request,    \* the request the handler has read
  snapshot,   \* history: the chunks of a follower's snapshot frame
  live,       \* history: the live chunks sent to a follower
  shutdown    \* how far Manager.Shutdown is

srvVars == <<listening, accepting, wg, closer, conn, client, handler, request, snapshot, live,
             shutdown>>
mgmtVars == <<srvVars, busVars, logVars>>

FollowRequests == [kind : {"follow"}, process : Processes, stream : StdStreams]
OtherRequests == {[kind |-> k] : k \in {"events", "call", "logs", "badstream"}}

MgmtInit ==
  /\ New /\ LogInit
  /\ listening = TRUE
  /\ accepting = TRUE
  /\ wg = 1
  /\ closer = [first |-> "idle", later |-> "idle"]
  /\ conn = [c \in Clients |-> "none"]
  /\ client = [c \in Clients |-> "idle"]
  /\ handler = [c \in Clients |-> "none"]
  /\ request = [c \in Clients |-> [kind |-> "none"]]
  /\ snapshot = [c \in Clients |-> <<>>]
  /\ live = [c \in Clients |-> <<>>]
  /\ shutdown = "idle"

\* The connection still has a client at its other end.
Connected(c) == client[c] # "gone"

\* A blocking write is through, or fails, unless the client has stopped reading.
Writable(c) == client[c] # "stalled"

-----------------------------------------------------------------------------
\* Clients.

Dial(c) ==
  /\ conn[c] = "none" /\ listening /\ Connected(c)
  /\ conn' = [conn EXCEPT ![c] = "queued"]
  /\ UNCHANGED <<listening, accepting, wg, closer, client, handler, request, snapshot, live, shutdown>>

\* Call and Stream write the request; handleConn reads it.
SendRequest(c, r) ==
  /\ conn[c] = "accepted" /\ handler[c] = "read" /\ client[c] = "idle"
  /\ client' = [client EXCEPT ![c] = IF r.kind \in {"events", "follow"} THEN "streaming" ELSE "waiting"]
  /\ request' = [request EXCEPT ![c] = r]
  /\ handler' = [handler EXCEPT ![c] = r.kind]
  /\ UNCHANGED <<listening, accepting, wg, closer, conn, snapshot, live, shutdown>>

\* The client's process ends or closes its end (cli.Close).
ClientLeaves(c) ==
  /\ conn[c] # "none" /\ client[c] # "gone"
  /\ client' = [client EXCEPT ![c] = "gone"]
  /\ UNCHANGED <<listening, accepting, wg, closer, conn, handler, request, snapshot, live, shutdown>>

\* ReadFrame of a client fails when the server has closed the connection, or
\* will never accept it.
ClientReadsEnd(c) ==
  /\ conn[c] = "closed" \/ (conn[c] = "queued" /\ ~listening)
  /\ client[c] \in {"idle", "waiting", "streaming"}
  /\ client' = [client EXCEPT ![c] = "gone"]
  /\ UNCHANGED <<listening, accepting, wg, closer, conn, handler, request, snapshot, live, shutdown>>

\* A streaming client no longer reads its socket.
ClientStalls(c) ==
  /\ client[c] = "streaming"
  /\ client' = [client EXCEPT ![c] = "stalled"]
  /\ UNCHANGED <<listening, accepting, wg, closer, conn, handler, request, snapshot, live, shutdown>>

-----------------------------------------------------------------------------
\* Server.

\* acceptLoop: listener.Accept returns a connection.
Accept(c) ==
  /\ accepting /\ listening /\ conn[c] = "queued"
  /\ \A d \in Clients : conn[d] # "inhand"
  /\ conn' = [conn EXCEPT ![c] = "inhand"]
  /\ UNCHANGED <<listening, accepting, wg, closer, client, handler, request, snapshot, live, shutdown>>

\* Mutant: the handler is not counted.
BugUncounted(c) ==
  /\ conn[c] = "inhand"
  /\ conn' = [conn EXCEPT ![c] = "accepted"]
  /\ handler' = [handler EXCEPT ![c] = "read"]
  /\ UNCHANGED <<listening, accepting, wg, closer, client, request, snapshot, live, shutdown>>

\* acceptLoop: wg.Add(1) and go handleConn; Close may have begun meanwhile.
StartHandler(c) ==
  /\ conn[c] = "inhand"
  /\ wg' = wg + 1
  /\ conn' = [conn EXCEPT ![c] = "accepted"]
  /\ handler' = [handler EXCEPT ![c] = "read"]
  /\ UNCHANGED <<listening, accepting, closer, client, request, snapshot, live, shutdown>>

\* Accept fails once the listener is closed.
AcceptLoopEnds ==
  /\ accepting /\ ~listening
  /\ \A c \in Clients : conn[c] # "inhand"
  /\ accepting' = FALSE
  /\ wg' = wg - 1
  /\ UNCHANGED <<listening, closer, conn, client, handler, request, snapshot, live, shutdown>>

\* The deferred conn.Close and wg.Done of handleConn.
HandlerReturns(c) ==
  /\ handler[c] = "return"
  /\ handler' = [handler EXCEPT ![c] = "done"]
  /\ conn' = [conn EXCEPT ![c] = "closed"]
  /\ wg' = wg - 1
  /\ UNCHANGED <<listening, accepting, closer, client, request, snapshot, live, shutdown>>

\* ReadFrame fails: the client has gone.
ReadFails(c) ==
  /\ handler[c] = "read" /\ ~Connected(c)
  /\ handler' = [handler EXCEPT ![c] = "return"]
  /\ UNCHANGED <<listening, accepting, wg, closer, conn, client, request, snapshot, live, shutdown>>

\* handleRequest, a logs snapshot, and the refusal of a bad stream: one
\* answer; the first two return to the reader.
Answer(c) ==
  /\ handler[c] \in {"call", "logs", "badstream"}
  /\ handler' = [handler EXCEPT ![c] = IF Connected(c) /\ @ # "badstream" THEN "read" ELSE "return"]
  /\ client' = [client EXCEPT ![c] = IF @ = "waiting" THEN "idle" ELSE @]
  /\ UNCHANGED <<listening, accepting, wg, closer, conn, request, snapshot, live, shutdown>>

\* handleEventsStream: Subscribe.
SubscribeEvents(c) ==
  /\ handler[c] = "events"
  /\ \E f \in Filters : Subscribe(c, f)
  /\ handler' = [handler EXCEPT ![c] = "range"]
  /\ UNCHANGED logVars
  /\ UNCHANGED <<listening, accepting, wg, closer, conn, client, request, snapshot, live, shutdown>>

\* handleEventsStream: one event is taken from the channel and written.  An
\* event whose write blocks is left in the channel.
ForwardEvent(c) ==
  /\ handler[c] = "range" /\ Writable(c)
  /\ Receive(c)
  /\ handler' = [handler EXCEPT ![c] = IF Connected(c) THEN @ ELSE "unsubscribe"]
  /\ UNCHANGED logVars
  /\ UNCHANGED <<listening, accepting, wg, closer, conn, client, request, snapshot, live, shutdown>>

\* handleEventsStream: the range is over.
EventsEnd(c) ==
  /\ handler[c] = "range" /\ ch[c] = <<>> /\ chClosed[c]
  /\ handler' = [handler EXCEPT ![c] = "unsubscribe"]
  /\ UNCHANGED <<listening, accepting, wg, closer, conn, client, request, snapshot, live, shutdown>>

\* The deferred sub.Close.
Unsubscribe(c) ==
  /\ handler[c] = "unsubscribe"
  /\ CloseSubscription(c)
  /\ handler' = [handler EXCEPT ![c] = "return"]
  /\ UNCHANGED logVars
  /\ UNCHANGED <<listening, accepting, wg, closer, conn, client, request, snapshot, live, shutdown>>

\* handleLogsFollow, step 1: the snapshot.
TakeSnapshot(c) ==
  /\ handler[c] = "follow"
  /\ snapshot' = [snapshot EXCEPT ![c] = ring[request[c].process][request[c].stream]]
  /\ handler' = [handler EXCEPT ![c] = "writesnap"]
  /\ UNCHANGED <<listening, accepting, wg, closer, conn, client, request, live, shutdown>>

WriteSnapshot(c) ==
  /\ handler[c] = "writesnap" /\ Writable(c)
  /\ handler' = [handler EXCEPT ![c] = IF Connected(c) THEN "watch" ELSE "return"]
  /\ UNCHANGED <<listening, accepting, wg, closer, conn, client, request, snapshot, live, shutdown>>

\* Mutant: the snapshot is taken after the registration.
BugSnapshotLate(c) ==
  /\ \/ /\ handler[c] = "watch"
        /\ WatchLogs(c, request[c].process)
        /\ handler' = [handler EXCEPT ![c] = "watching"]
        /\ UNCHANGED snapshot
     \/ /\ handler[c] = "watching"
        /\ snapshot' = [snapshot EXCEPT ![c] = ring[request[c].process][request[c].stream]]
        /\ handler' = [handler EXCEPT ![c] = "tail"]
        /\ UNCHANGED logVars
  /\ UNCHANGED busVars
  /\ UNCHANGED <<listening, accepting, wg, closer, conn, client, request, live, shutdown>>

\* handleLogsFollow, step 2: the registration.
RegisterWatcher(c) ==
  /\ handler[c] = "watch"
  /\ WatchLogs(c, request[c].process)
  /\ handler' = [handler EXCEPT ![c] = "tail"]
  /\ UNCHANGED busVars
  /\ UNCHANGED <<listening, accepting, wg, closer, conn, client, request, snapshot, live, shutdown>>

\* One chunk is taken from the channel and, if it is of the stream asked
\* for, written.
ForwardChunk(c) ==
  /\ handler[c] = "tail" /\ Writable(c)
  /\ TakeChunk(c)
  /\ LET k == Head(wch[c]) IN
     IF k.stream # request[c].stream THEN UNCHANGED <<handler, live>>
     ELSE IF Connected(c)
       THEN live' = [live EXCEPT ![c] = Append(@, k)] /\ UNCHANGED handler
       ELSE handler' = [handler EXCEPT ![c] = "unregister"] /\ UNCHANGED live
  /\ UNCHANGED busVars
  /\ UNCHANGED <<listening, accepting, wg, closer, conn, client, request, snapshot, shutdown>>

TailEnds(c) ==
  /\ handler[c] = "tail" /\ wch[c] = <<>> /\ wClosed[c]
  /\ handler' = [handler EXCEPT ![c] = "unregister"]
  /\ UNCHANGED <<listening, accepting, wg, closer, conn, client, request, snapshot, live, shutdown>>

Unregister(c) ==
  /\ handler[c] = "unregister"
  /\ unregister(c)
  /\ handler' = [handler EXCEPT ![c] = "return"]
  /\ UNCHANGED busVars
  /\ UNCHANGED <<listening, accepting, wg, closer, conn, client, request, snapshot, live, shutdown>>

\* Server.Close up to the wait.
CloseListener ==
  /\ closer.first = "idle"
  /\ listening' = FALSE
  /\ closer' = [closer EXCEPT !.first = "waiting"]
  /\ UNCHANGED <<accepting, wg, conn, client, handler, request, snapshot, live, shutdown>>

\* s.closed is set: Close returns nil at once.
CloseAgain ==
  /\ closer.first # "idle" /\ closer.later = "idle"
  /\ closer' = [closer EXCEPT !.later = "nil"]
  /\ UNCHANGED <<listening, accepting, wg, conn, client, handler, request, snapshot, live, shutdown>>

CloseReturnsNil ==
  /\ closer.first = "waiting" /\ wg = 0
  /\ closer' = [closer EXCEPT !.first = "nil"]
  /\ UNCHANGED <<listening, accepting, wg, conn, client, handler, request, snapshot, live, shutdown>>

CloseTimesOut ==
  /\ closer.first = "waiting"
  /\ closer' = [closer EXCEPT !.first = "ctxerr"]
  /\ UNCHANGED <<listening, accepting, wg, conn, client, handler, request, snapshot, live, shutdown>>

-----------------------------------------------------------------------------
\* Manager.Shutdown, as far as the streams see it.

ShutdownBegins ==
  /\ shutdown = "idle"
  /\ shutdown' = "begun"
  /\ UNCHANGED <<listening, accepting, wg, closer, conn, client, handler, request, snapshot, live>>

\* Mutant: Shutdown does not wait for the read loops.
BugNotQuiesced == \A p \in Publishers : pub[p].pc = "idle"

\* Shutdown has closed every handle it knows, and watchWG is done: no read loop
\* that a handle holds is left to emit chunks, and no watchLoop to publish
\* events.  A read loop whose Controller another Close has taken, or that was
\* started late, may still run.
Quiesced ==
  /\ \A p \in Processes : readLoop[p] # "held"
  /\ \A p \in Publishers : pub[p].pc = "idle"

ShutdownJoins ==
  /\ shutdown = "begun" /\ Quiesced
  /\ shutdown' = "joined"
  /\ UNCHANGED <<listening, accepting, wg, closer, conn, client, handler, request, snapshot, live>>

ShutdownClosesWatchers ==
  /\ shutdown = "joined"
  /\ closeLogWatchers
  /\ shutdown' = "watchers"
  /\ UNCHANGED busVars
  /\ UNCHANGED <<listening, accepting, wg, closer, conn, client, handler, request, snapshot, live>>

\* ensureBus has made the bus.
BusMade == created # {} \/ \E p \in Publishers : sent[p] # <<>>

\* if m.bus != nil { m.bus.Close() }
ShutdownClosesBus ==
  /\ shutdown = "watchers"
  /\ IF BusMade THEN CloseBus ELSE UNCHANGED busVars
  /\ shutdown' = "done"
  /\ UNCHANGED logVars
  /\ UNCHANGED <<listening, accepting, wg, closer, conn, client, handler, request, snapshot, live>>

-----------------------------------------------------------------------------
SrvStep(c) ==
  \/ Dial(c)
  \/ \E r \in FollowRequests \cup OtherRequests : SendRequest(c, r)
  \/ ClientLeaves(c)
  \/ ClientReadsEnd(c)
  \/ ClientStalls(c)
  \/ Accept(c)
  \/ StartHandler(c)
  \/ HandlerReturns(c)
  \/ ReadFails(c)
  \/ Answer(c)
  \/ EventsEnd(c)
  \/ TakeSnapshot(c)
  \/ WriteSnapshot(c)
  \/ TailEnds(c)

StreamStep(c) ==
  \/ SubscribeEvents(c)
  \/ ForwardEvent(c)
  \/ Unsubscribe(c)
  \/ RegisterWatcher(c)
  \/ ForwardChunk(c)
  \/ Unregister(c)

Watching == shutdown \in {"idle", "begun"}

PublishNew(p) ==
  /\ Watching
  /\ \E e \in Events : Unpublished(e) /\ Publish(p, e)

Panicked == panicked \/ logPanicked

\* Closing and starting handles: Shutdown closes those it finds, any caller may
\* close one before, and one started after Shutdown has begun is late.
HandleStep(p) ==
  \/ /\ readLoop[p] = "held" => shutdown = "begun"
     /\ JoinReadLoop(p)
  \/ Watching /\ TakeController(p)
  \/ StartReadLoop(p, shutdown # "idle")

MgmtNext ==
  /\ ~Panicked
  /\ \/ /\ \/ \E c \in Clients : SrvStep(c)
           \/ AcceptLoopEnds
           \/ CloseListener
           \/ CloseAgain
           \/ CloseReturnsNil
           \/ CloseTimesOut
           \/ ShutdownBegins
           \/ ShutdownJoins
        /\ UNCHANGED <<busVars, logVars>>
     \/ \E c \in Clients : StreamStep(c)
     \/ ShutdownClosesWatchers
     \/ ShutdownClosesBus
     \/ /\ \E p \in Publishers : PublishNew(p) \/ PublishStep(p)
        /\ UNCHANGED <<srvVars, logVars>>
     \/ /\ \E p \in Processes : EmitStep(p) \/ HandleStep(p)
        /\ UNCHANGED <<srvVars, busVars>>

MgmtSpec == MgmtInit /\ [][MgmtNext]_mgmtVars

\* What a handler and a CLI command do without being asked.
HandlerStep(c) ==
  \/ /\ \/ ClientReadsEnd(c) \/ HandlerReturns(c) \/ ReadFails(c) \/ Answer(c) \/ EventsEnd(c)
        \/ TakeSnapshot(c) \/ WriteSnapshot(c) \/ TailEnds(c)
     /\ UNCHANGED <<busVars, logVars>>
  \/ StreamStep(c)

\* Goroutines that can run do run; no client has to send, to read or to
\* leave, and nobody has to shut the manager or the server down.
MgmtFairSpec ==
  /\ MgmtSpec
  /\ \A c \in Clients : WF_mgmtVars(~Panicked /\ HandlerStep(c))
  /\ \A p \in Publishers : WF_mgmtVars(~Panicked /\ PublishStep(p) /\ UNCHANGED <<srvVars, logVars>>)
  /\ \A p \in Processes :
       WF_mgmtVars(/\ ~Panicked
                   /\ \/ TakeWatchers(p)
                      \/ \E w \in Watchers : SendChunk(p, w)
                      \/ shutdown = "begun" /\ readLoop[p] = "held" /\ JoinReadLoop(p)
                   /\ UNCHANGED <<srvVars, busVars>>)
  /\ WF_mgmtVars(~Panicked /\ (ShutdownJoins /\ UNCHANGED <<busVars, logVars>>))
  /\ WF_mgmtVars(~Panicked /\ (ShutdownClosesWatchers \/ ShutdownClosesBus))

-----------------------------------------------------------------------------
Numbers(q) == {q[i].n : i \in DOMAIN q}

Increasing(q) == \A i, j \in DOMAIN q : i < j => q[i].n < q[j].n

\* handleLogsFollow: the live chunks of a follower, and those that wait in its
\* channel, come in the order in which they were written, each once, and none
\* is older than the snapshot.  Only the newest chunk of the snapshot may come
\* again: it was collected before the snapshot and fanned out after the
\* registration.
FollowInOrder ==
  \A c \in Clients :
    handler[c] \in {"tail", "unregister"} =>
      /\ Increasing(live[c] \o wch[c])
      /\ \A a \in Numbers(snapshot[c]), b \in Numbers(live[c] \o wch[c]) : a <= b

\* Still on its way to w: emitLogChunk has w on its list.
OnItsWay(w) == {emit[p].chunk : p \in {q \in Processes : emit[q].pc = "send" /\ w \in emit[q].todo}}

\* From the registration on a follower misses nothing but what its full
\* channel refused: the chunks meant for it have no gap, and each was sent,
\* is waiting, was refused, is on its way, or belongs to the other stream.
FollowHasNoGap ==
  \A c \in Clients :
    /\ \A a, b \in wDue[c] : \A n \in a.n .. b.n : \E k \in wDue[c] : k.n = n
    /\ handler[c] = "tail" =>
         \A k \in wDue[c] :
           \/ k.stream # request[c].stream
           \/ k.n \in Numbers(live[c]) \cup Numbers(wch[c])
           \/ k \in wLost[c] \cup OnItsWay(c)

\* What a follower of logs sees: chunks in order, and all of them from its
\* registration on but those its full channel refused.
FollowIsFaithful == FollowInOrder /\ FollowHasNoGap

\* The accept loop and every handler have ended.
Quiet == ~accepting /\ \A c \in Clients : handler[c] \in {"none", "done"}

\* The Server.Close that closes the listener returns nil only when the accept
\* loop and every handler have ended, the handler of a connection that was
\* accepted just before included.  The nil of a later Close says as much only
\* if the first one is neither waiting nor has given up: it returns at once.
CloseNilMeansQuiet ==
  /\ closer.first = "nil" => Quiet
  /\ closer.later = "nil" => Quiet \/ closer.first \in {"waiting", "ctxerr"}

\* A send on a closed channel of a stream takes, while Shutdown has not joined
\* the senders, a handler that left its stream because its client had gone, or
\* a subscriber too slow for the bus.  After the join no event can hit a closed
\* channel; a chunk can, from a read loop that Shutdown did not join because
\* another Close had taken its Controller or because it was started late.
ShutdownNeverPanics ==
  /\ panicked => Watching /\ \E c \in Clients : client[c] = "gone" \/ Slow(c)
  /\ logPanicked =>
       \/ Watching /\ \E c \in Clients : client[c] = "gone"
       \/ ~Watching /\ \E p \in Processes : readLoop[p] = "taken" /\ emit[p].pc = "send"

\* A stream that is up when Shutdown begins ends, and so does the CLI command
\* at its other end, unless that one has stopped reading.
StreamsEndAtShutdown ==
  \A c \in Clients :
    (shutdown = "begun" /\ handler[c] \in {"range", "tail"})
      ~> (Panicked \/ client[c] \in {"gone", "stalled"})
=============================================================================
