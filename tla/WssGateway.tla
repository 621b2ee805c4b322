------------------------------ MODULE WssGateway ------------------------------
(***************************************************************************)
(* The client side of one connector process: the WebSocket server of       *)
(* pkg/wss (hub, read pump and write pump of each connection), the session *)
(* table of internal/app/connector/session, the ConnectorRPC handler that  *)
(* pushes to sessions, and the cleanup order of cmd/connector/main.go.     *)
(*                                                                         *)
(* Goroutines: the hub, one ServeHTTP, one reader and one writer for each  *)
(* connection, one for each push call in flight, the asynchronous          *)
(* OnPlayerQuit calls, and main.  An action is what one of them does       *)
(* between two points where another may run: a channel operation, a call   *)
(* that blocks, or an access to shared state.                              *)
(*                                                                         *)
(* Messages are counted, not named: nothing here depends on what they say. *)
(* What OnConnect, OnMessage and OnDisconnect do with a player is          *)
(* PlayerSession's; here they take time, send, kick and touch the session  *)
(* table.                                                                  *)
(***************************************************************************)
EXTENDS Naturals, Sequences, FiniteSets

CONSTANTS
  Conn,     \* WebSocket connections over the life of the process
  NoConn,   \* "the hub is at no client"
  Pusher,   \* ConnectorRPC.SendMessage calls that may be in flight at once
  Batch,    \* the session id lists such a call may carry
  Cap       \* capacity of a connection's send channel (256 in the code)

ASSUME NoConnAssumption == NoConn \notin Conn
ASSUME BatchAssumption  == Batch \subseteq Seq(Conn)
ASSUME CapAssumption    == Cap \in Nat \ {0}

VARIABLES
  http,       \* how far ServeHTTP is with each connection
  sock,       \* state of the connection's socket
  clients,    \* hub.clients
  hub, cur,   \* where the hub goroutine is, and for which client
  queue,      \* messages in client.send
  chClosed,   \* client.send has been closed
  reader,     \* where the read pump is
  writer,     \* where the write pump is
  sessions,   \* SessionManager: the connections it holds
  push,       \* for each push call: targets left, and whether Get returned one
  quits,      \* connections whose asynchronous OnPlayerQuit is running
  main,       \* where main's shutdown is
  server,     \* main's grpcServer: not made yet, serving, or told to stop
  crashed     \* a panic nobody recovers has ended the process

vars == <<http, sock, clients, hub, cur, queue, chClosed, reader, writer,
          sessions, push, quits, main, server, crashed>>

Idle == [todo |-> <<>>, got |-> FALSE]

TypeOK ==
  /\ http \in [Conn -> {"idle", "registering", "accepted", "serving"}]
  /\ sock \in [Conn -> {"none", "open", "closing", "lost", "closed"}]
  /\ clients \subseteq Conn
  /\ hub \in {"select", "connect", "quit", "drain", "drainQuit", "drainKick",
              "drainClose", "done"}
  /\ cur \in Conn \cup {NoConn}
  /\ queue \in [Conn -> 0..Cap]
  /\ chClosed \in [Conn -> BOOLEAN]
  /\ reader \in [Conn -> {"off", "read", "handling", "sending", "replied",
                          "unreg", "close", "done"}]
  /\ writer \in [Conn -> {"off", "loop", "done"}]
  /\ sessions \subseteq Conn
  /\ push \in [Pusher -> [todo : Seq(Conn), got : BOOLEAN]]
  /\ quits \subseteq Conn
  /\ main \in {"run", "wsStop", "grpcStop", "grpcWait", "asyncWait", "exit"}
  /\ server \in {"none", "serving", "stopping"}
  /\ crashed \in BOOLEAN

Init ==
  /\ http = [c \in Conn |-> "idle"]
  /\ sock = [c \in Conn |-> "none"]
  /\ clients = {}
  /\ hub = "select" /\ cur = NoConn
  /\ queue = [c \in Conn |-> 0]
  /\ chClosed = [c \in Conn |-> FALSE]
  /\ reader = [c \in Conn |-> "off"]
  /\ writer = [c \in Conn |-> "off"]
  /\ sessions = {}
  /\ push = [p \in Pusher |-> Idle]
  /\ quits = {}
  /\ main = "run"
  /\ server = "none"
  /\ crashed = FALSE

(* The process runs until main returns or a panic ends it. *)
Alive == ~crashed /\ main # "exit"

-----------------------------------------------------------------------------
(* ServeHTTP.  The HTTP server is never shut down: upgrades go on until     *)
(* the process exits, and one that comes after the hub returned waits       *)
(* forever on hub.register.                                                 *)

Upgrade(c) ==
  /\ Alive
  /\ http[c] = "idle"
  /\ http' = [http EXCEPT ![c] = "registering"]
  /\ sock' = [sock EXCEPT ![c] = "open"]
  /\ UNCHANGED <<clients, hub, cur, queue, chClosed, reader, writer, sessions,
                 push, quits, main, server, crashed>>

(* The two go statements, after the hub has taken the connection. *)
StartPumps(c) ==
  /\ Alive
  /\ http[c] = "accepted"
  /\ http' = [http EXCEPT ![c] = "serving"]
  /\ reader' = [reader EXCEPT ![c] = "read"]
  /\ writer' = [writer EXCEPT ![c] = "loop"]
  /\ UNCHANGED <<sock, clients, hub, cur, queue, chClosed, sessions, push,
                 quits, main, server, crashed>>

-----------------------------------------------------------------------------
(* hub.run outside shutdown. *)

HubRegister(c) ==
  /\ Alive
  /\ hub = "select"
  /\ http[c] = "registering"
  /\ http' = [http EXCEPT ![c] = "accepted"]
  /\ clients' = clients \cup {c}
  /\ hub' = "connect" /\ cur' = c
  /\ UNCHANGED <<sock, queue, chClosed, reader, writer, sessions, push, quits,
                 main, server, crashed>>

(* Subscriber.OnConnect: the session enters the table. *)
OnConnect ==
  /\ Alive
  /\ hub = "connect"
  /\ sessions' = sessions \cup {cur}
  /\ hub' = "select" /\ cur' = NoConn
  /\ UNCHANGED <<http, sock, clients, queue, chClosed, reader, writer, push,
                 quits, main, server, crashed>>

(* Mutant: the write pump unregisters as well when it ends. *)
FaultyHubUnregister(c) ==
  /\ Alive
  /\ hub = "select"
  /\ reader[c] = "unreg" \/ (writer[c] = "done" /\ c \in clients)
  /\ reader' = [reader EXCEPT ![c] = IF @ = "unreg" THEN "close" ELSE @]
  /\ IF c \in clients
       THEN /\ clients' = clients \ {c}
            /\ chClosed' = [chClosed EXCEPT ![c] = TRUE]
            /\ hub' = "quit" /\ cur' = c
       ELSE UNCHANGED <<clients, chClosed, hub, cur>>
  /\ UNCHANGED <<http, sock, queue, writer, sessions, push, quits, main,
                 server, crashed>>

(* A read pump hands itself over; the hub deletes the client and closes its *)
(* channel before it tells the subscriber.                                  *)
HubUnregister(c) ==
  /\ Alive
  /\ hub = "select"
  /\ reader[c] = "unreg"
  /\ reader' = [reader EXCEPT ![c] = "close"]
  /\ IF c \in clients
       THEN /\ clients' = clients \ {c}
            /\ chClosed' = [chClosed EXCEPT ![c] = TRUE]
            /\ hub' = "quit" /\ cur' = c
       ELSE UNCHANGED <<clients, chClosed, hub, cur>>
  /\ UNCHANGED <<http, sock, queue, writer, sessions, push, quits, main,
                 server, crashed>>

(* Mutant: returns early when there is no endpoint to notify. *)
FaultyDisconnect ==
  \/ quits' = quits /\ sessions' = sessions
  \/ quits' = quits \cup {cur} /\ sessions' = sessions \ {cur}

(* Subscriber.OnDisconnect: it may ask Central for a route first (so other  *)
(* goroutines run between HubUnregister and this), start OnPlayerQuit when  *)
(* the player was in a game, and then removes the session.                  *)
Disconnect ==
  /\ quits' \in {quits, quits \cup {cur}}
  /\ sessions' = sessions \ {cur}

OnDisconnect ==
  /\ Alive
  /\ hub = "quit"
  /\ Disconnect
  /\ hub' = "select" /\ cur' = NoConn
  /\ UNCHANGED <<http, sock, clients, queue, chClosed, reader, writer, push,
                 main, server, crashed>>

QuitDone(c) ==
  /\ Alive
  /\ c \in quits
  /\ quits' = quits \ {c}
  /\ UNCHANGED <<http, sock, clients, hub, cur, queue, chClosed, reader,
                 writer, sessions, push, main, server, crashed>>

-----------------------------------------------------------------------------
(* hub.run once the context is cancelled: the registered clients one by one. *)

HubStop ==
  /\ Alive
  /\ hub = "select"
  /\ main # "run"
  /\ hub' = "drain"
  /\ UNCHANGED <<http, sock, clients, cur, queue, chClosed, reader, writer,
                 sessions, push, quits, main, server, crashed>>

HubDrain(c) ==
  /\ Alive
  /\ hub = "drain"
  /\ c \in clients
  /\ hub' = "drainQuit" /\ cur' = c
  /\ UNCHANGED <<http, sock, clients, queue, chClosed, reader, writer,
                 sessions, push, quits, main, server, crashed>>

HubDrainQuit ==
  /\ Alive
  /\ hub = "drainQuit"
  /\ Disconnect
  /\ hub' = "drainKick"
  /\ UNCHANGED <<http, sock, clients, cur, queue, chClosed, reader, writer,
                 push, main, server, crashed>>

(* A Close frame only closes our direction: the peer, or the next write,    *)
(* which fails after a Close frame, has to end the connection.              *)
SendCloseFrame(c) ==
  sock' = [sock EXCEPT ![c] = IF @ = "open" THEN "closing" ELSE @]

HubDrainKick ==
  /\ Alive
  /\ hub = "drainKick"
  /\ SendCloseFrame(cur)
  /\ hub' = "drainClose"
  /\ UNCHANGED <<http, clients, cur, queue, chClosed, reader, writer, sessions,
                 push, quits, main, server, crashed>>

(* Mutants: the loop forgets delete(h.clients, client) or close(client.send). *)
FaultyDrainKeeps ==
  /\ Alive
  /\ hub = "drainClose"
  /\ chClosed' = [chClosed EXCEPT ![cur] = TRUE]
  /\ hub' = "drain" /\ cur' = NoConn
  /\ UNCHANGED <<http, sock, clients, queue, reader, writer, sessions, push,
                 quits, main, server, crashed>>
FaultyDrainOpen ==
  /\ Alive
  /\ hub = "drainClose"
  /\ clients' = clients \ {cur}
  /\ hub' = "drain" /\ cur' = NoConn
  /\ UNCHANGED <<http, sock, queue, chClosed, reader, writer, sessions, push,
                 quits, main, server, crashed>>

HubDrainClose ==
  /\ Alive
  /\ hub = "drainClose"
  /\ clients' = clients \ {cur}
  /\ chClosed' = [chClosed EXCEPT ![cur] = TRUE]
  /\ hub' = "drain" /\ cur' = NoConn
  /\ UNCHANGED <<http, sock, queue, reader, writer, sessions, push, quits,
                 main, server, crashed>>

HubDone ==
  /\ Alive
  /\ hub = "drain"
  /\ clients = {}
  /\ hub' = "done"
  /\ UNCHANGED <<http, sock, clients, cur, queue, chClosed, reader, writer,
                 sessions, push, quits, main, server, crashed>>

-----------------------------------------------------------------------------
(* The network and the peer. *)

(* The TCP connection breaks, or no pong came within PongWait. *)
Lose(c) ==
  /\ Alive
  /\ sock[c] \in {"open", "closing"}
  /\ sock' = [sock EXCEPT ![c] = "lost"]
  /\ UNCHANGED <<http, clients, hub, cur, queue, chClosed, reader, writer,
                 sessions, push, quits, main, server, crashed>>

(* Client.Kick: from ConnectorRPC.Kick, from OnMessage (which sends its     *)
(* error first), or from a timer OnConnect or OnMessage armed.              *)
Kick(c) ==
  /\ Alive
  /\ c \in sessions \/ reader[c] = "replied"
  /\ sock[c] = "open"
  /\ SendCloseFrame(c)
  /\ UNCHANGED <<http, clients, hub, cur, queue, chClosed, reader, writer,
                 sessions, push, quits, main, server, crashed>>

-----------------------------------------------------------------------------
(* readPump. *)

Read(c, from, to) ==
  /\ Alive
  /\ reader[c] = from
  /\ reader' = [reader EXCEPT ![c] = to]
  /\ UNCHANGED <<http, clients, hub, cur, chClosed, writer, sessions, push,
                 quits, main, server, crashed>>

ReadMessage(c) ==
  /\ sock[c] \in {"open", "closing"}
  /\ Read(c, "read", "handling")
  /\ UNCHANGED <<sock, queue>>

(* The peer's Close frame, which gorilla answers with one of its own. *)
ReadClose(c) ==
  /\ sock[c] \in {"open", "closing"}
  /\ sock' = [sock EXCEPT ![c] = "closing"]
  /\ Read(c, "read", "unreg")
  /\ UNCHANGED queue

ReadFail(c) ==
  /\ sock[c] \in {"lost", "closed"}
  /\ Read(c, "read", "unreg")
  /\ UNCHANGED <<sock, queue>>

(* OnMessage answers with one SendMessage, or not at all. *)
HandlerReply(c)  == Read(c, "handling", "sending") /\ UNCHANGED <<sock, queue>>
HandlerSilent(c) == Read(c, "handling", "read") /\ UNCHANGED <<sock, queue>>
HandlerReturn(c) == Read(c, "replied", "read") /\ UNCHANGED <<sock, queue>>

(* Mutant: the queue is taken to be unbounded. *)
FaultyReaderSend(c) ==
  /\ ~chClosed[c]
  /\ queue' = [queue EXCEPT ![c] = @ + 1]
  /\ Read(c, "sending", "replied")
  /\ UNCHANGED sock

(* c.send <- msg: waits while the channel is full ... *)
ReaderSend(c) ==
  /\ ~chClosed[c]
  /\ queue[c] < Cap
  /\ queue' = [queue EXCEPT ![c] = @ + 1]
  /\ Read(c, "sending", "replied")
  /\ UNCHANGED sock

(* ... and panics when it is closed; readPump recovers and unregisters. *)
ReaderPanic(c) ==
  /\ chClosed[c]
  /\ Read(c, "sending", "unreg")
  /\ UNCHANGED <<sock, queue>>

ReaderClose(c) ==
  /\ Read(c, "close", "done")
  /\ sock' = [sock EXCEPT ![c] = "closed"]
  /\ UNCHANGED queue

-----------------------------------------------------------------------------
(* writePump. *)

WriterSend(c) ==
  /\ Alive
  /\ writer[c] = "loop"
  /\ queue[c] > 0
  /\ sock[c] \in {"open", "lost"}
  /\ queue' = [queue EXCEPT ![c] = @ - 1]
  /\ UNCHANGED <<http, sock, clients, hub, cur, chClosed, reader, writer,
                 sessions, push, quits, main, server, crashed>>

(* Mutant: the deferred function does not close the connection. *)
FaultyWriterExit(c) ==
  /\ Alive
  /\ writer[c] = "loop"
  /\ writer' = [writer EXCEPT ![c] = "done"]
  /\ UNCHANGED <<http, sock, clients, hub, cur, chClosed, reader, sessions,
                 push, quits, main, server, crashed>>

WriterExit(c) ==
  /\ Alive
  /\ writer[c] = "loop"
  /\ writer' = [writer EXCEPT ![c] = "done"]
  /\ sock' = [sock EXCEPT ![c] = "closed"]
  /\ UNCHANGED <<http, clients, hub, cur, chClosed, reader, sessions, push,
                 quits, main, server, crashed>>

(* A message or a ping cannot be written: the socket is gone, a Close frame *)
(* went out before, or a slow peer let WriteWait pass.  The message that     *)
(* was taken from the channel is lost.                                       *)
WriterFail(c) ==
  /\ queue' \in {queue, [queue EXCEPT ![c] = IF @ = 0 THEN 0 ELSE @ - 1]}
  /\ WriterExit(c)

(* The channel is closed and drained. *)
WriterClosed(c) ==
  /\ chClosed[c]
  /\ queue[c] = 0
  /\ WriterExit(c)
  /\ UNCHANGED queue

-----------------------------------------------------------------------------
(* ConnectorRPC.SendMessage: for each target, Get and then Send.            *)

(* A goroutine of its own listens and then makes the server, whatever main  *)
(* is doing by then.                                                        *)
Serve ==
  /\ Alive
  /\ server = "none"
  /\ server' = "serving"
  /\ UNCHANGED <<http, sock, clients, hub, cur, queue, chClosed, reader, writer,
                 sessions, push, quits, main, crashed>>

(* ... or it cannot listen, and panics. *)
ServePanic ==
  /\ Alive
  /\ server = "none"
  /\ crashed' = TRUE
  /\ UNCHANGED <<http, sock, clients, hub, cur, queue, chClosed, reader, writer,
                 sessions, push, quits, main, server>>

PushCall(p, targets) ==
  /\ Alive
  /\ server = "serving"
  /\ push[p] = Idle
  /\ push' = [push EXCEPT ![p] = [todo |-> targets, got |-> FALSE]]
  /\ UNCHANGED <<http, sock, clients, hub, cur, queue, chClosed, reader,
                 writer, sessions, quits, main, server, crashed>>

NextTarget(p) == push' = [push EXCEPT ![p] = [todo |-> Tail(@.todo), got |-> FALSE]]

PushGet(p) ==
  /\ Alive
  /\ push[p].todo # <<>>
  /\ ~push[p].got
  /\ IF Head(push[p].todo) \in sessions
       THEN push' = [push EXCEPT ![p].got = TRUE]
       ELSE NextTarget(p)
  /\ UNCHANGED <<http, sock, clients, hub, cur, queue, chClosed, reader,
                 writer, sessions, quits, main, server, crashed>>

PushSend(p) ==
  LET c == Head(push[p].todo) IN
  /\ Alive
  /\ push[p].got
  /\ ~chClosed[c]
  /\ queue[c] < Cap
  /\ queue' = [queue EXCEPT ![c] = @ + 1]
  /\ NextTarget(p)
  /\ UNCHANGED <<http, sock, clients, hub, cur, chClosed, reader, writer,
                 sessions, quits, main, server, crashed>>

(* A send on a closed channel; a gRPC handler's panic is not recovered. *)
PushPanic(p) ==
  /\ Alive
  /\ push[p].got
  /\ chClosed[Head(push[p].todo)]
  /\ crashed' = TRUE
  /\ UNCHANGED <<http, sock, clients, hub, cur, queue, chClosed, reader, writer,
                 sessions, push, quits, main, server>>

-----------------------------------------------------------------------------
(* main's cleanup: wsServer.Shutdown, grpcServer.GracefulStop,              *)
(* wsHandler.Close, and out.                                                *)

MainStep(from, to) ==
  /\ Alive
  /\ main = from
  /\ main' = to
  /\ UNCHANGED <<http, sock, clients, hub, cur, queue, chClosed, reader, writer,
                 sessions, push, quits, crashed>>

Shutdown   == MainStep("run", "wsStop") /\ UNCHANGED server
HubStopped == hub = "done" /\ MainStep("wsStop", "grpcStop") /\ UNCHANGED server

(* GracefulStop takes no more calls, and then waits for those in flight. *)
GracefulBegin ==
  /\ server = "serving"
  /\ server' = "stopping"
  /\ MainStep("grpcStop", "grpcWait")
GracefulStop ==
  /\ \A p \in Pusher : push[p] = Idle
  /\ MainStep("grpcWait", "asyncWait")
  /\ UNCHANGED server

(* main finds grpcServer still nil.  It stops nothing, and a server that is *)
(* made later serves until the process is gone.                             *)
GracefulSkip ==
  /\ server = "none"
  /\ MainStep("grpcStop", "asyncWait")
  /\ UNCHANGED server

(* Mutant: wg.Add moved into the goroutine it counts. *)
FaultyAsyncDone == MainStep("asyncWait", "exit") /\ UNCHANGED server
AsyncDone == quits = {} /\ MainStep("asyncWait", "exit") /\ UNCHANGED server

-----------------------------------------------------------------------------
Hub  == \/ OnConnect \/ OnDisconnect \/ HubStop \/ HubDrainQuit \/ HubDrainKick
        \/ HubDrainClose \/ HubDone
        \/ \E c \in Conn : HubRegister(c) \/ HubUnregister(c) \/ HubDrain(c)
ReadPump(c) == \/ ReadMessage(c) \/ ReadClose(c) \/ ReadFail(c)
               \/ HandlerReply(c) \/ HandlerSilent(c) \/ HandlerReturn(c)
               \/ ReaderSend(c) \/ ReaderPanic(c) \/ ReaderClose(c)
WritePump(c) == WriterSend(c) \/ WriterFail(c) \/ WriterClosed(c)
Pushing(p) == PushGet(p) \/ PushSend(p) \/ PushPanic(p)
Cleanup == \/ HubStopped \/ GracefulBegin \/ GracefulStop \/ GracefulSkip
           \/ AsyncDone

Next ==
  \/ Hub
  \/ Shutdown
  \/ Cleanup
  \/ Serve \/ ServePanic
  \/ \E c \in Conn : \/ Upgrade(c) \/ StartPumps(c) \/ Lose(c) \/ Kick(c)
                     \/ ReadPump(c) \/ WritePump(c) \/ QuitDone(c)
  \/ \E p \in Pusher : \/ Pushing(p)
                       \/ \E targets \in Batch : PushCall(p, targets)

Spec == Init /\ [][Next]_vars

-----------------------------------------------------------------------------
(* Safety. *)

InMessage(c) == reader[c] \in {"handling", "sending", "replied"}

(* A read pump that is running OnMessage never finds the send channel of    *)
(* its own connection closed, as long as the server is not shutting down:   *)
(* the hub closes the channel only for a read pump that has finished        *)
(* (hub.go:64-67 after connection.go:108).                                  *)
ReaderChannelSafe ==
  main = "run" => \A c \in Conn : InMessage(c) => ~chClosed[c]

(* The session table and the hub's client map agree, up to the one client   *)
(* whose callback the hub is running: it is registered before OnConnect     *)
(* adds it, unregistered before OnDisconnect removes it, and the other way  *)
(* round in the shutdown loop.  No session is left behind, and none is      *)
(* missing, for any interleaving of the pumps.                              *)
SessionTable ==
  sessions = (clients \ (IF hub \in {"connect", "drainKick", "drainClose"}
                           THEN {cur} ELSE {}))
             \cup (IF hub = "quit" THEN {cur} ELSE {})

(* When main returns, every session was removed, every asynchronous         *)
(* OnPlayerQuit has ended, and no push call holds a connection it is about  *)
(* to send to: the cleanup order of cmd/connector/main.go waits for each in *)
(* turn.  When there was a gRPC server to stop, no push call is running at  *)
(* all; when there was none yet (main.go:117), the calls a late server      *)
(* accepts may be cut, but they find no session any more.                   *)
ShutdownComplete ==
  main = "exit" => /\ sessions = {} /\ clients = {} /\ quits = {}
                   /\ \A p \in Pusher : ~push[p].got
                   /\ server = "stopping" => \A p \in Pusher : push[p] = Idle

(* The callbacks come to the subscriber in the order SubscriberContract     *)
(* promises: OnConnect first and once, OnDisconnect last and once, never    *)
(* two callbacks of the hub together, and no OnMessage beside OnDisconnect  *)
(* unless the server is stopping.                                           *)
Phase(c) ==
  IF http[c] \in {"idle", "registering"} THEN "new"
  ELSE IF cur = c /\ hub = "connect" THEN "connecting"
  ELSE IF cur = c /\ hub \in {"quit", "drainQuit"} THEN "disconnecting"
  ELSE IF c \in clients /\ ~(cur = c /\ hub \in {"drainKick", "drainClose"})
         THEN "connected"
  ELSE "gone"

Contract == INSTANCE SubscriberContract WITH
  phase    <- [c \in Conn |-> Phase(c)],
  inMsg    <- {c \in Conn : InMessage(c)},
  stopping <- main # "run"

KeepsContract == Contract!Spec

(* No panic ends the process while it serves: only a connector that cannot  *)
(* listen for its RPCs panics on purpose.                                   *)
NoProcessCrash == crashed => server = "none"

-----------------------------------------------------------------------------
(* Liveness.  Each goroutine that can run does; what the peer, a caller or   *)
(* an operator decides (upgrades, messages, losses, kicks, calls, shutdown)  *)
(* is not fair, and a write to an open socket need not fail.  Senders that   *)
(* wait on a channel are served in turn, so a read pump whose channel has    *)
(* room again and again does send.                                           *)
ReaderStep(c) == \/ ReadFail(c) \/ HandlerReply(c) \/ HandlerSilent(c)
                 \/ HandlerReturn(c) \/ ReaderSend(c) \/ ReaderPanic(c)
                 \/ ReaderClose(c)
WriterStep(c) == \/ WriterSend(c) \/ WriterClosed(c)
                 \/ sock[c] # "open" /\ WriterFail(c)

Fairness ==
  /\ WF_vars(Hub)
  /\ WF_vars(Cleanup)
  /\ \A c \in Conn : /\ WF_vars(StartPumps(c))
                     /\ WF_vars(ReaderStep(c))
                     /\ SF_vars(ReaderSend(c))
                     /\ WF_vars(WriterStep(c))
                     /\ WF_vars(QuitDone(c))
  /\ \A p \in Pusher : WF_vars(Pushing(p))

FairSpec == Spec /\ Fairness

(* A read pump that waits to send on a full channel nobody drains any more. *)
Stuck(c) == reader[c] = "sending" /\ writer[c] = "done" /\ queue[c] = Cap

(* A connection that was kicked, lost or closed leaves the session table,   *)
(* even though Kick only writes a Close frame and waits for the peer or the *)
(* next ping (connection.go:63-67, 188-201) -- unless its read pump is      *)
(* stuck.                                                                   *)
DoomedLeaves ==
  \A c \in Conn :
    (sock[c] \in {"closing", "lost", "closed"} /\ c \in sessions)
      ~> (c \notin sessions \/ crashed \/ Stuck(c))

(* A shutdown that has begun ends, in an exit or in a crash: no goroutine   *)
(* that cleanup waits for can wait for cleanup (main.go:109-129).           *)
ShutdownEnds == main # "run" ~> ~Alive
=============================================================================
