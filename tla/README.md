# go-k8s-game-server in TLA+

A formal model of the game server framework in `src/`: what its processes and
goroutines do to shared state, checked with TLC on small instances and, for the
gateway, logins and the connection pool, proved with TLAPS for any number of
connections and calls.

## 1. The system

Players connect by WebSocket to a **connector**. The connector asks **Central**
to authenticate them and where a game is served, joins them to a **game
server**, forwards their messages there, and takes pushes and kicks from game
servers over its own RPC. Game servers register at Central, which keeps the
registry in **Redis**.

| Part | Source | State | Operations |
|---|---|---|---|
| WebSocket server | `pkg/wss` | `hub.clients`, a `send` channel and a tag map per connection | ServeHTTP, `hub.run`, `readPump`, `writePump`, SendMessage, Kick, Shutdown |
| Session manager | `internal/app/connector/session` | session id to session, online counter | Add, Remove, Get, Count |
| Push RPC | `connector/handler/grpc_handler.go` | none | SendMessage (multicast), Kick |
| WebSocket handler | `connector/handler/websocket_handler.go` | tags and timers of a connection, `wg` | OnConnect, OnMessage (login, enter_game, anything else), OnDisconnect, Close |
| Connector process | `cmd/connector/main.go` | | cleanup: Shutdown, GracefulStop, Close, pool |
| Game server engine | `internal/engine` | peers by session id (stateful servers) | OnPlayerJoin, OnPlayerQuit, OnMessage, Broadcast |
| Registrar | `internal/grpc_client/central/registrar.go` | `leaseID`, `stopChan` | Register, heartbeat loop, Stop |
| Registry | `internal/infrastructure/service_discovery/redis` | Redis keys: leases with a TTL, endpoint sets by type and by game, the game's type | Register, Heartbeat, Deregister, SelectServiceByGame, CleanupDeadServices |
| Central | `internal/app/central`, `cmd/central` | `counterID` | Register, Heartbeat, Deregister, Login, GetRoute, a cleanup pass every 30 s |
| Users | `internal/infrastructure/user/redis` | Redis keys: token to id, id to user | GetUser, GetUserByID, CreateGuestUser |
| gRPC pool | `pkg/grpc` | connections by target, a mutex | GetConnection, Close |
| Processes | `cmd/central`, `cmd/connector`, `internal/engine/runner.go` on `internal/kit`, `internal/di` | open Redis clients, the gRPC server | startup, serving, signal, cleanup |
| Games | `internal/app/game`, any `engine.GameHandler` | | OnJoin, OnMessage, OnQuit, which may push and kick |

How they meet:

- The **hub** goroutine alone touches `hub.clients`; it calls OnConnect and
  OnDisconnect. Each **read pump** calls OnMessage on its own goroutine, which
  is why the callbacks can overlap. The **write pump** drains the channel into
  the socket.
- The **session table** is written by the two hub callbacks and read by push
  calls, each on its gRPC goroutine.
- **Tags** carry everything from one callback to the next: login, game, route,
  timers. Three **timers** kick a connection.
- **Join** and **Quit** are RPCs with timeouts: the caller's view and the game
  server's peer table may come apart.
- A **push** from a game goes through the game server's connection pool, on the
  context of the message that caused it or on one of its own. The cleanup of a game
  server closes that pool before it waits for the handlers.
- The **registry** is shared by every registrar, Central's handlers and Central's
  cleanup pass; a Redis command is atomic, a handler is not.

What makes each part correct, and what is hard to test about it, is listed line
by line under `hazards` in `PROJECT.json`. In short: the hub closes channels
others send on; full channels block whoever sends, a reply before the kick or the
timer that should follow it too; callbacks overlap; shutdown waits for many, some of
them without a deadline; timers race with the answers they wait for; a Join or a Quit may
be lost or late; a registration is several keys written and swept separately; a
pool is closed under its users; a signal may come before there is anything to stop,
and what is started after it is stopped by nobody.

## 2. The modules

| Module | Models | Lines of the argument |
|---|---|---|
| `SubscriberContract` | abstract: the order and the overlaps of OnConnect, OnMessage, OnDisconnect | what `wss.Subscriber` may rely on |
| `WssGateway` | `pkg/wss`, session table, push RPC, connector cleanup | implements `SubscriberContract` |
| `WssGateway_proofs` | | the theorems about `WssGateway` |
| `PlayerSession` | websocket_handler.go and the engine's Join and Quit, for one connection | runs on top of `SubscriberContract` |
| `PlayerSession_proofs` | | the theorems about `PlayerSession` |
| `ServiceRegistry` | registry.go, registrar.go, Central's cleanup | stands alone; PlayerSession takes its routes as any server of the game |
| `ServiceRegistry_proofs` | | the theorems about `ServiceRegistry` |
| `GameRouting` | GetRoute down to SelectServiceByGame, two Redis commands | extends `ServiceRegistry` with its reader |
| `GameRouting_proofs` | | the theorems about `GameRouting`, extends those about `ServiceRegistry` |
| `GrpcPool` | pool.go: GetConnection, Close | stands alone; `GameServer` runs on it |
| `GrpcPool_proofs` | | the theorems about `GrpcPool` |
| `GameServer` | server.go, peer.go, the clients they use, cleanup of runner.go | instance of `GrpcPool`, any GameHandler |
| `GameServer_proofs` | | the theorems about `GameServer`, instance of those about `GrpcPool` |
| `ProcessLife` | the three programs from main to exit: bootstrap, configuration, DI, Redis provider, NewClient | stands alone; what cleanup waits for is the others' matter |
| `ProcessLife_proofs` | | the theorems about `ProcessLife` |
| `CentralLogin` | Central's Login and the guest users in Redis | stands alone; PlayerSession takes its answers as success, refusal or error |
| `CentralLogin_proofs` | | the theorems about `CentralLogin` |
| `MC_*` | pushes and symmetry for TLC | |

`SubscriberContract` is the joint: `WssGateway` is shown to implement it (by TLC
on the run `gateway_safety`, by TLAPS in general), and `PlayerSession` takes each
callback's beginning and end from it instead of assuming something stronger.
This matters: the contract lets OnMessage overlap OnConnect, and lets it overlap
OnDisconnect once the server is stopping, and the exceptions
that the properties of `PlayerSession` name come in part from exactly that.

### WssGateway

An action is what one goroutine does between two points where another may run.

| Variable | In the code |
|---|---|
| `http[c]` | progress of ServeHTTP: before, waiting on `hub.register`, taken by the hub, pumps started |
| `sock[c]` | `closing`: a Close frame was sent or answered; `lost`: reads and, in time, writes fail; `closed`: our side called Close |
| `clients`, `hub`, `cur` | `hub.clients`; which statement `hub.run` is at and for which client |
| `queue[c]`, `chClosed[c]` | number of messages in `client.send`; whether it was closed |
| `reader[c]`, `writer[c]` | where the pumps are; `sending` is inside `c.send <- msg` in OnMessage |
| `sessions` | keys of the session manager |
| `push[p]` | a ConnectorRPC.SendMessage call: targets left, and whether `Get` has returned the first one's session |
| `quits` | OnPlayerQuit goroutines counted by `wg` |
| `server` | `grpcServer`: nil, serving, or stopping in GracefulStop |
| `main`, `crashed` | main's cleanup; an unrecovered panic |

`hub.unregister` and `hub.register` are unbuffered, so a hand-over is one action
(`HubRegister`, `HubUnregister`) that moves both sides. The select in the hub is
a choice: after cancellation it may still take registrations before it takes
`ctx.Done`. OnDisconnect is a step of its own after the delete and close because
it may wait a second for GetRoute. The recover in `readPump` turns a send on a
closed channel into an unregister (`ReaderPanic`); a push has none (`PushPanic`).
The gRPC server is made by a goroutine of its own (`Serve`), which panics when it
cannot listen (`ServePanic`). Cleanup stops a server that is there (`GracefulBegin`
refuses new calls, `GracefulStop` waits for those under way); when there is none it goes
on (`GracefulSkip`), and a server made later takes calls until the process is gone.

### PlayerSession

`phase`, `inMsg`, `stopping` are the contract's. `op` and `dc` say where OnMessage
and OnDisconnect are; the tags are `loginTag`, `enterTag`, `user`, `game`,
`target`. `timers` holds the running enter game timers under the number of the
login that armed them, so that overwriting the tag leaves the older one running,
as in the code. Expiry and kick are two steps of every timer: `login = "expired"` and
`due` are callbacks that have started and wait for the connection's mutex in Kick;
stopping the timer does not stop them, and `stopTimer` does not look. `AuthKick` is the
kick 100 ms after a failed login.

Every path of OnMessage ends with a reply, and what follows the reply (a kick, a
kick in 100 ms, the enter game timer) waits for it. `out` is the send channel as the
handler meets it: a reply goes through (`Reply`), waits for good on a full channel
nobody drains (`Jam`, `Stuck` of `WssGateway`), or panics when the hub has closed the
channel in a server that stops (`CloseSend`, `ReplyPanic`). Forwarding a game message
touches no tag, so it is such a reply and nothing more.

`calls` holds the OnPlayerJoin calls with how far each is at its
server, which goes on when the connector has given up. `happened` records which
faults and odd schedules a behaviour has had: it is history, read by properties
and by nothing else.

### ServiceRegistry

Each Redis command is an action. `loop` is the registrar goroutine, including the
Register and Heartbeat call it is in; `stop` is `Registrar.Stop` with the
Deregister it is in; both run side by side in a stopping server. `pass`,
`pending`, `valid`, `sweep` are the local variables of a cleanup pass. `unseen`
is history: leases created while a pass was under way, or that a pass failed to
read. A call ends with the process that made it, because Central's handler runs
on the call's context and every Redis command takes it. One service type and one
game stand for all, since the keys of another share only the leases.

### GameRouting

One GetRoute call at a time is added to the registry: `drawn` holds the endpoint
SRANDMEMBER gave it, and the game's type is read in the next command, with every
registration, removal and cleanup step possible between the two. The answer is the
endpoint drawn, whatever has become of it; the type is UNKNOWN when there is none and
also when its GET fails, which is no error to the caller. An error or an empty set
in the first command leaves no trace. `left` is history: the servers of the endpoint
that had left cleanly when it was drawn. `late` is history: servers whose registrar was registering (again) after
Stop had been called.

### GrpcPool

`conns` is the sync.Map and `mu` the mutex; `at`, `want`, `seen` are where a caller is
in GetConnection, its target and its `conn`. The two looks at the map are the same
code with and without the mutex, so they are the same actions. The check of a
connection's state and the delete of its key are separate steps: the delete may hit
what another has stored meanwhile. `closer`, `key`, `rest` are Close: Range visits
each key stored when it began and any choice of the later ones, as sync.Map promises
no more.

### GameServer

The calls a game server takes for a session (`join`, `msg`, `quit`), its peer table,
and the goroutines that push (`job`), each with its position in the pool. A game is
any handler: in OnMessage it may Send to its player, Kick it or Broadcast, any number
of times, and return at any moment; the stateful demo's welcome, a second after OnJoin
and on a context of its own, is part of OnJoin. `late` holds the sessions whose
connector has given up waiting; with the call its context ends, and the pushes on
it fail. The connector is the environment: it takes a push, or lets it time out, and
opens, kicks and ends sessions in the order `WssGateway` and `PlayerSession` have in
full.

### ProcessLife

`kind` is which of the three programs runs; `main` is where its main goroutine is,
`start` the goroutine that listens and serves. They share the gRPC `server`, which is
why a signal during startup is interesting: `signal.Notify` comes after the
goroutine has been started, GracefulStop may come before Serve, and the connector's
cleanup may find no server yet. Redis databases are dialled in any order with bounded
pings; `opened` is which clients are open, from `redis.NewClient` on, whether the pings
then succeed or not; `calls` the RPCs being served. A game server's cleanup first
deregisters, in a call without a deadline: `main = "hung"` is a Central that never
answers it. Central
stops its server nowhere, so its calls run on while the deferred Close takes Redis
from under them.

### CentralLogin

`keys` and `users` are the two kinds of Redis keys, `counterID` is Central's; `at`,
`token`, `id`, `counted` are the locals of each call in progress: `id` is `userID`,
`counted` what `counterID++` has read before it writes. Each Redis command is an
action, and so is each access to the counter, which no lock protects. The two keys
of a guest have the same TTL, so which of them expires first is not free: `covered`
holds the tokens whose key was last written before their user's, and
`ExpireUser` waits for those. An error of a SET leaves open whether it was
executed. `overlapped`, `expired` and `reused` are history, read by properties only.

## 3. The runs

| Run | Instance | States | Shows |
|---|---|---|---|
| `gateway_safety` | 2 connections, 1 multicast push, channel of 1 | 779,926 | `TypeOK`, `ReaderChannelSafe`, `SessionTable`, `ShutdownComplete`, `KeepsContract` |
| `gateway_liveness` | 1 connection, 2 pushes, channel of 1 | 11,467 | `DoomedLeaves`, `ShutdownEnds` |
| `gateway_crash` | 1 connection, 1 push | | violation of `NoProcessCrash` |
| `registry_safety` | 2 servers, 1 endpoint, 3 leases, a GetRoute call, 1 fault | 1,401,770 | `RoutingTypeOK`, `EstablishedRoutable`, `NoRevival`, `RouteExplained` |
| `registry_liveness` | 1 server, 3 leases, 2 faults | 167,932 | `DeadEndpointLeaves`, `RunningServerLeased` |
| `registry_unroutable` | 1 server, no fault | | violation of `HeartbeatKeepsRoutable` |
| `player_safety` | 2 servers, 1 login, 2 joins | 1,367,504 | `TypeOK`, `NoGhostPeer`, `InGameHasPeer` |
| `player_liveness` | 1 server, 2 logins, 1 join | 636,238 | `TimersSpareAdmitted`, `UnauthenticatedLeaves`, `EnterGameDecided`, `SessionEnds` |
| `login_safety` | 3 logins, 2 tokens, 2 faults | 181,824 | `TypeOK`, `OneTokenPerUser`, `StableIdentity`, `DanglingExplained` |
| `process_life` | 3 programs, 2 databases, 2 calls, 2 pings | 3,847 | `TypeOK`, `CallsHaveRedis`, `NoCallCut`, `ClientsClosed`, `StartDecided`, `SignalEnds` |
| `game_server` | 1 session, 1 pushing goroutine, 2 connections | 62,010 | `TypeOK`, `HandlerReturns`, `CleanupEnds` |
| `grpc_pool` | 3 callers, 2 targets, 3 connections | 144,118 | `TypeOK`, `OneConnPerTarget`, `CloseReachesAll` |

Every cfg says `CHECK_DEADLOCK FALSE`: a process exits, every server of an instance
ends up gone, and the messages, logins and connections of an instance run out.

**What the passing runs say.** The interesting properties state exactly under
which conditions something may go wrong, so that any further way would be a
violation:

- `EstablishedRoutable`: a registered server can be found for as long as it has
  its lease, unless the lease was created during a cleanup pass or a pass could
  not read it. There is no third way, with any restarts at the same endpoint, any
  late Deregister, any expiry.
- `NoGhostPeer`: a game server keeps a peer of a finished session only after a
  Join the connector gave up on, a lost Quit, a route without its type, or
  OnDisconnect overlapping enter_game at shutdown.
- `InGameHasPeer`: a player in a stateful game is known to its server unless that
  server restarted or an abandoned Join failed late and removed, by session id,
  the newer peer.
- `NoRevival`: a lease that has run out under its holder never comes back, although
  Heartbeat checks and renews it in two commands.
- `TimersSpareAdmitted`: who is logged in is kicked only by an enter game timer that has
  expired, and only while neither in a game nor on the way into one. There are four
  exceptions: the login was handled before OnConnect had stored the login timer's tag; a
  timer's callback was already on its way to Kick when the handler stopped it, whose
  `Stop` then does nothing; the login followed a failed one within the 100 ms to its
  kick; an earlier login was refused, and the timer it armed was overwritten.
- `UnauthenticatedLeaves`: a connection without a login is kicked, unless a reply to it
  waits for good. The login timer is stopped first and the kick comes after the reply,
  so a client that fills its channel and reads no more can stay.
- `ShutdownComplete`: when main returns, no session, client or Quit is left and no push
  holds a connection. No push runs at all, provided there was a gRPC server to
  stop; otherwise the calls a late server accepts are cut, but find no session.
- `OneTokenPerUser`, `StableIdentity`, `DanglingExplained`: two tokens share a user
  only after two calls were in `counterID++` at once or Central restarted; one token
  gives two users only after its key expired or two calls were creating it; a token
  lacks its user only while that is being written, or after a fault.
- `EnterGameDecided`: a player who has logged in enters a game or is kicked, unless
  the last attempt failed after its timer had been stopped (there was no route or
  the Join failed), or the reply to its login waits for good, after which the timer
  would be armed. Then nothing limits its stay.
- `RouteExplained`: an endpoint that is answered had, when it was drawn, a process that
  was up or had not left cleanly. One that leaves between the draw and the answer is
  answered all the same: no command looks at the set again.
- `OneConnPerTarget`, `CloseReachesAll`: until Close is called a target has one
  connection, also while several goroutines find none; Close closes all that was
  stored before it. What is stored during or after it may stay open for good:
  nothing prevents that, and nothing is claimed.
- `HandlerReturns`, `CleanupEnds`: closing the pool first delays no handler, and no
  cleanup that has deregistered, for good.
- `CallsHaveRedis`, `NoCallCut`: only Central takes Redis from under its calls and
  cuts them short when it ends; a connector cuts calls only when its signal came
  before its gRPC goroutine had made a server. The game servers do neither.
- `ClientsClosed`, `StartDecided`: startup ends, and when a database is missing the
  clients made before it are closed. The client whose own pings failed is not:
  `NewClient` returns without it (client.go:58-60), and nobody can close it any more.
- `SignalEnds`: a signal ends the process, also one that comes while it starts, unless
  Central never answers the Deregister call of a game server's cleanup.
- `DoomedLeaves`: a connection that was kicked or lost leaves the session table,
  although Kick only writes a Close frame, unless its read pump is stuck.

**The violations** are the findings of `PROJECT.json`, each with the sentence of
the repository it contradicts:

1. a push between `close(client.send)` and `sessionMgr.Remove` panics in a gRPC
   goroutine, and the connector dies with every connection on it (`NoProcessCrash`
   leaves out the panic on purpose of a connector that cannot listen for gRPC);
2. a server that registers during a cleanup pass, between its look at the services and
   its look at the game, is swept out of the game's set and stays unroutable, with every
   heartbeat succeeding.

Three more facts are part of the models and show in the exceptions of properties,
with no run of their own: a full channel blocks the read pump for good once the write
pump has ended (`Stuck` in `DoomedLeaves`, `UnauthenticatedLeaves`, `EnterGameDecided`);
a refused token is answered as a success and the client stays until a timer fires (`LoginAnswer`, `UnauthenticatedLeaves`); a
login that meets a token key whose user is not yet written is refused, because
`GetStruct` hides `redis.Nil` (`UserMissing`, `DanglingExplained`).

**Bounds, and why they are enough.** Connections interact only through the hub
and through one multicast call, so two show every order. A channel of one is full
as soon as it holds anything; the 256 of the code only make that longer
to reach. Three leases let a server hold one, be granted another, and have an
older one still expiring; two servers are enough for a restart at an endpoint
beside the leftovers. Crashes, expiry of unrenewed leases,
restarts of servers and cleanup races are not counted by `MaxFault`; failed calls,
leases that run out under a holder that renews them and restarts of Central are. It is
1 with two servers, where the lease of a holder is lost beside the other server, a
cleanup pass and a reader, and 2 with one server. Both servers of `registry_safety`
have one endpoint, so that each meets what the other has left there; servers
at two endpoints share only the cleanup pass, which treats each member of a set by
itself (the theorems are about any number of both). Two logins and two joins are the
least that let a timer be overwritten and an abandoned Join meet a later one: the run
about peers has the joins and two servers, the one about timers the logins. Three
logins and two tokens are the least for two calls to share an id or a token while a
third meets what they leave; two faults cover a failed write and a restart together.
Three callers are the least for one to delete what another has stored while a third
loads it, and three connections for a target to be dialled again behind Close. In
`game_server` one session is enough, since the peers of two meet in the pool only,
which `grpc_pool` checks with three callers; its one pushing goroutine still meets
Close, the cleanup and its own handler at every step. Two pings stand for ten: what
matters is a first that may fail and a last one. A second GetRoute call would be
independent of the first, as a route changes nothing.
Symmetry (connections, targets, callers, servers, logins, tokens) is used in safety runs
only.

**Fairness.** Weak fairness stands for the Go scheduler: a goroutine that can
run, does. Strong fairness is assumed twice where Go gives it: senders waiting
on a channel are served in turn (`ReaderSend`), and a select whose `stopChan` is
closed takes it in the end (`LoopStop`). It is assumed once more of the games: a
handler that goes on pushing returns in the end (`MsgReply`). Timers fire, and their
callbacks get the mutex that Kick waits for, which a write pump holds no longer than
a write deadline. Calls end because every one the connector makes has a timeout;
Deregister has none, so `ServiceRegistry` does not owe the end of Stop and
`ProcessLife` lets it hang. A reply need not end: `Jam` may take it at any time, and then
no step of the handler is enabled any more. The goroutine that makes the connector's
gRPC server is not owed either (`Serve`). A write to a connection that has been closed
or lost fails at the next ping. Nothing is assumed of clients, callers,
operators and faults: no signal has to come, no ping has to succeed.

## 4. The proofs

Every safety invariant and every action property of a passing run is proved for all
values of the constants. How the modules fit together is proved too:

    WssGateway  => SubscriberContract (all connections)      GatewayKeepsContract
                => SubscriberContract (each one by itself)    EachConnectionKeepsContract
    PlayerSession => SubscriberContract (its connection)      PlayerFollowsContract
    GameRouting => ServiceRegistry                            RoutingKeepsRegistry
    GameServer  => GrpcPool                                   GameServerKeepsPool

so the gateway shows each player's handler only what `PlayerSession` is ready for, the
registry's theorems hold beside any lookup, and the pool's in a running game server.

`WssGateway_proofs` proves, for any set of connections, any set of push calls
and target lists, and any capacity of at least one:

- `TypeCorrect`: `Spec => []TypeOK`
- `ReaderChannel`: `Spec => []ReaderChannelSafe`
- `SessionsFollowClients`: `Spec => []SessionTable`
- `ShutdownLeavesNothing`: `Spec => []ShutdownComplete`
- `GatewayKeepsContract`: `Spec => KeepsContract`, the refinement
- `EachConnectionKeepsContract`: `Spec => OfOne(c)!Spec`, the contract seen from
  any one connection `c`

They assume the three ASSUMEs of `WssGateway`: `NoConn` is no connection, target
lists are sequences of connections, the capacity is positive.

`ShutdownLeavesNothing` holds with or without a gRPC server: a call that is accepted
after Shutdown finds an empty table, which is what `MainInv` adds for a server that is
made late.

None of the invariants is inductive alone, except `TypeOK` with help. `Inv` adds:
`HubInv` (the hub's position says whether it is at a client and whether that
client is registered), `ConnInv` (a registered client's channel is open, nothing
is before its registration), `PumpInv` (outside shutdown a connection whose read
pump has not been taken over is registered: the reason the read pump never meets
its channel closed), `PushInv` and `MainInv` (cleanup goes on only when what it
waited for has ended). There is one lemma for each conjunct, with one step for each
action, and `InvStep` puts them together. For the refinement, `ContractStep` maps
each action to the contract's step it implements or to a stutter; `SamePhase`,
`MoveStep` and `NoCallback` carry the parts that recur. `OfOneStep` then projects the
contract on one connection: a callback of another one leaves this one alone.

`CentralLogin_proofs` proves, for any sets of calls and tokens and any number of
faults, from the three ASSUMEs of `CentralLogin` (the empty token is no client's
token, a missing key is no id, the fault bound is a number):

- `TypeCorrect`: `Spec => []TypeOK`
- `TokensApart`: `Spec => []OneTokenPerUser`
- `TokenKeepsUser`: `Spec => []StableIdentity`
- `TokenHasUser`: `Spec => []DanglingExplained`

Three separate inductive invariants carry them. `UniqueInv`: until an id may be
reused, one call at most is in `counterID++`, every id handed out is below the
counter, and a call about to write its token key has an id no key has.
`StableInv`: of a token neither expired nor created twice, one call at most is
creating it, only before the key exists, and later calls hold the key's id.
`BackedInv`: a token key has a user that outlives it or a call about to write that
user; without the part about outliving it is not inductive, since the user could
expire.

`GrpcPool_proofs` proves, for any callers, targets and connections, from the one
ASSUME of `GrpcPool` (what stands for none is no member):

- `TypeCorrect`: `Spec => []TypeOK`
- `OneConnection`: `Spec => []OneConnPerTarget`
- `CloseReaches`: `Spec => []CloseReachesAll`

`Inv` adds to the types that whoever dials or stores holds the mutex. `OpenInv` says
what holds until Close: nothing is closed, so nobody is about to delete; whoever looks
at a connection or has one sees what is stored; whoever dials or stores finds the
target free; a connection made is stored or about to be. `SingleInv` follows from it at
each dial. `RangeInv` is what carries Close: a connection of the beginning that is not
closed yet is still stored at a target still to be visited, and no caller there is
about to delete or replace it, because each of them has loaded that very connection.

`PlayerSession_proofs` proves, for any set of game servers and any bounds on logins
and joins, from the two ASSUMEs of `PlayerSession` (`NoServer` is no server, the bounds
are numbers):

- `TypeCorrect`: `Spec => []TypeOK`
- `NoGhost`: `Spec => []NoGhostPeer`
- `PlayerIsPeer`: `Spec => []InGameHasPeer`
- `AdmittedSpared`: `Spec => TimersSpareAdmitted`
- `PlayerFollowsContract`: `Spec => Wss!Spec`

`NoGhostPeer` speaks of a session that is over, so its invariant has to say who is
going to remove a peer before that. `PeerInv` does: a peer is at the server of the last
Join, and either the handler is still between Join and `target_endpoint`, or the tag
leads OnDisconnect or its Quit there. It needs `CallInv` (unless a Join was given up
on, one call at most is at a server, and only the last was accepted), `QuitInv`
and `HandlerInv` (what the handler has made sure of at each of its steps: a login, no
game yet, a call). `MemberInv` is the converse: who was accepted, or has the target, is
a peer. `TimerInv` says that, outside the four exceptions, who has logged in has no
login timer running or due and no kick scheduled, that the only enter game timer is the
one its tag leads to, and that none is due in a game or on the way into one.

`ServiceRegistry_proofs` proves, for any servers, endpoints, lease ids and number of
faults, from the two ASSUMEs of `ServiceRegistry` (`NoLease` is no lease, the fault
bound is a number):

- `TypeCorrect`: `Spec => []TypeOK`
- `LiveStaysRoutable`: `Spec => []EstablishedRoutable`
- `LostLeaseStaysLost`: `Spec => NoRevival`

`EstablishedRoutable` is about every pass of Central that may run beside a registered
server. `PassInv` is what makes it inductive: during a pass the lease of a server is
still to be read, or its endpoint is among the valid ones, or it is in `unseen`; and
what is going to be removed is disjoint from the valid ones. `RouteInv` extends the
property to registrations half done (each set it has written holds the endpoint already),
`LeaseInv` says that nobody uses another's lease id, and `EndpointInv` that an endpoint
belongs to one running process, so that nobody else's Deregister can take it out.

`GameRouting_proofs` extends it and proves, with no assumption more:

- `RoutingKeepsRegistry`: `RoutingSpec => Spec`, so that the theorems above hold here
- `RoutingTypeCorrect`: `RoutingSpec => []RoutingTypeOK`
- `RoutesLeadToServers`: `RoutingSpec => RouteExplained`

`GamesInv` says that every endpoint in the game's set has a server that explains it.
The hard step is the end of Deregister: a server that ends then must not be the one
that explains its endpoint, so `LeavingInv` follows it, without faults, from its lease
(which only it deletes) to the removal of its endpoint; `LoopInv` notes which servers
registered again meanwhile. `DrawnInv` carries the explanation from the draw to the
answer: the server that explained the endpoint may leave meanwhile, but was not
among those that had left (`left`).

`GameServer_proofs` proves, for any sessions, pushing goroutines and connections, from
the two ASSUMEs of `GameServer` (what stands for none is no member):

- `TypeCorrect`: `Spec => []TypeOK`
- `GameServerKeepsPool`: `Spec => Pool!Spec`
- `PoolShared`: `Spec => [](Pool!OneConnPerTarget /\ Pool!CloseReachesAll)`

It instantiates `GrpcPool_proofs` with the two addresses a peer can have. Its own
invariant adds only `JobInv` (a goroutine in the pool has a push, and a result only
when GetConnection has returned); that a connection which was got is open as long as the pool is
not being closed comes from the pool's `OpenInv`.

`ProcessLife_proofs` proves, for any calls and any positive number of pings:

- `TypeCorrect`: `Spec => []TypeOK`
- `RedisUnderCalls`: `Spec => []CallsHaveRedis`
- `NoCallCutShort`: `Spec => []NoCallCut`
- `RedisClosed`: `Spec => []ClientsClosed`

Its invariant places everything on the line main runs along: where dialled clients are
open (`DialInv`, `ClientInv`), where there can be calls at all (`StartInv`), which
cleanup steps each program has and that a stopped server whose calls were waited for
has none (`StopInv`), and what the end leaves (`ExitInv`).

Only model-checked: the liveness properties (`DoomedLeaves`, `ShutdownEnds`,
`UnauthenticatedLeaves`, `SessionEnds`, `EnterGameDecided`, `DeadEndpointLeaves`,
`RunningServerLeased`, `HandlerReturns`, `CleanupEnds`, `StartDecided`, `SignalEnds`),
since temporal proofs under fairness are out of the prover's reach, and the two
violations, which are counterexamples.

## 5. Not modelled

- Payloads, JSON, what replies say, logging, origins, message size limits.
- The session manager's counter and Range, SelectService and GetServiceEndpoints,
  MySQL, Redis locks and pub/sub, the wallet's Deposit and Withdraw: no caller.
- Of the configuration, everything but the environment and the Redis databases; dial
  options and interceptors; generated code, domain types and ports.
- What the demos answer. The race in the mock wallet's map is modelled by what it may
  do, end the process (`CallPanic`), not by its accesses.
- More than one connection in `PlayerSession`: tags belong to a connection and
  peers are kept by session id. Two sessions of one user are two players here, as
  they are to the code.
- A hub panic: nothing the hub calls panics, given that a channel is closed once
  (`ConnInv`: a registered client's channel is open).

## 6. Plan

1. Done: the gateway with its contract, checked and proved; the player's session;
   the registry, with routes read beside it; logins, checked and proved; the pool,
   checked and proved; game servers on top of it; the life of the three processes.
2. Done: a theorem for every safety invariant and action property of the runs, and for
   every way one module rests on another.
3. A sticky route followed by its reader: `PlayerSession` takes any server of the
   game as its route, where `GameRouting` knows more.
