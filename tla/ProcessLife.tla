------------------------------ MODULE ProcessLife ------------------------------
(***************************************************************************)
(* A process from main() to its exit: cmd/central, cmd/connector, and the  *)
(* game servers of internal/engine/runner.go, on top of bootstrap.App, the *)
(* Redis provider and the gRPC server each of them starts.                 *)
(*                                                                         *)
(* main loads its configuration, dials what it needs and waits for a       *)
(* signal; a goroutine of its own starts the server.  The three differ in  *)
(* what they dial and in what they clean up, and in which order.           *)
(***************************************************************************)
EXTENDS Naturals

CONSTANTS
  Handler,  \* RPC calls the gRPC server may be serving
  MaxPing   \* maxRetries of NewClient

ASSUME MaxPingAssumption == MaxPing \in Nat \ {0}

VARIABLES
  kind,      \* which program this is
  env,       \* APP_ENV
  dbs,       \* Redis databases the configuration names
  main,      \* where main is
  dial,      \* the database NewProvider is dialling
  pings,     \* failed pings of its client
  opened,    \* databases with an open client, whether it was pinged or not
  start,     \* where the goroutine that starts the server is
  server,    \* the *grpc.Server
  calls,     \* calls it is serving
  signalled, \* SIGINT or SIGTERM came
  exit,      \* how the process ended
  cut        \* history: calls that were under way when it ended

startup == <<kind, env, dbs, dial, pings>>
vars    == <<startup, main, opened, start, server, calls, signalled, exit, cut>>

DB     == {"user", "central"}
NoDB   == "none"
Alive  == exit = "no"

Cleanup == {"deregister", "wsStop", "grpcStop", "drain", "async", "closePool", "closeRedis"}

TypeOK ==
  /\ kind \in {"game", "central", "connector"} /\ env \in {"prod", "other"}
  /\ dbs \subseteq DB /\ dial \in DB \cup {NoDB} /\ pings \in 0..MaxPing
  /\ main \in {"load", "redis", "wire", "run", "wait", "hung", "returned"} \cup Cleanup
  /\ opened \subseteq dbs
  /\ start \in {"none", "listen", "serve", "serving", "ended"}
  /\ server \in {"none", "made", "stopped"}
  /\ calls \subseteq Handler /\ cut \subseteq Handler
  /\ signalled \in BOOLEAN
  /\ exit \in {"no", "ok", "error", "panic", "killed"}

Init ==
  /\ kind \in {"game", "central", "connector"} /\ env \in {"prod", "other"}
  /\ dbs \in SUBSET DB
  /\ main = "load" /\ dial = NoDB /\ pings = 0 /\ opened = {}
  /\ start = "none" /\ server = "none" /\ calls = {}
  /\ signalled = FALSE /\ exit = "no" /\ cut = {}

Goto(from, to) == Alive /\ main = from /\ main' = to

Move(from, to) == Goto(from, to)
                    /\ UNCHANGED <<startup, opened, start, server, calls, signalled, exit, cut>>

(* The end of the process ends everything in it. *)
End(how) ==
  /\ exit' = how
  /\ cut' = calls /\ calls' = {}
  /\ start' = "ended"

-----------------------------------------------------------------------------
(* Startup. *)

Load == Move("load", IF kind = "connector" THEN "wire" ELSE "redis")

(* The file is there and cannot be read, or does not fit: os.Exit(1). *)
LoadFail ==
  /\ Alive /\ main = "load"
  /\ End("error")
  /\ UNCHANGED <<startup, main, opened, server, signalled>>

(* Mutant: the databases are dialled whether the configuration names them or not. *)
FaultyDial(db) ==
  /\ Alive /\ main = "redis" /\ dial = NoDB /\ db \in DB \ opened
  /\ dial' = db /\ pings' = 0 /\ opened' = opened \cup {db}
  /\ UNCHANGED <<kind, env, dbs, main, start, server, calls, signalled, exit, cut>>

(* NewProvider takes the databases in any order; NewClient makes a client    *)
(* for each and then pings it.                                               *)
Dial(db) ==
  /\ Alive /\ main = "redis" /\ dial = NoDB /\ db \in dbs \ opened
  /\ dial' = db /\ pings' = 0 /\ opened' = opened \cup {db}
  /\ UNCHANGED <<kind, env, dbs, main, start, server, calls, signalled, exit, cut>>

Ping ==
  /\ Alive /\ dial # NoDB
  /\ dial' = NoDB
  /\ UNCHANGED <<kind, env, dbs, pings, main, opened, start, server, calls, signalled, exit, cut>>

(* Mutant: the pings are counted from the start again after the last. *)
FaultyPingFail ==
  /\ Alive /\ dial # NoDB
  /\ pings' = (pings + 1) % MaxPing
  /\ UNCHANGED <<kind, env, dbs, dial, main, opened, start, server, calls, signalled, exit, cut>>

PingFail ==
  /\ Alive /\ dial # NoDB /\ pings < MaxPing
  /\ pings' = pings + 1
  /\ UNCHANGED <<kind, env, dbs, dial, main, opened, start, server, calls, signalled, exit, cut>>

(* Mutant: the clients made before the one that failed stay open. *)
FaultyProviderFail ==
  /\ Alive /\ dial # NoDB /\ pings = MaxPing
  /\ End(IF kind = "game" THEN "ok" ELSE "error")
  /\ UNCHANGED <<startup, main, opened, server, signalled>>

(* The last ping has failed: NewClient returns without closing the client it *)
(* has pinged, and NewProvider closes those it was given before.  Central    *)
(* exits with 1; RunGameServer just returns.                                 *)
ProviderFail ==
  /\ Alive /\ dial # NoDB /\ pings = MaxPing
  /\ opened' = {dial}
  /\ End(IF kind = "game" THEN "ok" ELSE "error")
  /\ UNCHANGED <<startup, main, server, signalled>>

Provided ==
  /\ opened = dbs /\ dial = NoDB
  /\ Move("redis", "wire")

(* The di package panics without a database it needs; in "prod" it takes a   *)
(* missing user database for a service without a client.                     *)
Needs == CASE kind = "connector" -> {}
           [] kind = "central"   -> IF env = "prod" THEN {"central"} ELSE DB
           [] kind = "game"      -> IF env = "prod" THEN {} ELSE {"user"}

Wire ==
  /\ Needs \subseteq dbs
  /\ Goto("wire", "run")
  /\ start' = "listen"
  /\ server' = IF kind = "game" THEN "made" ELSE "none"
  /\ UNCHANGED <<startup, opened, calls, signalled, exit, cut>>

WireFail ==
  /\ Alive /\ main = "wire" /\ ~(Needs \subseteq dbs)
  /\ End("panic")
  /\ UNCHANGED <<startup, main, opened, server, signalled>>

(* grpc.NewClient refuses Central's address: the connector exits; a game     *)
(* server goes on without a connection, which its registrar then calls on.   *)
NoCentral ==
  /\ Alive
  /\ \/ kind = "connector" /\ main = "wire" /\ End("error")
     \/ kind = "game" /\ start \notin {"none", "listen"} /\ End("panic")
  /\ UNCHANGED <<startup, main, opened, server, signalled>>

(* signal.Notify comes after the goroutine is started. *)
Notify == Move("run", "wait")

-----------------------------------------------------------------------------
(* The goroutine that starts the server.  In the connector it is the one    *)
(* that startFunc starts for gRPC; startFunc itself serves HTTP.            *)

Listen ==
  /\ Alive /\ start = "listen" /\ start' = "serve"
  /\ server' = IF server = "none" THEN "made" ELSE server
  /\ UNCHANGED <<startup, main, opened, calls, signalled, exit, cut>>

(* The port is taken: os.Exit(1), in the connector a panic. *)
ListenFail ==
  /\ Alive /\ start = "listen"
  /\ End(IF kind = "connector" THEN "panic" ELSE "error")
  /\ UNCHANGED <<startup, main, opened, server, signalled>>

(* http.ListenAndServe returns only with an error. *)
HttpFail ==
  /\ Alive /\ kind = "connector" /\ start # "none"
  /\ End("error")
  /\ UNCHANGED <<startup, main, opened, server, signalled>>

(* Serve on a stopped server is an error: App.Run exits with 1, the          *)
(* connector only logs it.                                                   *)
Serve ==
  /\ Alive /\ start = "serve"
  /\ IF server = "stopped" /\ kind # "connector"
       THEN End("error")
       ELSE /\ start' = IF server = "stopped" THEN "ended" ELSE "serving"
            /\ UNCHANGED <<calls, exit, cut>>
  /\ UNCHANGED <<startup, main, opened, server, signalled>>

Accepting == Alive /\ start = "serving" /\ server = "made"

CallBegin(h) ==
  /\ Accepting /\ h \notin calls
  /\ calls' = calls \cup {h}
  /\ UNCHANGED <<startup, main, opened, start, server, signalled, exit, cut>>

CallEnd(h) ==
  /\ Alive /\ h \in calls
  /\ calls' = calls \ {h}
  /\ UNCHANGED <<startup, main, opened, start, server, signalled, exit, cut>>

(* A handler panics, and nothing recovers it: a push that finds its channel  *)
(* closed, a user service without a client, or two logins in the mock        *)
(* wallet's map at the same time.                                            *)
CallPanic ==
  /\ Alive /\ calls # {}
  /\ \/ kind = "connector" \/ "user" \notin dbs
     \/ \E g, h \in calls : g # h
  /\ End("panic")
  /\ UNCHANGED <<startup, main, opened, server, signalled>>

-----------------------------------------------------------------------------
(* The signal: before App.Run listens to it, it ends the process. *)

Signal ==
  /\ Alive /\ ~signalled
  /\ signalled' = TRUE
  /\ IF main = "wait" THEN UNCHANGED <<calls, start, exit, cut>> ELSE End("killed")
  /\ UNCHANGED <<startup, main, opened, server>>

(* Mutant: the deferred Close of the provider runs before cleanup. *)
FaultyFirstStep == CASE kind = "connector" -> "wsStop" [] OTHER -> "closeRedis"

FirstStep == CASE kind = "game"      -> "deregister"
               [] kind = "central"   -> "closeRedis"
               [] kind = "connector" -> "wsStop"

CleanupBegin ==
  /\ signalled
  /\ Move("wait", FirstStep)

(* registrar.Stop, the WebSocket server's Shutdown, the wait for OnPlayerQuit *)
(* calls and the pool's Close are other modules' matter.  Stop's Deregister   *)
(* call has no deadline: when Central takes it and never answers, cleanup     *)
(* stays there.                                                               *)
Deregistered    == Move("deregister", "closePool")
DeregisterHangs == Move("deregister", "hung")
PoolClosed   == Move("closePool", IF kind = "game" THEN "grpcStop" ELSE "returned")
WsStopped    == Move("wsStop", "grpcStop")
AsyncDone    == Move("async", "closePool")

AfterStop == IF kind = "game" THEN "closeRedis" ELSE "async"

(* Mutant: the server goes on taking calls while it waits for them. *)
FaultyGracefulStop == Move("grpcStop", IF server = "none" THEN AfterStop ELSE "drain")

(* GracefulStop refuses new calls and waits for those under way; Serve       *)
(* returns.  The connector skips it while its gRPC goroutine has no server.  *)
GracefulStop ==
  /\ Goto("grpcStop", IF server = "none" THEN AfterStop ELSE "drain")
  /\ server' = IF server = "none" THEN "none" ELSE "stopped"
  /\ start' = IF server # "none" /\ start = "serving" THEN "ended" ELSE start
  /\ UNCHANGED <<startup, opened, calls, signalled, exit, cut>>

(* Mutant: Stop instead of GracefulStop; handlers under way are not waited for. *)
FaultyDrained == Move("drain", AfterStop)

Drained ==
  /\ calls = {}
  /\ Move("drain", AfterStop)

(* The deferred Close of the provider. *)
CloseRedis ==
  /\ Goto("closeRedis", "returned")
  /\ opened' = {}
  /\ UNCHANGED <<startup, start, server, calls, signalled, exit, cut>>

Return ==
  /\ Alive /\ main = "returned"
  /\ End("ok")
  /\ UNCHANGED <<startup, main, opened, server, signalled>>

-----------------------------------------------------------------------------
Dialling    == (\E db \in DB : Dial(db)) \/ Ping \/ PingFail \/ ProviderFail
CleanupStep == CleanupBegin \/ Deregistered \/ DeregisterHangs \/ WsStopped
                 \/ GracefulStop \/ Drained \/ AsyncDone \/ PoolClosed \/ CloseRedis \/ Return
MainStep    == Load \/ Dialling \/ Provided \/ Wire \/ WireFail \/ Notify \/ CleanupStep
StartStep   == Listen \/ Serve
Failure     == LoadFail \/ NoCentral \/ ListenFail \/ HttpFail \/ CallPanic

Next == \/ MainStep \/ StartStep \/ Failure \/ Signal
        \/ \E h \in Handler : CallBegin(h) \/ CallEnd(h)

Spec == Init /\ [][Next]_vars

(* main and the starting goroutine go on, and a handler returns; no signal   *)
(* has to come, no ping has to succeed.                                      *)
Fairness == /\ WF_vars(MainStep) /\ WF_vars(StartStep)
            /\ \A h \in Handler : WF_vars(CallEnd(h))

FairSpec == Spec /\ Fairness

-----------------------------------------------------------------------------
(* A call finds the Redis clients its process has made open until it        *)
(* returns.  Only Central closes them under its calls: it stops its server  *)
(* nowhere (cmd/central/main.go:65, :121).                                  *)
CallsHaveRedis ==
  calls # {} /\ kind # "connector" =>
    opened = dbs \/ (kind = "central" /\ main = "returned")

(* A process that comes to the end of its cleanup cuts no call short, but    *)
(* for Central, and for a connector whose signal came before its gRPC        *)
(* goroutine had a server for cleanup to stop (cmd/connector/main.go:117).   *)
NoCallCut ==
  exit = "ok" /\ cut # {} =>
    kind = "central" \/ (kind = "connector" /\ server # "stopped")

(* However main ends, the Redis clients it has made are closed, unless the    *)
(* process is killed, panics or fails to listen with them -- but for the one  *)
(* that failed its pings, which nobody holds any more (client.go:35, :58-60;  *)
(* provider.go:44).                                                           *)
ClientsClosed ==
  exit = "ok" \/ (exit = "error" /\ main = "redis") =>
    opened = IF main = "redis" THEN {dial} ELSE {}

(* Startup ends: waiting for a signal, or with the process (client.go:47).   *)
StartDecided == <>(main = "wait" \/ ~Alive)

(* A signal ends the process, unless Central never answers the Deregister    *)
(* call of a game server's cleanup (runner.go:123, registrar.go:61): nothing *)
(* else that cleanup waits for waits for ever.                               *)
SignalEnds == signalled ~> (~Alive \/ main = "hung")
=============================================================================
