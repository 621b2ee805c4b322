---------------------------- MODULE ServiceRegistry ----------------------------
(***************************************************************************)
(* Service discovery: the Redis registry of                                *)
(* internal/infrastructure/service_discovery/redis, the Central handlers   *)
(* in front of it, Central's periodic cleanup, and the registrar of every  *)
(* game server (internal/grpc_client/central/registrar.go).                *)
(*                                                                         *)
(* A registration is three kinds of Redis keys written one after the       *)
(* other: a lease with a TTL, the endpoint in the set of its service type  *)
(* and in the set of its game, and the game's service type.  Heartbeats    *)
(* renew the lease and nothing else.  A Redis command is atomic; between   *)
(* two commands of a handler, anything else may happen.                    *)
(*                                                                         *)
(* One service type and one game are enough: the keys of the others follow *)
(* the same steps and share only the leases.  A restarted server process   *)
(* is another member of Server with the same endpoint.                     *)
(***************************************************************************)
EXTENDS Naturals, FiniteSets

CONSTANTS
  Server,    \* game server processes, in the life of the system
  Endpoint,  \* host:port addresses
  Slot,      \* lease ids a server may have in use at once
  NoLease,   \* registrar.leaseID before the first registration
  MaxFault   \* failed calls, lost leases and Central crashes, together

Lease == Server \X Slot

ASSUME NoLeaseAssumption  == NoLease \notin Lease
ASSUME MaxFaultAssumption == MaxFault \in Nat

VARIABLES
  ep,         \* the endpoint of each server
  up,         \* whether its process is up
  loop,       \* where its registrar goroutine is
  lease,      \* registrar.leaseID
  granted,    \* the lease id of the Register call in progress
  stop,       \* where Registrar.Stop and the Deregister it calls are
  target,     \* the lease id Stop has read
  leases,     \* Redis: services:lease:* keys that exist
  services,   \* Redis: the endpoint set of the service type
  games,      \* Redis: the endpoint set of the game
  meta,       \* Redis: the game's service type has been stored
  pass,       \* where Central's cleanup pass is
  pending,    \* lease keys the pass has still to read
  valid,      \* endpoints of the leases it has read
  sweep,      \* members of the set at hand it has still to remove
  unseen,     \* history: leases no pass is bound to see (see below)
  faults      \* faults so far

server  == <<ep, up, loop, lease, granted, stop, target>>
redis   == <<leases, services, games, meta>>
cleanup == <<pass, pending, valid, sweep>>
vars    == <<server, redis, cleanup, unseen, faults>>

LoopPC == {"off", "setLease", "addService", "addGame", "setMeta", "idle",
           "exists", "expire", "ended"}
StopPC == {"no", "closed", "get", "del", "remService", "remGame", "done"}

Registered(s) == loop[s] \in {"idle", "exists", "expire"}

TypeOK ==
  /\ ep \in [Server -> Endpoint]
  /\ up \in [Server -> {"new", "up", "gone"}]
  /\ loop \in [Server -> LoopPC]
  /\ lease \in [Server -> Lease \cup {NoLease}]
  /\ granted \in [Server -> Lease \cup {NoLease}]
  /\ stop \in [Server -> StopPC]
  /\ target \in [Server -> Lease \cup {NoLease}]
  /\ leases \subseteq Lease /\ unseen \subseteq leases
  /\ services \subseteq Endpoint /\ games \subseteq Endpoint
  /\ meta \in BOOLEAN
  /\ pass \in {"none", "get", "services", "games"}
  /\ pending \subseteq Lease /\ valid \subseteq Endpoint /\ sweep \subseteq Endpoint
  /\ faults \in 0..MaxFault
  /\ \A s \in Server : Registered(s) => lease[s] # NoLease

Init ==
  /\ ep \in [Server -> Endpoint]
  /\ up = [s \in Server |-> "new"]
  /\ loop = [s \in Server |-> "off"]
  /\ lease = [s \in Server |-> NoLease]
  /\ granted = [s \in Server |-> NoLease]
  /\ stop = [s \in Server |-> "no"]
  /\ target = [s \in Server |-> NoLease]
  /\ leases = {} /\ services = {} /\ games = {} /\ meta = FALSE
  /\ pass = "none" /\ pending = {} /\ valid = {} /\ sweep = {}
  /\ unseen = {}
  /\ faults = 0

Fault == faults < MaxFault /\ faults' = faults + 1

-----------------------------------------------------------------------------
(* The registrar goroutine of a server. *)

Goto(s, from, to) ==
  /\ up[s] = "up"
  /\ loop[s] = from
  /\ loop' = [loop EXCEPT ![s] = to]
  /\ UNCHANGED <<ep, up, stop, target>>

(* A new process; an endpoint belongs to one process at a time. *)
Start(s) ==
  /\ up[s] = "new"
  /\ \A t \in Server : ep[t] = ep[s] => up[t] # "up"
  /\ up' = [up EXCEPT ![s] = "up"]
  /\ loop' = [loop EXCEPT ![s] = "setLease"]
  /\ UNCHANGED <<ep, lease, granted, stop, target, redis, cleanup, unseen, faults>>

(* Registry.Register, one Redis command at a time.  The lease id is a new   *)
(* uuid: any that nothing refers to.                                        *)
InUse == leases \cup pending \cup {lease[s] : s \in Server}
                \cup {granted[s] : s \in Server} \cup {target[s] : s \in Server}

RegisterLease(s) ==
  LET free == ({s} \X Slot) \ InUse
      l    == CHOOSE m \in free : TRUE IN
    /\ free # {}
    /\ Goto(s, "setLease", "addService")
    /\ granted' = [granted EXCEPT ![s] = l]
    /\ leases' = leases \cup {l}
    /\ unseen' = IF pass = "none" THEN unseen ELSE unseen \cup {l}
    /\ UNCHANGED <<lease, services, games, meta, cleanup, faults>>

RegisterService(s) ==
  /\ Goto(s, "addService", "addGame")
  /\ services' = services \cup {ep[s]}
  /\ UNCHANGED <<lease, granted, leases, games, meta, cleanup, unseen, faults>>

RegisterGame(s) ==
  /\ Goto(s, "addGame", "setMeta")
  /\ games' = games \cup {ep[s]}
  /\ UNCHANGED <<lease, granted, leases, services, meta, cleanup, unseen, faults>>

(* Mutant: the registrar does not keep the lease id of the response. *)
FaultyRegisterMeta(s) ==
  /\ Goto(s, "setMeta", "idle")
  /\ granted' = [granted EXCEPT ![s] = NoLease]
  /\ \/ meta' = TRUE /\ UNCHANGED faults
     \/ UNCHANGED meta /\ Fault
  /\ UNCHANGED <<lease, leases, services, games, cleanup, unseen>>

(* The error of this write is ignored.  The call returns, and the registrar *)
(* keeps the lease id.                                                      *)
RegisterMeta(s) ==
  /\ Goto(s, "setMeta", "idle")
  /\ lease' = [lease EXCEPT ![s] = granted[s]]
  /\ granted' = [granted EXCEPT ![s] = NoLease]
  /\ \/ meta' = TRUE /\ UNCHANGED faults
     \/ UNCHANGED meta /\ Fault
  /\ UNCHANGED <<leases, services, games, cleanup, unseen>>

(* The call fails on the way: what was written stays, and it is retried.    *)
RegisterFail(s) ==
  /\ \E from \in {"addService", "addGame"} : Goto(s, from, "setLease")
  /\ Fault
  /\ granted' = [granted EXCEPT ![s] = NoLease]
  /\ UNCHANGED <<lease, redis, cleanup, unseen>>

Beat(s) ==
  /\ Goto(s, "idle", "exists")
  /\ UNCHANGED <<lease, granted, redis, cleanup, unseen, faults>>

(* Mutant: only a transport error makes the registrar register again. *)
FaultyHeartbeatExists(s) ==
  /\ Goto(s, "exists", IF lease[s] \in leases THEN "expire" ELSE "idle")
  /\ UNCHANGED <<lease, granted, redis, cleanup, unseen, faults>>

HeartbeatExists(s) ==
  /\ Goto(s, "exists", IF lease[s] \in leases THEN "expire" ELSE "setLease")
  /\ UNCHANGED <<lease, granted, redis, cleanup, unseen, faults>>

(* Mutant: the lease is written again instead of getting a new TTL. *)
FaultyHeartbeatExpire(s) ==
  /\ Goto(s, "expire", "idle")
  /\ leases' = leases \cup {lease[s]}
  /\ UNCHANGED <<lease, granted, services, games, meta, cleanup, unseen, faults>>

(* EXPIRE on a key that is gone by now does nothing, and is no error. *)
HeartbeatExpire(s) ==
  /\ Goto(s, "expire", "idle")
  /\ UNCHANGED <<lease, granted, redis, cleanup, unseen, faults>>

HeartbeatFail(s) ==
  /\ \E from \in {"exists", "expire"} : Goto(s, from, "setLease")
  /\ Fault
  /\ UNCHANGED <<lease, granted, redis, cleanup, unseen>>

(* The loop looks at stopChan only when it waits for the ticker. *)
LoopStop(s) ==
  /\ stop[s] # "no"
  /\ Goto(s, "idle", "ended")
  /\ UNCHANGED <<lease, granted, redis, cleanup, unseen, faults>>

-----------------------------------------------------------------------------
(* Registrar.Stop, in the cleanup of the process, and Registry.Deregister.  *)
(* The registrar goroutine runs on meanwhile.                               *)

StopGoto(s, from, to) ==
  /\ up[s] = "up"
  /\ stop[s] = from
  /\ stop' = [stop EXCEPT ![s] = to]
  /\ UNCHANGED <<ep, up, loop, lease, granted, cleanup>>

Drop(l) == leases' = leases \ {l} /\ unseen' = unseen \ {l}

Stop(s) ==
  /\ StopGoto(s, "no", "closed")
  /\ UNCHANGED <<target, redis, unseen, faults>>

DeregisterCall(s) ==
  /\ StopGoto(s, "closed", IF lease[s] = NoLease THEN "done" ELSE "get")
  /\ target' = [target EXCEPT ![s] = lease[s]]
  /\ UNCHANGED <<redis, unseen, faults>>

(* A lease that is not there, or cannot be read, counts as deregistered. *)
DeregisterGet(s) ==
  /\ \/ /\ StopGoto(s, "get", IF target[s] \in leases THEN "del" ELSE "done")
        /\ UNCHANGED faults
     \/ StopGoto(s, "get", "done") /\ Fault
  /\ UNCHANGED <<target, redis, unseen>>

(* The errors of the three removals are ignored. *)
DeregisterDel(s) ==
  /\ StopGoto(s, "del", "remService")
  /\ \/ Drop(target[s]) /\ UNCHANGED faults
     \/ UNCHANGED <<leases, unseen>> /\ Fault
  /\ UNCHANGED <<target, services, games, meta>>

DeregisterService(s) ==
  /\ StopGoto(s, "remService", "remGame")
  /\ \/ services' = services \ {ep[s]} /\ UNCHANGED faults
     \/ UNCHANGED services /\ Fault
  /\ UNCHANGED <<target, leases, games, meta, unseen>>

(* Mutant: the endpoint stays in the set of its game. *)
FaultyDeregisterGame(s) ==
  /\ StopGoto(s, "remGame", "done")
  /\ UNCHANGED <<target, redis, unseen, faults>>

DeregisterGame(s) ==
  /\ StopGoto(s, "remGame", "done")
  /\ \/ games' = games \ {ep[s]} /\ UNCHANGED faults
     \/ UNCHANGED games /\ Fault
  /\ UNCHANGED <<target, leases, services, meta, unseen>>

(* The process ends, after its cleanup or by a crash: its calls end with it. *)
End(s) ==
  /\ up[s] = "up"
  /\ up' = [up EXCEPT ![s] = "gone"]
  /\ loop' = [loop EXCEPT ![s] = "ended"]
  /\ lease' = [lease EXCEPT ![s] = NoLease]
  /\ granted' = [granted EXCEPT ![s] = NoLease]
  /\ target' = [target EXCEPT ![s] = NoLease]
  /\ UNCHANGED <<ep, redis, cleanup, unseen, faults>>

Exit(s)  == stop[s] = "done" /\ End(s) /\ UNCHANGED stop
Crash(s) == stop[s] # "done" /\ End(s) /\ stop' = [stop EXCEPT ![s] = "no"]

-----------------------------------------------------------------------------
(* Leases run out.  One that its server no longer renews does so in time;   *)
(* one that is being renewed only by a fault (a long pause, a Redis         *)
(* failover).                                                               *)
Renewed(l) == up[l[1]] = "up" /\ l \in {lease[l[1]], granted[l[1]]}

LeaseEnds(l) ==
  /\ l \in leases
  /\ IF Renewed(l) THEN Fault ELSE UNCHANGED faults
  /\ Drop(l)
  /\ UNCHANGED <<server, services, games, meta, cleanup>>

-----------------------------------------------------------------------------
(* Central's CleanupDeadServices. *)

CleanupBegin ==
  /\ pass = "none"
  /\ pass' = "get"
  /\ pending' = leases
  /\ valid' = {}
  /\ UNCHANGED <<server, redis, sweep, unseen, faults>>

(* Mutant: a lease that is gone ends the loop instead of being passed over. *)
FaultyCleanupGet(l) ==
  /\ pass = "get" /\ l \in pending
  /\ IF l \in leases THEN /\ pending' = pending \ {l}
                          /\ valid' = valid \cup {ep[l[1]]}
                     ELSE pending' = {} /\ UNCHANGED valid
  /\ UNCHANGED <<server, redis, pass, sweep, unseen, faults>>

CleanupGet(l) ==
  /\ pass = "get" /\ l \in pending
  /\ pending' = pending \ {l}
  /\ valid' = IF l \in leases THEN valid \cup {ep[l[1]]} ELSE valid
  /\ UNCHANGED <<server, redis, pass, sweep, unseen, faults>>

(* A GET that fails is taken for a lease that has expired. *)
CleanupGetFail(l) ==
  /\ pass = "get" /\ l \in pending
  /\ Fault
  /\ pending' = pending \ {l}
  /\ unseen' = unseen \cup ({l} \cap leases)
  /\ UNCHANGED <<server, redis, pass, valid, sweep>>

CleanupServices ==
  /\ pass = "get" /\ pending = {}
  /\ pass' = "services"
  /\ sweep' = services \ valid
  /\ UNCHANGED <<server, redis, pending, valid, unseen, faults>>

(* Mutant: the pass looks at the service sets again. *)
FaultyCleanupGames ==
  /\ pass = "services" /\ sweep = {}
  /\ pass' = "games"
  /\ sweep' = services \ valid
  /\ UNCHANGED <<server, redis, pending, valid, unseen, faults>>

CleanupGames ==
  /\ pass = "services" /\ sweep = {}
  /\ pass' = "games"
  /\ sweep' = games \ valid
  /\ UNCHANGED <<server, redis, pending, valid, unseen, faults>>

CleanupRemove(e) ==
  /\ e \in sweep
  /\ sweep' = sweep \ {e}
  /\ services' = IF pass = "services" THEN services \ {e} ELSE services
  /\ games' = IF pass = "games" THEN games \ {e} ELSE games
  /\ UNCHANGED <<server, leases, meta, pass, pending, valid, unseen, faults>>

(* A set that cannot be read, or a member that cannot be removed, is left    *)
(* for the next pass.                                                        *)
CleanupSkip ==
  /\ sweep # {}
  /\ Fault
  /\ sweep' = {}
  /\ UNCHANGED <<server, redis, pass, pending, valid, unseen>>

CleanupEnd ==
  /\ pass = "games" /\ sweep = {}
  /\ pass' = "none"
  /\ valid' = {}
  /\ UNCHANGED <<server, redis, pending, sweep, unseen, faults>>

(* Central restarts: every call in progress fails, the pass is gone, Redis   *)
(* keeps everything.                                                         *)
CentralCrash ==
  /\ Fault
  /\ loop' = [s \in Server |->
       IF loop[s] \in {"addService", "addGame", "setMeta", "exists", "expire"}
         THEN "setLease" ELSE loop[s]]
  /\ granted' = [s \in Server |-> NoLease]
  /\ stop' = [s \in Server |->
       IF stop[s] \in {"get", "del", "remService", "remGame"} THEN "done" ELSE stop[s]]
  /\ pass' = "none" /\ pending' = {} /\ valid' = {} /\ sweep' = {}
  /\ UNCHANGED <<ep, up, lease, target, redis, unseen>>

-----------------------------------------------------------------------------
Registrar(s) ==
  \/ RegisterLease(s) \/ RegisterService(s) \/ RegisterGame(s) \/ RegisterMeta(s)
  \/ Beat(s) \/ HeartbeatExists(s) \/ HeartbeatExpire(s) \/ LoopStop(s)
Stopping(s) ==
  \/ DeregisterCall(s) \/ DeregisterGet(s) \/ DeregisterDel(s)
  \/ DeregisterService(s) \/ DeregisterGame(s) \/ Exit(s)
Cleaning ==
  \/ CleanupBegin \/ CleanupServices \/ CleanupGames \/ CleanupEnd
  \/ \E l \in Lease : CleanupGet(l)
  \/ \E e \in Endpoint : CleanupRemove(e)

Working ==
  \/ \E s \in Server : \/ Start(s) \/ Registrar(s) \/ Stop(s) \/ Stopping(s)
                       \/ RegisterFail(s) \/ HeartbeatFail(s) \/ Crash(s)
  \/ Cleaning \/ CleanupSkip
  \/ \E l \in Lease : LeaseEnds(l) \/ CleanupGetFail(l)

Next == Working \/ CentralCrash

Spec == Init /\ [][Next]_vars

-----------------------------------------------------------------------------
(* Safety. *)

(* A registered server is found by type and by game for as long as it keeps *)
(* its lease, whatever else registers, deregisters, expires or is cleaned   *)
(* up -- except with a lease in unseen: one that was created while a        *)
(* cleanup pass was under way, or that a pass failed to read                *)
(* (registry.go:178-190).  Those are the only ways to lose a live endpoint. *)
EstablishedRoutable ==
  \A s \in Server :
    up[s] = "up" /\ stop[s] = "no" /\ Registered(s) /\ lease[s] \in leases \ unseen
      => ep[s] \in services /\ ep[s] \in games

(* A lease that has run out under its holder never comes back: the holder   *)
(* cannot go on with it, it has to register again (registry.go:88-99).      *)
NoRevival ==
  [][\A s \in Server : lease[s] \notin leases /\ lease'[s] = lease[s]
                         => lease[s] \notin leases']_vars

-----------------------------------------------------------------------------
(* Liveness.  Processes run, tickers tick, unrenewed leases expire; starts,  *)
(* stops, crashes and faults are not owed.  With stopChan closed the select  *)
(* takes it in the end.                                                      *)
Fairness ==
  /\ WF_vars(Cleaning)
  /\ \A s \in Server : WF_vars(Registrar(s)) /\ SF_vars(LoopStop(s))
  /\ \A l \in Lease : WF_vars(~Renewed(l) /\ LeaseEnds(l))

FairSpec == Spec /\ Fairness

UpAt(e) == \E s \in Server : ep[s] = e /\ up[s] = "up"

(* An endpoint no process serves any more leaves both sets, even if its     *)
(* process crashed, deregistered too late or registered once more while     *)
(* stopping.                                                                *)
DeadEndpointLeaves ==
  \A e \in Endpoint : ~UpAt(e) ~> (e \notin services \cup games \/ UpAt(e))

(* A server that runs always gets a lease again, whatever it lost.          *)
RunningServerLeased ==
  \A s \in Server : up[s] = "up" /\ stop[s] = "no"
    ~> ((\E k \in Slot : <<s, k>> \in leases) \/ up[s] = "gone" \/ stop[s] # "no")

(* Heartbeats keep a running server active: "定期呼叫，維持服務在 Registry   *)
(* 中的活躍狀態" (api/proto/centralRPC/central.proto).                       *)
HeartbeatKeepsRoutable ==
  \A s \in Server : up[s] = "up" /\ stop[s] = "no"
    ~> (ep[s] \in games \/ up[s] = "gone" \/ stop[s] # "no")
=============================================================================
