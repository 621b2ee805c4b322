------------------------------ MODULE GameRouting ------------------------------
(***************************************************************************)
(* ServiceRegistry with a reader: a GetRoute call of a connector, through  *)
(* Central's handler and service to SelectServiceByGame, which draws a     *)
(* member of the game's set and then, in a second command, reads the       *)
(* game's service type.                                                    *)
(***************************************************************************)
EXTENDS ServiceRegistry

VARIABLES
  drawn, \* the endpoint SRANDMEMBER has given the call in progress, if any
  left,  \* history: servers that had left it cleanly when it was drawn
  late   \* history: servers whose registrar registered after Stop was called

reader == <<drawn, left>>

RoutingTypeOK ==
  /\ TypeOK
  /\ drawn \subseteq Endpoint /\ \A d, e \in drawn : d = e
  /\ left \subseteq Server /\ late \subseteq Server

RoutingInit == Init /\ drawn = {} /\ left = {} /\ late = {}

Registering(s) == loop[s] \in {"setLease", "addService", "addGame", "setMeta"}
Observe == late' = {s \in Server : stop'[s] # "no" /\ (s \in late \/ Registering(s)')}

(* A process that ended of itself: its cleanup ran to the end, nothing       *)
(* failed, and no heartbeat found the lease gone meanwhile and registered    *)
(* again (registrar.go:100-118).                                             *)
LeftCleanly(s) == up[s] = "gone" /\ stop[s] = "done" /\ s \notin late /\ faults = 0

(* An empty set is redis.Nil and an answer without an endpoint, which the    *)
(* handler makes an error, like an error of the command: no call is left.    *)
Draw(e) ==
  /\ drawn = {}
  /\ e \in games
  /\ drawn' = {e} /\ left' = {s \in Server : ep[s] = e /\ LeftCleanly(s)}
  /\ UNCHANGED <<vars, late>>

EndCall == drawn' = {} /\ left' = {}

(* The endpoint drawn goes into the answer unread.  A GET that finds no type *)
(* and one that fails both leave the zero type, and are no error.            *)
Answer(e, type) ==
  /\ drawn = {e}
  /\ type = "known" => meta
  /\ EndCall
  /\ UNCHANGED <<vars, late>>

(* The connector waits no longer. *)
CallerGivesUp == drawn # {} /\ EndCall /\ UNCHANGED <<vars, late>>

RoutingNext ==
  \/ /\ \/ Working /\ UNCHANGED reader
        \/ CentralCrash /\ EndCall
     /\ Observe
  \/ \E e \in Endpoint : \/ Draw(e)
                         \/ \E type \in {"known", "unknown"} : Answer(e, type)
  \/ CallerGivesUp

RoutingSpec == RoutingInit /\ [][RoutingNext]_<<vars, reader, late>>

-----------------------------------------------------------------------------
(* A player is routed only to an endpoint of which some process was up, or   *)
(* had not left cleanly, when the endpoint was drawn: a server that had left *)
(* cleanly before is answered by no call, whatever registers, retries and    *)
(* cleans up beside it.  One that leaves after the draw is still answered:   *)
(* the second command does not look at the set again                         *)
(* (registry.go:150-172 against :101-127).                                   *)
RouteExplained ==
  [][\A e \in Endpoint, type \in {"known", "unknown"} : Answer(e, type) =>
       \E s \in Server : ep[s] = e /\ up[s] # "new" /\ s \notin left]_<<vars, reader>>
=============================================================================
