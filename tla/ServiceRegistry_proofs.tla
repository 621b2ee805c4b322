------------------------- MODULE ServiceRegistry_proofs -------------------------
(***************************************************************************)
(* Theorems about ServiceRegistry, for any servers, endpoints and lease    *)
(* ids and any number of faults.                                           *)
(***************************************************************************)
EXTENDS ServiceRegistry, TLAPS

OwnLease(s) == {s} \X Slot

(* A server's lease ids are its own, and it has one wherever it uses it. *)
LeaseInv ==
  \A s \in Server :
    /\ lease[s] \in OwnLease(s) \cup {NoLease}
    /\ granted[s] \in OwnLease(s) \cup {NoLease}
    /\ target[s] \in OwnLease(s) \cup {NoLease}
    /\ loop[s] \in {"addService", "addGame", "setMeta"} => granted[s] # NoLease

(* An endpoint belongs to one running process at a time. *)
EndpointInv ==
  \A s, t \in Server : up[s] = "up" /\ up[t] = "up" /\ ep[s] = ep[t] => s = t

(* What a cleanup pass knows: a lease that exists is still to be read, or    *)
(* its endpoint is among the valid ones, or it is in unseen; and the pass    *)
(* removes no endpoint it found valid.                                       *)
PassInv ==
  /\ pass # "none" => \A l \in leases \ unseen : l \in pending \/ ep[l[1]] \in valid
  /\ pass \in {"services", "games"} => pending = {}
  /\ pass \in {"none", "get"} => sweep = {}
  /\ sweep \cap valid = {}

Sure(l) == l \in leases \ unseen

(* What a registration has written so far is there as long as its lease is, *)
(* and all of it is once it has returned.                                   *)
RouteInv ==
  \A s \in Server : up[s] = "up" /\ stop[s] = "no" =>
    /\ loop[s] \in {"addGame", "setMeta"} /\ Sure(granted[s]) => ep[s] \in services
    /\ loop[s] = "setMeta" /\ Sure(granted[s]) => ep[s] \in games
    /\ Registered(s) /\ Sure(lease[s]) => ep[s] \in services /\ ep[s] \in games

Inv == TypeOK /\ LeaseInv /\ EndpointInv /\ PassInv /\ RouteInv

-----------------------------------------------------------------------------
USE NoLeaseAssumption, MaxFaultAssumption

(* The initial states satisfy the invariant. *)
LEMMA InvInit == Init => Inv
<1> SUFFICES ASSUME Init PROVE Inv
  OBVIOUS
<1>1. TypeOK
  <2>1. faults \in 0..MaxFault
    BY DEF Init
  <2>2. /\ leases \subseteq Lease /\ unseen \subseteq leases
        /\ pending \subseteq Lease /\ valid \subseteq Endpoint /\ sweep \subseteq Endpoint
        /\ services \subseteq Endpoint /\ games \subseteq Endpoint
    BY DEF Init
  <2> QED
    BY <2>1, <2>2 DEF Init, TypeOK, LoopPC, StopPC, Registered
<1>2. LeaseInv /\ EndpointInv
  BY DEF Init, LeaseInv, EndpointInv
<1>3. PassInv /\ RouteInv
  BY DEF Init, PassInv, RouteInv, Registered, Sure
<1> QED
  BY <1>1, <1>2, <1>3 DEF Inv

(* Registry.Register writes a lease that its own server may have, and that   *)
(* nothing refers to.                                                        *)
LEMMA FreshLease ==
  ASSUME NEW s \in Server, RegisterLease(s)
  PROVE  \E l \in OwnLease(s) \ InUse :
           /\ Goto(s, "setLease", "addService")
           /\ granted' = [granted EXCEPT ![s] = l]
           /\ leases' = leases \cup {l}
           /\ unseen' = IF pass = "none" THEN unseen ELSE unseen \cup {l}
           /\ UNCHANGED <<lease, services, games, meta, cleanup, faults>>
<1> DEFINE free == OwnLease(s) \ InUse
           l    == CHOOSE m \in free : TRUE
<1>1. free # {}
  BY DEF RegisterLease, OwnLease
<1>2. l \in free
  BY <1>1, Zenon
<1> QED
  BY <1>2 DEF RegisterLease, OwnLease

(* A server's lease ids are leases, and no other server's. *)
LEMMA OwnLeases ==
  ASSUME NEW s \in Server, NEW l \in OwnLease(s)
  PROVE  l \in Lease /\ l # NoLease /\ l[1] = s
  BY DEF OwnLease, Lease

(* Every step keeps the types and the ownership of leases. *)
LEMMA TypeStep == TypeOK /\ LeaseInv /\ [Next]_vars => TypeOK' /\ LeaseInv'
<1> DEFINE Goal == TypeOK' /\ LeaseInv'
<1> SUFFICES ASSUME TypeOK, LeaseInv, [Next]_vars PROVE Goal
  OBVIOUS
<1> USE OwnLeases DEF TypeOK, LeaseInv, LoopPC, StopPC, Registered, server, redis, cleanup
<1>1. ASSUME NEW s \in Server, RegisterLease(s) PROVE Goal
  <2>1. PICK l \in OwnLease(s) \ InUse :
               /\ Goto(s, "setLease", "addService")
               /\ granted' = [granted EXCEPT ![s] = l]
               /\ leases' = leases \cup {l}
               /\ unseen' = IF pass = "none" THEN unseen ELSE unseen \cup {l}
               /\ UNCHANGED <<lease, services, games, meta, cleanup, faults>>
    BY <1>1, FreshLease
  <2> QED
    BY <2>1 DEF Goto
<1>2. ASSUME NEW s \in Server, Start(s) PROVE Goal
  BY <1>2 DEF Start
<1>3. ASSUME NEW s \in Server, RegisterService(s) PROVE Goal
  BY <1>3 DEF RegisterService, Goto
<1>4. ASSUME NEW s \in Server, RegisterGame(s) PROVE Goal
  BY <1>4 DEF RegisterGame, Goto
<1>5. ASSUME NEW s \in Server, RegisterMeta(s) PROVE Goal
  <2> USE <1>5 DEF RegisterMeta, Goto
  <2>1. faults' \in 0..MaxFault
    BY DEF Fault
  <2>2. granted[s] \in OwnLease(s) /\ granted[s] \in Lease
    OBVIOUS
  <2>3. \A t \in Server : Registered(t)' => lease'[t] # NoLease
    BY <2>2
  <2>4. TypeOK'
    BY <2>1, <2>2, <2>3
  <2>5. LeaseInv'
    BY <2>2
  <2> QED
    BY <2>4, <2>5
<1>6. ASSUME NEW s \in Server, Beat(s) PROVE Goal
  BY <1>6 DEF Beat, Goto
<1>7. ASSUME NEW s \in Server, HeartbeatExists(s) PROVE Goal
  BY <1>7 DEF HeartbeatExists, Goto
<1>8. ASSUME NEW s \in Server, HeartbeatExpire(s) PROVE Goal
  BY <1>8 DEF HeartbeatExpire, Goto
<1>9. ASSUME NEW s \in Server, LoopStop(s) PROVE Goal
  BY <1>9 DEF LoopStop, Goto
<1>10. ASSUME NEW s \in Server, Stop(s) PROVE Goal
  BY <1>10 DEF Stop, StopGoto
<1>11. ASSUME NEW s \in Server, DeregisterCall(s) PROVE Goal
  BY <1>11 DEF DeregisterCall, StopGoto
<1>12. ASSUME NEW s \in Server, DeregisterGet(s) PROVE Goal
  BY <1>12 DEF DeregisterGet, StopGoto, Fault
<1>13. ASSUME NEW s \in Server, DeregisterDel(s) PROVE Goal
  BY <1>13 DEF DeregisterDel, StopGoto, Drop, Fault
<1>14. ASSUME NEW s \in Server, DeregisterService(s) PROVE Goal
  BY <1>14 DEF DeregisterService, StopGoto, Fault
<1>15. ASSUME NEW s \in Server, DeregisterGame(s) PROVE Goal
  BY <1>15 DEF DeregisterGame, StopGoto, Fault
<1>16. ASSUME NEW s \in Server, Exit(s) PROVE Goal
  BY <1>16 DEF Exit, End
<1>17. ASSUME NEW s \in Server, Crash(s) PROVE Goal
  BY <1>17 DEF Crash, End
<1>18. ASSUME NEW s \in Server, RegisterFail(s) PROVE Goal
  BY <1>18 DEF RegisterFail, Goto, Fault
<1>19. ASSUME NEW s \in Server, HeartbeatFail(s) PROVE Goal
  BY <1>19 DEF HeartbeatFail, Goto, Fault
<1>20. ASSUME NEW l \in Lease, CleanupGet(l) PROVE Goal
  <2>1. l[1] \in Server
    BY DEF Lease
  <2> QED
    BY <1>20, <2>1 DEF CleanupGet
<1>21. ASSUME NEW l \in Lease, LeaseEnds(l) PROVE Goal
  BY <1>21 DEF LeaseEnds, Drop, Fault, Renewed
<1>22. ASSUME NEW l \in Lease, CleanupGetFail(l) PROVE Goal
  BY <1>22 DEF CleanupGetFail, Fault
<1>23. ASSUME NEW e \in Endpoint, CleanupRemove(e) PROVE Goal
  BY <1>23 DEF CleanupRemove
<1>24. CASE CleanupBegin
  BY <1>24 DEF CleanupBegin
<1>25. CASE CleanupServices
  BY <1>25 DEF CleanupServices
<1>26. CASE CleanupGames
  BY <1>26 DEF CleanupGames
<1>27. CASE CleanupEnd
  BY <1>27 DEF CleanupEnd
<1>28. CASE CleanupSkip
  BY <1>28 DEF CleanupSkip, Fault
<1>29. CASE CentralCrash
  BY <1>29 DEF CentralCrash, Fault
<1>30. CASE UNCHANGED vars
  BY <1>30 DEF vars
<1> QED
  BY <1>1, <1>2, <1>3, <1>4, <1>5, <1>6, <1>7, <1>8, <1>9, <1>10, <1>11,
     <1>12, <1>13, <1>14, <1>15, <1>16, <1>17, <1>18, <1>19, <1>20, <1>21,
     <1>22, <1>23, <1>24, <1>25, <1>26, <1>27, <1>28, <1>29, <1>30
  DEF Next, Working, Registrar, Stopping, Cleaning

(* An endpoint is taken only when no running process has it. *)
LEMMA EndpointStep == TypeOK /\ EndpointInv /\ [Next]_vars => EndpointInv'
<1> SUFFICES ASSUME TypeOK, EndpointInv, [Next]_vars PROVE EndpointInv'
  OBVIOUS
<1> USE DEF TypeOK, EndpointInv, server, redis, cleanup
<1>1. ASSUME NEW s \in Server, RegisterLease(s) PROVE EndpointInv'
  BY <1>1 DEF RegisterLease, Goto
<1>2. ASSUME NEW s \in Server, Start(s) PROVE EndpointInv'
  BY <1>2 DEF Start
<1>3. ASSUME NEW s \in Server, RegisterService(s) PROVE EndpointInv'
  BY <1>3 DEF RegisterService, Goto
<1>4. ASSUME NEW s \in Server, RegisterGame(s) PROVE EndpointInv'
  BY <1>4 DEF RegisterGame, Goto
<1>5. ASSUME NEW s \in Server, RegisterMeta(s) PROVE EndpointInv'
  BY <1>5 DEF RegisterMeta, Goto, Fault
<1>6. ASSUME NEW s \in Server, Beat(s) PROVE EndpointInv'
  BY <1>6 DEF Beat, Goto
<1>7. ASSUME NEW s \in Server, HeartbeatExists(s) PROVE EndpointInv'
  BY <1>7 DEF HeartbeatExists, Goto
<1>8. ASSUME NEW s \in Server, HeartbeatExpire(s) PROVE EndpointInv'
  BY <1>8 DEF HeartbeatExpire, Goto
<1>9. ASSUME NEW s \in Server, LoopStop(s) PROVE EndpointInv'
  BY <1>9 DEF LoopStop, Goto
<1>10. ASSUME NEW s \in Server, Stop(s) PROVE EndpointInv'
  BY <1>10 DEF Stop, StopGoto
<1>11. ASSUME NEW s \in Server, DeregisterCall(s) PROVE EndpointInv'
  BY <1>11 DEF DeregisterCall, StopGoto
<1>12. ASSUME NEW s \in Server, DeregisterGet(s) PROVE EndpointInv'
  BY <1>12 DEF DeregisterGet, StopGoto, Fault
<1>13. ASSUME NEW s \in Server, DeregisterDel(s) PROVE EndpointInv'
  BY <1>13 DEF DeregisterDel, StopGoto, Drop, Fault
<1>14. ASSUME NEW s \in Server, DeregisterService(s) PROVE EndpointInv'
  BY <1>14 DEF DeregisterService, StopGoto, Fault
<1>15. ASSUME NEW s \in Server, DeregisterGame(s) PROVE EndpointInv'
  BY <1>15 DEF DeregisterGame, StopGoto, Fault
<1>16. ASSUME NEW s \in Server, Exit(s) PROVE EndpointInv'
  BY <1>16 DEF Exit, End
<1>17. ASSUME NEW s \in Server, Crash(s) PROVE EndpointInv'
  BY <1>17 DEF Crash, End
<1>18. ASSUME NEW s \in Server, RegisterFail(s) PROVE EndpointInv'
  BY <1>18 DEF RegisterFail, Goto, Fault
<1>19. ASSUME NEW s \in Server, HeartbeatFail(s) PROVE EndpointInv'
  BY <1>19 DEF HeartbeatFail, Goto, Fault
<1>20. ASSUME NEW l \in Lease, CleanupGet(l) PROVE EndpointInv'
  BY <1>20 DEF CleanupGet
<1>21. ASSUME NEW l \in Lease, LeaseEnds(l) PROVE EndpointInv'
  BY <1>21 DEF LeaseEnds, Drop, Fault, Renewed
<1>22. ASSUME NEW l \in Lease, CleanupGetFail(l) PROVE EndpointInv'
  BY <1>22 DEF CleanupGetFail, Fault
<1>23. ASSUME NEW e \in Endpoint, CleanupRemove(e) PROVE EndpointInv'
  BY <1>23 DEF CleanupRemove
<1>24. CASE CleanupBegin
  BY <1>24 DEF CleanupBegin
<1>25. CASE CleanupServices
  BY <1>25 DEF CleanupServices
<1>26. CASE CleanupGames
  BY <1>26 DEF CleanupGames
<1>27. CASE CleanupEnd
  BY <1>27 DEF CleanupEnd
<1>28. CASE CleanupSkip
  BY <1>28 DEF CleanupSkip, Fault
<1>29. CASE CentralCrash
  BY <1>29 DEF CentralCrash, Fault
<1>30. CASE UNCHANGED vars
  BY <1>30 DEF vars
<1> QED
  BY <1>1, <1>2, <1>3, <1>4, <1>5, <1>6, <1>7, <1>8, <1>9, <1>10, <1>11,
     <1>12, <1>13, <1>14, <1>15, <1>16, <1>17, <1>18, <1>19, <1>20, <1>21,
     <1>22, <1>23, <1>24, <1>25, <1>26, <1>27, <1>28, <1>29, <1>30
  DEF Next, Working, Registrar, Stopping, Cleaning

(* A pass misses only leases that are in unseen. *)
LEMMA PassStep == TypeOK /\ LeaseInv /\ PassInv /\ [Next]_vars => PassInv'
<1> SUFFICES ASSUME TypeOK, LeaseInv, PassInv, [Next]_vars PROVE PassInv'
  OBVIOUS
<1> USE DEF TypeOK, LeaseInv, PassInv, server, redis, cleanup
<1>1. ASSUME NEW s \in Server, RegisterLease(s) PROVE PassInv'
  <2>1. PICK l \in OwnLease(s) \ InUse :
               /\ Goto(s, "setLease", "addService")
               /\ granted' = [granted EXCEPT ![s] = l]
               /\ leases' = leases \cup {l}
               /\ unseen' = IF pass = "none" THEN unseen ELSE unseen \cup {l}
               /\ UNCHANGED <<lease, services, games, meta, cleanup, faults>>
    BY <1>1, FreshLease
  <2> QED
    BY <2>1 DEF Goto
<1>2. ASSUME NEW s \in Server, Start(s) PROVE PassInv'
  BY <1>2 DEF Start
<1>3. ASSUME NEW s \in Server, RegisterService(s) PROVE PassInv'
  BY <1>3 DEF RegisterService, Goto
<1>4. ASSUME NEW s \in Server, RegisterGame(s) PROVE PassInv'
  BY <1>4 DEF RegisterGame, Goto
<1>5. ASSUME NEW s \in Server, RegisterMeta(s) PROVE PassInv'
  BY <1>5 DEF RegisterMeta, Goto, Fault
<1>6. ASSUME NEW s \in Server, Beat(s) PROVE PassInv'
  BY <1>6 DEF Beat, Goto
<1>7. ASSUME NEW s \in Server, HeartbeatExists(s) PROVE PassInv'
  BY <1>7 DEF HeartbeatExists, Goto
<1>8. ASSUME NEW s \in Server, HeartbeatExpire(s) PROVE PassInv'
  BY <1>8 DEF HeartbeatExpire, Goto
<1>9. ASSUME NEW s \in Server, LoopStop(s) PROVE PassInv'
  BY <1>9 DEF LoopStop, Goto
<1>10. ASSUME NEW s \in Server, Stop(s) PROVE PassInv'
  BY <1>10 DEF Stop, StopGoto
<1>11. ASSUME NEW s \in Server, DeregisterCall(s) PROVE PassInv'
  BY <1>11 DEF DeregisterCall, StopGoto
<1>12. ASSUME NEW s \in Server, DeregisterGet(s) PROVE PassInv'
  BY <1>12 DEF DeregisterGet, StopGoto, Fault
<1>13. ASSUME NEW s \in Server, DeregisterDel(s) PROVE PassInv'
  BY <1>13 DEF DeregisterDel, StopGoto, Drop, Fault
<1>14. ASSUME NEW s \in Server, DeregisterService(s) PROVE PassInv'
  BY <1>14 DEF DeregisterService, StopGoto, Fault
<1>15. ASSUME NEW s \in Server, DeregisterGame(s) PROVE PassInv'
  BY <1>15 DEF DeregisterGame, StopGoto, Fault
<1>16. ASSUME NEW s \in Server, Exit(s) PROVE PassInv'
  BY <1>16 DEF Exit, End
<1>17. ASSUME NEW s \in Server, Crash(s) PROVE PassInv'
  BY <1>17 DEF Crash, End
<1>18. ASSUME NEW s \in Server, RegisterFail(s) PROVE PassInv'
  BY <1>18 DEF RegisterFail, Goto, Fault
<1>19. ASSUME NEW s \in Server, HeartbeatFail(s) PROVE PassInv'
  BY <1>19 DEF HeartbeatFail, Goto, Fault
<1>20. ASSUME NEW l \in Lease, CleanupGet(l) PROVE PassInv'
  BY <1>20 DEF CleanupGet
<1>21. ASSUME NEW l \in Lease, LeaseEnds(l) PROVE PassInv'
  BY <1>21 DEF LeaseEnds, Drop, Fault, Renewed
<1>22. ASSUME NEW l \in Lease, CleanupGetFail(l) PROVE PassInv'
  BY <1>22 DEF CleanupGetFail, Fault
<1>23. ASSUME NEW e \in Endpoint, CleanupRemove(e) PROVE PassInv'
  BY <1>23 DEF CleanupRemove
<1>24. CASE CleanupBegin
  BY <1>24 DEF CleanupBegin
<1>25. CASE CleanupServices
  BY <1>25 DEF CleanupServices
<1>26. CASE CleanupGames
  BY <1>26 DEF CleanupGames
<1>27. CASE CleanupEnd
  BY <1>27 DEF CleanupEnd
<1>28. CASE CleanupSkip
  BY <1>28 DEF CleanupSkip, Fault
<1>29. CASE CentralCrash
  BY <1>29 DEF CentralCrash, Fault
<1>30. CASE UNCHANGED vars
  BY <1>30 DEF vars
<1> QED
  BY <1>1, <1>2, <1>3, <1>4, <1>5, <1>6, <1>7, <1>8, <1>9, <1>10, <1>11,
     <1>12, <1>13, <1>14, <1>15, <1>16, <1>17, <1>18, <1>19, <1>20, <1>21,
     <1>22, <1>23, <1>24, <1>25, <1>26, <1>27, <1>28, <1>29, <1>30
  DEF Next, Working, Registrar, Stopping, Cleaning

(* Only a server itself, once it stops, and a pass that did not see its      *)
(* lease take its endpoint out of the sets.                                  *)
LEMMA RouteStep == Inv /\ [Next]_vars => RouteInv'
<1> SUFFICES ASSUME Inv, [Next]_vars PROVE RouteInv'
  OBVIOUS
<1> USE OwnLeases DEF Inv, TypeOK, LeaseInv, RouteInv, Registered, Sure, server, redis, cleanup
<1>1. ASSUME NEW s \in Server, RegisterLease(s) PROVE RouteInv'
  <2>1. PICK l \in OwnLease(s) \ InUse :
               /\ Goto(s, "setLease", "addService")
               /\ granted' = [granted EXCEPT ![s] = l]
               /\ leases' = leases \cup {l}
               /\ unseen' = IF pass = "none" THEN unseen ELSE unseen \cup {l}
               /\ UNCHANGED <<lease, services, games, meta, cleanup, faults>>
    BY <1>1, FreshLease
  <2>2. \A t \in Server : l # lease[t] /\ l # granted[t]
    BY <2>1 DEF InUse
  <2> QED
    BY <2>1, <2>2 DEF Goto
<1>2. ASSUME NEW s \in Server, Start(s) PROVE RouteInv'
  BY <1>2 DEF Start
<1>3. ASSUME NEW s \in Server, RegisterService(s) PROVE RouteInv'
  BY <1>3 DEF RegisterService, Goto
<1>4. ASSUME NEW s \in Server, RegisterGame(s) PROVE RouteInv'
  BY <1>4 DEF RegisterGame, Goto
<1>5. ASSUME NEW s \in Server, RegisterMeta(s) PROVE RouteInv'
  BY <1>5 DEF RegisterMeta, Goto, Fault
<1>6. ASSUME NEW s \in Server, Beat(s) PROVE RouteInv'
  BY <1>6 DEF Beat, Goto
<1>7. ASSUME NEW s \in Server, HeartbeatExists(s) PROVE RouteInv'
  BY <1>7 DEF HeartbeatExists, Goto
<1>8. ASSUME NEW s \in Server, HeartbeatExpire(s) PROVE RouteInv'
  BY <1>8 DEF HeartbeatExpire, Goto
<1>9. ASSUME NEW s \in Server, LoopStop(s) PROVE RouteInv'
  BY <1>9 DEF LoopStop, Goto
<1>10. ASSUME NEW s \in Server, Stop(s) PROVE RouteInv'
  BY <1>10 DEF Stop, StopGoto
<1>11. ASSUME NEW s \in Server, DeregisterCall(s) PROVE RouteInv'
  BY <1>11 DEF DeregisterCall, StopGoto
<1>12. ASSUME NEW s \in Server, DeregisterGet(s) PROVE RouteInv'
  BY <1>12 DEF DeregisterGet, StopGoto, Fault
<1>13. ASSUME NEW s \in Server, DeregisterDel(s) PROVE RouteInv'
  BY <1>13 DEF DeregisterDel, StopGoto, Drop, Fault
<1>14. ASSUME NEW s \in Server, DeregisterService(s) PROVE RouteInv'
  BY <1>14 DEF DeregisterService, StopGoto, Fault, EndpointInv
<1>15. ASSUME NEW s \in Server, DeregisterGame(s) PROVE RouteInv'
  BY <1>15 DEF DeregisterGame, StopGoto, Fault, EndpointInv
<1>16. ASSUME NEW s \in Server, Exit(s) PROVE RouteInv'
  BY <1>16 DEF Exit, End
<1>17. ASSUME NEW s \in Server, Crash(s) PROVE RouteInv'
  BY <1>17 DEF Crash, End
<1>18. ASSUME NEW s \in Server, RegisterFail(s) PROVE RouteInv'
  BY <1>18 DEF RegisterFail, Goto, Fault
<1>19. ASSUME NEW s \in Server, HeartbeatFail(s) PROVE RouteInv'
  BY <1>19 DEF HeartbeatFail, Goto, Fault
<1>20. ASSUME NEW l \in Lease, CleanupGet(l) PROVE RouteInv'
  BY <1>20 DEF CleanupGet
<1>21. ASSUME NEW l \in Lease, LeaseEnds(l) PROVE RouteInv'
  BY <1>21 DEF LeaseEnds, Drop, Fault, Renewed
<1>22. ASSUME NEW l \in Lease, CleanupGetFail(l) PROVE RouteInv'
  BY <1>22 DEF CleanupGetFail, Fault
<1>23. ASSUME NEW e \in Endpoint, CleanupRemove(e) PROVE RouteInv'
  <2>1. e \notin valid /\ pass \in {"services", "games"} /\ pending = {}
    BY <1>23 DEF CleanupRemove, PassInv
  <2>2. \A t \in Server : \A m \in OwnLease(t) : Sure(m) => ep[t] # e
    BY <2>1 DEF PassInv
  <2>3. \A t \in Server : (Sure(lease[t]) \/ Sure(granted[t])) => ep[t] # e
    BY <2>2
  <2> QED
    BY <1>23, <2>3 DEF CleanupRemove
<1>24. CASE CleanupBegin
  BY <1>24 DEF CleanupBegin
<1>25. CASE CleanupServices
  BY <1>25 DEF CleanupServices
<1>26. CASE CleanupGames
  BY <1>26 DEF CleanupGames
<1>27. CASE CleanupEnd
  BY <1>27 DEF CleanupEnd
<1>28. CASE CleanupSkip
  BY <1>28 DEF CleanupSkip, Fault
<1>29. CASE CentralCrash
  BY <1>29 DEF CentralCrash, Fault
<1>30. CASE UNCHANGED vars
  BY <1>30 DEF vars
<1> QED
  BY <1>1, <1>2, <1>3, <1>4, <1>5, <1>6, <1>7, <1>8, <1>9, <1>10, <1>11,
     <1>12, <1>13, <1>14, <1>15, <1>16, <1>17, <1>18, <1>19, <1>20, <1>21,
     <1>22, <1>23, <1>24, <1>25, <1>26, <1>27, <1>28, <1>29, <1>30
  DEF Next, Working, Registrar, Stopping, Cleaning

(* Every step keeps all parts of the invariant, each by its own lemma. *)
LEMMA InvStep == Inv /\ [Next]_vars => Inv'
  BY TypeStep, EndpointStep, PassStep, RouteStep DEF Inv

(* The invariant holds throughout. *)
LEMMA Invariant == Spec => []Inv
  BY InvInit, InvStep, PTL DEF Spec

(* Every variable of the registry and of the registrars keeps its type; a    *)
(* registrar that counts as registered has a lease id to renew.              *)
THEOREM TypeCorrect == Spec => []TypeOK
<1>1. Inv => TypeOK
  BY DEF Inv
<1> QED
  BY <1>1, Invariant, PTL

(* A registered server is found by type and by game for as long as it keeps  *)
(* its lease, unless a cleanup pass could not see that lease                 *)
(* (registry.go:178-190).                                                    *)
THEOREM LiveStaysRoutable == Spec => []EstablishedRoutable
<1>1. Inv => EstablishedRoutable
  BY DEF Inv, RouteInv, EstablishedRoutable, Sure
<1> QED
  BY <1>1, Invariant, PTL

(* Nothing brings a lease back that has run out under its holder: heartbeats *)
(* do not write it, and a new registration takes another id                  *)
(* (registry.go:88-99).                                                      *)
LEMMA RevivalStep ==
  ASSUME Inv, [Next]_vars, NEW s \in Server, lease[s] \notin leases, lease'[s] = lease[s]
  PROVE  lease[s] \notin leases'
<1> USE DEF server, redis, cleanup
<1>1. ASSUME NEW t \in Server, RegisterLease(t) PROVE lease[s] \notin leases'
  <2>1. PICK l \in OwnLease(t) \ InUse : leases' = leases \cup {l}
    BY <1>1, FreshLease
  <2>2. l # lease[s]
    BY <2>1 DEF InUse
  <2> QED
    BY <2>1, <2>2
<1>2. ASSUME NEW t \in Server, Start(t) PROVE lease[s] \notin leases'
  BY <1>2 DEF Start
<1>3. ASSUME NEW t \in Server, RegisterService(t) PROVE lease[s] \notin leases'
  BY <1>3 DEF RegisterService, Goto
<1>4. ASSUME NEW t \in Server, RegisterGame(t) PROVE lease[s] \notin leases'
  BY <1>4 DEF RegisterGame, Goto
<1>5. ASSUME NEW t \in Server, RegisterMeta(t) PROVE lease[s] \notin leases'
  BY <1>5 DEF RegisterMeta, Goto, Fault
<1>6. ASSUME NEW t \in Server, Beat(t) PROVE lease[s] \notin leases'
  BY <1>6 DEF Beat, Goto
<1>7. ASSUME NEW t \in Server, HeartbeatExists(t) PROVE lease[s] \notin leases'
  BY <1>7 DEF HeartbeatExists, Goto
<1>8. ASSUME NEW t \in Server, HeartbeatExpire(t) PROVE lease[s] \notin leases'
  BY <1>8 DEF HeartbeatExpire, Goto
<1>9. ASSUME NEW t \in Server, LoopStop(t) PROVE lease[s] \notin leases'
  BY <1>9 DEF LoopStop, Goto
<1>10. ASSUME NEW t \in Server, Stop(t) PROVE lease[s] \notin leases'
  BY <1>10 DEF Stop, StopGoto
<1>11. ASSUME NEW t \in Server, DeregisterCall(t) PROVE lease[s] \notin leases'
  BY <1>11 DEF DeregisterCall, StopGoto
<1>12. ASSUME NEW t \in Server, DeregisterGet(t) PROVE lease[s] \notin leases'
  BY <1>12 DEF DeregisterGet, StopGoto, Fault
<1>13. ASSUME NEW t \in Server, DeregisterDel(t) PROVE lease[s] \notin leases'
  BY <1>13 DEF DeregisterDel, StopGoto, Drop, Fault
<1>14. ASSUME NEW t \in Server, DeregisterService(t) PROVE lease[s] \notin leases'
  BY <1>14 DEF DeregisterService, StopGoto, Fault
<1>15. ASSUME NEW t \in Server, DeregisterGame(t) PROVE lease[s] \notin leases'
  BY <1>15 DEF DeregisterGame, StopGoto, Fault
<1>16. ASSUME NEW t \in Server, Exit(t) PROVE lease[s] \notin leases'
  BY <1>16 DEF Exit, End
<1>17. ASSUME NEW t \in Server, Crash(t) PROVE lease[s] \notin leases'
  BY <1>17 DEF Crash, End
<1>18. ASSUME NEW t \in Server, RegisterFail(t) PROVE lease[s] \notin leases'
  BY <1>18 DEF RegisterFail, Goto, Fault
<1>19. ASSUME NEW t \in Server, HeartbeatFail(t) PROVE lease[s] \notin leases'
  BY <1>19 DEF HeartbeatFail, Goto, Fault
<1>20. ASSUME NEW l \in Lease, CleanupGet(l) PROVE lease[s] \notin leases'
  BY <1>20 DEF CleanupGet
<1>21. ASSUME NEW l \in Lease, LeaseEnds(l) PROVE lease[s] \notin leases'
  BY <1>21 DEF LeaseEnds, Drop, Fault, Renewed
<1>22. ASSUME NEW l \in Lease, CleanupGetFail(l) PROVE lease[s] \notin leases'
  BY <1>22 DEF CleanupGetFail, Fault
<1>23. ASSUME NEW e \in Endpoint, CleanupRemove(e) PROVE lease[s] \notin leases'
  BY <1>23 DEF CleanupRemove
<1>24. CASE CleanupBegin
  BY <1>24 DEF CleanupBegin
<1>25. CASE CleanupServices
  BY <1>25 DEF CleanupServices
<1>26. CASE CleanupGames
  BY <1>26 DEF CleanupGames
<1>27. CASE CleanupEnd
  BY <1>27 DEF CleanupEnd
<1>28. CASE CleanupSkip
  BY <1>28 DEF CleanupSkip, Fault
<1>29. CASE CentralCrash
  BY <1>29 DEF CentralCrash, Fault
<1>30. CASE UNCHANGED vars
  BY <1>30 DEF vars
<1> QED
  BY <1>1, <1>2, <1>3, <1>4, <1>5, <1>6, <1>7, <1>8, <1>9, <1>10, <1>11,
     <1>12, <1>13, <1>14, <1>15, <1>16, <1>17, <1>18, <1>19, <1>20, <1>21,
     <1>22, <1>23, <1>24, <1>25, <1>26, <1>27, <1>28, <1>29, <1>30
  DEF Next, Working, Registrar, Stopping, Cleaning

(* A lease that has expired is never renewed under the id of the server that *)
(* lost it: a heartbeat extends a lease that is there or finds it gone, and   *)
(* only a new Register makes one (registry.go Heartbeat).                     *)
THEOREM LostLeaseStaysLost == Spec => NoRevival
<1> DEFINE Step == \A s \in Server : lease[s] \notin leases /\ lease'[s] = lease[s]
                                       => lease[s] \notin leases'
<1>1. Inv /\ [Next]_vars => [Step]_vars
  BY RevivalStep
<1>2. Spec => [][Step]_vars
  BY <1>1, Invariant, PTL DEF Spec
<1> QED
  BY <1>2 DEF NoRevival
=============================================================================
