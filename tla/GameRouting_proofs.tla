--------------------------- MODULE GameRouting_proofs ---------------------------
(***************************************************************************)
(* Theorems about GameRouting, for any servers, endpoints and lease ids    *)
(* and any number of faults: it is ServiceRegistry with a reader, so that  *)
(* everything proved there holds here, and what the reader may be told.    *)
(***************************************************************************)
EXTENDS GameRouting, ServiceRegistry_proofs

(* A running registrar has been started, and ends only after it has         *)
(* registered; one that registers after Stop was called is in late.         *)
LoopInv ==
  \A s \in Server :
    /\ up[s] = "up" => loop[s] # "off" /\ (loop[s] = "ended" => lease[s] # NoLease)
    /\ stop[s] # "no" /\ Registering(s) => s \in late
    /\ s \in late => stop[s] # "no"
    /\ up[s] = "new" => lease[s] = NoLease /\ stop[s] = "no"

(* Without a fault a server that is not late keeps its lease until it        *)
(* deletes it, deregisters that lease, and has left its game by the end.     *)
Leaving(s) ==
  /\ stop[s] \in {"no", "closed", "get", "del"} /\ lease[s] # NoLease => lease[s] \in leases
  /\ stop[s] # "no" => lease[s] # NoLease
  /\ stop[s] \in {"get", "del"} => target[s] = lease[s]
  /\ stop[s] = "no" /\ loop[s] \in {"addService", "addGame", "setMeta"} => granted[s] \in leases
  /\ stop[s] = "done" => ep[s] \notin games

LeavingInv == faults = 0 => \A s \in Server : up[s] = "up" /\ s \notin late => Leaving(s)

(* Whoever put an endpoint into the game's set has not left cleanly. *)
Explains(s, e) == ep[s] = e /\ up[s] # "new" /\ ~LeftCleanly(s)
GamesInv == \A e \in games : \E s \in Server : Explains(s, e)

(* What explained the endpoint when it was drawn still does: processes keep  *)
(* their endpoint and never become new again.                                *)
DrawnInv == \A e \in drawn : \E s \in Server : ep[s] = e /\ up[s] # "new" /\ s \notin left

RInv == RoutingTypeOK /\ Inv /\ LoopInv /\ LeavingInv /\ GamesInv /\ DrawnInv

-----------------------------------------------------------------------------
(* What the reader does leaves the registry alone. *)
LEMMA ReaderStep ==
  ASSUME [RoutingNext]_<<vars, reader, late>>
  PROVE  \/ Next /\ Observe
         \/ UNCHANGED <<vars, late>>
  BY DEF RoutingNext, Draw, Answer, CallerGivesUp, Next

(* GameRouting implements ServiceRegistry. *)
THEOREM RoutingKeepsRegistry == RoutingSpec => Spec
<1>1. RoutingInit => Init
  BY DEF RoutingInit
<1>2. [RoutingNext]_<<vars, reader, late>> => [Next]_vars
  BY ReaderStep
<1> QED
  BY <1>1, <1>2, PTL DEF RoutingSpec, Spec

(* Nothing is read yet and every set is empty: the invariant holds at first. *)
LEMMA RInvInit == RoutingInit => RInv
<1> SUFFICES ASSUME RoutingInit PROVE RInv
  OBVIOUS
<1>1. Inv
  BY InvInit DEF RoutingInit
<1>2. RoutingTypeOK
  BY <1>1 DEF RoutingInit, RoutingTypeOK, Inv
<1>3. LoopInv /\ LeavingInv /\ GamesInv /\ DrawnInv
  BY DEF RoutingInit, Init, LoopInv, LeavingInv, GamesInv, DrawnInv
<1> QED
  BY <1>1, <1>2, <1>3 DEF RInv

(* Where a registrar may be, and that late has all who register late. *)
LEMMA LoopStep == TypeOK /\ LoopInv /\ Next /\ Observe => LoopInv'
<1> SUFFICES ASSUME TypeOK /\ LoopInv, Next, Observe PROVE LoopInv'
  OBVIOUS
<1> USE DEF TypeOK, LoopInv, Observe, Registering, Registered, server, redis, cleanup
<1>1. ASSUME NEW s \in Server, RegisterLease(s) PROVE LoopInv'
  <2>1. PICK l \in OwnLease(s) \ InUse :
               /\ Goto(s, "setLease", "addService")
               /\ granted' = [granted EXCEPT ![s] = l]
               /\ leases' = leases \cup {l}
               /\ UNCHANGED <<lease, services, games, meta, cleanup, faults>>
    BY <1>1, FreshLease
  <2> QED
    BY <2>1 DEF Goto
<1>2. ASSUME NEW s \in Server, Start(s) PROVE LoopInv'
  BY <1>2 DEF Start
<1>3. ASSUME NEW s \in Server, RegisterService(s) PROVE LoopInv'
  BY <1>3 DEF RegisterService, Goto
<1>4. ASSUME NEW s \in Server, RegisterGame(s) PROVE LoopInv'
  BY <1>4 DEF RegisterGame, Goto
<1>5. ASSUME NEW s \in Server, RegisterMeta(s) PROVE LoopInv'
  BY <1>5 DEF RegisterMeta, Goto, Fault
<1>6. ASSUME NEW s \in Server, Beat(s) PROVE LoopInv'
  BY <1>6 DEF Beat, Goto
<1>7. ASSUME NEW s \in Server, HeartbeatExists(s) PROVE LoopInv'
  BY <1>7 DEF HeartbeatExists, Goto
<1>8. ASSUME NEW s \in Server, HeartbeatExpire(s) PROVE LoopInv'
  BY <1>8 DEF HeartbeatExpire, Goto
<1>9. ASSUME NEW s \in Server, LoopStop(s) PROVE LoopInv'
  BY <1>9 DEF LoopStop, Goto
<1>10. ASSUME NEW s \in Server, Stop(s) PROVE LoopInv'
  BY <1>10 DEF Stop, StopGoto
<1>11. ASSUME NEW s \in Server, DeregisterCall(s) PROVE LoopInv'
  BY <1>11 DEF DeregisterCall, StopGoto
<1>12. ASSUME NEW s \in Server, DeregisterGet(s) PROVE LoopInv'
  BY <1>12 DEF DeregisterGet, StopGoto, Fault
<1>13. ASSUME NEW s \in Server, DeregisterDel(s) PROVE LoopInv'
  BY <1>13 DEF DeregisterDel, StopGoto, Drop, Fault
<1>14. ASSUME NEW s \in Server, DeregisterService(s) PROVE LoopInv'
  BY <1>14 DEF DeregisterService, StopGoto, Fault
<1>15. ASSUME NEW s \in Server, DeregisterGame(s) PROVE LoopInv'
  BY <1>15 DEF DeregisterGame, StopGoto, Fault
<1>16. ASSUME NEW s \in Server, Exit(s) PROVE LoopInv'
  BY <1>16 DEF Exit, End
<1>17. ASSUME NEW s \in Server, Crash(s) PROVE LoopInv'
  BY <1>17 DEF Crash, End
<1>18. ASSUME NEW s \in Server, RegisterFail(s) PROVE LoopInv'
  BY <1>18 DEF RegisterFail, Goto, Fault
<1>19. ASSUME NEW s \in Server, HeartbeatFail(s) PROVE LoopInv'
  BY <1>19 DEF HeartbeatFail, Goto, Fault
<1>20. ASSUME NEW l \in Lease, CleanupGet(l) PROVE LoopInv'
  BY <1>20 DEF CleanupGet
<1>21. ASSUME NEW l \in Lease, LeaseEnds(l) PROVE LoopInv'
  BY <1>21 DEF LeaseEnds, Drop, Fault, Renewed
<1>22. ASSUME NEW l \in Lease, CleanupGetFail(l) PROVE LoopInv'
  BY <1>22 DEF CleanupGetFail, Fault
<1>23. ASSUME NEW e \in Endpoint, CleanupRemove(e) PROVE LoopInv'
  BY <1>23 DEF CleanupRemove
<1>24. CASE CleanupBegin
  BY <1>24 DEF CleanupBegin
<1>25. CASE CleanupServices
  BY <1>25 DEF CleanupServices
<1>26. CASE CleanupGames
  BY <1>26 DEF CleanupGames
<1>27. CASE CleanupEnd
  BY <1>27 DEF CleanupEnd
<1>28. CASE CleanupSkip
  BY <1>28 DEF CleanupSkip, Fault
<1>29. CASE CentralCrash
  BY <1>29 DEF CentralCrash, Fault
<1> QED
  BY <1>1, <1>2, <1>3, <1>4, <1>5, <1>6, <1>7, <1>8, <1>9, <1>10, <1>11,
     <1>12, <1>13, <1>14, <1>15, <1>16, <1>17, <1>18, <1>19, <1>20, <1>21,
     <1>22, <1>23, <1>24, <1>25, <1>26, <1>27, <1>28, <1>29
  DEF Next, Working, Registrar, Stopping, Cleaning

(* Leases of running servers go only by their own hand or by a fault, and a  *)
(* game's set gets a running server's endpoint only from that server.        *)
LEMMA LeavingStep == RInv /\ Next /\ Observe => LeavingInv'
<1> SUFFICES ASSUME RInv, Next, Observe PROVE LeavingInv'
  OBVIOUS
<1> USE DEF RInv, Inv, TypeOK, LeaseInv, EndpointInv, LoopInv, LeavingInv, Leaving, Observe, Registering, Registered, server, redis, cleanup
<1>1. ASSUME NEW s \in Server, RegisterLease(s) PROVE LeavingInv'
  <2>1. PICK l \in OwnLease(s) \ InUse :
               /\ Goto(s, "setLease", "addService")
               /\ granted' = [granted EXCEPT ![s] = l]
               /\ leases' = leases \cup {l}
               /\ UNCHANGED <<lease, services, games, meta, cleanup, faults>>
    BY <1>1, FreshLease
  <2> QED
    BY <2>1 DEF Goto
<1>2. ASSUME NEW s \in Server, Start(s) PROVE LeavingInv'
  BY <1>2 DEF Start
<1>3. ASSUME NEW s \in Server, RegisterService(s) PROVE LeavingInv'
  BY <1>3 DEF RegisterService, Goto
<1>4. ASSUME NEW s \in Server, RegisterGame(s) PROVE LeavingInv'
  BY <1>4 DEF RegisterGame, Goto
<1>5. ASSUME NEW s \in Server, RegisterMeta(s) PROVE LeavingInv'
  BY <1>5 DEF RegisterMeta, Goto, Fault
<1>6. ASSUME NEW s \in Server, Beat(s) PROVE LeavingInv'
  BY <1>6 DEF Beat, Goto
<1>7. ASSUME NEW s \in Server, HeartbeatExists(s) PROVE LeavingInv'
  BY <1>7 DEF HeartbeatExists, Goto
<1>8. ASSUME NEW s \in Server, HeartbeatExpire(s) PROVE LeavingInv'
  BY <1>8 DEF HeartbeatExpire, Goto
<1>9. ASSUME NEW s \in Server, LoopStop(s) PROVE LeavingInv'
  BY <1>9 DEF LoopStop, Goto
<1>10. ASSUME NEW s \in Server, Stop(s) PROVE LeavingInv'
  BY <1>10 DEF Stop, StopGoto, LoopPC
<1>11. ASSUME NEW s \in Server, DeregisterCall(s) PROVE LeavingInv'
  BY <1>11 DEF DeregisterCall, StopGoto
<1>12. ASSUME NEW s \in Server, DeregisterGet(s) PROVE LeavingInv'
  BY <1>12 DEF DeregisterGet, StopGoto, Fault
<1>13. ASSUME NEW s \in Server, DeregisterDel(s) PROVE LeavingInv'
  BY <1>13, OwnLeases DEF DeregisterDel, StopGoto, Drop, Fault
<1>14. ASSUME NEW s \in Server, DeregisterService(s) PROVE LeavingInv'
  BY <1>14 DEF DeregisterService, StopGoto, Fault
<1>15. ASSUME NEW s \in Server, DeregisterGame(s) PROVE LeavingInv'
  BY <1>15 DEF DeregisterGame, StopGoto, Fault
<1>16. ASSUME NEW s \in Server, Exit(s) PROVE LeavingInv'
  BY <1>16 DEF Exit, End
<1>17. ASSUME NEW s \in Server, Crash(s) PROVE LeavingInv'
  BY <1>17 DEF Crash, End
<1>18. ASSUME NEW s \in Server, RegisterFail(s) PROVE LeavingInv'
  BY <1>18 DEF RegisterFail, Goto, Fault
<1>19. ASSUME NEW s \in Server, HeartbeatFail(s) PROVE LeavingInv'
  BY <1>19 DEF HeartbeatFail, Goto, Fault
<1>20. ASSUME NEW l \in Lease, CleanupGet(l) PROVE LeavingInv'
  BY <1>20 DEF CleanupGet
<1>21. ASSUME NEW l \in Lease, LeaseEnds(l) PROVE LeavingInv'
  BY <1>21, OwnLeases DEF LeaseEnds, Drop, Fault, Renewed
<1>22. ASSUME NEW l \in Lease, CleanupGetFail(l) PROVE LeavingInv'
  BY <1>22 DEF CleanupGetFail, Fault
<1>23. ASSUME NEW e \in Endpoint, CleanupRemove(e) PROVE LeavingInv'
  BY <1>23 DEF CleanupRemove
<1>24. CASE CleanupBegin
  BY <1>24 DEF CleanupBegin
<1>25. CASE CleanupServices
  BY <1>25 DEF CleanupServices
<1>26. CASE CleanupGames
  BY <1>26 DEF CleanupGames
<1>27. CASE CleanupEnd
  BY <1>27 DEF CleanupEnd
<1>28. CASE CleanupSkip
  BY <1>28 DEF CleanupSkip, Fault
<1>29. CASE CentralCrash
  BY <1>29 DEF CentralCrash, Fault
<1> QED
  BY <1>1, <1>2, <1>3, <1>4, <1>5, <1>6, <1>7, <1>8, <1>9, <1>10, <1>11,
     <1>12, <1>13, <1>14, <1>15, <1>16, <1>17, <1>18, <1>19, <1>20, <1>21,
     <1>22, <1>23, <1>24, <1>25, <1>26, <1>27, <1>28, <1>29
  DEF Next, Working, Registrar, Stopping, Cleaning

(* A server that leaves the game's set to others without one of them up      *)
(* crashed or is late.                                                       *)
LEMMA GamesStep == RInv /\ Next /\ Observe => GamesInv'
<1> SUFFICES ASSUME RInv, Next, Observe PROVE GamesInv'
  OBVIOUS
<1> USE DEF RInv, Inv, TypeOK, LeavingInv, Leaving, GamesInv, Explains, LeftCleanly, Observe, server, redis, cleanup
<1>1. ASSUME NEW s \in Server, RegisterLease(s) PROVE GamesInv'
  <2>1. PICK l \in OwnLease(s) \ InUse :
               /\ Goto(s, "setLease", "addService")
               /\ granted' = [granted EXCEPT ![s] = l]
               /\ leases' = leases \cup {l}
               /\ UNCHANGED <<lease, services, games, meta, cleanup, faults>>
    BY <1>1, FreshLease
  <2> QED
    BY <2>1 DEF Goto
<1>2. ASSUME NEW s \in Server, Start(s) PROVE GamesInv'
  BY <1>2 DEF Start
<1>3. ASSUME NEW s \in Server, RegisterService(s) PROVE GamesInv'
  BY <1>3 DEF RegisterService, Goto
<1>4. ASSUME NEW s \in Server, RegisterGame(s) PROVE GamesInv'
  BY <1>4 DEF RegisterGame, Goto
<1>5. ASSUME NEW s \in Server, RegisterMeta(s) PROVE GamesInv'
  BY <1>5 DEF RegisterMeta, Goto, Fault
<1>6. ASSUME NEW s \in Server, Beat(s) PROVE GamesInv'
  BY <1>6 DEF Beat, Goto
<1>7. ASSUME NEW s \in Server, HeartbeatExists(s) PROVE GamesInv'
  BY <1>7 DEF HeartbeatExists, Goto
<1>8. ASSUME NEW s \in Server, HeartbeatExpire(s) PROVE GamesInv'
  BY <1>8 DEF HeartbeatExpire, Goto
<1>9. ASSUME NEW s \in Server, LoopStop(s) PROVE GamesInv'
  BY <1>9 DEF LoopStop, Goto
<1>10. ASSUME NEW s \in Server, Stop(s) PROVE GamesInv'
  BY <1>10 DEF Stop, StopGoto
<1>11. ASSUME NEW s \in Server, DeregisterCall(s) PROVE GamesInv'
  BY <1>11 DEF DeregisterCall, StopGoto
<1>12. ASSUME NEW s \in Server, DeregisterGet(s) PROVE GamesInv'
  BY <1>12 DEF DeregisterGet, StopGoto, Fault
<1>13. ASSUME NEW s \in Server, DeregisterDel(s) PROVE GamesInv'
  BY <1>13 DEF DeregisterDel, StopGoto, Drop, Fault
<1>14. ASSUME NEW s \in Server, DeregisterService(s) PROVE GamesInv'
  BY <1>14 DEF DeregisterService, StopGoto, Fault
<1>15. ASSUME NEW s \in Server, DeregisterGame(s) PROVE GamesInv'
  BY <1>15 DEF DeregisterGame, StopGoto, Fault
<1>16. ASSUME NEW s \in Server, Exit(s) PROVE GamesInv'
  BY <1>16 DEF Exit, End
<1>17. ASSUME NEW s \in Server, Crash(s) PROVE GamesInv'
  BY <1>17 DEF Crash, End
<1>18. ASSUME NEW s \in Server, RegisterFail(s) PROVE GamesInv'
  BY <1>18 DEF RegisterFail, Goto, Fault
<1>19. ASSUME NEW s \in Server, HeartbeatFail(s) PROVE GamesInv'
  BY <1>19 DEF HeartbeatFail, Goto, Fault
<1>20. ASSUME NEW l \in Lease, CleanupGet(l) PROVE GamesInv'
  BY <1>20 DEF CleanupGet
<1>21. ASSUME NEW l \in Lease, LeaseEnds(l) PROVE GamesInv'
  BY <1>21 DEF LeaseEnds, Drop, Fault, Renewed
<1>22. ASSUME NEW l \in Lease, CleanupGetFail(l) PROVE GamesInv'
  BY <1>22 DEF CleanupGetFail, Fault
<1>23. ASSUME NEW e \in Endpoint, CleanupRemove(e) PROVE GamesInv'
  BY <1>23 DEF CleanupRemove
<1>24. CASE CleanupBegin
  BY <1>24 DEF CleanupBegin
<1>25. CASE CleanupServices
  BY <1>25 DEF CleanupServices
<1>26. CASE CleanupGames
  BY <1>26 DEF CleanupGames
<1>27. CASE CleanupEnd
  BY <1>27 DEF CleanupEnd
<1>28. CASE CleanupSkip
  BY <1>28 DEF CleanupSkip, Fault
<1>29. CASE CentralCrash
  BY <1>29 DEF CentralCrash, Fault
<1> QED
  BY <1>1, <1>2, <1>3, <1>4, <1>5, <1>6, <1>7, <1>8, <1>9, <1>10, <1>11,
     <1>12, <1>13, <1>14, <1>15, <1>16, <1>17, <1>18, <1>19, <1>20, <1>21,
     <1>22, <1>23, <1>24, <1>25, <1>26, <1>27, <1>28, <1>29
  DEF Next, Working, Registrar, Stopping, Cleaning

(* A process keeps its endpoint, and once started it is never new again. *)
Processes == ep' = ep /\ \A s \in Server : up[s] # "new" => up'[s] # "new"

(* So it is in every step of the registry. *)
LEMMA ProcessStep == TypeOK /\ Next => Processes
<1> SUFFICES ASSUME TypeOK, Next PROVE Processes
  OBVIOUS
<1> USE DEF TypeOK, Processes, server, redis, cleanup
<1>1. ASSUME NEW s \in Server, RegisterLease(s) PROVE Processes
  <2>1. PICK l \in OwnLease(s) \ InUse :
               /\ Goto(s, "setLease", "addService")
               /\ granted' = [granted EXCEPT ![s] = l]
               /\ leases' = leases \cup {l}
               /\ UNCHANGED <<lease, services, games, meta, cleanup, faults>>
    BY <1>1, FreshLease
  <2> QED
    BY <2>1 DEF Goto
<1>2. ASSUME NEW s \in Server, Start(s) PROVE Processes
  BY <1>2 DEF Start
<1>3. ASSUME NEW s \in Server, RegisterService(s) PROVE Processes
  BY <1>3 DEF RegisterService, Goto
<1>4. ASSUME NEW s \in Server, RegisterGame(s) PROVE Processes
  BY <1>4 DEF RegisterGame, Goto
<1>5. ASSUME NEW s \in Server, RegisterMeta(s) PROVE Processes
  BY <1>5 DEF RegisterMeta, Goto, Fault
<1>6. ASSUME NEW s \in Server, Beat(s) PROVE Processes
  BY <1>6 DEF Beat, Goto
<1>7. ASSUME NEW s \in Server, HeartbeatExists(s) PROVE Processes
  BY <1>7 DEF HeartbeatExists, Goto
<1>8. ASSUME NEW s \in Server, HeartbeatExpire(s) PROVE Processes
  BY <1>8 DEF HeartbeatExpire, Goto
<1>9. ASSUME NEW s \in Server, LoopStop(s) PROVE Processes
  BY <1>9 DEF LoopStop, Goto
<1>10. ASSUME NEW s \in Server, Stop(s) PROVE Processes
  BY <1>10 DEF Stop, StopGoto
<1>11. ASSUME NEW s \in Server, DeregisterCall(s) PROVE Processes
  BY <1>11 DEF DeregisterCall, StopGoto
<1>12. ASSUME NEW s \in Server, DeregisterGet(s) PROVE Processes
  BY <1>12 DEF DeregisterGet, StopGoto, Fault
<1>13. ASSUME NEW s \in Server, DeregisterDel(s) PROVE Processes
  BY <1>13 DEF DeregisterDel, StopGoto, Drop, Fault
<1>14. ASSUME NEW s \in Server, DeregisterService(s) PROVE Processes
  BY <1>14 DEF DeregisterService, StopGoto, Fault
<1>15. ASSUME NEW s \in Server, DeregisterGame(s) PROVE Processes
  BY <1>15 DEF DeregisterGame, StopGoto, Fault
<1>16. ASSUME NEW s \in Server, Exit(s) PROVE Processes
  BY <1>16 DEF Exit, End
<1>17. ASSUME NEW s \in Server, Crash(s) PROVE Processes
  BY <1>17 DEF Crash, End
<1>18. ASSUME NEW s \in Server, RegisterFail(s) PROVE Processes
  BY <1>18 DEF RegisterFail, Goto, Fault
<1>19. ASSUME NEW s \in Server, HeartbeatFail(s) PROVE Processes
  BY <1>19 DEF HeartbeatFail, Goto, Fault
<1>20. ASSUME NEW l \in Lease, CleanupGet(l) PROVE Processes
  BY <1>20 DEF CleanupGet
<1>21. ASSUME NEW l \in Lease, LeaseEnds(l) PROVE Processes
  BY <1>21 DEF LeaseEnds, Drop, Fault, Renewed
<1>22. ASSUME NEW l \in Lease, CleanupGetFail(l) PROVE Processes
  BY <1>22 DEF CleanupGetFail, Fault
<1>23. ASSUME NEW e \in Endpoint, CleanupRemove(e) PROVE Processes
  BY <1>23 DEF CleanupRemove
<1>24. CASE CleanupBegin
  BY <1>24 DEF CleanupBegin
<1>25. CASE CleanupServices
  BY <1>25 DEF CleanupServices
<1>26. CASE CleanupGames
  BY <1>26 DEF CleanupGames
<1>27. CASE CleanupEnd
  BY <1>27 DEF CleanupEnd
<1>28. CASE CleanupSkip
  BY <1>28 DEF CleanupSkip, Fault
<1>29. CASE CentralCrash
  BY <1>29 DEF CentralCrash, Fault
<1> QED
  BY <1>1, <1>2, <1>3, <1>4, <1>5, <1>6, <1>7, <1>8, <1>9, <1>10, <1>11,
     <1>12, <1>13, <1>14, <1>15, <1>16, <1>17, <1>18, <1>19, <1>20, <1>21,
     <1>22, <1>23, <1>24, <1>25, <1>26, <1>27, <1>28, <1>29
  DEF Next, Working, Registrar, Stopping, Cleaning

(* The call in progress keeps its explanation, and a draw finds one. *)
LEMMA DrawnStep == RInv /\ RoutingTypeOK' /\ [RoutingNext]_<<vars, reader, late>> => DrawnInv'
<1> SUFFICES ASSUME RInv, RoutingTypeOK', [RoutingNext]_<<vars, reader, late>> PROVE DrawnInv'
  OBVIOUS
<1>1. CASE Working /\ UNCHANGED reader
  <2>1. Processes
    BY <1>1, ProcessStep DEF RInv, RoutingTypeOK, Next
  <2> QED
    BY <1>1, <2>1 DEF RInv, RoutingTypeOK, DrawnInv, Processes, reader
<1>2. CASE EndCall
  BY <1>2 DEF DrawnInv, EndCall
<1>3. ASSUME NEW e \in Endpoint, Draw(e) PROVE DrawnInv'
  <2>1. PICK s \in Server : Explains(s, e)
    BY <1>3 DEF RInv, GamesInv, Draw
  <2>2. ep'[s] = e /\ up'[s] # "new" /\ s \notin left'
    BY <1>3, <2>1 DEF Draw, Explains, vars, server
  <2>3. drawn' = {e}
    BY <1>3 DEF Draw
  <2> QED
    BY <2>2, <2>3 DEF DrawnInv
<1>4. CASE UNCHANGED <<vars, reader, late>>
  BY <1>4 DEF RInv, DrawnInv, vars, server, reader
<1> QED
  BY <1>1, <1>2, <1>3, <1>4 DEF RoutingNext, Answer, CallerGivesUp

(* Steps of the registry and steps of the reader keep the invariant. *)
LEMMA RInvStep == RInv /\ [RoutingNext]_<<vars, reader, late>> => RInv'
<1> SUFFICES ASSUME RInv, [RoutingNext]_<<vars, reader, late>> PROVE RInv'
  OBVIOUS
<1>1. Inv'
  BY ReaderStep, InvStep DEF RInv
<1>2. RoutingTypeOK'
  <2>1. TypeOK'
    BY <1>1 DEF Inv
  <2>2. late' \subseteq Server
    BY ReaderStep DEF RInv, RoutingTypeOK, Observe
  <2>3. /\ drawn' \subseteq Endpoint /\ \A d, e \in drawn' : d = e
        /\ left' \subseteq Server
    BY DEF RInv, RoutingTypeOK, RoutingNext, Draw, Answer, CallerGivesUp, EndCall, reader
  <2> QED
    BY <2>1, <2>2, <2>3 DEF RoutingTypeOK
<1>3. DrawnInv'
  BY <1>2, DrawnStep
<1>4. CASE Next /\ Observe
  BY <1>1, <1>2, <1>3, <1>4, LoopStep, LeavingStep, GamesStep DEF RInv, Inv
<1>5. CASE UNCHANGED <<vars, late>>
  <2>1. LoopInv' /\ LeavingInv' /\ GamesInv'
    BY <1>5 DEF RInv, LoopInv, LeavingInv, Leaving, GamesInv, Explains, LeftCleanly,
                Registering, vars, server, redis
  <2> QED
    BY <1>1, <1>2, <1>3, <2>1 DEF RInv
<1> QED
  BY <1>4, <1>5, ReaderStep

(* The invariant holds throughout. *)
LEMMA RoutingInvariant == RoutingSpec => []RInv
  BY RInvInit, RInvStep, PTL DEF RoutingSpec

(* Every variable of the registry, its registrars and the reader keeps its   *)
(* type.                                                                     *)
THEOREM RoutingTypeCorrect == RoutingSpec => []RoutingTypeOK
<1>1. RInv => RoutingTypeOK
  BY DEF RInv
<1> QED
  BY <1>1, RoutingInvariant, PTL

(* An answer names an endpoint some process of which was up, or had not left *)
(* cleanly, when the endpoint was drawn: whatever happens between the two    *)
(* commands, no call answers a server that had left cleanly before           *)
(* (registry.go:150-172 against :101-127).                                   *)
THEOREM RoutesLeadToServers == RoutingSpec => RouteExplained
<1> DEFINE Step == \A e \in Endpoint, type \in {"known", "unknown"} : Answer(e, type) =>
                     \E s \in Server : ep[s] = e /\ up[s] # "new" /\ s \notin left
<1>1. RInv /\ [RoutingNext]_<<vars, reader, late>> => [Step]_<<vars, reader>>
  <2> SUFFICES ASSUME RInv, NEW e \in Endpoint, NEW type \in {"known", "unknown"},
                      Answer(e, type)
               PROVE  \E s \in Server : ep[s] = e /\ up[s] # "new" /\ s \notin left
    OBVIOUS
  <2> QED
    BY DEF RInv, DrawnInv, Answer
<1>2. RoutingSpec => [][Step]_<<vars, reader>>
  BY <1>1, RoutingInvariant, PTL DEF RoutingSpec
<1> QED
  BY <1>2 DEF RouteExplained
=============================================================================
