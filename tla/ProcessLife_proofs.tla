--------------------------- MODULE ProcessLife_proofs ---------------------------
(***************************************************************************)
(* Theorems about ProcessLife, for any calls the server may be serving and *)
(* any number of pings.                                                    *)
(***************************************************************************)
EXTENDS ProcessLife, TLAPS

(* Clients are dialled before anything else runs, and only the databases    *)
(* the configuration names; the connector dials none.                       *)
DialInv ==
  /\ dial # NoDB => main = "redis" /\ dial \in opened
  /\ kind = "connector" => main # "redis" /\ opened = {}

(* Past NewProvider the clients are open until they are closed on purpose,  *)
(* which is the last thing cleanup does.                                    *)
ClientInv ==
  /\ main \notin {"load", "redis", "returned"} => kind = "connector" \/ opened = dbs
  /\ main = "returned" => opened = {}

(* The server's goroutine, and with it the calls, come after everything     *)
(* main has to dial.                                                        *)
StartInv ==
  Alive /\ main \in {"load", "redis", "wire"} => start = "none" /\ calls = {}

(* Where cleanup has to be before the server can be stopped, and what that  *)
(* leaves: a stopped server takes no calls, and once cleanup has waited for *)
(* those under way there are none.  A game server always has one to stop.   *)
StopInv ==
  /\ server = "stopped" => main \in {"drain", "async", "closePool", "closeRedis", "returned"}
  /\ main \in {"drain", "async"} => kind # "central"
  /\ main \in {"wsStop", "async"} => kind = "connector"
  /\ main \in {"deregister", "hung"} => kind = "game"
  /\ main = "grpcStop" => kind # "central"
  /\ main = "closePool" => kind # "central"
  /\ main = "closeRedis" => kind # "connector"
  /\ main = "drain" => server = "stopped"
  /\ server = "stopped" /\ main # "drain" => calls = {}
  /\ kind = "game" =>
       /\ server = "stopped" => main \in {"drain", "closeRedis", "returned"}
       /\ main \notin {"load", "redis", "wire"} => server # "none"
       /\ main \in {"closeRedis", "returned"} => server = "stopped"
  /\ kind = "central" => server # "stopped"

(* What the end of the process leaves behind. *)
ExitInv ==
  /\ Alive => cut = {}
  /\ ~Alive => calls = {}

Inv == TypeOK /\ DialInv /\ ClientInv /\ StartInv /\ StopInv /\ ExitInv
         /\ NoCallCut /\ ClientsClosed

-----------------------------------------------------------------------------
USE MaxPingAssumption

(* The initial states satisfy the invariant. *)
LEMMA InvInit == Init => Inv
<1> SUFFICES ASSUME Init PROVE Inv
  OBVIOUS
<1>1. TypeOK
  <2>1. pings \in 0..MaxPing
    BY MaxPingAssumption DEF Init
  <2>2. dbs \subseteq DB /\ dial \in DB \cup {NoDB} /\ opened \subseteq dbs
    BY DEF Init
  <2> QED
    BY <2>1, <2>2 DEF Init, TypeOK
<1>2. DialInv /\ ClientInv /\ StartInv /\ StopInv
  BY DEF Init, DialInv, ClientInv, StartInv, StopInv, NoDB
<1>3. ExitInv /\ NoCallCut /\ ClientsClosed
  BY DEF Init, ExitInv, NoCallCut, ClientsClosed
<1> QED
  BY <1>1, <1>2, <1>3 DEF Inv

(* Cleanup begins with what its program defers last. *)
LEMMA FirstStepOf ==
  /\ kind = "game" => FirstStep = "deregister"
  /\ kind = "central" => FirstStep = "closeRedis"
  /\ kind = "connector" => FirstStep = "wsStop"
  BY Zenon DEF FirstStep

(* Every step keeps the invariant. *)
LEMMA InvStep == Inv /\ [Next]_vars => Inv'
<1> SUFFICES ASSUME Inv, [Next]_vars PROVE Inv'
  OBVIOUS
<1> USE DEF Inv, TypeOK, DialInv, ClientInv, StartInv, StopInv, ExitInv, NoCallCut,
            ClientsClosed, Alive, DB, NoDB, Cleanup, startup
<1>1. CASE UNCHANGED vars
  BY <1>1 DEF vars
<1>2. ASSUME NEW db \in DB, Dial(db) PROVE Inv'
  BY <1>2 DEF Dial
<1>3. ASSUME NEW h \in Handler, CallBegin(h) PROVE Inv'
  BY <1>3 DEF CallBegin, Accepting
<1>4. ASSUME NEW h \in Handler, CallEnd(h) PROVE Inv'
  BY <1>4 DEF CallEnd
<1>5. CASE Load
  BY <1>5 DEF Load, Move, Goto
<1>6. CASE Ping
  BY <1>6 DEF Ping
<1>7. CASE PingFail
  BY <1>7 DEF PingFail
<1>8. CASE ProviderFail
  BY <1>8 DEF ProviderFail, End
<1>9. CASE Provided
  BY <1>9 DEF Provided, Move, Goto
<1>10. CASE Wire
  BY <1>10 DEF Wire, Goto
<1>11. CASE WireFail
  BY <1>11 DEF WireFail, End
<1>12. CASE Notify
  BY <1>12 DEF Notify, Move, Goto
<1>13. CASE Listen
  BY <1>13 DEF Listen
<1>14. CASE Serve
  BY <1>14 DEF Serve, End
<1>15. CASE LoadFail
  BY <1>15 DEF LoadFail, End
<1>16. CASE NoCentral
  BY <1>16 DEF NoCentral, End
<1>17. CASE ListenFail
  BY <1>17 DEF ListenFail, End
<1>18. CASE HttpFail
  BY <1>18 DEF HttpFail, End
<1>19. CASE CallPanic
  BY <1>19 DEF CallPanic, End
<1>20. CASE Signal
  BY <1>20 DEF Signal, End
<1>21. CASE CleanupBegin
  BY <1>21, FirstStepOf DEF CleanupBegin, Move, Goto
<1>22. CASE Deregistered
  BY <1>22 DEF Deregistered, Move, Goto
<1>23. CASE WsStopped
  BY <1>23 DEF WsStopped, Move, Goto
<1>24. CASE GracefulStop
  BY <1>24 DEF GracefulStop, Goto, AfterStop
<1>25. CASE Drained
  BY <1>25 DEF Drained, Move, Goto, AfterStop
<1>26. CASE AsyncDone
  BY <1>26 DEF AsyncDone, Move, Goto
<1>27. CASE PoolClosed
  BY <1>27 DEF PoolClosed, Move, Goto
<1>28. CASE CloseRedis
  BY <1>28 DEF CloseRedis, Goto
<1>29. CASE Return
  BY <1>29 DEF Return, End
<1>30. CASE DeregisterHangs
  BY <1>30 DEF DeregisterHangs, Move, Goto
<1> QED
  BY <1>1, <1>2, <1>3, <1>4, <1>5, <1>6, <1>7, <1>8, <1>9, <1>10, <1>11,
     <1>12, <1>13, <1>14, <1>15, <1>16, <1>17, <1>18, <1>19, <1>20, <1>21,
     <1>22, <1>23, <1>24, <1>25, <1>26, <1>27, <1>28, <1>29, <1>30
  DEF Next, MainStep, Dialling, CleanupStep, StartStep, Failure

(* The invariant holds throughout. *)
LEMMA Invariant == Spec => []Inv
  BY InvInit, InvStep, PTL DEF Spec

(* Every variable of the process keeps its type: main, the goroutine that    *)
(* starts the server and the clients go no way but those named.              *)
THEOREM TypeCorrect == Spec => []TypeOK
<1>1. Inv => TypeOK
  BY DEF Inv
<1> QED
  BY <1>1, Invariant, PTL

(* No call is served with a Redis client of its process closed, but by       *)
(* Central on its way out (cmd/central/main.go:65, :121).                    *)
THEOREM RedisUnderCalls == Spec => []CallsHaveRedis
<1>1. Inv => CallsHaveRedis
  <2> SUFFICES ASSUME Inv, calls # {}, kind # "connector"
               PROVE  opened = dbs \/ (kind = "central" /\ main = "returned")
    BY DEF CallsHaveRedis
  <2>1. Alive /\ main \notin {"load", "redis", "wire"}
    BY DEF Inv, ExitInv, StartInv
  <2>2. CASE main = "returned"
    BY <2>2 DEF Inv, TypeOK, StopInv
  <2>3. CASE main # "returned"
    BY <2>1, <2>3 DEF Inv, ClientInv
  <2> QED
    BY <2>2, <2>3
<1> QED
  BY <1>1, Invariant, PTL

(* A process that comes to the end of its cleanup has cut no call short, but *)
(* for Central and a connector that had no server to stop                    *)
(* (cmd/connector/main.go:117).                                              *)
THEOREM NoCallCutShort == Spec => []NoCallCut
<1>1. Inv => NoCallCut
  BY DEF Inv
<1> QED
  BY <1>1, Invariant, PTL

(* Cleanup that runs to its end leaves no Redis client open, and a provider  *)
(* that could not be built only the one that failed its pings                *)
(* (client.go:35, :58-60; provider.go:44).                                   *)
THEOREM RedisClosed == Spec => []ClientsClosed
<1>1. Inv => ClientsClosed
  BY DEF Inv
<1> QED
  BY <1>1, Invariant, PTL
=============================================================================
