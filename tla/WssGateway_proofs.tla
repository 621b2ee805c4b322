-------------------------- MODULE WssGateway_proofs --------------------------
(***************************************************************************)
(* Proofs about WssGateway, for any set of connections and of push calls   *)
(* and any channel capacity: its type invariant, the safety invariants of  *)
(* the gateway_safety run, and that it keeps SubscriberContract.           *)
(***************************************************************************)
EXTENDS WssGateway, SequenceTheorems, TLAPS

-----------------------------------------------------------------------------
(* The inductive invariant. *)

(* Where the hub is says whether it is at a client, and whether that client *)
(* is still registered.                                                     *)
HubInv ==
  /\ hub \in {"select", "drain", "done"} <=> cur = NoConn
  /\ hub \in {"connect", "drainQuit", "drainKick", "drainClose"} => cur \in clients
  /\ hub = "quit" => cur \notin clients /\ http[cur] = "serving"
  /\ hub = "done" => clients = {}

(* How far each connection is in ServeHTTP, its channel and the hub's map. *)
ConnInv ==
  \A c \in Conn :
    /\ http[c] \in {"idle", "registering"} => c \notin clients /\ ~chClosed[c]
    /\ http[c] # "serving" => reader[c] = "off"
    /\ chClosed[c] => c \notin clients

(* Outside shutdown a connection whose read pump has not been taken over by *)
(* the hub is registered.                                                   *)
PumpInv ==
  main = "run" =>
    /\ hub \in {"select", "connect", "quit"}
    /\ \A c \in Conn :
         http[c] \in {"accepted", "serving"} /\ reader[c] \notin {"close", "done"}
           => c \in clients

PushInv == \A p \in Pusher : push[p].got => push[p].todo # <<>>

(* main's cleanup knows what it has waited for.  A push call that runs when *)
(* GracefulStop was skipped came after the hub had returned.                *)
MainInv ==
  /\ main \in {"grpcStop", "grpcWait", "asyncWait", "exit"} => hub = "done"
  /\ main = "grpcWait" => server = "stopping"
  /\ server = "none" => \A p \in Pusher : push[p] = Idle
  /\ main \in {"asyncWait", "exit"} =>
       /\ \A p \in Pusher : ~push[p].got
       /\ server = "stopping" => \A p \in Pusher : push[p] = Idle
  /\ main = "exit" => quits = {}

Inv == /\ TypeOK /\ HubInv /\ ConnInv /\ PumpInv /\ PushInv /\ MainInv
       /\ SessionTable

-----------------------------------------------------------------------------
(* The initial states satisfy the invariant. *)
LEMMA InvInit == Init => Inv
<1> SUFFICES ASSUME Init PROVE Inv
  OBVIOUS
<1> USE NoConnAssumption, CapAssumption DEF Init
<1>1. Idle \in [todo : Seq(Conn), got : BOOLEAN]
  BY EmptySeq DEF Idle
<1>2. TypeOK
  <2> DEFINE Call == [todo : Seq(Conn), got : BOOLEAN]
  <2>1. Idle \in Call
    BY <1>1
  <2> HIDE DEF Call
  <2>2. push \in [Pusher -> Call]
    BY <2>1
  <2>3. push \in [Pusher -> [todo : Seq(Conn), got : BOOLEAN]]
    BY <2>2 DEF Call
  <2>4. queue \in [Conn -> 0..Cap]
    OBVIOUS
  <2> QED
    BY <2>3, <2>4, Zenon DEF TypeOK
<1>3. HubInv /\ ConnInv /\ PumpInv /\ MainInv /\ SessionTable
  BY DEF HubInv, ConnInv, PumpInv, MainInv, SessionTable
<1>4. PushInv
  BY DEF PushInv, Idle
<1> QED
  BY <1>2, <1>3, <1>4 DEF Inv

(* The rest of a push call's target list is a list of connections. *)
LEMMA TailType ==
  ASSUME NEW s \in Seq(Conn), s # <<>>
  PROVE  Tail(s) \in Seq(Conn) /\ Head(s) \in Conn
  BY HeadTailProperties

(* Every step keeps the variables' types. *)
LEMMA TypeStep == Inv /\ [Next]_vars => TypeOK'
<1> SUFFICES ASSUME Inv, [Next]_vars PROVE TypeOK'
  OBVIOUS
<1> USE NoConnAssumption, CapAssumption, BatchAssumption
<1>1. CASE OnConnect
  BY <1>1 DEF OnConnect, Inv, TypeOK, HubInv
<1>2. CASE OnDisconnect
  BY <1>2 DEF OnDisconnect, Disconnect, Inv, TypeOK, HubInv
<1>3. CASE HubStop
  BY <1>3 DEF HubStop, Inv, TypeOK, HubInv
<1>4. CASE HubDrainQuit
  BY <1>4 DEF HubDrainQuit, Disconnect, Inv, TypeOK, HubInv
<1>5. CASE HubDrainKick
  BY <1>5 DEF HubDrainKick, SendCloseFrame, Inv, TypeOK, HubInv
<1>6. CASE HubDrainClose
  BY <1>6 DEF HubDrainClose, Inv, TypeOK, HubInv
<1>7. CASE HubDone
  BY <1>7 DEF HubDone, Inv, TypeOK, HubInv
<1>8. ASSUME NEW c \in Conn, HubRegister(c) PROVE TypeOK'
  BY <1>8 DEF HubRegister, Inv, TypeOK, HubInv
<1>9. ASSUME NEW c \in Conn, HubUnregister(c) PROVE TypeOK'
  BY <1>9 DEF HubUnregister, Inv, TypeOK, HubInv
<1>10. ASSUME NEW c \in Conn, HubDrain(c) PROVE TypeOK'
  BY <1>10 DEF HubDrain, Inv, TypeOK, HubInv
<1>11. CASE Shutdown
  BY <1>11 DEF Shutdown, MainStep, Inv, TypeOK, HubInv
<1>12. CASE HubStopped
  BY <1>12 DEF HubStopped, MainStep, Inv, TypeOK, HubInv
<1>13. CASE GracefulStop
  BY <1>13 DEF GracefulStop, MainStep, Inv, TypeOK, HubInv
<1>14. CASE AsyncDone
  BY <1>14 DEF AsyncDone, MainStep, Inv, TypeOK, HubInv
<1>15. ASSUME NEW c \in Conn, Upgrade(c) PROVE TypeOK'
  BY <1>15 DEF Upgrade, Inv, TypeOK, HubInv
<1>16. ASSUME NEW c \in Conn, StartPumps(c) PROVE TypeOK'
  BY <1>16 DEF StartPumps, Inv, TypeOK, HubInv
<1>17. ASSUME NEW c \in Conn, Lose(c) PROVE TypeOK'
  BY <1>17 DEF Lose, Inv, TypeOK, HubInv
<1>18. ASSUME NEW c \in Conn, Kick(c) PROVE TypeOK'
  BY <1>18 DEF Kick, SendCloseFrame, Inv, TypeOK, HubInv
<1>19. ASSUME NEW c \in Conn, ReadMessage(c) PROVE TypeOK'
  BY <1>19 DEF ReadMessage, Read, Inv, TypeOK, HubInv
<1>20. ASSUME NEW c \in Conn, ReadClose(c) PROVE TypeOK'
  BY <1>20 DEF ReadClose, Read, Inv, TypeOK, HubInv
<1>21. ASSUME NEW c \in Conn, ReadFail(c) PROVE TypeOK'
  BY <1>21 DEF ReadFail, Read, Inv, TypeOK, HubInv
<1>22. ASSUME NEW c \in Conn, HandlerReply(c) PROVE TypeOK'
  BY <1>22 DEF HandlerReply, Read, Inv, TypeOK, HubInv
<1>23. ASSUME NEW c \in Conn, HandlerSilent(c) PROVE TypeOK'
  BY <1>23 DEF HandlerSilent, Read, Inv, TypeOK, HubInv
<1>24. ASSUME NEW c \in Conn, HandlerReturn(c) PROVE TypeOK'
  BY <1>24 DEF HandlerReturn, Read, Inv, TypeOK, HubInv
<1>25. ASSUME NEW c \in Conn, ReaderSend(c) PROVE TypeOK'
  BY <1>25 DEF ReaderSend, Read, Inv, TypeOK, HubInv
<1>26. ASSUME NEW c \in Conn, ReaderPanic(c) PROVE TypeOK'
  BY <1>26 DEF ReaderPanic, Read, Inv, TypeOK, HubInv
<1>27. ASSUME NEW c \in Conn, ReaderClose(c) PROVE TypeOK'
  BY <1>27 DEF ReaderClose, Read, Inv, TypeOK, HubInv
<1>28. ASSUME NEW c \in Conn, WriterSend(c) PROVE TypeOK'
  BY <1>28 DEF WriterSend, Inv, TypeOK, HubInv
<1>29. ASSUME NEW c \in Conn, WriterFail(c) PROVE TypeOK'
  BY <1>29 DEF WriterFail, WriterExit, Inv, TypeOK, HubInv
<1>30. ASSUME NEW c \in Conn, WriterClosed(c) PROVE TypeOK'
  BY <1>30 DEF WriterClosed, WriterExit, Inv, TypeOK, HubInv
<1>31. ASSUME NEW c \in Conn, QuitDone(c) PROVE TypeOK'
  BY <1>31 DEF QuitDone, Inv, TypeOK, HubInv
<1>32. ASSUME NEW p \in Pusher, PushGet(p) PROVE TypeOK'
  <2>1. push[p].todo \in Seq(Conn) /\ push[p].todo # <<>>
    BY <1>32 DEF PushGet, Inv, TypeOK
  <2>2. Tail(push[p].todo) \in Seq(Conn)
    BY <2>1, TailType
  <2>3. push' \in [Pusher -> [todo : Seq(Conn), got : BOOLEAN]]
    <3> DEFINE Call == [todo : Seq(Conn), got : BOOLEAN]
    <3>1. push \in [Pusher -> Call]
      BY DEF Inv, TypeOK
    <3>2. [push[p] EXCEPT !.got = TRUE] \in Call
      BY <3>1
    <3>3. [todo |-> Tail(push[p].todo), got |-> FALSE] \in Call
      BY <2>2
    <3>4. \/ push' = [push EXCEPT ![p] = [push[p] EXCEPT !.got = TRUE]]
          \/ push' = [push EXCEPT ![p] = [todo |-> Tail(push[p].todo), got |-> FALSE]]
      BY <1>32 DEF PushGet, NextTarget
    <3> HIDE DEF Call
    <3>5. push' \in [Pusher -> Call]
      BY <3>1, <3>2, <3>3, <3>4
    <3> QED
      BY <3>5 DEF Call
  <2> QED
    BY <1>32, <2>3 DEF PushGet, Inv, TypeOK
<1>33. ASSUME NEW p \in Pusher, PushSend(p) PROVE TypeOK'
  BY <1>33, TailType DEF PushSend, NextTarget, Inv, TypeOK, HubInv, PushInv
<1>34. ASSUME NEW p \in Pusher, PushPanic(p) PROVE TypeOK'
  BY <1>34 DEF PushPanic, Inv, TypeOK, HubInv
<1>35. ASSUME NEW p \in Pusher, NEW targets \in Batch, PushCall(p, targets)
      PROVE  TypeOK'
  BY <1>35 DEF PushCall, Idle, Inv, TypeOK, HubInv
<1>36. CASE UNCHANGED vars
  BY <1>36 DEF vars, Inv, TypeOK, HubInv
<1>37. CASE GracefulBegin
  BY <1>37 DEF GracefulBegin, MainStep, Inv, TypeOK, HubInv
<1>38. CASE GracefulSkip
  BY <1>38 DEF GracefulSkip, MainStep, Inv, TypeOK, HubInv
<1>39. CASE Serve
  BY <1>39 DEF Serve, Inv, TypeOK, HubInv
<1>40. CASE ServePanic
  BY <1>40 DEF ServePanic, Inv, TypeOK, HubInv
<1> QED
  BY <1>1, <1>2, <1>3, <1>4, <1>5, <1>6, <1>7, <1>8, <1>9, <1>10, <1>11,
     <1>12, <1>13, <1>14, <1>15, <1>16, <1>17, <1>18, <1>19, <1>20, <1>21,
     <1>22, <1>23, <1>24, <1>25, <1>26, <1>27, <1>28, <1>29, <1>30, <1>31,
     <1>32, <1>33, <1>34, <1>35, <1>36, <1>37, <1>38, <1>39, <1>40
  DEF Next, Hub, Cleanup, ReadPump,
     WritePump, Pushing

(* Every step keeps the hub's position and the client map in agreement. *)
LEMMA HubStep == Inv /\ [Next]_vars => HubInv'
<1> SUFFICES ASSUME Inv, [Next]_vars PROVE HubInv'
  OBVIOUS
<1> USE NoConnAssumption
<1>1. CASE OnConnect
  BY <1>1 DEF OnConnect, Inv, TypeOK, HubInv, ConnInv, PumpInv, MainInv
<1>2. CASE OnDisconnect
  BY <1>2 DEF OnDisconnect, Disconnect, Inv, TypeOK, HubInv, ConnInv, PumpInv, MainInv
<1>3. CASE HubStop
  BY <1>3 DEF HubStop, Inv, TypeOK, HubInv, ConnInv, PumpInv, MainInv
<1>4. CASE HubDrainQuit
  BY <1>4 DEF HubDrainQuit, Disconnect, Inv, TypeOK, HubInv, ConnInv, PumpInv, MainInv
<1>5. CASE HubDrainKick
  BY <1>5 DEF HubDrainKick, SendCloseFrame, Inv, TypeOK, HubInv, ConnInv,
     PumpInv, MainInv
<1>6. CASE HubDrainClose
  BY <1>6 DEF HubDrainClose, Inv, TypeOK, HubInv, ConnInv, PumpInv, MainInv
<1>7. CASE HubDone
  BY <1>7 DEF HubDone, Inv, TypeOK, HubInv, ConnInv, PumpInv, MainInv
<1>8. ASSUME NEW c \in Conn, HubRegister(c) PROVE HubInv'
  BY <1>8 DEF HubRegister, Inv, TypeOK, HubInv, ConnInv, PumpInv, MainInv
<1>9. ASSUME NEW c \in Conn, HubUnregister(c) PROVE HubInv'
  BY <1>9 DEF HubUnregister, Inv, TypeOK, HubInv, ConnInv, PumpInv, MainInv
<1>10. ASSUME NEW c \in Conn, HubDrain(c) PROVE HubInv'
  BY <1>10 DEF HubDrain, Inv, TypeOK, HubInv, ConnInv, PumpInv, MainInv
<1>11. CASE Shutdown
  BY <1>11 DEF Shutdown, MainStep, Inv, TypeOK, HubInv, ConnInv, PumpInv, MainInv
<1>12. CASE HubStopped
  BY <1>12 DEF HubStopped, MainStep, Inv, TypeOK, HubInv, ConnInv, PumpInv, MainInv
<1>13. CASE GracefulStop
  BY <1>13 DEF GracefulStop, MainStep, Inv, TypeOK, HubInv, ConnInv, PumpInv, MainInv
<1>14. CASE AsyncDone
  BY <1>14 DEF AsyncDone, MainStep, Inv, TypeOK, HubInv, ConnInv, PumpInv, MainInv
<1>15. ASSUME NEW c \in Conn, Upgrade(c) PROVE HubInv'
  BY <1>15 DEF Upgrade, Inv, TypeOK, HubInv, ConnInv, PumpInv, MainInv
<1>16. ASSUME NEW c \in Conn, StartPumps(c) PROVE HubInv'
  BY <1>16 DEF StartPumps, Inv, TypeOK, HubInv, ConnInv, PumpInv, MainInv
<1>17. ASSUME NEW c \in Conn, Lose(c) PROVE HubInv'
  BY <1>17 DEF Lose, Inv, TypeOK, HubInv, ConnInv, PumpInv, MainInv
<1>18. ASSUME NEW c \in Conn, Kick(c) PROVE HubInv'
  BY <1>18 DEF Kick, SendCloseFrame, Inv, TypeOK, HubInv, ConnInv, PumpInv, MainInv
<1>19. ASSUME NEW c \in Conn, ReadMessage(c) PROVE HubInv'
  BY <1>19 DEF ReadMessage, Read, Inv, TypeOK, HubInv, ConnInv, PumpInv, MainInv
<1>20. ASSUME NEW c \in Conn, ReadClose(c) PROVE HubInv'
  BY <1>20 DEF ReadClose, Read, Inv, TypeOK, HubInv, ConnInv, PumpInv, MainInv
<1>21. ASSUME NEW c \in Conn, ReadFail(c) PROVE HubInv'
  BY <1>21 DEF ReadFail, Read, Inv, TypeOK, HubInv, ConnInv, PumpInv, MainInv
<1>22. ASSUME NEW c \in Conn, HandlerReply(c) PROVE HubInv'
  BY <1>22 DEF HandlerReply, Read, Inv, TypeOK, HubInv, ConnInv, PumpInv, MainInv
<1>23. ASSUME NEW c \in Conn, HandlerSilent(c) PROVE HubInv'
  BY <1>23 DEF HandlerSilent, Read, Inv, TypeOK, HubInv, ConnInv, PumpInv, MainInv
<1>24. ASSUME NEW c \in Conn, HandlerReturn(c) PROVE HubInv'
  BY <1>24 DEF HandlerReturn, Read, Inv, TypeOK, HubInv, ConnInv, PumpInv, MainInv
<1>25. ASSUME NEW c \in Conn, ReaderSend(c) PROVE HubInv'
  BY <1>25 DEF ReaderSend, Read, Inv, TypeOK, HubInv, ConnInv, PumpInv, MainInv
<1>26. ASSUME NEW c \in Conn, ReaderPanic(c) PROVE HubInv'
  BY <1>26 DEF ReaderPanic, Read, Inv, TypeOK, HubInv, ConnInv, PumpInv, MainInv
<1>27. ASSUME NEW c \in Conn, ReaderClose(c) PROVE HubInv'
  BY <1>27 DEF ReaderClose, Read, Inv, TypeOK, HubInv, ConnInv, PumpInv, MainInv
<1>28. ASSUME NEW c \in Conn, WriterSend(c) PROVE HubInv'
  BY <1>28 DEF WriterSend, Inv, TypeOK, HubInv, ConnInv, PumpInv, MainInv
<1>29. ASSUME NEW c \in Conn, WriterFail(c) PROVE HubInv'
  BY <1>29 DEF WriterFail, WriterExit, Inv, TypeOK, HubInv, ConnInv, PumpInv, MainInv
<1>30. ASSUME NEW c \in Conn, WriterClosed(c) PROVE HubInv'
  BY <1>30 DEF WriterClosed, WriterExit, Inv, TypeOK, HubInv, ConnInv, PumpInv, MainInv
<1>31. ASSUME NEW c \in Conn, QuitDone(c) PROVE HubInv'
  BY <1>31 DEF QuitDone, Inv, TypeOK, HubInv, ConnInv, PumpInv, MainInv
<1>32. ASSUME NEW p \in Pusher, PushGet(p) PROVE HubInv'
  BY <1>32 DEF PushGet, NextTarget, Inv, TypeOK, HubInv, ConnInv, PumpInv, MainInv
<1>33. ASSUME NEW p \in Pusher, PushSend(p) PROVE HubInv'
  BY <1>33 DEF PushSend, NextTarget, Inv, TypeOK, HubInv, ConnInv, PumpInv, MainInv
<1>34. ASSUME NEW p \in Pusher, PushPanic(p) PROVE HubInv'
  BY <1>34 DEF PushPanic, Inv, TypeOK, HubInv, ConnInv, PumpInv, MainInv
<1>35. ASSUME NEW p \in Pusher, NEW targets \in Batch, PushCall(p, targets)
      PROVE  HubInv'
  BY <1>35 DEF PushCall, Idle, Inv, TypeOK, HubInv, ConnInv, PumpInv, MainInv
<1>36. CASE UNCHANGED vars
  BY <1>36 DEF vars, Inv, TypeOK, HubInv, ConnInv, PumpInv, MainInv
<1>37. CASE GracefulBegin
  BY <1>37 DEF GracefulBegin, MainStep, Inv, TypeOK, HubInv, ConnInv, PumpInv, MainInv
<1>38. CASE GracefulSkip
  BY <1>38 DEF GracefulSkip, MainStep, Inv, TypeOK, HubInv, ConnInv, PumpInv, MainInv
<1>39. CASE Serve
  BY <1>39 DEF Serve, Inv, TypeOK, HubInv, ConnInv, PumpInv, MainInv
<1>40. CASE ServePanic
  BY <1>40 DEF ServePanic, Inv, TypeOK, HubInv, ConnInv, PumpInv, MainInv
<1> QED
  BY <1>1, <1>2, <1>3, <1>4, <1>5, <1>6, <1>7, <1>8, <1>9, <1>10, <1>11,
     <1>12, <1>13, <1>14, <1>15, <1>16, <1>17, <1>18, <1>19, <1>20, <1>21,
     <1>22, <1>23, <1>24, <1>25, <1>26, <1>27, <1>28, <1>29, <1>30, <1>31,
     <1>32, <1>33, <1>34, <1>35, <1>36, <1>37, <1>38, <1>39, <1>40
  DEF Next, Hub, Cleanup, ReadPump,
     WritePump, Pushing

(* Every step keeps each connection's progress and its channel in agreement. *)
LEMMA ConnStep == Inv /\ [Next]_vars => ConnInv'
<1> SUFFICES ASSUME Inv, [Next]_vars PROVE ConnInv'
  OBVIOUS
<1> USE NoConnAssumption
<1>1. CASE OnConnect
  BY <1>1 DEF OnConnect, Inv, TypeOK, HubInv, ConnInv
<1>2. CASE OnDisconnect
  BY <1>2 DEF OnDisconnect, Disconnect, Inv, TypeOK, HubInv, ConnInv
<1>3. CASE HubStop
  BY <1>3 DEF HubStop, Inv, TypeOK, HubInv, ConnInv
<1>4. CASE HubDrainQuit
  BY <1>4 DEF HubDrainQuit, Disconnect, Inv, TypeOK, HubInv, ConnInv
<1>5. CASE HubDrainKick
  BY <1>5 DEF HubDrainKick, SendCloseFrame, Inv, TypeOK, HubInv, ConnInv
<1>6. CASE HubDrainClose
  BY <1>6 DEF HubDrainClose, Inv, TypeOK, HubInv, ConnInv
<1>7. CASE HubDone
  BY <1>7 DEF HubDone, Inv, TypeOK, HubInv, ConnInv
<1>8. ASSUME NEW c \in Conn, HubRegister(c) PROVE ConnInv'
  BY <1>8 DEF HubRegister, Inv, TypeOK, HubInv, ConnInv
<1>9. ASSUME NEW c \in Conn, HubUnregister(c) PROVE ConnInv'
  BY <1>9 DEF HubUnregister, Inv, TypeOK, HubInv, ConnInv
<1>10. ASSUME NEW c \in Conn, HubDrain(c) PROVE ConnInv'
  BY <1>10 DEF HubDrain, Inv, TypeOK, HubInv, ConnInv
<1>11. CASE Shutdown
  BY <1>11 DEF Shutdown, MainStep, Inv, TypeOK, HubInv, ConnInv
<1>12. CASE HubStopped
  BY <1>12 DEF HubStopped, MainStep, Inv, TypeOK, HubInv, ConnInv
<1>13. CASE GracefulStop
  BY <1>13 DEF GracefulStop, MainStep, Inv, TypeOK, HubInv, ConnInv
<1>14. CASE AsyncDone
  BY <1>14 DEF AsyncDone, MainStep, Inv, TypeOK, HubInv, ConnInv
<1>15. ASSUME NEW c \in Conn, Upgrade(c) PROVE ConnInv'
  BY <1>15 DEF Upgrade, Inv, TypeOK, HubInv, ConnInv
<1>16. ASSUME NEW c \in Conn, StartPumps(c) PROVE ConnInv'
  BY <1>16 DEF StartPumps, Inv, TypeOK, HubInv, ConnInv
<1>17. ASSUME NEW c \in Conn, Lose(c) PROVE ConnInv'
  BY <1>17 DEF Lose, Inv, TypeOK, HubInv, ConnInv
<1>18. ASSUME NEW c \in Conn, Kick(c) PROVE ConnInv'
  BY <1>18 DEF Kick, SendCloseFrame, Inv, TypeOK, HubInv, ConnInv
<1>19. ASSUME NEW c \in Conn, ReadMessage(c) PROVE ConnInv'
  BY <1>19 DEF ReadMessage, Read, Inv, TypeOK, HubInv, ConnInv
<1>20. ASSUME NEW c \in Conn, ReadClose(c) PROVE ConnInv'
  BY <1>20 DEF ReadClose, Read, Inv, TypeOK, HubInv, ConnInv
<1>21. ASSUME NEW c \in Conn, ReadFail(c) PROVE ConnInv'
  BY <1>21 DEF ReadFail, Read, Inv, TypeOK, HubInv, ConnInv
<1>22. ASSUME NEW c \in Conn, HandlerReply(c) PROVE ConnInv'
  BY <1>22 DEF HandlerReply, Read, Inv, TypeOK, HubInv, ConnInv
<1>23. ASSUME NEW c \in Conn, HandlerSilent(c) PROVE ConnInv'
  BY <1>23 DEF HandlerSilent, Read, Inv, TypeOK, HubInv, ConnInv
<1>24. ASSUME NEW c \in Conn, HandlerReturn(c) PROVE ConnInv'
  BY <1>24 DEF HandlerReturn, Read, Inv, TypeOK, HubInv, ConnInv
<1>25. ASSUME NEW c \in Conn, ReaderSend(c) PROVE ConnInv'
  BY <1>25 DEF ReaderSend, Read, Inv, TypeOK, HubInv, ConnInv
<1>26. ASSUME NEW c \in Conn, ReaderPanic(c) PROVE ConnInv'
  BY <1>26 DEF ReaderPanic, Read, Inv, TypeOK, HubInv, ConnInv
<1>27. ASSUME NEW c \in Conn, ReaderClose(c) PROVE ConnInv'
  BY <1>27 DEF ReaderClose, Read, Inv, TypeOK, HubInv, ConnInv
<1>28. ASSUME NEW c \in Conn, WriterSend(c) PROVE ConnInv'
  BY <1>28 DEF WriterSend, Inv, TypeOK, HubInv, ConnInv
<1>29. ASSUME NEW c \in Conn, WriterFail(c) PROVE ConnInv'
  BY <1>29 DEF WriterFail, WriterExit, Inv, TypeOK, HubInv, ConnInv
<1>30. ASSUME NEW c \in Conn, WriterClosed(c) PROVE ConnInv'
  BY <1>30 DEF WriterClosed, WriterExit, Inv, TypeOK, HubInv, ConnInv
<1>31. ASSUME NEW c \in Conn, QuitDone(c) PROVE ConnInv'
  BY <1>31 DEF QuitDone, Inv, TypeOK, HubInv, ConnInv
<1>32. ASSUME NEW p \in Pusher, PushGet(p) PROVE ConnInv'
  BY <1>32 DEF PushGet, NextTarget, Inv, TypeOK, HubInv, ConnInv
<1>33. ASSUME NEW p \in Pusher, PushSend(p) PROVE ConnInv'
  BY <1>33 DEF PushSend, NextTarget, Inv, TypeOK, HubInv, ConnInv
<1>34. ASSUME NEW p \in Pusher, PushPanic(p) PROVE ConnInv'
  BY <1>34 DEF PushPanic, Inv, TypeOK, HubInv, ConnInv
<1>35. ASSUME NEW p \in Pusher, NEW targets \in Batch, PushCall(p, targets)
      PROVE  ConnInv'
  BY <1>35 DEF PushCall, Idle, Inv, TypeOK, HubInv, ConnInv
<1>36. CASE UNCHANGED vars
  BY <1>36 DEF vars, Inv, TypeOK, HubInv, ConnInv
<1>37. CASE GracefulBegin
  BY <1>37 DEF GracefulBegin, MainStep, Inv, TypeOK, HubInv, ConnInv
<1>38. CASE GracefulSkip
  BY <1>38 DEF GracefulSkip, MainStep, Inv, TypeOK, HubInv, ConnInv
<1>39. CASE Serve
  BY <1>39 DEF Serve, Inv, TypeOK, HubInv, ConnInv
<1>40. CASE ServePanic
  BY <1>40 DEF ServePanic, Inv, TypeOK, HubInv, ConnInv
<1> QED
  BY <1>1, <1>2, <1>3, <1>4, <1>5, <1>6, <1>7, <1>8, <1>9, <1>10, <1>11,
     <1>12, <1>13, <1>14, <1>15, <1>16, <1>17, <1>18, <1>19, <1>20, <1>21,
     <1>22, <1>23, <1>24, <1>25, <1>26, <1>27, <1>28, <1>29, <1>30, <1>31,
     <1>32, <1>33, <1>34, <1>35, <1>36, <1>37, <1>38, <1>39, <1>40
  DEF Next, Hub, Cleanup, ReadPump,
     WritePump, Pushing

(* Outside shutdown only the hub, and only for a finished read pump, unregisters. *)
LEMMA PumpStep == Inv /\ [Next]_vars => PumpInv'
<1> SUFFICES ASSUME Inv, [Next]_vars PROVE PumpInv'
  OBVIOUS
<1> USE NoConnAssumption
<1>1. CASE OnConnect
  BY <1>1 DEF OnConnect, Inv, TypeOK, HubInv, ConnInv, PumpInv
<1>2. CASE OnDisconnect
  BY <1>2 DEF OnDisconnect, Disconnect, Inv, TypeOK, HubInv, ConnInv, PumpInv
<1>3. CASE HubStop
  BY <1>3 DEF HubStop, Inv, TypeOK, HubInv, ConnInv, PumpInv
<1>4. CASE HubDrainQuit
  BY <1>4 DEF HubDrainQuit, Disconnect, Inv, TypeOK, HubInv, ConnInv, PumpInv
<1>5. CASE HubDrainKick
  BY <1>5 DEF HubDrainKick, SendCloseFrame, Inv, TypeOK, HubInv, ConnInv, PumpInv
<1>6. CASE HubDrainClose
  BY <1>6 DEF HubDrainClose, Inv, TypeOK, HubInv, ConnInv, PumpInv
<1>7. CASE HubDone
  BY <1>7 DEF HubDone, Inv, TypeOK, HubInv, ConnInv, PumpInv
<1>8. ASSUME NEW c \in Conn, HubRegister(c) PROVE PumpInv'
  BY <1>8 DEF HubRegister, Inv, TypeOK, HubInv, ConnInv, PumpInv
<1>9. ASSUME NEW c \in Conn, HubUnregister(c) PROVE PumpInv'
  BY <1>9 DEF HubUnregister, Inv, TypeOK, HubInv, ConnInv, PumpInv
<1>10. ASSUME NEW c \in Conn, HubDrain(c) PROVE PumpInv'
  BY <1>10 DEF HubDrain, Inv, TypeOK, HubInv, ConnInv, PumpInv
<1>11. CASE Shutdown
  BY <1>11 DEF Shutdown, MainStep, Inv, TypeOK, HubInv, ConnInv, PumpInv
<1>12. CASE HubStopped
  BY <1>12 DEF HubStopped, MainStep, Inv, TypeOK, HubInv, ConnInv, PumpInv
<1>13. CASE GracefulStop
  BY <1>13 DEF GracefulStop, MainStep, Inv, TypeOK, HubInv, ConnInv, PumpInv
<1>14. CASE AsyncDone
  BY <1>14 DEF AsyncDone, MainStep, Inv, TypeOK, HubInv, ConnInv, PumpInv
<1>15. ASSUME NEW c \in Conn, Upgrade(c) PROVE PumpInv'
  BY <1>15 DEF Upgrade, Inv, TypeOK, HubInv, ConnInv, PumpInv
<1>16. ASSUME NEW c \in Conn, StartPumps(c) PROVE PumpInv'
  BY <1>16 DEF StartPumps, Inv, TypeOK, HubInv, ConnInv, PumpInv
<1>17. ASSUME NEW c \in Conn, Lose(c) PROVE PumpInv'
  BY <1>17 DEF Lose, Inv, TypeOK, HubInv, ConnInv, PumpInv
<1>18. ASSUME NEW c \in Conn, Kick(c) PROVE PumpInv'
  BY <1>18 DEF Kick, SendCloseFrame, Inv, TypeOK, HubInv, ConnInv, PumpInv
<1>19. ASSUME NEW c \in Conn, ReadMessage(c) PROVE PumpInv'
  BY <1>19 DEF ReadMessage, Read, Inv, TypeOK, HubInv, ConnInv, PumpInv
<1>20. ASSUME NEW c \in Conn, ReadClose(c) PROVE PumpInv'
  BY <1>20 DEF ReadClose, Read, Inv, TypeOK, HubInv, ConnInv, PumpInv
<1>21. ASSUME NEW c \in Conn, ReadFail(c) PROVE PumpInv'
  BY <1>21 DEF ReadFail, Read, Inv, TypeOK, HubInv, ConnInv, PumpInv
<1>22. ASSUME NEW c \in Conn, HandlerReply(c) PROVE PumpInv'
  BY <1>22 DEF HandlerReply, Read, Inv, TypeOK, HubInv, ConnInv, PumpInv
<1>23. ASSUME NEW c \in Conn, HandlerSilent(c) PROVE PumpInv'
  BY <1>23 DEF HandlerSilent, Read, Inv, TypeOK, HubInv, ConnInv, PumpInv
<1>24. ASSUME NEW c \in Conn, HandlerReturn(c) PROVE PumpInv'
  BY <1>24 DEF HandlerReturn, Read, Inv, TypeOK, HubInv, ConnInv, PumpInv
<1>25. ASSUME NEW c \in Conn, ReaderSend(c) PROVE PumpInv'
  BY <1>25 DEF ReaderSend, Read, Inv, TypeOK, HubInv, ConnInv, PumpInv
<1>26. ASSUME NEW c \in Conn, ReaderPanic(c) PROVE PumpInv'
  BY <1>26 DEF ReaderPanic, Read, Inv, TypeOK, HubInv, ConnInv, PumpInv
<1>27. ASSUME NEW c \in Conn, ReaderClose(c) PROVE PumpInv'
  BY <1>27 DEF ReaderClose, Read, Inv, TypeOK, HubInv, ConnInv, PumpInv
<1>28. ASSUME NEW c \in Conn, WriterSend(c) PROVE PumpInv'
  BY <1>28 DEF WriterSend, Inv, TypeOK, HubInv, ConnInv, PumpInv
<1>29. ASSUME NEW c \in Conn, WriterFail(c) PROVE PumpInv'
  BY <1>29 DEF WriterFail, WriterExit, Inv, TypeOK, HubInv, ConnInv, PumpInv
<1>30. ASSUME NEW c \in Conn, WriterClosed(c) PROVE PumpInv'
  BY <1>30 DEF WriterClosed, WriterExit, Inv, TypeOK, HubInv, ConnInv, PumpInv
<1>31. ASSUME NEW c \in Conn, QuitDone(c) PROVE PumpInv'
  BY <1>31 DEF QuitDone, Inv, TypeOK, HubInv, ConnInv, PumpInv
<1>32. ASSUME NEW p \in Pusher, PushGet(p) PROVE PumpInv'
  BY <1>32 DEF PushGet, NextTarget, Inv, TypeOK, HubInv, ConnInv, PumpInv
<1>33. ASSUME NEW p \in Pusher, PushSend(p) PROVE PumpInv'
  BY <1>33 DEF PushSend, NextTarget, Inv, TypeOK, HubInv, ConnInv, PumpInv
<1>34. ASSUME NEW p \in Pusher, PushPanic(p) PROVE PumpInv'
  BY <1>34 DEF PushPanic, Inv, TypeOK, HubInv, ConnInv, PumpInv
<1>35. ASSUME NEW p \in Pusher, NEW targets \in Batch, PushCall(p, targets)
      PROVE  PumpInv'
  BY <1>35 DEF PushCall, Idle, Inv, TypeOK, HubInv, ConnInv, PumpInv
<1>36. CASE UNCHANGED vars
  BY <1>36 DEF vars, Inv, TypeOK, HubInv, ConnInv, PumpInv
<1>37. CASE GracefulBegin
  BY <1>37 DEF GracefulBegin, MainStep, Inv, TypeOK, HubInv, ConnInv, PumpInv
<1>38. CASE GracefulSkip
  BY <1>38 DEF GracefulSkip, MainStep, Inv, TypeOK, HubInv, ConnInv, PumpInv
<1>39. CASE Serve
  BY <1>39 DEF Serve, Inv, TypeOK, HubInv, ConnInv, PumpInv
<1>40. CASE ServePanic
  BY <1>40 DEF ServePanic, Inv, TypeOK, HubInv, ConnInv, PumpInv
<1> QED
  BY <1>1, <1>2, <1>3, <1>4, <1>5, <1>6, <1>7, <1>8, <1>9, <1>10, <1>11,
     <1>12, <1>13, <1>14, <1>15, <1>16, <1>17, <1>18, <1>19, <1>20, <1>21,
     <1>22, <1>23, <1>24, <1>25, <1>26, <1>27, <1>28, <1>29, <1>30, <1>31,
     <1>32, <1>33, <1>34, <1>35, <1>36, <1>37, <1>38, <1>39, <1>40
  DEF Next, Hub, Cleanup, ReadPump,
     WritePump, Pushing

(* A push call holds a session only while it has a target. *)
LEMMA PushStep == Inv /\ [Next]_vars => PushInv'
<1> SUFFICES ASSUME Inv, [Next]_vars PROVE PushInv'
  OBVIOUS
<1> USE NoConnAssumption
<1>1. CASE OnConnect
  BY <1>1 DEF OnConnect, Inv, TypeOK, PushInv
<1>2. CASE OnDisconnect
  BY <1>2 DEF OnDisconnect, Disconnect, Inv, TypeOK, PushInv
<1>3. CASE HubStop
  BY <1>3 DEF HubStop, Inv, TypeOK, PushInv
<1>4. CASE HubDrainQuit
  BY <1>4 DEF HubDrainQuit, Disconnect, Inv, TypeOK, PushInv
<1>5. CASE HubDrainKick
  BY <1>5 DEF HubDrainKick, SendCloseFrame, Inv, TypeOK, PushInv
<1>6. CASE HubDrainClose
  BY <1>6 DEF HubDrainClose, Inv, TypeOK, PushInv
<1>7. CASE HubDone
  BY <1>7 DEF HubDone, Inv, TypeOK, PushInv
<1>8. ASSUME NEW c \in Conn, HubRegister(c) PROVE PushInv'
  BY <1>8 DEF HubRegister, Inv, TypeOK, PushInv
<1>9. ASSUME NEW c \in Conn, HubUnregister(c) PROVE PushInv'
  BY <1>9 DEF HubUnregister, Inv, TypeOK, PushInv
<1>10. ASSUME NEW c \in Conn, HubDrain(c) PROVE PushInv'
  BY <1>10 DEF HubDrain, Inv, TypeOK, PushInv
<1>11. CASE Shutdown
  BY <1>11 DEF Shutdown, MainStep, Inv, TypeOK, PushInv
<1>12. CASE HubStopped
  BY <1>12 DEF HubStopped, MainStep, Inv, TypeOK, PushInv
<1>13. CASE GracefulStop
  BY <1>13 DEF GracefulStop, MainStep, Inv, TypeOK, PushInv
<1>14. CASE AsyncDone
  BY <1>14 DEF AsyncDone, MainStep, Inv, TypeOK, PushInv
<1>15. ASSUME NEW c \in Conn, Upgrade(c) PROVE PushInv'
  BY <1>15 DEF Upgrade, Inv, TypeOK, PushInv
<1>16. ASSUME NEW c \in Conn, StartPumps(c) PROVE PushInv'
  BY <1>16 DEF StartPumps, Inv, TypeOK, PushInv
<1>17. ASSUME NEW c \in Conn, Lose(c) PROVE PushInv'
  BY <1>17 DEF Lose, Inv, TypeOK, PushInv
<1>18. ASSUME NEW c \in Conn, Kick(c) PROVE PushInv'
  BY <1>18 DEF Kick, SendCloseFrame, Inv, TypeOK, PushInv
<1>19. ASSUME NEW c \in Conn, ReadMessage(c) PROVE PushInv'
  BY <1>19 DEF ReadMessage, Read, Inv, TypeOK, PushInv
<1>20. ASSUME NEW c \in Conn, ReadClose(c) PROVE PushInv'
  BY <1>20 DEF ReadClose, Read, Inv, TypeOK, PushInv
<1>21. ASSUME NEW c \in Conn, ReadFail(c) PROVE PushInv'
  BY <1>21 DEF ReadFail, Read, Inv, TypeOK, PushInv
<1>22. ASSUME NEW c \in Conn, HandlerReply(c) PROVE PushInv'
  BY <1>22 DEF HandlerReply, Read, Inv, TypeOK, PushInv
<1>23. ASSUME NEW c \in Conn, HandlerSilent(c) PROVE PushInv'
  BY <1>23 DEF HandlerSilent, Read, Inv, TypeOK, PushInv
<1>24. ASSUME NEW c \in Conn, HandlerReturn(c) PROVE PushInv'
  BY <1>24 DEF HandlerReturn, Read, Inv, TypeOK, PushInv
<1>25. ASSUME NEW c \in Conn, ReaderSend(c) PROVE PushInv'
  BY <1>25 DEF ReaderSend, Read, Inv, TypeOK, PushInv
<1>26. ASSUME NEW c \in Conn, ReaderPanic(c) PROVE PushInv'
  BY <1>26 DEF ReaderPanic, Read, Inv, TypeOK, PushInv
<1>27. ASSUME NEW c \in Conn, ReaderClose(c) PROVE PushInv'
  BY <1>27 DEF ReaderClose, Read, Inv, TypeOK, PushInv
<1>28. ASSUME NEW c \in Conn, WriterSend(c) PROVE PushInv'
  BY <1>28 DEF WriterSend, Inv, TypeOK, PushInv
<1>29. ASSUME NEW c \in Conn, WriterFail(c) PROVE PushInv'
  BY <1>29 DEF WriterFail, WriterExit, Inv, TypeOK, PushInv
<1>30. ASSUME NEW c \in Conn, WriterClosed(c) PROVE PushInv'
  BY <1>30 DEF WriterClosed, WriterExit, Inv, TypeOK, PushInv
<1>31. ASSUME NEW c \in Conn, QuitDone(c) PROVE PushInv'
  BY <1>31 DEF QuitDone, Inv, TypeOK, PushInv
<1>32. ASSUME NEW p \in Pusher, PushGet(p) PROVE PushInv'
  <2>1. push[p] \in [todo : Seq(Conn), got : BOOLEAN] /\ push[p].todo # <<>>
    BY <1>32 DEF PushGet, Inv, TypeOK
  <2>2. \A q \in Pusher : q # p => push'[q] = push[q]
    BY <1>32 DEF PushGet, NextTarget, Inv, TypeOK
  <2>3. push'[p].got => push'[p].todo = push[p].todo
    BY <1>32, <2>1 DEF PushGet, NextTarget, Inv, TypeOK
  <2> QED
    BY <2>1, <2>2, <2>3 DEF Inv, PushInv
<1>33. ASSUME NEW p \in Pusher, PushSend(p) PROVE PushInv'
  BY <1>33 DEF PushSend, NextTarget, Inv, TypeOK, PushInv
<1>34. ASSUME NEW p \in Pusher, PushPanic(p) PROVE PushInv'
  BY <1>34 DEF PushPanic, Inv, TypeOK, PushInv
<1>35. ASSUME NEW p \in Pusher, NEW targets \in Batch, PushCall(p, targets)
      PROVE  PushInv'
  BY <1>35 DEF PushCall, Idle, Inv, TypeOK, PushInv
<1>36. CASE UNCHANGED vars
  BY <1>36 DEF vars, Inv, TypeOK, PushInv
<1>37. CASE GracefulBegin
  BY <1>37 DEF GracefulBegin, MainStep, Inv, TypeOK, PushInv
<1>38. CASE GracefulSkip
  BY <1>38 DEF GracefulSkip, MainStep, Inv, TypeOK, PushInv
<1>39. CASE Serve
  BY <1>39 DEF Serve, Inv, TypeOK, PushInv
<1>40. CASE ServePanic
  BY <1>40 DEF ServePanic, Inv, TypeOK, PushInv
<1> QED
  BY <1>1, <1>2, <1>3, <1>4, <1>5, <1>6, <1>7, <1>8, <1>9, <1>10, <1>11,
     <1>12, <1>13, <1>14, <1>15, <1>16, <1>17, <1>18, <1>19, <1>20, <1>21,
     <1>22, <1>23, <1>24, <1>25, <1>26, <1>27, <1>28, <1>29, <1>30, <1>31,
     <1>32, <1>33, <1>34, <1>35, <1>36, <1>37, <1>38, <1>39, <1>40
  DEF Next, Hub, Cleanup, ReadPump,
     WritePump, Pushing

(* Cleanup goes on only when what it waited for has ended, and that stays ended. *)
LEMMA MainInvStep == Inv /\ [Next]_vars => MainInv'
<1> SUFFICES ASSUME Inv, [Next]_vars PROVE MainInv'
  OBVIOUS
<1> USE NoConnAssumption
<1>idle. \A p \in Pusher : push[p] = Idle => ~push[p].got
  BY DEF Idle
<1>1. CASE OnConnect
  BY <1>1 DEF OnConnect, Inv, TypeOK, HubInv, MainInv
<1>2. CASE OnDisconnect
  BY <1>2 DEF OnDisconnect, Disconnect, Inv, TypeOK, HubInv, MainInv
<1>3. CASE HubStop
  BY <1>3 DEF HubStop, Inv, TypeOK, HubInv, MainInv
<1>4. CASE HubDrainQuit
  BY <1>4 DEF HubDrainQuit, Disconnect, Inv, TypeOK, HubInv, MainInv
<1>5. CASE HubDrainKick
  BY <1>5 DEF HubDrainKick, SendCloseFrame, Inv, TypeOK, HubInv, MainInv
<1>6. CASE HubDrainClose
  BY <1>6 DEF HubDrainClose, Inv, TypeOK, HubInv, MainInv
<1>7. CASE HubDone
  BY <1>7 DEF HubDone, Inv, TypeOK, HubInv, MainInv
<1>8. ASSUME NEW c \in Conn, HubRegister(c) PROVE MainInv'
  BY <1>8 DEF HubRegister, Inv, TypeOK, HubInv, MainInv
<1>9. ASSUME NEW c \in Conn, HubUnregister(c) PROVE MainInv'
  BY <1>9 DEF HubUnregister, Inv, TypeOK, HubInv, MainInv
<1>10. ASSUME NEW c \in Conn, HubDrain(c) PROVE MainInv'
  BY <1>10 DEF HubDrain, Inv, TypeOK, HubInv, MainInv
<1>11. CASE Shutdown
  BY <1>11 DEF Shutdown, MainStep, Inv, TypeOK, HubInv, MainInv
<1>12. CASE HubStopped
  BY <1>12 DEF HubStopped, MainStep, Inv, TypeOK, HubInv, MainInv
<1>13. CASE GracefulStop
  BY <1>13, <1>idle DEF GracefulStop, MainStep, Inv, TypeOK, HubInv, MainInv
<1>14. CASE AsyncDone
  BY <1>14 DEF AsyncDone, MainStep, Inv, TypeOK, HubInv, MainInv
<1>15. ASSUME NEW c \in Conn, Upgrade(c) PROVE MainInv'
  BY <1>15 DEF Upgrade, Inv, TypeOK, HubInv, MainInv
<1>16. ASSUME NEW c \in Conn, StartPumps(c) PROVE MainInv'
  BY <1>16 DEF StartPumps, Inv, TypeOK, HubInv, MainInv
<1>17. ASSUME NEW c \in Conn, Lose(c) PROVE MainInv'
  BY <1>17 DEF Lose, Inv, TypeOK, HubInv, MainInv
<1>18. ASSUME NEW c \in Conn, Kick(c) PROVE MainInv'
  BY <1>18 DEF Kick, SendCloseFrame, Inv, TypeOK, HubInv, MainInv
<1>19. ASSUME NEW c \in Conn, ReadMessage(c) PROVE MainInv'
  BY <1>19 DEF ReadMessage, Read, Inv, TypeOK, HubInv, MainInv
<1>20. ASSUME NEW c \in Conn, ReadClose(c) PROVE MainInv'
  BY <1>20 DEF ReadClose, Read, Inv, TypeOK, HubInv, MainInv
<1>21. ASSUME NEW c \in Conn, ReadFail(c) PROVE MainInv'
  BY <1>21 DEF ReadFail, Read, Inv, TypeOK, HubInv, MainInv
<1>22. ASSUME NEW c \in Conn, HandlerReply(c) PROVE MainInv'
  BY <1>22 DEF HandlerReply, Read, Inv, TypeOK, HubInv, MainInv
<1>23. ASSUME NEW c \in Conn, HandlerSilent(c) PROVE MainInv'
  BY <1>23 DEF HandlerSilent, Read, Inv, TypeOK, HubInv, MainInv
<1>24. ASSUME NEW c \in Conn, HandlerReturn(c) PROVE MainInv'
  BY <1>24 DEF HandlerReturn, Read, Inv, TypeOK, HubInv, MainInv
<1>25. ASSUME NEW c \in Conn, ReaderSend(c) PROVE MainInv'
  BY <1>25 DEF ReaderSend, Read, Inv, TypeOK, HubInv, MainInv
<1>26. ASSUME NEW c \in Conn, ReaderPanic(c) PROVE MainInv'
  BY <1>26 DEF ReaderPanic, Read, Inv, TypeOK, HubInv, MainInv
<1>27. ASSUME NEW c \in Conn, ReaderClose(c) PROVE MainInv'
  BY <1>27 DEF ReaderClose, Read, Inv, TypeOK, HubInv, MainInv
<1>28. ASSUME NEW c \in Conn, WriterSend(c) PROVE MainInv'
  BY <1>28 DEF WriterSend, Inv, TypeOK, HubInv, MainInv
<1>29. ASSUME NEW c \in Conn, WriterFail(c) PROVE MainInv'
  BY <1>29 DEF WriterFail, WriterExit, Inv, TypeOK, HubInv, MainInv
<1>30. ASSUME NEW c \in Conn, WriterClosed(c) PROVE MainInv'
  BY <1>30 DEF WriterClosed, WriterExit, Inv, TypeOK, HubInv, MainInv
<1>31. ASSUME NEW c \in Conn, QuitDone(c) PROVE MainInv'
  BY <1>31 DEF QuitDone, Inv, TypeOK, HubInv, MainInv
<1>32. ASSUME NEW p \in Pusher, PushGet(p) PROVE MainInv'
  <2>1. main \in {"asyncWait", "exit"} => sessions = {}
    BY DEF Inv, HubInv, MainInv, SessionTable
  <2>2. push[p] # Idle /\ UNCHANGED <<main, server, hub, quits>>
    BY <1>32 DEF PushGet, Idle
  <2>3. main \in {"asyncWait", "exit"} => ~push'[p].got
    BY <1>32, <2>1 DEF PushGet, NextTarget, Inv, TypeOK
  <2>4. \A q \in Pusher : q # p => push'[q] = push[q]
    BY <1>32 DEF PushGet, NextTarget, Inv, TypeOK
  <2> QED
    BY <2>2, <2>3, <2>4 DEF Inv, MainInv
<1>33. ASSUME NEW p \in Pusher, PushSend(p) PROVE MainInv'
  BY <1>33 DEF PushSend, NextTarget, Idle, Inv, TypeOK, HubInv, MainInv
<1>34. ASSUME NEW p \in Pusher, PushPanic(p) PROVE MainInv'
  BY <1>34 DEF PushPanic, Inv, TypeOK, HubInv, MainInv
<1>35. ASSUME NEW p \in Pusher, NEW targets \in Batch, PushCall(p, targets)
      PROVE  MainInv'
  BY <1>35 DEF PushCall, Idle, Inv, TypeOK, HubInv, MainInv
<1>36. CASE UNCHANGED vars
  BY <1>36 DEF vars, Inv, TypeOK, HubInv, MainInv
<1>37. CASE GracefulBegin
  BY <1>37 DEF GracefulBegin, MainStep, Inv, TypeOK, HubInv, MainInv
<1>38. CASE GracefulSkip
  BY <1>38, <1>idle DEF GracefulSkip, MainStep, Inv, TypeOK, HubInv, MainInv
<1>39. CASE Serve
  BY <1>39 DEF Serve, Inv, TypeOK, HubInv, MainInv
<1>40. CASE ServePanic
  BY <1>40 DEF ServePanic, Inv, TypeOK, HubInv, MainInv
<1> QED
  BY <1>1, <1>2, <1>3, <1>4, <1>5, <1>6, <1>7, <1>8, <1>9, <1>10, <1>11,
     <1>12, <1>13, <1>14, <1>15, <1>16, <1>17, <1>18, <1>19, <1>20, <1>21,
     <1>22, <1>23, <1>24, <1>25, <1>26, <1>27, <1>28, <1>29, <1>30, <1>31,
     <1>32, <1>33, <1>34, <1>35, <1>36, <1>37, <1>38, <1>39, <1>40
  DEF Next, Hub, Cleanup, ReadPump,
     WritePump, Pushing

(* Every step changes the session table and the client map together. *)
LEMMA TableStep == Inv /\ [Next]_vars => SessionTable'
<1> SUFFICES ASSUME Inv, [Next]_vars PROVE SessionTable'
  OBVIOUS
<1> USE NoConnAssumption
<1>1. CASE OnConnect
  BY <1>1 DEF OnConnect, Inv, TypeOK, HubInv, SessionTable
<1>2. CASE OnDisconnect
  BY <1>2 DEF OnDisconnect, Disconnect, Inv, TypeOK, HubInv, SessionTable
<1>3. CASE HubStop
  BY <1>3 DEF HubStop, Inv, TypeOK, HubInv, SessionTable
<1>4. CASE HubDrainQuit
  BY <1>4 DEF HubDrainQuit, Disconnect, Inv, TypeOK, HubInv, SessionTable
<1>5. CASE HubDrainKick
  BY <1>5 DEF HubDrainKick, SendCloseFrame, Inv, TypeOK, HubInv, SessionTable
<1>6. CASE HubDrainClose
  BY <1>6 DEF HubDrainClose, Inv, TypeOK, HubInv, SessionTable
<1>7. CASE HubDone
  BY <1>7 DEF HubDone, Inv, TypeOK, HubInv, SessionTable
<1>8. ASSUME NEW c \in Conn, HubRegister(c) PROVE SessionTable'
  BY <1>8 DEF HubRegister, Inv, TypeOK, HubInv, ConnInv, SessionTable
<1>9. ASSUME NEW c \in Conn, HubUnregister(c) PROVE SessionTable'
  BY <1>9 DEF HubUnregister, Inv, TypeOK, HubInv, SessionTable
<1>10. ASSUME NEW c \in Conn, HubDrain(c) PROVE SessionTable'
  BY <1>10 DEF HubDrain, Inv, TypeOK, HubInv, SessionTable
<1>11. CASE Shutdown
  BY <1>11 DEF Shutdown, MainStep, Inv, TypeOK, HubInv, SessionTable
<1>12. CASE HubStopped
  BY <1>12 DEF HubStopped, MainStep, Inv, TypeOK, HubInv, SessionTable
<1>13. CASE GracefulStop
  BY <1>13 DEF GracefulStop, MainStep, Inv, TypeOK, HubInv, SessionTable
<1>14. CASE AsyncDone
  BY <1>14 DEF AsyncDone, MainStep, Inv, TypeOK, HubInv, SessionTable
<1>15. ASSUME NEW c \in Conn, Upgrade(c) PROVE SessionTable'
  BY <1>15 DEF Upgrade, Inv, TypeOK, HubInv, SessionTable
<1>16. ASSUME NEW c \in Conn, StartPumps(c) PROVE SessionTable'
  BY <1>16 DEF StartPumps, Inv, TypeOK, HubInv, SessionTable
<1>17. ASSUME NEW c \in Conn, Lose(c) PROVE SessionTable'
  BY <1>17 DEF Lose, Inv, TypeOK, HubInv, SessionTable
<1>18. ASSUME NEW c \in Conn, Kick(c) PROVE SessionTable'
  BY <1>18 DEF Kick, SendCloseFrame, Inv, TypeOK, HubInv, SessionTable
<1>19. ASSUME NEW c \in Conn, ReadMessage(c) PROVE SessionTable'
  BY <1>19 DEF ReadMessage, Read, Inv, TypeOK, HubInv, SessionTable
<1>20. ASSUME NEW c \in Conn, ReadClose(c) PROVE SessionTable'
  BY <1>20 DEF ReadClose, Read, Inv, TypeOK, HubInv, SessionTable
<1>21. ASSUME NEW c \in Conn, ReadFail(c) PROVE SessionTable'
  BY <1>21 DEF ReadFail, Read, Inv, TypeOK, HubInv, SessionTable
<1>22. ASSUME NEW c \in Conn, HandlerReply(c) PROVE SessionTable'
  BY <1>22 DEF HandlerReply, Read, Inv, TypeOK, HubInv, SessionTable
<1>23. ASSUME NEW c \in Conn, HandlerSilent(c) PROVE SessionTable'
  BY <1>23 DEF HandlerSilent, Read, Inv, TypeOK, HubInv, SessionTable
<1>24. ASSUME NEW c \in Conn, HandlerReturn(c) PROVE SessionTable'
  BY <1>24 DEF HandlerReturn, Read, Inv, TypeOK, HubInv, SessionTable
<1>25. ASSUME NEW c \in Conn, ReaderSend(c) PROVE SessionTable'
  BY <1>25 DEF ReaderSend, Read, Inv, TypeOK, HubInv, SessionTable
<1>26. ASSUME NEW c \in Conn, ReaderPanic(c) PROVE SessionTable'
  BY <1>26 DEF ReaderPanic, Read, Inv, TypeOK, HubInv, SessionTable
<1>27. ASSUME NEW c \in Conn, ReaderClose(c) PROVE SessionTable'
  BY <1>27 DEF ReaderClose, Read, Inv, TypeOK, HubInv, SessionTable
<1>28. ASSUME NEW c \in Conn, WriterSend(c) PROVE SessionTable'
  BY <1>28 DEF WriterSend, Inv, TypeOK, HubInv, SessionTable
<1>29. ASSUME NEW c \in Conn, WriterFail(c) PROVE SessionTable'
  BY <1>29 DEF WriterFail, WriterExit, Inv, TypeOK, HubInv, SessionTable
<1>30. ASSUME NEW c \in Conn, WriterClosed(c) PROVE SessionTable'
  BY <1>30 DEF WriterClosed, WriterExit, Inv, TypeOK, HubInv, SessionTable
<1>31. ASSUME NEW c \in Conn, QuitDone(c) PROVE SessionTable'
  BY <1>31 DEF QuitDone, Inv, TypeOK, HubInv, SessionTable
<1>32. ASSUME NEW p \in Pusher, PushGet(p) PROVE SessionTable'
  BY <1>32 DEF PushGet, NextTarget, Inv, TypeOK, HubInv, SessionTable
<1>33. ASSUME NEW p \in Pusher, PushSend(p) PROVE SessionTable'
  BY <1>33 DEF PushSend, NextTarget, Inv, TypeOK, HubInv, SessionTable
<1>34. ASSUME NEW p \in Pusher, PushPanic(p) PROVE SessionTable'
  BY <1>34 DEF PushPanic, Inv, TypeOK, HubInv, SessionTable
<1>35. ASSUME NEW p \in Pusher, NEW targets \in Batch, PushCall(p, targets)
      PROVE  SessionTable'
  BY <1>35 DEF PushCall, Idle, Inv, TypeOK, HubInv, SessionTable
<1>36. CASE UNCHANGED vars
  BY <1>36 DEF vars, Inv, TypeOK, HubInv, SessionTable
<1>37. CASE GracefulBegin
  BY <1>37 DEF GracefulBegin, MainStep, Inv, TypeOK, HubInv, SessionTable
<1>38. CASE GracefulSkip
  BY <1>38 DEF GracefulSkip, MainStep, Inv, TypeOK, HubInv, SessionTable
<1>39. CASE Serve
  BY <1>39 DEF Serve, Inv, TypeOK, HubInv, SessionTable
<1>40. CASE ServePanic
  BY <1>40 DEF ServePanic, Inv, TypeOK, HubInv, SessionTable
<1> QED
  BY <1>1, <1>2, <1>3, <1>4, <1>5, <1>6, <1>7, <1>8, <1>9, <1>10, <1>11,
     <1>12, <1>13, <1>14, <1>15, <1>16, <1>17, <1>18, <1>19, <1>20, <1>21,
     <1>22, <1>23, <1>24, <1>25, <1>26, <1>27, <1>28, <1>29, <1>30, <1>31,
     <1>32, <1>33, <1>34, <1>35, <1>36, <1>37, <1>38, <1>39, <1>40
  DEF Next, Hub, Cleanup, ReadPump,
     WritePump, Pushing

-----------------------------------------------------------------------------
(* The invariant is inductive. *)
LEMMA InvStep == Inv /\ [Next]_vars => Inv'
  BY TypeStep, HubStep, ConnStep, PumpStep, PushStep, MainInvStep, TableStep DEF Inv

(* It holds in every reachable state, whatever the constants. *)
LEMMA Invariant == Spec => []Inv
  BY InvInit, InvStep, PTL DEF Spec

(* Every variable keeps its type; in particular no send channel ever holds  *)
(* more than its capacity.                                                  *)
THEOREM TypeCorrect == Spec => []TypeOK
<1>1. Inv => TypeOK
  BY DEF Inv
<1> QED
  BY <1>1, Invariant, PTL

(* Outside shutdown OnMessage never runs over a closed send channel.  The   *)
(* reason is PumpInv: the read pump is registered until it has finished,    *)
(* and a registered connection's channel is open (ConnInv).                 *)
THEOREM ReaderChannel == Spec => []ReaderChannelSafe
<1>1. Inv => ReaderChannelSafe
  BY DEF Inv, TypeOK, ConnInv, PumpInv, ReaderChannelSafe, InMessage
<1> QED
  BY <1>1, Invariant, PTL

(* The session table is the hub's client map, up to the callback running.   *)
THEOREM SessionsFollowClients == Spec => []SessionTable
<1>1. Inv => SessionTable
  BY DEF Inv
<1> QED
  BY <1>1, Invariant, PTL

(* When main returns, no session, no OnPlayerQuit and no push call that     *)
(* holds a connection is left; a gRPC server that was there to stop has no  *)
(* call left, and one that was not (main.go:117) only calls that find no    *)
(* session (MainInv).                                                       *)
THEOREM ShutdownLeavesNothing == Spec => []ShutdownComplete
<1>1. Inv => ShutdownComplete
  BY DEF Inv, HubInv, MainInv, SessionTable, ShutdownComplete
<1> QED
  BY <1>1, Invariant, PTL

-----------------------------------------------------------------------------
(* The gateway keeps SubscriberContract. *)

PhaseOf  == [c \in Conn |-> Phase(c)]
InMsgSet == {c \in Conn : InMessage(c)}

(* A step that moves one client's phase, and nothing else of the contract.  *)
Moves(c, from, to) ==
  /\ Phase(c) = from
  /\ \A d \in Conn : Phase(d)' = IF d = c THEN to ELSE Phase(d)
  /\ InMsgSet' = InMsgSet
  /\ (main # "run")' = (main # "run")

(* Such a step is the contract's Move. *)
LEMMA MoveStep ==
  ASSUME NEW c \in Conn, NEW from, NEW to, Moves(c, from, to)
  PROVE  Contract!Move(c, from, to)
<1>1. PhaseOf[c] = from
  BY DEF Moves, PhaseOf
<1>2. PhaseOf' = [PhaseOf EXCEPT ![c] = to]
  BY DEF Moves, PhaseOf
<1> QED
  BY <1>1, <1>2 DEF Moves, PhaseOf, InMsgSet, Contract!Move

(* Between callbacks the hub is at no client, so no phase is in the middle. *)
LEMMA NoCallback ==
  ASSUME Inv, hub \in {"select", "drain", "done"}
  PROVE  Contract!HubFree
<1>1. \A c \in Conn : Phase(c) \notin {"connecting", "disconnecting"}
  BY DEF Inv, Phase
<1> QED
  BY <1>1 DEF Contract!HubFree

(* Steps that leave the contract's state alone. *)
LEMMA Stutters ==
  ASSUME UNCHANGED <<PhaseOf, InMsgSet, main # "run">>
  PROVE  UNCHANGED Contract!vars
  BY DEF PhaseOf, InMsgSet, Contract!vars

(* Initial states map to the contract's initial state. *)
LEMMA ContractInit == Init => Contract!Init
  BY DEF Init, Contract!Init, Phase, InMessage

(* Steps that touch neither the hub's position nor the client map keep the  *)
(* phases, once a connection is past the registration.                      *)
LEMMA SamePhase ==
  ASSUME UNCHANGED <<http, hub, cur, clients>>
  PROVE  PhaseOf' = PhaseOf
  BY DEF PhaseOf, Phase

(* Each step of the gateway is a step of the contract, or leaves it alone.  *)
LEMMA ContractStep == Inv /\ Inv' /\ [Next]_vars => [Contract!Next]_(Contract!vars)
<1> SUFFICES ASSUME Inv, Inv', [Next]_vars PROVE [Contract!Next]_(Contract!vars)
  OBVIOUS
<1> USE NoConnAssumption
<1> DEFINE Step == [Contract!Next]_(Contract!vars)
<1>a. ASSUME UNCHANGED <<PhaseOf, InMsgSet, main # "run">> PROVE Step
  BY <1>a, Stutters
<1>b. ASSUME NEW c \in Conn, \/ Contract!ConnectBegin(c) \/ Contract!ConnectEnd(c)
                             \/ Contract!DisconnectBegin(c) \/ Contract!DisconnectEnd(c)
                             \/ Contract!MessageBegin(c) \/ Contract!MessageEnd(c)
      PROVE Step
  BY <1>b DEF Contract!Next
<1>c. ASSUME Contract!Stop PROVE Step
  BY <1>c DEF Contract!Next
<1> HIDE DEF Step
<1>1. ASSUME NEW c \in Conn, HubRegister(c) PROVE Step
  <2>1. c \in Conn
    BY <1>1 DEF HubRegister, Inv, TypeOK, HubInv, ConnInv
  <2>2. Phase(c) = "new"
    BY <1>1 DEF HubRegister, Phase, Inv, TypeOK, HubInv, ConnInv
  <2>3. \A d \in Conn : Phase(d)' = IF d = c THEN "connecting" ELSE Phase(d)
    <3>1. cur = NoConn /\ hub = "select" /\ cur' = c /\ hub' = "connect"
      BY <1>1 DEF HubRegister, Inv, HubInv
    <3>2. http'[c] = "accepted" /\ \A d \in Conn : d # c => http'[d] = http[d]
      BY <1>1 DEF HubRegister, Inv, TypeOK
    <3>3. \A d \in Conn : d # c => (d \in clients' <=> d \in clients)
      BY <1>1 DEF HubRegister
    <3> QED
      BY <3>1, <3>2, <3>3 DEF Phase
  <2>4. InMsgSet' = InMsgSet /\ UNCHANGED (main # "run")
    BY <1>1 DEF HubRegister, InMsgSet, InMessage, Inv, TypeOK
  <2>5. Contract!Move(c, "new", "connecting")
    BY <2>1, <2>2, <2>3, <2>4, MoveStep DEF Moves
  <2>6. Contract!HubFree
    BY <1>1, NoCallback DEF HubRegister
  <2> QED
    BY <1>b, <2>1, <2>5, <2>6 DEF Contract!ConnectBegin
<1>2. ASSUME OnConnect PROVE Step
  <2>1. cur \in Conn
    BY <1>2 DEF OnConnect, Inv, TypeOK, HubInv, ConnInv
  <2>2. Phase(cur) = "connecting"
    <3>1. http[cur] \notin {"idle", "registering"}
      BY <1>2, <2>1 DEF OnConnect, Inv, HubInv, ConnInv
    <3> QED
      BY <1>2, <3>1 DEF OnConnect, Phase
  <2>3. \A d \in Conn : Phase(d)' = IF d = cur THEN "connected" ELSE Phase(d)
    BY <1>2 DEF OnConnect, Phase, Inv, TypeOK, HubInv, ConnInv
  <2>4. InMsgSet' = InMsgSet /\ UNCHANGED (main # "run")
    BY <1>2 DEF OnConnect, InMsgSet, InMessage, Inv, TypeOK
  <2>5. Contract!Move(cur, "connecting", "connected")
    BY <2>1, <2>2, <2>3, <2>4, MoveStep DEF Moves
  <2> QED
    BY <1>b, <2>1, <2>5 DEF Contract!ConnectEnd
<1>3. ASSUME OnDisconnect PROVE Step
  <2>1. cur \in Conn
    BY <1>3 DEF OnDisconnect, Inv, TypeOK, HubInv, ConnInv
  <2>2. Phase(cur) = "disconnecting"
    BY <1>3 DEF OnDisconnect, Phase, Inv, TypeOK, HubInv, ConnInv
  <2>3. \A d \in Conn : Phase(d)' = IF d = cur THEN "gone" ELSE Phase(d)
    BY <1>3 DEF OnDisconnect, Disconnect, Phase, Inv, TypeOK, HubInv, ConnInv
  <2>4. InMsgSet' = InMsgSet /\ UNCHANGED (main # "run")
    BY <1>3 DEF OnDisconnect, Disconnect, InMsgSet, InMessage, Inv, TypeOK
  <2>5. Contract!Move(cur, "disconnecting", "gone")
    BY <2>1, <2>2, <2>3, <2>4, MoveStep DEF Moves
  <2> QED
    BY <1>b, <2>1, <2>5 DEF Contract!DisconnectEnd
<1>4. ASSUME HubDrainQuit PROVE Step
  <2>1. cur \in Conn
    BY <1>4 DEF HubDrainQuit, Inv, TypeOK, HubInv, ConnInv
  <2>2. Phase(cur) = "disconnecting"
    <3>1. http[cur] \notin {"idle", "registering"}
      BY <1>4, <2>1 DEF HubDrainQuit, Inv, HubInv, ConnInv
    <3> QED
      BY <1>4, <3>1 DEF HubDrainQuit, Phase
  <2>3. \A d \in Conn : Phase(d)' = IF d = cur THEN "gone" ELSE Phase(d)
    BY <1>4 DEF HubDrainQuit, Disconnect, Phase, Inv, TypeOK, HubInv, ConnInv
  <2>4. InMsgSet' = InMsgSet /\ UNCHANGED (main # "run")
    BY <1>4 DEF HubDrainQuit, Disconnect, InMsgSet, InMessage, Inv, TypeOK
  <2>5. Contract!Move(cur, "disconnecting", "gone")
    BY <2>1, <2>2, <2>3, <2>4, MoveStep DEF Moves
  <2> QED
    BY <1>b, <2>1, <2>5 DEF Contract!DisconnectEnd
<1>5. ASSUME NEW c \in Conn, HubDrain(c) PROVE Step
  <2>1. c \in Conn
    BY <1>5 DEF HubDrain, Inv, TypeOK, HubInv, ConnInv
  <2>2. Phase(c) = "connected"
    BY <1>5 DEF HubDrain, Phase, Inv, TypeOK, HubInv, ConnInv
  <2>3. \A d \in Conn : Phase(d)' = IF d = c THEN "disconnecting" ELSE Phase(d)
    <3>1. cur = NoConn /\ hub = "drain" /\ cur' = c /\ hub' = "drainQuit"
      BY <1>5 DEF HubDrain, Inv, HubInv
    <3>2. http[c] \notin {"idle", "registering"}
      BY <1>5 DEF HubDrain, Inv, ConnInv
    <3>3. UNCHANGED <<http, clients>>
      BY <1>5 DEF HubDrain
    <3> QED
      BY <3>1, <3>2, <3>3 DEF Phase
  <2>4. InMsgSet' = InMsgSet /\ UNCHANGED (main # "run")
    BY <1>5 DEF HubDrain, InMsgSet, InMessage, Inv, TypeOK
  <2>5. Contract!Move(c, "connected", "disconnecting")
    BY <2>1, <2>2, <2>3, <2>4, MoveStep DEF Moves
  <2>6. Contract!HubFree
    BY <1>5, NoCallback DEF HubDrain
  <2>7. main # "run"
    BY <1>5 DEF HubDrain, Inv, PumpInv
  <2> QED
    BY <1>b, <2>1, <2>5, <2>6, <2>7 DEF Contract!DisconnectBegin
<1>6. ASSUME NEW c \in Conn, HubUnregister(c) PROVE Step
  <2>1. CASE c \in clients
    <3>1. Phase(c) = "connected"
      BY <1>6, <2>1 DEF HubUnregister, Phase, Inv, TypeOK, HubInv, ConnInv
    <3>2. \A d \in Conn : Phase(d)' = IF d = c THEN "disconnecting" ELSE Phase(d)
      BY <1>6, <2>1 DEF HubUnregister, Phase, Inv, TypeOK, HubInv, ConnInv
    <3>3. InMsgSet' = InMsgSet /\ UNCHANGED (main # "run")
      BY <1>6 DEF HubUnregister, InMsgSet, InMessage, Inv, TypeOK
    <3>4. Contract!Move(c, "connected", "disconnecting")
      BY <3>1, <3>2, <3>3, MoveStep DEF Moves
    <3>5. Contract!HubFree
      BY <1>6, NoCallback DEF HubUnregister
    <3>6. ~InMessage(c)
      BY <1>6 DEF HubUnregister, InMessage
    <3>7. Contract!DisconnectBegin(c)
      BY <3>4, <3>5, <3>6 DEF Contract!DisconnectBegin
    <3> QED
      BY <1>b, <3>7
  <2>2. CASE c \notin clients
    <3>1. PhaseOf' = PhaseOf
      BY <1>6, <2>2, SamePhase DEF HubUnregister
    <3>2. InMsgSet' = InMsgSet /\ UNCHANGED (main # "run")
      BY <1>6 DEF HubUnregister, InMsgSet, InMessage, Inv, TypeOK
    <3> QED
      BY <1>a, <3>1, <3>2
  <2> QED
    BY <2>1, <2>2
<1>7. ASSUME NEW c \in Conn, ReadMessage(c) PROVE Step
  <2>1. PhaseOf' = PhaseOf
    BY <1>7, SamePhase DEF ReadMessage, Read
  <2>2. InMsgSet' = InMsgSet \cup {c} /\ c \notin InMsgSet
    BY <1>7 DEF ReadMessage, Read, InMsgSet, InMessage, Inv, TypeOK
  <2>3. Phase(c) # "new"
    BY <1>7 DEF ReadMessage, Read, Phase, Inv, TypeOK, HubInv, ConnInv
  <2>4. Phase(c) \in {"connecting", "connected"} \/ main # "run"
    BY <1>7 DEF ReadMessage, Read, Phase, PumpInv, Inv, TypeOK, HubInv, ConnInv
  <2>5. UNCHANGED main
    BY <1>7 DEF ReadMessage, Read
  <2>6. Contract!MessageBegin(c)
    BY <2>1, <2>2, <2>3, <2>4, <2>5 DEF PhaseOf, InMsgSet, Contract!MessageBegin
  <2> QED
    BY <1>b, <2>6
<1>8. ASSUME NEW c \in Conn, HandlerSilent(c) PROVE Step
  <2>1. PhaseOf' = PhaseOf
    BY <1>8, SamePhase DEF HandlerSilent, Read
  <2>2. InMsgSet' = InMsgSet \ {c} /\ c \in InMsgSet
    BY <1>8 DEF HandlerSilent, Read, InMsgSet, InMessage, Inv, TypeOK
  <2>3. UNCHANGED main
    BY <1>8 DEF HandlerSilent, Read
  <2>4. Contract!MessageEnd(c)
    BY <2>1, <2>2, <2>3 DEF PhaseOf, InMsgSet, Contract!MessageEnd
  <2> QED
    BY <1>b, <2>4
<1>9. ASSUME NEW c \in Conn, HandlerReturn(c) PROVE Step
  <2>1. PhaseOf' = PhaseOf
    BY <1>9, SamePhase DEF HandlerReturn, Read
  <2>2. InMsgSet' = InMsgSet \ {c} /\ c \in InMsgSet
    BY <1>9 DEF HandlerReturn, Read, InMsgSet, InMessage, Inv, TypeOK
  <2>3. UNCHANGED main
    BY <1>9 DEF HandlerReturn, Read
  <2>4. Contract!MessageEnd(c)
    BY <2>1, <2>2, <2>3 DEF PhaseOf, InMsgSet, Contract!MessageEnd
  <2> QED
    BY <1>b, <2>4
<1>10. ASSUME NEW c \in Conn, ReaderPanic(c) PROVE Step
  <2>1. PhaseOf' = PhaseOf
    BY <1>10, SamePhase DEF ReaderPanic, Read
  <2>2. InMsgSet' = InMsgSet \ {c} /\ c \in InMsgSet
    BY <1>10 DEF ReaderPanic, Read, InMsgSet, InMessage, Inv, TypeOK
  <2>3. UNCHANGED main
    BY <1>10 DEF ReaderPanic, Read
  <2>4. Contract!MessageEnd(c)
    BY <2>1, <2>2, <2>3 DEF PhaseOf, InMsgSet, Contract!MessageEnd
  <2> QED
    BY <1>b, <2>4
<1>11. ASSUME Shutdown PROVE Step
  <2>1. PhaseOf' = PhaseOf /\ InMsgSet' = InMsgSet
    BY <1>11, SamePhase DEF Shutdown, MainStep, InMsgSet, InMessage
  <2>2. main = "run" /\ main' # "run"
    BY <1>11 DEF Shutdown, MainStep
  <2>3. Contract!Stop
    BY <2>1, <2>2 DEF PhaseOf, InMsgSet, Contract!Stop
  <2> QED
    BY <1>c, <2>3
<1>12. ASSUME NEW c \in Conn, Upgrade(c) PROVE Step
  <2>1. \A d \in Conn : Phase(d)' = Phase(d)
    BY <1>12 DEF Upgrade, Phase, Inv, TypeOK, HubInv, ConnInv
  <2>2. InMsgSet' = InMsgSet /\ UNCHANGED (main # "run")
    BY <1>12 DEF Upgrade, InMsgSet, InMessage, Inv, TypeOK
  <2> QED
    BY <1>a, <2>1, <2>2 DEF PhaseOf
<1>13. ASSUME NEW c \in Conn, StartPumps(c) PROVE Step
  <2>1. \A d \in Conn : Phase(d)' = Phase(d)
    <3>1. \A d \in Conn : http'[d] \in {"idle", "registering"}
                            <=> http[d] \in {"idle", "registering"}
      BY <1>13 DEF StartPumps, Inv, TypeOK
    <3>2. UNCHANGED <<hub, cur, clients>>
      BY <1>13 DEF StartPumps
    <3>3. TAKE d \in Conn
    <3>4. http'[d] \in {"idle", "registering"} <=> http[d] \in {"idle", "registering"}
      BY <3>1
    <3> QED
      BY <3>2, <3>4 DEF Phase
  <2>2. InMsgSet' = InMsgSet /\ UNCHANGED (main # "run")
    <3>1. reader[c] = "off" /\ reader' = [reader EXCEPT ![c] = "read"]
      BY <1>13 DEF StartPumps, Inv, ConnInv
    <3>2. \A d \in Conn : InMessage(d)' <=> InMessage(d)
      BY <3>1 DEF InMessage, Inv, TypeOK
    <3>3. InMsgSet' = InMsgSet
      BY <3>2 DEF InMsgSet
    <3> QED
      BY <1>13, <3>3 DEF StartPumps
  <2> QED
    BY <1>a, <2>1, <2>2 DEF PhaseOf
<1>14. ASSUME HubStop PROVE Step
  <2>1. \A d \in Conn : Phase(d)' = Phase(d)
    BY <1>14 DEF HubStop, Phase, Inv, TypeOK, HubInv, ConnInv
  <2>2. InMsgSet' = InMsgSet /\ UNCHANGED (main # "run")
    BY <1>14 DEF HubStop, InMsgSet, InMessage, Inv, TypeOK
  <2> QED
    BY <1>a, <2>1, <2>2 DEF PhaseOf
<1>15. ASSUME HubDrainKick PROVE Step
  <2>1. \A d \in Conn : Phase(d)' = Phase(d)
    BY <1>15 DEF HubDrainKick, SendCloseFrame, Phase, Inv, TypeOK, HubInv, ConnInv
  <2>2. InMsgSet' = InMsgSet /\ UNCHANGED (main # "run")
    BY <1>15 DEF HubDrainKick, SendCloseFrame, InMsgSet, InMessage, Inv, TypeOK
  <2> QED
    BY <1>a, <2>1, <2>2 DEF PhaseOf
<1>16. ASSUME HubDrainClose PROVE Step
  <2>1. \A d \in Conn : Phase(d)' = Phase(d)
    BY <1>16 DEF HubDrainClose, Phase, Inv, TypeOK, HubInv, ConnInv
  <2>2. InMsgSet' = InMsgSet /\ UNCHANGED (main # "run")
    BY <1>16 DEF HubDrainClose, InMsgSet, InMessage, Inv, TypeOK
  <2> QED
    BY <1>a, <2>1, <2>2 DEF PhaseOf
<1>17. ASSUME HubDone PROVE Step
  <2>1. \A d \in Conn : Phase(d)' = Phase(d)
    BY <1>17 DEF HubDone, Phase, Inv, TypeOK, HubInv, ConnInv
  <2>2. InMsgSet' = InMsgSet /\ UNCHANGED (main # "run")
    BY <1>17 DEF HubDone, InMsgSet, InMessage, Inv, TypeOK
  <2> QED
    BY <1>a, <2>1, <2>2 DEF PhaseOf
<1>18. ASSUME HubStopped PROVE Step
  <2>1. InMsgSet' = InMsgSet /\ UNCHANGED (main # "run")
    BY <1>18 DEF HubStopped, MainStep, InMsgSet, InMessage, Inv, TypeOK
  <2> QED
    BY <1>18, <1>a, <2>1, SamePhase DEF HubStopped, MainStep
<1>19. ASSUME GracefulStop PROVE Step
  <2>1. InMsgSet' = InMsgSet /\ UNCHANGED (main # "run")
    BY <1>19 DEF GracefulStop, MainStep, InMsgSet, InMessage, Inv, TypeOK
  <2> QED
    BY <1>19, <1>a, <2>1, SamePhase DEF GracefulStop, MainStep
<1>20. ASSUME AsyncDone PROVE Step
  <2>1. InMsgSet' = InMsgSet /\ UNCHANGED (main # "run")
    BY <1>20 DEF AsyncDone, MainStep, InMsgSet, InMessage, Inv, TypeOK
  <2> QED
    BY <1>20, <1>a, <2>1, SamePhase DEF AsyncDone, MainStep
<1>21. ASSUME NEW c \in Conn, Lose(c) PROVE Step
  <2>1. InMsgSet' = InMsgSet /\ UNCHANGED (main # "run")
    BY <1>21 DEF Lose, InMsgSet, InMessage, Inv, TypeOK
  <2> QED
    BY <1>21, <1>a, <2>1, SamePhase DEF Lose
<1>22. ASSUME NEW c \in Conn, Kick(c) PROVE Step
  <2>1. InMsgSet' = InMsgSet /\ UNCHANGED (main # "run")
    BY <1>22 DEF Kick, SendCloseFrame, InMsgSet, InMessage, Inv, TypeOK
  <2> QED
    BY <1>22, <1>a, <2>1, SamePhase DEF Kick, SendCloseFrame
<1>23. ASSUME NEW c \in Conn, ReadClose(c) PROVE Step
  <2>1. InMsgSet' = InMsgSet /\ UNCHANGED (main # "run")
    BY <1>23 DEF ReadClose, Read, InMsgSet, InMessage, Inv, TypeOK
  <2> QED
    BY <1>23, <1>a, <2>1, SamePhase DEF ReadClose, Read
<1>24. ASSUME NEW c \in Conn, ReadFail(c) PROVE Step
  <2>1. InMsgSet' = InMsgSet /\ UNCHANGED (main # "run")
    BY <1>24 DEF ReadFail, Read, InMsgSet, InMessage, Inv, TypeOK
  <2> QED
    BY <1>24, <1>a, <2>1, SamePhase DEF ReadFail, Read
<1>25. ASSUME NEW c \in Conn, HandlerReply(c) PROVE Step
  <2>1. InMsgSet' = InMsgSet /\ UNCHANGED (main # "run")
    BY <1>25 DEF HandlerReply, Read, InMsgSet, InMessage, Inv, TypeOK
  <2> QED
    BY <1>25, <1>a, <2>1, SamePhase DEF HandlerReply, Read
<1>26. ASSUME NEW c \in Conn, ReaderSend(c) PROVE Step
  <2>1. InMsgSet' = InMsgSet /\ UNCHANGED (main # "run")
    BY <1>26 DEF ReaderSend, Read, InMsgSet, InMessage, Inv, TypeOK
  <2> QED
    BY <1>26, <1>a, <2>1, SamePhase DEF ReaderSend, Read
<1>27. ASSUME NEW c \in Conn, ReaderClose(c) PROVE Step
  <2>1. InMsgSet' = InMsgSet /\ UNCHANGED (main # "run")
    BY <1>27 DEF ReaderClose, Read, InMsgSet, InMessage, Inv, TypeOK
  <2> QED
    BY <1>27, <1>a, <2>1, SamePhase DEF ReaderClose, Read
<1>28. ASSUME NEW c \in Conn, WriterSend(c) PROVE Step
  <2>1. InMsgSet' = InMsgSet /\ UNCHANGED (main # "run")
    BY <1>28 DEF WriterSend, InMsgSet, InMessage, Inv, TypeOK
  <2> QED
    BY <1>28, <1>a, <2>1, SamePhase DEF WriterSend
<1>29. ASSUME NEW c \in Conn, WriterFail(c) PROVE Step
  <2>1. InMsgSet' = InMsgSet /\ UNCHANGED (main # "run")
    BY <1>29 DEF WriterFail, WriterExit, InMsgSet, InMessage, Inv, TypeOK
  <2> QED
    BY <1>29, <1>a, <2>1, SamePhase DEF WriterFail, WriterExit
<1>30. ASSUME NEW c \in Conn, WriterClosed(c) PROVE Step
  <2>1. InMsgSet' = InMsgSet /\ UNCHANGED (main # "run")
    BY <1>30 DEF WriterClosed, WriterExit, InMsgSet, InMessage, Inv, TypeOK
  <2> QED
    BY <1>30, <1>a, <2>1, SamePhase DEF WriterClosed, WriterExit
<1>31. ASSUME NEW c \in Conn, QuitDone(c) PROVE Step
  <2>1. InMsgSet' = InMsgSet /\ UNCHANGED (main # "run")
    BY <1>31 DEF QuitDone, InMsgSet, InMessage, Inv, TypeOK
  <2> QED
    BY <1>31, <1>a, <2>1, SamePhase DEF QuitDone
<1>32. ASSUME NEW p \in Pusher, PushGet(p) PROVE Step
  <2>1. InMsgSet' = InMsgSet /\ UNCHANGED (main # "run")
    BY <1>32 DEF PushGet, InMsgSet, InMessage, Inv, TypeOK
  <2> QED
    BY <1>32, <1>a, <2>1, SamePhase DEF PushGet
<1>33. ASSUME NEW p \in Pusher, PushSend(p) PROVE Step
  <2>1. InMsgSet' = InMsgSet /\ UNCHANGED (main # "run")
    BY <1>33 DEF PushSend, InMsgSet, InMessage, Inv, TypeOK
  <2> QED
    BY <1>33, <1>a, <2>1, SamePhase DEF PushSend
<1>34. ASSUME NEW p \in Pusher, PushPanic(p) PROVE Step
  <2>1. InMsgSet' = InMsgSet /\ UNCHANGED (main # "run")
    BY <1>34 DEF PushPanic, InMsgSet, InMessage, Inv, TypeOK
  <2> QED
    BY <1>34, <1>a, <2>1, SamePhase DEF PushPanic
<1>35. ASSUME NEW p \in Pusher, NEW targets \in Batch, PushCall(p, targets) PROVE Step
  <2>1. InMsgSet' = InMsgSet /\ UNCHANGED (main # "run")
    BY <1>35 DEF PushCall, InMsgSet, InMessage, Inv, TypeOK
  <2> QED
    BY <1>35, <1>a, <2>1, SamePhase DEF PushCall
<1>36. ASSUME UNCHANGED vars PROVE Step
  <2>1. InMsgSet' = InMsgSet /\ UNCHANGED (main # "run")
    BY <1>36 DEF vars, InMsgSet, InMessage
  <2> QED
    BY <1>36, <1>a, <2>1, SamePhase DEF vars
<1>37. ASSUME GracefulBegin PROVE Step
  <2>1. InMsgSet' = InMsgSet /\ UNCHANGED (main # "run")
    BY <1>37 DEF GracefulBegin, MainStep, InMsgSet, InMessage, Inv, TypeOK
  <2> QED
    BY <1>37, <1>a, <2>1, SamePhase DEF GracefulBegin, MainStep
<1>38. ASSUME GracefulSkip PROVE Step
  <2>1. InMsgSet' = InMsgSet /\ UNCHANGED (main # "run")
    BY <1>38 DEF GracefulSkip, MainStep, InMsgSet, InMessage, Inv, TypeOK
  <2> QED
    BY <1>38, <1>a, <2>1, SamePhase DEF GracefulSkip, MainStep
<1>39. ASSUME Serve PROVE Step
  <2>1. InMsgSet' = InMsgSet /\ UNCHANGED (main # "run")
    BY <1>39 DEF Serve, InMsgSet, InMessage, Inv, TypeOK
  <2> QED
    BY <1>39, <1>a, <2>1, SamePhase DEF Serve
<1>40. ASSUME ServePanic PROVE Step
  <2>1. InMsgSet' = InMsgSet /\ UNCHANGED (main # "run")
    BY <1>40 DEF ServePanic, InMsgSet, InMessage, Inv, TypeOK
  <2> QED
    BY <1>40, <1>a, <2>1, SamePhase DEF ServePanic
<1> QED
  <2>1. Step
    BY <1>1, <1>2, <1>3, <1>4, <1>5, <1>6, <1>7, <1>8, <1>9, <1>10, <1>11,
       <1>12, <1>13, <1>14, <1>15, <1>16, <1>17, <1>18, <1>19, <1>20, <1>21,
       <1>22, <1>23, <1>24, <1>25, <1>26, <1>27, <1>28, <1>29, <1>30, <1>31,
       <1>32, <1>33, <1>34, <1>35, <1>36, <1>37, <1>38, <1>39, <1>40
    DEF Next, Hub, Cleanup, ReadPump, WritePump, Pushing
  <2> QED
    BY <2>1 DEF Step

(* Whatever the pumps, the peers and main's cleanup do, the subscriber sees *)
(* its callbacks in the order SubscriberContract gives: this is what        *)
(* PlayerSession takes for granted.                                         *)
THEOREM GatewayKeepsContract == Spec => KeepsContract
<1>1. Inv /\ Inv' /\ [Next]_vars => [Contract!Next]_(Contract!vars)
  BY ContractStep
<1> QED
  BY <1>1, ContractInit, Invariant, PTL DEF Spec, KeepsContract, Contract!Spec

(* The contract seen from one connection, as PlayerSession takes it. *)
OfOne(c) == INSTANCE SubscriberContract WITH
  Conn <- {c}, phase <- [x \in {c} |-> PhaseOf[x]], inMsg <- InMsgSet \cap {c},
  stopping <- main # "run"

(* What the contract does for all connections it does for each: a step of    *)
(* another one leaves this one alone, and a hub that is free is free for it. *)
LEMMA OfOneStep ==
  ASSUME NEW c \in Conn, [Contract!Next]_(Contract!vars)
  PROVE  [OfOne(c)!Next]_(OfOne(c)!vars)
<1> DEFINE Step == [OfOne(c)!Next]_(OfOne(c)!vars)
<1>1. Contract!HubFree => OfOne(c)!HubFree
  BY DEF Contract!HubFree, OfOne!HubFree, PhaseOf
<1>2. ASSUME NEW d \in Conn, NEW from, NEW to, Contract!Move(d, from, to)
      PROVE  IF d = c THEN OfOne(c)!Move(c, from, to) ELSE UNCHANGED OfOne(c)!vars
  <2>1. /\ PhaseOf[d] = from /\ PhaseOf' = [PhaseOf EXCEPT ![d] = to]
        /\ InMsgSet' = InMsgSet /\ (main # "run")' = (main # "run")
    BY <1>2 DEF Contract!Move, PhaseOf, InMsgSet
  <2>2. \A x \in Conn : PhaseOf'[x] = IF x = d THEN to ELSE PhaseOf[x]
    BY <2>1 DEF PhaseOf
  <2> HIDE DEF PhaseOf, InMsgSet
  <2> QED
    BY <2>1, <2>2 DEF OfOne!Move, OfOne!vars
<1>3. ASSUME NEW d \in Conn, Contract!MessageBegin(d) \/ Contract!MessageEnd(d)
      PROVE  Step
  <2>1. PhaseOf' = PhaseOf /\ (main # "run")' = (main # "run")
    BY <1>3 DEF Contract!MessageBegin, Contract!MessageEnd, PhaseOf
  <2>2. CASE d # c
    <3>1. InMsgSet' \cap {c} = InMsgSet \cap {c}
      BY <1>3, <2>2 DEF Contract!MessageBegin, Contract!MessageEnd, InMsgSet
    <3> QED
      BY <2>1, <3>1 DEF OfOne!vars
  <2>3. CASE d = c /\ Contract!MessageBegin(d)
    BY <2>1, <2>3 DEF Contract!MessageBegin, OfOne!MessageBegin, OfOne!Next, PhaseOf, InMsgSet
  <2>4. CASE d = c /\ Contract!MessageEnd(d)
    BY <2>1, <2>4 DEF Contract!MessageEnd, OfOne!MessageEnd, OfOne!Next, PhaseOf, InMsgSet
  <2> QED
    BY <1>3, <2>2, <2>3, <2>4
<1>4. ASSUME NEW d \in Conn, Contract!ConnectBegin(d) \/ Contract!ConnectEnd(d) \/ Contract!DisconnectEnd(d)
      PROVE  Step
  BY <1>1, <1>2, <1>4 DEF Contract!ConnectBegin, Contract!ConnectEnd, Contract!DisconnectEnd,
     OfOne!ConnectBegin, OfOne!ConnectEnd, OfOne!DisconnectEnd, OfOne!Next
<1>5. ASSUME NEW d \in Conn, Contract!DisconnectBegin(d) PROVE Step
  <2>1. d = c => c \notin InMsgSet \cap {c} \/ main # "run"
    BY <1>5 DEF Contract!DisconnectBegin, InMsgSet
  <2> QED
    BY <1>1, <1>2, <1>5, <2>1 DEF Contract!DisconnectBegin, OfOne!DisconnectBegin, OfOne!Next
<1>6. CASE Contract!Stop
  BY <1>6 DEF Contract!Stop, OfOne!Stop, OfOne!Next, PhaseOf, InMsgSet
<1>7. CASE UNCHANGED Contract!vars
  BY <1>7 DEF Contract!vars, OfOne!vars, PhaseOf, InMsgSet
<1> QED
  BY <1>3, <1>4, <1>5, <1>6, <1>7 DEF Contract!Next

(* Each connection by itself sees the contract of one connection: what       *)
(* PlayerSession starts from holds of every player beside all the others.    *)
THEOREM EachConnectionKeepsContract == ASSUME NEW c \in Conn PROVE Spec => OfOne(c)!Spec
<1>1. Contract!Init => OfOne(c)!Init
  BY DEF Contract!Init, OfOne!Init, PhaseOf, InMsgSet
<1>2. [Contract!Next]_(Contract!vars) => [OfOne(c)!Next]_(OfOne(c)!vars)
  BY OfOneStep
<1> QED
  BY <1>1, <1>2, GatewayKeepsContract, PTL DEF KeepsContract, Contract!Spec, OfOne!Spec
=============================================================================
