--------------------------- MODULE GameServer_proofs ---------------------------
(***************************************************************************)
(* Theorems about GameServer, for any sessions, goroutines and             *)
(* connections: it uses its pool as GrpcPool allows, so that what is       *)
(* proved of the pool holds in it.                                         *)
(***************************************************************************)
EXTENDS GameServer, TLAPS

PP == INSTANCE GrpcPool_proofs WITH Target <- {Host, NoHost}

(* A goroutine in the pool has a push; a result comes after the lookup.      *)
JobInv ==
  \A g \in Caller :
    /\ at[g] # "idle" => job[g] # NoJob
    /\ result[g] # "none" => at[g] \in {"got", "failed"}

Inv == TypeOK /\ JobInv /\ PP!Inv

-----------------------------------------------------------------------------
USE NoneAssumption, NoJobAssumption

(* A push is a call of the pool; everything else leaves the pool alone. *)
LEMMA PoolStep == [Next]_vars => [Pool!Next]_(Pool!vars)
<1> DEFINE Step == [Pool!Next]_(Pool!vars)
<1> SUFFICES ASSUME [Next]_vars PROVE Step
  OBVIOUS
<1>a. ASSUME UNCHANGED pool PROVE Step
  BY <1>a DEF pool, Pool!vars, Pool!table, Pool!caller, Pool!close
<1>1. ASSUME NEW s \in Session, JoinCall(s) PROVE Step
  BY <1>1, <1>a DEF JoinCall
<1>2. ASSUME NEW s \in Session, JoinNoUser(s) PROVE Step
  BY <1>2, <1>a DEF JoinNoUser
<1>3. ASSUME NEW s \in Session, JoinPeer(s) PROVE Step
  BY <1>3, <1>a DEF JoinPeer
<1>4. ASSUME NEW s \in Session, OnJoin(s) PROVE Step
  BY <1>4, <1>a DEF OnJoin
<1>5. ASSUME NEW s \in Session, OnJoinFail(s) PROVE Step
  BY <1>5, <1>a DEF OnJoinFail
<1>6. ASSUME NEW s \in Session, MsgCall(s) PROVE Step
  BY <1>6, <1>a DEF MsgCall
<1>7. ASSUME NEW s \in Session, GiveUp(s) PROVE Step
  BY <1>7, <1>a DEF GiveUp
<1>8. ASSUME NEW s \in Session, MsgPush(s) PROVE Step
  BY <1>8, <1>a DEF MsgPush
<1>9. ASSUME NEW s \in Session, MsgBroadcast(s) PROVE Step
  BY <1>9, <1>a DEF MsgBroadcast
<1>10. ASSUME NEW s \in Session, MsgReply(s) PROVE Step
  BY <1>10, <1>a DEF MsgReply
<1>11. ASSUME NEW s \in Session, Leave(s) PROVE Step
  BY <1>11, <1>a DEF Leave
<1>12. ASSUME NEW s \in Session, QuitCall(s) PROVE Step
  BY <1>12, <1>a DEF QuitCall
<1>13. ASSUME NEW s \in Session, OnQuit(s) PROVE Step
  BY <1>13, <1>a DEF OnQuit
<1>14. ASSUME NEW g \in Caller, PushBegin(g) PROVE Step
  BY <1>14 DEF PushBegin, HostOf, Pool!Next
<1>15. ASSUME NEW g \in Caller, PushGet(g) PROVE Step
  BY <1>15 DEF PushGet, Pool!Next
<1>16. ASSUME NEW g \in Caller, PushInvoke(g) PROVE Step
  BY <1>16, <1>a DEF PushInvoke
<1>17. ASSUME NEW g \in Caller, PushEnd(g) PROVE Step
  BY <1>17 DEF PushEnd, Pool!Next
<1>18. CASE ClosePool
  BY <1>18 DEF ClosePool, Pool!Next
<1>19. CASE GracefulStop
  BY <1>19, <1>a DEF GracefulStop
<1>20. CASE Drained
  BY <1>20, <1>a DEF Drained
<1>21. CASE UNCHANGED vars
  BY <1>21, <1>a DEF vars
<1> QED
  BY <1>1, <1>2, <1>3, <1>4, <1>5, <1>6, <1>7, <1>8, <1>9, <1>10, <1>11,
     <1>12, <1>13, <1>14, <1>15, <1>16, <1>17, <1>18, <1>19, <1>20, <1>21
  DEF Next, Handling, Pushing, Cleanup

(* GameServer implements GrpcPool. *)
THEOREM GameServerKeepsPool == Spec => Pool!Spec
<1>1. Init => Pool!Init
  BY DEF Init
<1> QED
  BY <1>1, PoolStep, PTL DEF Spec, Pool!Spec

(* The pool of the proofs is the pool of the model. *)
LEMMA SamePool ==
  /\ Pool!Init => PP!Init
  /\ [Pool!Next]_(Pool!vars) => [PP!Next]_(PP!vars)
<1>1. Pool!Init => PP!Init
  BY Zenon DEF Pool!Init, PP!Init
<1>2. [Pool!Next]_(Pool!vars) => [PP!Next]_(PP!vars)
  BY Zenon
  DEF Pool!Next, PP!Next, Pool!Get, PP!Get, Pool!Finish, PP!Finish, Pool!Call,
      PP!Call, Pool!CloseBegin, PP!CloseBegin, Pool!Close, PP!Close, Pool!Load,
      PP!Load, Pool!Look, PP!Look, Pool!Drop, PP!Drop, Pool!Lock, PP!Lock,
      Pool!Dial, PP!Dial, Pool!DialFail, PP!DialFail, Pool!Store, PP!Store,
      Pool!Miss, PP!Miss, Pool!Unlock, PP!Unlock, Pool!Goto, PP!Goto,
      Pool!CloseConn, PP!CloseConn, Pool!CloseDelete, PP!CloseDelete,
      Pool!CloseEnd, PP!CloseEnd, Pool!Made, PP!Made, Pool!Stored, PP!Stored,
      Pool!vars, PP!vars, Pool!table, PP!table, Pool!caller, PP!caller,
      Pool!close, PP!close
<1> QED
  BY <1>1, <1>2

(* What is proved of the pool holds in the game server. *)
LEMMA PoolInvariant == Spec => [](PP!Inv /\ PP!OpenInv /\ PP!CloseReachesAll /\ PP!SingleInv)
<1>1. Spec => PP!Spec
  BY GameServerKeepsPool, SamePool, PTL DEF Pool!Spec, PP!Spec
<1> QED
  BY <1>1, PP!Invariance, PTL

-----------------------------------------------------------------------------
(* What a player's leaving makes of its session. *)
LEMMA LeftType ==
  ASSUME NEW s \in Session, sess \in [Session -> {"open", "in", "left", "gone"}]
  PROVE  Left(s) \in [Session -> {"open", "in", "left", "gone"}]
<1> DEFINE v == CASE sess[s] = "open" -> "gone" [] sess[s] = "in" -> "left" [] OTHER -> sess[s]
<1>1. v \in {"open", "in", "left", "gone"}
  BY Zenon
<1>2. Left(s) = [sess EXCEPT ![s] = v]
  BY Zenon DEF Left
<1> HIDE DEF v
<1> QED
  BY <1>1, <1>2

(* Goroutines that are started take up jobs and were free. *)
LEMMA SpawnStep ==
  ASSUME NEW js, js \subseteq Job, Spawn(js), job \in [Caller -> Job \cup {NoJob}]
  PROVE  /\ job' \in [Caller -> Job \cup {NoJob}] /\ result' = result
         /\ \A g \in Caller : job'[g] # job[g] => job[g] = NoJob
         /\ \A g \in Caller : job[g] # NoJob => job'[g] = job[g]
<1>1. PICK f \in [js -> Free] :
        /\ job' = [g \in Caller |-> IF \E j \in js : f[j] = g
                                    THEN CHOOSE j \in js : f[j] = g ELSE job[g]]
        /\ result' = result
  BY DEF Spawn
<1>2. ASSUME NEW g \in Caller, \E j \in js : f[j] = g
      PROVE  job'[g] \in Job /\ job[g] = NoJob
  <2>1. (CHOOSE j \in js : f[j] = g) \in js
    BY <1>2, Zenon
  <2> QED
    BY <1>1, <1>2, <2>1 DEF Free
<1>3. ASSUME NEW g \in Caller, ~\E j \in js : f[j] = g
      PROVE  job'[g] = job[g]
  BY <1>1, <1>3
<1>4. \A g \in Caller : job'[g] \in Job \cup {NoJob}
  BY <1>2, <1>3
<1>5. job' \in [Caller -> Job \cup {NoJob}]
  BY <1>1, <1>4
<1> QED
  BY <1>1, <1>2, <1>3, <1>5

(* A context that ends leaves every push with its goroutine. *)
LEMMA ExpireStep ==
  ASSUME NEW s \in Session, Expire(s), job \in [Caller -> Job \cup {NoJob}]
  PROVE  /\ job' \in [Caller -> Job \cup {NoJob}] /\ result' = result
         /\ \A g \in Caller : job'[g] = NoJob <=> job[g] = NoJob
  BY DEF Expire, Job

(* The pushes of a call go out in its player's name. *)
LEMMA PushType ==
  ASSUME NEW s \in Session, NEW by \in {"send", "kick", "broadcast"}, NEW p \in Session
  PROVE  Push(s, by, p) \in Job
  BY DEF Push, Job

(* Where the pool's callers are: at a result they wait for their own Finish. *)
LEMMA GetStep ==
  ASSUME PP!TypeOK, NEW g \in Caller, Pool!Get(g)
  PROVE  /\ at[g] \notin {"idle", "got", "failed"} /\ want' = want
         /\ \A h \in Caller : h # g => at'[h] = at[h]
  BY DEF Pool!Get, Pool!Load, Pool!Look, Pool!Drop, Pool!Lock, Pool!Dial, Pool!DialFail,
         Pool!Store, Pool!Goto, Pool!table, Pool!caller, Pool!close, PP!TypeOK

(* No call is under way at first. *)
LEMMA InvInit == Init => Inv
<1> SUFFICES ASSUME Init PROVE Inv
  OBVIOUS
<1>1. PP!Inv /\ PP!OpenInv
  BY SamePool, PP!InitInv DEF Init
<1>2. Pool!TypeOK
  BY <1>1 DEF PP!Inv, PP!TypeOK, Pool!TypeOK
<1>3. TypeOK
  BY <1>2 DEF Init, TypeOK
<1>4. JobInv
  BY DEF Init, Pool!Init, JobInv
<1> QED
  BY <1>1, <1>3, <1>4 DEF Inv

(* Every step keeps the types and what a goroutine in the pool has. *)
LEMMA InvStep == Inv /\ [Next]_vars => Inv'
<1> DEFINE Rest == TypeOK /\ JobInv
<1> SUFFICES ASSUME Inv, [Next]_vars PROVE Rest'
  <2> SUFFICES ASSUME Inv, [Next]_vars PROVE Inv'
    OBVIOUS
  <2>1. PP!Inv'
    BY PoolStep, SamePool, PP!InvStep DEF Inv
  <2> QED
    BY <2>1 DEF Inv
<1>a. Pool!TypeOK'
  BY PoolStep, SamePool, PP!InvStep DEF Inv, PP!Inv, PP!TypeOK, Pool!TypeOK
<1>b. /\ at \in [Caller -> {"idle", "load", "look", "drop", "lock", "dial", "store", "got", "failed"}]
      /\ want \in [Caller -> {Host, NoHost, NoTarget}]
  BY DEF Inv, PP!Inv, PP!TypeOK
<1> USE <1>a, <1>b DEF Inv, TypeOK, JobInv, pool, push, handlers
<1>1. ASSUME NEW s \in Session, JoinCall(s) PROVE Rest'
  BY <1>1 DEF JoinCall, Goto
<1>2. ASSUME NEW s \in Session, JoinNoUser(s) PROVE Rest'
  BY <1>2 DEF JoinNoUser, Goto
<1>3. ASSUME NEW s \in Session, JoinPeer(s) PROVE Rest'
  BY <1>3 DEF JoinPeer, Goto
<1>4. ASSUME NEW s \in Session, OnJoin(s) PROVE Rest'
  <2>1. [by |-> "welcome", to |-> s, from |-> s, ctx |-> TRUE] \in Job
    BY DEF Job
  <2>2. /\ job' \in [Caller -> Job \cup {NoJob}] /\ result' = result
        /\ \A h \in Caller : job[h] # NoJob => job'[h] = job[h]
    BY <1>4, <2>1, SpawnStep DEF OnJoin
  <2>3. sess' \in [Session -> {"open", "in", "left", "gone"}]
    BY <1>4 DEF OnJoin
  <2> QED
    BY <1>4, <2>2, <2>3 DEF OnJoin, Goto
<1>5. ASSUME NEW s \in Session, OnJoinFail(s) PROVE Rest'
  BY <1>5 DEF OnJoinFail, Goto
<1>6. ASSUME NEW s \in Session, MsgCall(s) PROVE Rest'
  BY <1>6 DEF MsgCall, Goto
<1>7. ASSUME NEW s \in Session, GiveUp(s) PROVE Rest'
  <2> QED
    BY <1>7, ExpireStep DEF GiveUp
<1>8. ASSUME NEW s \in Session, MsgPush(s) PROVE Rest'
  <2>1. PICK by \in {"send", "kick"} : Spawn({Push(s, by, s)})
    BY <1>8 DEF MsgPush
  <2>2. /\ job' \in [Caller -> Job \cup {NoJob}] /\ result' = result
        /\ \A h \in Caller : job[h] # NoJob => job'[h] = job[h]
    BY <2>1, PushType, SpawnStep
  <2> QED
    BY <1>8, <2>2 DEF MsgPush, Goto
<1>9. ASSUME NEW s \in Session, MsgBroadcast(s) PROVE Rest'
  <2>1. {Push(s, "broadcast", p) : p \in peers} \subseteq Job
    BY PushType
  <2>2. /\ job' \in [Caller -> Job \cup {NoJob}] /\ result' = result
        /\ \A h \in Caller : job[h] # NoJob => job'[h] = job[h]
    BY <1>9, <2>1, SpawnStep DEF MsgBroadcast
  <2> QED
    BY <1>9, <2>2 DEF MsgBroadcast, Goto
<1>10. ASSUME NEW s \in Session, MsgReply(s) PROVE Rest'
  <2>1. /\ job' \in [Caller -> Job \cup {NoJob}] /\ result' = result
        /\ \A h \in Caller : job'[h] = NoJob <=> job[h] = NoJob
    BY <1>10, ExpireStep DEF MsgReply
  <2> QED
    BY <1>10, <2>1 DEF MsgReply, Goto
<1>11. ASSUME NEW s \in Session, Leave(s) PROVE Rest'
  <2> QED
    BY <1>11, LeftType DEF Leave
<1>12. ASSUME NEW s \in Session, QuitCall(s) PROVE Rest'
  BY <1>12 DEF QuitCall, Goto
<1>13. ASSUME NEW s \in Session, OnQuit(s) PROVE Rest'
  BY <1>13 DEF OnQuit, Goto
<1>14. ASSUME NEW g \in Caller, PushBegin(g) PROVE Rest'
  <2>1. /\ at[g] = "idle" /\ at' = [at EXCEPT ![g] = "load"]
        /\ want' = [want EXCEPT ![g] = HostOf(job[g])]
    BY <1>14 DEF PushBegin, Pool!Call, Pool!Goto
  <2> QED
    BY <1>14, <2>1 DEF PushBegin, HostOf
<1>15. ASSUME NEW g \in Caller, PushGet(g) PROVE Rest'
  <2>1. /\ at[g] \notin {"idle", "got", "failed"} /\ want' = want
        /\ \A h \in Caller : h # g => at'[h] = at[h]
    BY <1>15, GetStep DEF PushGet, PP!Inv
  <2> QED
    BY <1>15, <2>1 DEF PushGet
<1>16. ASSUME NEW g \in Caller, PushInvoke(g) PROVE Rest'
  <2>1. job[g] \in Job
    BY <1>16 DEF PushInvoke
  <2>2. sess' \in [Session -> {"open", "in", "left", "gone"}]
    <3>1. job[g].to \in Session
      BY <2>1 DEF Job
    <3> QED
      BY <1>16, <3>1, LeftType DEF PushInvoke
  <2>3. PICK r \in {"ok", "timeout", "failed"} : result' = [result EXCEPT ![g] = r]
    BY <1>16 DEF PushInvoke
  <2> QED
    BY <1>16, <2>2, <2>3 DEF PushInvoke
<1>17. ASSUME NEW g \in Caller, PushEnd(g) PROVE Rest'
  <2>1. at[g] # "idle" /\ job[g] \in Job
    BY <1>17 DEF PushEnd
  <2>2. msg' \in [Session -> {"idle", "onMessage", "push"}]
    <3>1. job[g].from \in Session
      BY <2>1 DEF Job
    <3> QED
      BY <1>17, <3>1 DEF PushEnd
  <2>3. at' = [at EXCEPT ![g] = "idle"] /\ want' = [want EXCEPT ![g] = NoTarget]
    BY <1>17 DEF PushEnd, Pool!Finish, Pool!Goto
  <2> QED
    BY <1>17, <2>2, <2>3 DEF PushEnd
<1>18. CASE ClosePool
  <2>1. UNCHANGED <<at, want>>
    BY <1>18 DEF ClosePool, Pool!CloseBegin, Pool!Close, Pool!CloseConn, Pool!CloseDelete,
             Pool!CloseEnd, Pool!caller
  <2> QED
    BY <1>18, <2>1 DEF ClosePool
<1>19. CASE GracefulStop
  BY <1>19 DEF GracefulStop
<1>20. CASE Drained
  BY <1>20 DEF Drained
<1>21. CASE UNCHANGED vars
  BY <1>21 DEF vars
<1> QED
  BY <1>1, <1>2, <1>3, <1>4, <1>5, <1>6, <1>7, <1>8, <1>9, <1>10, <1>11,
     <1>12, <1>13, <1>14, <1>15, <1>16, <1>17, <1>18, <1>19, <1>20, <1>21
  DEF Next, Handling, Pushing, Cleanup

(* The invariant holds throughout. *)
LEMMA Invariant == Spec => []Inv
  BY InvInit, InvStep, PTL DEF Spec

(* Every variable of the game server and of its pool keeps its type; a       *)
(* goroutine in the pool has a push to make.                                 *)
THEOREM TypeCorrect == Spec => []TypeOK
<1>1. Inv => TypeOK
  BY DEF Inv
<1> QED
  BY <1>1, Invariant, PTL

(* The pool of a game server has one connection for a connector until the    *)
(* cleanup closes it, however many peers push at the same time, and the      *)
(* cleanup closes every connection that was in it (peer.go:40,               *)
(* runner.go:124).                                                           *)
THEOREM PoolShared == Spec => [](Pool!OneConnPerTarget /\ Pool!CloseReachesAll)
<1>1. PP!OpenInv /\ PP!SingleInv => Pool!OneConnPerTarget
  BY DEF PP!OpenInv, PP!StoredInv, PP!SingleInv, PP!Kept, PP!Made, Pool!OneConnPerTarget, Pool!Made
<1>2. PP!CloseReachesAll => Pool!CloseReachesAll
  BY DEF PP!CloseReachesAll, Pool!CloseReachesAll
<1> QED
  BY <1>1, <1>2, PoolInvariant, PTL
=================================================================================
