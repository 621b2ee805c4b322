---------------------------- MODULE GrpcPool_proofs ----------------------------
(***************************************************************************)
(* Theorems about GrpcPool, for any callers, targets and connections.      *)
(***************************************************************************)
EXTENDS GrpcPool, TLAPS

(* A caller knows its target, and in some places its connection. *)
CallerInv ==
  \A g \in Caller :
    /\ at[g] # "idle" => want[g] \in Target
    /\ at[g] \in {"look", "drop", "store", "got"} => seen[g] \in Conn

(* Dialling and storing is for the holder of the mutex. *)
LockInv == \A g \in Caller : at[g] \in {"dial", "store"} => mu = g

Inv == TypeOK /\ CallerInv /\ LockInv

(* Before Close, what is stored is open and was dialled for its target;      *)
(* who looks at a connection or has got one looks at what is stored, and     *)
(* who dials or stores does so where nothing is stored.                      *)
StoredInv ==
  /\ shut = {} /\ key = NoTarget
  /\ \A g \in Caller :
       /\ at[g] # "drop"
       /\ at[g] \in {"look", "got"} => conns[want[g]] = seen[g]
       /\ at[g] \in {"dial", "store"} => conns[want[g]] = NoConn
       /\ at[g] = "store" => dialled[seen[g]] = want[g]

(* Every connection made is stored for its target or about to be. *)
Kept(k) == \/ conns[dialled[k]] = k
           \/ \E g \in Caller : at[g] = "store" /\ seen[g] = k

OpenInv == closer = "no" => StoredInv /\ \A k \in Made : Kept(k)

(* No two connections to one target. *)
SingleInv == closer = "no" => \A j, k \in Made : dialled[j] = dialled[k] => j = k

(* While Close ranges, what was stored when it began and is not closed is    *)
(* still where it was, still to be visited, and no caller is about to delete *)
(* or replace it.                                                            *)
Waiting(k, t) ==
  /\ conns[t] = k
  /\ \A g \in Caller : want[g] = t =>
       /\ at[g] = "look" => seen[g] = k
       /\ at[g] \notin {"drop", "dial", "store"}

RangeInv ==
  /\ key \notin rest
  /\ closer = "range" => \A k \in first \ shut : \E t \in rest : Waiting(k, t)

USE NoneAssumption

-----------------------------------------------------------------------------
(* Every step keeps the types, what a caller knows and who holds the mutex.  *)
LEMMA InvStep == Inv /\ [Next]_vars => Inv'
<1> SUFFICES ASSUME Inv, [Next]_vars PROVE Inv'
  OBVIOUS
<1> USE DEF Inv, TypeOK, CallerInv, LockInv, table, caller, close, Goto
<1>1. CASE UNCHANGED vars
  BY <1>1 DEF vars
<1>2. ASSUME NEW g \in Caller, NEW t \in Target, Call(g, t) PROVE Inv'
  BY <1>2 DEF Call
<1>3. ASSUME NEW g \in Caller, Load(g) PROVE Inv'
  BY <1>3 DEF Load, Miss
<1>4. ASSUME NEW g \in Caller, Look(g) PROVE Inv'
  BY <1>4 DEF Look, Unlock
<1>5. ASSUME NEW g \in Caller, Drop(g) PROVE Inv'
  BY <1>5 DEF Drop, Miss
<1>6. ASSUME NEW g \in Caller, Lock(g) PROVE Inv'
  BY <1>6 DEF Lock
<1>7. ASSUME NEW g \in Caller, NEW k \in Conn, Dial(g, k) PROVE Inv'
  BY <1>7 DEF Dial
<1>8. ASSUME NEW g \in Caller, DialFail(g) PROVE Inv'
  BY <1>8 DEF DialFail, Unlock
<1>9. ASSUME NEW g \in Caller, Store(g) PROVE Inv'
  BY <1>9 DEF Store, Unlock
<1>10. ASSUME NEW g \in Caller, Finish(g) PROVE Inv'
  BY <1>10 DEF Finish
<1>11. CASE CloseBegin
  BY <1>11 DEF CloseBegin, Stored
<1>12. ASSUME NEW t \in Target, CloseConn(t) PROVE Inv'
  BY <1>12 DEF CloseConn
<1>13. CASE CloseDelete
  BY <1>13 DEF CloseDelete
<1>14. CASE CloseEnd
  BY <1>14 DEF CloseEnd
<1> QED
  BY <1>1, <1>2, <1>3, <1>4, <1>5, <1>6, <1>7, <1>8, <1>9, <1>10, <1>11, <1>12, <1>13, <1>14
  DEF Next, Get, Close

-----------------------------------------------------------------------------
(* What is stored before Close: only a caller's own store and dial change    *)
(* it, and both need the mutex and a place in the map that is free.          *)
LEMMA StoredStep ==
  Inv /\ closer = "no" /\ closer' = "no" /\ StoredInv /\ [Next]_vars => StoredInv'
<1> SUFFICES ASSUME Inv, closer = "no", closer' = "no", StoredInv, [Next]_vars
             PROVE StoredInv'
  OBVIOUS
<1> USE DEF Inv, TypeOK, CallerInv, LockInv, StoredInv, table, caller, close, Goto
<1>1. CASE UNCHANGED vars
  BY <1>1 DEF vars
<1>2. ASSUME NEW g \in Caller, NEW t \in Target, Call(g, t) PROVE StoredInv'
  BY <1>2 DEF Call
<1>3. ASSUME NEW g \in Caller, Load(g) PROVE StoredInv'
  BY <1>3 DEF Load, Miss
<1>4. ASSUME NEW g \in Caller, Look(g) PROVE StoredInv'
  BY <1>4 DEF Look, Unlock
<1>5. ASSUME NEW g \in Caller, Drop(g) PROVE StoredInv'
  BY <1>5 DEF Drop, Miss
<1>6. ASSUME NEW g \in Caller, Lock(g) PROVE StoredInv'
  BY <1>6 DEF Lock
<1>7. ASSUME NEW g \in Caller, NEW k \in Conn, Dial(g, k) PROVE StoredInv'
  BY <1>7 DEF Dial
<1>8. ASSUME NEW g \in Caller, DialFail(g) PROVE StoredInv'
  BY <1>8 DEF DialFail, Unlock
<1>9. ASSUME NEW g \in Caller, Store(g) PROVE StoredInv'
  BY <1>9 DEF Store, Unlock
<1>10. ASSUME NEW g \in Caller, Finish(g) PROVE StoredInv'
  BY <1>10 DEF Finish
<1>11. ~CloseBegin /\ ~(\E t \in Target : CloseConn(t)) /\ ~CloseDelete /\ ~CloseEnd
  BY DEF CloseBegin, CloseConn, CloseDelete, CloseEnd
<1> QED
  BY <1>1, <1>2, <1>3, <1>4, <1>5, <1>6, <1>7, <1>8, <1>9, <1>10, <1>11
  DEF Next, Get, Close

(* No connection made before Close is lost: it is stored or about to be.     *)
LEMMA KeptStep ==
  ASSUME Inv, closer = "no", StoredInv, \A k \in Made : Kept(k), [Next]_vars,
         closer' = "no"
  PROVE  \A k \in Made' : Kept(k)'
<1> SUFFICES ASSUME NEW k \in Conn, dialled'[k] # NoTarget PROVE Kept(k)'
  BY DEF Made
<1> USE DEF Inv, TypeOK, CallerInv, LockInv, StoredInv, table, caller, close, Goto
<1>0. dialled[k] # NoTarget => Kept(k)
  BY DEF Made
<1>1. CASE UNCHANGED vars
  BY <1>0, <1>1 DEF vars, Kept
<1>2. ASSUME NEW g \in Caller, NEW t \in Target, Call(g, t) PROVE Kept(k)'
  BY <1>0, <1>2 DEF Call, Kept
<1>3. ASSUME NEW g \in Caller, Load(g) PROVE Kept(k)'
  BY <1>0, <1>3 DEF Load, Miss, Kept
<1>4. ASSUME NEW g \in Caller, Look(g) PROVE Kept(k)'
  BY <1>0, <1>4 DEF Look, Unlock, Kept
<1>5. ASSUME NEW g \in Caller, Drop(g) PROVE Kept(k)'
  BY <1>5 DEF Drop
<1>6. ASSUME NEW g \in Caller, Lock(g) PROVE Kept(k)'
  BY <1>0, <1>6 DEF Lock, Kept
<1>7. ASSUME NEW g \in Caller, NEW j \in Conn, Dial(g, j) PROVE Kept(k)'
  <2>1. CASE k = j
    BY <1>7, <2>1 DEF Dial, Kept
  <2>2. CASE k # j
    BY <1>0, <1>7, <2>2 DEF Dial, Kept
  <2> QED
    BY <2>1, <2>2
<1>8. ASSUME NEW g \in Caller, DialFail(g) PROVE Kept(k)'
  BY <1>0, <1>8 DEF DialFail, Unlock, Kept
<1>9. ASSUME NEW g \in Caller, Store(g) PROVE Kept(k)'
  <2>1. CASE k = seen[g]
    BY <1>9, <2>1 DEF Store, Kept
  <2>2. CASE k # seen[g]
    <3>1. conns[want[g]] = NoConn /\ mu = g /\ k # NoConn
      BY <1>9 DEF Store
    <3>2. conns[dialled[k]] = k
      BY <1>0, <1>9, <2>2, <3>1 DEF Store, Kept
    <3> QED
      BY <1>9, <3>1, <3>2 DEF Store, Kept
  <2> QED
    BY <2>1, <2>2
<1>10. ASSUME NEW g \in Caller, Finish(g) PROVE Kept(k)'
  BY <1>0, <1>10 DEF Finish, Kept
<1>11. ~CloseBegin /\ ~(\E t \in Target : CloseConn(t)) /\ ~CloseDelete /\ ~CloseEnd
  BY DEF CloseBegin, CloseConn, CloseDelete, CloseEnd
<1> QED
  BY <1>1, <1>2, <1>3, <1>4, <1>5, <1>6, <1>7, <1>8, <1>9, <1>10, <1>11
  DEF Next, Get, Close

(* As long as Close has not begun, every step keeps what holds till then. *)
LEMMA OpenStep == Inv /\ OpenInv /\ [Next]_vars => OpenInv'
<1> SUFFICES ASSUME Inv, OpenInv, [Next]_vars, closer' = "no"
             PROVE StoredInv' /\ \A k \in Made' : Kept(k)'
  BY DEF OpenInv
<1>1. closer = "no"
  BY DEF Next, vars, table, caller, close, Get, Call, Load, Look, Drop, Lock, Dial, DialFail,
         Store, Finish, Close, CloseBegin, CloseConn, CloseDelete, CloseEnd
<1> QED
  BY <1>1, StoredStep, KeptStep DEF OpenInv

(* A new connection is dialled only where none is stored; by OpenInv none is *)
(* about to be either, so there is no other to the same target.              *)
LEMMA SingleStep == Inv /\ OpenInv /\ SingleInv /\ [Next]_vars => SingleInv'
<1> SUFFICES ASSUME Inv, OpenInv, SingleInv, [Next]_vars, closer' = "no",
                    NEW i \in Made', NEW j \in Made', dialled'[i] = dialled'[j]
             PROVE i = j
  BY DEF SingleInv
<1>1. closer = "no"
  BY DEF Next, vars, table, caller, close, Get, Call, Load, Look, Drop, Lock, Dial, DialFail,
         Store, Finish, Close, CloseBegin, CloseConn, CloseDelete, CloseEnd
<1>2. CASE dialled' = dialled
  BY <1>1, <1>2 DEF SingleInv, Made
<1>3. ASSUME NEW g \in Caller, NEW k \in Conn, Dial(g, k) PROVE i = j
  <2>1. \A m \in Made : dialled[m] # want[g]
    <3> SUFFICES ASSUME NEW m \in Made, dialled[m] = want[g] PROVE FALSE
      OBVIOUS
    <3>1. at[g] = "dial" /\ conns[want[g]] = NoConn /\ mu = g
      BY <1>1, <1>3 DEF Dial, Goto, OpenInv, StoredInv, Inv, LockInv
    <3>2. m \in Conn /\ Kept(m)
      BY <1>1 DEF OpenInv, Made
    <3> QED
      BY <3>1, <3>2 DEF Kept, Inv, LockInv
  <2>2. /\ \A m \in Conn : m # k => dialled'[m] = dialled[m]
        /\ dialled'[k] = want[g]
    BY <1>3 DEF Dial, Inv, TypeOK
  <2>3. \A m \in Made' : m # k => m \in Made
    BY <2>2 DEF Made
  <2> QED
    BY <1>1, <2>1, <2>2, <2>3 DEF SingleInv, Made
<1>4. dialled' = dialled \/ \E g \in Caller, k \in Conn : Dial(g, k)
  BY DEF Next, vars, table, caller, close, Get, Call, Load, Look, Drop, Lock, DialFail,
         Store, Finish, Close, CloseBegin, CloseConn, CloseDelete, CloseEnd
<1> QED
  BY <1>2, <1>3, <1>4

-----------------------------------------------------------------------------
(* A target that waits to be visited keeps its connection: no caller may     *)
(* delete or replace it, and Close has not come to it.                       *)
LEMMA WaitingStep ==
  ASSUME Inv, key \notin rest, closer = "range", [Next]_vars,
         NEW k \in Conn \ shut, NEW t \in rest, Waiting(k, t), t \in rest'
  PROVE  Waiting(k, t)'
<1> USE DEF Inv, TypeOK, CallerInv, LockInv, Waiting, table, caller, close, Goto
<1>1. CASE UNCHANGED vars
  BY <1>1 DEF vars
<1>2. ASSUME NEW g \in Caller, NEW u \in Target, Call(g, u) PROVE Waiting(k, t)'
  BY <1>2 DEF Call
<1>3. ASSUME NEW g \in Caller, Load(g) PROVE Waiting(k, t)'
  BY <1>3 DEF Load, Miss
<1>4. ASSUME NEW g \in Caller, Look(g) PROVE Waiting(k, t)'
  BY <1>4 DEF Look, Unlock
<1>5. ASSUME NEW g \in Caller, Drop(g) PROVE Waiting(k, t)'
  BY <1>5 DEF Drop, Miss
<1>6. ASSUME NEW g \in Caller, Lock(g) PROVE Waiting(k, t)'
  BY <1>6 DEF Lock
<1>7. ASSUME NEW g \in Caller, NEW j \in Conn, Dial(g, j) PROVE Waiting(k, t)'
  BY <1>7 DEF Dial
<1>8. ASSUME NEW g \in Caller, DialFail(g) PROVE Waiting(k, t)'
  BY <1>8 DEF DialFail, Unlock
<1>9. ASSUME NEW g \in Caller, Store(g) PROVE Waiting(k, t)'
  BY <1>9 DEF Store, Unlock
<1>10. ASSUME NEW g \in Caller, Finish(g) PROVE Waiting(k, t)'
  BY <1>10 DEF Finish
<1>11. ~CloseBegin
  BY DEF CloseBegin
<1>12. ASSUME NEW u \in Target, CloseConn(u) PROVE Waiting(k, t)'
  BY <1>12 DEF CloseConn
<1>13. CASE CloseDelete
  BY <1>13 DEF CloseDelete
<1>14. CASE CloseEnd
  BY <1>14 DEF CloseEnd
<1> QED
  BY <1>1, <1>2, <1>3, <1>4, <1>5, <1>6, <1>7, <1>8, <1>9, <1>10, <1>11, <1>12, <1>13, <1>14
  DEF Next, Get, Close

(* Close and its callers keep what is still to be closed in Close's way. *)
LEMMA RangeStep == Inv /\ OpenInv /\ RangeInv /\ [Next]_vars => RangeInv'
<1> SUFFICES ASSUME Inv, OpenInv, RangeInv, [Next]_vars PROVE RangeInv'
  OBVIOUS
<1>1. CASE CloseBegin
  <2>1. /\ closer = "no" /\ closer' = "range" /\ Stored \subseteq rest'
        /\ first' = {conns[t] : t \in Stored}
        /\ UNCHANGED <<conns, shut, key, at, want, seen>>
    BY <1>1 DEF CloseBegin, table, caller
  <2>2. StoredInv
    BY <2>1 DEF OpenInv
  <2>3. key' \notin rest'
    BY <1>1, <2>1, <2>2 DEF CloseBegin, StoredInv, Stored, NoneAssumption
  <2>4. ASSUME NEW k \in first' PROVE \E t \in rest' : Waiting(k, t)'
    <3>1. PICK t \in Stored : k = conns[t]
      BY <2>1
    <3>2. Waiting(k, t)'
      BY <2>1, <2>2, <3>1 DEF Waiting, StoredInv, Stored
    <3> QED
      BY <2>1, <3>1, <3>2
  <2> QED
    BY <2>3, <2>4 DEF RangeInv
<1>2. CASE ~CloseBegin
  <2>1. closer' = "range" => closer = "range" /\ first' = first /\ shut \subseteq shut'
    BY <1>2 DEF Next, vars, table, caller, close, Get, Call, Load, Look, Drop, Lock, Dial,
           DialFail, Store, Finish, Close, CloseConn, CloseDelete, CloseEnd
  <2>2. \/ rest' = rest /\ key' = key
        \/ \E t \in Target : CloseConn(t)
        \/ CloseDelete
    BY <1>2 DEF Next, vars, table, caller, close, Get, Call, Load, Look, Drop, Lock, Dial,
           DialFail, Store, Finish, Close, CloseEnd
  <2>3. key' \notin rest'
    BY <2>2 DEF RangeInv, CloseConn, CloseDelete, close, Inv, TypeOK, NoneAssumption
  <2>4. ASSUME closer' = "range", NEW k \in first' \ shut'
        PROVE  \E t \in rest' : Waiting(k, t)'
    <3>1. closer = "range" /\ k \in first \ shut /\ k \in Conn
      BY <2>1, <2>4 DEF Inv, TypeOK
    <3>2. PICK t \in rest : Waiting(k, t)
      BY <3>1 DEF RangeInv
    <3>3. t \in rest'
      BY <2>2, <2>4, <3>1, <3>2 DEF Waiting, CloseConn, CloseDelete, NoneAssumption
    <3>4. Waiting(k, t)'
      BY <3>1, <3>2, <3>3, WaitingStep DEF RangeInv
    <3> QED
      BY <3>3, <3>4
  <2> QED
    BY <2>3, <2>4 DEF RangeInv
<1> QED
  BY <1>1, <1>2

(* When Close ends nothing waits, so all that was stored is closed.          *)
LEMMA ReachStep == Inv /\ RangeInv /\ CloseReachesAll /\ [Next]_vars => CloseReachesAll'
<1> SUFFICES ASSUME Inv, RangeInv, CloseReachesAll, [Next]_vars, closer' = "done"
             PROVE first' \subseteq shut'
  BY DEF CloseReachesAll
<1>1. CASE CloseEnd
  BY <1>1 DEF CloseEnd, RangeInv, table
<1>2. CASE ~CloseEnd
  BY <1>2 DEF CloseReachesAll, Next, vars, table, caller, close, Get, Call, Load, Look, Drop,
         Lock, Dial, DialFail, Store, Finish, Close, CloseBegin, CloseConn, CloseDelete
<1> QED
  BY <1>1, <1>2

(* An empty pool satisfies all of it. *)
LEMMA InitInv == Init => Inv /\ OpenInv /\ SingleInv /\ RangeInv /\ CloseReachesAll
  BY DEF Init, Inv, TypeOK, CallerInv, LockInv, OpenInv, StoredInv, Made, SingleInv, RangeInv,
         CloseReachesAll

(* The parts of the invariant hold throughout. *)
LEMMA Invariance == Spec => [](Inv /\ OpenInv /\ SingleInv /\ RangeInv /\ CloseReachesAll)
<1>1. /\ Inv /\ OpenInv /\ SingleInv /\ RangeInv /\ CloseReachesAll
      /\ [Next]_vars
      => (Inv /\ OpenInv /\ SingleInv /\ RangeInv /\ CloseReachesAll)'
  BY InvStep, OpenStep, SingleStep, RangeStep, ReachStep
<1> QED
  BY <1>1, InitInv, PTL DEF Spec

-----------------------------------------------------------------------------
(* Every variable of the pool keeps its type, in particular the mutex is     *)
(* only ever given up by its holder, whatever callers and Close do.          *)
THEOREM TypeCorrect == Spec => []TypeOK
<1>1. Inv => TypeOK
  BY DEF Inv
<1> QED
  BY <1>1, Invariance, PTL

(* Until Close is called a target has one connection, every caller that has *)
(* got a connection has the one stored, and none that was made is lost: the *)
(* double-checked lookup of GetConnection does what it is for.              *)
THEOREM OneConnection == Spec => []OneConnPerTarget
<1>1. Inv /\ OpenInv /\ SingleInv => OneConnPerTarget
  BY DEF OneConnPerTarget, OpenInv, StoredInv, SingleInv, Kept
<1> QED
  BY <1>1, Invariance, PTL

(* When Close returns, every connection that was stored when it was called  *)
(* is closed, although callers delete and store beside it without the mutex. *)
THEOREM CloseReaches == Spec => []CloseReachesAll
  BY Invariance, PTL
=============================================================================
