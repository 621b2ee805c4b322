-------------------------- MODULE CentralLogin_proofs --------------------------
(***************************************************************************)
(* Proofs about CentralLogin, for any set of calls and of tokens and any   *)
(* number of faults: its type invariant and the three safety invariants of *)
(* the login_safety run.                                                   *)
(***************************************************************************)
EXTENDS CentralLogin, TLAPS

-----------------------------------------------------------------------------
(* The inductive invariant. *)

(* Until an id may be reused, at most one call is in counterID++, its id is *)
(* the counter, every id handed out is below the counter, and a guest that  *)
(* has no token key yet has an id no other guest has.                       *)
UniqueInv ==
  ~reused =>
    /\ \A l \in Login : at[l] \in {"increment", "store"} => id[l] = counterID
    /\ \A l \in Login : at[l] = "store" => counted[l] = counterID
    /\ \A l, m \in Login :
         at[l] \in {"increment", "store"} /\ at[m] \in {"increment", "store"} => l = m
    /\ \A l \in Login : at[l] = "setToken" => id[l] < counterID
    /\ \A l, m \in Login :
         at[l] = "setToken" /\ at[m] = "setToken" /\ id[l] = id[m] => l = m
    /\ \A t \in Token : keys[t] # NoId => keys[t] < counterID
    /\ \A l \in Login, t \in Token : at[l] = "setToken" => keys[t] # id[l]
    /\ \A t, u \in Token : keys[t] = keys[u] /\ keys[t] # NoId => t = u

(* While a token has neither expired nor been created twice, one call at    *)
(* most creates it, only before its key exists, and every call that has     *)
(* found or written its user has the id of the key.                         *)
StableInv ==
  \A t \in Token \ (expired \cup overlapped) :
    /\ \A l, m \in Login :
         /\ token[l] = t /\ at[l] \in Unwritten
         /\ token[m] = t /\ at[m] \in Unwritten
         => l = m
    /\ \A l \in Login : token[l] = t /\ at[l] \in Unwritten => keys[t] = NoId
    /\ \A l \in Login : token[l] = t /\ at[l] \in {"getUser", "setUser", "ok"}
         => keys[t] = id[l]

(* Without a fault, a token key has a user that outlives it, or a call that *)
(* is about to write that user.                                             *)
BackedInv ==
  \A t \in Token : keys[t] # NoId
    => \/ faults > 0
       \/ keys[t] \in users /\ t \in covered
       \/ \E l \in Login : at[l] = "setUser" /\ token[l] = t /\ id[l] = keys[t]

-----------------------------------------------------------------------------
(* Every step keeps the types. *)
LEMMA TypeStep == TypeOK /\ [Next]_vars => TypeOK'
<1> SUFFICES ASSUME TypeOK, [Next]_vars PROVE TypeOK'
  OBVIOUS
<1> USE NoIdAssumption, NoTokenAssumption, MaxFaultAssumption DEF TypeOK, InProgress, Unwritten
<1>1. ASSUME NEW l \in Login, NEW t \in Token, Begin(l, t) PROVE TypeOK'
  BY <1>1 DEF Begin, Step, redis, history
<1>2. ASSUME NEW l \in Login, EmptyToken(l) PROVE TypeOK'
  BY <1>2 DEF EmptyToken, Step, redis, history
<1>3. ASSUME NEW l \in Login, TokenFound(l) PROVE TypeOK'
  <2>1. keys[token[l]] \in Nat
    BY <1>3 DEF TokenFound, Step
  <2> QED BY <1>3, <2>1 DEF TokenFound, Step, redis, history
<1>4. ASSUME NEW l \in Login, TokenUnknown(l) PROVE TypeOK'
  BY <1>4 DEF TokenUnknown, Step, redis, history
<1>5. ASSUME NEW l \in Login, UserFound(l) PROVE TypeOK'
  BY <1>5 DEF UserFound, Step, redis, history
<1>6. ASSUME NEW l \in Login, UserMissing(l) PROVE TypeOK'
  BY <1>6 DEF UserMissing, Step, redis, history
<1>7. ASSUME NEW l \in Login, ReadId(l) PROVE TypeOK'
  BY <1>7 DEF ReadId, Step, redis, history
<1>8. ASSUME NEW l \in Login, Increment(l) PROVE TypeOK'
  BY <1>8 DEF Increment, Step, redis, history
<1>9. ASSUME NEW l \in Login, Store(l) PROVE TypeOK'
  BY <1>9 DEF Store, Step, redis, history
<1>10. ASSUME NEW l \in Login, SetToken(l) PROVE TypeOK'
  BY <1>10 DEF SetToken, Step, PutToken, history
<1>11. ASSUME NEW l \in Login, SetUser(l) PROVE TypeOK'
  BY <1>11 DEF SetUser, Step, PutUser, history
<1>12. ASSUME NEW l \in Login, RedisFault(l) PROVE TypeOK'
  <2>1. faults' \in 0..MaxFault
    BY <1>12 DEF RedisFault
  <2>2. /\ at[l] \in InProgress /\ token[l] \in Token
        /\ at' = [at EXCEPT ![l] = "failed"]
    BY <1>12 DEF RedisFault, Step
  <2>3. \/ UNCHANGED redis
        \/ PutToken(l)
        \/ PutUser(l)
    BY <1>12 DEF RedisFault
  <2>4. /\ keys' \in [Token -> Nat \cup {NoId}]
        /\ users' \subseteq Nat
        /\ covered' \subseteq Token
    <3>1. CASE UNCHANGED redis
      BY <3>1 DEF redis
    <3>2. CASE PutToken(l)
      BY <3>2, <2>2 DEF PutToken
    <3>3. CASE PutUser(l)
      BY <3>3 DEF PutUser
    <3> QED BY <2>3, <3>1, <3>2, <3>3
  <2> QED
    BY <1>12, <2>1, <2>2, <2>4 DEF RedisFault, history
<1>13. ASSUME NEW t \in Token, ExpireToken(t) PROVE TypeOK'
  BY <1>13 DEF ExpireToken
<1>14. ASSUME NEW i \in users, ExpireUser(i) PROVE TypeOK'
  BY <1>14 DEF ExpireUser, history
<1>15. CASE CentralRestart
  BY <1>15 DEF CentralRestart, redis
<1>16. CASE UNCHANGED vars
  BY <1>16 DEF vars, redis, history
<1> QED
  BY <1>1, <1>2, <1>3, <1>4, <1>5, <1>6, <1>7, <1>8, <1>9, <1>10, <1>11, <1>12, <1>13,
     <1>14, <1>15, <1>16 DEF Next, GetUser, NewGuest, CreateGuestUser

(* Every step keeps the ids of guests apart. *)
LEMMA UniqueStep == TypeOK /\ UniqueInv /\ [Next]_vars => UniqueInv'
<1> SUFFICES ASSUME TypeOK, UniqueInv, [Next]_vars PROVE UniqueInv'
  OBVIOUS
<1> USE NoIdAssumption DEF TypeOK, InProgress, Unwritten, UniqueInv
<1>1. ASSUME NEW l \in Login, NEW t \in Token, Begin(l, t) PROVE UniqueInv'
  BY <1>1 DEF Begin, Step, redis, history
<1>2. ASSUME NEW l \in Login, EmptyToken(l) PROVE UniqueInv'
  BY <1>2 DEF EmptyToken, Step, redis, history
<1>3. ASSUME NEW l \in Login, TokenFound(l) PROVE UniqueInv'
  BY <1>3 DEF TokenFound, Step, redis, history
<1>4. ASSUME NEW l \in Login, TokenUnknown(l) PROVE UniqueInv'
  BY <1>4 DEF TokenUnknown, Step, redis
<1>5. ASSUME NEW l \in Login, UserFound(l) PROVE UniqueInv'
  BY <1>5 DEF UserFound, Step, redis, history
<1>6. ASSUME NEW l \in Login, UserMissing(l) PROVE UniqueInv'
  BY <1>6 DEF UserMissing, Step, redis, history
<1>7. ASSUME NEW l \in Login, ReadId(l) PROVE UniqueInv'
  BY <1>7 DEF ReadId, Step, redis
<1>8. ASSUME NEW l \in Login, Increment(l) PROVE UniqueInv'
  BY <1>8 DEF Increment, Step, redis, history
<1>9. ASSUME NEW l \in Login, Store(l) PROVE UniqueInv'
  BY <1>9 DEF Store, Step, redis, history
<1>10. ASSUME NEW l \in Login, SetToken(l) PROVE UniqueInv'
  BY <1>10 DEF SetToken, Step, PutToken, history
<1>11. ASSUME NEW l \in Login, SetUser(l) PROVE UniqueInv'
  BY <1>11 DEF SetUser, Step, PutUser, history
<1>12. ASSUME NEW l \in Login, RedisFault(l) PROVE UniqueInv'
  BY <1>12 DEF RedisFault, Step, PutToken, PutUser, redis, history
<1>13. ASSUME NEW t \in Token, ExpireToken(t) PROVE UniqueInv'
  BY <1>13 DEF ExpireToken
<1>14. ASSUME NEW i \in users, ExpireUser(i) PROVE UniqueInv'
  BY <1>14 DEF ExpireUser, history
<1>15. CASE CentralRestart
  BY <1>15 DEF CentralRestart, redis
<1>16. CASE UNCHANGED vars
  BY <1>16 DEF vars, redis, history
<1> QED
  BY <1>1, <1>2, <1>3, <1>4, <1>5, <1>6, <1>7, <1>8, <1>9, <1>10, <1>11, <1>12, <1>13,
     <1>14, <1>15, <1>16 DEF Next, GetUser, NewGuest, CreateGuestUser

(* Every step keeps what the calls of a token have found. *)
LEMMA StableStep == TypeOK /\ StableInv /\ [Next]_vars => StableInv'
<1> SUFFICES ASSUME TypeOK, StableInv, [Next]_vars PROVE StableInv'
  OBVIOUS
<1> USE NoIdAssumption DEF TypeOK, InProgress, Unwritten, StableInv
<1>1. ASSUME NEW l \in Login, NEW t \in Token, Begin(l, t) PROVE StableInv'
  BY <1>1 DEF Begin, Step, redis, history
<1>2. ASSUME NEW l \in Login, EmptyToken(l) PROVE StableInv'
  BY <1>2 DEF EmptyToken, Step, redis, history
<1>3. ASSUME NEW l \in Login, TokenFound(l) PROVE StableInv'
  BY <1>3 DEF TokenFound, Step, redis, history
<1>4. ASSUME NEW l \in Login, TokenUnknown(l) PROVE StableInv'
  BY <1>4 DEF TokenUnknown, Step, redis
<1>5. ASSUME NEW l \in Login, UserFound(l) PROVE StableInv'
  BY <1>5 DEF UserFound, Step, redis, history
<1>6. ASSUME NEW l \in Login, UserMissing(l) PROVE StableInv'
  BY <1>6 DEF UserMissing, Step, redis, history
<1>7. ASSUME NEW l \in Login, ReadId(l) PROVE StableInv'
  BY <1>7 DEF ReadId, Step, redis
<1>8. ASSUME NEW l \in Login, Increment(l) PROVE StableInv'
  BY <1>8 DEF Increment, Step, redis, history
<1>9. ASSUME NEW l \in Login, Store(l) PROVE StableInv'
  BY <1>9 DEF Store, Step, redis, history
<1>10. ASSUME NEW l \in Login, SetToken(l) PROVE StableInv'
  BY <1>10 DEF SetToken, Step, PutToken, history
<1>11. ASSUME NEW l \in Login, SetUser(l) PROVE StableInv'
  BY <1>11 DEF SetUser, Step, PutUser, history
<1>12. ASSUME NEW l \in Login, RedisFault(l) PROVE StableInv'
  BY <1>12 DEF RedisFault, Step, PutToken, PutUser, redis, history
<1>13. ASSUME NEW t \in Token, ExpireToken(t) PROVE StableInv'
  BY <1>13 DEF ExpireToken
<1>14. ASSUME NEW i \in users, ExpireUser(i) PROVE StableInv'
  BY <1>14 DEF ExpireUser, history
<1>15. CASE CentralRestart
  BY <1>15 DEF CentralRestart, redis
<1>16. CASE UNCHANGED vars
  BY <1>16 DEF vars, redis, history
<1> QED
  BY <1>1, <1>2, <1>3, <1>4, <1>5, <1>6, <1>7, <1>8, <1>9, <1>10, <1>11, <1>12, <1>13,
     <1>14, <1>15, <1>16 DEF Next, GetUser, NewGuest, CreateGuestUser

(* Every step keeps a user behind every token key. *)
LEMMA BackedStep == TypeOK /\ BackedInv /\ [Next]_vars => BackedInv'
<1> SUFFICES ASSUME TypeOK, BackedInv, [Next]_vars PROVE BackedInv'
  OBVIOUS
<1> USE NoIdAssumption DEF TypeOK, InProgress, Unwritten, BackedInv
<1>1. ASSUME NEW l \in Login, NEW t \in Token, Begin(l, t) PROVE BackedInv'
  BY <1>1 DEF Begin, Step, redis, history
<1>2. ASSUME NEW l \in Login, EmptyToken(l) PROVE BackedInv'
  BY <1>2 DEF EmptyToken, Step, redis, history
<1>3. ASSUME NEW l \in Login, TokenFound(l) PROVE BackedInv'
  BY <1>3 DEF TokenFound, Step, redis, history
<1>4. ASSUME NEW l \in Login, TokenUnknown(l) PROVE BackedInv'
  BY <1>4 DEF TokenUnknown, Step, redis
<1>5. ASSUME NEW l \in Login, UserFound(l) PROVE BackedInv'
  BY <1>5 DEF UserFound, Step, redis, history
<1>6. ASSUME NEW l \in Login, UserMissing(l) PROVE BackedInv'
  BY <1>6 DEF UserMissing, Step, redis, history
<1>7. ASSUME NEW l \in Login, ReadId(l) PROVE BackedInv'
  BY <1>7 DEF ReadId, Step, redis
<1>8. ASSUME NEW l \in Login, Increment(l) PROVE BackedInv'
  BY <1>8 DEF Increment, Step, redis, history
<1>9. ASSUME NEW l \in Login, Store(l) PROVE BackedInv'
  BY <1>9 DEF Store, Step, redis, history
<1>10. ASSUME NEW l \in Login, SetToken(l) PROVE BackedInv'
  BY <1>10 DEF SetToken, Step, PutToken, history
<1>11. ASSUME NEW l \in Login, SetUser(l) PROVE BackedInv'
  BY <1>11 DEF SetUser, Step, PutUser, history
<1>12. ASSUME NEW l \in Login, RedisFault(l) PROVE BackedInv'
  BY <1>12 DEF RedisFault, Step, PutToken, PutUser, redis, history
<1>13. ASSUME NEW t \in Token, ExpireToken(t) PROVE BackedInv'
  BY <1>13 DEF ExpireToken
<1>14. ASSUME NEW i \in users, ExpireUser(i) PROVE BackedInv'
  BY <1>14 DEF ExpireUser, history
<1>15. CASE CentralRestart
  BY <1>15 DEF CentralRestart, redis
<1>16. CASE UNCHANGED vars
  BY <1>16 DEF vars, redis, history
<1> QED
  BY <1>1, <1>2, <1>3, <1>4, <1>5, <1>6, <1>7, <1>8, <1>9, <1>10, <1>11, <1>12, <1>13,
     <1>14, <1>15, <1>16 DEF Next, GetUser, NewGuest, CreateGuestUser

-----------------------------------------------------------------------------
(* Every variable keeps its type, and a call past the check for the empty   *)
(* token has a token of a client.                                           *)
THEOREM TypeCorrect == Spec => []TypeOK
<1>1. ASSUME Init PROVE TypeOK
  <2>1. faults \in 0..MaxFault
    BY <1>1, MaxFaultAssumption DEF Init
  <2>2. /\ keys \in [Token -> Nat \cup {NoId}] /\ token \in [Login -> Token \cup {NoToken}]
        /\ at \in [Login -> {"idle", "ok", "failed", "broken"} \cup InProgress]
        /\ id \in [Login -> Nat] /\ counted \in [Login -> Nat]
    BY <1>1 DEF Init
  <2>3. \A l \in Login : at[l] = "idle"
    BY <1>1 DEF Init
  <2>4. \A l \in Login : at[l] \notin InProgress \cup {"ok", "broken"}
    BY <2>3 DEF InProgress, Unwritten
  <2> QED
    BY <1>1, <2>1, <2>2, <2>4 DEF Init, TypeOK
<1> QED
  BY <1>1, TypeStep, PTL DEF Spec

(* Two tokens never lead to one user until Central restarts or two calls    *)
(* are in counterID++ at once.                                              *)
THEOREM TokensApart == Spec => []OneTokenPerUser
<1>1. Init => UniqueInv
  BY DEF Init, UniqueInv
<1>2. UniqueInv => OneTokenPerUser
  BY DEF UniqueInv, OneTokenPerUser
<1> QED
  BY <1>1, <1>2, TypeCorrect, UniqueStep, PTL DEF Spec

(* Logins that succeed with one token get one user, unless its key expired  *)
(* or two calls were creating it at once.                                   *)
THEOREM TokenKeepsUser == Spec => []StableIdentity
<1>1. Init => StableInv
  BY DEF Init, StableInv, Unwritten
<1>2. TypeOK /\ StableInv => StableIdentity
  BY DEF TypeOK, StableInv, StableIdentity
<1> QED
  BY <1>1, <1>2, TypeCorrect, StableStep, PTL DEF Spec

(* Without a fault, a token key lacks its user only while the call that     *)
(* wrote it is about to write the user.                                     *)
THEOREM TokenHasUser == Spec => []DanglingExplained
<1>1. Init => BackedInv
  BY DEF Init, BackedInv
<1>2. BackedInv => DanglingExplained
  BY DEF BackedInv, DanglingExplained
<1> QED
  BY <1>1, <1>2, TypeCorrect, BackedStep, PTL DEF Spec
=============================================================================
