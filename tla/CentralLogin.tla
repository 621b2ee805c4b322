------------------------------ MODULE CentralLogin ------------------------------
(***************************************************************************)
(* Login at Central (internal/app/central/service) and the guest users it  *)
(* keeps in Redis (internal/infrastructure/user/redis): a token key holds  *)
(* a user id, a user key holds the user, and both are written with a TTL   *)
(* of an hour, the token first.  An unknown token gets a new guest, whose  *)
(* id comes from a counter in Central's memory.                            *)
(*                                                                         *)
(* Logins are gRPC calls that run side by side; a Redis command is atomic, *)
(* and anything may happen between two of them.  Ids are counted from 0    *)
(* where the code counts from 100000.  A guest's name repeats its id, the  *)
(* balance is looked up after the outcome is settled and an error there is *)
(* ignored: both are left out.                                             *)
(***************************************************************************)
EXTENDS Naturals

CONSTANTS
  Login,    \* Login calls, each made once
  Token,    \* tokens clients log in with
  NoToken,  \* the empty token
  NoId,     \* a token key that does not exist
  MaxFault  \* failed Redis commands and Central restarts, together

ASSUME NoTokenAssumption  == NoToken \notin Token
ASSUME NoIdAssumption     == NoId \notin Nat
ASSUME MaxFaultAssumption == MaxFault \in Nat

VARIABLES
  counterID,  \* CentralService.counterID
  keys,       \* Redis: token:* keys
  users,      \* Redis: user:* keys that exist
  covered,    \* tokens whose key expires no later than its user's key
  at,         \* where each call is
  token,      \* its argument
  id,         \* the id of the user it has found or is creating
  counted,    \* what counterID++ has read
  faults,
  overlapped, \* history: tokens that two calls at once were creating
  expired,    \* history: tokens whose key has expired
  reused      \* history: two calls were in counterID++ at once, or it restarted

redis == <<keys, users, covered>>
history == <<overlapped, expired, reused>>
vars == <<counterID, redis, at, token, id, counted, faults, history>>

(* The calls of CreateGuestUser and what comes before it, up to the write   *)
(* of the token key.                                                        *)
Unwritten == {"readId", "increment", "store", "setToken"}
InProgress == {"getToken", "getUser", "setUser"} \cup Unwritten

Init ==
  /\ counterID = 0
  /\ keys = [t \in Token |-> NoId] /\ users = {} /\ covered = {}
  /\ at = [l \in Login |-> "idle"] /\ token = [l \in Login |-> NoToken]
  /\ id = [l \in Login |-> 0] /\ counted = [l \in Login |-> 0]
  /\ faults = 0
  /\ overlapped = {} /\ expired = {} /\ reused = FALSE

-----------------------------------------------------------------------------
Step(l, from, to) == at[l] = from /\ at' = [at EXCEPT ![l] = to]

Begin(l, t) ==
  /\ Step(l, "idle", "getToken")
  /\ token' = [token EXCEPT ![l] = t]
  /\ UNCHANGED <<counterID, redis, id, counted, faults, history>>

(* Mutation: without the check for the empty token.                         *)
FaultyEmptyToken(l) ==
  /\ Step(l, "idle", "getToken")
  /\ UNCHANGED <<counterID, redis, token, id, counted, faults, history>>

(* ErrInvalidToken.                                                         *)
EmptyToken(l) ==
  /\ Step(l, "idle", "failed")
  /\ UNCHANGED <<counterID, redis, token, id, counted, faults, history>>

(* GetUser: the token key is there, and names a user to read.               *)
TokenFound(l) ==
  /\ Step(l, "getToken", "getUser")
  /\ keys[token[l]] # NoId
  /\ id' = [id EXCEPT ![l] = keys[token[l]]]
  /\ UNCHANGED <<counterID, redis, token, counted, faults, history>>

(* GetUser: redis.Nil becomes ErrUserNotFound, and Login registers a guest. *)
TokenUnknown(l) ==
  /\ Step(l, "getToken", "readId")
  /\ keys[token[l]] = NoId
  /\ overlapped' = IF \E m \in Login \ {l} : token[m] = token[l] /\ at[m] \in Unwritten
                   THEN overlapped \cup {token[l]} ELSE overlapped
  /\ UNCHANGED <<counterID, redis, token, id, counted, faults, expired, reused>>

UserFound(l) ==
  /\ Step(l, "getUser", "ok")
  /\ id[l] \in users
  /\ UNCHANGED <<counterID, redis, token, id, counted, faults, history>>

(* Mutation: a missing user is registered anew.                             *)
FaultyUserMissing(l) ==
  /\ Step(l, "getUser", "readId")
  /\ id[l] \notin users
  /\ UNCHANGED <<counterID, redis, token, id, counted, faults, history>>

(* GetStruct reports a missing key by an error of its own, which is not     *)
(* redis.Nil: Login returns it.                                             *)
UserMissing(l) ==
  /\ Step(l, "getUser", "failed")
  /\ id[l] \notin users
  /\ UNCHANGED <<counterID, redis, token, id, counted, faults, history>>

(* userID is read from counterID, and counterID++ is a read and a write,    *)
(* all of them without a lock.                                              *)
ReadId(l) ==
  /\ Step(l, "readId", "increment")
  /\ id' = [id EXCEPT ![l] = counterID]
  /\ reused' = (reused \/ \E m \in Login : at[m] \in {"increment", "store"})
  /\ UNCHANGED <<counterID, redis, token, counted, faults, overlapped, expired>>

Increment(l) ==
  /\ Step(l, "increment", "store")
  /\ counted' = [counted EXCEPT ![l] = counterID]
  /\ UNCHANGED <<counterID, redis, token, id, faults, history>>

(* Mutation: the increment is lost.                                         *)
FaultyStore(l) ==
  /\ Step(l, "store", "setToken")
  /\ counterID' = counted[l]
  /\ UNCHANGED <<redis, token, id, counted, faults, history>>

Store(l) ==
  /\ Step(l, "store", "setToken")
  /\ counterID' = counted[l] + 1
  /\ UNCHANGED <<redis, token, id, counted, faults, history>>

(* CreateGuestUser, Redis command by Redis command.                         *)
PutToken(l) ==
  /\ keys' = [keys EXCEPT ![token[l]] = id[l]]
  /\ covered' = covered \ {token[l]}
  /\ UNCHANGED users

PutUser(l) ==
  /\ users' = users \cup {id[l]}
  /\ covered' = covered \cup {t \in Token : keys[t] = id[l]}
  /\ UNCHANGED keys

(* Mutation: done after the first of the two keys.                          *)
FaultySetToken(l) ==
  /\ Step(l, "setToken", "ok")
  /\ PutToken(l)
  /\ UNCHANGED <<counterID, token, id, counted, faults, history>>

SetToken(l) ==
  /\ Step(l, "setToken", "setUser")
  /\ PutToken(l)
  /\ UNCHANGED <<counterID, token, id, counted, faults, history>>

SetUser(l) ==
  /\ Step(l, "setUser", "ok")
  /\ PutUser(l)
  /\ UNCHANGED <<counterID, token, id, counted, faults, history>>

(* A Redis command returns an error; a SET may have been executed even so.  *)
RedisFault(l) ==
  /\ faults < MaxFault /\ faults' = faults + 1
  /\ \/ (Step(l, "getToken", "failed") \/ Step(l, "getUser", "failed")) /\ UNCHANGED redis
     \/ Step(l, "setToken", "failed") /\ (PutToken(l) \/ UNCHANGED redis)
     \/ Step(l, "setUser", "failed") /\ (PutUser(l) \/ UNCHANGED redis)
  /\ UNCHANGED <<counterID, token, id, counted, history>>

-----------------------------------------------------------------------------
ExpireToken(t) ==
  /\ keys[t] # NoId
  /\ keys' = [keys EXCEPT ![t] = NoId]
  /\ covered' = covered \ {t}
  /\ expired' = expired \cup {t}
  /\ UNCHANGED <<counterID, users, at, token, id, counted, faults, overlapped, reused>>

(* A user key expires after the token keys written before it.               *)
ExpireUser(i) ==
  /\ \A t \in covered : keys[t] # i
  /\ users' = users \ {i}
  /\ UNCHANGED <<counterID, keys, covered, at, token, id, counted, faults, history>>

(* Central ends, with the calls in progress, and starts again from 100000.  *)
CentralRestart ==
  /\ faults < MaxFault /\ faults' = faults + 1
  /\ counterID' = 0 /\ reused' = TRUE
  /\ at' = [l \in Login |-> IF at[l] \in InProgress THEN "broken" ELSE at[l]]
  /\ UNCHANGED <<redis, token, id, counted, overlapped, expired>>

GetUser(l) == TokenFound(l) \/ TokenUnknown(l) \/ UserFound(l) \/ UserMissing(l)
NewGuest(l) == ReadId(l) \/ Increment(l) \/ Store(l)
CreateGuestUser(l) == SetToken(l) \/ SetUser(l)

Next ==
  \/ \E l \in Login :
       \/ \E t \in Token : Begin(l, t)
       \/ EmptyToken(l) \/ GetUser(l) \/ NewGuest(l) \/ CreateGuestUser(l)
       \/ RedisFault(l)
  \/ \E t \in Token : ExpireToken(t)
  \/ \E i \in users : ExpireUser(i)
  \/ CentralRestart

Spec == Init /\ [][Next]_vars

-----------------------------------------------------------------------------
TypeOK ==
  /\ counterID \in Nat /\ faults \in 0..MaxFault
  /\ keys \in [Token -> Nat \cup {NoId}] /\ users \subseteq Nat /\ covered \subseteq Token
  /\ at \in [Login -> {"idle", "ok", "failed", "broken"} \cup InProgress]
  /\ token \in [Login -> Token \cup {NoToken}]
  /\ \A l \in Login : at[l] \in InProgress \cup {"ok", "broken"} => token[l] \in Token
  /\ id \in [Login -> Nat] /\ counted \in [Login -> Nat]
  /\ overlapped \subseteq Token /\ expired \subseteq Token /\ reused \in BOOLEAN

(* Two tokens never lead to the same user, for as long as Central has not   *)
(* restarted and no two calls were in the unlocked counterID++ at once: ids *)
(* are unique across half-written guests, failed writes and expired keys.   *)
OneTokenPerUser ==
  ~reused => \A t, u \in Token : keys[t] = keys[u] /\ keys[t] # NoId => t = u

(* A token keeps its user: two logins that succeed with one token get one   *)
(* id, unless the token key expired or two calls were creating it at once.  *)
(* Redis errors, lost replies and restarts do not change it.                *)
StableIdentity ==
  \A l, m \in Login :
    /\ at[l] = "ok" /\ at[m] = "ok" /\ token[l] = token[m]
    /\ token[l] \notin expired \cup overlapped
    => id[l] = id[m]

(* A token key without its user, with which every login fails for an hour,  *)
(* exists only while the call that wrote it is about to write the user, or  *)
(* after a failed command or a restart; expiry never leaves one behind.     *)
DanglingExplained ==
  \A t \in Token : keys[t] # NoId /\ keys[t] \notin users
    => \/ faults > 0
       \/ \E l \in Login : at[l] = "setUser" /\ token[l] = t /\ id[l] = keys[t]
=============================================================================
