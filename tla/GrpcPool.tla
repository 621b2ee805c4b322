------------------------------- MODULE GrpcPool -------------------------------
(***************************************************************************)
(* The gRPC connection pool of pkg/grpc/pool.go: callers that get the      *)
(* connection to a target or dial it, and Close.                           *)
(*                                                                         *)
(* The map is a sync.Map: each Load, Store and Delete is atomic, and       *)
(* nothing orders two of them but the mutex, which the fast path of        *)
(* GetConnection and Close do not take.  A connection is only ever shut by *)
(* Close: grpc connects, loses and reconnects under one ClientConn.        *)
(***************************************************************************)
EXTENDS FiniteSets

CONSTANTS
  Caller,    \* goroutines that call GetConnection
  Target,    \* addresses
  Conn,      \* connections there may be: a bound on how many are dialled
  NoCaller, NoTarget, NoConn

ASSUME NoneAssumption ==
  NoCaller \notin Caller /\ NoTarget \notin Target /\ NoConn \notin Conn

VARIABLES
  conns,   \* Pool.conns: the connection stored for each target
  mu,      \* Pool.mu: who holds it
  dialled, \* the target of each connection made
  shut,    \* connections that are closed
  at,      \* where each caller is in GetConnection
  want,    \* its target
  seen,    \* its conn: what it loaded or made
  closer,  \* where Close is
  key,     \* the target whose connection it has closed and not yet deleted
  rest,    \* targets it has still to visit
  first    \* history: what was stored when Close began

table  == <<conns, dialled, shut>>
caller == <<at, want, seen>>
close  == <<closer, key, rest, first>>
vars   == <<table, mu, caller, close>>

Made == {k \in Conn : dialled[k] # NoTarget}

TypeOK ==
  /\ conns \in [Target -> Conn \cup {NoConn}]
  /\ mu \in Caller \cup {NoCaller}
  /\ dialled \in [Conn -> Target \cup {NoTarget}]
  /\ shut \subseteq Conn
  /\ at \in [Caller -> {"idle", "load", "look", "drop", "lock", "dial", "store",
                        "got", "failed"}]
  /\ want \in [Caller -> Target \cup {NoTarget}]
  /\ seen \in [Caller -> Conn \cup {NoConn}]
  /\ closer \in {"no", "range", "done"} /\ key \in Target \cup {NoTarget}
  /\ rest \subseteq Target
  /\ first \subseteq Conn

Init ==
  /\ conns = [t \in Target |-> NoConn]
  /\ mu = NoCaller
  /\ dialled = [k \in Conn |-> NoTarget]
  /\ shut = {}
  /\ at = [g \in Caller |-> "idle"]
  /\ want = [g \in Caller |-> NoTarget]
  /\ seen = [g \in Caller |-> NoConn]
  /\ closer = "no" /\ key = NoTarget /\ rest = {} /\ first = {}

-----------------------------------------------------------------------------
(* GetConnection.  The first look at the map is without the mutex and the   *)
(* second with it; the code is the same, so a caller runs Load, Look and    *)
(* Drop twice at most.                                                      *)

Goto(g, from, to) == at[g] = from /\ at' = [at EXCEPT ![g] = to]
Unlock(g) == mu' = IF mu = g THEN NoCaller ELSE mu

Call(g, t) ==
  /\ Goto(g, "idle", "load")
  /\ want' = [want EXCEPT ![g] = t]
  /\ UNCHANGED <<table, mu, seen, close>>

(* Without a usable connection: the mutex next, or a new connection.  *)
Miss(g) == IF mu = g THEN "dial" ELSE "lock"

Load(g) ==
  LET k == conns[want[g]] IN
    /\ Goto(g, "load", IF k = NoConn THEN Miss(g) ELSE "look")
    /\ seen' = [seen EXCEPT ![g] = k]
    /\ UNCHANGED <<table, mu, want, close>>

(* GetState of the connection that was loaded. *)
Look(g) ==
  /\ \/ seen[g] \notin shut /\ Goto(g, "look", "got") /\ Unlock(g)
     \/ seen[g] \in shut /\ Goto(g, "look", "drop") /\ UNCHANGED mu
  /\ UNCHANGED <<table, want, seen, close>>

(* Delete is by target: whatever is stored there by now goes. *)
Drop(g) ==
  /\ Goto(g, "drop", Miss(g))
  /\ conns' = [conns EXCEPT ![want[g]] = NoConn]
  /\ seen' = [seen EXCEPT ![g] = NoConn]
  /\ UNCHANGED <<mu, dialled, shut, want, close>>

(* Mutant: no second look at the map under the mutex. *)
FaultyLock(g) ==
  /\ Goto(g, "lock", "dial")
  /\ mu = NoCaller /\ mu' = g
  /\ UNCHANGED <<table, want, seen, close>>

Lock(g) ==
  /\ Goto(g, "lock", "load")
  /\ mu = NoCaller /\ mu' = g
  /\ UNCHANGED <<table, want, seen, close>>

Dial(g, k) ==
  /\ Goto(g, "dial", "store")
  /\ k \in Conn \ Made
  /\ dialled' = [dialled EXCEPT ![k] = want[g]]
  /\ seen' = [seen EXCEPT ![g] = k]
  /\ UNCHANGED <<conns, shut, mu, want, close>>

(* grpc.NewClient refuses the target. *)
DialFail(g) ==
  /\ Goto(g, "dial", "failed")
  /\ Unlock(g)
  /\ UNCHANGED <<table, want, seen, close>>

Store(g) ==
  /\ Goto(g, "store", "got")
  /\ conns' = [conns EXCEPT ![want[g]] = seen[g]]
  /\ Unlock(g)
  /\ UNCHANGED <<dialled, shut, want, seen, close>>

(* The caller has used what it got. *)
Finish(g) ==
  /\ \E from \in {"got", "failed"} : Goto(g, from, "idle")
  /\ want' = [want EXCEPT ![g] = NoTarget]
  /\ seen' = [seen EXCEPT ![g] = NoConn]
  /\ UNCHANGED <<table, mu, close>>

Get(g) == Load(g) \/ Look(g) \/ Drop(g) \/ Lock(g) \/ (\E k \in Conn : Dial(g, k))
            \/ DialFail(g) \/ Store(g)

-----------------------------------------------------------------------------
(* Close.  sync.Map.Range visits every key stored when it begins, and may   *)
(* visit keys stored later.                                                 *)

Stored == {t \in Target : conns[t] # NoConn}

CloseBegin ==
  /\ closer = "no"
  /\ closer' = "range"
  /\ \E later \in SUBSET (Target \ Stored) : rest' = Stored \cup later
  /\ first' = {conns[t] : t \in Stored}
  /\ UNCHANGED <<table, mu, caller, key>>

(* Mutant: the callback returns false, which ends the range. *)
FaultyCloseConn(t) ==
  /\ closer = "range" /\ key = NoTarget /\ t \in rest
  /\ rest' = {}
  /\ IF conns[t] = NoConn
       THEN UNCHANGED <<shut, key>>
       ELSE shut' = shut \cup {conns[t]} /\ key' = t
  /\ UNCHANGED <<conns, dialled, mu, caller, closer, first>>

(* Mutant: the callback does not expect a key deleted meanwhile. *)
FaultyCloseNil(t) ==
  /\ closer = "range" /\ key = NoTarget /\ t \in rest
  /\ rest' = rest \ {t}
  /\ shut' = shut \cup {conns[t]} /\ key' = t
  /\ UNCHANGED <<conns, dialled, mu, caller, closer, first>>

(* The connection is closed, then its key deleted: two steps. *)
CloseConn(t) ==
  /\ closer = "range" /\ key = NoTarget /\ t \in rest
  /\ rest' = rest \ {t}
  /\ IF conns[t] = NoConn
       THEN UNCHANGED <<shut, key>>
       ELSE shut' = shut \cup {conns[t]} /\ key' = t
  /\ UNCHANGED <<conns, dialled, mu, caller, closer, first>>

CloseDelete ==
  /\ key # NoTarget
  /\ conns' = [conns EXCEPT ![key] = NoConn]
  /\ key' = NoTarget
  /\ UNCHANGED <<dialled, shut, mu, caller, closer, rest, first>>

CloseEnd ==
  /\ closer = "range" /\ key = NoTarget /\ rest = {}
  /\ closer' = "done"
  /\ UNCHANGED <<table, mu, caller, key, rest, first>>

Close == (\E t \in Target : CloseConn(t)) \/ CloseDelete \/ CloseEnd

-----------------------------------------------------------------------------
Next ==
  \/ \E g \in Caller : Get(g) \/ Finish(g) \/ \E t \in Target : Call(g, t)
  \/ CloseBegin \/ Close

Spec == Init /\ [][Next]_vars

-----------------------------------------------------------------------------
(* "每個目標地址只會維護一個連線實例" (pool.go:15): until Close is called, a    *)
(* target has one connection, whoever asks at the same time; the callers    *)
(* all get it, and it is in the map or about to be.                         *)
OneConnPerTarget ==
  closer = "no" =>
    /\ \A j, k \in Made : dialled[j] = dialled[k] => j = k
    /\ \A g \in Caller : at[g] = "got" => conns[want[g]] = seen[g]
    /\ \A k \in Made : \/ conns[dialled[k]] = k
                       \/ \E g \in Caller : at[g] = "store" /\ seen[g] = k

(* Close closes what was in the map when it began (pool.go:118), although   *)
(* callers that find a closed connection delete and store meanwhile.  Of    *)
(* what they store nothing is promised: it may stay open for good.          *)
CloseReachesAll == closer = "done" => first \subseteq shut
=============================================================================
