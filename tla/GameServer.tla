------------------------------ MODULE GameServer ------------------------------
(***************************************************************************)
(* A game server at work: the framework server of internal/engine with its *)
(* peers, the pushes its games make to the connector through the           *)
(* connection pool, and the cleanup that closes that pool and then waits   *)
(* for the calls under way.  A game is any GameHandler; the two demos are  *)
(* instances of it.                                                        *)
(*                                                                         *)
(* Of a session at the connector only its order is here (in its table,     *)
(* OnPlayerJoin, OnMessage, out of the table, OnPlayerQuit); PlayerSession *)
(* has that side in full.                                                  *)
(***************************************************************************)
EXTENDS FiniteSets

CONSTANTS
  Session,  \* sessions, each a player of its own
  Caller,   \* goroutines that push: a bound on pushes at a time
  Conn,     \* connections that may be dialled: a bound
  Host,     \* the connector's address
  NoHost,   \* the empty ConnectorHost of a partial peer
  NoConn, NoCaller, NoTarget, NoJob

ASSUME NoneAssumption ==
  NoCaller \notin Caller /\ NoTarget \notin {Host, NoHost} /\ NoConn \notin Conn

VARIABLES
  conns, mu, dialled, shut, at, want, seen, closer, key, rest, first, \* GrpcPool's
  stateful, \* Server.isStateful
  sess,     \* the session at the connector
  join, msg, quit, \* where the handler of each session's call is
  late,     \* sessions the connector no longer waits for a message's answer of
  peers,    \* PeerManager
  job,      \* the push of each goroutine
  result,   \* how its RPC ended
  stop      \* where the cleanup of RunGameServer is

pool == <<conns, mu, dialled, shut, at, want, seen, closer, key, rest, first>>
push == <<job, result>>
handlers == <<join, msg, quit>>
vars == <<pool, stateful, sess, handlers, late, peers, push, stop>>

Pool == INSTANCE GrpcPool WITH Target <- {Host, NoHost}

(* A push: which method of Peer makes it and from where, to whom, on whose   *)
(* message's context, and whether that context still holds.                  *)
Job == [by : {"welcome", "send", "kick", "broadcast"}, to : Session, from : Session,
        ctx : BOOLEAN]

ASSUME NoJobAssumption == NoJob \notin Job

TypeOK ==
  /\ Pool!TypeOK
  /\ stateful \in BOOLEAN
  /\ sess \in [Session -> {"open", "in", "left", "gone"}]
  /\ join \in [Session -> {"idle", "user", "onJoin"}]
  /\ msg \in [Session -> {"idle", "onMessage", "push"}]
  /\ quit \in [Session -> {"idle", "onQuit"}]
  /\ late \subseteq Session /\ peers \subseteq Session
  /\ job \in [Caller -> Job \cup {NoJob}]
  /\ result \in [Caller -> {"none", "ok", "timeout", "failed"}]
  /\ stop \in {"no", "pool", "drain", "done"}

Init ==
  /\ Pool!Init
  /\ stateful \in BOOLEAN
  /\ sess = [s \in Session |-> "open"]
  /\ join = [s \in Session |-> "idle"]
  /\ msg = [s \in Session |-> "idle"]
  /\ quit = [s \in Session |-> "idle"]
  /\ late = {} /\ peers = {}
  /\ job = [g \in Caller |-> NoJob] /\ result = [g \in Caller |-> "none"]
  /\ stop = "no"

(* The stub's handler takes calls until GracefulStop; the process ends with  *)
(* cleanup, whatever is still being pushed.                                  *)
Accepting == stop \in {"no", "pool"}
Alive     == stop # "done"

Goto(s, h, from, to) == Alive /\ h[s] = from /\ h' = [h EXCEPT ![s] = to]

(* go func() { ... peer.Send ... }: each of the jobs has a goroutine. *)
Free == {g \in Caller : job[g] = NoJob}
Spawn(js) == \E f \in [js -> Free] :
  /\ \A i, j \in js : f[i] = f[j] => i = j
  /\ job' = [g \in Caller |-> IF \E j \in js : f[j] = g THEN CHOOSE j \in js : f[j] = g
                                                        ELSE job[g]]
  /\ UNCHANGED result

-----------------------------------------------------------------------------
(* OnPlayerJoin. *)

JoinCall(s) ==
  /\ Accepting /\ sess[s] = "open"
  /\ Goto(s, join, "idle", "user")
  /\ UNCHANGED <<pool, stateful, sess, msg, quit, late, peers, push, stop>>

(* GetUserByID fails. *)
JoinNoUser(s) ==
  /\ Goto(s, join, "user", "idle")
  /\ UNCHANGED <<pool, stateful, sess, msg, quit, late, peers, push, stop>>

(* Mutant: session id and connector address change places in NewPeer. *)
FaultyJoinPeer(s) ==
  /\ Goto(s, join, "user", "onJoin")
  /\ peers' = IF stateful THEN peers \cup {Host} ELSE peers
  /\ UNCHANGED <<pool, stateful, sess, msg, quit, late, push, stop>>

(* The balance is fetched, or its error logged; the peer is made. *)
JoinPeer(s) ==
  /\ Goto(s, join, "user", "onJoin")
  /\ peers' = IF stateful THEN peers \cup {s} ELSE peers
  /\ UNCHANGED <<pool, stateful, sess, msg, quit, late, push, stop>>

(* The stateful demo's OnJoin leaves a goroutine that pushes a welcome after *)
(* a second, on a context of its own.  The answer may be lost.               *)
OnJoin(s) ==
  /\ Goto(s, join, "onJoin", "idle")
  /\ sess' \in {sess, [sess EXCEPT ![s] = IF @ = "open" THEN "in" ELSE @]}
  /\ IF stateful
       THEN Spawn({[by |-> "welcome", to |-> s, from |-> s, ctx |-> TRUE]})
       ELSE UNCHANGED push
  /\ UNCHANGED <<pool, stateful, msg, quit, late, peers, stop>>

OnJoinFail(s) ==
  /\ Goto(s, join, "onJoin", "idle")
  /\ peers' = peers \ {s}
  /\ UNCHANGED <<pool, stateful, sess, msg, quit, late, push, stop>>

-----------------------------------------------------------------------------
(* OnMessage. *)

(* With the call its context ends, and with it that of its pushes. *)
Expire(s) ==
  /\ job' = [g \in Caller |->
               IF job[g] # NoJob /\ job[g].from = s /\ job[g].by # "welcome"
                 THEN [job[g] EXCEPT !.ctx = FALSE] ELSE job[g]]
  /\ UNCHANGED result

MsgCall(s) ==
  /\ Accepting /\ sess[s] = "in"
  /\ IF stateful /\ s \notin peers
       THEN msg[s] = "idle" /\ UNCHANGED msg            \* "peer not found"
       ELSE Goto(s, msg, "idle", "onMessage")
  /\ UNCHANGED <<pool, stateful, sess, join, quit, late, peers, push, stop>>

(* The connector's timeout. *)
GiveUp(s) ==
  /\ Alive /\ msg[s] # "idle" /\ s \notin late
  /\ late' = late \cup {s}
  /\ Expire(s)
  /\ UNCHANGED <<pool, stateful, sess, handlers, peers, stop>>

Push(s, by, to) == [by |-> by, to |-> to, from |-> s, ctx |-> s \notin late]

(* The handler may Send to or Kick its player and wait for that. *)
MsgPush(s) ==
  /\ Goto(s, msg, "onMessage", "push")
  /\ \E by \in {"send", "kick"} : Spawn({Push(s, by, s)})
  /\ UNCHANGED <<pool, stateful, sess, join, quit, late, peers, stop>>

(* Broadcast starts a goroutine for each peer and waits for none of them. *)
MsgBroadcast(s) ==
  /\ stateful /\ Goto(s, msg, "onMessage", "onMessage")
  /\ Spawn({Push(s, "broadcast", p) : p \in peers})
  /\ UNCHANGED <<pool, stateful, sess, join, quit, late, peers, stop>>

MsgReply(s) ==
  /\ Goto(s, msg, "onMessage", "idle")
  /\ late' = late \ {s}
  /\ Expire(s)
  /\ UNCHANGED <<pool, stateful, sess, join, quit, peers, stop>>

-----------------------------------------------------------------------------
(* The player leaves, and OnPlayerQuit, which nothing holds back while an   *)
(* OnMessage of the same player runs.                                       *)

Left(s) == [sess EXCEPT ![s] = CASE @ = "open" -> "gone" [] @ = "in" -> "left" [] OTHER -> @]

Leave(s) ==
  /\ Alive /\ sess[s] \in {"open", "in"}
  /\ sess' = Left(s)
  /\ UNCHANGED <<pool, stateful, handlers, late, peers, push, stop>>

QuitCall(s) ==
  /\ Accepting /\ sess[s] = "left"
  /\ sess' = [sess EXCEPT ![s] = "gone"]
  /\ IF stateful /\ s \notin peers
       THEN quit[s] = "idle" /\ UNCHANGED quit
       ELSE Goto(s, quit, "idle", "onQuit")
  /\ UNCHANGED <<pool, stateful, join, msg, late, peers, push, stop>>

OnQuit(s) ==
  /\ Goto(s, quit, "onQuit", "idle")
  /\ peers' = peers \ {s}
  /\ UNCHANGED <<pool, stateful, sess, join, msg, late, push, stop>>

-----------------------------------------------------------------------------
(* Peer.Send and Peer.Kick: GetConnection, then the RPC. *)

(* OnPlayerJoin's peer knows its connector; the partial peer of a stateless  *)
(* OnMessage does not.                                                       *)
HostOf(j) == IF stateful THEN Host ELSE NoHost

PushBegin(g) ==
  /\ Alive /\ job[g] # NoJob
  /\ Pool!Call(g, HostOf(job[g]))
  /\ UNCHANGED <<stateful, sess, handlers, late, peers, push, stop>>

PushGet(g) ==
  /\ Alive /\ Pool!Get(g)
  /\ UNCHANGED <<stateful, sess, handlers, late, peers, push, stop>>

Reached(g) == at[g] = "got" /\ seen[g] \notin shut /\ want[g] = Host /\ job[g].ctx

(* Mutant: the call waits for a connection that is ready, closed or not. *)
FaultyPushInvoke(g) ==
  /\ Alive /\ at[g] \in {"got", "failed"} /\ result[g] = "none" /\ seen[g] \notin shut
  /\ \E r \in IF Reached(g) THEN {"ok", "timeout"} ELSE {"failed"} :
       result' = [result EXCEPT ![g] = r]
  /\ sess' = IF job[g].by = "kick" /\ Reached(g) THEN Left(job[g].to) ELSE sess
  /\ UNCHANGED <<pool, stateful, handlers, late, peers, job, stop>>

(* A call on a closed connection, to no address or on a context that is done *)
(* fails; one for a session that is not in the connector's table does not.   *)
PushInvoke(g) ==
  /\ Alive /\ at[g] \in {"got", "failed"} /\ result[g] = "none"
  /\ \E r \in IF Reached(g) THEN {"ok", "timeout"} ELSE {"failed"} :
       result' = [result EXCEPT ![g] = r]
  /\ sess' = IF job[g].by = "kick" /\ Reached(g) THEN Left(job[g].to) ELSE sess
  /\ UNCHANGED <<pool, stateful, handlers, late, peers, job, stop>>

(* Mutant: a push whose context ended does not report back. *)
FaultyPushEnd(g) ==
  /\ Alive /\ result[g] # "none"
  /\ Pool!Finish(g)
  /\ result' = [result EXCEPT ![g] = "none"]
  /\ job' = [job EXCEPT ![g] = NoJob]
  /\ msg' = IF job[g].by \in {"send", "kick"} /\ job[g].ctx
              THEN [msg EXCEPT ![job[g].from] = "onMessage"] ELSE msg
  /\ UNCHANGED <<stateful, sess, join, quit, late, peers, stop>>

PushEnd(g) ==
  /\ Alive /\ result[g] # "none"
  /\ Pool!Finish(g)
  /\ result' = [result EXCEPT ![g] = "none"]
  /\ job' = [job EXCEPT ![g] = NoJob]
  /\ msg' = IF job[g].by \in {"send", "kick"} THEN [msg EXCEPT ![job[g].from] = "onMessage"]
                                             ELSE msg
  /\ UNCHANGED <<stateful, sess, join, quit, late, peers, stop>>

-----------------------------------------------------------------------------
(* Cleanup of the runner, once registrar.Stop has returned (ProcessLife): the *)
(* pool first, then GracefulStop.                                            *)

ClosePool ==
  /\ Alive /\ stop \in {"no", "pool"} /\ stop' = "pool"
  /\ Pool!CloseBegin \/ Pool!Close
  /\ UNCHANGED <<stateful, sess, handlers, late, peers, push>>

GracefulStop ==
  /\ stop = "pool" /\ closer = "done"
  /\ stop' = "drain"
  /\ UNCHANGED <<pool, stateful, sess, handlers, late, peers, push>>

Idle(s) == join[s] = "idle" /\ msg[s] = "idle" /\ quit[s] = "idle"

Drained ==
  /\ stop = "drain" /\ \A s \in Session : Idle(s)
  /\ stop' = "done"
  /\ UNCHANGED <<pool, stateful, sess, handlers, late, peers, push>>

-----------------------------------------------------------------------------
(* What the server owes to a call it has taken, and to a push. *)
Handling(s) == JoinNoUser(s) \/ JoinPeer(s) \/ OnJoin(s) \/ OnJoinFail(s) \/ MsgReply(s)
                 \/ OnQuit(s)
Pushing(g) == PushBegin(g) \/ PushGet(g) \/ PushInvoke(g) \/ PushEnd(g)
Cleanup    == ClosePool \/ GracefulStop \/ Drained

Next ==
  \/ \E s \in Session : \/ JoinCall(s) \/ MsgCall(s) \/ QuitCall(s) \/ Leave(s) \/ GiveUp(s)
                        \/ Handling(s) \/ MsgPush(s) \/ MsgBroadcast(s)
  \/ \E g \in Caller : Pushing(g)
  \/ Cleanup

Spec == Init /\ [][Next]_vars

(* A handler returns in the end, a goroutine runs on, cleanup goes on once begun; no    *)
(* call has to come, no signal, and no handler has to push.                  *)
Fairness ==
  /\ \A s \in Session : WF_vars(Handling(s)) /\ SF_vars(MsgReply(s))
  /\ \A g \in Caller : WF_vars(Pushing(g))
  /\ WF_vars(stop # "no" /\ Cleanup)

FairSpec == Spec /\ Fairness

-----------------------------------------------------------------------------
(* A message handler returns, whatever becomes of its push: neither the pool *)
(* nor the connector can hold it for good (peer.go:34-76).                   *)
HandlerReturns ==
  \A s \in Session : msg[s] # "idle" ~> (msg[s] = "idle" \/ ~Alive)

(* A cleanup that has deregistered ends: GracefulStop waits for handlers that *)
(* wait for pushes that wait for a pool that is closed, and all of them come *)
(* back (runner.go:124-125).                                                 *)
CleanupEnds == stop # "no" ~> stop = "done"
=============================================================================
