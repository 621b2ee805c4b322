----------------------------- MODULE PlayerSession -----------------------------
(***************************************************************************)
(* The life of one player connection: what the connector's WebSocket       *)
(* handler (internal/app/connector/handler/websocket_handler.go) does in   *)
(* OnConnect, OnMessage and OnDisconnect with the connection's tags and    *)
(* timers, the Join and Quit calls it makes, and the peer a game server    *)
(* (internal/engine) keeps for the session meanwhile.                      *)
(*                                                                         *)
(* One connection is enough: tags belong to a connection, and game servers *)
(* key their peers by session id.  When the callbacks run, and which of    *)
(* them overlap, is SubscriberContract's, which WssGateway implements;     *)
(* each callback here begins and ends with the contract's action.          *)
(***************************************************************************)
EXTENDS Naturals, Sequences

CONSTANTS
  Me,        \* the connection
  Server,    \* game servers of the game the player enters
  NoServer,  \* no target_endpoint
  MaxLogin,  \* bound: login messages that are sent
  MaxJoin    \* bound: enter_game messages that are sent

ASSUME NoServerAssumption == NoServer \notin Server
ASSUME BoundAssumption    == MaxLogin \in Nat /\ MaxJoin \in Nat

VARIABLES
  phase, inMsg, stopping,  \* the contract's
  op,         \* where OnMessage is
  dc,         \* where OnDisconnect is
  login,      \* the login timer
  loginTag,   \* tag login_timer has been set
  timers,     \* enter game timers that are running, by the login that armed them
  due,        \* enter game timers that have expired and are about to kick
  enterTag,   \* tag enter_game_timer: which of them (0: none)
  logins,     \* login messages so far
  user,       \* tag user_id: not set, an id, or the empty id of a refused login
  game,       \* tag current_game_id has been set
  target,     \* tag target_endpoint
  kickSoon,   \* a kick is scheduled in 100 ms
  kicked,     \* Kick has been called
  out,        \* the connection's send channel, as the handler's replies meet it
  kind,       \* what the game's servers are
  routeType,  \* service type the last GetRoute returned
  calls,      \* the OnPlayerJoin calls: server, and how far it is there
  peers,      \* servers that hold a peer for this session
  quit,       \* the server an OnPlayerQuit is on its way to
  happened    \* history: the faults and odd schedules so far

contract == <<phase, inMsg, stopping>>
timing   == <<login, loginTag, timers, due, enterTag, kickSoon>>
tags     == <<user, game, target>>
remote   == <<calls, peers, quit>>
vars     == <<contract, op, dc, timing, logins, tags, kicked, out, kind, routeType,
              remote, happened>>

Wss == INSTANCE SubscriberContract WITH Conn <- {Me}

Type == {"STATEFUL", "STATELESS"}
Odd  == {"earlyLogin", "overdue", "retried", "loginRefused", "joinTimeout", "quitLost",
         "restart", "untyped", "noRoute"}

(* A reply is all that is left: to return, kick, schedule a kick, or arm the *)
(* enter game timer after it.  Or the handler is on its way into a game.     *)
Replying == {"reply", "reject", "refuse", "arm"}
Entering == {"route", "join", "joined", "tagged"}

TypeOK ==
  /\ Wss!TypeOK
  /\ op \in {"none", "login", "central", "enter"} \cup Entering \cup Replying
  /\ dc \in {"none", "target", "game", "route", "end"}
  /\ login \in {"none", "armed", "stopped", "expired", "fired"} /\ loginTag \in BOOLEAN
  /\ timers \subseteq 1..MaxLogin /\ due \subseteq 1..MaxLogin
  /\ enterTag \in 0..MaxLogin
  /\ logins \in 0..MaxLogin
  /\ user \in {"unset", "id", "empty"}
  /\ game \in BOOLEAN /\ target \in Server \cup {NoServer}
  /\ kickSoon \in BOOLEAN /\ kicked \in BOOLEAN
  /\ out \in {"open", "jammed", "closed", "panicked"}
  /\ kind \in Type /\ routeType \in Type \cup {"UNKNOWN"}
  /\ calls \in Seq([srv : Server, at : {"sent", "added", "ok", "failed", "lost"}])
  /\ Len(calls) <= MaxJoin
  /\ peers \subseteq Server
  /\ quit \in Server \cup {NoServer}
  /\ happened \subseteq Odd
  /\ target # NoServer => game /\ user = "id"

Init ==
  /\ Wss!Init
  /\ op = "none" /\ dc = "none"
  /\ login = "none" /\ loginTag = FALSE /\ timers = {} /\ due = {} /\ enterTag = 0
  /\ logins = 0
  /\ user = "unset" /\ game = FALSE /\ target = NoServer
  /\ kickSoon = FALSE /\ kicked = FALSE /\ out = "open"
  /\ kind \in Type /\ routeType = "UNKNOWN"
  /\ calls = <<>> /\ peers = {} /\ quit = NoServer
  /\ happened = {}

Note(odd) == happened' = happened \cup {odd}

-----------------------------------------------------------------------------
(* OnConnect, in the hub.  The timer runs before its tag is set. *)

ConnectBegin ==
  /\ Wss!ConnectBegin(Me)
  /\ UNCHANGED <<op, dc, timing, logins, tags, kicked, out, kind, routeType, remote,
                 happened>>

ArmLoginTimer ==
  /\ phase[Me] = "connecting" /\ login = "none"
  /\ login' = "armed"
  /\ UNCHANGED <<contract, op, dc, loginTag, timers, due, enterTag, kickSoon, logins,
                 tags, kicked, out, kind, routeType, remote, happened>>

ConnectEnd ==
  /\ login # "none"
  /\ Wss!ConnectEnd(Me)
  /\ loginTag' = TRUE
  /\ UNCHANGED <<op, dc, login, timers, due, enterTag, kickSoon, logins, tags, kicked,
                 out, kind, routeType, remote, happened>>

-----------------------------------------------------------------------------
(* Timers.  A timer that expires starts its callback in a goroutine of its   *)
(* own, which logs and then waits in Kick for the connection's mutex; Stop   *)
(* does nothing to it any more, and stopTimer does not look at its result.   *)

StopLoginTimer == login' = IF loginTag /\ login = "armed" THEN "stopped" ELSE login
StopEnterTimer == timers' = timers \ {enterTag}

Ticking == UNCHANGED <<contract, op, dc, loginTag, enterTag, logins, tags, out, kind,
                       routeType, remote, happened>>

LoginExpire ==
  /\ login = "armed" /\ login' = "expired"
  /\ UNCHANGED <<timers, due, kickSoon, kicked>> /\ Ticking

LoginKick ==
  /\ login = "expired" /\ login' = "fired" /\ kicked' = TRUE
  /\ UNCHANGED <<timers, due, kickSoon>> /\ Ticking

EnterExpire(i) ==
  /\ i \in timers
  /\ timers' = timers \ {i} /\ due' = due \cup {i}
  /\ UNCHANGED <<login, kickSoon, kicked>> /\ Ticking

EnterKick(i) ==
  /\ i \in due
  /\ due' = due \ {i} /\ kicked' = TRUE
  /\ UNCHANGED <<login, timers, kickSoon>> /\ Ticking

AuthKick ==
  /\ kickSoon
  /\ kickSoon' = FALSE /\ kicked' = TRUE
  /\ UNCHANGED <<login, timers, due>> /\ Ticking

-----------------------------------------------------------------------------
(* OnMessage, in the read pump.  Every path ends with a reply; for any       *)
(* message but a login or an enter_game that is all that concerns a session: *)
(* it is forwarded to the target, or to a route, or refused.                 *)

Receive(action) ==
  /\ Wss!MessageBegin(Me)
  /\ out # "panicked"
  /\ action = "login" => logins < MaxLogin
  /\ action = "enter" => Len(calls) < MaxJoin
  /\ op' = IF action = "play" THEN "reply" ELSE action
  /\ logins' = IF action = "login" THEN logins + 1 ELSE logins
  /\ UNCHANGED <<dc, timing, tags, kicked, out, kind, routeType, remote, happened>>

mine == <<login, timers, enterTag, kickSoon, tags, kicked, routeType, calls, peers>>

Step(from, to) ==
  /\ op = from /\ op' = to
  /\ UNCHANGED <<contract, dc, loginTag, due, logins, out, kind, quit>>

Return(from) ==
  /\ op = from /\ op' = "none"
  /\ Wss!MessageEnd(Me)
  /\ UNCHANGED <<dc, loginTag, due, logins, kind, quit>>

(* A reply is a send on the connection's channel.  It returns at once, or    *)
(* when the write pump has made room ...                                     *)
Reply(from) == out = "open" /\ Return(from) /\ UNCHANGED out

Replied      == Reply("reply")  /\ UNCHANGED <<mine, happened>>
ReplyKick    == Reply("reject") /\ kicked' = TRUE
                /\ UNCHANGED <<login, timers, enterTag, kickSoon, tags, routeType, calls,
                               peers, happened>>
ScheduleKick == Reply("refuse") /\ kickSoon' = TRUE
                /\ UNCHANGED <<login, timers, enterTag, tags, kicked, routeType, calls,
                               peers, happened>>
ArmEnterTimer ==
  /\ Reply("arm")
  /\ timers' = timers \cup {logins} /\ enterTag' = logins
  /\ UNCHANGED <<login, kickSoon, tags, kicked, routeType, calls, peers, happened>>

(* ... but if the channel is full and the write pump has ended, it waits for *)
(* good (WssGateway's Stuck) ...                                             *)
Jam ==
  /\ op \in Replying /\ out = "open"
  /\ out' = "jammed"
  /\ UNCHANGED <<contract, op, dc, timing, logins, tags, kicked, kind, routeType, remote,
                 happened>>

(* ... unless the hub closes the channel, which it does before the read pump *)
(* has returned only in the drain of a server that stops: then it panics, a  *)
(* reply that waits too, and the pump recovers and ends.                     *)
CloseSend ==
  /\ stopping /\ phase[Me] = "gone" /\ out \in {"open", "jammed"}
  /\ out' = "closed"
  /\ UNCHANGED <<contract, op, dc, timing, logins, tags, kicked, kind, routeType, remote,
                 happened>>

ReplyPanic ==
  /\ out = "closed" /\ out' = "panicked"
  /\ \E from \in Replying : Return(from)
  /\ UNCHANGED <<mine, happened>>

(* handleLogin *)
AlreadyLoggedIn ==
  /\ user = "id"
  /\ Step("login", "reply")
  /\ UNCHANGED <<mine, happened>>

Oddities == {odd \in {"earlyLogin", "overdue", "retried"} :
               \/ odd = "earlyLogin" /\ ~loginTag
               \/ odd = "overdue" /\ login = "expired"
               \/ odd = "retried" /\ kickSoon}

LoginBegin ==
  /\ user # "id"
  /\ Step("login", "central")
  /\ StopLoginTimer
  /\ happened' = happened \cup Oddities
  /\ UNCHANGED <<timers, enterTag, kickSoon, tags, kicked, routeType, calls, peers>>

LoginInvalid ==
  /\ user # "id"
  /\ Step("login", "reject")
  /\ StopLoginTimer
  /\ UNCHANGED <<timers, enterTag, kickSoon, tags, kicked, routeType, calls, peers,
                 happened>>

(* Mutant: the client is told, and stays. *)
FaultyLoginError == Step("central", "reply") /\ UNCHANGED <<mine, happened>>

(* Central did not answer: the kick comes 100 ms after the reply. *)
LoginError == Step("central", "refuse") /\ UNCHANGED <<mine, happened>>

(* Central answered.  It reports a refused token with Success false and no   *)
(* user id; the handler looks at neither, and tells the client it is in.     *)
LoginAnswer(success) ==
  /\ Step("central", "arm")
  /\ user' = IF success THEN "id" ELSE "empty"
  /\ IF success THEN UNCHANGED happened ELSE Note("loginRefused")
  /\ UNCHANGED <<login, timers, enterTag, kickSoon, game, target, kicked, routeType,
                 calls, peers>>

(* handleEnterGame *)

(* Mutant: the timer is stopped before the message is looked at. *)
FaultyEnterRefused ==
  /\ Step("enter", "reply")
  /\ StopEnterTimer
  /\ UNCHANGED <<login, enterTag, kickSoon, tags, kicked, routeType, calls, peers,
                 happened>>

EnterRefused ==      \* already in a game, or an invalid payload
  /\ Step("enter", "reply")
  /\ UNCHANGED <<mine, happened>>

EnterNotLoggedIn ==
  /\ ~game /\ user # "id"
  /\ Step("enter", "reject")
  /\ UNCHANGED <<mine, happened>>

(* Mutant: the enter game timer is not stopped. *)
FaultyEnterBegin ==
  /\ ~game /\ user = "id"
  /\ Step("enter", "route")
  /\ UNCHANGED <<mine, happened>>

EnterBegin ==
  /\ ~game /\ user = "id"
  /\ Step("enter", "route")
  /\ StopEnterTimer
  /\ IF enterTag \in due THEN Note("overdue") ELSE UNCHANGED happened
  /\ UNCHANGED <<login, enterTag, kickSoon, tags, kicked, routeType, calls, peers>>

(* No route, or no connection to the server.  The timer is not armed again. *)
RouteFailed ==
  /\ Step("route", "reply")
  /\ Note("noRoute")
  /\ UNCHANGED mine

(* The registry may know the server before it knows the game's type, or fail *)
(* to read the type it knows.                                                *)
Join(s, type) ==
  /\ type \in {kind, "UNKNOWN"}
  /\ Step("route", "join")
  /\ routeType' = type
  /\ calls' = Append(calls, [srv |-> s, at |-> "sent"])
  /\ IF type = kind THEN UNCHANGED happened ELSE Note("untyped")
  /\ UNCHANGED <<login, timers, enterTag, kickSoon, tags, kicked, peers>>

Current == calls[Len(calls)]

(* No answer in 3 s, or the call broke; the server may still be at it. *)
JoinTimeout ==
  /\ Step("join", "reply")
  /\ Note("joinTimeout")
  /\ UNCHANGED mine

(* Mutant: the reply counts, whatever its code says. *)
FaultyJoinRefused ==
  /\ Step("join", "joined")
  /\ Current.at = "failed"
  /\ UNCHANGED <<mine, happened>>

JoinRefused ==
  /\ Step("join", "reply")
  /\ Current.at = "failed"
  /\ UNCHANGED <<mine, happened>>

JoinAccepted ==
  /\ Step("join", "joined")
  /\ Current.at = "ok"
  /\ UNCHANGED <<mine, happened>>

(* Mutant: tag current_game_id is not set. *)
FaultySetGame ==
  /\ Step("joined", IF routeType = "STATEFUL" THEN "tagged" ELSE "reply")
  /\ UNCHANGED <<mine, happened>>

SetGame ==
  /\ Step("joined", IF routeType = "STATEFUL" THEN "tagged" ELSE "reply")
  /\ game' = TRUE
  /\ UNCHANGED <<login, timers, enterTag, kickSoon, user, target, kicked, routeType,
                 calls, peers, happened>>

SetTarget ==
  /\ Step("tagged", "reply")
  /\ target' = Current.srv
  /\ UNCHANGED <<login, timers, enterTag, kickSoon, user, game, kicked, routeType,
                 calls, peers, happened>>

-----------------------------------------------------------------------------
(* The game server's end of the calls. *)

AtServer(i, from, to) ==
  /\ i \in DOMAIN calls
  /\ calls[i].at = from
  /\ calls' = [calls EXCEPT ![i].at = to]
  /\ UNCHANGED <<contract, op, dc, timing, logins, tags, kicked, out, kind, routeType,
                 quit, happened>>

(* OnPlayerJoin: the user cannot be read, or the peer is added ... *)
JoinNoUser(i) == AtServer(i, "sent", "failed") /\ UNCHANGED peers
JoinAdd(i) ==
  /\ AtServer(i, "sent", "added")
  /\ peers' = IF kind = "STATEFUL" THEN peers \cup {calls[i].srv} ELSE peers

(* ... and the game's OnJoin accepts or refuses. *)
JoinDone(i) == AtServer(i, "added", "ok") /\ UNCHANGED peers

(* Mutant: the peer stays when OnJoin refuses. *)
FaultyJoinUndo(i) == AtServer(i, "added", "failed") /\ UNCHANGED peers
JoinUndo(i) ==
  /\ AtServer(i, "added", "failed")
  /\ peers' = peers \ {calls[i].srv}

(* OnPlayerQuit; the peer goes even when the game's OnQuit fails. *)
QuitServed ==
  /\ quit # NoServer
  /\ peers' = peers \ {quit}
  /\ quit' = NoServer
  /\ UNCHANGED <<contract, op, dc, timing, logins, tags, kicked, out, kind, routeType,
                 calls, happened>>

QuitLost ==
  /\ quit # NoServer
  /\ quit' = NoServer
  /\ Note("quitLost")
  /\ UNCHANGED <<contract, op, dc, timing, logins, tags, kicked, out, kind, routeType,
                 calls, peers>>

(* A game server restarts at the same endpoint, without its peers: of those  *)
(* restarts, one that finds anything of this session.                        *)
Restart(s) ==
  /\ s \in peers \/ \E i \in DOMAIN calls : calls[i].srv = s /\ calls[i].at \in {"sent", "added"}
  /\ peers' = peers \ {s}
  /\ calls' = [i \in DOMAIN calls |->
       IF calls[i].srv = s /\ calls[i].at \in {"sent", "added"}
         THEN [calls[i] EXCEPT !.at = "lost"] ELSE calls[i]]
  /\ Note("restart")
  /\ UNCHANGED <<contract, op, dc, timing, logins, tags, kicked, out, kind, routeType,
                 quit>>

-----------------------------------------------------------------------------
(* OnDisconnect, in the hub: while the server stops it can overlap OnMessage *)
(* and reads the tags one by one.                                            *)

DisconnectBegin ==
  /\ Wss!DisconnectBegin(Me)
  /\ StopLoginTimer /\ StopEnterTimer
  /\ dc' = "target"
  /\ UNCHANGED <<op, loginTag, due, enterTag, kickSoon, logins, tags, kicked, out, kind,
                 routeType, remote, happened>>

Hub(from, to) ==
  /\ dc = from /\ dc' = to
  /\ UNCHANGED <<contract, op, timing, logins, tags, kicked, out, kind, routeType, calls,
                 peers, happened>>

QuitTarget == target # NoServer /\ Hub("target", "end") /\ quit' = target
NoTarget   == target = NoServer /\ Hub("target", "game") /\ UNCHANGED quit
NoGame     == ~game /\ Hub("game", "end") /\ UNCHANGED quit
AskRoute   == game /\ Hub("game", "route") /\ UNCHANGED quit

(* Mutant: asks again until there is a route. *)
FaultyQuitRoute(s) == Hub("route", IF s = NoServer THEN "game" ELSE "end") /\ quit' = s

(* Any server of the game, or none: then there is nobody to notify. *)
QuitRoute(s) == Hub("route", "end") /\ quit' = s

DisconnectEnd ==
  /\ dc = "end" /\ dc' = "none"
  /\ Wss!DisconnectEnd(Me)
  /\ UNCHANGED <<op, timing, logins, tags, kicked, out, kind, routeType, remote, happened>>

ServerStop ==
  /\ Wss!Stop
  /\ UNCHANGED <<op, dc, timing, logins, tags, kicked, out, kind, routeType, remote,
                 happened>>

-----------------------------------------------------------------------------
HandleLogin == \/ AlreadyLoggedIn \/ LoginBegin \/ LoginInvalid \/ LoginError
               \/ \E success \in BOOLEAN : LoginAnswer(success)
HandleEnter == \/ EnterRefused \/ EnterNotLoggedIn \/ EnterBegin \/ RouteFailed
               \/ \E s \in Server, type \in Type \cup {"UNKNOWN"} : Join(s, type)
               \/ JoinTimeout \/ JoinRefused \/ JoinAccepted \/ SetGame \/ SetTarget
Replies == Replied \/ ReplyKick \/ ScheduleKick \/ ArmEnterTimer \/ ReplyPanic
Handler == HandleLogin \/ HandleEnter \/ Replies
OnConnect == ArmLoginTimer \/ ConnectEnd
OnDisconnect == \/ QuitTarget \/ NoTarget \/ NoGame \/ AskRoute \/ DisconnectEnd
                \/ \E s \in Server \cup {NoServer} : QuitRoute(s)
Timers == \/ LoginExpire \/ LoginKick \/ AuthKick
          \/ \E i \in 1..MaxLogin : EnterExpire(i) \/ EnterKick(i)
JoinCalls == \E i \in 1..MaxJoin :
               JoinNoUser(i) \/ JoinAdd(i) \/ JoinDone(i) \/ JoinUndo(i)
QuitCall == QuitServed \/ QuitLost

Next ==
  \/ ConnectBegin \/ OnConnect
  \/ \E action \in {"login", "enter", "play"} : Receive(action)
  \/ Handler \/ Timers \/ Jam \/ CloseSend
  \/ DisconnectBegin \/ OnDisconnect \/ ServerStop
  \/ JoinCalls \/ QuitCall
  \/ \E s \in Server : Restart(s)

Spec == Init /\ [][Next]_vars

-----------------------------------------------------------------------------
(* Safety. *)

(* When a session is over and nothing of it is on its way, no game server    *)
(* still holds its peer.  What it takes for a ghost to stay is all in the    *)
(* premise: a Join the connector gave up on, a lost Quit, a route without    *)
(* its type, or an OnDisconnect that overlaps an enter_game at shutdown.     *)
NoGhostPeer ==
  /\ phase[Me] = "gone" /\ op = "none" /\ quit = NoServer
  /\ ~stopping
  /\ happened \cap {"joinTimeout", "quitLost", "untyped"} = {}
  => peers = {}

(* A player who was told to be in a stateful game is known to the server its *)
(* messages go to, unless that server restarted or an earlier Join the       *)
(* connector gave up on failed late and removed the newer peer.              *)
InGameHasPeer ==
  /\ phase[Me] = "connected" /\ target # NoServer
  /\ happened \cap {"joinTimeout", "restart"} = {}
  => target \in peers

(* Who is logged in is kicked only by the enter game timer, and only as long *)
(* as it is neither in a game nor on the way into one -- unless its login    *)
(* came before the login timer had its tag, a timer expired and its callback *)
(* was still on the way to Kick when the handler stopped it, a login that    *)
(* went through followed one that failed within the 100 ms to its kick, or   *)
(* an earlier login was refused and its timer was overwritten.               *)
TimersSpareAdmitted ==
  [][/\ kicked' # kicked /\ user = "id"
     /\ happened \cap {"earlyLogin", "overdue", "retried", "loginRefused"} = {}
     => due' # due /\ ~game /\ op \notin Entering]_vars

-----------------------------------------------------------------------------
(* Liveness.  Callbacks and calls end (every call the connector makes has a  *)
(* timeout), but for a reply that is jammed; timers fire, and Kick gets the  *)
(* mutex, which the write pump holds no longer than a write deadline;        *)
(* messages, disconnects, faults and jams are not owed.                      *)
Fairness ==
  /\ WF_vars(Handler) /\ WF_vars(OnConnect) /\ WF_vars(OnDisconnect)
  /\ WF_vars(LoginExpire) /\ WF_vars(LoginKick) /\ WF_vars(AuthKick)
  /\ \A i \in 1..MaxLogin : WF_vars(EnterExpire(i)) /\ WF_vars(EnterKick(i))
  /\ WF_vars(JoinCalls) /\ WF_vars(QuitCall)

FairSpec == Spec /\ Fairness

(* The handler waits for good in a reply, and no timer is left that would    *)
(* end the connection: the login timer was stopped before the reply, and the *)
(* kick, or the enter game timer, comes after it.                            *)
Stuck == out = "jammed" /\ op \in Replying

(* A connection does not stay without a login: some timer kicks it, whatever *)
(* it sends and whatever Central answers, unless a reply is stuck.           *)
UnauthenticatedLeaves ==
  phase[Me] = "connected" /\ user # "id"
    ~> (user = "id" \/ kicked \/ phase[Me] # "connected" \/ Stuck)

(* A player who is logged in enters a game or is kicked by the enter game    *)
(* timer -- unless it tried and there was no route, or the Join failed: then *)
(* nothing limits its stay any more (websocket_handler.go:274) -- or unless  *)
(* a reply is stuck, the one to its login before the timer is armed.         *)
EnterGameDecided ==
  phase[Me] = "connected" /\ user = "id"
    ~> (game \/ kicked \/ phase[Me] # "connected" \/ calls # <<>>
          \/ "noRoute" \in happened \/ Stuck)

(* A session that ends is over: its Quit has been tried and its callbacks    *)
(* have returned, so Close does not wait forever.                            *)
SessionEnds ==
  phase[Me] = "disconnecting" ~> (phase[Me] = "gone" /\ quit = NoServer)
=============================================================================
