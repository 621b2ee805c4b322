-------------------------- MODULE PlayerSession_proofs --------------------------
(***************************************************************************)
(* Theorems about PlayerSession, for any game servers and any number of    *)
(* messages.                                                               *)
(***************************************************************************)
EXTENDS PlayerSession, SequenceTheorems, TLAPS

Call == [srv : Server, at : {"sent", "added", "ok", "failed", "lost"}]

(* Where the callbacks are, and what the handler has made sure of there. *)
HandlerInv ==
  /\ op # "none" <=> Me \in inMsg
  /\ phase[Me] = "new" => op = "none" /\ target = NoServer
  /\ ~stopping /\ op # "none" => phase[Me] \in {"connecting", "connected"}
  /\ op \in {"login", "central", "arm"} => logins # 0
  /\ op \in {"central", "reject", "refuse"} => user # "id"
  /\ op \in Entering => user = "id"
  /\ op \in {"central", "arm", "route", "join", "joined"} => ~game
  /\ op = "tagged" => game /\ routeType = "STATEFUL"
  /\ op \in {"enter", "route"} => Len(calls) < MaxJoin
  /\ op \in {"join", "joined", "tagged"} => Len(calls) # 0
  /\ game => user = "id"
  /\ routeType \in {kind, "UNKNOWN"}

(* OnDisconnect sends its Quit last. *)
QuitInv ==
  /\ dc # "none" <=> phase[Me] = "disconnecting"
  /\ quit # NoServer => dc = "end" \/ phase[Me] = "gone"

(* As long as the connector has given up on no Join, only its current call   *)
(* can be at a server, and only the last one can have been accepted.         *)
CallInv ==
  "joinTimeout" \notin happened =>
    /\ \A i \in DOMAIN calls :
         /\ calls[i].at \in {"sent", "added", "lost"} => i = Len(calls) /\ op = "join"
         /\ calls[i].at = "ok" => i = Len(calls) /\ (op \in {"join", "joined"} \/ game)
    /\ op \in {"joined", "tagged"} => Current.at = "ok"

(* A peer is the current call's, and someone is going to see to it: the      *)
(* handler, or OnDisconnect with the target, or the Quit on its way.         *)
Kept(s) ==
  \/ op = "join" /\ Current.at \in {"added", "ok"}
  \/ op \in {"joined", "tagged"}
  \/ target = s /\ (phase[Me] \in {"connecting", "connected"} \/ dc = "target" \/ quit = s)

PeerInv ==
  ~stopping /\ happened \cap {"joinTimeout", "quitLost", "untyped"} = {} =>
    /\ kind = "STATEFUL" /\ op \in {"join", "joined"} => routeType = "STATEFUL"
    /\ \A s \in peers :
         kind = "STATEFUL" /\ Len(calls) # 0 /\ s = Current.srv /\ Kept(s)

(* Before OnDisconnect, who was accepted is a peer, and so is who has the    *)
(* target.                                                                   *)
MemberInv ==
  happened \cap {"joinTimeout", "restart"} = {} /\ phase[Me] \in {"connecting", "connected"} =>
    /\ kind = "STATEFUL" /\ op \in {"join", "joined", "tagged"} /\ Current.at \in {"added", "ok"}
         => Current.srv \in peers
    /\ target # NoServer => target \in peers

(* Who has logged in has no login timer that runs or is about to kick, who is *)
(* on the way into a game or in one no enter game timer, and who has an id no *)
(* kick to come, unless one of the odd schedules has been noted.             *)
TimerInv ==
  /\ loginTag => login # "none"
  /\ happened \cap {"earlyLogin", "overdue"} = {} /\ (op = "central" \/ user # "unset")
       => loginTag /\ login \notin {"armed", "expired"}
  /\ op = "arm" => user # "unset"
  /\ user = "empty" => "loginRefused" \in happened
  /\ kickSoon /\ (op = "central" \/ user = "id") => "retried" \in happened
  /\ "loginRefused" \notin happened =>
       /\ timers \cup due \subseteq {enterTag}
       /\ user = "unset" \/ op = "arm" => timers \cup due = {}
       /\ "overdue" \notin happened /\ (op \in Entering \/ game) => timers \cup due = {}

Inv == TypeOK /\ HandlerInv /\ QuitInv /\ CallInv /\ PeerInv /\ MemberInv /\ TimerInv

-----------------------------------------------------------------------------
USE NoServerAssumption, BoundAssumption

(* What a step of a call at its server does to the calls. *)
LEMMA CallStep ==
  ASSUME NEW i \in DOMAIN calls, calls \in Seq(Call),
         NEW to \in {"sent", "added", "ok", "failed", "lost"},
         calls' = [calls EXCEPT ![i].at = to]
  PROVE  /\ calls' \in Seq(Call) /\ Len(calls') = Len(calls) /\ DOMAIN calls' = DOMAIN calls
         /\ calls'[i].at = to /\ calls'[i].srv = calls[i].srv
         /\ \A j \in DOMAIN calls : j # i => calls'[j] = calls[j]
<1> DEFINE r == [calls[i] EXCEPT !.at = to]
<1>1. calls[i] \in Call
  BY ElementOfSeq, LenProperties
<1>2. r \in Call /\ r.at = to /\ r.srv = calls[i].srv
  BY <1>1 DEF Call
<1>3. calls' = [calls EXCEPT ![i] = r]
  OBVIOUS
<1> HIDE DEF r
<1> QED
  BY <1>2, <1>3, ExceptSeq, LenProperties

(* What a restart of a game server does to the calls it had. *)
LEMMA CallsLost ==
  ASSUME NEW s \in Server, calls \in Seq(Call),
         calls' = [i \in DOMAIN calls |->
           IF calls[i].srv = s /\ calls[i].at \in {"sent", "added"}
             THEN [calls[i] EXCEPT !.at = "lost"] ELSE calls[i]]
  PROVE  /\ calls' \in Seq(Call) /\ Len(calls') = Len(calls) /\ DOMAIN calls' = DOMAIN calls
         /\ \A i \in DOMAIN calls :
              /\ calls'[i].srv = calls[i].srv
              /\ calls'[i] = calls[i] \/ (calls[i].srv = s /\ calls[i].at \in {"sent", "added"}
                                            /\ calls'[i].at = "lost")
<1>1. DOMAIN calls = 1..Len(calls) /\ Len(calls) \in Nat
  BY LenProperties
<1>2. \A i \in DOMAIN calls : calls[i] \in Call
  BY <1>1, ElementOfSeq
<1>3. \A i \in DOMAIN calls :
        /\ calls'[i] \in Call /\ calls'[i].srv = calls[i].srv
        /\ calls'[i] = calls[i] \/ (calls[i].srv = s /\ calls[i].at \in {"sent", "added"}
                                      /\ calls'[i].at = "lost")
  BY <1>2 DEF Call
<1>4. calls' \in [1..Len(calls) -> Call]
  BY <1>1, <1>3
<1>5. calls' \in Seq(Call) /\ Len(calls') = Len(calls)
  BY <1>1, <1>4, SeqDef, LenProperties
<1> QED
  BY <1>1, <1>3, <1>4, <1>5

(* Join adds a call behind those there are. *)
LEMMA CallAdded ==
  ASSUME NEW s \in Server, calls \in Seq(Call),
         calls' = Append(calls, [srv |-> s, at |-> "sent"])
  PROVE  /\ calls' \in Seq(Call) /\ Len(calls') = Len(calls) + 1
         /\ DOMAIN calls' = DOMAIN calls \cup {Len(calls) + 1}
         /\ calls'[Len(calls) + 1] = [srv |-> s, at |-> "sent"]
         /\ \A j \in DOMAIN calls : calls'[j] = calls[j] /\ j \in 1..Len(calls)
<1>1. [srv |-> s, at |-> "sent"] \in Call
  BY DEF Call
<1> DEFINE r == [srv |-> s, at |-> "sent"]
<1> HIDE DEF r
<1>2. DOMAIN calls = 1..Len(calls) /\ Len(calls) \in Nat
  BY LenProperties
<1>3. Append(calls, r) \in Seq(Call) /\ Len(Append(calls, r)) = Len(calls) + 1
        /\ DOMAIN Append(calls, r) = 1..(Len(calls) + 1)
        /\ Append(calls, r)[Len(calls) + 1] = r
        /\ \A j \in 1..Len(calls) : Append(calls, r)[j] = calls[j]
  BY <1>1, AppendProperties, LenProperties DEF r
<1> QED
  BY <1>2, <1>3 DEF r


(* The four steps of a call at its server. *)
Served(i, to) ==
  /\ i \in DOMAIN calls /\ calls' \in Seq(Call) /\ Len(calls') = Len(calls)
  /\ DOMAIN calls' = DOMAIN calls
  /\ calls'[i].at = to /\ calls'[i].srv = calls[i].srv
  /\ \A j \in DOMAIN calls : j # i => calls'[j] = calls[j]

(* A step at the server moves its one call on and leaves the others alone. *)
LEMMA ServedStep ==
  ASSUME NEW i \in 1..MaxJoin, calls \in Seq(Call),
         NEW from, NEW to \in {"sent", "added", "ok", "failed", "lost"}, AtServer(i, from, to)
  PROVE  Served(i, to)
<1>1. i \in DOMAIN calls /\ calls' = [calls EXCEPT ![i].at = to]
  BY DEF AtServer
<1> QED
  BY <1>1, CallStep DEF Served

(* The type of the calls, in the words of the lemmas above. *)
LEMMA CallType ==
  ASSUME TypeOK
  PROVE  /\ calls \in Seq(Call) /\ DOMAIN calls = 1..Len(calls) /\ Len(calls) \in Nat
         /\ \A i \in DOMAIN calls : calls[i].srv \in Server
<1>1. calls \in Seq(Call)
  BY DEF TypeOK, Call
<1>2. DOMAIN calls = 1..Len(calls) /\ Len(calls) \in Nat
  BY <1>1, LenProperties
<1>3. \A i \in DOMAIN calls : calls[i] \in Call
  BY <1>1, <1>2, ElementOfSeq
<1> QED
  BY <1>1, <1>2, <1>3 DEF Call

(* A connection that has just come satisfies the invariant. *)
LEMMA InvInit == Init => Inv
<1> SUFFICES ASSUME Init PROVE Inv
  OBVIOUS
<1>1. TypeOK
  <2>1. calls \in Seq(Call) /\ Len(calls) = 0
    BY EmptySeq DEF Init
  <2>2. Wss!TypeOK
    BY DEF Init, Wss!Init, Wss!TypeOK, Wss!Phase
  <2>3. timers \subseteq 1..MaxLogin /\ due \subseteq 1..MaxLogin /\ enterTag \in 0..MaxLogin /\ logins \in 0..MaxLogin
    BY DEF Init
  <2>4. peers \subseteq Server /\ happened \subseteq Odd
    BY DEF Init
  <2>5. kind \in Type /\ routeType \in Type \cup {"UNKNOWN"} /\ Len(calls) <= MaxJoin
    BY <2>1 DEF Init
  <2>6. target \in Server \cup {NoServer} /\ quit \in Server \cup {NoServer} /\ target = NoServer
    BY DEF Init
  <2> QED
    BY <2>1, <2>2, <2>3, <2>4, <2>5, <2>6 DEF Init, TypeOK, Call
<1>2. HandlerInv
  BY DEF Init, Wss!Init, HandlerInv, Entering
<1>3. QuitInv /\ PeerInv /\ MemberInv /\ TimerInv
  BY DEF Init, Wss!Init, QuitInv, PeerInv, MemberInv, TimerInv, Entering
<1>4. CallInv
  <2>1. DOMAIN calls = {}
    BY <1>1, CallType DEF Init
  <2> QED
    BY <2>1 DEF Init, CallInv
<1> QED
  BY <1>1, <1>2, <1>3, <1>4 DEF Inv

(* Every step keeps the types and what the handler has made sure of. *)
LEMMA TypeStep == TypeOK /\ HandlerInv /\ [Next]_vars => TypeOK' /\ HandlerInv'
<1> SUFFICES ASSUME TypeOK /\ HandlerInv, [Next]_vars PROVE TypeOK' /\ HandlerInv'
  OBVIOUS
<1> USE DEF TypeOK, HandlerInv, Wss!TypeOK, Wss!Phase, Type, Odd, Call, contract, timing, tags, remote, Replying, Entering
<1>1. CASE ConnectBegin
  BY <1>1 DEF ConnectBegin, Wss!ConnectBegin, Wss!HubFree, Wss!Move
<1>2. CASE ArmLoginTimer
  BY <1>2 DEF ArmLoginTimer
<1>3. CASE ConnectEnd
  BY <1>3 DEF ConnectEnd, Wss!ConnectEnd, Wss!Move
<1>4. ASSUME NEW action \in {"login", "enter", "play"}, Receive(action) PROVE TypeOK' /\ HandlerInv'
  BY <1>4 DEF Receive, Wss!MessageBegin
<1>5. CASE AlreadyLoggedIn
  BY <1>5 DEF AlreadyLoggedIn, Step, mine
<1>6. CASE LoginBegin
  <2>1. login' \in {"none", "armed", "stopped", "expired", "fired"} /\ happened' \subseteq Odd
    BY <1>6 DEF LoginBegin, StopLoginTimer, Oddities
  <2>2. UNCHANGED <<contract, dc, loginTag, due, logins, out, kind, quit, timers, enterTag,
                    kickSoon, tags, kicked, routeType, calls, peers>>
          /\ user # "id" /\ op = "login" /\ op' = "central"
    BY <1>6 DEF LoginBegin, Step
  <2> QED
    BY <2>1, <2>2
<1>7. CASE LoginInvalid
  BY <1>7 DEF LoginInvalid, Step, StopLoginTimer
<1>8. CASE LoginError
  BY <1>8 DEF LoginError, Step, mine
<1>9. ASSUME NEW success \in BOOLEAN, LoginAnswer(success) PROVE TypeOK' /\ HandlerInv'
  <2>1. user' \in {"id", "empty"} /\ happened' \subseteq Odd
    BY <1>9 DEF LoginAnswer, Note
  <2>2. UNCHANGED <<contract, dc, loginTag, due, logins, out, kind, quit, login, timers,
                    enterTag, kickSoon, game, target, kicked, routeType, calls, peers>>
          /\ op = "central" /\ op' = "arm"
    BY <1>9 DEF LoginAnswer, Step
  <2> QED
    BY <2>1, <2>2
<1>10. CASE EnterRefused
  BY <1>10 DEF EnterRefused, Step, mine
<1>11. CASE EnterNotLoggedIn
  BY <1>11 DEF EnterNotLoggedIn, Step, mine
<1>12. CASE EnterBegin
  <2>1. timers' \subseteq timers /\ happened' \subseteq Odd
    BY <1>12 DEF EnterBegin, StopEnterTimer, Note
  <2>2. UNCHANGED <<contract, dc, loginTag, due, logins, out, kind, quit, login, enterTag,
                    kickSoon, tags, kicked, routeType, calls, peers>>
          /\ ~game /\ user = "id" /\ op = "enter" /\ op' = "route"
    BY <1>12 DEF EnterBegin, Step
  <2>3. TypeOK'
    BY <2>1, <2>2
  <2>4. HandlerInv'
    BY <2>2
  <2> QED
    BY <2>3, <2>4
<1>13. CASE RouteFailed
  BY <1>13 DEF RouteFailed, Step, mine, Note
<1>14. ASSUME NEW s \in Server, NEW type \in Type \cup {"UNKNOWN"}, Join(s, type) PROVE TypeOK' /\ HandlerInv'
  <2>1. calls' \in Seq(Call) /\ Len(calls') = Len(calls) + 1
    BY <1>14, CallType, CallAdded DEF Join
  <2>2. Len(calls') <= MaxJoin /\ Len(calls') # 0
    BY <1>14, <2>1, CallType DEF Join, Step
  <2>3. happened' \subseteq Odd
    BY <1>14 DEF Join, Note
  <2>4. TypeOK'
    BY <1>14, <2>1, <2>2, <2>3 DEF Join, Step
  <2>5. HandlerInv'
    BY <1>14, <2>2 DEF Join, Step
  <2> QED
    BY <2>4, <2>5
<1>15. CASE JoinTimeout
  BY <1>15 DEF JoinTimeout, Step, mine, Note
<1>16. CASE JoinRefused
  BY <1>16 DEF JoinRefused, Step, mine
<1>17. CASE JoinAccepted
  BY <1>17 DEF JoinAccepted, Step, mine
<1>18. CASE SetGame
  BY <1>18 DEF SetGame, Step
<1>19. CASE SetTarget
  <2>1. Current.srv \in Server
    BY <1>19, CallType DEF SetTarget, Step, Current
  <2> QED
    BY <1>19, <2>1 DEF SetTarget, Step
<1>20. CASE Replied
  BY <1>20 DEF Replied, mine, Reply, Return, Wss!MessageEnd
<1>21. CASE ReplyKick
  BY <1>21 DEF ReplyKick, Reply, Return, Wss!MessageEnd
<1>22. CASE ScheduleKick
  BY <1>22 DEF ScheduleKick, Reply, Return, Wss!MessageEnd
<1>23. CASE ArmEnterTimer
  BY <1>23 DEF ArmEnterTimer, Reply, Return, Wss!MessageEnd
<1>24. CASE ReplyPanic
  BY <1>24 DEF ReplyPanic, mine, Return, Wss!MessageEnd
<1>25. CASE Jam
  BY <1>25 DEF Jam
<1>26. CASE CloseSend
  BY <1>26 DEF CloseSend
<1>27. CASE LoginExpire
  BY <1>27 DEF LoginExpire, Ticking
<1>28. CASE LoginKick
  BY <1>28 DEF LoginKick, Ticking
<1>29. CASE AuthKick
  <2>1. UNCHANGED <<contract, op, dc, login, loginTag, timers, due, enterTag, logins, tags,
                    out, kind, routeType, remote, happened>>
    BY <1>29 DEF AuthKick, Ticking
  <2>2. kickSoon' \in BOOLEAN /\ kicked' \in BOOLEAN
    BY <1>29 DEF AuthKick
  <2>3. TypeOK'
    BY <2>1, <2>2
  <2>4. HandlerInv'
    BY <2>1
  <2> QED
    BY <2>3, <2>4
<1>30. ASSUME NEW i \in 1..MaxLogin, EnterExpire(i) PROVE TypeOK' /\ HandlerInv'
  BY <1>30 DEF EnterExpire, Ticking
<1>31. ASSUME NEW i \in 1..MaxLogin, EnterKick(i) PROVE TypeOK' /\ HandlerInv'
  BY <1>31 DEF EnterKick, Ticking
<1>32. CASE DisconnectBegin
  BY <1>32 DEF DisconnectBegin, StopLoginTimer, StopEnterTimer, Wss!DisconnectBegin, Wss!HubFree, Wss!Move
<1>33. CASE QuitTarget
  BY <1>33 DEF QuitTarget, Hub
<1>34. CASE NoTarget
  BY <1>34 DEF NoTarget, Hub
<1>35. CASE NoGame
  BY <1>35 DEF NoGame, Hub
<1>36. CASE AskRoute
  BY <1>36 DEF AskRoute, Hub
<1>37. ASSUME NEW s \in Server \cup {NoServer}, QuitRoute(s) PROVE TypeOK' /\ HandlerInv'
  BY <1>37 DEF QuitRoute, Hub
<1>38. CASE DisconnectEnd
  BY <1>38 DEF DisconnectEnd, Wss!DisconnectEnd, Wss!Move
<1>39. CASE ServerStop
  BY <1>39 DEF ServerStop, Wss!Stop
<1>40. ASSUME NEW i \in 1..MaxJoin, JoinNoUser(i) PROVE TypeOK' /\ HandlerInv'
  <2>1. Served(i, "failed")
    BY <1>40, CallType, ServedStep DEF JoinNoUser
  <2> QED
    BY <1>40, <2>1, CallType DEF JoinNoUser, AtServer, Served
<1>41. ASSUME NEW i \in 1..MaxJoin, JoinAdd(i) PROVE TypeOK' /\ HandlerInv'
  <2>1. Served(i, "added")
    BY <1>41, CallType, ServedStep DEF JoinAdd
  <2> QED
    BY <1>41, <2>1, CallType DEF JoinAdd, AtServer, Served
<1>42. ASSUME NEW i \in 1..MaxJoin, JoinDone(i) PROVE TypeOK' /\ HandlerInv'
  <2>1. Served(i, "ok")
    BY <1>42, CallType, ServedStep DEF JoinDone
  <2> QED
    BY <1>42, <2>1, CallType DEF JoinDone, AtServer, Served
<1>43. ASSUME NEW i \in 1..MaxJoin, JoinUndo(i) PROVE TypeOK' /\ HandlerInv'
  <2>1. Served(i, "failed")
    BY <1>43, CallType, ServedStep DEF JoinUndo
  <2> QED
    BY <1>43, <2>1, CallType DEF JoinUndo, AtServer, Served
<1>44. CASE QuitServed
  BY <1>44 DEF QuitServed
<1>45. CASE QuitLost
  BY <1>45 DEF QuitLost, Note
<1>46. ASSUME NEW s \in Server, Restart(s) PROVE TypeOK' /\ HandlerInv'
  <2>1. calls' \in Seq(Call) /\ Len(calls') = Len(calls)
    BY <1>46, CallType, CallsLost DEF Restart
  <2> QED
    BY <1>46, <2>1 DEF Restart, Note
<1>47. CASE UNCHANGED vars
  BY <1>47 DEF vars
<1> QED
  BY <1>1, <1>2, <1>3, <1>4, <1>5, <1>6, <1>7, <1>8, <1>9, <1>10, <1>11,
     <1>12, <1>13, <1>14, <1>15, <1>16, <1>17, <1>18, <1>19, <1>20, <1>21,
     <1>22, <1>23, <1>24, <1>25, <1>26, <1>27, <1>28, <1>29, <1>30, <1>31,
     <1>32, <1>33, <1>34, <1>35, <1>36, <1>37, <1>38, <1>39, <1>40, <1>41,
     <1>42, <1>43, <1>44, <1>45, <1>46, <1>47
  DEF Next, OnConnect, Handler, HandleLogin, HandleEnter, Replies, Timers, OnDisconnect,
      JoinCalls, QuitCall

(* Where OnDisconnect is, and the Quit. *)
LEMMA QuitStep == TypeOK /\ QuitInv /\ [Next]_vars => QuitInv'
<1> SUFFICES ASSUME TypeOK /\ QuitInv, [Next]_vars PROVE QuitInv'
  OBVIOUS
<1> USE DEF TypeOK, QuitInv, Wss!TypeOK, Wss!Phase, contract, timing, tags, remote, Replying, Entering
<1>1. CASE ConnectBegin
  BY <1>1 DEF ConnectBegin, Wss!ConnectBegin, Wss!HubFree, Wss!Move
<1>2. CASE ArmLoginTimer
  BY <1>2 DEF ArmLoginTimer
<1>3. CASE ConnectEnd
  BY <1>3 DEF ConnectEnd, Wss!ConnectEnd, Wss!Move
<1>4. ASSUME NEW action \in {"login", "enter", "play"}, Receive(action) PROVE QuitInv'
  BY <1>4 DEF Receive, Wss!MessageBegin
<1>5. CASE AlreadyLoggedIn
  BY <1>5 DEF AlreadyLoggedIn, Step, mine
<1>6. CASE LoginBegin
  BY <1>6 DEF LoginBegin, Step, StopLoginTimer, Oddities
<1>7. CASE LoginInvalid
  BY <1>7 DEF LoginInvalid, Step, StopLoginTimer
<1>8. CASE LoginError
  BY <1>8 DEF LoginError, Step, mine
<1>9. ASSUME NEW success \in BOOLEAN, LoginAnswer(success) PROVE QuitInv'
  BY <1>9 DEF LoginAnswer, Step, Note
<1>10. CASE EnterRefused
  BY <1>10 DEF EnterRefused, Step, mine
<1>11. CASE EnterNotLoggedIn
  BY <1>11 DEF EnterNotLoggedIn, Step, mine
<1>12. CASE EnterBegin
  BY <1>12 DEF EnterBegin, Step, StopEnterTimer, Note
<1>13. CASE RouteFailed
  BY <1>13 DEF RouteFailed, Step, mine, Note
<1>14. ASSUME NEW s \in Server, NEW type \in Type \cup {"UNKNOWN"}, Join(s, type) PROVE QuitInv'
  BY <1>14 DEF Join, Step, Note
<1>15. CASE JoinTimeout
  BY <1>15 DEF JoinTimeout, Step, mine, Note
<1>16. CASE JoinRefused
  BY <1>16 DEF JoinRefused, Step, mine
<1>17. CASE JoinAccepted
  BY <1>17 DEF JoinAccepted, Step, mine
<1>18. CASE SetGame
  BY <1>18 DEF SetGame, Step
<1>19. CASE SetTarget
  BY <1>19 DEF SetTarget, Step
<1>20. CASE Replied
  BY <1>20 DEF Replied, mine, Reply, Return, Wss!MessageEnd
<1>21. CASE ReplyKick
  BY <1>21 DEF ReplyKick, Reply, Return, Wss!MessageEnd
<1>22. CASE ScheduleKick
  BY <1>22 DEF ScheduleKick, Reply, Return, Wss!MessageEnd
<1>23. CASE ArmEnterTimer
  BY <1>23 DEF ArmEnterTimer, Reply, Return, Wss!MessageEnd
<1>24. CASE ReplyPanic
  BY <1>24 DEF ReplyPanic, mine, Return, Wss!MessageEnd
<1>25. CASE Jam
  BY <1>25 DEF Jam
<1>26. CASE CloseSend
  BY <1>26 DEF CloseSend
<1>27. CASE LoginExpire
  BY <1>27 DEF LoginExpire, Ticking
<1>28. CASE LoginKick
  BY <1>28 DEF LoginKick, Ticking
<1>29. CASE AuthKick
  BY <1>29 DEF AuthKick, Ticking
<1>30. ASSUME NEW i \in 1..MaxLogin, EnterExpire(i) PROVE QuitInv'
  BY <1>30 DEF EnterExpire, Ticking
<1>31. ASSUME NEW i \in 1..MaxLogin, EnterKick(i) PROVE QuitInv'
  BY <1>31 DEF EnterKick, Ticking
<1>32. CASE DisconnectBegin
  BY <1>32 DEF DisconnectBegin, StopLoginTimer, StopEnterTimer, Wss!DisconnectBegin, Wss!HubFree, Wss!Move
<1>33. CASE QuitTarget
  BY <1>33 DEF QuitTarget, Hub
<1>34. CASE NoTarget
  BY <1>34 DEF NoTarget, Hub
<1>35. CASE NoGame
  BY <1>35 DEF NoGame, Hub
<1>36. CASE AskRoute
  BY <1>36 DEF AskRoute, Hub
<1>37. ASSUME NEW s \in Server \cup {NoServer}, QuitRoute(s) PROVE QuitInv'
  BY <1>37 DEF QuitRoute, Hub
<1>38. CASE DisconnectEnd
  BY <1>38 DEF DisconnectEnd, Wss!DisconnectEnd, Wss!Move
<1>39. CASE ServerStop
  BY <1>39 DEF ServerStop, Wss!Stop
<1>40. ASSUME NEW i \in 1..MaxJoin, JoinNoUser(i) PROVE QuitInv'
  BY <1>40 DEF JoinNoUser, AtServer
<1>41. ASSUME NEW i \in 1..MaxJoin, JoinAdd(i) PROVE QuitInv'
  BY <1>41 DEF JoinAdd, AtServer
<1>42. ASSUME NEW i \in 1..MaxJoin, JoinDone(i) PROVE QuitInv'
  BY <1>42 DEF JoinDone, AtServer
<1>43. ASSUME NEW i \in 1..MaxJoin, JoinUndo(i) PROVE QuitInv'
  BY <1>43 DEF JoinUndo, AtServer
<1>44. CASE QuitServed
  BY <1>44 DEF QuitServed
<1>45. CASE QuitLost
  BY <1>45 DEF QuitLost, Note
<1>46. ASSUME NEW s \in Server, Restart(s) PROVE QuitInv'
  BY <1>46 DEF Restart, Note
<1>47. CASE UNCHANGED vars
  BY <1>47 DEF vars
<1> QED
  BY <1>1, <1>2, <1>3, <1>4, <1>5, <1>6, <1>7, <1>8, <1>9, <1>10, <1>11,
     <1>12, <1>13, <1>14, <1>15, <1>16, <1>17, <1>18, <1>19, <1>20, <1>21,
     <1>22, <1>23, <1>24, <1>25, <1>26, <1>27, <1>28, <1>29, <1>30, <1>31,
     <1>32, <1>33, <1>34, <1>35, <1>36, <1>37, <1>38, <1>39, <1>40, <1>41,
     <1>42, <1>43, <1>44, <1>45, <1>46, <1>47
  DEF Next, OnConnect, Handler, HandleLogin, HandleEnter, Replies, Timers, OnDisconnect,
      JoinCalls, QuitCall

(* Only the current call is at a server, and an accepted one is the last. *)
LEMMA CallsStep == TypeOK /\ HandlerInv /\ CallInv /\ [Next]_vars => CallInv'
<1> SUFFICES ASSUME TypeOK /\ HandlerInv /\ CallInv, [Next]_vars PROVE CallInv'
  OBVIOUS
<1> USE DEF TypeOK, HandlerInv, CallInv, Current, Wss!TypeOK, Wss!Phase, contract, timing, tags, remote, Replying, Entering
<1>1. CASE ConnectBegin
  BY <1>1 DEF ConnectBegin, Wss!ConnectBegin, Wss!HubFree, Wss!Move
<1>2. CASE ArmLoginTimer
  BY <1>2 DEF ArmLoginTimer
<1>3. CASE ConnectEnd
  BY <1>3 DEF ConnectEnd, Wss!ConnectEnd, Wss!Move
<1>4. ASSUME NEW action \in {"login", "enter", "play"}, Receive(action) PROVE CallInv'
  BY <1>4 DEF Receive, Wss!MessageBegin
<1>5. CASE AlreadyLoggedIn
  BY <1>5 DEF AlreadyLoggedIn, Step, mine
<1>6. CASE LoginBegin
  BY <1>6 DEF LoginBegin, Step, StopLoginTimer, Oddities
<1>7. CASE LoginInvalid
  BY <1>7 DEF LoginInvalid, Step, StopLoginTimer
<1>8. CASE LoginError
  BY <1>8 DEF LoginError, Step, mine
<1>9. ASSUME NEW success \in BOOLEAN, LoginAnswer(success) PROVE CallInv'
  BY <1>9 DEF LoginAnswer, Step, Note
<1>10. CASE EnterRefused
  BY <1>10 DEF EnterRefused, Step, mine
<1>11. CASE EnterNotLoggedIn
  BY <1>11 DEF EnterNotLoggedIn, Step, mine
<1>12. CASE EnterBegin
  BY <1>12 DEF EnterBegin, Step, StopEnterTimer, Note
<1>13. CASE RouteFailed
  BY <1>13 DEF RouteFailed, Step, mine, Note
<1>14. ASSUME NEW s \in Server, NEW type \in Type \cup {"UNKNOWN"}, Join(s, type) PROVE CallInv'
  <2>1. /\ calls' \in Seq(Call) /\ Len(calls') = Len(calls) + 1
        /\ DOMAIN calls' = DOMAIN calls \cup {Len(calls) + 1}
        /\ calls'[Len(calls) + 1] = [srv |-> s, at |-> "sent"]
        /\ \A j \in DOMAIN calls : calls'[j] = calls[j] /\ j \in 1..Len(calls)
    BY <1>14, CallType, CallAdded DEF Join
  <2> QED
    BY <1>14, <2>1, CallType DEF Join, Step, Note
<1>15. CASE JoinTimeout
  BY <1>15 DEF JoinTimeout, Step, mine, Note
<1>16. CASE JoinRefused
  BY <1>16 DEF JoinRefused, Step, mine
<1>17. CASE JoinAccepted
  BY <1>17 DEF JoinAccepted, Step, mine
<1>18. CASE SetGame
  BY <1>18 DEF SetGame, Step
<1>19. CASE SetTarget
  BY <1>19 DEF SetTarget, Step
<1>20. CASE Replied
  BY <1>20 DEF Replied, mine, Reply, Return, Wss!MessageEnd
<1>21. CASE ReplyKick
  BY <1>21 DEF ReplyKick, Reply, Return, Wss!MessageEnd
<1>22. CASE ScheduleKick
  BY <1>22 DEF ScheduleKick, Reply, Return, Wss!MessageEnd
<1>23. CASE ArmEnterTimer
  BY <1>23 DEF ArmEnterTimer, Reply, Return, Wss!MessageEnd
<1>24. CASE ReplyPanic
  BY <1>24 DEF ReplyPanic, mine, Return, Wss!MessageEnd
<1>25. CASE Jam
  BY <1>25 DEF Jam
<1>26. CASE CloseSend
  BY <1>26 DEF CloseSend
<1>27. CASE LoginExpire
  BY <1>27 DEF LoginExpire, Ticking
<1>28. CASE LoginKick
  BY <1>28 DEF LoginKick, Ticking
<1>29. CASE AuthKick
  BY <1>29 DEF AuthKick, Ticking
<1>30. ASSUME NEW i \in 1..MaxLogin, EnterExpire(i) PROVE CallInv'
  BY <1>30 DEF EnterExpire, Ticking
<1>31. ASSUME NEW i \in 1..MaxLogin, EnterKick(i) PROVE CallInv'
  BY <1>31 DEF EnterKick, Ticking
<1>32. CASE DisconnectBegin
  BY <1>32 DEF DisconnectBegin, StopLoginTimer, StopEnterTimer, Wss!DisconnectBegin, Wss!HubFree, Wss!Move
<1>33. CASE QuitTarget
  BY <1>33 DEF QuitTarget, Hub
<1>34. CASE NoTarget
  BY <1>34 DEF NoTarget, Hub
<1>35. CASE NoGame
  BY <1>35 DEF NoGame, Hub
<1>36. CASE AskRoute
  BY <1>36 DEF AskRoute, Hub
<1>37. ASSUME NEW s \in Server \cup {NoServer}, QuitRoute(s) PROVE CallInv'
  BY <1>37 DEF QuitRoute, Hub
<1>38. CASE DisconnectEnd
  BY <1>38 DEF DisconnectEnd, Wss!DisconnectEnd, Wss!Move
<1>39. CASE ServerStop
  BY <1>39 DEF ServerStop, Wss!Stop
<1>40. ASSUME NEW i \in 1..MaxJoin, JoinNoUser(i) PROVE CallInv'
  <2>1. Served(i, "failed")
    BY <1>40, CallType, ServedStep DEF JoinNoUser
  <2> QED
    BY <1>40, <2>1, CallType DEF JoinNoUser, AtServer, Served
<1>41. ASSUME NEW i \in 1..MaxJoin, JoinAdd(i) PROVE CallInv'
  <2>1. Served(i, "added")
    BY <1>41, CallType, ServedStep DEF JoinAdd
  <2> QED
    BY <1>41, <2>1, CallType DEF JoinAdd, AtServer, Served
<1>42. ASSUME NEW i \in 1..MaxJoin, JoinDone(i) PROVE CallInv'
  <2>1. Served(i, "ok")
    BY <1>42, CallType, ServedStep DEF JoinDone
  <2> QED
    BY <1>42, <2>1, CallType DEF JoinDone, AtServer, Served
<1>43. ASSUME NEW i \in 1..MaxJoin, JoinUndo(i) PROVE CallInv'
  <2>1. Served(i, "failed")
    BY <1>43, CallType, ServedStep DEF JoinUndo
  <2> QED
    BY <1>43, <2>1, CallType DEF JoinUndo, AtServer, Served
<1>44. CASE QuitServed
  BY <1>44 DEF QuitServed
<1>45. CASE QuitLost
  BY <1>45 DEF QuitLost, Note
<1>46. ASSUME NEW s \in Server, Restart(s) PROVE CallInv'
  <2>1. /\ calls' \in Seq(Call) /\ Len(calls') = Len(calls) /\ DOMAIN calls' = DOMAIN calls
        /\ \A i \in DOMAIN calls :
             /\ calls'[i].srv = calls[i].srv
             /\ calls'[i] = calls[i] \/ (calls[i].srv = s /\ calls[i].at \in {"sent", "added"}
                                           /\ calls'[i].at = "lost")
    BY <1>46, CallType, CallsLost DEF Restart
  <2> QED
    BY <1>46, <2>1, CallType DEF Restart, Note
<1>47. CASE UNCHANGED vars
  BY <1>47 DEF vars
<1> QED
  BY <1>1, <1>2, <1>3, <1>4, <1>5, <1>6, <1>7, <1>8, <1>9, <1>10, <1>11,
     <1>12, <1>13, <1>14, <1>15, <1>16, <1>17, <1>18, <1>19, <1>20, <1>21,
     <1>22, <1>23, <1>24, <1>25, <1>26, <1>27, <1>28, <1>29, <1>30, <1>31,
     <1>32, <1>33, <1>34, <1>35, <1>36, <1>37, <1>38, <1>39, <1>40, <1>41,
     <1>42, <1>43, <1>44, <1>45, <1>46, <1>47
  DEF Next, OnConnect, Handler, HandleLogin, HandleEnter, Replies, Timers, OnDisconnect,
      JoinCalls, QuitCall

(* Every peer is seen to, whatever step is taken. *)
LEMMA PeerStep == Inv /\ [Next]_vars => PeerInv'
<1> SUFFICES ASSUME Inv, [Next]_vars PROVE PeerInv'
  OBVIOUS
<1> USE DEF Inv, TypeOK, HandlerInv, QuitInv, CallInv, PeerInv, Kept, Current, Wss!TypeOK, Wss!Phase, contract, timing, tags, remote, Replying, Entering
<1>1. CASE ConnectBegin
  BY <1>1 DEF ConnectBegin, Wss!ConnectBegin, Wss!HubFree, Wss!Move
<1>2. CASE ArmLoginTimer
  BY <1>2 DEF ArmLoginTimer
<1>3. CASE ConnectEnd
  BY <1>3 DEF ConnectEnd, Wss!ConnectEnd, Wss!Move
<1>4. ASSUME NEW action \in {"login", "enter", "play"}, Receive(action) PROVE PeerInv'
  BY <1>4 DEF Receive, Wss!MessageBegin
<1>5. CASE AlreadyLoggedIn
  BY <1>5 DEF AlreadyLoggedIn, Step, mine
<1>6. CASE LoginBegin
  BY <1>6 DEF LoginBegin, Step, StopLoginTimer, Oddities
<1>7. CASE LoginInvalid
  BY <1>7 DEF LoginInvalid, Step, StopLoginTimer
<1>8. CASE LoginError
  BY <1>8 DEF LoginError, Step, mine
<1>9. ASSUME NEW success \in BOOLEAN, LoginAnswer(success) PROVE PeerInv'
  BY <1>9 DEF LoginAnswer, Step, Note
<1>10. CASE EnterRefused
  BY <1>10 DEF EnterRefused, Step, mine
<1>11. CASE EnterNotLoggedIn
  BY <1>11 DEF EnterNotLoggedIn, Step, mine
<1>12. CASE EnterBegin
  BY <1>12 DEF EnterBegin, Step, StopEnterTimer, Note
<1>13. CASE RouteFailed
  BY <1>13 DEF RouteFailed, Step, mine, Note
<1>14. ASSUME NEW s \in Server, NEW type \in Type \cup {"UNKNOWN"}, Join(s, type) PROVE PeerInv'
  <2>1. /\ calls' \in Seq(Call) /\ Len(calls') = Len(calls) + 1
        /\ DOMAIN calls' = DOMAIN calls \cup {Len(calls) + 1}
        /\ calls'[Len(calls) + 1] = [srv |-> s, at |-> "sent"]
        /\ \A j \in DOMAIN calls : calls'[j] = calls[j] /\ j \in 1..Len(calls)
    BY <1>14, CallType, CallAdded DEF Join
  <2> QED
    BY <1>14, <2>1, CallType DEF Join, Step, Note
<1>15. CASE JoinTimeout
  BY <1>15 DEF JoinTimeout, Step, mine, Note
<1>16. CASE JoinRefused
  BY <1>16 DEF JoinRefused, Step, mine
<1>17. CASE JoinAccepted
  BY <1>17 DEF JoinAccepted, Step, mine
<1>18. CASE SetGame
  BY <1>18 DEF SetGame, Step
<1>19. CASE SetTarget
  BY <1>19 DEF SetTarget, Step
<1>20. CASE Replied
  BY <1>20 DEF Replied, mine, Reply, Return, Wss!MessageEnd
<1>21. CASE ReplyKick
  BY <1>21 DEF ReplyKick, Reply, Return, Wss!MessageEnd
<1>22. CASE ScheduleKick
  BY <1>22 DEF ScheduleKick, Reply, Return, Wss!MessageEnd
<1>23. CASE ArmEnterTimer
  BY <1>23 DEF ArmEnterTimer, Reply, Return, Wss!MessageEnd
<1>24. CASE ReplyPanic
  BY <1>24 DEF ReplyPanic, mine, Return, Wss!MessageEnd
<1>25. CASE Jam
  BY <1>25 DEF Jam
<1>26. CASE CloseSend
  BY <1>26 DEF CloseSend
<1>27. CASE LoginExpire
  BY <1>27 DEF LoginExpire, Ticking
<1>28. CASE LoginKick
  BY <1>28 DEF LoginKick, Ticking
<1>29. CASE AuthKick
  BY <1>29 DEF AuthKick, Ticking
<1>30. ASSUME NEW i \in 1..MaxLogin, EnterExpire(i) PROVE PeerInv'
  BY <1>30 DEF EnterExpire, Ticking
<1>31. ASSUME NEW i \in 1..MaxLogin, EnterKick(i) PROVE PeerInv'
  BY <1>31 DEF EnterKick, Ticking
<1>32. CASE DisconnectBegin
  BY <1>32 DEF DisconnectBegin, StopLoginTimer, StopEnterTimer, Wss!DisconnectBegin, Wss!HubFree, Wss!Move
<1>33. CASE QuitTarget
  BY <1>33 DEF QuitTarget, Hub
<1>34. CASE NoTarget
  BY <1>34 DEF NoTarget, Hub
<1>35. CASE NoGame
  BY <1>35 DEF NoGame, Hub
<1>36. CASE AskRoute
  BY <1>36 DEF AskRoute, Hub
<1>37. ASSUME NEW s \in Server \cup {NoServer}, QuitRoute(s) PROVE PeerInv'
  BY <1>37 DEF QuitRoute, Hub
<1>38. CASE DisconnectEnd
  BY <1>38 DEF DisconnectEnd, Wss!DisconnectEnd, Wss!Move
<1>39. CASE ServerStop
  BY <1>39 DEF ServerStop, Wss!Stop
<1>40. ASSUME NEW i \in 1..MaxJoin, JoinNoUser(i) PROVE PeerInv'
  <2>1. Served(i, "failed")
    BY <1>40, CallType, ServedStep DEF JoinNoUser
  <2> QED
    BY <1>40, <2>1, CallType DEF JoinNoUser, AtServer, Served
<1>41. ASSUME NEW i \in 1..MaxJoin, JoinAdd(i) PROVE PeerInv'
  <2>1. Served(i, "added")
    BY <1>41, CallType, ServedStep DEF JoinAdd
  <2> QED
    BY <1>41, <2>1, CallType DEF JoinAdd, AtServer, Served
<1>42. ASSUME NEW i \in 1..MaxJoin, JoinDone(i) PROVE PeerInv'
  <2>1. Served(i, "ok")
    BY <1>42, CallType, ServedStep DEF JoinDone
  <2> QED
    BY <1>42, <2>1, CallType DEF JoinDone, AtServer, Served
<1>43. ASSUME NEW i \in 1..MaxJoin, JoinUndo(i) PROVE PeerInv'
  <2>1. Served(i, "failed")
    BY <1>43, CallType, ServedStep DEF JoinUndo
  <2> QED
    BY <1>43, <2>1, CallType DEF JoinUndo, AtServer, Served
<1>44. CASE QuitServed
  BY <1>44 DEF QuitServed
<1>45. CASE QuitLost
  BY <1>45 DEF QuitLost, Note
<1>46. ASSUME NEW s \in Server, Restart(s) PROVE PeerInv'
  <2>1. /\ calls' \in Seq(Call) /\ Len(calls') = Len(calls) /\ DOMAIN calls' = DOMAIN calls
        /\ \A i \in DOMAIN calls :
             /\ calls'[i].srv = calls[i].srv
             /\ calls'[i] = calls[i] \/ (calls[i].srv = s /\ calls[i].at \in {"sent", "added"}
                                           /\ calls'[i].at = "lost")
    BY <1>46, CallType, CallsLost DEF Restart
  <2> QED
    BY <1>46, <2>1, CallType DEF Restart, Note
<1>47. CASE UNCHANGED vars
  BY <1>47 DEF vars
<1> QED
  BY <1>1, <1>2, <1>3, <1>4, <1>5, <1>6, <1>7, <1>8, <1>9, <1>10, <1>11,
     <1>12, <1>13, <1>14, <1>15, <1>16, <1>17, <1>18, <1>19, <1>20, <1>21,
     <1>22, <1>23, <1>24, <1>25, <1>26, <1>27, <1>28, <1>29, <1>30, <1>31,
     <1>32, <1>33, <1>34, <1>35, <1>36, <1>37, <1>38, <1>39, <1>40, <1>41,
     <1>42, <1>43, <1>44, <1>45, <1>46, <1>47
  DEF Next, OnConnect, Handler, HandleLogin, HandleEnter, Replies, Timers, OnDisconnect,
      JoinCalls, QuitCall

(* Nothing takes a peer away from who is in the game. *)
LEMMA MemberStep == Inv /\ [Next]_vars => MemberInv'
<1> SUFFICES ASSUME Inv, [Next]_vars PROVE MemberInv'
  OBVIOUS
<1> USE DEF Inv, TypeOK, HandlerInv, QuitInv, CallInv, MemberInv, Current, Wss!TypeOK, Wss!Phase, contract, timing, tags, remote, Replying, Entering
<1>1. CASE ConnectBegin
  BY <1>1 DEF ConnectBegin, Wss!ConnectBegin, Wss!HubFree, Wss!Move
<1>2. CASE ArmLoginTimer
  BY <1>2 DEF ArmLoginTimer
<1>3. CASE ConnectEnd
  BY <1>3 DEF ConnectEnd, Wss!ConnectEnd, Wss!Move
<1>4. ASSUME NEW action \in {"login", "enter", "play"}, Receive(action) PROVE MemberInv'
  BY <1>4 DEF Receive, Wss!MessageBegin
<1>5. CASE AlreadyLoggedIn
  BY <1>5 DEF AlreadyLoggedIn, Step, mine
<1>6. CASE LoginBegin
  BY <1>6 DEF LoginBegin, Step, StopLoginTimer, Oddities
<1>7. CASE LoginInvalid
  BY <1>7 DEF LoginInvalid, Step, StopLoginTimer
<1>8. CASE LoginError
  BY <1>8 DEF LoginError, Step, mine
<1>9. ASSUME NEW success \in BOOLEAN, LoginAnswer(success) PROVE MemberInv'
  BY <1>9 DEF LoginAnswer, Step, Note
<1>10. CASE EnterRefused
  BY <1>10 DEF EnterRefused, Step, mine
<1>11. CASE EnterNotLoggedIn
  BY <1>11 DEF EnterNotLoggedIn, Step, mine
<1>12. CASE EnterBegin
  BY <1>12 DEF EnterBegin, Step, StopEnterTimer, Note
<1>13. CASE RouteFailed
  BY <1>13 DEF RouteFailed, Step, mine, Note
<1>14. ASSUME NEW s \in Server, NEW type \in Type \cup {"UNKNOWN"}, Join(s, type) PROVE MemberInv'
  <2>1. /\ calls' \in Seq(Call) /\ Len(calls') = Len(calls) + 1
        /\ DOMAIN calls' = DOMAIN calls \cup {Len(calls) + 1}
        /\ calls'[Len(calls) + 1] = [srv |-> s, at |-> "sent"]
        /\ \A j \in DOMAIN calls : calls'[j] = calls[j] /\ j \in 1..Len(calls)
    BY <1>14, CallType, CallAdded DEF Join
  <2> QED
    BY <1>14, <2>1, CallType DEF Join, Step, Note
<1>15. CASE JoinTimeout
  BY <1>15 DEF JoinTimeout, Step, mine, Note
<1>16. CASE JoinRefused
  BY <1>16 DEF JoinRefused, Step, mine
<1>17. CASE JoinAccepted
  BY <1>17 DEF JoinAccepted, Step, mine
<1>18. CASE SetGame
  BY <1>18 DEF SetGame, Step
<1>19. CASE SetTarget
  BY <1>19 DEF SetTarget, Step
<1>20. CASE Replied
  BY <1>20 DEF Replied, mine, Reply, Return, Wss!MessageEnd
<1>21. CASE ReplyKick
  BY <1>21 DEF ReplyKick, Reply, Return, Wss!MessageEnd
<1>22. CASE ScheduleKick
  BY <1>22 DEF ScheduleKick, Reply, Return, Wss!MessageEnd
<1>23. CASE ArmEnterTimer
  BY <1>23 DEF ArmEnterTimer, Reply, Return, Wss!MessageEnd
<1>24. CASE ReplyPanic
  BY <1>24 DEF ReplyPanic, mine, Return, Wss!MessageEnd
<1>25. CASE Jam
  BY <1>25 DEF Jam
<1>26. CASE CloseSend
  BY <1>26 DEF CloseSend
<1>27. CASE LoginExpire
  BY <1>27 DEF LoginExpire, Ticking
<1>28. CASE LoginKick
  BY <1>28 DEF LoginKick, Ticking
<1>29. CASE AuthKick
  BY <1>29 DEF AuthKick, Ticking
<1>30. ASSUME NEW i \in 1..MaxLogin, EnterExpire(i) PROVE MemberInv'
  BY <1>30 DEF EnterExpire, Ticking
<1>31. ASSUME NEW i \in 1..MaxLogin, EnterKick(i) PROVE MemberInv'
  BY <1>31 DEF EnterKick, Ticking
<1>32. CASE DisconnectBegin
  BY <1>32 DEF DisconnectBegin, StopLoginTimer, StopEnterTimer, Wss!DisconnectBegin, Wss!HubFree, Wss!Move
<1>33. CASE QuitTarget
  BY <1>33 DEF QuitTarget, Hub
<1>34. CASE NoTarget
  BY <1>34 DEF NoTarget, Hub
<1>35. CASE NoGame
  BY <1>35 DEF NoGame, Hub
<1>36. CASE AskRoute
  BY <1>36 DEF AskRoute, Hub
<1>37. ASSUME NEW s \in Server \cup {NoServer}, QuitRoute(s) PROVE MemberInv'
  BY <1>37 DEF QuitRoute, Hub
<1>38. CASE DisconnectEnd
  BY <1>38 DEF DisconnectEnd, Wss!DisconnectEnd, Wss!Move
<1>39. CASE ServerStop
  BY <1>39 DEF ServerStop, Wss!Stop
<1>40. ASSUME NEW i \in 1..MaxJoin, JoinNoUser(i) PROVE MemberInv'
  <2>1. Served(i, "failed")
    BY <1>40, CallType, ServedStep DEF JoinNoUser
  <2> QED
    BY <1>40, <2>1, CallType DEF JoinNoUser, AtServer, Served
<1>41. ASSUME NEW i \in 1..MaxJoin, JoinAdd(i) PROVE MemberInv'
  <2>1. Served(i, "added")
    BY <1>41, CallType, ServedStep DEF JoinAdd
  <2> QED
    BY <1>41, <2>1, CallType DEF JoinAdd, AtServer, Served
<1>42. ASSUME NEW i \in 1..MaxJoin, JoinDone(i) PROVE MemberInv'
  <2>1. Served(i, "ok")
    BY <1>42, CallType, ServedStep DEF JoinDone
  <2> QED
    BY <1>42, <2>1, CallType DEF JoinDone, AtServer, Served
<1>43. ASSUME NEW i \in 1..MaxJoin, JoinUndo(i) PROVE MemberInv'
  <2>1. Served(i, "failed")
    BY <1>43, CallType, ServedStep DEF JoinUndo
  <2> QED
    BY <1>43, <2>1, CallType DEF JoinUndo, AtServer, Served
<1>44. CASE QuitServed
  BY <1>44 DEF QuitServed
<1>45. CASE QuitLost
  BY <1>45 DEF QuitLost, Note
<1>46. ASSUME NEW s \in Server, Restart(s) PROVE MemberInv'
  <2>1. /\ calls' \in Seq(Call) /\ Len(calls') = Len(calls) /\ DOMAIN calls' = DOMAIN calls
        /\ \A i \in DOMAIN calls :
             /\ calls'[i].srv = calls[i].srv
             /\ calls'[i] = calls[i] \/ (calls[i].srv = s /\ calls[i].at \in {"sent", "added"}
                                           /\ calls'[i].at = "lost")
    BY <1>46, CallType, CallsLost DEF Restart
  <2> QED
    BY <1>46, <2>1, CallType DEF Restart, Note
<1>47. CASE UNCHANGED vars
  BY <1>47 DEF vars
<1> QED
  BY <1>1, <1>2, <1>3, <1>4, <1>5, <1>6, <1>7, <1>8, <1>9, <1>10, <1>11,
     <1>12, <1>13, <1>14, <1>15, <1>16, <1>17, <1>18, <1>19, <1>20, <1>21,
     <1>22, <1>23, <1>24, <1>25, <1>26, <1>27, <1>28, <1>29, <1>30, <1>31,
     <1>32, <1>33, <1>34, <1>35, <1>36, <1>37, <1>38, <1>39, <1>40, <1>41,
     <1>42, <1>43, <1>44, <1>45, <1>46, <1>47
  DEF Next, OnConnect, Handler, HandleLogin, HandleEnter, Replies, Timers, OnDisconnect,
      JoinCalls, QuitCall

(* Timers of who is admitted have been stopped. *)
LEMMA TimerStep == TypeOK /\ HandlerInv /\ TimerInv /\ [Next]_vars => TimerInv'
<1> SUFFICES ASSUME TypeOK /\ HandlerInv /\ TimerInv, [Next]_vars PROVE TimerInv'
  OBVIOUS
<1> USE DEF TypeOK, HandlerInv, TimerInv, Wss!TypeOK, Wss!Phase, contract, timing, tags, remote, Replying, Entering
<1>1. CASE ConnectBegin
  BY <1>1 DEF ConnectBegin, Wss!ConnectBegin, Wss!HubFree, Wss!Move
<1>2. CASE ArmLoginTimer
  BY <1>2 DEF ArmLoginTimer
<1>3. CASE ConnectEnd
  BY <1>3 DEF ConnectEnd, Wss!ConnectEnd, Wss!Move
<1>4. ASSUME NEW action \in {"login", "enter", "play"}, Receive(action) PROVE TimerInv'
  BY <1>4 DEF Receive, Wss!MessageBegin
<1>5. CASE AlreadyLoggedIn
  BY <1>5 DEF AlreadyLoggedIn, Step, mine
<1>6. CASE LoginBegin
  BY <1>6 DEF LoginBegin, Step, StopLoginTimer, Oddities
<1>7. CASE LoginInvalid
  BY <1>7 DEF LoginInvalid, Step, StopLoginTimer
<1>8. CASE LoginError
  BY <1>8 DEF LoginError, Step, mine
<1>9. ASSUME NEW success \in BOOLEAN, LoginAnswer(success) PROVE TimerInv'
  BY <1>9 DEF LoginAnswer, Step, Note
<1>10. CASE EnterRefused
  BY <1>10 DEF EnterRefused, Step, mine
<1>11. CASE EnterNotLoggedIn
  BY <1>11 DEF EnterNotLoggedIn, Step, mine
<1>12. CASE EnterBegin
  BY <1>12 DEF EnterBegin, Step, StopEnterTimer, Note
<1>13. CASE RouteFailed
  BY <1>13 DEF RouteFailed, Step, mine, Note
<1>14. ASSUME NEW s \in Server, NEW type \in Type \cup {"UNKNOWN"}, Join(s, type) PROVE TimerInv'
  BY <1>14 DEF Join, Step, Note
<1>15. CASE JoinTimeout
  BY <1>15 DEF JoinTimeout, Step, mine, Note
<1>16. CASE JoinRefused
  BY <1>16 DEF JoinRefused, Step, mine
<1>17. CASE JoinAccepted
  BY <1>17 DEF JoinAccepted, Step, mine
<1>18. CASE SetGame
  BY <1>18 DEF SetGame, Step
<1>19. CASE SetTarget
  BY <1>19 DEF SetTarget, Step
<1>20. CASE Replied
  BY <1>20 DEF Replied, mine, Reply, Return, Wss!MessageEnd
<1>21. CASE ReplyKick
  BY <1>21 DEF ReplyKick, Reply, Return, Wss!MessageEnd
<1>22. CASE ScheduleKick
  BY <1>22 DEF ScheduleKick, Reply, Return, Wss!MessageEnd
<1>23. CASE ArmEnterTimer
  BY <1>23 DEF ArmEnterTimer, Reply, Return, Wss!MessageEnd
<1>24. CASE ReplyPanic
  BY <1>24 DEF ReplyPanic, mine, Return, Wss!MessageEnd
<1>25. CASE Jam
  BY <1>25 DEF Jam
<1>26. CASE CloseSend
  BY <1>26 DEF CloseSend
<1>27. CASE LoginExpire
  BY <1>27 DEF LoginExpire, Ticking
<1>28. CASE LoginKick
  BY <1>28 DEF LoginKick, Ticking
<1>29. CASE AuthKick
  BY <1>29 DEF AuthKick, Ticking
<1>30. ASSUME NEW i \in 1..MaxLogin, EnterExpire(i) PROVE TimerInv'
  BY <1>30 DEF EnterExpire, Ticking
<1>31. ASSUME NEW i \in 1..MaxLogin, EnterKick(i) PROVE TimerInv'
  BY <1>31 DEF EnterKick, Ticking
<1>32. CASE DisconnectBegin
  BY <1>32 DEF DisconnectBegin, StopLoginTimer, StopEnterTimer, Wss!DisconnectBegin, Wss!HubFree, Wss!Move
<1>33. CASE QuitTarget
  BY <1>33 DEF QuitTarget, Hub
<1>34. CASE NoTarget
  BY <1>34 DEF NoTarget, Hub
<1>35. CASE NoGame
  BY <1>35 DEF NoGame, Hub
<1>36. CASE AskRoute
  BY <1>36 DEF AskRoute, Hub
<1>37. ASSUME NEW s \in Server \cup {NoServer}, QuitRoute(s) PROVE TimerInv'
  BY <1>37 DEF QuitRoute, Hub
<1>38. CASE DisconnectEnd
  BY <1>38 DEF DisconnectEnd, Wss!DisconnectEnd, Wss!Move
<1>39. CASE ServerStop
  BY <1>39 DEF ServerStop, Wss!Stop
<1>40. ASSUME NEW i \in 1..MaxJoin, JoinNoUser(i) PROVE TimerInv'
  BY <1>40 DEF JoinNoUser, AtServer
<1>41. ASSUME NEW i \in 1..MaxJoin, JoinAdd(i) PROVE TimerInv'
  BY <1>41 DEF JoinAdd, AtServer
<1>42. ASSUME NEW i \in 1..MaxJoin, JoinDone(i) PROVE TimerInv'
  BY <1>42 DEF JoinDone, AtServer
<1>43. ASSUME NEW i \in 1..MaxJoin, JoinUndo(i) PROVE TimerInv'
  BY <1>43 DEF JoinUndo, AtServer
<1>44. CASE QuitServed
  BY <1>44 DEF QuitServed
<1>45. CASE QuitLost
  BY <1>45 DEF QuitLost, Note
<1>46. ASSUME NEW s \in Server, Restart(s) PROVE TimerInv'
  BY <1>46 DEF Restart, Note
<1>47. CASE UNCHANGED vars
  BY <1>47 DEF vars
<1> QED
  BY <1>1, <1>2, <1>3, <1>4, <1>5, <1>6, <1>7, <1>8, <1>9, <1>10, <1>11,
     <1>12, <1>13, <1>14, <1>15, <1>16, <1>17, <1>18, <1>19, <1>20, <1>21,
     <1>22, <1>23, <1>24, <1>25, <1>26, <1>27, <1>28, <1>29, <1>30, <1>31,
     <1>32, <1>33, <1>34, <1>35, <1>36, <1>37, <1>38, <1>39, <1>40, <1>41,
     <1>42, <1>43, <1>44, <1>45, <1>46, <1>47
  DEF Next, OnConnect, Handler, HandleLogin, HandleEnter, Replies, Timers, OnDisconnect,
      JoinCalls, QuitCall

(* Whoever kicks an admitted player is the enter game timer, outside a game. *)
Spares ==
  /\ kicked' # kicked /\ user = "id"
  /\ happened \cap {"earlyLogin", "overdue", "retried", "loginRefused"} = {}
  => due' # due /\ ~game /\ op \notin Entering

(* No step kicks an admitted player otherwise. *)
LEMMA AdmittedStep ==
  ASSUME Inv, [Next]_vars
  PROVE  Spares
<1> USE DEF Spares, Inv, TypeOK, HandlerInv, TimerInv, contract, timing, tags, remote
<1>1. CASE ConnectBegin
  BY <1>1 DEF ConnectBegin, Wss!ConnectBegin, Wss!HubFree, Wss!Move
<1>2. CASE ArmLoginTimer
  BY <1>2 DEF ArmLoginTimer
<1>3. CASE ConnectEnd
  BY <1>3 DEF ConnectEnd, Wss!ConnectEnd, Wss!Move
<1>4. ASSUME NEW action \in {"login", "enter", "play"}, Receive(action) PROVE Spares
  BY <1>4 DEF Receive, Wss!MessageBegin
<1>5. CASE AlreadyLoggedIn
  BY <1>5 DEF AlreadyLoggedIn, Step, mine
<1>6. CASE LoginBegin
  BY <1>6 DEF LoginBegin, Step, StopLoginTimer, Oddities
<1>7. CASE LoginInvalid
  BY <1>7 DEF LoginInvalid, Step, StopLoginTimer
<1>8. CASE LoginError
  BY <1>8 DEF LoginError, Step, mine
<1>9. ASSUME NEW success \in BOOLEAN, LoginAnswer(success) PROVE Spares
  BY <1>9 DEF LoginAnswer, Step, Note
<1>10. CASE EnterRefused
  BY <1>10 DEF EnterRefused, Step, mine
<1>11. CASE EnterNotLoggedIn
  BY <1>11 DEF EnterNotLoggedIn, Step, mine
<1>12. CASE EnterBegin
  BY <1>12 DEF EnterBegin, Step, StopEnterTimer, Note
<1>13. CASE RouteFailed
  BY <1>13 DEF RouteFailed, Step, mine, Note
<1>14. ASSUME NEW s \in Server, NEW type \in Type \cup {"UNKNOWN"}, Join(s, type) PROVE Spares
  BY <1>14 DEF Join, Step, Note
<1>15. CASE JoinTimeout
  BY <1>15 DEF JoinTimeout, Step, mine, Note
<1>16. CASE JoinRefused
  BY <1>16 DEF JoinRefused, Step, mine
<1>17. CASE JoinAccepted
  BY <1>17 DEF JoinAccepted, Step, mine
<1>18. CASE SetGame
  BY <1>18 DEF SetGame, Step
<1>19. CASE SetTarget
  BY <1>19 DEF SetTarget, Step
<1>20. CASE Replied
  BY <1>20 DEF Replied, mine, Reply, Return, Wss!MessageEnd
<1>21. CASE ReplyKick
  BY <1>21 DEF ReplyKick, Reply, Return, Wss!MessageEnd
<1>22. CASE ScheduleKick
  BY <1>22 DEF ScheduleKick, Reply, Return, Wss!MessageEnd
<1>23. CASE ArmEnterTimer
  BY <1>23 DEF ArmEnterTimer, Reply, Return, Wss!MessageEnd
<1>24. CASE ReplyPanic
  BY <1>24 DEF ReplyPanic, mine, Return, Wss!MessageEnd
<1>25. CASE Jam
  BY <1>25 DEF Jam
<1>26. CASE CloseSend
  BY <1>26 DEF CloseSend
<1>27. CASE LoginExpire
  BY <1>27 DEF LoginExpire, Ticking
<1>28. CASE LoginKick
  BY <1>28 DEF LoginKick, Ticking
<1>29. CASE AuthKick
  BY <1>29 DEF AuthKick, Ticking
<1>30. ASSUME NEW i \in 1..MaxLogin, EnterExpire(i) PROVE Spares
  BY <1>30 DEF EnterExpire, Ticking
<1>31. ASSUME NEW i \in 1..MaxLogin, EnterKick(i) PROVE Spares
  BY <1>31 DEF EnterKick, Ticking
<1>32. CASE DisconnectBegin
  BY <1>32 DEF DisconnectBegin, StopLoginTimer, StopEnterTimer, Wss!DisconnectBegin, Wss!HubFree, Wss!Move
<1>33. CASE QuitTarget
  BY <1>33 DEF QuitTarget, Hub
<1>34. CASE NoTarget
  BY <1>34 DEF NoTarget, Hub
<1>35. CASE NoGame
  BY <1>35 DEF NoGame, Hub
<1>36. CASE AskRoute
  BY <1>36 DEF AskRoute, Hub
<1>37. ASSUME NEW s \in Server \cup {NoServer}, QuitRoute(s) PROVE Spares
  BY <1>37 DEF QuitRoute, Hub
<1>38. CASE DisconnectEnd
  BY <1>38 DEF DisconnectEnd, Wss!DisconnectEnd, Wss!Move
<1>39. CASE ServerStop
  BY <1>39 DEF ServerStop, Wss!Stop
<1>40. ASSUME NEW i \in 1..MaxJoin, JoinNoUser(i) PROVE Spares
  BY <1>40 DEF JoinNoUser, AtServer
<1>41. ASSUME NEW i \in 1..MaxJoin, JoinAdd(i) PROVE Spares
  BY <1>41 DEF JoinAdd, AtServer
<1>42. ASSUME NEW i \in 1..MaxJoin, JoinDone(i) PROVE Spares
  BY <1>42 DEF JoinDone, AtServer
<1>43. ASSUME NEW i \in 1..MaxJoin, JoinUndo(i) PROVE Spares
  BY <1>43 DEF JoinUndo, AtServer
<1>44. CASE QuitServed
  BY <1>44 DEF QuitServed
<1>45. CASE QuitLost
  BY <1>45 DEF QuitLost, Note
<1>46. ASSUME NEW s \in Server, Restart(s) PROVE Spares
  BY <1>46 DEF Restart, Note
<1>47. CASE UNCHANGED vars
  BY <1>47 DEF vars
<1> QED
  BY <1>1, <1>2, <1>3, <1>4, <1>5, <1>6, <1>7, <1>8, <1>9, <1>10, <1>11,
     <1>12, <1>13, <1>14, <1>15, <1>16, <1>17, <1>18, <1>19, <1>20, <1>21,
     <1>22, <1>23, <1>24, <1>25, <1>26, <1>27, <1>28, <1>29, <1>30, <1>31,
     <1>32, <1>33, <1>34, <1>35, <1>36, <1>37, <1>38, <1>39, <1>40, <1>41,
     <1>42, <1>43, <1>44, <1>45, <1>46, <1>47
  DEF Next, OnConnect, Handler, HandleLogin, HandleEnter, Replies, Timers, OnDisconnect,
      JoinCalls, QuitCall

(* Every step keeps all parts of the invariant, each by its own lemma. *)
LEMMA InvStep == Inv /\ [Next]_vars => Inv'
  BY TypeStep, QuitStep, CallsStep, PeerStep, MemberStep, TimerStep DEF Inv

(* The invariant holds throughout. *)
LEMMA Invariant == Spec => []Inv
  BY InvInit, InvStep, PTL DEF Spec

(* Every tag, timer and call keeps its type, and a connection with a target  *)
(* has a user and a game.                                                    *)
THEOREM TypeCorrect == Spec => []TypeOK
<1>1. Inv => TypeOK
  BY DEF Inv
<1> QED
  BY <1>1, Invariant, PTL

(* A session that is over leaves no peer behind, unless the connector gave   *)
(* up on a Join, a Quit was lost, the route had no type, or the server was   *)
(* stopping (websocket_handler.go, OnDisconnect).                            *)
THEOREM NoGhost == Spec => []NoGhostPeer
<1>1. Inv => NoGhostPeer
  BY DEF Inv, NoGhostPeer, PeerInv, QuitInv, Kept, TypeOK
<1> QED
  BY <1>1, Invariant, PTL

(* Who has been told to be in a stateful game is a peer of the server its    *)
(* messages go to, unless that server restarted or a Join was given up on.   *)
THEOREM PlayerIsPeer == Spec => []InGameHasPeer
<1>1. Inv => InGameHasPeer
  BY DEF Inv, InGameHasPeer, MemberInv
<1> QED
  BY <1>1, Invariant, PTL

(* Who is logged in is kicked only by the enter game timer and only outside  *)
(* a game, unless a login came too early, while its timer's callback or the  *)
(* kick of a failed one was under way, or after a refused one.               *)
THEOREM AdmittedSpared == Spec => TimersSpareAdmitted
<1>1. Inv /\ [Next]_vars => [Spares]_vars
  BY AdmittedStep
<1>2. Spec => [][Spares]_vars
  BY <1>1, Invariant, PTL DEF Spec
<1> QED
  BY <1>2 DEF TimersSpareAdmitted, Spares

(* A callback begins and ends only as the contract allows, and nothing else  *)
(* touches the contract's state.                                             *)
LEMMA ContractStep == [Next]_vars => [Wss!Next]_(Wss!vars)
<1> DEFINE Keeps == [Wss!Next]_(Wss!vars)
<1> SUFFICES ASSUME [Next]_vars PROVE Keeps
  OBVIOUS
<1>1. CASE UNCHANGED contract
  BY <1>1 DEF contract, Wss!vars
<1>2. CASE ConnectBegin \/ ConnectEnd \/ DisconnectBegin \/ DisconnectEnd \/ ServerStop
  BY <1>2 DEF ConnectBegin, ConnectEnd, DisconnectBegin, DisconnectEnd, ServerStop, Wss!Next
<1>3. ASSUME NEW action, Receive(action) PROVE Keeps
  BY <1>3 DEF Receive, Wss!Next
<1>4. ASSUME NEW from, Return(from) PROVE Keeps
  BY <1>4 DEF Return, Wss!Next
<1>5. Handler => UNCHANGED contract \/ \E from \in Replying : Return(from)
  BY DEF Handler, HandleLogin, HandleEnter, Replies, AlreadyLoggedIn, LoginBegin, LoginInvalid,
     LoginError, LoginAnswer, EnterRefused, EnterNotLoggedIn, EnterBegin, RouteFailed, Join,
     JoinTimeout, JoinRefused, JoinAccepted, SetGame, SetTarget, Step, Replied, ReplyKick,
     ScheduleKick, ArmEnterTimer, ReplyPanic, Reply, Replying
<1>6. ArmLoginTimer \/ Timers \/ Jam \/ CloseSend \/ JoinCalls \/ QuitCall
        \/ (\E s \in Server : Restart(s)) => UNCHANGED contract
  BY DEF ArmLoginTimer, Timers, LoginExpire, LoginKick, AuthKick, EnterExpire, EnterKick,
     Ticking, Jam, CloseSend, JoinCalls, JoinNoUser, JoinAdd, JoinDone, JoinUndo, AtServer,
     QuitCall, QuitServed, QuitLost, Restart
<1>7. QuitTarget \/ NoTarget \/ NoGame \/ AskRoute \/ (\E s \in Server \cup {NoServer} : QuitRoute(s))
        => UNCHANGED contract
  BY DEF QuitTarget, NoTarget, NoGame, AskRoute, QuitRoute, Hub
<1> QED
  BY <1>1, <1>2, <1>3, <1>4, <1>5, <1>6, <1>7 DEF Next, OnConnect, OnDisconnect, vars

(* The handler's callbacks run as SubscriberContract has them for one        *)
(* connection, which is what WssGateway_proofs shows each connection of the  *)
(* gateway to see.                                                           *)
THEOREM PlayerFollowsContract == Spec => Wss!Spec
<1>1. Init => Wss!Init
  BY DEF Init
<1> QED
  BY <1>1, ContractStep, PTL DEF Spec, Wss!Spec
=============================================================================
