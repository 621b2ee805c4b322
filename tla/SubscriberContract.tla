-------------------------- MODULE SubscriberContract --------------------------
(***************************************************************************)
(* What pkg/wss promises to a Subscriber (pkg/wss/subscriber.go): the      *)
(* order in which OnConnect, OnMessage and OnDisconnect of a client may    *)
(* run and which of them may overlap.  The hub goroutine runs OnConnect    *)
(* and OnDisconnect, one at a time over all clients; the read pump of each *)
(* client runs OnMessage.  Nothing here knows about channels or sockets.   *)
(*                                                                         *)
(* Two points of the promise are weaker than a reader may expect, and the  *)
(* subscriber has to live with them:                                       *)
(*   - the pumps start while OnConnect may still be running, so OnMessage  *)
(*     can overlap (and even finish before) OnConnect;                     *)
(*   - once the server is stopping, OnDisconnect no longer waits for the   *)
(*     read pump, so OnMessage can overlap or follow OnDisconnect.         *)
(***************************************************************************)
CONSTANT Conn

VARIABLES
  phase,     \* callbacks of the hub for each client
  inMsg,     \* clients whose OnMessage is running
  stopping   \* the server's context has been cancelled

vars == <<phase, inMsg, stopping>>

Phase == {"new", "connecting", "connected", "disconnecting", "gone"}

TypeOK ==
  /\ phase \in [Conn -> Phase]
  /\ inMsg \subseteq Conn
  /\ stopping \in BOOLEAN

Init ==
  /\ phase = [c \in Conn |-> "new"]
  /\ inMsg = {}
  /\ stopping = FALSE

(* The hub runs one callback at a time. *)
HubFree == \A c \in Conn : phase[c] \notin {"connecting", "disconnecting"}

Move(c, from, to) ==
  /\ phase[c] = from
  /\ phase' = [phase EXCEPT ![c] = to]
  /\ UNCHANGED <<inMsg, stopping>>

ConnectBegin(c)    == HubFree /\ Move(c, "new", "connecting")
ConnectEnd(c)      == Move(c, "connecting", "connected")
DisconnectBegin(c) == /\ HubFree
                      /\ c \notin inMsg \/ stopping
                      /\ Move(c, "connected", "disconnecting")
DisconnectEnd(c)   == Move(c, "disconnecting", "gone")

MessageBegin(c) ==
  /\ phase[c] # "new"
  /\ phase[c] \in {"connecting", "connected"} \/ stopping
  /\ c \notin inMsg
  /\ inMsg' = inMsg \cup {c}
  /\ UNCHANGED <<phase, stopping>>

MessageEnd(c) ==
  /\ c \in inMsg
  /\ inMsg' = inMsg \ {c}
  /\ UNCHANGED <<phase, stopping>>

Stop ==
  /\ ~stopping
  /\ stopping' = TRUE
  /\ UNCHANGED <<phase, inMsg>>

Next ==
  \/ Stop
  \/ \E c \in Conn :
       \/ ConnectBegin(c)    \/ ConnectEnd(c)
       \/ DisconnectBegin(c) \/ DisconnectEnd(c)
       \/ MessageBegin(c)    \/ MessageEnd(c)

Spec == Init /\ [][Next]_vars
=============================================================================
