-------------------------------- MODULE WsHub --------------------------------
(***************************************************************************)
(* The WebSocket hub of one location: the connection manager               *)
(* (ws_manager.py), the life of a client (websocket.py) with the initial    *)
(* data it is sent (websocket_service.py), and the broadcasts of the        *)
(* services.                                                                *)
(*                                                                         *)
(* A message is known by its topic and the version of what it shows: a     *)
(* stored row (sensor, model and weather data are one topic), or the       *)
(* fusion state, which is kept in memory. Every send is an await, so that  *)
(* clients come and go between the sends of a broadcast, and broadcasts    *)
(* overlap.                                                                *)
(***************************************************************************)
EXTENDS Integers, Sequences

CONSTANTS
  Clients,     \* sockets, each used once
  Broadcasts,  \* broadcasts that may be under way at once
  MaxVersion   \* versions of a topic

ASSUME HubAssumption == MaxVersion \in Nat

Topics == {"row", "fusion"}
Versions == 0 .. MaxVersion

\* A topic without a broadcast, and a version nothing has been seen of.
NoTopic == "none"
Unseen == -1

VARIABLES
  connections,  \* ws_manager.connections of the location
  phase,        \* where the endpoint of each client is between two awaits
  alive,        \* clients whose socket is open at the other end
  readRow,      \* the row each client's initial data has read
  current,      \* the newest version of each topic
  announced,    \* the newest row whose broadcast has begun
  sending,      \* the broadcasts under way
  seen,         \* the newest version each client has been sent
  dropped       \* clients a send has failed for, which are still there

hubVars ==
  <<connections, phase, alive, readRow, current, announced, sending, seen, dropped>>

\* The copy of the connections a broadcast goes through, the place it has
\* reached, and the sockets it could not send to.
NoBroadcast == [topic |-> NoTopic, version |-> 0, copy |-> <<>>, at |-> 1, failed |-> {}]

HubTypeOK ==
  /\ connections \in Seq(Clients)
  /\ \A i, j \in DOMAIN connections : i # j => connections[i] # connections[j]
  /\ phase \in [Clients -> {"new", "reading", "read", "fusion", "open", "closed"}]
  /\ alive \subseteq Clients
  /\ readRow \in [Clients -> Versions]
  /\ current \in [Topics -> Versions]
  /\ announced \in 0 .. current["row"]
  /\ \A b \in Broadcasts :
       /\ sending[b].topic \in Topics \cup {NoTopic}
       /\ sending[b].version \in Versions
       /\ sending[b].copy \in Seq(Clients)
       /\ sending[b].at \in Nat
       /\ sending[b].failed \subseteq Clients
  /\ seen \in [Clients -> [Topics -> Versions \cup {Unseen}]]
  /\ dropped \subseteq alive

HubInit ==
  /\ connections = <<>>
  /\ phase = [c \in Clients |-> "new"]
  /\ alive = Clients
  /\ readRow = [c \in Clients |-> 0]
  /\ current = [t \in Topics |-> 0]
  /\ announced = 0
  /\ sending = [b \in Broadcasts |-> NoBroadcast]
  /\ seen = [c \in Clients |-> [t \in Topics |-> Unseen]]
  /\ dropped = {}

\* "c" is sent version "v" of topic "t".
Sent(c, t, v) ==
  seen' = [seen EXCEPT ![c][t] = IF v > @ THEN v ELSE @]

-----------------------------------------------------------------------------
(***************************************************************************)
(* The endpoint of a client.                                               *)
(***************************************************************************)

\* The manager registers the socket when it accepts it, and the endpoint again.
ConnectTwice(c) ==
  /\ phase[c] = "new"
  /\ connections' = connections \o <<c, c>>
  /\ phase' = [phase EXCEPT ![c] = "reading"]
  /\ UNCHANGED <<alive, readRow, current, announced, sending, seen, dropped>>

\* The socket is registered before its initial data is read. A client that
\* names no location is closed before, and never comes here.
Connect(c) ==
  /\ phase[c] = "new"
  /\ connections' = Append(connections, c)
  /\ phase' = [phase EXCEPT ![c] = "reading"]
  /\ UNCHANGED <<alive, readRow, current, announced, sending, seen, dropped>>

ReadInitial(c) ==
  /\ phase[c] = "reading"
  /\ readRow' = [readRow EXCEPT ![c] = current["row"]]
  /\ phase' = [phase EXCEPT ![c] = "read"]
  /\ UNCHANGED <<connections, alive, current, announced, sending, seen, dropped>>

SendInitial(c) ==
  /\ phase[c] = "read"
  /\ c \in alive
  /\ Sent(c, "row", readRow[c])
  /\ readRow' = [readRow EXCEPT ![c] = 0]
  /\ phase' = [phase EXCEPT ![c] = "fusion"]
  /\ UNCHANGED <<connections, alive, current, announced, sending, dropped>>

\* The fusion state is read and sent without an await between.
SendFusionState(c) ==
  /\ phase[c] = "fusion"
  /\ c \in alive
  /\ Sent(c, "fusion", current["fusion"])
  /\ phase' = [phase EXCEPT ![c] = "open"]
  /\ UNCHANGED <<connections, alive, readRow, current, announced, sending, dropped>>

\* ws_manager.disconnect: the places that are kept move up in their order.
Unregister(gone) ==
  LET kept == {i \in DOMAIN connections : connections[i] \notin gone} IN
    \E n \in 0 .. Len(connections) : \E place \in [1 .. n -> kept] :
      /\ \A i, j \in 1 .. n : i < j => place[i] < place[j]
      /\ \A k \in kept : \E i \in 1 .. n : place[i] = k
      /\ connections' = [i \in 1 .. n |-> connections[place[i]]]

\* The endpoint ends, in its "finally": the initial data has raised (an unknown
\* location, a query, a send), or the socket is closed while it waits.
EndpointEnds(c) ==
  /\ \/ phase[c] \in {"reading", "read", "fusion"}
     \/ phase[c] = "open" /\ c \notin alive
  /\ Unregister({c})
  /\ phase' = [phase EXCEPT ![c] = "closed"]
  /\ alive' = alive \ {c} /\ dropped' = dropped \ {c}
  /\ readRow' = [readRow EXCEPT ![c] = 0]
  /\ seen' = [seen EXCEPT ![c] = [t \in Topics |-> Unseen]]
  /\ UNCHANGED <<current, announced, sending>>

\* The other end is gone. The endpoint learns of it later.
ClientLeaves(c) ==
  /\ phase[c] # "new"
  /\ c \in alive
  /\ alive' = alive \ {c} /\ dropped' = dropped \ {c}
  /\ UNCHANGED <<connections, phase, readRow, current, announced, sending, seen>>

-----------------------------------------------------------------------------
(***************************************************************************)
(* broadcast_to_location.                                                  *)
(***************************************************************************)

\* A broadcast goes through a copy of the list. Its first send belongs to the
\* same step in the code; here other steps may come before it.
BeginsWith(t, v) ==
  \/ /\ connections = <<>>
     /\ UNCHANGED sending
  \/ /\ connections # <<>>
     /\ \E b \in Broadcasts :
          /\ sending[b] = NoBroadcast
          /\ sending' = [sending EXCEPT ![b] =
               [topic |-> t, version |-> v, copy |-> connections, at |-> 1, failed |-> {}]]

\* The fusion state changes, and its broadcast begins without an await between.
FusionChanges ==
  /\ current["fusion"] < MaxVersion
  /\ current' = [current EXCEPT !["fusion"] = @ + 1]
  /\ BeginsWith("fusion", current["fusion"] + 1)
  /\ UNCHANGED <<connections, phase, alive, readRow, announced, seen, dropped>>

\* A row is committed; a service awaits more before it broadcasts it.
RowCommitted ==
  /\ current["row"] < MaxVersion
  /\ current' = [current EXCEPT !["row"] = @ + 1]
  /\ UNCHANGED <<connections, phase, alive, readRow, announced, sending, seen, dropped>>

RowAnnounced ==
  /\ announced < current["row"]
  /\ announced' = announced + 1
  /\ BeginsWith("row", announced + 1)
  /\ UNCHANGED <<connections, phase, alive, readRow, current, seen, dropped>>

\* A loop over the list itself, from which others remove sockets meanwhile.
LiveList(b) == connections

\* What a broadcast iterates over.
Listed(b) == sending[b].copy

\* The broadcast is one socket further, which has failed or not.
Further(m, failed) ==
  [topic |-> m.topic, version |-> m.version, copy |-> m.copy, at |-> m.at + 1,
   failed |-> m.failed \cup failed]

\* A socket that is closed fails, and so does one whose send raises, for
\* whatever reason: its endpoint does not learn of it and goes on.
SendNext(b) ==
  /\ sending[b] # NoBroadcast
  /\ sending[b].at <= Len(Listed(b))
  /\ LET c == Listed(b)[sending[b].at] IN
       \/ /\ phase[c] # "closed" /\ c \in alive
          /\ Sent(c, sending[b].topic, sending[b].version)
          /\ sending' = [sending EXCEPT ![b] = Further(@, {})]
          /\ UNCHANGED dropped
       \/ /\ sending' = [sending EXCEPT ![b] = Further(@, {c})]
          /\ dropped' = dropped \cup ({c} \cap alive)
          /\ UNCHANGED seen
  /\ UNCHANGED <<connections, phase, alive, readRow, current, announced>>

\* After the loop the sockets that failed are removed.
BroadcastEnds(b) ==
  /\ sending[b] # NoBroadcast
  /\ sending[b].at > Len(Listed(b))
  /\ Unregister(sending[b].failed)
  /\ sending' = [sending EXCEPT ![b] = NoBroadcast]
  /\ UNCHANGED <<phase, alive, readRow, current, announced, seen, dropped>>

HubNext ==
  \/ \E c \in Clients :
       \/ Connect(c) \/ ReadInitial(c) \/ SendInitial(c) \/ SendFusionState(c)
       \/ EndpointEnds(c) \/ ClientLeaves(c)
  \/ FusionChanges
  \/ RowCommitted
  \/ RowAnnounced
  \/ \E b \in Broadcasts : SendNext(b) \/ BroadcastEnds(b)

HubSpec == HubInit /\ [][HubNext]_hubVars

-----------------------------------------------------------------------------
(***************************************************************************)
(* Properties.                                                             *)
(***************************************************************************)

\* A message of at least this version is on its way to "c".
OnItsWay(c, t, v) ==
  \E b \in Broadcasts :
    /\ sending[b].topic = t /\ sending[b].version >= v
    /\ \E i \in sending[b].at .. Len(sending[b].copy) : sending[b].copy[i] = c

\* Nobody is left behind: a client that has its initial data, is still there
\* and was never dropped has been sent the newest fusion state and the newest
\* announced row, or is in a broadcast that has yet to reach it, whatever was
\* registered, removed or overtaken meanwhile. This rests on the order in which
\* a client is registered and its data read, and on the copy a broadcast goes
\* through. An older message may still come after a newer one.
ClientsAreCurrent ==
  \A c \in alive \ dropped :
    phase[c] = "open" =>
      /\ seen[c]["fusion"] >= current["fusion"] \/ OnItsWay(c, "fusion", current["fusion"])
      /\ seen[c]["row"] >= announced \/ OnItsWay(c, "row", announced)
=============================================================================
