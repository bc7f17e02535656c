---------------------------- MODULE ServiceProofs ----------------------------
(***************************************************************************)
(* Theorems about the services that share the process: the WebSocket hub,   *)
(* the cached sensor configuration, the nightly jobs, the notification      *)
(* templates, and all of them together, for any number of clients, devices, *)
(* readings, requests, configurations, locations, days and templates.       *)
(***************************************************************************)
EXTENDS ServiceMC, WellFoundedInduction, TLAPS

-----------------------------------------------------------------------------
(***************************************************************************)
(* The WebSocket hub. No client is left behind the newest broadcast, for    *)
(* each that has an older version is in a list that some broadcast still    *)
(* walks, or is read the newest when it connects; and a socket is           *)
(* registered once.                                                        *)
(***************************************************************************)

\* OnItsWay, of any state of the broadcasts.
OnWay(s, c, t, v) ==
  \E b \in Broadcasts :
    /\ s[b].topic = t /\ s[b].version >= v
    /\ \E i \in s[b].at .. Len(s[b].copy) : s[b].copy[i] = c

\* "c" was sent version "v" of the topic, or will be.
Told(h, s, c, t, v) == h[c][t] >= v \/ OnWay(s, c, t, v)

Member(s, c) == \E i \in 1 .. Len(s) : s[i] = c

HubShape ==
  /\ connections \in Seq(Clients)
  /\ alive \subseteq Clients /\ dropped \subseteq alive
  /\ phase = [c \in Clients |-> phase[c]]
  /\ readRow = [c \in Clients |-> readRow[c]]
  /\ seen = [c \in Clients |-> seen[c]]
  /\ sending = [b \in Broadcasts |-> sending[b]]
  /\ current = [t \in Topics |-> current[t]]

HubNumbers ==
  /\ \A c \in Clients : readRow[c] \in Int
  /\ \A c \in Clients : seen[c] = [t \in Topics |-> seen[c][t]]
  /\ \A c \in Clients, t \in Topics : seen[c][t] \in Int
  /\ \A t \in Topics : current[t] \in Int
  /\ announced \in Int /\ announced <= current["row"]

\* What a broadcast goes through; a socket that failed is gone for good, or is
\* known to be dropped.
MessagesOK ==
  \A b \in Broadcasts :
    /\ sending[b].copy \in Seq(Clients)
    /\ sending[b].at \in Nat \ {0}
    /\ sending[b].version \in Int
    /\ sending[b] # NoBroadcast => sending[b].topic \in Topics
    /\ sending[b].failed \cap alive \subseteq dropped

\* Who is there and was not dropped is registered from its first step to its last.
Registered ==
  /\ \A c \in Clients : phase[c] = "closed" => c \notin alive
  /\ \A c \in alive \ dropped : phase[c] # "new" => Member(connections, c)

\* The rows and the fusion state that a client has, or is about to have.
Informed ==
  \A c \in alive \ dropped :
    /\ phase[c] = "read" => readRow[c] >= announced \/ Told(seen, sending, c, "row", announced)
    /\ phase[c] \in {"fusion", "open"} => Told(seen, sending, c, "row", announced)
    /\ phase[c] = "open" => Told(seen, sending, c, "fusion", current["fusion"])

HubInv == HubShape /\ HubNumbers /\ MessagesOK /\ Registered /\ Informed

-----------------------------------------------------------------------------
LEMMA NoBroadcastFields ==
  /\ NoBroadcast.topic = NoTopic /\ NoBroadcast.version \in Int
  /\ NoBroadcast.copy \in Seq(Clients)
  /\ NoBroadcast.at \in Nat \ {0} /\ NoBroadcast.failed = {}
<1>1. <<>> \in Seq(Clients)
  OBVIOUS
<1> QED BY <1>1 DEF NoBroadcast

LEMMA InitHub == HubInit => HubInv
<1> SUFFICES ASSUME HubInit PROVE HubInv
  OBVIOUS
<1>1. HubShape
  BY DEF HubInit, HubShape
<1>2. HubNumbers
  BY DEF HubInit, HubNumbers, Unseen, Topics
<1>3. MessagesOK
  <2>1. \A b \in Broadcasts : sending[b] = NoBroadcast
    BY DEF HubInit
  <2> QED BY <2>1, NoBroadcastFields DEF MessagesOK
<1>4. Registered /\ Informed
  BY DEF HubInit, Registered, Informed
<1> QED BY <1>1, <1>2, <1>3, <1>4 DEF HubInv

\* Only what is gone is no longer registered.
LEMMA Unregisters ==
  ASSUME HubShape, NEW gone, Unregister(gone)
  PROVE  /\ connections' \in Seq(Clients)
         /\ \A c \in Clients \ gone : Member(connections, c) => Member(connections', c)
<1> DEFINE kept == {i \in DOMAIN connections : connections[i] \notin gone}
<1>0. PICK n \in 0 .. Len(connections) : \E place \in [1 .. n -> kept] :
        /\ \A k \in kept : \E i \in 1 .. n : place[i] = k
        /\ connections' = [i \in 1 .. n |-> connections[place[i]]]
  BY Zenon DEF Unregister
<1>1. PICK place \in [1 .. n -> kept] :
        /\ \A k \in kept : \E i \in 1 .. n : place[i] = k
        /\ connections' = [i \in 1 .. n |-> connections[place[i]]]
  BY Zenon, <1>0
<1>2. connections \in Seq(Clients)
  BY DEF HubShape
<1>3. \A i \in 1 .. n : connections[place[i]] \in Clients
  BY <1>1, <1>2
<1>4. n \in Nat
  BY <1>2
<1>5. connections' \in Seq(Clients) /\ Len(connections') = n
  BY <1>1, <1>3, <1>4
<1>6. ASSUME NEW c \in Clients \ gone, Member(connections, c) PROVE Member(connections', c)
  <2>1. PICK k \in 1 .. Len(connections) : connections[k] = c
    BY <1>6 DEF Member
  <2>2. k \in kept
    BY <1>2, <2>1
  <2>3. PICK i \in 1 .. n : place[i] = k
    BY <1>1, <2>2
  <2>4. connections'[i] = c
    BY <1>1, <2>1, <2>3
  <2> QED BY <1>5, <2>3, <2>4 DEF Member
<1> QED BY <1>5, <1>6

\* What is told stays told, as long as the client is there and not dropped.
StaysTold ==
  \A c \in alive' \ dropped', t \in Topics, v \in Int :
    Told(seen, sending, c, t, v) => Told(seen', sending', c, t, v)

\* The step of a client, which changes nothing of the broadcasts.
LEMMA ToldByClient ==
  ASSUME HubInv, sending' = sending, alive' \subseteq alive,
         \A c \in alive', t \in Topics : seen'[c][t] \in Int /\ seen'[c][t] >= seen[c][t]
  PROVE  StaysTold
<1> SUFFICES ASSUME NEW c \in alive' \ dropped', NEW t \in Topics, NEW v \in Int,
                    Told(seen, sending, c, t, v)
             PROVE  Told(seen', sending', c, t, v)
  BY DEF StaysTold
<1>1. CASE seen[c][t] >= v
  <2>1. seen[c][t] \in Int
    BY DEF HubInv, HubShape, HubNumbers
  <2> QED BY <1>1, <2>1 DEF Told
<1>2. CASE OnWay(sending, c, t, v)
  BY <1>2 DEF Told
<1> QED BY <1>1, <1>2 DEF Told

\* A client is sent something.
LEMMA SentKeeps ==
  ASSUME HubInv, NEW c \in Clients, NEW t \in Topics, NEW v \in Int, Sent(c, t, v)
  PROVE  /\ seen' = [d \in Clients |-> seen'[d]]
         /\ \A d \in Clients : seen'[d] = [u \in Topics |-> seen'[d][u]]
         /\ \A d \in Clients, u \in Topics : seen'[d][u] \in Int /\ seen'[d][u] >= seen[d][u]
         /\ seen'[c][t] >= v
<1>1. /\ seen = [d \in Clients |-> seen[d]]
      /\ seen[c] = [u \in Topics |-> seen[c][u]]
      /\ \A d \in Clients, u \in Topics : seen[d][u] \in Int
  BY DEF HubInv, HubShape, HubNumbers
<1>2. seen' = [seen EXCEPT ![c] = [seen[c] EXCEPT ![t] = IF v > seen[c][t] THEN v
                                                                        ELSE seen[c][t]]]
  BY DEF Sent
<1>3. /\ seen'[c] = [seen[c] EXCEPT ![t] = IF v > seen[c][t] THEN v ELSE seen[c][t]]
      /\ \A d \in Clients \ {c} : seen'[d] = seen[d]
      /\ seen' = [d \in Clients |-> seen'[d]]
  BY <1>1, <1>2
<1>4. /\ seen'[c][t] = IF v > seen[c][t] THEN v ELSE seen[c][t]
      /\ \A u \in Topics \ {t} : seen'[c][u] = seen[c][u]
      /\ seen'[c] = [u \in Topics |-> seen'[c][u]]
  BY <1>1, <1>3
<1>5. \A d \in Clients : seen'[d] = [u \in Topics |-> seen'[d][u]]
  BY <1>3, <1>4 DEF HubInv, HubNumbers
<1>6. \A d \in Clients, u \in Topics : seen'[d][u] \in Int /\ seen'[d][u] >= seen[d][u]
  <2>1. seen[c][t] \in Int
    BY <1>1
  <2>2. seen'[c][t] \in Int /\ seen'[c][t] >= seen[c][t]
    BY <1>4, <2>1
  <2>3. ASSUME NEW d \in Clients, NEW u \in Topics, d # c \/ u # t
        PROVE  seen'[d][u] = seen[d][u] /\ seen[d][u] \in Int
    BY <1>1, <1>3, <1>4, <2>3
  <2> QED BY <2>2, <2>3
<1>7. seen'[c][t] >= v
  <2>1. seen[c][t] \in Int
    BY <1>1
  <2> QED BY <1>4, <2>1
<1> QED BY <1>3, <1>5, <1>6, <1>7

-----------------------------------------------------------------------------
LEMMA ConnectKeeps == ASSUME HubInv, NEW c \in Clients, Connect(c) PROVE HubInv'
<1> USE DEF HubInv
<1>1. connections' = Append(connections, c) /\ connections \in Seq(Clients)
  BY DEF Connect, HubShape
<1>2. HubShape'
  BY <1>1 DEF Connect, HubShape
<1>3. HubNumbers' /\ MessagesOK'
  BY DEF Connect, HubNumbers, MessagesOK
<1>4. Member(connections', c)
        /\ \A d \in Clients : Member(connections, d) => Member(connections', d)
  BY <1>1 DEF Member
<1>5. Registered'
  BY <1>4 DEF Connect, HubShape, Registered, Member
<1>6. Informed'
  <2>1. /\ phase'[c] = "reading" /\ \A d \in Clients \ {c} : phase'[d] = phase[d]
        /\ UNCHANGED <<alive, readRow, current, announced, sending, seen, dropped>>
    BY DEF Connect, HubShape
  <2> QED BY <2>1 DEF HubShape, Informed
<1> QED BY <1>2, <1>3, <1>5, <1>6

LEMMA ReadInitialKeeps == ASSUME HubInv, NEW c \in Clients, ReadInitial(c) PROVE HubInv'
<1> USE DEF HubInv
<1>1. HubShape' /\ HubNumbers' /\ MessagesOK'
  BY DEF ReadInitial, HubShape, HubNumbers, MessagesOK, Topics
<1>2. Registered'
  BY DEF ReadInitial, HubShape, Registered, Member
<1>3. readRow'[c] >= announced' /\ \A d \in Clients \ {c} : /\ readRow'[d] = readRow[d]
                                                            /\ phase'[d] = phase[d]
  BY DEF ReadInitial, HubShape, HubNumbers, Topics
<1>4. phase'[c] = "read"
  BY DEF ReadInitial, HubShape
<1>5. Informed'
  BY <1>3, <1>4 DEF ReadInitial, HubShape, Informed
<1> QED BY <1>1, <1>2, <1>5

LEMMA SendInitialKeeps == ASSUME HubInv, NEW c \in Clients, SendInitial(c) PROVE HubInv'
<1> USE DEF HubInv
<1>1. readRow[c] \in Int /\ "row" \in Topics /\ Sent(c, "row", readRow[c])
  BY DEF SendInitial, HubNumbers, Topics
<1>2. /\ seen' = [d \in Clients |-> seen'[d]]
      /\ \A d \in Clients : seen'[d] = [u \in Topics |-> seen'[d][u]]
      /\ \A d \in Clients, u \in Topics : seen'[d][u] \in Int /\ seen'[d][u] >= seen[d][u]
      /\ seen'[c]["row"] >= readRow[c]
  BY <1>1, SentKeeps
<1>3. HubShape' /\ HubNumbers' /\ MessagesOK' /\ Registered'
  <2>1. HubShape'
    BY <1>2 DEF SendInitial, HubShape
  <2>2. /\ current' = current /\ announced' = announced
        /\ \A d \in Clients : readRow'[d] \in Int
    BY DEF SendInitial, HubShape, HubNumbers
  <2>3. HubNumbers'
    BY <1>2, <2>2 DEF HubNumbers
  <2>4. MessagesOK'
    BY DEF SendInitial, MessagesOK
  <2>5. Registered'
    BY DEF SendInitial, HubShape, Registered, Member
  <2> QED BY <2>1, <2>3, <2>4, <2>5
<1>4. StaysTold
  BY <1>2, ToldByClient DEF SendInitial, HubShape
<1>5. ASSUME c \notin dropped PROVE Told(seen', sending', c, "row", announced)
  <2>1. CASE readRow[c] >= announced
    BY <1>1, <1>2, <2>1 DEF HubNumbers, Told
  <2>2. CASE Told(seen, sending, c, "row", announced)
    BY <1>1, <1>4, <1>5, <2>2 DEF SendInitial, HubNumbers, StaysTold
  <2> QED BY <1>5, <2>1, <2>2 DEF SendInitial, Informed
<1>6. Informed'
  <2>1. /\ phase'[c] = "fusion" /\ \A d \in Clients \ {c} : /\ phase'[d] = phase[d]
                                                            /\ readRow'[d] = readRow[d]
        /\ announced' = announced /\ current' = current /\ alive' = alive /\ dropped' = dropped
    BY DEF SendInitial, HubShape
  <2>2. "fusion" \in Topics /\ announced \in Int /\ current["fusion"] \in Int
    BY DEF HubNumbers, Topics
  <2> QED BY <1>1, <1>4, <1>5, <2>1, <2>2 DEF HubShape, StaysTold, Informed
<1> QED BY <1>3, <1>6

LEMMA SendFusionStateKeeps ==
  ASSUME HubInv, NEW c \in Clients, SendFusionState(c)
  PROVE  HubInv'
<1> USE DEF HubInv
<1>1. /\ "row" \in Topics /\ "fusion" \in Topics
      /\ announced \in Int /\ current["fusion"] \in Int
      /\ Sent(c, "fusion", current["fusion"])
  BY DEF SendFusionState, HubNumbers, Topics
<1>2. /\ seen' = [d \in Clients |-> seen'[d]]
      /\ \A d \in Clients : seen'[d] = [u \in Topics |-> seen'[d][u]]
      /\ \A d \in Clients, u \in Topics : seen'[d][u] \in Int /\ seen'[d][u] >= seen[d][u]
      /\ seen'[c]["fusion"] >= current["fusion"]
  BY <1>1, SentKeeps
<1>3. HubShape' /\ HubNumbers' /\ MessagesOK' /\ Registered'
  <2>1. HubShape'
    BY <1>2 DEF SendFusionState, HubShape
  <2>2. /\ current' = current /\ announced' = announced
        /\ \A d \in Clients : readRow'[d] \in Int
    BY DEF SendFusionState, HubShape, HubNumbers
  <2>3. HubNumbers'
    BY <1>2, <2>2 DEF HubNumbers
  <2>4. MessagesOK'
    BY DEF SendFusionState, MessagesOK
  <2>5. Registered'
    BY DEF SendFusionState, HubShape, Registered, Member
  <2> QED BY <2>1, <2>3, <2>4, <2>5
<1>4. StaysTold
  BY <1>2, ToldByClient DEF SendFusionState, HubShape
<1>5. Told(seen', sending', c, "fusion", current["fusion"])
  BY <1>2 DEF Told
<1>6. /\ phase[c] = "fusion" /\ phase'[c] = "open"
      /\ \A d \in Clients \ {c} : phase'[d] = phase[d]
      /\ announced' = announced /\ current' = current /\ alive' = alive /\ readRow' = readRow
      /\ dropped' = dropped
  BY DEF SendFusionState, HubShape
<1>7. Informed'
  BY <1>1, <1>4, <1>5, <1>6 DEF HubShape, StaysTold, Informed
<1> QED BY <1>3, <1>7

LEMMA EndpointEndsKeeps == ASSUME HubInv, NEW c \in Clients, EndpointEnds(c) PROVE HubInv'
<1> USE DEF HubInv
<1>1. /\ connections' \in Seq(Clients)
      /\ \A d \in Clients \ {c} : Member(connections, d) => Member(connections', d)
  BY Unregisters DEF EndpointEnds
<1>2. /\ alive' = alive \ {c} /\ alive \subseteq Clients /\ dropped' = dropped \ {c}
      /\ phase'[c] = "closed" /\ phase' = [d \in Clients |-> phase'[d]]
      /\ readRow'[c] = 0 /\ readRow' = [d \in Clients |-> readRow'[d]]
      /\ seen'[c] = [t \in Topics |-> Unseen] /\ seen' = [d \in Clients |-> seen'[d]]
      /\ \A d \in Clients \ {c} : /\ phase'[d] = phase[d] /\ readRow'[d] = readRow[d]
                                  /\ seen'[d] = seen[d]
      /\ current' = current /\ announced' = announced /\ sending' = sending
  BY DEF EndpointEnds, HubShape
<1>3. HubShape'
  BY <1>1, <1>2 DEF HubShape
<1>4. HubNumbers'
  <2>1. \A d \in Clients : readRow'[d] \in Int
    BY <1>2 DEF HubNumbers
  <2>2. \A d \in Clients : seen'[d] = [t \in Topics |-> seen'[d][t]]
    BY <1>2 DEF HubNumbers
  <2>3. \A d \in Clients, t \in Topics : seen'[d][t] \in Int
    BY <1>2 DEF HubNumbers, Unseen
  <2> QED BY <1>2, <2>1, <2>2, <2>3 DEF HubNumbers
<1>5. MessagesOK'
  BY <1>2 DEF MessagesOK
<1>6. Registered'
  BY <1>1, <1>2 DEF Registered, Member
<1>7. Informed'
  BY <1>2 DEF Informed, Told, OnWay
<1> QED BY <1>3, <1>4, <1>5, <1>6, <1>7

LEMMA ClientLeavesKeeps == ASSUME HubInv, NEW c \in Clients, ClientLeaves(c) PROVE HubInv'
<1> USE DEF HubInv
<1>1. HubShape' /\ HubNumbers'
  BY DEF ClientLeaves, HubShape, HubNumbers
<1>2. MessagesOK'
  BY DEF ClientLeaves, MessagesOK
<1>3. Registered' /\ Informed'
  BY DEF ClientLeaves, Registered, Informed, Member, Told, OnWay
<1> QED BY <1>1, <1>2, <1>3

-----------------------------------------------------------------------------
\* A broadcast begins: it leaves the others alone, and has all to reach.
LEMMA Begins ==
  ASSUME HubInv, NEW t \in Topics, NEW v \in Int, BeginsWith(t, v),
         connections' = connections, alive' = alive, seen' = seen, dropped' = dropped
  PROVE  /\ sending' = [b \in Broadcasts |-> sending'[b]]
         /\ MessagesOK'
         /\ StaysTold
         /\ \A c \in Clients : Member(connections, c) => OnWay(sending', c, t, v)
<1> USE DEF HubInv
<1>1. connections \in Seq(Clients)
  BY DEF HubShape
<1>2. CASE connections = <<>> /\ UNCHANGED sending
  <2>1. StaysTold
    BY <1>2 DEF StaysTold
  <2>2. \A c \in Clients : ~Member(connections, c)
    BY <1>2 DEF Member
  <2>3. MessagesOK'
    BY <1>2 DEF MessagesOK
  <2> QED BY <1>2, <2>1, <2>2, <2>3 DEF HubShape
<1>3. CASE connections # <<>>
  <2>1. PICK b \in Broadcasts :
          /\ sending[b] = NoBroadcast
          /\ sending' = [sending EXCEPT ![b] =
               [topic |-> t, version |-> v, copy |-> connections, at |-> 1, failed |-> {}]]
    BY <1>3 DEF BeginsWith
  <2>2. /\ sending'[b] = [topic |-> t, version |-> v, copy |-> connections, at |-> 1,
                          failed |-> {}]
        /\ \A a \in Broadcasts \ {b} : sending'[a] = sending[a]
        /\ sending' = [a \in Broadcasts |-> sending'[a]]
    BY <2>1 DEF HubShape
  <2>3. MessagesOK'
    BY <1>1, <2>2 DEF MessagesOK
  <2>4. \A c \in Clients : Member(connections, c) => OnWay(sending', c, t, v)
    BY <2>2 DEF Member, OnWay
  <2>5. StaysTold
    <3> SUFFICES ASSUME NEW c \in alive' \ dropped', NEW u \in Topics, NEW w \in Int,
                        OnWay(sending, c, u, w)
                 PROVE  OnWay(sending', c, u, w)
      BY DEF StaysTold, Told
    <3>1. PICK a \in Broadcasts :
            /\ sending[a].topic = u /\ sending[a].version >= w
            /\ \E i \in sending[a].at .. Len(sending[a].copy) : sending[a].copy[i] = c
      BY DEF OnWay
    <3>2. a # b
      BY <2>1, <3>1 DEF NoBroadcast, NoTopic, Topics
    <3> QED BY <2>2, <3>1, <3>2 DEF OnWay
  <2> QED BY <2>2, <2>3, <2>4, <2>5
<1> QED BY <1>2, <1>3 DEF BeginsWith

LEMMA FusionChangesKeeps == ASSUME HubInv, FusionChanges PROVE HubInv'
<1> USE DEF HubInv
<1>1. /\ "row" \in Topics /\ "fusion" \in Topics /\ announced \in Int
      /\ current["fusion"] + 1 \in Int
  BY DEF HubNumbers, Topics
<1>2. /\ BeginsWith("fusion", current["fusion"] + 1)
      /\ current' = [t \in Topics |-> current'[t]]
      /\ current'["fusion"] = current["fusion"] + 1 /\ current'["row"] = current["row"]
      /\ UNCHANGED <<connections, phase, alive, readRow, announced, seen, dropped>>
  BY <1>1 DEF FusionChanges, HubShape
<1>3. /\ sending' = [b \in Broadcasts |-> sending'[b]] /\ MessagesOK' /\ StaysTold
      /\ \A c \in Clients : Member(connections, c) =>
           OnWay(sending', c, "fusion", current["fusion"] + 1)
  BY <1>1, <1>2, Begins
<1>4. HubShape' /\ HubNumbers' /\ Registered'
  <2>1. HubShape'
    BY <1>2, <1>3 DEF HubShape
  <2>2. HubNumbers'
    BY <1>1, <1>2 DEF HubNumbers, Topics
  <2>3. Registered'
    BY <1>2 DEF Registered, Member
  <2> QED BY <2>1, <2>2, <2>3
<1>5. Informed'
  <2>1. ASSUME NEW c \in alive \ dropped, phase[c] = "open"
        PROVE  Told(seen', sending', c, "fusion", current'["fusion"])
    BY <1>2, <1>3, <2>1 DEF HubShape, Registered, Told
  <2> QED BY <1>1, <1>2, <1>3, <2>1 DEF StaysTold, Informed
<1> QED BY <1>3, <1>4, <1>5

LEMMA RowCommittedKeeps == ASSUME HubInv, RowCommitted PROVE HubInv'
<1> USE DEF HubInv
<1>1. /\ current' = [t \in Topics |-> current'[t]]
      /\ current'["row"] = current["row"] + 1 /\ current'["fusion"] = current["fusion"]
      /\ UNCHANGED <<connections, phase, alive, readRow, announced, sending, seen, dropped>>
  BY DEF RowCommitted, HubShape, Topics
<1>2. HubShape' /\ HubNumbers' /\ MessagesOK' /\ Registered'
  <2>1. HubShape'
    BY <1>1 DEF HubShape
  <2>2. HubNumbers'
    BY <1>1 DEF HubNumbers, Topics
  <2>3. MessagesOK' /\ Registered'
    BY <1>1 DEF MessagesOK, Registered, Member
  <2> QED BY <2>1, <2>2, <2>3
<1>3. Informed'
  BY <1>1 DEF Informed, Told, OnWay
<1> QED BY <1>2, <1>3

LEMMA RowAnnouncedKeeps == ASSUME HubInv, RowAnnounced PROVE HubInv'
<1> USE DEF HubInv
<1>1. /\ "row" \in Topics /\ "fusion" \in Topics /\ announced + 1 \in Int
      /\ current["fusion"] \in Int
  BY DEF HubNumbers, Topics
<1>2. /\ BeginsWith("row", announced + 1) /\ announced' = announced + 1
      /\ announced < current["row"]
      /\ UNCHANGED <<connections, phase, alive, readRow, current, seen, dropped>>
  BY DEF RowAnnounced
<1>3. /\ sending' = [b \in Broadcasts |-> sending'[b]] /\ MessagesOK' /\ StaysTold
      /\ \A c \in Clients : Member(connections, c) => OnWay(sending', c, "row", announced + 1)
  BY <1>1, <1>2, Begins
<1>4. HubShape' /\ HubNumbers' /\ Registered'
  <2>1. HubShape'
    BY <1>2, <1>3 DEF HubShape
  <2>2. HubNumbers'
    BY <1>1, <1>2 DEF HubNumbers
  <2>3. Registered'
    BY <1>2 DEF Registered, Member
  <2> QED BY <2>1, <2>2, <2>3
<1>5. Informed'
  <2>1. ASSUME NEW c \in alive \ dropped, phase[c] # "new"
        PROVE  Told(seen', sending', c, "row", announced')
    BY <1>2, <1>3, <2>1 DEF HubShape, Registered, Told
  <2> QED BY <1>1, <1>2, <1>3, <2>1 DEF StaysTold, Informed
<1> QED BY <1>3, <1>4, <1>5

LEMMA SendNextKeeps == ASSUME HubInv, NEW b \in Broadcasts, SendNext(b) PROVE HubInv'
<1> USE DEF HubInv
<1> DEFINE m == sending[b]
           c == m.copy[m.at]
<1>1. /\ m # NoBroadcast /\ m.at \in 1 .. Len(m.copy) /\ m.copy \in Seq(Clients)
      /\ m.version \in Int /\ m.failed \cap alive \subseteq dropped /\ m.topic \in Topics
      /\ UNCHANGED <<connections, phase, alive, readRow, current, announced>>
  BY DEF SendNext, Listed, MessagesOK
<1>2. c \in Clients
  BY <1>1
<1>3. PICK failed \in SUBSET {c} :
        /\ sending' = [sending EXCEPT ![b] = Further(m, failed)]
        /\ failed \cap alive \subseteq dropped'
        /\ dropped \subseteq dropped' /\ dropped' \subseteq alive
        /\ c \in alive \ dropped' => Sent(c, m.topic, m.version)
        /\ seen' = seen \/ Sent(c, m.topic, m.version)
  <2>1. CASE dropped' = dropped /\ c \in alive /\ Sent(c, m.topic, m.version)
             /\ sending' = [sending EXCEPT ![b] = Further(m, {})]
    BY <2>1 DEF HubShape
  <2>2. CASE dropped' = dropped \cup ({c} \cap alive) /\ seen' = seen
             /\ sending' = [sending EXCEPT ![b] = Further(m, {c})]
    BY <2>2 DEF HubShape
  <2> QED BY <2>1, <2>2 DEF SendNext, Listed
<1>4. /\ sending'[b] = [topic |-> m.topic, version |-> m.version, copy |-> m.copy,
                        at |-> m.at + 1, failed |-> m.failed \cup failed]
      /\ \A a \in Broadcasts \ {b} : sending'[a] = sending[a]
      /\ sending' = [a \in Broadcasts |-> sending'[a]]
  BY <1>3 DEF HubShape, Further
<1>5. MessagesOK'
  BY <1>1, <1>3, <1>4 DEF MessagesOK
<1>6. /\ seen' = [d \in Clients |-> seen'[d]]
      /\ \A d \in Clients : seen'[d] = [u \in Topics |-> seen'[d][u]]
      /\ \A d \in Clients, u \in Topics : seen'[d][u] \in Int /\ seen'[d][u] >= seen[d][u]
      /\ c \in alive \ dropped' => seen'[c][m.topic] >= m.version
  <2>1. CASE Sent(c, m.topic, m.version)
    BY <1>1, <1>2, <2>1, SentKeeps
  <2>2. CASE seen' = seen /\ c \notin alive \ dropped'
    BY <2>2 DEF HubShape, HubNumbers
  <2> QED BY <1>3, <2>1, <2>2
<1>7. HubShape' /\ HubNumbers' /\ Registered'
  <2>1. HubShape'
    BY <1>1, <1>3, <1>4, <1>6 DEF HubShape
  <2>2. HubNumbers'
    BY <1>1, <1>6 DEF HubNumbers
  <2>3. Registered'
    BY <1>1, <1>3 DEF Registered, Member
  <2> QED BY <2>1, <2>2, <2>3
<1>8. StaysTold
  <2> SUFFICES ASSUME NEW d \in alive' \ dropped', NEW t \in Topics, NEW v \in Int,
                      Told(seen, sending, d, t, v)
               PROVE  Told(seen', sending', d, t, v)
    BY DEF StaysTold
  <2>1. d \in Clients /\ d \in alive \ dropped'
    BY <1>1 DEF HubShape
  <2>2. CASE seen[d][t] >= v
    <3>1. seen[d][t] \in Int
      BY <2>1 DEF HubNumbers
    <3> QED BY <1>6, <2>1, <2>2, <3>1 DEF Told
  <2>3. CASE OnWay(sending, d, t, v)
    <3>0. PICK a \in Broadcasts :
            /\ sending[a].topic = t /\ sending[a].version >= v
            /\ \E i \in sending[a].at .. Len(sending[a].copy) : sending[a].copy[i] = d
      BY <2>3 DEF OnWay
    <3>1. PICK i \in sending[a].at .. Len(sending[a].copy) :
            /\ sending[a].topic = t /\ sending[a].version >= v
            /\ sending[a].copy[i] = d
      BY <3>0
    <3>2. CASE a # b
      BY <1>4, <3>1, <3>2 DEF OnWay, Told
    <3>3. CASE a = b /\ i = m.at
      <4>1. seen'[d][t] >= m.version
        BY <1>6, <2>1, <3>1, <3>3
      <4>2. seen'[d][t] \in Int
        BY <1>6, <2>1
      <4> QED BY <1>1, <3>1, <3>3, <4>1, <4>2 DEF Told
    <3>4. CASE a = b /\ i # m.at
      <4>1. i \in m.at + 1 .. Len(m.copy)
        BY <1>1, <3>1, <3>4
      <4> QED BY <1>4, <3>1, <3>4, <4>1 DEF OnWay, Told
    <3> QED BY <3>2, <3>3, <3>4
  <2> QED BY <2>2, <2>3 DEF Told
<1>9. Informed'
  <2>1. /\ "row" \in Topics /\ "fusion" \in Topics /\ announced \in Int
        /\ current["fusion"] \in Int
    BY DEF HubNumbers, Topics
  <2> QED BY <1>1, <1>3, <1>8, <2>1 DEF StaysTold, Informed
<1> QED BY <1>5, <1>7, <1>9

LEMMA BroadcastEndsKeeps == ASSUME HubInv, NEW b \in Broadcasts, BroadcastEnds(b) PROVE HubInv'
<1> USE DEF HubInv
<1>1. /\ sending[b].at > Len(sending[b].copy) /\ Unregister(sending[b].failed)
      /\ sending'[b] = NoBroadcast /\ \A a \in Broadcasts \ {b} : sending'[a] = sending[a]
      /\ sending' = [a \in Broadcasts |-> sending'[a]]
      /\ UNCHANGED <<phase, alive, readRow, current, announced, seen, dropped>>
  BY DEF BroadcastEnds, Listed, HubShape
<1>2. /\ connections' \in Seq(Clients)
      /\ \A c \in Clients \ sending[b].failed :
           Member(connections, c) => Member(connections', c)
  BY <1>1, Unregisters
<1>3. sending[b].failed \cap alive \subseteq dropped
  BY DEF MessagesOK
<1>4. HubShape' /\ HubNumbers'
  BY <1>1, <1>2 DEF HubShape, HubNumbers
<1>5. MessagesOK'
  <2>1. ASSUME NEW a \in Broadcasts \ {b}
        PROVE  /\ sending[a] = sending'[a] /\ alive' = alive /\ dropped' = dropped
    BY <1>1
  <2> QED BY <1>1, <2>1, NoBroadcastFields DEF MessagesOK
<1>6. Registered'
  BY <1>1, <1>2, <1>3 DEF HubShape, Registered, Member
<1>7. StaysTold
  <2> SUFFICES ASSUME NEW c \in alive' \ dropped', NEW t \in Topics, NEW v \in Int,
                      OnWay(sending, c, t, v)
               PROVE  OnWay(sending', c, t, v)
    BY <1>1 DEF StaysTold, Told
  <2>1. PICK a \in Broadcasts :
          /\ sending[a].topic = t /\ sending[a].version >= v
          /\ \E i \in sending[a].at .. Len(sending[a].copy) : sending[a].copy[i] = c
    BY DEF OnWay
  <2>2. sending[b].at \in Nat /\ Len(sending[b].copy) \in Nat
    BY DEF MessagesOK
  <2>3. a # b
    BY <1>1, <2>1, <2>2
  <2> QED BY <1>1, <2>1, <2>3 DEF OnWay
<1>8. Informed'
  <2>1. /\ "row" \in Topics /\ "fusion" \in Topics /\ announced \in Int
        /\ current["fusion"] \in Int
    BY DEF HubNumbers, Topics
  <2> QED BY <1>1, <1>7, <2>1 DEF StaysTold, Informed
<1> QED BY <1>4, <1>5, <1>6, <1>8

-----------------------------------------------------------------------------
LEMMA StepHub == HubInv /\ [HubNext]_hubVars => HubInv'
<1> SUFFICES ASSUME HubInv, [HubNext]_hubVars PROVE HubInv'
  OBVIOUS
<1>1. CASE UNCHANGED hubVars
  <2>1. HubShape' /\ HubNumbers'
    BY <1>1 DEF hubVars, HubInv, HubShape, HubNumbers
  <2>2. MessagesOK' /\ Registered'
    BY <1>1 DEF hubVars, HubInv, MessagesOK, Registered, Member
  <2>3. Informed'
    BY <1>1 DEF hubVars, HubInv, Informed, Told, OnWay
  <2> QED BY <2>1, <2>2, <2>3 DEF HubInv
<1> QED BY <1>1, ConnectKeeps, ReadInitialKeeps, SendInitialKeeps, SendFusionStateKeeps,
           EndpointEndsKeeps, ClientLeavesKeeps, FusionChangesKeeps, RowCommittedKeeps,
           RowAnnouncedKeeps, SendNextKeeps, BroadcastEndsKeeps DEF HubNext

LEMMA InvHub == HubInv => ClientsAreCurrent
  BY DEF HubInv, HubShape, Informed, Told, OnWay, OnItsWay, ClientsAreCurrent

\* A client with its initial data has been sent the newest fusion state and the
\* newest announced row, or is in a broadcast that has yet to reach it
\* (ws_manager.py, websocket.py).
THEOREM NobodyIsLeftBehind == HubSpec => []ClientsAreCurrent
<1>1. HubSpec => []HubInv
  BY InitHub, StepHub, PTL DEF HubSpec
<1> QED BY <1>1, InvHub, PTL

-----------------------------------------------------------------------------
(***************************************************************************)
(* Types. A socket is registered once because only one that has never been  *)
(* registered is accepted, and because what unregistering keeps stays in    *)
(* its order.                                                              *)
(***************************************************************************)

\* A socket that has not been accepted is not registered.
Unregistered == \A c \in Clients : phase[c] = "new" => ~Member(connections, c)

HubTyped == HubTypeOK /\ Unregistered

Marks == Versions \cup {Unseen}

LEMMA VersionNumbers ==
  /\ \A v \in Versions : v \in Int /\ 0 <= v /\ v <= MaxVersion
  /\ \A v \in Int : 0 <= v /\ v <= MaxVersion => v \in Versions
  /\ 0 \in Versions /\ MaxVersion \in Nat
  BY HubAssumption DEF Versions

LEMMA InitHubTyped == HubInit => HubTyped
<1> SUFFICES ASSUME HubInit PROVE HubTyped
  OBVIOUS
<1>1. 0 \in Versions /\ 0 \in Int
  BY VersionNumbers
<1>2. <<>> \in Seq(Clients) /\ DOMAIN <<>> = {} /\ Len(<<>>) = 0
  OBVIOUS
<1>3. /\ phase \in [Clients -> {"new", "reading", "read", "fusion", "open", "closed"}]
      /\ readRow \in [Clients -> Versions] /\ current \in [Topics -> Versions]
      /\ alive \subseteq Clients /\ dropped \subseteq alive
  BY <1>1 DEF HubInit
<1>4. announced \in 0 .. current["row"]
  BY DEF HubInit, Topics
<1>5. \A b \in Broadcasts : sending[b] = NoBroadcast
  BY DEF HubInit
<1>6. /\ NoBroadcast.topic \in Topics \cup {NoTopic} /\ NoBroadcast.version \in Versions
      /\ NoBroadcast.copy \in Seq(Clients) /\ NoBroadcast.at \in Nat
      /\ NoBroadcast.failed \subseteq Clients
  BY <1>1, <1>2 DEF NoBroadcast
<1>7. seen \in [Clients -> [Topics -> Marks]]
  BY DEF HubInit, Marks
<1>8. /\ connections \in Seq(Clients) /\ Unregistered
      /\ \A i, j \in DOMAIN connections : i # j => connections[i] # connections[j]
  BY <1>2 DEF HubInit, Unregistered, Member
<1> QED BY <1>3, <1>4, <1>5, <1>6, <1>7, <1>8 DEF HubTyped, HubTypeOK, Marks

\* Who is left is in its order, each once.
LEMMA UnregistersTyped ==
  ASSUME HubTyped, NEW gone, Unregister(gone)
  PROVE  /\ connections' \in Seq(Clients)
         /\ \A i, j \in DOMAIN connections' : i # j => connections'[i] # connections'[j]
         /\ \A c : Member(connections', c) => Member(connections, c)
<1> DEFINE kept == {i \in DOMAIN connections : connections[i] \notin gone}
<1>1. PICK n \in 0 .. Len(connections) : \E place \in [1 .. n -> kept] :
        /\ \A i, j \in 1 .. n : i < j => place[i] < place[j]
        /\ connections' = [i \in 1 .. n |-> connections[place[i]]]
  BY Zenon DEF Unregister
<1>2. PICK place \in [1 .. n -> kept] :
        /\ \A i, j \in 1 .. n : i < j => place[i] < place[j]
        /\ connections' = [i \in 1 .. n |-> connections[place[i]]]
  BY Zenon, <1>1
<1>3. /\ connections \in Seq(Clients) /\ n \in Nat
      /\ \A i, j \in DOMAIN connections : i # j => connections[i] # connections[j]
  BY DEF HubTyped, HubTypeOK
<1>4. \A i \in 1 .. n : /\ place[i] \in kept /\ place[i] \in 1 .. Len(connections)
                        /\ connections[place[i]] \in Clients
  BY <1>3
<1>5. connections' \in Seq(Clients) /\ Len(connections') = n /\ DOMAIN connections' = 1 .. n
  BY <1>2, <1>3, <1>4
<1>6. ASSUME NEW i \in 1 .. n, NEW j \in 1 .. n, i # j
      PROVE  connections'[i] # connections'[j]
  <2>1. place[i] # place[j]
    <3>1. CASE i < j
      <4>1. place[i] < place[j]
        BY <1>2, <3>1
      <4> QED BY <1>4, <4>1
    <3>2. CASE j < i
      <4>1. place[j] < place[i]
        BY <1>2, <3>2
      <4> QED BY <1>4, <4>1
    <3> QED BY <1>6, <3>1, <3>2
  <2>2. place[i] \in DOMAIN connections /\ place[j] \in DOMAIN connections
    BY <1>4
  <2>3. connections'[i] = connections[place[i]] /\ connections'[j] = connections[place[j]]
    BY <1>2
  <2> QED BY <1>3, <2>1, <2>2, <2>3
<1>7. ASSUME NEW c, Member(connections', c) PROVE Member(connections, c)
  <2>1. PICK i \in 1 .. n : connections'[i] = c
    BY <1>5, <1>7 DEF Member
  <2> QED BY <1>2, <1>4, <2>1 DEF Member
<1> QED BY <1>5, <1>6, <1>7

LEMMA SentTyped ==
  ASSUME HubTyped, NEW c \in Clients, NEW t \in Topics, NEW v \in Versions, Sent(c, t, v)
  PROVE  seen' \in [Clients -> [Topics -> Versions \cup {Unseen}]]
<1>1. seen \in [Clients -> [Topics -> Marks]] /\ v \in Marks
  BY DEF HubTyped, HubTypeOK, Marks
<1> DEFINE mark == IF v > seen[c][t] THEN v ELSE seen[c][t]
<1>2. seen' = [seen EXCEPT ![c] = [seen[c] EXCEPT ![t] = mark]]
  BY DEF Sent
<1>3. mark \in Marks
  BY <1>1
<1> HIDE DEF mark
<1>4. [seen[c] EXCEPT ![t] = mark] \in [Topics -> Marks]
  BY <1>1, <1>3
<1>5. seen' \in [Clients -> [Topics -> Marks]]
  BY <1>1, <1>2, <1>4
<1> QED BY <1>5 DEF Marks

-----------------------------------------------------------------------------
LEMMA ClientTyped ==
  ASSUME HubTyped, NEW c \in Clients,
         Connect(c) \/ ReadInitial(c) \/ SendInitial(c) \/ SendFusionState(c)
           \/ EndpointEnds(c) \/ ClientLeaves(c)
  PROVE  HubTyped'
<1>1. /\ current \in [Topics -> Versions] /\ "row" \in Topics /\ "fusion" \in Topics
      /\ 0 \in Versions /\ connections \in Seq(Clients) /\ readRow \in [Clients -> Versions]
      /\ phase \in [Clients -> {"new", "reading", "read", "fusion", "open", "closed"}]
      /\ seen \in [Clients -> [Topics -> Versions \cup {Unseen}]]
      /\ \A i, j \in DOMAIN connections : i # j => connections[i] # connections[j]
  BY VersionNumbers DEF HubTyped, HubTypeOK, Topics
<1>2. /\ phase' \in [Clients -> {"new", "reading", "read", "fusion", "open", "closed"}]
      /\ \A d \in Clients : phase'[d] = "new" => phase[d] = "new"
      /\ ~ClientLeaves(c) => phase'[c] # "new"
  BY <1>1 DEF Connect, ReadInitial, SendInitial, SendFusionState, EndpointEnds, ClientLeaves
<1>3. readRow' \in [Clients -> Versions]
  BY <1>1 DEF Connect, ReadInitial, SendInitial, SendFusionState, EndpointEnds, ClientLeaves
<1>4. alive' \subseteq Clients /\ dropped' \subseteq alive' /\ UNCHANGED <<current, announced, sending>>
  BY DEF Connect, ReadInitial, SendInitial, SendFusionState, EndpointEnds, ClientLeaves,
         HubTyped, HubTypeOK
<1>5. seen' \in [Clients -> [Topics -> Versions \cup {Unseen}]]
  <2>1. CASE SendInitial(c)
    BY <1>1, <2>1, SentTyped DEF SendInitial
  <2>2. CASE SendFusionState(c)
    BY <1>1, <2>2, SentTyped DEF SendFusionState
  <2>3. CASE EndpointEnds(c)
    <3>1. [t \in Topics |-> Unseen] \in [Topics -> Versions \cup {Unseen}]
      OBVIOUS
    <3> QED BY <1>1, <2>3, <3>1 DEF EndpointEnds
  <2>4. CASE Connect(c) \/ ReadInitial(c) \/ ClientLeaves(c)
    BY <1>1, <2>4 DEF Connect, ReadInitial, ClientLeaves
  <2> QED BY <2>1, <2>2, <2>3, <2>4
<1>6. /\ connections' \in Seq(Clients) /\ Unregistered'
      /\ \A i, j \in DOMAIN connections' : i # j => connections'[i] # connections'[j]
  <2>1. CASE Connect(c)
    <3>1. connections' = Append(connections, c) /\ ~Member(connections, c)
      BY <2>1 DEF Connect, HubTyped, Unregistered
    <3>2. /\ connections' \in Seq(Clients) /\ Len(connections) \in Nat
          /\ DOMAIN connections = 1 .. Len(connections)
          /\ DOMAIN connections' = 1 .. Len(connections) + 1
          /\ Len(connections') = Len(connections) + 1
          /\ \A i \in 1 .. Len(connections) : connections'[i] = connections[i]
          /\ connections'[Len(connections) + 1] = c
      BY <1>1, <3>1
    <3>3. \A i \in 1 .. Len(connections) : connections[i] # c
      BY <3>1 DEF Member
    <3>4. ASSUME NEW i \in DOMAIN connections', NEW j \in DOMAIN connections', i # j
          PROVE  connections'[i] # connections'[j]
      <4>1. CASE i \in 1 .. Len(connections) /\ j \in 1 .. Len(connections)
        BY <1>1, <3>2, <3>4, <4>1
      <4>2. CASE i = Len(connections) + 1
        <5>1. j \in 1 .. Len(connections)
          BY <3>2, <3>4, <4>2
        <5> QED BY <3>2, <3>3, <4>2, <5>1
      <4>3. CASE j = Len(connections) + 1
        <5>1. i \in 1 .. Len(connections)
          BY <3>2, <3>4, <4>3
        <5> QED BY <3>2, <3>3, <4>3, <5>1
      <4>4. \A k \in DOMAIN connections' : k \in 1 .. Len(connections) \/ k = Len(connections) + 1
        BY <3>2
      <4> QED BY <4>1, <4>2, <4>3, <4>4
    <3>5. \A d : Member(connections', d) => Member(connections, d) \/ d = c
      BY <3>2 DEF Member
    <3>6. Unregistered'
      BY <1>2, <2>1, <3>5 DEF Unregistered, HubTyped, Connect, ClientLeaves
    <3> QED BY <3>2, <3>4, <3>6
  <2>2. CASE EndpointEnds(c)
    <3>1. Unregister({c})
      BY <2>2 DEF EndpointEnds
    <3> QED BY <1>2, <3>1, UnregistersTyped DEF Unregistered, HubTyped
  <2>3. CASE ReadInitial(c) \/ SendInitial(c) \/ SendFusionState(c) \/ ClientLeaves(c)
    <3>1. connections' = connections
      BY <2>3 DEF ReadInitial, SendInitial, SendFusionState, ClientLeaves
    <3> QED BY <1>1, <1>2, <3>1 DEF Unregistered, HubTyped, Member
  <2> QED BY <2>1, <2>2, <2>3
<1> QED BY <1>2, <1>3, <1>4, <1>5, <1>6 DEF HubTyped, HubTypeOK

LEMMA BeginsTyped ==
  ASSUME HubTyped, HubShape, NEW t \in Topics, NEW v \in Versions, BeginsWith(t, v)
  PROVE  \A b \in Broadcasts :
           /\ sending'[b].topic \in Topics \cup {NoTopic}
           /\ sending'[b].version \in Versions
           /\ sending'[b].copy \in Seq(Clients)
           /\ sending'[b].at \in Nat
           /\ sending'[b].failed \subseteq Clients
<1>1. CASE UNCHANGED sending
  BY <1>1 DEF HubTyped, HubTypeOK
<1>2. ASSUME NEW b \in Broadcasts,
             sending' = [sending EXCEPT ![b] =
               [topic |-> t, version |-> v, copy |-> connections, at |-> 1, failed |-> {}]]
      PROVE  \A a \in Broadcasts : a # b => sending'[a] = sending[a]
  BY <1>2 DEF HubShape
<1>3. ASSUME NEW b \in Broadcasts,
             sending' = [sending EXCEPT ![b] =
               [topic |-> t, version |-> v, copy |-> connections, at |-> 1, failed |-> {}]]
      PROVE  sending'[b] = [topic |-> t, version |-> v, copy |-> connections, at |-> 1,
                            failed |-> {}]
  BY <1>3 DEF HubShape
<1>4. connections \in Seq(Clients)
  BY DEF HubShape
<1>5. CASE ~UNCHANGED sending
  <2>1. PICK b \in Broadcasts :
             sending' = [sending EXCEPT ![b] =
               [topic |-> t, version |-> v, copy |-> connections, at |-> 1, failed |-> {}]]
    BY <1>5 DEF BeginsWith
  <2>2. \A a \in Broadcasts : a # b => sending'[a] = sending[a]
    BY <1>2, <2>1
  <2>3. sending'[b] = [topic |-> t, version |-> v, copy |-> connections, at |-> 1, failed |-> {}]
    BY <1>3, <2>1
  <2> QED BY <1>4, <2>2, <2>3 DEF HubTyped, HubTypeOK
<1> QED BY <1>1, <1>5

LEMMA ServicesTyped ==
  ASSUME HubTyped, HubShape, FusionChanges \/ RowCommitted \/ RowAnnounced
  PROVE  HubTyped'
<1>1. /\ current \in [Topics -> Versions] /\ "row" \in Topics /\ "fusion" \in Topics
      /\ \A t \in Topics : current[t] \in Int /\ 0 <= current[t] /\ current[t] <= MaxVersion
      /\ announced \in Int /\ 0 <= announced /\ announced <= current["row"] /\ MaxVersion \in Nat
  BY VersionNumbers DEF HubTyped, HubTypeOK, Topics
<1>2. UNCHANGED <<connections, phase, alive, readRow, seen, dropped>>
  BY DEF FusionChanges, RowCommitted, RowAnnounced
<1>3. CASE FusionChanges
  <2>1. current["fusion"] + 1 \in Versions
    BY <1>1, <1>3, VersionNumbers DEF FusionChanges
  <2>2. current' \in [Topics -> Versions] /\ current'["row"] = current["row"]
    BY <1>1, <1>3, <2>1 DEF FusionChanges
  <2>3. announced' \in 0 .. current'["row"]
    BY <1>1, <1>3, <2>2 DEF FusionChanges
  <2>4. BeginsWith("fusion", current["fusion"] + 1)
    BY <1>3 DEF FusionChanges
  <2> QED BY <1>1, <1>2, <2>1, <2>2, <2>3, <2>4, BeginsTyped
          DEF HubTyped, HubTypeOK, Unregistered, Member
<1>4. CASE RowCommitted
  <2>1. current["row"] + 1 \in Versions
    BY <1>1, <1>4, VersionNumbers DEF RowCommitted
  <2>2. current' \in [Topics -> Versions] /\ current'["row"] = current["row"] + 1
    BY <1>1, <1>4, <2>1 DEF RowCommitted
  <2>3. announced' \in 0 .. current'["row"]
    BY <1>1, <1>4, <2>2 DEF RowCommitted
  <2> QED BY <1>2, <1>4, <2>2, <2>3 DEF RowCommitted, HubTyped, HubTypeOK, Unregistered, Member
<1>5. CASE RowAnnounced
  <2>1. announced + 1 \in Versions
    BY <1>1, <1>5, VersionNumbers DEF RowAnnounced
  <2>2. announced' \in 0 .. current'["row"] /\ current' = current
    BY <1>1, <1>5 DEF RowAnnounced
  <2>3. BeginsWith("row", announced + 1)
    BY <1>5 DEF RowAnnounced
  <2> QED BY <1>1, <1>2, <2>1, <2>2, <2>3, BeginsTyped
          DEF HubTyped, HubTypeOK, Unregistered, Member
<1> QED BY <1>3, <1>4, <1>5

LEMMA BroadcastTyped ==
  ASSUME HubTyped, HubInv, NEW b \in Broadcasts, SendNext(b) \/ BroadcastEnds(b)
  PROVE  HubTyped'
<1> DEFINE m == sending[b]
<1>1. /\ m.topic \in Topics /\ m.version \in Versions /\ m.copy \in Seq(Clients) /\ m.at \in Nat
      /\ m.at \in Nat \ {0} /\ m.failed \subseteq Clients
      /\ dropped' \subseteq alive'
      /\ UNCHANGED <<phase, alive, readRow, current, announced>>
  BY DEF SendNext, BroadcastEnds, HubTyped, HubTypeOK, HubInv, MessagesOK
<1>2. CASE SendNext(b)
  <2> DEFINE c == m.copy[m.at]
  <2>1. c \in Clients
    BY <1>1, <1>2 DEF SendNext, Listed
  <2>2. /\ sending' = [sending EXCEPT ![b] = Further(m, {})]
             \/ sending' = [sending EXCEPT ![b] = Further(m, {c})]
        /\ Sent(c, m.topic, m.version) \/ seen' = seen
        /\ connections' = connections
    BY <1>2 DEF SendNext, Listed
  <2>3. seen' \in [Clients -> [Topics -> Versions \cup {Unseen}]]
    BY <1>1, <2>1, <2>2, SentTyped DEF HubTyped, HubTypeOK
  <2>4. /\ \A a \in Broadcasts \ {b} : sending'[a] = sending[a]
        /\ sending'[b].topic = m.topic /\ sending'[b].version = m.version
        /\ sending'[b].copy = m.copy /\ sending'[b].at = m.at + 1
        /\ sending'[b].failed \subseteq m.failed \cup {c}
    BY <2>2 DEF HubInv, HubShape, Further
  <2>5. /\ sending'[b].topic \in Topics \cup {NoTopic} /\ sending'[b].version \in Versions
        /\ sending'[b].copy \in Seq(Clients) /\ sending'[b].at \in Nat
        /\ sending'[b].failed \subseteq Clients
    BY <1>1, <2>1, <2>4
  <2>6. \A a \in Broadcasts :
           /\ sending'[a].topic \in Topics \cup {NoTopic}
           /\ sending'[a].version \in Versions
           /\ sending'[a].copy \in Seq(Clients)
           /\ sending'[a].at \in Nat
           /\ sending'[a].failed \subseteq Clients
    BY <2>4, <2>5 DEF HubTyped, HubTypeOK
  <2> QED BY <1>1, <2>2, <2>3, <2>6 DEF HubTyped, HubTypeOK, Unregistered, Member
<1>3. CASE BroadcastEnds(b)
  <2>1. Unregister(m.failed) /\ seen' = seen
    BY <1>3 DEF BroadcastEnds
  <2>2. \A a \in Broadcasts : sending'[a] = sending[a] \/ sending'[a] = NoBroadcast
    BY <1>3 DEF BroadcastEnds, HubInv, HubShape
  <2>3. /\ NoBroadcast.topic \in Topics \cup {NoTopic} /\ NoBroadcast.version \in Versions
        /\ NoBroadcast.copy \in Seq(Clients) /\ NoBroadcast.at \in Nat
        /\ NoBroadcast.failed \subseteq Clients
    <3>1. NoBroadcast.version = 0
      BY DEF NoBroadcast
    <3> QED BY <3>1, NoBroadcastFields, VersionNumbers
  <2>4. \A a \in Broadcasts :
           /\ sending'[a].topic \in Topics \cup {NoTopic}
           /\ sending'[a].version \in Versions
           /\ sending'[a].copy \in Seq(Clients)
           /\ sending'[a].at \in Nat
           /\ sending'[a].failed \subseteq Clients
    BY <2>2, <2>3 DEF HubTyped, HubTypeOK
  <2>5. /\ connections' \in Seq(Clients) /\ Unregistered'
        /\ \A i, j \in DOMAIN connections' : i # j => connections'[i] # connections'[j]
    BY <1>1, <2>1, UnregistersTyped DEF HubTyped, Unregistered
  <2> QED BY <1>1, <2>1, <2>4, <2>5 DEF HubTyped, HubTypeOK
<1> QED BY <1>2, <1>3

LEMMA StepHubTyped == HubInv /\ HubTyped /\ [HubNext]_hubVars => HubTyped'
<1> SUFFICES ASSUME HubInv, HubTyped, [HubNext]_hubVars PROVE HubTyped'
  OBVIOUS
<1>1. CASE UNCHANGED hubVars
  BY <1>1 DEF hubVars, HubTyped, HubTypeOK, Unregistered, Member
<1> QED BY <1>1, ClientTyped, ServicesTyped, BroadcastTyped DEF HubNext, HubInv

\* The registry of ws_manager.py is a list without duplicates of sockets that
\* were accepted, and the other variables of the hub have their types.
THEOREM HubTypeCorrect == HubSpec => []HubTypeOK
<1>1. HubSpec => [](HubInv /\ HubTyped)
  BY InitHub, StepHub, InitHubTyped, StepHubTyped, PTL DEF HubSpec
<1> QED BY <1>1, PTL DEF HubTyped


-----------------------------------------------------------------------------
(***************************************************************************)
(* Naturals.                                                               *)
(* The least-number principle, for a set: the induction theorems of the    *)
(* library take an operator, its well-founded sets do not.                 *)
(***************************************************************************)

LEMMA Least ==
  ASSUME NEW S \in SUBSET Nat, S # {}
  PROVE  \E m \in S : \A k \in S : m <= k
<1> DEFINE less == {p \in Nat \X Nat : p[1] < p[2]}
<1>1. less = OpToRel(<, Nat)
  BY DEF OpToRel
<1>2. IsWellFoundedOn(less, Nat)
  BY <1>1, NatLessThanWellFounded
<1>3. \A k, m \in Nat : k < m => <<k, m>> \in less
  OBVIOUS
<1> HIDE DEF less
<1>4. PICK m \in S : \A k \in S : ~(<<k, m>> \in less)
  BY <1>2, WFMin
<1>5. m \in Nat /\ \A k \in S : k \in Nat
  OBVIOUS
<1>6. \A k \in S : ~(k < m)
  BY <1>3, <1>4, <1>5
<1> QED BY <1>5, <1>6

LEMMA Greatest ==
  ASSUME NEW S \in SUBSET Nat, S # {}, NEW bound \in Nat, \A k \in S : k <= bound
  PROVE  \E m \in S : \A k \in S : k <= m
<1> DEFINE below == {bound - k : k \in S}
<1>0. \A k \in S : bound - k \in Nat
  OBVIOUS
<1>1. below \in SUBSET Nat /\ below # {}
  BY <1>0
<1>2. PICK n \in below : \A j \in below : n <= j
  BY <1>1, Least
<1>3. PICK m \in S : n = bound - m
  BY <1>2
<1>4. \A k \in S : bound - m <= bound - k
  BY <1>2, <1>3
<1> QED BY <1>4

-----------------------------------------------------------------------------
(***************************************************************************)
(* The cached configuration and the readings.                              *)
(***************************************************************************)

Places == {"idle", "checked", "filling", "stored", "saved", "refreshing", "done"}
InFlight == {"filling", "refreshing"}

\* The types of what the cache depends on.
CacheTypeOK ==
  /\ config \in [Devices -> Configs]
  /\ cached \in Configs \cup {Nothing}
  /\ source \in Devices
  /\ late \subseteq Requests
  /\ raced \in BOOLEAN /\ missed \in BOOLEAN
  /\ device \in [Requests -> Devices \cup {Nothing}]
  /\ step \in [Requests -> Places]
  /\ carried \in [Requests -> Configs \cup {Nothing}]

\* Readings and updates have places of their own, and an update that has begun
\* has a device.
RequestsOK ==
  /\ \A r \in Readings : step[r] \notin {"saved", "refreshing"}
  /\ \A u \in Updates :
       /\ step[u] \in {"idle", "saved", "refreshing", "done"}
       /\ step[u] \in {"saved", "refreshing"} => device[u] \in Devices

\* What a request has read and not yet stored is still in the row, unless the
\* request is known to be late.
CarriedOK ==
  \A r \in Requests :
    step[r] \in InFlight /\ r \notin late => carried[r] = config[Queried(r)]

CacheInv == CacheTypeOK /\ RequestsOK /\ CarriedOK /\ CacheFollowsSaves

-----------------------------------------------------------------------------
LEMMA InitCache == IngestInit => CacheInv
  BY IngestAssumption DEF Places, IngestInit, CacheInv, CacheTypeOK, RequestsOK, CarriedOK,
     Requests, InFlight, CacheFollowsSaves

\* The device a fill asks for is one.
LEMMA QueriedDevice ==
  ASSUME CacheInv, NEW r \in Requests, step[r] \in InFlight
  PROVE  Queried(r) \in Devices
  BY IngestAssumption DEF CacheInv, RequestsOK, CacheTypeOK, Queried, Requests, InFlight

\* A step of a reading that leaves the cache and the row alone.
LEMMA ReadingMoves ==
  ASSUME CacheInv, NEW r \in Readings, NEW place \in {"checked", "stored", "done"},
         Moves(r, place), step[r] \in {"idle", "checked", "filling", "stored"},
         late' = late \ {r} \/ late' = late,
         device' \in [Requests -> Devices \cup {Nothing}],
         carried' \in [Requests -> Configs \cup {Nothing}],
         \A q \in Requests \ {r} : carried'[q] = carried[q] /\ device'[q] = device[q],
         UNCHANGED <<config, cached, source, raced, missed>>
  PROVE  CacheInv'
<1>1. r \in Requests /\ r \notin Updates
  BY IngestAssumption DEF Requests
<1>2. /\ step' \in [Requests -> Places]
      /\ step'[r] = place
      /\ \A q \in Requests \ {r} : step'[q] = step[q]
  BY <1>1 DEF Places, Moves, CacheInv, CacheTypeOK
<1>3. CacheTypeOK'
  BY <1>2 DEF Places, CacheInv, CacheTypeOK
<1>4. RequestsOK'
  BY <1>1, <1>2 DEF CacheInv, RequestsOK, Requests
<1>5. CarriedOK'
  BY <1>1, <1>2 DEF CacheInv, CarriedOK, Queried, InFlight
<1>6. CacheFollowsSaves'
  <2>1. \A u \in Updates : step'[u] = step[u] /\ device'[u] = device[u]
    BY <1>1, <1>2 DEF Requests
  <2> QED BY <2>1 DEF CacheInv, CacheFollowsSaves, Saving
<1> QED BY <1>3, <1>4, <1>5, <1>6 DEF CacheInv

\* A request stores what it has read: the cache has the saved configuration, or
\* the request is late.
LEMMA FillKeeps ==
  ASSUME CacheInv, NEW r \in Requests, NEW place \in {"checked", "done"},
         step[r] \in InFlight, r \in Updates => place = "done",
         Fills(r), Carries(r, Nothing), Moves(r, place), UNCHANGED <<config, device>>
  PROVE  CacheInv'
<1>1. Queried(r) \in Devices
  BY QueriedDevice
<1>2. /\ step' \in [Requests -> Places]
      /\ carried' \in [Requests -> Configs \cup {Nothing}]
      /\ step'[r] = place
      /\ \A q \in Requests \ {r} : step'[q] = step[q] /\ carried'[q] = carried[q]
  BY DEF Places, Moves, Carries, CacheInv, CacheTypeOK
<1>3. CacheTypeOK'
  <2>1. missed' \in BOOLEAN
    BY Zenon DEF Fills
  <2>2. /\ config' \in [Devices -> Configs] /\ cached' \in Configs \cup {Nothing}
        /\ source' \in Devices /\ late' \subseteq Requests /\ raced' \in BOOLEAN
        /\ device' \in [Requests -> Devices \cup {Nothing}]
    BY <1>1 DEF CacheInv, CacheTypeOK, Fills, Filled
  <2> QED BY <1>2, <2>1, <2>2 DEF CacheTypeOK
<1>4. RequestsOK'
  BY <1>2 DEF CacheInv, RequestsOK, Requests
<1>5. CarriedOK'
  BY <1>2 DEF CacheInv, CarriedOK, Queried, InFlight, Fills
<1>6. CacheFollowsSaves'
  BY DEF CacheInv, CarriedOK, CacheFollowsSaves, Fills, Filled
<1> QED BY <1>3, <1>4, <1>5, <1>6 DEF CacheInv

LEMMA QueryKeeps ==
  ASSUME CacheInv, NEW r \in Requests, NEW place \in InFlight,
         r \in Readings => place = "filling",
         r \in Updates => step[r] = "saved" /\ place = "refreshing",
         step[r] \notin InFlight, Queried(r) \in Devices,
         Carries(r, config[Queried(r)]), Moves(r, place),
         UNCHANGED <<config, cached, source, late, raced, missed, device>>
  PROVE  CacheInv'
<1>1. /\ step' \in [Requests -> Places]
      /\ carried' \in [Requests -> Configs \cup {Nothing}]
      /\ step'[r] = place /\ carried'[r] = config[Queried(r)]
      /\ \A q \in Requests \ {r} : step'[q] = step[q] /\ carried'[q] = carried[q]
  BY DEF Places, Moves, Carries, CacheInv, CacheTypeOK, InFlight
<1>2. CacheTypeOK'
  BY <1>1 DEF Places, CacheInv, CacheTypeOK
<1>3. RequestsOK'
  BY <1>1 DEF CacheInv, RequestsOK, Requests, InFlight
<1>4. CarriedOK'
  BY <1>1 DEF CacheInv, CarriedOK, Queried
<1>5. CacheFollowsSaves'
  <2>1. \A u \in Updates :
          step'[u] \in {"saved", "refreshing"} <=> step[u] \in {"saved", "refreshing"}
    BY <1>1, IngestAssumption DEF Requests
  <2> QED BY <2>1 DEF CacheInv, CacheFollowsSaves, Saving
<1> QED BY <1>2, <1>3, <1>4, <1>5 DEF CacheInv

\* The save makes everybody late who has read the row and not stored it, and an
\* update is on its way until it has stored what it will read.
LEMMA SaveKeeps ==
  ASSUME CacheInv, NEW u \in Updates, NEW d \in Devices, NEW c \in Configs, SaveConfig(u, d, c)
  PROVE  CacheInv'
<1>1. u \in Requests /\ u \notin Readings
  BY IngestAssumption DEF Requests
<1>2. /\ step' \in [Requests -> Places]
      /\ device' \in [Requests -> Devices \cup {Nothing}]
      /\ config' \in [Devices -> Configs]
      /\ step'[u] = "saved" /\ device'[u] = d
      /\ \A q \in Requests \ {u} : step'[q] = step[q] /\ device'[q] = device[q]
      /\ \A e \in Devices \ {d} : config'[e] = config[e]
  BY <1>1 DEF Places, SaveConfig, Moves, CacheInv, CacheTypeOK
<1>3. CacheTypeOK'
  BY <1>2 DEF SaveConfig, CacheInv, CacheTypeOK
<1>4. RequestsOK'
  BY <1>1, <1>2 DEF CacheInv, RequestsOK, Requests
<1>5. CarriedOK'
  <2> SUFFICES ASSUME NEW r \in Requests, step'[r] \in InFlight, r \notin late'
               PROVE  carried'[r] = config'[Queried(r)']
    BY DEF CarriedOK
  <2>1. r # u
    BY <1>2 DEF InFlight
  <2>2. step[r] \in InFlight /\ r \notin late /\ Queried(r)' = Queried(r) /\ Queried(r) # d
    BY <1>2, <2>1 DEF SaveConfig, Queried, InFlight
  <2>3. Queried(r) \in Devices
    BY <2>2, QueriedDevice
  <2> QED BY <1>2, <2>2, <2>3 DEF SaveConfig, CacheInv, CarriedOK
<1>6. CacheFollowsSaves'
  <2>1. CASE source = d
    BY <1>2, <2>1 DEF SaveConfig, CacheFollowsSaves, Saving
  <2>2. CASE source # d
    <3>1. Saving(source) => Saving(source)'
      <4> SUFFICES ASSUME NEW v \in Updates, step[v] \in {"saved", "refreshing"}, device[v] = source
                   PROVE  Saving(source)'
        BY DEF Saving
      <4>1. v # u /\ v \in Requests
        BY DEF SaveConfig, Requests
      <4> QED BY <1>2, <4>1 DEF SaveConfig, Saving
    <3>2. config'[source] = config[source]
      BY <1>2, <2>2 DEF Places, CacheInv, CacheTypeOK
    <3> QED BY <3>1, <3>2 DEF SaveConfig, CacheInv, CacheFollowsSaves
  <2> QED BY <2>1, <2>2
<1> QED BY <1>3, <1>4, <1>5, <1>6 DEF CacheInv

\* An update that fails is no longer on its way; if the cache is of its device,
\* that is known.
LEMMA UpdateFailsKeeps ==
  ASSUME CacheInv, NEW u \in Updates, UpdateFails(u)
  PROVE  CacheInv'
<1>1. u \in Requests /\ u \notin Readings
  BY IngestAssumption DEF Requests
<1>2. /\ step' \in [Requests -> Places]
      /\ carried' \in [Requests -> Configs \cup {Nothing}]
      /\ step'[u] = "done"
      /\ \A q \in Requests \ {u} : step'[q] = step[q] /\ carried'[q] = carried[q]
      /\ UNCHANGED <<config, cached, source, raced, device>>
  BY <1>1 DEF Places, UpdateFails, Moves, Carries, CacheInv, CacheTypeOK
<1>3. CacheTypeOK'
  <2>1. missed' \in BOOLEAN
    BY Zenon DEF UpdateFails
  <2> QED BY <1>2, <2>1 DEF UpdateFails, CacheInv, CacheTypeOK
<1>4. RequestsOK'
  BY <1>1, <1>2 DEF CacheInv, RequestsOK, Requests
<1>5. CarriedOK'
  BY <1>2 DEF UpdateFails, CacheInv, CarriedOK, Queried, InFlight
<1>6. CacheFollowsSaves'
  <2>1. CASE device[u] = source
    <3>1. missed'
      BY Zenon, <2>1 DEF UpdateFails
    <3> QED BY <3>1 DEF CacheFollowsSaves
  <2>2. CASE device[u] # source
    <3>1. Saving(source) => Saving(source)'
      BY <1>2, <2>2 DEF Saving, Requests
    <3>2. ~missed' => ~missed
      BY Zenon DEF UpdateFails
    <3> QED BY <1>2, <3>1, <3>2 DEF CacheInv, CacheFollowsSaves
  <2> QED BY <2>1, <2>2
<1> QED BY <1>3, <1>4, <1>5, <1>6 DEF CacheInv

LEMMA IngestRestartKeeps ==
  ASSUME CacheInv, IngestRestart
  PROVE  CacheInv'
<1>1. /\ step' \in [Requests -> {"idle", "done"}]
      /\ carried' \in [Requests -> Configs \cup {Nothing}]
      /\ cached' = Nothing \/ cached' = config[First]
      /\ source' = First /\ late' = {} /\ raced' = FALSE /\ missed' = FALSE
      /\ config' = config /\ device' = device
  BY DEF Places, IngestRestart
<1>2. CacheTypeOK'
  <2>1. config[First] \in Configs
    BY IngestAssumption DEF Places, CacheInv, CacheTypeOK
  <2>2. step' \in [Requests -> Places]
    BY <1>1 DEF Places
  <2> QED BY <1>1, <2>1, <2>2, IngestAssumption DEF Places, CacheInv, CacheTypeOK
<1>3. RequestsOK' /\ CarriedOK'
  BY <1>1 DEF RequestsOK, CarriedOK, InFlight, Requests
<1>4. CacheFollowsSaves'
  BY <1>1 DEF CacheFollowsSaves
<1> QED BY <1>2, <1>3, <1>4 DEF CacheInv

LEMMA StepCache == CacheInv /\ [IngestNext]_ingestVars => CacheInv'
<1> SUFFICES ASSUME CacheInv, [IngestNext]_ingestVars PROVE CacheInv'
  OBVIOUS
<1>1. ASSUME NEW r \in Readings, NEW d \in Devices, Receive(r, d) PROVE CacheInv'
  <2>1. r \in Requests
    BY DEF Requests
  <2>2. /\ device' \in [Requests -> Devices \cup {Nothing}]
        /\ \A q \in Requests \ {r} : device'[q] = device[q]
    BY <1>1, <2>1 DEF Receive, CacheInv, CacheTypeOK
  <2> QED BY <1>1, <2>2, ReadingMoves DEF Receive, CacheInv, CacheTypeOK
<1>2. ASSUME NEW r \in Readings, QueryConfig(r) PROVE CacheInv'
  <2>1. r \in Requests /\ r \notin Updates /\ Queried(r) = First
    BY IngestAssumption DEF Requests, Queried
  <2> QED BY <1>2, <2>1, IngestAssumption, QueryKeeps DEF QueryConfig, InFlight
<1>3. ASSUME NEW r \in Readings, FillConfig(r) PROVE CacheInv'
  <2>1. r \in Requests /\ r \notin Updates
    BY IngestAssumption DEF Requests
  <2> QED BY <1>3, <2>1, FillKeeps DEF FillConfig, InFlight
<1>4. ASSUME NEW r \in Readings, StoreReading(r) \/ FuseReading(r) \/ ReadingFails(r)
      PROVE  CacheInv'
  <2>1. r \in Requests
    BY DEF Requests
  <2>2. /\ carried' \in [Requests -> Configs \cup {Nothing}]
        /\ \A q \in Requests \ {r} : carried'[q] = carried[q]
    BY <1>4, <2>1 DEF StoreReading, FuseReading, ReadingFails, Carries, CacheInv, CacheTypeOK
  <2> QED BY <1>4, <2>2, ReadingMoves
          DEF StoreReading, FuseReading, ReadingFails, CacheInv, CacheTypeOK
<1>5. ASSUME NEW u \in Updates, QuerySaved(u) PROVE CacheInv'
  <2>1. u \in Requests /\ u \notin Readings /\ Queried(u) = device[u] /\ device[u] \in Devices
    BY <1>5, IngestAssumption DEF Requests, Queried, QuerySaved, CacheInv, RequestsOK
  <2> QED BY <1>5, <2>1, QueryKeeps DEF QuerySaved, InFlight
<1>6. ASSUME NEW u \in Updates, FillSaved(u) PROVE CacheInv'
  <2>1. u \in Requests
    BY DEF Requests
  <2> QED BY <1>6, <2>1, FillKeeps DEF FillSaved, InFlight
<1>7. CASE UNCHANGED ingestVars
  BY <1>7 DEF ingestVars, CacheInv, CacheTypeOK, RequestsOK, CarriedOK, Queried,
     CacheFollowsSaves, Saving
<1> QED BY <1>1, <1>2, <1>3, <1>4, <1>5, <1>6, <1>7, SaveKeeps, UpdateFailsKeeps,
           IngestRestartKeeps DEF IngestNext

-----------------------------------------------------------------------------
\* The rows that are stored end somewhere, so that one of any of them is the newest.
Levels ==
  /\ rows \in [Readings -> Configs \cup {Nothing}]
  /\ water \in [Devices -> Waters]
  /\ \E bound \in Nat : \A q \in Stored : q <= bound

LEMMA PreviousTyped ==
  ASSUME NEW r \in Readings
  PROVE  Previous(r) \in Times
<1>1. Readings \subseteq Nat /\ r \in Nat
  BY IngestAssumption
<1>2. \A q \in Before(r) : q \in Readings /\ q \in Nat /\ q <= r
  BY <1>1 DEF Before, Stored
<1>3. CASE Before(r) = {}
  BY <1>3 DEF Previous, Times
<1>4. CASE Before(r) # {}
  <2>1. \E q \in Before(r) : \A p \in Before(r) : p <= q
    <3>1. Before(r) \in SUBSET Nat
      BY <1>2
    <3> QED BY <1>1, <1>2, <1>4, <3>1, Greatest
  <2>2. Previous(r) = CHOOSE q \in Before(r) : \A p \in Before(r) : p <= q
    BY <1>4 DEF Previous
  <2>3. Previous(r) \in Before(r)
    BY <2>1, <2>2
  <2> QED BY <1>2, <2>3 DEF Times
<1> QED BY <1>3, <1>4

LEMMA NewestTyped ==
  ASSUME Levels, NEW d, \E r \in Stored : device[r] = d
  PROVE  Newest(d) \in Readings
<1> DEFINE own == {r \in Stored : device[r] = d}
<1>1. PICK bound \in Nat : \A q \in Stored : q <= bound
  BY DEF Levels
<1>2. own \in SUBSET Readings /\ own \in SUBSET Nat /\ own # {} /\ \A q \in own : q <= bound
  BY <1>1, IngestAssumption DEF Stored
<1>3. \E m \in own : \A q \in own : q <= m
  BY <1>1, <1>2, Greatest
<1>4. \E r \in Stored : device[r] = d /\ \A q \in Stored : device[q] = d => q <= r
  BY <1>3
<1>5. Newest(d) \in Stored
  BY <1>4 DEF Newest
<1> QED BY <1>5 DEF Stored

LEMMA StatusTyped ==
  ASSUME NEW r \in Readings, NEW l \in Configs \cup {Nothing}, NEW p \in Configs \cup {Nothing}
  PROVE  [reading |-> r, level |-> l, percent |-> p, since |-> Previous(r)] \in Waters
  BY PreviousTyped DEF Waters, Times

LEMMA InitLevels == IngestInit => Levels
<1> SUFFICES ASSUME IngestInit PROVE Levels
  OBVIOUS
<1>1. NoWater \in Waters
  BY DEF NoWater, Waters, Times
<1>2. Stored = {}
  BY DEF IngestInit, Stored
<1>3. \E bound \in Nat : \A q \in Stored : q <= bound
  BY <1>2
<1> QED BY <1>1, <1>3 DEF IngestInit, Levels

LEMMA StepLevels ==
  ASSUME CacheTypeOK, Levels, [IngestNext]_ingestVars
  PROVE  Levels'
<1>1. CASE UNCHANGED <<rows, water>>
  BY <1>1 DEF Levels, Stored
<1>2. ASSUME NEW r \in Readings, StoreReading(r)
      PROVE  Levels'
  <2>1. /\ rows' = [rows EXCEPT ![r] = cached] /\ water' = water
        /\ cached \in Configs \cup {Nothing}
    BY <1>2 DEF StoreReading, CacheTypeOK
  <2>2. rows' \in [Readings -> Configs \cup {Nothing}]
    BY <2>1 DEF Levels
  <2>3. PICK bound \in Nat : \A q \in Stored : q <= bound
    BY DEF Levels
  <2>4. Stored' \subseteq Stored \cup {r} /\ r \in Nat /\ Stored \subseteq Nat
    BY <2>1, IngestAssumption DEF Levels, Stored
  <2>5. bound + r \in Nat /\ \A q \in Stored' : q <= bound + r
    BY <2>3, <2>4
  <2> QED BY <2>1, <2>2, <2>5 DEF Levels
<1>3. ASSUME NEW r \in Readings, FuseReading(r)
      PROVE  Levels'
  <2>1. carried[r] \in Configs \cup {Nothing} /\ cached \in Configs \cup {Nothing}
    BY DEF CacheTypeOK, Requests
  <2>2. water' \in [Devices -> Waters]
    BY <1>3, <2>1, StatusTyped DEF FuseReading, Levels
  <2> QED BY <1>3, <2>2 DEF FuseReading, Levels, Stored
<1>4. CASE IngestRestart
  <2>1. PICK recent \in SUBSET {d \in Devices : \E r \in Stored : device[r] = d} :
          water' = [d \in Devices |->
                      IF d \in recent
                        THEN [reading |-> Newest(d), level |-> rows[Newest(d)],
                              percent |-> config[First], since |-> Previous(Newest(d))]
                        ELSE NoWater]
    BY <1>4 DEF IngestRestart
  <2>2. NoWater \in Waters /\ config[First] \in Configs
    BY IngestAssumption DEF NoWater, Waters, Times, CacheTypeOK
  <2>3. ASSUME NEW d \in recent
        PROVE  [reading |-> Newest(d), level |-> rows[Newest(d)],
                percent |-> config[First], since |-> Previous(Newest(d))] \in Waters
    <3>1. Newest(d) \in Readings
      BY NewestTyped
    <3>2. rows[Newest(d)] \in Configs \cup {Nothing}
      BY <3>1 DEF Levels
    <3> QED BY <2>2, <3>1, <3>2, StatusTyped
  <2>4. water' \in [Devices -> Waters]
    BY <2>1, <2>2, <2>3
  <2> QED BY <1>4, <2>4 DEF IngestRestart, Levels, Stored
<1> QED BY <1>1, <1>2, <1>3, <1>4
        DEF IngestNext, ingestVars, Receive, QueryConfig, FillConfig, ReadingFails, SaveConfig,
            QuerySaved, FillSaved, UpdateFails

\* What is cached is what is saved, but for the races and the failed updates that
\* CacheFollowsSaves names (get_sensor_config, update_device_config).
THEOREM CacheFollows == IngestSpec => []CacheFollowsSaves
<1>1. IngestSpec => []CacheInv
  BY InitCache, StepCache, PTL DEF IngestSpec
<1> QED BY <1>1, PTL DEF CacheInv

-----------------------------------------------------------------------------
(***************************************************************************)
(* The nightly jobs.                                                       *)
(* What has arrived when a summary is begun is found, or is still to be    *)
(* found in the tables: the deletion spares the day a run is for, unless   *)
(* readings are kept for one day.                                          *)
(***************************************************************************)

\* The summaries begin at midnight, of a day that there was.
JobsHours ==
  /\ due # {} => hour # "rest"
  /\ hour # "rest" => today > 1
  /\ "summary" \in due => job = NoJob

\* A run is for the day before, of which the locations that it has passed have
\* their summaries.
Running ==
  job # NoJob =>
    /\ job.day = today - 1
    /\ \A l \in Sites : l < job.site =>
         summaries[<<l, job.day>>] # NoSummary \/ <<l, job.day>> \in lost

\* What had arrived when the summary was begun has been found, or can still be.
Collecting ==
  /\ job.place \in {"check", "query"} => job.next <= Len(Sources)
  /\ job.place = "check" => job.next = 1
  /\ job.place = "save" => job.next = Len(Sources) + 1
  /\ job.place \in {"query", "save"} /\ job.day \notin short =>
       \A r \in owed[Here] :
         \/ r \in job.found
         \/ /\ r \in tables[Here]
            /\ \E i \in job.next .. Len(Sources) : r.source = Sources[i]

\* The deletion spares the day that a run may be at.
SparesYesterday ==
  cleaning.next # 0 =>
    cleaning.day < today /\ (cleaning.day = today - 1 => today - 1 \in short)

\* The two conjuncts of DaysAreSummarised.
Present ==
  \A k \in Sites \X Days : Over(k[2]) /\ k \notin lost => summaries[k] # NoSummary
Complete ==
  \A k \in Sites \X Days :
    summaries[k] # NoSummary /\ k[2] \notin short => owed[k] \subseteq summaries[k]

JobsInv ==
  /\ JobsTypeOK /\ JobsHours /\ Running /\ Collecting /\ SparesYesterday
  /\ Present /\ Complete

-----------------------------------------------------------------------------
JobRecords == [day : Days, site : Sites, place : {"check", "query", "save"},
         next : 1 .. Len(Sources) + 1, found : SUBSET DayReadings]

LEMMA ThreeSources ==
  /\ Len(Sources) = 3
  /\ 1 .. Len(Sources) = {1, 2, 3} /\ 0 .. Len(Sources) = {0, 1, 2, 3}
  /\ 1 .. Len(Sources) + 1 = {1, 2, 3, 4}
  /\ \A r \in DayReadings : \E i \in 1 .. Len(Sources) : r.source = Sources[i]
<1>1. Len(Sources) = 3 /\ Sources[1] = "sensor" /\ Sources[2] = "model" /\ Sources[3] = "weather"
  BY DEF Sources
<1>2. \A r \in DayReadings : r.source \in {"sensor", "model", "weather"}
  BY DEF DayReadings
<1> QED BY <1>1, <1>2

LEMMA JobsNumbers ==
  ASSUME JobsTypeOK
  PROVE  /\ today \in Nat /\ 1 <= today /\ today <= LastDay
         /\ LastSite \in Nat /\ 1 <= LastSite /\ LastDay \in Nat
         /\ retention \in Nat /\ 1 <= retention
         /\ job # NoJob => job \in JobRecords
         /\ \A d \in Int : d \in Days <=> 1 <= d /\ d <= LastDay
         /\ \A l \in Int : l \in Sites <=> 1 <= l /\ l <= LastSite
  BY JobsAssumption DEF JobsTypeOK, Days, Sites, JobRecords

LEMMA JobFields ==
  ASSUME JobsTypeOK
  PROVE  /\ NoJob.day = 0 /\ NoJob.place = "none"
         /\ job # NoJob <=> job.place \in {"check", "query", "save"}
         /\ job # NoJob <=> job.day \in Days
         /\ job # NoJob => /\ job.day \in Days /\ job.site \in Sites /\ Here \in Sites \X Days
                           /\ job.next \in 1 .. Len(Sources) + 1
                           /\ job.found \in SUBSET DayReadings
<1>1. NoJob.day = 0 /\ NoJob.place = "none" /\ 0 \notin Days
  BY DEF NoJob, Days
<1>2. CASE job = NoJob
  BY <1>1, <1>2
<1>3. CASE job # NoJob
  BY <1>1, <1>3, JobsNumbers DEF JobRecords, Here
<1> QED BY <1>2, <1>3

-----------------------------------------------------------------------------
LEMMA InitJobs == JobsInit => JobsInv
<1> SUFFICES ASSUME JobsInit PROVE JobsInv
  OBVIOUS
<1>1. 1 \in Days /\ 0 \in 0 .. Len(Sources)
  BY JobsAssumption, ThreeSources DEF Days
<1>2. NoCleaning \in [next : 0 .. Len(Sources), day : Int, early : BOOLEAN]
  BY <1>1 DEF NoCleaning
<1>3. JobsTypeOK
  <2>1. /\ tables \in [Sites \X Days -> SUBSET DayReadings]
        /\ owed \in [Sites \X Days -> SUBSET DayReadings]
    <3>1. {} \in SUBSET DayReadings
      OBVIOUS
    <3> QED BY <3>1 DEF JobsInit
  <2>1a. summaries \in [Sites \X Days -> (SUBSET DayReadings) \cup {NoSummary}]
    BY DEF JobsInit
  <2>2. today \in Days /\ hour \in {"midnight", "one", "rest"} /\ up \in BOOLEAN
    BY <1>1 DEF JobsInit
  <2>3. job \in JobRecords \cup {NoJob} /\ retention \in Retentions
    BY DEF JobsInit
  <2>4. /\ due \subseteq {"summary", "cleaning"} /\ arrived \subseteq Sites \X Days
        /\ lost \subseteq Sites \X Days /\ short \subseteq Days
    BY DEF JobsInit
  <2>5. cleaning \in [next : 0 .. Len(Sources), day : Int, early : BOOLEAN]
    BY <1>2 DEF JobsInit
  <2> QED BY <2>1, <2>1a, <2>2, <2>3, <2>4, <2>5 DEF JobsTypeOK, JobRecords
<1>4. JobsHours /\ Running
  BY DEF JobsInit, JobsHours, Running
<1>5. Collecting /\ SparesYesterday
  BY DEF JobsInit, Collecting, SparesYesterday, NoJob, NoCleaning
<1>6. \A d \in Days : ~(d < today)
  BY DEF JobsInit, Days
<1>7. Present
  BY <1>6 DEF Present, Over
<1>8. Complete
  BY DEF JobsInit, Complete
<1> QED BY <1>3, <1>4, <1>5, <1>7, <1>8 DEF JobsInv

\* The steps that leave the run and the summaries alone.
LEMMA ElsewhereKeeps ==
  ASSUME JobsInv, JobsTypeOK', UNCHANGED <<today, job, summaries, owed, lost>>,
         "summary" \in due' <=> "summary" \in due,
         short \subseteq short',
         \A k \in Sites \X Days : k[2] = today - 1 /\ k[2] \notin short' =>
           tables[k] \subseteq tables'[k]
  PROVE  Running' /\ Collecting' /\ Present' /\ Complete'
<1>1. Running'
  BY DEF JobsInv, Running
<1>2. Collecting'
  <2>1. CASE job = NoJob
    BY <2>1, JobFields DEF JobsInv, Collecting
  <2>2. CASE job # NoJob
    <3>1. Here' = Here /\ Here \in Sites \X Days /\ Here[2] = today - 1 /\ job.day = today - 1
      BY <2>2, JobFields DEF JobsInv, Running, Here
    <3>2. job.day \notin short' => tables[Here] \subseteq tables'[Here] /\ job.day \notin short
      BY <3>1
    <3> QED BY <2>2, <3>1, <3>2 DEF JobsInv, Collecting
  <2> QED BY <2>1, <2>2
<1>4. Present'
  BY DEF JobsInv, Present, Over
<1>5. Complete'
  BY DEF JobsInv, Complete
<1> QED BY <1>1, <1>2, <1>4, <1>5

-----------------------------------------------------------------------------
LEMMA FreshJob ==
  ASSUME NEW d \in Days, NEW l \in Sites
  PROVE  /\ RunAt(d, l) \in JobRecords /\ RunAt(d, l) # NoJob
<1>2. 1 \in 1 .. Len(Sources) + 1 /\ {} \in SUBSET DayReadings
  BY ThreeSources
<1>3. RunAt(d, l) # NoJob
  <2>1. RunAt(d, l).place # NoJob.place
    BY DEF RunAt, NoJob
  <2> QED BY <2>1
<1>4. RunAt(d, l) \in JobRecords
  BY <1>2 DEF RunAt, JobRecords
<1> QED BY <1>3, <1>4

LEMMA StartSummariesKeeps ==
  ASSUME JobsInv, StartSummaries
  PROVE  JobsInv'
<1>1. job = NoJob /\ today > 1 /\ today - 1 \in Days /\ today \in Nat
  BY JobsNumbers DEF StartSummaries, JobsInv, JobsHours
<1>2. 1 \in Sites
  BY JobsNumbers DEF JobsInv
<1>3. /\ job' \in JobRecords /\ job' # NoJob
      /\ job'.day = today - 1 /\ job'.site = 1 /\ job'.place = "check" /\ job'.next = 1
  <2>1. job' = RunAt(today - 1, 1)
    BY <1>1, <1>2, FreshJob DEF StartSummaries, Target
  <2>2. job' \in JobRecords /\ job' # NoJob
    BY <1>1, <1>2, <2>1, FreshJob
  <2> QED BY <2>1, <2>2 DEF RunAt
<1>4. JobsTypeOK'
  BY <1>3 DEF StartSummaries, JobsInv, JobsTypeOK, JobRecords
<1>5. JobsHours' /\ SparesYesterday'
  BY DEF StartSummaries, JobsInv, JobsHours, SparesYesterday
<1>6. \A l \in Sites : ~(l < 1)
  BY DEF Sites
<1>7. Running'
  BY <1>3, <1>6 DEF StartSummaries, Running
<1>8. Collecting'
  BY <1>3, ThreeSources DEF Collecting
<1>9. \A d \in Days : Over(d)' => Over(d)
  BY <1>1, <1>3, JobFields DEF StartSummaries, Over, JobsInv
<1>10. Present' /\ Complete'
  BY <1>9 DEF StartSummaries, JobsInv, Present, Complete
<1> QED BY <1>4, <1>5, <1>7, <1>8, <1>10 DEF JobsInv

\* The run has passed a location, which has its summary now.
LEMMA NextSiteKeeps ==
  ASSUME JobsInv, job # NoJob, job' = NextSite, UNCHANGED <<today, due, lost>>,
         summaries'[Here] # NoSummary,
         \A k \in Sites \X Days : summaries[k] # NoSummary => summaries'[k] # NoSummary
  PROVE  /\ job' \in JobRecords \cup {NoJob}
         /\ job' = NoJob \/ "summary" \notin due'
         /\ Running' /\ Collecting' /\ Present'
<1>1. /\ job.day \in Days /\ job.site \in Sites /\ job.day = today - 1
      /\ \A l \in Sites : l < job.site =>
           summaries[<<l, job.day>>] # NoSummary \/ <<l, job.day>> \in lost
      /\ "summary" \notin due
  BY JobFields DEF JobsInv, Running, JobsHours
<1>2. \A l \in Sites : l <= job.site =>
        summaries'[<<l, job.day>>] # NoSummary \/ <<l, job.day>> \in lost
  BY <1>1 DEF Here, Sites
<1>3. CASE job.site = LastSite
  <2>1. job' = NoJob /\ job'.day = 0 /\ job'.place = "none"
    BY <1>3, JobFields DEF NextSite, JobsInv
  <2>2. \A l \in Sites : l <= job.site
    BY <1>3, JobsNumbers DEF Sites
  <2>3. Present'
    <3>1. \A d \in Days : Over(d)' => Over(d) \/ d = job.day
      BY <1>1, <2>1 DEF Over
    <3> QED BY <1>2, <2>2, <3>1 DEF Present, JobsInv
  <2> QED BY <2>1, <2>3 DEF Running, Collecting
<1>4. CASE job.site # LastSite
  <2>1. job.site + 1 \in Sites
    BY <1>1, <1>4, JobsNumbers DEF JobsInv, Sites
  <2>2. job' = RunAt(job.day, job.site + 1)
    BY <1>1, <1>4, <2>1, FreshJob DEF NextSite
  <2>2a. /\ job' \in JobRecords /\ job' # NoJob /\ job'.day = job.day
         /\ job'.site = job.site + 1 /\ job'.place = "check" /\ job'.next = 1
    <3>1. job' \in JobRecords /\ job' # NoJob
      BY <1>1, <2>1, <2>2, FreshJob
    <3> QED BY <2>2, <3>1 DEF RunAt
  <2>3. \A l \in Sites : l < job.site + 1 => l <= job.site
    BY <1>1 DEF Sites
  <2>4. Running'
    BY <1>1, <1>2, <2>2a, <2>3 DEF Running
  <2>5. Present'
    BY <2>2a DEF Present, Over, JobsInv
  <2> QED BY <1>1, <2>2a, <2>4, <2>5, ThreeSources DEF Collecting
<1> QED BY <1>3, <1>4

LEMMA CheckExistingKeeps ==
  ASSUME JobsInv, CheckExisting
  PROVE  JobsInv'
<1>1. /\ job # NoJob /\ Here \in Sites \X Days /\ job.next = 1 /\ job \in JobRecords
      /\ "summary" \notin due
  BY JobFields, JobsNumbers DEF CheckExisting, JobsInv, Collecting, JobsHours
<1>2. CASE summaries[Here] # NoSummary
  <2>1. job' = NextSite /\ UNCHANGED owed
    BY <1>2 DEF CheckExisting
  <2>2. /\ job' \in JobRecords \cup {NoJob}
        /\ Running' /\ Collecting' /\ Present'
    BY <1>1, <1>2, <2>1, NextSiteKeeps DEF CheckExisting
  <2>3. JobsTypeOK'
    BY <2>1, <2>2 DEF CheckExisting, JobsInv, JobsTypeOK, JobRecords
  <2>4. JobsHours' /\ SparesYesterday' /\ Complete'
    BY <1>1, <2>1 DEF CheckExisting, JobsInv, JobsHours, SparesYesterday, Complete
  <2> QED BY <2>2, <2>3, <2>4 DEF JobsInv
<1>3. CASE summaries[Here] = NoSummary
  <2>1. job' = [job EXCEPT !.place = "query"] /\ owed' = [owed EXCEPT ![Here] = tables[Here]]
    BY <1>3 DEF CheckExisting
  <2>2. /\ job' \in JobRecords /\ job'.place = "query" /\ job'.next = 1 /\ job'.day = job.day
        /\ job'.site = job.site /\ job' # NoJob /\ Here' = Here
    BY <1>1, <2>1 DEF JobRecords, NoJob, Here
  <2>3. tables[Here] \subseteq DayReadings
    BY <1>1 DEF JobsInv, JobsTypeOK
  <2>4. /\ owed' \in [Sites \X Days -> SUBSET DayReadings] /\ owed'[Here] = tables[Here]
        /\ \A k \in Sites \X Days : k # Here => owed'[k] = owed[k]
    BY <1>1, <2>1, <2>3 DEF JobsInv, JobsTypeOK
  <2>5. JobsTypeOK'
    BY <2>2, <2>4 DEF CheckExisting, JobsInv, JobsTypeOK, JobRecords
  <2>6. JobsHours' /\ SparesYesterday'
    BY <1>1 DEF CheckExisting, JobsInv, JobsHours, SparesYesterday
  <2>7. Running' /\ Present'
    BY <1>1, <2>2 DEF CheckExisting, JobsInv, Running, Present, Over
  <2>8. Complete'
    BY <1>3, <2>4 DEF CheckExisting, JobsInv, Complete
  <2>9. Collecting'
    BY <2>2, <2>3, <2>4, ThreeSources DEF CheckExisting, Collecting
  <2> QED BY <2>5, <2>6, <2>7, <2>8, <2>9 DEF JobsInv
<1> QED BY <1>2, <1>3

LEMMA QuerySourceKeeps ==
  ASSUME JobsInv, QuerySource
  PROVE  JobsInv'
<1> DEFINE readings == Of(Sources[job.next], tables[Here])
<1>1. /\ job # NoJob /\ Here \in Sites \X Days /\ job \in JobRecords /\ job.next \in {1, 2, 3}
      /\ "summary" \notin due
  BY JobFields, JobsNumbers, ThreeSources DEF QuerySource, JobsInv, Collecting, JobsHours
<1>2. readings \subseteq DayReadings
  BY <1>1 DEF JobsInv, JobsTypeOK, Of
<1>3. job.next + 1 \in 1 .. Len(Sources) + 1 /\ job.found \cup readings \in SUBSET DayReadings
  BY <1>1, <1>2, ThreeSources DEF JobRecords
<1>4. job' = [job EXCEPT !.found = @ \cup readings, !.next = @ + 1,
                         !.place = IF job.next = Len(Sources) THEN "save" ELSE "query"]
  BY DEF QuerySource
<1>5. /\ job'.found = job.found \cup readings /\ job'.next = job.next + 1
      /\ job'.day = job.day /\ job'.site = job.site
      /\ job'.place = IF job.next = Len(Sources) THEN "save" ELSE "query"
      /\ job' \in JobRecords /\ job' # NoJob
  BY <1>1, <1>3, <1>4 DEF JobRecords, NoJob
<1>6. Here' = Here
  BY <1>5 DEF Here
<1>7. JobsTypeOK'
  BY <1>5 DEF QuerySource, JobsInv, JobsTypeOK, JobRecords
<1>8. JobsHours' /\ SparesYesterday'
  BY <1>1 DEF QuerySource, JobsInv, JobsHours, SparesYesterday
<1>9. Running' /\ Present' /\ Complete'
  BY <1>1, <1>5 DEF QuerySource, JobsInv, Running, Present, Over, Complete
<1>10. Collecting'
  <2>1. job.place = "query" /\ UNCHANGED <<owed, tables, short>>
    BY DEF QuerySource
  <2>2. ASSUME job.day \notin short, NEW r \in owed[Here]
        PROVE  \/ r \in job'.found
               \/ r \in tables[Here] /\ \E i \in job'.next .. Len(Sources) : r.source = Sources[i]
    <3>1. CASE r \in job.found
      BY <3>1, <1>5
    <3>2. CASE r \notin job.found
      <4>1. PICK i \in job.next .. Len(Sources) : r.source = Sources[i]
        BY <2>1, <2>2, <3>2 DEF JobsInv, Collecting
      <4>2. r \in tables[Here]
        BY <2>1, <2>2, <3>2 DEF JobsInv, Collecting
      <4>3. CASE i = job.next
        BY <4>1, <4>2, <4>3, <1>5 DEF Of
      <4>4. CASE i # job.next
        BY <4>1, <4>2, <4>4, <1>1, <1>5, ThreeSources
      <4> QED BY <4>3, <4>4
    <3> QED BY <3>1, <3>2
  <2>3. /\ job'.place = "query" => job'.next <= Len(Sources)
        /\ job'.place = "save" => job'.next = Len(Sources) + 1
        /\ job'.place # "check"
    BY <1>1, <1>5, ThreeSources
  <2> QED BY <1>5, <1>6, <2>1, <2>2, <2>3 DEF Collecting
<1> QED BY <1>7, <1>8, <1>9, <1>10 DEF JobsInv

LEMMA SaveSummaryKeeps ==
  ASSUME JobsInv, SaveSummary
  PROVE  JobsInv'
<1>1. /\ job # NoJob /\ Here \in Sites \X Days /\ job \in JobRecords /\ job.next = 4
      /\ "summary" \notin due /\ Here[2] = job.day /\ job.place = "save"
  BY JobFields, JobsNumbers, ThreeSources
     DEF SaveSummary, JobsInv, Collecting, JobsHours, Here
<1>2. job.found \in SUBSET DayReadings
  BY <1>1 DEF JobRecords
<1>3. /\ summaries' \in [Sites \X Days -> (SUBSET DayReadings) \cup {NoSummary}]
      /\ summaries'[Here] = IF summaries[Here] = NoSummary THEN job.found ELSE summaries[Here]
      /\ \A k \in Sites \X Days : k # Here => summaries'[k] = summaries[k]
  BY <1>1, <1>2 DEF SaveSummary, JobsInv, JobsTypeOK
<1>4. job.found # NoSummary
  BY <1>2, NoSummaryAssumption
<1>5. /\ job' \in JobRecords \cup {NoJob}
      /\ Running' /\ Collecting' /\ Present'
  BY <1>1, <1>3, <1>4, NextSiteKeeps DEF SaveSummary
<1>6. JobsTypeOK'
  BY <1>3, <1>5 DEF SaveSummary, JobsInv, JobsTypeOK, JobRecords
<1>7. JobsHours' /\ SparesYesterday'
  BY <1>1 DEF SaveSummary, JobsInv, JobsHours, SparesYesterday
<1>8. job.day \notin short => owed[Here] \subseteq job.found
  <2>1. job.next .. Len(Sources) = {}
    BY <1>1, ThreeSources
  <2> QED BY <1>1, <2>1 DEF JobsInv, Collecting
<1>9. Complete'
  BY <1>1, <1>3, <1>8 DEF SaveSummary, JobsInv, Complete
<1> QED BY <1>5, <1>6, <1>7, <1>9 DEF JobsInv

\* A run that ends here gives up what it has not summarised.
LEMMA GivenUpKeeps ==
  ASSUME JobsInv, job' = NoJob, lost' = lost \cup GivenUp \/
           (\E more : lost' = lost \cup GivenUp \cup more), UNCHANGED <<today, summaries>>,
         due' = due \/ (due' = {} /\ ("summary" \in due => Sites \X {today - 1} \subseteq lost'))
  PROVE  Running' /\ Collecting' /\ Present'
<1>1. job'.day = 0 /\ job'.place = "none" /\ lost \cup GivenUp \subseteq lost'
  BY DEF NoJob
<1>2. Running' /\ Collecting'
  BY <1>1 DEF Running, Collecting
<1>3. ASSUME NEW k \in Sites \X Days, Over(k[2])', k \notin lost'
      PROVE  summaries[k] # NoSummary
  <2>1. CASE Over(k[2])
    BY <1>1, <1>3, <2>1 DEF JobsInv, Present
  <2>2. CASE ~Over(k[2]) /\ job # NoJob /\ k[2] = job.day
    <3>1. ~(k[1] >= job.site)
      BY <1>1, <1>3, <2>2 DEF GivenUp
    <3>2. k[1] < job.site /\ k[1] \in Sites /\ k = <<k[1], job.day>>
      BY <1>3, <2>2, <3>1, JobFields DEF JobsInv, Sites
    <3> QED BY <1>1, <1>3, <2>2, <3>2 DEF JobsInv, Running
  <2>3. CASE k[2] = today - 1 /\ "summary" \in due /\ due' = {}
    <3>1. k \in Sites \X {today - 1}
      BY <1>3, <2>3
    <3> QED BY <1>3, <2>3, <3>1
  <2>4. k[2] \in Days /\ k[2] # 0
    BY <1>3 DEF Days
  <2> QED BY <1>3, <2>1, <2>2, <2>3, <2>4, JobFields DEF Over, JobsInv
<1> QED BY <1>2, <1>3 DEF Present

LEMMA SummariesRaiseKeeps ==
  ASSUME JobsInv, SummariesRaise
  PROVE  JobsInv'
<1>1. Running' /\ Collecting' /\ Present'
  BY GivenUpKeeps DEF SummariesRaise
<1>2. JobsTypeOK'
  BY DEF SummariesRaise, GivenUp, JobsInv, JobsTypeOK
<1>3. JobsHours' /\ SparesYesterday' /\ Complete'
  BY DEF SummariesRaise, JobsInv, JobsHours, SparesYesterday, Complete
<1> QED BY <1>1, <1>2, <1>3 DEF JobsInv

LEMMA CrashKeeps ==
  ASSUME JobsInv, Crash
  PROVE  JobsInv'
<1>1. "summary" \in due => today - 1 \in Days
  BY JobsNumbers DEF JobsInv, JobsHours
<1>2. Running' /\ Collecting' /\ Present'
  BY GivenUpKeeps DEF Crash
<1>3. lost' \subseteq Sites \X Days
  BY <1>1 DEF Crash, GivenUp, JobsInv, JobsTypeOK
<1>4. NoCleaning \in [next : 0 .. Len(Sources), day : Int, early : BOOLEAN] /\ NoCleaning.next = 0
  BY ThreeSources DEF NoCleaning
<1>5. JobsTypeOK'
  BY <1>3, <1>4 DEF Crash, JobsInv, JobsTypeOK
<1>6. JobsHours' /\ SparesYesterday' /\ Complete'
  BY <1>4 DEF Crash, JobsInv, JobsHours, SparesYesterday, Complete
<1> QED BY <1>2, <1>5, <1>6 DEF JobsInv

-----------------------------------------------------------------------------
LEMMA StartCleaningKeeps ==
  ASSUME JobsInv, StartCleaning
  PROVE  JobsInv'
<1>1. today > 1 /\ today - 1 \in Days /\ today \in Nat
  BY JobsNumbers DEF StartCleaning, JobsInv, JobsHours
<1>2. /\ today - retention \in Int /\ today - retention < today
      /\ today - retention = today - 1 => retention = 1
  BY <1>1, JobsNumbers DEF JobsInv
<1>3. PICK early \in BOOLEAN :
        cleaning' = [next |-> 1, day |-> today - retention, early |-> early]
  BY DEF StartCleaning, Cutoff
<1>4. /\ cleaning' \in [next : 0 .. Len(Sources), day : Int, early : BOOLEAN]
      /\ cleaning'.day = today - retention
  BY <1>2, <1>3, ThreeSources
<1>5. short \subseteq short' /\ short' \subseteq Days /\ (retention = 1 => today - 1 \in short')
  BY <1>1 DEF StartCleaning, JobsInv, JobsTypeOK
<1>6. JobsTypeOK'
  BY <1>4, <1>5 DEF StartCleaning, JobsInv, JobsTypeOK
<1>7. JobsHours'
  BY DEF StartCleaning, JobsInv, JobsHours
<1>8. SparesYesterday'
  BY <1>2, <1>4, <1>5 DEF StartCleaning, SparesYesterday
<1>9. Running' /\ Collecting' /\ Present' /\ Complete'
  BY <1>5, <1>6, ElsewhereKeeps DEF StartCleaning
<1> QED BY <1>6, <1>7, <1>8, <1>9 DEF JobsInv

LEMMA DeleteOlderKeeps ==
  ASSUME JobsInv, DeleteOlder
  PROVE  JobsInv'
<1>1. /\ cleaning \in [next : 0 .. Len(Sources), day : Int, early : BOOLEAN]
      /\ cleaning.next \in {1, 2, 3}
  BY ThreeSources DEF DeleteOlder, JobsInv, JobsTypeOK
<1>2. NoCleaning \in [next : 0 .. Len(Sources), day : Int, early : BOOLEAN] /\ NoCleaning.next = 0
  BY ThreeSources DEF NoCleaning
<1>3. /\ cleaning' \in [next : 0 .. Len(Sources), day : Int, early : BOOLEAN]
      /\ cleaning'.next = 0 \/ cleaning'.day = cleaning.day
  <2>1. CASE cleaning.next = Len(Sources)
    BY <1>2, <2>1 DEF DeleteOlder
  <2>2. CASE cleaning.next # Len(Sources)
    <3>1. cleaning' = [cleaning EXCEPT !.next = @ + 1]
      BY <2>2 DEF DeleteOlder
    <3>2. cleaning.next + 1 \in 0 .. Len(Sources)
      BY <1>1, <2>2, ThreeSources
    <3> QED BY <1>1, <3>1, <3>2
  <2> QED BY <2>1, <2>2
<1>4. /\ tables' \in [Sites \X Days -> SUBSET DayReadings]
      /\ \A k \in Sites \X Days : tables'[k] \subseteq tables[k]
      /\ \A k \in Sites \X Days : Outdated(k[2]) = {} => tables'[k] = tables[k]
  BY DEF DeleteOlder, JobsInv, JobsTypeOK, Of
<1>5. JobsTypeOK'
  BY <1>3, <1>4 DEF DeleteOlder, JobsInv, JobsTypeOK
<1>6. JobsHours' /\ SparesYesterday'
  BY <1>1, <1>3 DEF DeleteOlder, JobsInv, JobsHours, SparesYesterday
<1>7. ASSUME NEW k \in Sites \X Days, k[2] = today - 1, k[2] \notin short'
      PROVE  tables[k] \subseteq tables'[k]
  <2>1. cleaning.day < today - 1 /\ cleaning.day \in Int /\ today \in Int
    BY <1>1, <1>7, JobsNumbers DEF JobsInv, SparesYesterday, DeleteOlder
  <2>2. Outdated(k[2]) = {}
    BY <2>1, <1>7 DEF Outdated
  <2> QED BY <1>4, <2>2
<1>8. Running' /\ Collecting' /\ Present' /\ Complete'
  BY <1>5, <1>7, ElsewhereKeeps DEF DeleteOlder
<1> QED BY <1>5, <1>6, <1>8 DEF JobsInv

LEMMA CleaningRaisesKeeps ==
  ASSUME JobsInv, CleaningRaises
  PROVE  JobsInv'
<1>1. NoCleaning \in [next : 0 .. Len(Sources), day : Int, early : BOOLEAN] /\ NoCleaning.next = 0
  BY ThreeSources DEF NoCleaning
<1>2. JobsTypeOK'
  BY <1>1 DEF CleaningRaises, JobsInv, JobsTypeOK
<1>3. JobsHours' /\ SparesYesterday'
  BY <1>1 DEF CleaningRaises, JobsInv, JobsHours, SparesYesterday
<1> QED BY <1>2, <1>3, ElsewhereKeeps DEF CleaningRaises, JobsInv

-----------------------------------------------------------------------------
LEMMA ArriveKeeps ==
  ASSUME JobsInv, NEW l \in Sites, NEW d \in Days, Arrive(l, d)
  PROVE  JobsInv'
<1>1. /\ tables' \in [Sites \X Days -> SUBSET DayReadings]
      /\ \A k \in Sites \X Days : tables[k] \subseteq tables'[k]
  BY DEF Arrive, JobsInv, JobsTypeOK
<1>2. JobsTypeOK'
  BY <1>1 DEF Arrive, JobsInv, JobsTypeOK
<1>3. JobsHours' /\ SparesYesterday'
  BY DEF Arrive, JobsInv, JobsHours, SparesYesterday
<1> QED BY <1>1, <1>2, <1>3, ElsewhereKeeps DEF Arrive, JobsInv

LEMMA SeedSummariesKeeps ==
  ASSUME JobsInv, NEW l \in Sites, SeedSummaries(l)
  PROVE  JobsInv'
<1>1. DayReadings # NoSummary
  BY NoSummaryAssumption
<1>2. /\ summaries' \in [Sites \X Days -> (SUBSET DayReadings) \cup {NoSummary}]
      /\ \A k \in Sites \X Days :
           \/ summaries'[k] = summaries[k]
           \/ summaries[k] = NoSummary /\ summaries'[k] = DayReadings
  BY DEF SeedSummaries, JobsInv, JobsTypeOK
<1>3. JobsTypeOK'
  BY <1>2 DEF SeedSummaries, JobsInv, JobsTypeOK
<1>4. JobsHours' /\ SparesYesterday'
  BY DEF SeedSummaries, JobsInv, JobsHours, SparesYesterday
<1>5. \A k \in Sites \X Days : summaries[k] # NoSummary => summaries'[k] # NoSummary
  BY <1>1, <1>2
<1>6. Running'
  <2>1. job # NoJob => job.day \in Days
    BY JobFields DEF JobsInv
  <2> QED BY <1>5, <2>1 DEF SeedSummaries, JobsInv, Running
<1>7. Present' /\ Collecting'
  BY <1>5 DEF SeedSummaries, JobsInv, Present, Over, Collecting, Here
<1>8. \A k \in Sites \X Days : owed[k] \subseteq DayReadings
  BY DEF JobsInv, JobsTypeOK
<1>9. Complete'
  BY <1>2, <1>8 DEF SeedSummaries, JobsInv, Complete
<1> QED BY <1>3, <1>4, <1>6, <1>7, <1>9 DEF JobsInv

LEMMA NewDayKeeps ==
  ASSUME JobsInv, NewDay
  PROVE  JobsInv'
<1>1. /\ today \in Nat /\ 1 <= today /\ today \in Days /\ today + 1 \in Days
      /\ today' = today + 1
  BY JobsNumbers DEF NewDay, JobsInv
<1>2. JobsTypeOK'
  BY <1>1 DEF NewDay, JobsInv, JobsTypeOK
<1>3. JobsHours' /\ SparesYesterday' /\ Running' /\ Collecting'
  BY <1>1 DEF NewDay, JobsHours, SparesYesterday, Running, Collecting, NoJob, NoCleaning
<1>4. "summary" \notin due /\ job.day = 0
  BY JobFields DEF NewDay, JobsInv, JobsHours
<1>5. \A d \in Days : d # 0 /\ d \in Nat
  BY DEF Days
<1>6. Present'
  <2>1. ASSUME NEW k \in Sites \X Days, Over(k[2])', k \notin lost'
        PROVE  Over(k[2]) /\ k \notin lost
    <3>1. k[2] # today
      <4>1. CASE up
        BY <1>1, <2>1, <4>1 DEF NewDay, Over
      <4>2. CASE ~up
        BY <2>1, <4>2 DEF NewDay
      <4> QED BY <4>1, <4>2
    <3>2. k[2] \in Nat /\ k[2] # 0 /\ k[2] < today + 1
      BY <1>1, <1>5, <2>1 DEF Over
    <3>3. k[2] < today
      BY <1>1, <3>1, <3>2
    <3> QED BY <1>4, <2>1, <3>2, <3>3 DEF Over, NewDay
  <2> QED BY <2>1 DEF NewDay, JobsInv, Present
<1>7. Complete'
  BY DEF NewDay, JobsInv, Complete
<1> QED BY <1>2, <1>3, <1>6, <1>7 DEF JobsInv

LEMMA HourPassesKeeps ==
  ASSUME JobsInv, HourPasses
  PROVE  JobsInv'
<1>1. hour \in {"midnight", "one", "rest"} /\ hour # "rest"
  BY DEF HourPasses, JobsInv, JobsTypeOK
<1>2. JobsTypeOK'
  BY DEF HourPasses, JobsInv, JobsTypeOK
<1>3. JobsHours' /\ SparesYesterday'
  BY <1>1 DEF HourPasses, JobsInv, JobsHours, SparesYesterday
<1>4. "summary" \notin due /\ "summary" \notin due'
  BY DEF HourPasses
<1> QED BY <1>2, <1>3, <1>4, ElsewhereKeeps DEF HourPasses, JobsInv

LEMMA StepJobs == JobsInv /\ [JobsNext]_jobVars => JobsInv'
<1> SUFFICES ASSUME JobsInv, [JobsNext]_jobVars PROVE JobsInv'
  OBVIOUS
<1>1. CASE UpdateRetention \/ Start \/ UNCHANGED jobVars
  <2>1. JobsTypeOK'
    BY <1>1 DEF UpdateRetention, Start, jobVars, JobsInv, JobsTypeOK
  <2>2. JobsHours' /\ SparesYesterday'
    BY <1>1 DEF UpdateRetention, Start, jobVars, JobsInv, JobsHours, SparesYesterday
  <2> QED BY <1>1, <2>1, <2>2, ElsewhereKeeps DEF UpdateRetention, Start, jobVars, JobsInv
<1> QED BY <1>1, StartSummariesKeeps, CheckExistingKeeps, QuerySourceKeeps, SaveSummaryKeeps,
           SummariesRaiseKeeps, StartCleaningKeeps, DeleteOlderKeeps, CleaningRaisesKeeps,
           ArriveKeeps, SeedSummariesKeeps, NewDayKeeps, HourPassesKeeps, CrashKeeps DEF JobsNext

\* Each location has the summary of a day once the run for it is over, with all
\* that had arrived when it was begun, but for what DaysAreSummarised names
\* (scheduler.py, daily_summary/service.py).
THEOREM DaysSummarised == JobsSpec => []DaysAreSummarised
<1>1. JobsInv => DaysAreSummarised
  BY DEF JobsInv, Present, Complete, DaysAreSummarised
<1> QED BY <1>1, InitJobs, StepJobs, PTL DEF JobsSpec

-----------------------------------------------------------------------------
(***************************************************************************)
(* The notification templates.                                             *)
(* An indexed type has exactly one template, but while one replaces it and *)
(* after the losses that DefaultStands names.                              *)
(***************************************************************************)

\* A request that has demoted the default and will really write another: one
\* whose session takes its own template for the default already writes no type.
Pending(ty) ==
  \E r \in Edits :
    /\ at[r] \in {"writing", "loaded"} /\ held[r] # NoRow /\ want[r].type = ty
    /\ ~(at[r] = "loaded" /\ known[r] = ty)

\* What a request has, by where it is.
EditsOK ==
  \A r \in Edits :
    /\ at[r] \in {"new", "deleting"} => held[r] = NoRow
    /\ at[r] \in {"new", "demoting"} => known[r] = Unused
    /\ at[r] = "writing" /\ held[r] # NoRow => known[r] = Unused
    /\ at[r] = "demoting" => held[r] \in Rows
    /\ at[r] \in {"demoting", "writing", "loaded"} /\ want[r].op = "update" => want[r].id \in Rows
    /\ at[r] = "loaded" => want[r].op = "update"
    /\ at[r] = "deleting" => want[r].id \in Rows

Shape ==
  /\ DOMAIN type = Rows /\ type = [i \in Rows |-> type[i]]
  /\ want = [r \in Edits |-> want[r]]
  /\ at = [r \in Edits |-> at[r]]
  /\ held = [r \in Edits |-> held[r]]
  /\ known = [r \in Edits |-> known[r]]

AtMostOne == \A i, j \in Rows : type[i] = Warning /\ type[j] = Warning => i = j
AtLeastOne ==
  ~Pending(Warning) /\ Warning \notin stripped => \E i \in Rows : type[i] = Warning

DefaultInv == Shape /\ EditsOK /\ AtMostOne /\ AtLeastOne

USE DEF Warning, Announcement, Unused, Deleted

-----------------------------------------------------------------------------
LEMMA InitDefault == TemplatesInit => DefaultInv
<1> SUFFICES ASSUME TemplatesInit PROVE DefaultInv
  OBVIOUS
<1>1. Shape /\ EditsOK
  BY DEF TemplatesInit, Shape, EditsOK
<1>2. PICK i \in Rows : Holders(Warning) = {i}
  BY DEF TemplatesInit
<1>3. AtMostOne /\ AtLeastOne
  BY <1>2 DEF AtMostOne, AtLeastOne, Holders
<1> QED BY <1>1, <1>3 DEF DefaultInv

\* A request ends: the places of the others are as they were.
LEMMA Ended ==
  ASSUME DefaultInv, NEW r \in Edits, Ends(r)
  PROVE  /\ EditsOK'
         /\ at'[r] = "done"
         /\ \A q \in Edits \ {r} : /\ at'[q] = at[q] /\ held'[q] = held[q]
                                   /\ known'[q] = known[q] /\ want'[q] = want[q]
         /\ want' = [q \in Edits |-> want'[q]]
         /\ at' = [q \in Edits |-> at'[q]]
         /\ held' = [q \in Edits |-> held'[q]]
         /\ known' = [q \in Edits |-> known'[q]]
<1>1. /\ at'[r] = "done"
      /\ \A q \in Edits \ {r} : /\ at'[q] = at[q] /\ held'[q] = held[q]
                                /\ known'[q] = known[q] /\ want'[q] = want[q]
  BY DEF DefaultInv, Shape, Ends, Goes
<1>2. EditsOK'
  BY <1>1 DEF DefaultInv, EditsOK
<1>3. /\ want' = [q \in Edits |-> want'[q]] /\ at' = [q \in Edits |-> at'[q]]
      /\ held' = [q \in Edits |-> held'[q]] /\ known' = [q \in Edits |-> known'[q]]
  BY DEF DefaultInv, Shape, Ends, Goes
<1> QED BY <1>1, <1>2, <1>3

\* If a request that ends was not the pending one, the default still stands.
LEMMA EndedElsewhere ==
  ASSUME DefaultInv, NEW r \in Edits, Ends(r),
         DOMAIN type' = Rows, type' = [i \in Rows |-> type'[i]], AtMostOne',
         \/ Warning \in stripped'
         \/ \E i \in Rows : type'[i] = Warning
         \/ /\ \A i \in Rows : type[i] = Warning => type'[i] = Warning
            /\ Warning \in stripped => Warning \in stripped'
            /\ \/ at[r] \notin {"writing", "loaded"} \/ held[r] = NoRow
               \/ want[r].type # Warning \/ (at[r] = "loaded" /\ known[r] = Warning)
  PROVE  DefaultInv'
<1>1. Shape' /\ EditsOK'
  BY Ended DEF Shape
<1>2. AtLeastOne'
  <2>1. CASE Warning \in stripped' \/ \E i \in Rows : type'[i] = Warning
    BY <2>1 DEF AtLeastOne
  <2>2. CASE /\ \A i \in Rows : type[i] = Warning => type'[i] = Warning
             /\ Warning \in stripped => Warning \in stripped'
             /\ \/ at[r] \notin {"writing", "loaded"} \/ held[r] = NoRow
                \/ want[r].type # Warning \/ (at[r] = "loaded" /\ known[r] = Warning)
    <3>1. Pending(Warning) => Pending(Warning)'
      <4> SUFFICES ASSUME NEW q \in Edits,
                          at[q] \in {"writing", "loaded"}, held[q] # NoRow,
                          want[q].type = Warning, ~(at[q] = "loaded" /\ known[q] = Warning)
                   PROVE  Pending(Warning)'
        BY DEF Pending
      <4>1. q # r
        BY <2>2
      <4> QED BY <4>1, Ended DEF Pending
    <3> QED BY <2>2, <3>1 DEF DefaultInv, AtLeastOne
  <2> QED BY <2>1, <2>2
<1> QED BY <1>1, <1>2 DEF DefaultInv

-----------------------------------------------------------------------------
LEMMA AskDefaultKeeps ==
  ASSUME DefaultInv, NEW r \in Edits, NEW w \in Wishes, AskDefault(r, w)
  PROVE  DefaultInv'
<1>1. /\ at[r] = "new" /\ held[r] = NoRow /\ known[r] = Unused
      /\ w.op = "update" => w.id \in Rows
  BY DEF AskDefault, DefaultInv, EditsOK, Wishes
<1>2. /\ want'[r] = w
      /\ \A q \in Edits \ {r} : /\ at'[q] = at[q] /\ held'[q] = held[q]
                                /\ known'[q] = known[q] /\ want'[q] = want[q]
      /\ \/ at'[r] = "writing" /\ held'[r] = NoRow
         \/ at'[r] = "demoting" /\ held'[r] \in Rows /\ known'[r] = Unused
  BY <1>1 DEF AskDefault, DefaultInv, Shape, Goes, Holders
<1>3. Shape'
  BY DEF AskDefault, DefaultInv, Shape, Goes
<1>4. EditsOK'
  BY <1>1, <1>2, TemplatesAssumption DEF DefaultInv, EditsOK
<1>5. AtMostOne'
  BY DEF AskDefault, DefaultInv, AtMostOne
<1>6. Pending(Warning) => Pending(Warning)'
  BY <1>1, <1>2 DEF Pending
<1>7. AtLeastOne'
  BY <1>6 DEF AskDefault, DefaultInv, AtLeastOne
<1> QED BY <1>3, <1>4, <1>5, <1>7 DEF DefaultInv

LEMMA AskDeleteKeeps ==
  ASSUME DefaultInv, NEW r \in Edits, NEW w \in Wishes, AskDelete(r, w)
  PROVE  DefaultInv'
<1>1. at[r] = "new" /\ held[r] = NoRow /\ w.id \in Rows
  BY DEF AskDelete, DefaultInv, EditsOK, Wishes
<1>2. /\ want'[r] = w /\ at'[r] = "deleting"
      /\ \A q \in Edits \ {r} : at'[q] = at[q] /\ want'[q] = want[q]
      /\ held' = held /\ known' = known /\ type' = type /\ stripped' = stripped
  BY <1>1 DEF AskDelete, DefaultInv, Shape, Goes
<1>3. Shape'
  BY DEF AskDelete, DefaultInv, Shape, Goes
<1>4. EditsOK'
  BY <1>1, <1>2 DEF DefaultInv, EditsOK
<1>5. Pending(Warning) => Pending(Warning)'
  BY <1>1, <1>2 DEF Pending
<1> QED BY <1>2, <1>3, <1>4, <1>5 DEF DefaultInv, AtMostOne, AtLeastOne

\* The demoted default leaves a pending request, or is known to be stripped.
LEMMA DemoteKeeps ==
  ASSUME DefaultInv, NEW r \in Edits, Demote(r)
  PROVE  DefaultInv'
<1>1. held[r] \in Rows /\ known[r] = Unused
  BY DEF Demote, DefaultInv, EditsOK
<1>2. /\ at'[r] = "writing"
      /\ \A q \in Edits \ {r} : at'[q] = at[q]
      /\ held' = held /\ known' = known /\ want' = want
      /\ type'[held[r]] = Announcement
      /\ \A i \in Rows \ {held[r]} : type'[i] = type[i]
  BY <1>1 DEF Demote, DefaultInv, Shape, Goes
<1>3. Shape'
  BY DEF Demote, DefaultInv, Shape, Goes
<1>4. EditsOK'
  <2>1. want[r].op = "update" => want[r].id \in Rows
    BY DEF Demote, DefaultInv, EditsOK
  <2> QED BY <1>1, <1>2, <2>1 DEF DefaultInv, EditsOK
<1>5. AtMostOne'
  BY <1>1, <1>2 DEF DefaultInv, AtMostOne
<1>6. AtLeastOne'
  <2>1. CASE want[r].type = Warning
    <3>1. Pending(Warning)'
      BY <1>1, <1>2, <2>1, TemplatesAssumption DEF Pending
    <3> QED BY <3>1 DEF AtLeastOne
  <2>2. CASE want[r].type # Warning /\ type[held[r]] = Warning
    BY <2>2 DEF Demote, AtLeastOne
  <2>3. CASE want[r].type # Warning /\ type[held[r]] # Warning
    <3>1. Pending(Warning) => Pending(Warning)'
      BY <1>2, <2>3 DEF Pending
    <3>2. \A i \in Rows : type[i] = Warning => type'[i] = Warning
      BY <1>2, <2>3
    <3>3. stripped \subseteq stripped'
      BY DEF Demote
    <3> QED BY <3>1, <3>2, <3>3 DEF DefaultInv, AtLeastOne
  <2> QED BY <2>1, <2>2, <2>3
<1> QED BY <1>3, <1>4, <1>5, <1>6 DEF DefaultInv

LEMMA CreateKeeps ==
  ASSUME DefaultInv, NEW r \in Edits, Create(r)
  PROVE  DefaultInv'
<1>1. PICK i \in Rows : /\ type[i] = Unused
                        /\ Admits(i, want[r].type)
                        /\ type' = [type EXCEPT ![i] = want[r].type]
  BY DEF Create
<1>2. /\ type'[i] = want[r].type
      /\ \A j \in Rows \ {i} : type'[j] = type[j]
      /\ DOMAIN type' = Rows /\ type' = [j \in Rows |-> type'[j]]
  BY <1>1 DEF DefaultInv, Shape
<1>3. AtMostOne'
  BY <1>1, <1>2 DEF DefaultInv, AtMostOne, Admits, Indexed, Holders
<1>4. CASE want[r].type = Warning
  <2>1. Ends(r) /\ type'[i] = Warning
    BY <1>2, <1>4 DEF Create
  <2> QED BY <1>2, <1>3, <2>1, EndedElsewhere
<1>5. CASE want[r].type # Warning
  <2>1. Warning \in stripped => Warning \in stripped'
    BY <1>5 DEF Create
  <2>2. \A j \in Rows : type[j] = Warning => type'[j] = Warning
    BY <1>1, <1>2
  <2> QED BY <1>2, <1>3, <1>5, <2>1, <2>2, EndedElsewhere DEF Create
<1> QED BY <1>4, <1>5

LEMMA LoadTemplateKeeps ==
  ASSUME DefaultInv, NEW r \in Edits, LoadTemplate(r)
  PROVE  DefaultInv'
<1>1. /\ at[r] = "writing" /\ at'[r] = "loaded" /\ want[r].op = "update" /\ want[r].id \in Rows
      /\ \A q \in Edits \ {r} : at'[q] = at[q] /\ known'[q] = known[q]
      /\ known'[r] = IF known[r] = Unused THEN type[want[r].id] ELSE known[r]
      /\ held' = held /\ want' = want /\ type' = type /\ stripped' = stripped
  BY DEF LoadTemplate, DefaultInv, Shape, Goes, EditsOK
<1>2. Shape'
  BY DEF LoadTemplate, DefaultInv, Shape, Goes
<1>3. EditsOK'
  BY <1>1 DEF DefaultInv, EditsOK
<1>4. AtLeastOne'
  <2>1. CASE held[r] # NoRow /\ known'[r] = Warning
    <3>1. type'[want[r].id] = Warning
      BY <1>1, <2>1 DEF DefaultInv, EditsOK
    <3> QED BY <1>1, <3>1 DEF AtLeastOne
  <2>2. CASE held[r] = NoRow \/ known'[r] # Warning
    <3>1. Pending(Warning) => Pending(Warning)'
      BY <1>1, <2>2 DEF Pending
    <3> QED BY <1>1, <3>1 DEF DefaultInv, AtLeastOne
  <2> QED BY <2>1, <2>2
<1> QED BY <1>1, <1>2, <1>3, <1>4 DEF DefaultInv, AtMostOne

LEMMA UpdateKeeps ==
  ASSUME DefaultInv, NEW r \in Edits, Update(r)
  PROVE  DefaultInv'
<1>1. at[r] = "loaded" /\ want[r].id \in Rows
  BY DEF Update, DefaultInv, EditsOK
<1>2. CASE known[r] = want[r].type /\ UNCHANGED <<type, stripped>>
  <2>1. DOMAIN type' = Rows /\ type' = [j \in Rows |-> type'[j]] /\ AtMostOne'
    BY <1>2 DEF DefaultInv, Shape, AtMostOne
  <2> QED BY <1>1, <1>2, <2>1, EndedElsewhere DEF Update
<1>3. CASE /\ known[r] # want[r].type
           /\ Admits(want[r].id, want[r].type)
           /\ type' = [type EXCEPT ![want[r].id] = want[r].type]
           /\ stripped' = (stripped \cup {type[want[r].id]}) \ {want[r].type}
  <2>1. /\ type'[want[r].id] = want[r].type
        /\ \A j \in Rows \ {want[r].id} : type'[j] = type[j]
        /\ DOMAIN type' = Rows /\ type' = [j \in Rows |-> type'[j]]
    BY <1>1, <1>3 DEF DefaultInv, Shape
  <2>2. AtMostOne'
    BY <1>1, <1>3, <2>1 DEF DefaultInv, AtMostOne, Admits, Indexed, Holders
  <2>3. CASE want[r].type = Warning
    BY <1>1, <2>1, <2>2, <2>3, EndedElsewhere DEF Update
  <2>4. CASE want[r].type # Warning /\ type[want[r].id] = Warning
    BY <1>3, <2>1, <2>2, <2>4, EndedElsewhere DEF Update
  <2>5. CASE want[r].type # Warning /\ type[want[r].id] # Warning
    <3>1. \A j \in Rows : type[j] = Warning => type'[j] = Warning
      BY <2>1, <2>5
    <3>2. Warning \in stripped => Warning \in stripped'
      BY <1>3, <2>5
    <3> QED BY <2>1, <2>2, <2>5, <3>1, <3>2, EndedElsewhere DEF Update
  <2> QED BY <2>3, <2>4, <2>5
<1> QED BY <1>2, <1>3 DEF Update

LEMMA DeleteKeeps ==
  ASSUME DefaultInv, NEW r \in Edits, Delete(r)
  PROVE  DefaultInv'
<1>1. at[r] = "deleting" /\ want[r].id \in Rows
  BY DEF Delete, DefaultInv, EditsOK
<1>2. /\ type'[want[r].id] = Deleted
      /\ \A j \in Rows \ {want[r].id} : type'[j] = type[j]
      /\ DOMAIN type' = Rows /\ type' = [j \in Rows |-> type'[j]]
      /\ stripped' = stripped \cup ({type[want[r].id]} \cap TemplateTypes)
      /\ Ends(r)
  BY <1>1 DEF Delete, DefaultInv, Shape
<1>3. AtMostOne'
  BY <1>1, <1>2 DEF DefaultInv, AtMostOne
<1>4. CASE type[want[r].id] = Warning
  BY <1>2, <1>3, <1>4, EndedElsewhere DEF TemplateTypes
<1>5. CASE type[want[r].id] # Warning
  <2>1. \A j \in Rows : type[j] = Warning => type'[j] = Warning
    BY <1>2, <1>5
  <2> QED BY <1>1, <1>2, <1>3, <2>1, EndedElsewhere
<1> QED BY <1>4, <1>5

LEMMA RequestFailsKeeps ==
  ASSUME DefaultInv, NEW r \in Edits, RequestFails(r)
  PROVE  DefaultInv'
<1>1. /\ DOMAIN type' = Rows /\ type' = [j \in Rows |-> type'[j]] /\ AtMostOne'
      /\ type' = type /\ Ends(r)
  BY DEF RequestFails, DefaultInv, Shape, AtMostOne
<1>2. CASE held[r] # NoRow /\ at[r] # "demoting" /\ want[r].type = Warning
  <2>1. Warning \in stripped'
    BY <1>2 DEF RequestFails
  <2> QED BY <1>1, <2>1, EndedElsewhere
<1>3. CASE ~(held[r] # NoRow /\ at[r] # "demoting" /\ want[r].type = Warning)
  <2>1. Warning \in stripped => Warning \in stripped'
    BY DEF RequestFails
  <2> QED BY <1>1, <1>3, <2>1, EndedElsewhere
<1> QED BY <1>2, <1>3

LEMMA StepDefault == DefaultInv /\ [TemplatesNext]_templateVars => DefaultInv'
<1> SUFFICES ASSUME DefaultInv, [TemplatesNext]_templateVars PROVE DefaultInv'
  OBVIOUS
<1>1. CASE UNCHANGED templateVars
  BY <1>1 DEF templateVars, DefaultInv, Shape, EditsOK, AtMostOne, AtLeastOne, Pending
<1> QED BY <1>1, AskDefaultKeeps, AskDeleteKeeps, DemoteKeeps, CreateKeeps, LoadTemplateKeeps,
           UpdateKeeps, DeleteKeeps, RequestFailsKeeps DEF TemplatesNext

LEMMA InvDefault == DefaultInv => DefaultStands
<1>1. Pending(Warning) => Replacing(Warning)
  BY DEF Pending, Replacing
<1> QED BY <1>1 DEF DefaultInv, AtMostOne, AtLeastOne, DefaultStands, Holders

-----------------------------------------------------------------------------
Asking == {"demoting", "writing", "loaded"}

\* A request on its way still knows what it was asked for.
WishesKept ==
  \A r \in Edits :
    /\ at[r] \in Asking => want[r] \in Wishes /\ want[r].op \in {"create", "update"}
    /\ at[r] = "deleting" => want[r] \in Wishes

TemplatesTyped == TemplatesTypeOK /\ WishesKept

LEMMA WishFields ==
  ASSUME NEW w \in Wishes
  PROVE  /\ w.op \in {"create", "update", "delete"}
         /\ w.op \in {"create", "update"} => w.type \in TemplateTypes
  BY DEF Wishes

LEMMA InitTyped == TemplatesInit => TemplatesTyped
<1> SUFFICES ASSUME TemplatesInit PROVE TemplatesTyped
  OBVIOUS
<1>1. NoWish \in Wishes \cup {NoWish} /\ NoRow \in Rows \cup {NoRow}
  OBVIOUS
<1>2. type \in [Rows -> TemplateTypes \cup {Unused, Deleted}]
  BY DEF TemplatesInit
<1>3. /\ want \in [Edits -> Wishes \cup {NoWish}]
      /\ at \in [Edits -> {"new", "demoting", "writing", "loaded", "deleting", "done"}]
      /\ held \in [Edits -> Rows \cup {NoRow}]
      /\ known \in [Edits -> TemplateTypes \cup {Unused}]
  BY <1>1 DEF TemplatesInit
<1>4. WishesKept
  BY DEF TemplatesInit, WishesKept, Asking
<1> QED BY <1>2, <1>3, <1>4 DEF TemplatesTyped, TemplatesTypeOK, TemplatesInit

\* A request that has ended has no types to keep but those of the table.
LEMMA EndedTyped ==
  ASSUME TemplatesTyped, NEW r \in Edits, Ends(r),
         type' \in [Rows -> TemplateTypes \cup {Unused, Deleted}], stripped' \subseteq TemplateTypes
  PROVE  TemplatesTyped'
<1>1. /\ want' \in [Edits -> Wishes \cup {NoWish}]
      /\ at' \in [Edits -> {"new", "demoting", "writing", "loaded", "deleting", "done"}]
      /\ held' \in [Edits -> Rows \cup {NoRow}]
      /\ known' \in [Edits -> TemplateTypes \cup {Unused}]
  BY DEF Ends, Goes, TemplatesTyped, TemplatesTypeOK
<1>2. at'[r] = "done" /\ \A q \in Edits \ {r} : at'[q] = at[q] /\ want'[q] = want[q]
  BY DEF Ends, Goes, TemplatesTyped, TemplatesTypeOK
<1>3. WishesKept'
  BY <1>2 DEF TemplatesTyped, WishesKept, Asking
<1> QED BY <1>1, <1>3 DEF TemplatesTyped, TemplatesTypeOK

\* A request that goes on keeps what it asks for.
LEMMA GoesTyped ==
  ASSUME TemplatesTyped, NEW r \in Edits, NEW place \in Asking, Goes(r, place), want' = want,
         at[r] \in Asking,
         type' \in [Rows -> TemplateTypes \cup {Unused, Deleted}],
         stripped' \subseteq TemplateTypes,
         held' = held, known' \in [Edits -> TemplateTypes \cup {Unused}]
  PROVE  TemplatesTyped'
<1>1. at' \in [Edits -> {"new", "demoting", "writing", "loaded", "deleting", "done"}]
  BY DEF Goes, TemplatesTyped, TemplatesTypeOK, Asking
<1>2. at'[r] = place /\ \A q \in Edits \ {r} : at'[q] = at[q]
  BY DEF Goes, TemplatesTyped, TemplatesTypeOK
<1>3. WishesKept'
  BY <1>2 DEF TemplatesTyped, WishesKept, Asking
<1> QED BY <1>1, <1>3 DEF TemplatesTyped, TemplatesTypeOK

LEMMA AsksTyped ==
  ASSUME TemplatesTyped, NEW r \in Edits, NEW w \in Wishes, AskDefault(r, w) \/ AskDelete(r, w)
  PROVE  TemplatesTyped'
<1>1. want' \in [Edits -> Wishes \cup {NoWish}] /\ want'[r] = w
  BY DEF AskDefault, AskDelete, TemplatesTyped, TemplatesTypeOK
<1>2. \A q \in Edits \ {r} : want'[q] = want[q]
  BY DEF AskDefault, AskDelete, TemplatesTyped, TemplatesTypeOK
<1>3. UNCHANGED <<type, stripped>>
  BY DEF AskDefault, AskDelete
<1>4. /\ at' \in [Edits -> {"new", "demoting", "writing", "loaded", "deleting", "done"}]
      /\ \A q \in Edits \ {r} : at'[q] = at[q]
      /\ at'[r] \in {"writing", "demoting"} => w.op # "delete"
      /\ at'[r] \in {"writing", "demoting", "deleting"}
  BY DEF AskDefault, AskDelete, Goes, TemplatesTyped, TemplatesTypeOK
<1>5. held' \in [Edits -> Rows \cup {NoRow}]
  BY DEF AskDefault, AskDelete, Holders, TemplatesTyped, TemplatesTypeOK
<1>6. known' \in [Edits -> TemplateTypes \cup {Unused}]
  <2>1. CASE AskDelete(r, w)
    BY <2>1 DEF AskDelete, TemplatesTyped, TemplatesTypeOK
  <2>2. CASE AskDefault(r, w)
    <3>1. w.type \in TemplateTypes
      BY <2>2, WishFields DEF AskDefault
    <3> QED BY <2>2, <3>1 DEF AskDefault, TemplatesTyped, TemplatesTypeOK
  <2> QED BY <2>1, <2>2
<1>7. WishesKept'
  BY <1>1, <1>2, <1>4, WishFields DEF WishesKept, Asking, TemplatesTyped
<1> QED BY <1>1, <1>3, <1>4, <1>5, <1>6, <1>7 DEF TemplatesTyped, TemplatesTypeOK

LEMMA StepTyped == DefaultInv /\ TemplatesTyped /\ [TemplatesNext]_templateVars => TemplatesTyped'
<1> SUFFICES ASSUME DefaultInv, TemplatesTyped, [TemplatesNext]_templateVars
             PROVE  TemplatesTyped'
  OBVIOUS
<1>1. type \in [Rows -> TemplateTypes \cup {Unused, Deleted}] /\ stripped \subseteq TemplateTypes
  BY DEF TemplatesTyped, TemplatesTypeOK
<1>2. \A r \in Edits : at[r] \in Asking => want[r].type \in TemplateTypes
  BY WishFields DEF TemplatesTyped, WishesKept
<1>3. ASSUME NEW r \in Edits, Demote(r) PROVE TemplatesTyped'
  <2>1. type' = [type EXCEPT ![held[r]] = Announcement] /\ Announcement \in TemplateTypes
    BY <1>3 DEF Demote, TemplateTypes
  <2>2. type' \in [Rows -> TemplateTypes \cup {Unused, Deleted}]
    BY <1>1, <2>1
  <2>3. stripped' \subseteq TemplateTypes
    BY <1>1, <1>3 DEF Demote, Exists
  <2>4. known' \in [Edits -> TemplateTypes \cup {Unused}]
    BY <1>3 DEF Demote, TemplatesTyped, TemplatesTypeOK
  <2> QED BY <1>3, <2>2, <2>3, <2>4, GoesTyped DEF Demote, Asking
<1>4. ASSUME NEW r \in Edits, LoadTemplate(r) PROVE TemplatesTyped'
  <2>1. known' \in [Edits -> TemplateTypes \cup {Unused}]
    BY <1>4 DEF LoadTemplate, Exists, TemplatesTyped, TemplatesTypeOK
  <2> QED BY <1>1, <1>4, <2>1, GoesTyped DEF LoadTemplate, Asking
<1>5. ASSUME NEW r \in Edits, Create(r) PROVE TemplatesTyped'
  <2>1. want[r].type \in TemplateTypes
    BY <1>2, <1>5 DEF Create, Asking
  <2>2. /\ type' \in [Rows -> TemplateTypes \cup {Unused, Deleted}]
        /\ stripped' \subseteq TemplateTypes
    BY <1>1, <1>5, <2>1 DEF Create
  <2> QED BY <1>5, <2>2, EndedTyped DEF Create
<1>6. ASSUME NEW r \in Edits, Update(r) PROVE TemplatesTyped'
  <2>1. want[r].type \in TemplateTypes /\ type[want[r].id] \in TemplateTypes
    BY <1>2, <1>6 DEF Update, Asking, Exists
  <2>2. /\ type' \in [Rows -> TemplateTypes \cup {Unused, Deleted}]
        /\ stripped' \subseteq TemplateTypes
    BY <1>1, <1>6, <2>1 DEF Update
  <2> QED BY <1>6, <2>2, EndedTyped DEF Update
<1>7. ASSUME NEW r \in Edits, Delete(r) PROVE TemplatesTyped'
  <2>1. /\ type' \in [Rows -> TemplateTypes \cup {Unused, Deleted}]
        /\ stripped' \subseteq TemplateTypes
    BY <1>1, <1>7 DEF Delete
  <2> QED BY <1>7, <2>1, EndedTyped DEF Delete
<1>8. ASSUME NEW r \in Edits, RequestFails(r) PROVE TemplatesTyped'
  <2>1. held[r] # NoRow /\ at[r] # "demoting" => at[r] \in Asking
    BY <1>8 DEF RequestFails, Asking, DefaultInv, EditsOK
  <2>2. stripped' \subseteq TemplateTypes
    BY <1>1, <1>2, <1>8, <2>1 DEF RequestFails
  <2> QED BY <1>1, <1>8, <2>2, EndedTyped DEF RequestFails
<1>9. CASE UNCHANGED templateVars
  BY <1>9 DEF templateVars, TemplatesTyped, TemplatesTypeOK, WishesKept
<1> QED BY <1>3, <1>4, <1>5, <1>6, <1>7, <1>8, <1>9, AsksTyped DEF TemplatesNext

\* Automatic notifications find their one template, but for the losses that
\* DefaultStands names (notification_template_service.py).
THEOREM TypeIsUnique == TemplatesSpec => []DefaultStands
<1>1. TemplatesSpec => []DefaultInv
  BY InitDefault, StepDefault, PTL DEF TemplatesSpec
<1> QED BY <1>1, InvDefault, PTL

HIDE DEF Warning, Announcement, Unused, Deleted

-----------------------------------------------------------------------------
(***************************************************************************)
(* All of them, side by side.                                              *)
(***************************************************************************)

ServiceInv ==
  /\ CacheInv /\ Levels
  /\ HubInv /\ HubTyped
  /\ DefaultInv /\ TemplatesTyped
  /\ JobsInv

LEMMA InitService == Init => ServiceInv
  BY InitCache, InitLevels, InitHub, InitHubTyped, InitDefault, InitTyped, InitJobs
     DEF Init, ServiceInv

LEMMA StepService == ServiceInv /\ [Next]_vars => ServiceInv'
<1> SUFFICES ASSUME ServiceInv, [Next]_vars PROVE ServiceInv'
  OBVIOUS
<1>1. /\ [IngestNext]_ingestVars /\ [HubNext]_hubVars
      /\ [TemplatesNext]_templateVars /\ [JobsNext]_jobVars
  BY DEF Next, Ingest, Hub, Template, Jobs, vars
<1>2. CacheInv' /\ Levels'
  BY <1>1, StepCache, StepLevels DEF ServiceInv, CacheInv
<1>3. HubInv' /\ HubTyped'
  BY <1>1, StepHub, StepHubTyped DEF ServiceInv
<1>4. DefaultInv' /\ TemplatesTyped'
  BY <1>1, StepDefault, StepTyped DEF ServiceInv
<1>5. JobsInv'
  BY <1>1, StepJobs DEF ServiceInv
<1> QED BY <1>2, <1>3, <1>4, <1>5 DEF ServiceInv

LEMMA Invariant == Spec => []ServiceInv
  BY InitService, StepService, PTL DEF Spec

\* Every variable of the four has values of its type: the place of a request, the
\* reading a status is of, the sockets and versions of a broadcast, the day and
\* the location that a run of the summaries is at.
THEOREM ServiceTyped == Spec => []ServiceTypeOK
<1>1. ServiceInv => ServiceTypeOK
  BY DEF ServiceInv, CacheInv, CacheTypeOK, Places, Levels, IngestTypeOK, HubTyped,
         TemplatesTyped, JobsInv, ServiceTypeOK
<1> QED BY <1>1, Invariant, PTL

\* None of the four disturbs another: what each promises by itself it promises
\* in the process that they share.
THEOREM ServiceSafe ==
  Spec => [](CacheFollowsSaves /\ ClientsAreCurrent /\ DefaultStands /\ DaysAreSummarised)
<1>1. ServiceInv => CacheFollowsSaves /\ ClientsAreCurrent /\ DefaultStands /\ DaysAreSummarised
  BY InvHub, InvDefault
     DEF ServiceInv, CacheInv, JobsInv, Present, Complete, DaysAreSummarised
<1> QED BY <1>1, Invariant, PTL
=============================================================================
