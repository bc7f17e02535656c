--------------------------- MODULE EvacuationProofs ---------------------------
(***************************************************************************)
(* Theorems about public alerts, for any window, retention, bound and       *)
(* number of devices.                                                      *)
(*                                                                         *)
(* The guard against a double alert holds because it remembers a time no    *)
(* earlier than that of any alert of this life of the process. The pruning  *)
(* of the history keeps its newest part because a later event has a later   *)
(* time and a lower rank, so that either limit that spares an event spares  *)
(* those after it.                                                         *)
(***************************************************************************)
EXTENDS Evacuation, FiniteSetTheorems, TLAPS

\* The part of TypeOK that the guard needs.
GuardTypeOK ==
  /\ clock \in Nat /\ life \in Nat
  /\ lastDispatch \in [Kinds -> Nat \cup {Never}]
  /\ last \in Nat
  /\ confirm \in [Confirms -> [kind : Kinds \cup {"none"}, at : Nat, life : Nat]]
  /\ pc \in [Confirms -> {"none"} \cup UnderWay \cup Ended]

\* Confirms beyond the last have not come in; the others have a kind.
InOrder ==
  \A c \in Confirms : IF c > last THEN pc[c] = "none" ELSE confirm[c].kind \in Kinds

\* Nothing comes from the future.
Past == \A c \in Confirms : confirm[c].at <= clock /\ confirm[c].life <= life

\* The guard remembers the alerts of this life.
Remembered ==
  \A c \in Confirms :
    Blasted(c) /\ confirm[c].life = life
      => /\ lastDispatch[confirm[c].kind] # Never
         /\ confirm[c].at <= lastDispatch[confirm[c].kind]

GuardInv ==
  /\ GuardTypeOK
  /\ InOrder
  /\ Past
  /\ Remembered
  /\ NoDoubleBlast

LEMMA InitGuardInv == Init => GuardInv
<1> SUFFICES ASSUME Init PROVE GuardInv
  OBVIOUS
<1>1. GuardTypeOK
  BY DEF Init, GuardTypeOK, NoConfirm
<1>2. \A c \in Confirms : pc[c] = "none" /\ confirm[c] = NoConfirm /\ c > last
  BY DEF Init, Confirms
<1>3. \A c \in Confirms : ~Blasted(c)
  BY <1>2 DEF Blasted, UnderWay
<1> QED
  BY <1>1, <1>2, <1>3 DEF GuardInv, InOrder, Past, Remembered, NoDoubleBlast, Init, NoConfirm

\* A request that goes on, or nothing that the guard reads.
LEMMA Proceeds ==
  ASSUME GuardInv, NEW newpc \in [Confirms -> {"none"} \cup UnderWay \cup Ended],
         pc' = newpc,
         \A c \in Confirms : pc'[c] = pc[c] \/ (Blasted(c) /\ pc[c] # "none"),
         UNCHANGED <<clock, life, lastDispatch, last, confirm>>
  PROVE  GuardInv'
<1>1. \A c \in Confirms : Blasted(c)' => Blasted(c)
  BY DEF Blasted
<1>2. GuardTypeOK'
  BY DEF GuardInv, GuardTypeOK
<1>3. InOrder'
  BY DEF GuardInv, InOrder, Blasted, UnderWay
<1> QED
  BY <1>1, <1>2, <1>3 DEF GuardInv, Past, Remembered, NoDoubleBlast

LEMMA StepProceeds ==
  ASSUME GuardInv, NEW c \in Confirms, Step(c)
  PROVE  GuardInv'
<1>1. /\ pc[c] \in UnderWay
      /\ \E place \in UnderWay \cup Ended : Goes(c, place)
      /\ UNCHANGED <<clock, life, lastDispatch, last, confirm>>
  <2>1. CASE Push(c)
    BY <2>1 DEF Push, UnderWay, Ended
  <2>2. CASE CommitDispatch(c)
    BY <2>2 DEF CommitDispatch, AfterDispatch, UnderWay, Ended
  <2>3. CASE PruneSubscriptions(c)
    BY <2>3 DEF PruneSubscriptions, UnderWay, Ended
  <2>4. CASE Broadcast(c)
    BY <2>4 DEF Broadcast, UnderWay, Ended
  <2>5. CASE Audit(c)
    BY <2>5 DEF Audit, UnderWay, Ended
  <2> QED BY <2>1, <2>2, <2>3, <2>4, <2>5 DEF Step
<1>2. PICK place \in UnderWay \cup Ended : Goes(c, place)
  BY <1>1
<1>3. /\ pc' \in [Confirms -> {"none"} \cup UnderWay \cup Ended]
      /\ \A d \in Confirms : pc'[d] = pc[d] \/ d = c
  BY <1>2 DEF Goes, GuardInv, GuardTypeOK
<1>4. Blasted(c) /\ pc[c] # "none"
  BY <1>1 DEF Blasted, UnderWay
<1> QED BY <1>1, <1>3, <1>4, Proceeds

LEMMA ConfirmKeeps ==
  ASSUME GuardInv, NEW kind \in Kinds, NEW empty \in BOOLEAN, Confirm(kind, empty)
  PROVE  GuardInv'
<1>0. PICK new \in Confirms : new = last + 1
  BY EvacuationAssumption DEF Confirm, Confirms, GuardInv, GuardTypeOK
<1>1. /\ new = last + 1 /\ last' = new /\ new \in Nat /\ last \in Nat
      /\ UNCHANGED <<clock, life>>
  BY <1>0 DEF Confirm, Confirms, GuardInv, GuardTypeOK
<1>2. confirm' = [confirm EXCEPT ![new] = [kind |-> kind, at |-> clock, life |-> life]]
  BY <1>1 DEF Confirm
<1>3. confirm'[new] = [kind |-> kind, at |-> clock, life |-> life]
      /\ \A c \in Confirms \ {new} : confirm'[c] = confirm[c]
  BY <1>1, <1>2 DEF GuardInv, GuardTypeOK
<1>4. \/ Recent(kind) /\ Goes(new, "conflict") /\ UNCHANGED lastDispatch
      \/ /\ ~Recent(kind)
         /\ Goes(new, IF empty THEN "empty" ELSE "sending")
         /\ lastDispatch' = [lastDispatch EXCEPT ![kind] = clock]
  BY <1>1 DEF Confirm, Armed
<1>5. \A c \in Confirms \ {new} : pc'[c] = pc[c] /\ (Blasted(c)' <=> Blasted(c))
  BY <1>1, <1>4 DEF Goes, GuardInv, GuardTypeOK, Blasted
<1>6. GuardTypeOK'
  <2>1. pc' \in [Confirms -> {"none"} \cup UnderWay \cup Ended]
    BY <1>1, <1>4 DEF Goes, GuardInv, GuardTypeOK, UnderWay, Ended
  <2>2. lastDispatch' \in [Kinds -> Nat \cup {Never}]
    BY <1>4 DEF GuardInv, GuardTypeOK
  <2> QED BY <1>1, <1>2, <2>1, <2>2 DEF GuardInv, GuardTypeOK
<1>7. InOrder'
  <2> SUFFICES ASSUME NEW c \in Confirms
               PROVE  IF c > new THEN pc'[c] = "none" ELSE confirm'[c].kind \in Kinds
    BY <1>1 DEF InOrder
  <2>1. CASE c = new
    BY <1>1, <1>3, <2>1
  <2>2. CASE c # new
    BY <1>1, <1>3, <1>5, <2>2 DEF GuardInv, InOrder, Confirms
  <2> QED BY <2>1, <2>2
<1>8. Past'
  BY <1>1, <1>3 DEF GuardInv, GuardTypeOK, Past
<1>9. CASE Recent(kind)
  <2>1. ~Blasted(new)' /\ UNCHANGED lastDispatch
    BY <1>1, <1>4, <1>9 DEF Goes, GuardInv, GuardTypeOK, Blasted, UnderWay
  <2>2. Remembered'
    BY <1>1, <1>3, <1>5, <2>1 DEF GuardInv, Remembered
  <2>3. NoDoubleBlast'
    BY <1>1, <1>3, <1>5, <2>1 DEF GuardInv, NoDoubleBlast
  <2> QED BY <1>6, <1>7, <1>8, <2>2, <2>3 DEF GuardInv
<1>10. CASE ~Recent(kind)
  <2>1. lastDispatch'[kind] = clock
        /\ \A k \in Kinds \ {kind} : lastDispatch'[k] = lastDispatch[k]
    BY <1>4, <1>10 DEF GuardInv, GuardTypeOK
  <2>2. \A c \in Confirms \ {new} : Blasted(c) => c < new /\ confirm[c].kind \in Kinds
    BY <1>1 DEF GuardInv, InOrder, Blasted, UnderWay, Confirms
  <2>3. clock # Never /\ clock \in Nat
    BY EvacuationAssumption DEF GuardInv, GuardTypeOK
  <2>4. Remembered'
    <3> SUFFICES ASSUME NEW c \in Confirms, Blasted(c)', confirm'[c].life = life'
                 PROVE  /\ lastDispatch'[confirm'[c].kind] # Never
                        /\ confirm'[c].at <= lastDispatch'[confirm'[c].kind]
      BY DEF Remembered
    <3>1. CASE c = new
      BY <1>3, <2>1, <2>3, <3>1
    <3>2. CASE c # new /\ confirm[c].kind = kind
      BY <1>3, <2>1, <2>3, <3>2 DEF GuardInv, Past
    <3>3. CASE c # new /\ confirm[c].kind # kind
      BY <1>1, <1>3, <1>5, <2>1, <2>2, <3>3 DEF GuardInv, Remembered
    <3> QED BY <3>1, <3>2, <3>3
  <2>5. \A c \in Confirms \ {new} :
          Blasted(c) /\ confirm[c].kind = kind /\ confirm[c].life = life
            => clock - confirm[c].at >= Window
    <3> SUFFICES ASSUME NEW c \in Confirms \ {new},
                        Blasted(c), confirm[c].kind = kind, confirm[c].life = life
                 PROVE  clock - confirm[c].at >= Window
      OBVIOUS
    <3>1. lastDispatch[kind] # Never /\ confirm[c].at <= lastDispatch[kind]
      BY DEF GuardInv, Remembered
    <3>2. lastDispatch[kind] \in Nat /\ confirm[c].at \in Nat
      BY <3>1 DEF GuardInv, GuardTypeOK
    <3>3. ~(clock - lastDispatch[kind] < Window)
      BY <1>10, <3>1 DEF Recent
    <3> QED BY <2>3, <3>1, <3>2, <3>3, EvacuationAssumption
  <2>6. NoDoubleBlast'
    <3> SUFFICES ASSUME NEW c \in Confirms, NEW d \in Confirms,
                        Blasted(c)', Blasted(d)', c < d,
                        confirm'[c].kind = confirm'[d].kind,
                        confirm'[c].life = confirm'[d].life
                 PROVE  confirm'[d].at - confirm'[c].at >= Window
      BY DEF NoDoubleBlast
    <3>1. CASE d = new
      <4>1. c # new
        BY <1>1, <3>1
      <4>2. Blasted(c) /\ confirm[c].kind = kind /\ confirm[c].life = life
        BY <1>3, <1>5, <3>1, <4>1
      <4>3. confirm'[c] = confirm[c] /\ confirm'[d].at = clock
        BY <1>3, <3>1, <4>1
      <4> QED BY <2>5, <4>1, <4>2, <4>3
    <3>2. CASE c = new
      BY <1>1, <1>5, <2>2, <3>2 DEF Confirms
    <3>3. CASE c # new /\ d # new
      BY <1>3, <1>5, <3>3 DEF GuardInv, NoDoubleBlast
    <3> QED BY <3>1, <3>2, <3>3
  <2> QED BY <1>6, <1>7, <1>8, <2>4, <2>6 DEF GuardInv
<1> QED BY <1>9, <1>10

LEMMA TickKeeps == ASSUME GuardInv, Tick PROVE GuardInv'
<1>1. clock' = clock + 1 /\ UNCHANGED <<life, lastDispatch, last, confirm, pc>>
  BY DEF Tick
<1>2. GuardTypeOK' /\ InOrder' /\ Past'
  BY <1>1 DEF GuardInv, GuardTypeOK, InOrder, Past
<1> QED BY <1>1, <1>2 DEF GuardInv, Remembered, NoDoubleBlast, Blasted

\* A new life has no alert yet.
LEMMA RestartKeeps == ASSUME GuardInv, Restart PROVE GuardInv'
<1>1. /\ life' = life + 1 /\ UNCHANGED <<clock, last, confirm>>
      /\ lastDispatch' = [k \in Kinds |-> Never]
      /\ pc' = [c \in Confirms |-> IF pc[c] \in UnderWay THEN "killed" ELSE pc[c]]
  BY DEF Restart
<1>2. GuardTypeOK'
  BY <1>1 DEF GuardInv, GuardTypeOK, Ended
<1>3. InOrder'
  BY <1>1 DEF GuardInv, InOrder, UnderWay
<1>4. \A c \in Confirms : confirm'[c].life < life' /\ (Blasted(c)' => Blasted(c))
  BY <1>1 DEF GuardInv, GuardTypeOK, Past, Blasted, UnderWay
<1>5. Past' /\ Remembered'
  BY <1>1, <1>4 DEF GuardInv, GuardTypeOK, Past, Remembered
<1>6. NoDoubleBlast'
  BY <1>1, <1>4 DEF GuardInv, NoDoubleBlast
<1> QED BY <1>2, <1>3, <1>5, <1>6 DEF GuardInv

LEMMA NextKeeps == GuardInv /\ [Next]_vars => GuardInv'
<1> SUFFICES ASSUME GuardInv, [Next]_vars PROVE GuardInv'
  OBVIOUS
<1>1. ASSUME UNCHANGED <<clock, life, lastDispatch, last, confirm, pc>>
      PROVE  GuardInv'
  BY <1>1, Proceeds DEF GuardInv, GuardTypeOK
<1>2. CASE \E d \in Devices : Subscribe(d) \/ Unsubscribe(d)
  BY <1>1, <1>2 DEF Subscribe, Unsubscribe
<1>3. CASE Cleanup
  BY <1>1, <1>3 DEF Cleanup
<1>4. CASE UNCHANGED vars
  BY <1>1, <1>4 DEF vars
<1> QED
  BY <1>2, <1>3, <1>4, ConfirmKeeps, StepProceeds, TickKeeps, RestartKeeps DEF Next

\* No two alerts of one kind and one life of the process within the window.
THEOREM NoDouble == Spec => []NoDoubleBlast
<1>1. GuardInv => NoDoubleBlast
  BY DEF GuardInv
<1> QED BY InitGuardInv, NextKeeps, <1>1, PTL DEF Spec
-----------------------------------------------------------------------------
(***************************************************************************)
(* Types.                                                                  *)
(***************************************************************************)

LEMMA InitTyped == Init => TypeOK
<1> SUFFICES ASSUME Init PROVE TypeOK
  OBVIOUS
<1>1. 0 \in 0 .. MaxClock /\ 0 \in 0 .. MaxLife /\ 1 \in 1 .. MaxLife /\ 0 \in 0 .. MaxConfirms
  BY EvacuationAssumption
<1>2. NoConfirm \in [kind : Kinds \cup {"none"}, at : 0 .. MaxClock, life : 0 .. MaxLife]
  BY <1>1 DEF NoConfirm
<1>3. confirm \in [Confirms -> [kind : Kinds \cup {"none"}, at : 0 .. MaxClock,
                                life : 0 .. MaxLife]]
  BY <1>2 DEF Init
<1>4. /\ pc \in [Confirms -> {"none"} \cup UnderWay \cup Ended]
      /\ lastDispatch \in [Kinds -> (0 .. MaxClock) \cup {Never}]
      /\ gone \in [Confirms -> SUBSET Devices] /\ reached \in [Confirms -> SUBSET Devices]
  BY DEF Init
<1> QED BY <1>1, <1>3, <1>4 DEF Init, TypeOK

LEMMA StepTyped ==
  ASSUME TypeOK, NEW c \in Confirms, Step(c)
  PROVE  TypeOK'
<1>1. UNCHANGED <<clock, life, lastDispatch, last, confirm>>
  BY DEF Step, Push, CommitDispatch, PruneSubscriptions, Broadcast, Audit
<1>2. pc' \in [Confirms -> {"none"} \cup UnderWay \cup Ended]
  <2>1. \E place \in UnderWay \cup Ended : Goes(c, place)
    <3>1. CASE Push(c)
      BY <3>1 DEF Push, UnderWay, Ended
    <3>2. CASE CommitDispatch(c)
      BY <3>2 DEF CommitDispatch, AfterDispatch, UnderWay, Ended
    <3>3. CASE PruneSubscriptions(c)
      BY <3>3 DEF PruneSubscriptions, UnderWay, Ended
    <3>4. CASE Broadcast(c)
      BY <3>4 DEF Broadcast, UnderWay, Ended
    <3>5. CASE Audit(c)
      BY <3>5 DEF Audit, UnderWay, Ended
    <3> QED BY <3>1, <3>2, <3>3, <3>4, <3>5 DEF Step
  <2> QED BY <2>1 DEF Goes, TypeOK
<1>3. dispatched' \subseteq Confirms /\ history' \subseteq Confirms /\ live' \subseteq Confirms
  BY DEF Step, Push, CommitDispatch, PruneSubscriptions, Broadcast, Audit, recorded, TypeOK
<1>4. /\ subscribed' \subseteq Devices /\ expired' \subseteq Devices
      /\ gone' \in [Confirms -> SUBSET Devices] /\ reached' \in [Confirms -> SUBSET Devices]
  <2>1. CASE Push(c)
    <3>1. PICK tried \in SUBSET subscribed :
            \E outcome \in [tried -> {"sent", "failed", "gone"}] :
              LET dead == {d \in tried : outcome[d] = "gone"} IN
                /\ expired' = expired \cup dead
                /\ reached' = [reached EXCEPT ![c] = {d \in tried : outcome[d] = "sent"}]
                /\ gone' = gone \/ gone' = [gone EXCEPT ![c] = dead]
      BY <2>1 DEF Push
    <3>2. PICK outcome \in [tried -> {"sent", "failed", "gone"}] :
              LET dead == {d \in tried : outcome[d] = "gone"} IN
                /\ expired' = expired \cup dead
                /\ reached' = [reached EXCEPT ![c] = {d \in tried : outcome[d] = "sent"}]
                /\ gone' = gone \/ gone' = [gone EXCEPT ![c] = dead]
      BY <3>1
    <3>3. /\ {d \in tried : outcome[d] = "gone"} \subseteq Devices
          /\ {d \in tried : outcome[d] = "sent"} \subseteq Devices
      BY DEF TypeOK
    <3> QED BY <2>1, <3>2, <3>3 DEF Push, TypeOK
  <2>2. CASE PruneSubscriptions(c)
    <3>1. {} \in SUBSET Devices
      OBVIOUS
    <3> QED BY <2>2, <3>1 DEF PruneSubscriptions, TypeOK
  <2>3. CASE CommitDispatch(c) \/ Broadcast(c) \/ Audit(c)
    BY <2>3 DEF CommitDispatch, Broadcast, Audit, TypeOK
  <2> QED BY <2>1, <2>2, <2>3 DEF Step
<1> QED BY <1>1, <1>2, <1>3, <1>4 DEF TypeOK

LEMMA ConfirmTyped ==
  ASSUME TypeOK, NEW kind \in Kinds, NEW empty \in BOOLEAN, Confirm(kind, empty)
  PROVE  TypeOK'
<1> DEFINE new == last + 1
           record == [kind |-> kind, at |-> clock, life |-> life]
<1>1. new \in Confirms /\ new \in 0 .. MaxConfirms
  BY EvacuationAssumption DEF TypeOK, Confirms, Confirm
<1>2. life \in 0 .. MaxLife /\ clock \in 0 .. MaxClock
  BY DEF TypeOK
<1>3. record \in [kind : Kinds \cup {"none"}, at : 0 .. MaxClock, life : 0 .. MaxLife]
  BY <1>2
<1> HIDE DEF record
<1>4. confirm' = [confirm EXCEPT ![new] = record]
  BY DEF Confirm, record
<1>5. confirm' \in [Confirms -> [kind : Kinds \cup {"none"}, at : 0 .. MaxClock,
                                 life : 0 .. MaxLife]]
  BY <1>3, <1>4 DEF TypeOK
<1>6. pc' \in [Confirms -> {"none"} \cup UnderWay \cup Ended]
  BY DEF Confirm, Goes, TypeOK, UnderWay, Ended
<1>7. lastDispatch' \in [Kinds -> (0 .. MaxClock) \cup {Never}]
  BY <1>2 DEF Confirm, Armed, TypeOK
<1> QED BY <1>1, <1>5, <1>6, <1>7 DEF Confirm, recorded, TypeOK

LEMMA NextTyped == TypeOK /\ [Next]_vars => TypeOK'
<1> SUFFICES ASSUME TypeOK, [Next]_vars PROVE TypeOK'
  OBVIOUS
<1>1. ASSUME NEW d \in Devices, Subscribe(d) \/ Unsubscribe(d) PROVE TypeOK'
  BY <1>1 DEF Subscribe, Unsubscribe, recorded, TypeOK
<1>2. CASE Cleanup
  BY <1>2 DEF Cleanup, TypeOK
<1>3. CASE Tick
  <2>1. clock' \in 0 .. MaxClock
    BY <1>3, EvacuationAssumption DEF Tick, TypeOK
  <2> QED BY <1>3, <2>1 DEF Tick, recorded, TypeOK
<1>4. CASE Restart
  <2>1. life' \in 1 .. MaxLife
    BY <1>4, EvacuationAssumption DEF Restart, TypeOK
  <2>2. pc' \in [Confirms -> {"none"} \cup UnderWay \cup Ended]
    BY <1>4 DEF Restart, TypeOK, Ended
  <2>3. gone' \in [Confirms -> SUBSET Devices]
    BY <1>4 DEF Restart
  <2>4. lastDispatch' \in [Kinds -> (0 .. MaxClock) \cup {Never}]
    BY <1>4 DEF Restart
  <2> QED BY <1>4, <2>1, <2>2, <2>3, <2>4 DEF Restart, recorded, TypeOK
<1>5. CASE UNCHANGED vars
  BY <1>5 DEF vars, TypeOK
<1> QED BY <1>1, <1>2, <1>3, <1>4, <1>5, StepTyped, ConfirmTyped DEF Next

\* Every variable has values of its type (evacuation_service.py, its models).
THEOREM TypeCorrect == Spec => []TypeOK
  BY InitTyped, NextTyped, PTL DEF Spec

-----------------------------------------------------------------------------
(***************************************************************************)
(* The history.                                                            *)
(***************************************************************************)

\* A greater number has a later time, and only what has come in is audited.
Dated ==
  /\ \A c, d \in Confirms : c < d /\ d <= last => confirm[c].at <= confirm[d].at
  /\ \A c \in history : c <= last

HistoryInv == GuardInv /\ TypeOK /\ Dated

LEMMA InitHistory == Init => HistoryInv
<1>1. Init => Dated
  BY DEF Init, Dated, Confirms
<1> QED BY <1>1, InitGuardInv, InitTyped DEF HistoryInv

LEMMA NextHistory == HistoryInv /\ [Next]_vars => HistoryInv'
<1> SUFFICES ASSUME HistoryInv, [Next]_vars PROVE HistoryInv'
  OBVIOUS
<1>1. GuardInv' /\ TypeOK'
  BY NextKeeps, NextTyped DEF HistoryInv
<1>2. /\ last \in Int /\ history \subseteq Confirms
      /\ \A c \in Confirms : c \in Int
  BY DEF HistoryInv, TypeOK, Confirms
<1>3. UNCHANGED <<last, confirm>> /\ history' \subseteq history => Dated'
  BY DEF HistoryInv, Dated
<1>4. ASSUME NEW c \in Confirms, Audit(c) PROVE Dated'
  <2>1. c <= last
    BY <1>2, <1>4 DEF Audit, HistoryInv, GuardInv, InOrder
  <2> QED BY <1>4, <2>1 DEF Audit, HistoryInv, Dated
<1>5. ASSUME NEW kind \in Kinds, NEW empty \in BOOLEAN, Confirm(kind, empty)
      PROVE  Dated'
  <2>1. /\ last' = last + 1 /\ last + 1 \in Confirms
        /\ confirm' = [confirm EXCEPT ![last + 1] = [kind |-> kind, at |-> clock, life |-> life]]
        /\ history' = history
    BY <1>5, EvacuationAssumption DEF Confirm, recorded, HistoryInv, TypeOK, Confirms
  <2>2. /\ confirm'[last + 1].at = clock
        /\ \A c \in Confirms : c # last + 1 => confirm'[c] = confirm[c]
    BY <2>1 DEF HistoryInv, TypeOK
  <2>3. \A c \in Confirms : confirm[c].at <= clock
    BY DEF HistoryInv, GuardInv, Past
  <2>4. ASSUME NEW c \in Confirms, NEW d \in Confirms, c < d, d <= last + 1
        PROVE  confirm'[c].at <= confirm'[d].at
    <3>1. CASE d = last + 1
      BY <1>2, <2>2, <2>3, <2>4, <3>1
    <3>2. CASE d # last + 1
      <4>1. d <= last /\ c # last + 1
        BY <1>2, <2>4, <3>2
      <4> QED BY <2>2, <2>4, <3>2, <4>1 DEF HistoryInv, Dated
    <3> QED BY <3>1, <3>2
  <2>5. \A c \in history : c <= last + 1
    BY <1>2 DEF HistoryInv, Dated
  <2> QED BY <2>1, <2>4, <2>5 DEF Dated
<1>6. ASSUME NEW c \in Confirms, Step(c), ~Audit(c) PROVE UNCHANGED <<last, confirm, history>>
  BY <1>6 DEF Step, Push, CommitDispatch, PruneSubscriptions, Broadcast, recorded
<1>7. ASSUME NEW d \in Devices, Subscribe(d) \/ Unsubscribe(d)
      PROVE  UNCHANGED <<last, confirm, history>>
  BY <1>7 DEF Subscribe, Unsubscribe, recorded
<1>8. Cleanup \/ Tick \/ Restart \/ UNCHANGED vars =>
        UNCHANGED <<last, confirm>> /\ history' \subseteq history
  BY DEF Cleanup, Tick, Restart, vars, recorded
<1>9. Dated'
  BY <1>3, <1>4, <1>5, <1>6, <1>7, <1>8 DEF Next
<1> QED BY <1>1, <1>9 DEF HistoryInv

\* An older event of the history has at least the rank of a newer one.
LEMMA OlderRanksHigher ==
  ASSUME TypeOK, NEW c \in history, NEW e \in history, e <= c
  PROVE  Rank(c) \in Nat /\ Rank(e) \in Nat /\ Rank(c) <= Rank(e)
<1>1. IsFiniteSet(Confirms)
  BY FS_Interval, EvacuationAssumption DEF Confirms
<1>2. history \subseteq Confirms /\ \A d \in history : d \in Int
  BY DEF TypeOK, Confirms
<1>3. /\ {d \in history : d >= e} \subseteq Confirms
      /\ {d \in history : d >= c} \subseteq {d \in history : d >= e}
  BY <1>2
<1>4. IsFiniteSet({d \in history : d >= e})
  BY <1>1, <1>3, FS_Subset
<1>5. /\ Cardinality({d \in history : d >= c}) <= Cardinality({d \in history : d >= e})
      /\ IsFiniteSet({d \in history : d >= c})
  BY <1>3, <1>4, FS_Subset
<1> QED BY <1>4, <1>5, FS_CardinalityType DEF Rank

LEMMA PruneStep ==
  ASSUME HistoryInv, [Next]_vars
  PROVE  \A c \in history \ history', e \in history' : c < e
<1>1. ASSUME Cleanup, NEW c \in history \ history', NEW e \in history'
      PROVE  c < e
  <2>1. e \in history /\ ~Stale(e) /\ Stale(c) /\ c \in history
    BY <1>1 DEF Cleanup
  <2>2. c \in Confirms /\ e \in Confirms /\ c \in Int /\ e \in Int /\ c <= last
    BY <2>1 DEF HistoryInv, TypeOK, Confirms, Dated
  <2>3. SUFFICES ASSUME e <= c PROVE FALSE
    BY <2>2
  <2>4. c # e
    BY <2>1
  <2>5. confirm[e].at <= confirm[c].at
    BY <2>2, <2>3, <2>4 DEF HistoryInv, Dated
  <2>6. /\ confirm[e].at \in Int /\ confirm[c].at \in Int /\ clock \in Int
        /\ Retention \in Int /\ Keep \in Int
    BY <2>2, EvacuationAssumption DEF HistoryInv, TypeOK
  <2>7. Rank(c) \in Nat /\ Rank(e) \in Nat /\ Rank(c) <= Rank(e)
    BY <2>1, <2>3, OlderRanksHigher DEF HistoryInv
  <2>8. CASE confirm[c].at < clock - Retention
    BY <2>1, <2>5, <2>6, <2>8 DEF Stale
  <2>9. CASE Rank(c) > Keep
    BY <2>1, <2>6, <2>7, <2>9 DEF Stale
  <2> QED BY <2>1, <2>8, <2>9 DEF Stale
<1>2. ~Cleanup => history \subseteq history'
  BY DEF Next, Step, Push, CommitDispatch, PruneSubscriptions, Broadcast, Audit, Confirm,
         Subscribe, Unsubscribe, Tick, Restart, vars, recorded
<1> QED BY <1>1, <1>2

\* prune never deletes an alert and keeps an older one (CRUDEvacuationEvent),
\* whichever of its two limits it is that has been reached.
THEOREM PruneKeeps == Spec => PruneKeepsNewest
<1>1. Spec => []HistoryInv
  BY InitHistory, NextHistory, PTL DEF Spec
<1>2. HistoryInv /\ [Next]_vars => [\A c \in history \ history', e \in history' : c < e]_vars
  BY PruneStep
<1> QED BY <1>1, <1>2, PTL DEF Spec, PruneKeepsNewest
=============================================================================
