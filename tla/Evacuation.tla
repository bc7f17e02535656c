------------------------------ MODULE Evacuation ------------------------------
(***************************************************************************)
(* Public alerts: an admin confirms an evacuation or its end               *)
(* (app/services/evacuation_service.py). One location; its citizens'       *)
(* devices, the live broadcast, the audit rows that the citizen app reads  *)
(* as a history, and the job that prunes them.                             *)
(*                                                                         *)
(* A confirm is a request; confirms are numbered in the order in which     *)
(* they read the time, so that a greater number has a later created_at.    *)
(***************************************************************************)
EXTENDS Integers, FiniteSets

CONSTANTS
  Devices,      \* endpoints of citizens
  Never,        \* no entry in _last_dispatch
  Window,       \* CONFIRM_DEDUPE_SECONDS, in ticks
  Retention,    \* alert_retention_days, in ticks
  Keep,         \* alert_retention_max
  Raises,       \* whether an await of a request may raise: a push something else
                \* than WebPushException, a transaction or a refresh anything
  MaxConfirms,  \* bound of the confirms
  MaxClock,     \* bound of the clock
  MaxLife       \* bound of the starts of the process

Kinds == {"evacuate", "all_clear"}
Confirms == 1 .. MaxConfirms
UnderWay == {"sending", "pushed", "pruning", "broadcasting", "auditing"}
Ended == {"audited", "conflict", "empty", "failed", "killed"}

ASSUME EvacuationAssumption ==
  /\ Never \notin Nat
  /\ Window \in Nat \ {0}
  /\ Retention \in Nat
  /\ Keep \in Nat
  /\ Raises \in BOOLEAN
  /\ MaxConfirms \in Nat
  /\ MaxClock \in Nat
  /\ MaxLife \in Nat \ {0}

VARIABLES
  clock,         \* time.monotonic()
  life,          \* which start of the process this is
  lastDispatch,  \* _last_dispatch of this location
  last,          \* the last confirm that came in
  confirm,       \* what each confirm is: kind, time and life
  pc,            \* where it stands, or how it ended
  subscribed,    \* citizen_subscriptions
  expired,       \* devices that the push service has reported gone
  gone,          \* those each confirm has found gone and is to remove
  reached,       \* the devices that accepted the push of each confirm
  dispatched,    \* confirms with a notification_dispatches row
  live,          \* confirms whose public_alert was broadcast
  history        \* evacuation_events

recorded == <<dispatched, live, history>>
vars == <<clock, life, lastDispatch, last, confirm, pc, subscribed, expired, gone,
          reached, dispatched, live, history>>

NoConfirm == [kind |-> "none", at |-> 0, life |-> 0]

TypeOK ==
  /\ clock \in 0 .. MaxClock
  /\ life \in 1 .. MaxLife
  /\ lastDispatch \in [Kinds -> (0 .. MaxClock) \cup {Never}]
  /\ last \in 0 .. MaxConfirms
  /\ confirm \in [Confirms -> [kind : Kinds \cup {"none"}, at : 0 .. MaxClock,
                               life : 0 .. MaxLife]]
  /\ pc \in [Confirms -> {"none"} \cup UnderWay \cup Ended]
  /\ subscribed \subseteq Devices /\ expired \subseteq Devices
  /\ gone \in [Confirms -> SUBSET Devices]
  /\ reached \in [Confirms -> SUBSET Devices]
  /\ dispatched \subseteq Confirms /\ history \subseteq Confirms
  /\ live \subseteq Confirms

Init ==
  /\ clock = 0 /\ life = 1
  /\ lastDispatch = [k \in Kinds |-> Never]
  /\ last = 0
  /\ confirm = [c \in Confirms |-> NoConfirm]
  /\ pc = [c \in Confirms |-> "none"]
  /\ subscribed \in SUBSET Devices /\ expired = {}
  /\ gone = [c \in Confirms |-> {}]
  /\ reached = [c \in Confirms |-> {}]
  /\ dispatched = {} /\ live = {} /\ history = {}

Goes(c, place) == pc' = [pc EXCEPT ![c] = place]

-----------------------------------------------------------------------------
(***************************************************************************)
(* EvacuationService.confirm, one action for each await.                   *)
(***************************************************************************)

\* A slip: the window ends a tick early.
RecentTooShort(kind) ==
  lastDispatch[kind] # Never /\ clock - lastDispatch[kind] < Window - 1
Recent(kind) ==
  lastDispatch[kind] # Never /\ clock - lastDispatch[kind] < Window

\* A slip: the end of the window is stored.
ArmedUntil(kind) == [lastDispatch EXCEPT ![kind] = clock + Window]
Armed(kind) == [lastDispatch EXCEPT ![kind] = clock]

\* The guard arms before the message is looked at: an empty one is refused
\* and yet counts as a dispatch.
Confirm(kind, empty) ==
  /\ last < MaxConfirms
  /\ last' = last + 1
  /\ confirm' = [confirm EXCEPT ![last + 1] = [kind |-> kind, at |-> clock, life |-> life]]
  /\ \/ /\ Recent(kind)
        /\ Goes(last + 1, "conflict")
        /\ UNCHANGED lastDispatch
     \/ /\ ~Recent(kind)
        /\ Goes(last + 1, IF empty THEN "empty" ELSE "sending")
        /\ lastDispatch' = Armed(kind)
  /\ UNCHANGED <<clock, life, subscribed, expired, gone, reached, recorded>>

\* The subscriptions of the location are read and pushed to, one by one. The
\* calls block the event loop. An exception leaves the request with what was pushed.
Push(c) ==
  /\ pc[c] = "sending"
  /\ \E tried \in SUBSET subscribed : \E outcome \in [tried -> {"sent", "failed", "gone"}] :
       LET dead == {d \in tried : outcome[d] = "gone"} IN
       /\ tried \cap expired \subseteq dead
       /\ expired' = expired \cup dead
       /\ reached' = [reached EXCEPT ![c] = {d \in tried : outcome[d] = "sent"}]
       /\ \/ /\ tried = subscribed
             /\ gone' = [gone EXCEPT ![c] = dead]
             /\ Goes(c, "pushed")
          \/ /\ Raises
             /\ UNCHANGED gone
             /\ Goes(c, "failed")
  /\ UNCHANGED <<clock, life, lastDispatch, last, confirm, subscribed, recorded>>

\* The dead subscriptions are removed if there are any.
AfterDispatchReturns(c) == IF gone[c] # {} THEN "pruning" ELSE "audited"
AfterDispatch(c) == IF gone[c] # {} THEN "pruning" ELSE "broadcasting"

\* A commit may raise before or after the database has it; so may what follows.
CommitDispatch(c) ==
  /\ pc[c] = "pushed"
  /\ \/ /\ dispatched' = dispatched \cup {c}
        /\ Goes(c, AfterDispatch(c))
     \/ /\ Raises
        /\ dispatched' \in {dispatched, dispatched \cup {c}}
        /\ Goes(c, "failed")
  /\ UNCHANGED <<clock, life, lastDispatch, last, confirm, subscribed, expired, gone,
                 reached, live, history>>

PruneSubscriptions(c) ==
  /\ pc[c] = "pruning"
  /\ gone' = [gone EXCEPT ![c] = {}]
  /\ \/ /\ subscribed' = subscribed \ gone[c]
        /\ Goes(c, "broadcasting")
     \/ /\ Raises
        /\ subscribed' \in {subscribed, subscribed \ gone[c]}
        /\ Goes(c, "failed")
  /\ UNCHANGED <<clock, life, lastDispatch, last, confirm, expired, reached, recorded>>

Broadcast(c) ==
  /\ pc[c] = "broadcasting"
  /\ live' = live \cup {c}
  /\ Goes(c, "auditing")
  /\ UNCHANGED <<clock, life, lastDispatch, last, confirm, subscribed, expired, gone,
                 reached, dispatched, history>>

Audit(c) ==
  /\ pc[c] = "auditing"
  /\ \/ /\ history' = history \cup {c}
        /\ Goes(c, "audited")
     \/ /\ Raises
        /\ history' \in {history, history \cup {c}}
        /\ Goes(c, "failed")
  /\ UNCHANGED <<clock, life, lastDispatch, last, confirm, subscribed, expired, gone,
                 reached, dispatched, live>>

-----------------------------------------------------------------------------
(***************************************************************************)
(* Citizens, the nightly job, time and restarts.                           *)
(***************************************************************************)

\* A device subscribes once more or for the first time; a dead endpoint does
\* not come back.
Subscribe(d) ==
  /\ d \notin subscribed \cup expired
  /\ subscribed' = subscribed \cup {d}
  /\ UNCHANGED <<clock, life, lastDispatch, last, confirm, pc, expired, gone, reached,
                 recorded>>

Unsubscribe(d) ==
  /\ d \in subscribed
  /\ subscribed' = subscribed \ {d}
  /\ UNCHANGED <<clock, life, lastDispatch, last, confirm, pc, expired, gone, reached,
                 recorded>>

\* The rank of an event among those of the location, newest first.
RankOldestFirst(c) == Cardinality({e \in history : e <= c})
Rank(c) == Cardinality({e \in history : e >= c})

\* prune: too old, or beyond the newest Keep.
Stale(c) == confirm[c].at < clock - Retention \/ Rank(c) > Keep

Cleanup ==
  /\ \E c \in history : Stale(c)
  /\ history' = {c \in history : ~Stale(c)}
  /\ UNCHANGED <<clock, life, lastDispatch, last, confirm, pc, subscribed, expired, gone,
                 reached, dispatched, live>>

Tick ==
  /\ clock < MaxClock
  /\ clock' = clock + 1
  /\ UNCHANGED <<life, lastDispatch, last, confirm, pc, subscribed, expired, gone,
                 reached, recorded>>

\* The process dies: the requests under way end, and the guard forgets.
Restart ==
  /\ life < MaxLife
  /\ life' = life + 1
  /\ lastDispatch' = [k \in Kinds |-> Never]
  /\ pc' = [c \in Confirms |-> IF pc[c] \in UnderWay THEN "killed" ELSE pc[c]]
  /\ gone' = [c \in Confirms |-> {}]
  /\ UNCHANGED <<clock, last, confirm, subscribed, expired, reached, recorded>>

Step(c) ==
  Push(c) \/ CommitDispatch(c) \/ PruneSubscriptions(c) \/ Broadcast(c) \/ Audit(c)

Next ==
  \/ \E kind \in Kinds, empty \in BOOLEAN : Confirm(kind, empty)
  \/ \E c \in Confirms : Step(c)
  \/ \E d \in Devices : Subscribe(d) \/ Unsubscribe(d)
  \/ Cleanup \/ Tick \/ Restart

Spec == Init /\ [][Next]_vars

\* The event loop runs every request whose await has returned.
FairSpec == Spec /\ \A c \in Confirms : WF_vars(Step(c))

-----------------------------------------------------------------------------
(***************************************************************************)
(* Properties.                                                             *)
(***************************************************************************)

Blasted(c) == pc[c] \in UnderWay \cup {"audited", "failed", "killed"}

\* "Two admins can't double-blast the public": while the process lives, two
\* alerts of one kind are at least the window apart, however their sends
\* overlap and whatever becomes of them (_guard_double_dispatch).
NoDoubleBlast ==
  \A c, d \in Confirms :
    ( /\ Blasted(c) /\ Blasted(d) /\ c < d
      /\ confirm[c].kind = confirm[d].kind
      /\ confirm[c].life = confirm[d].life )
      => confirm[d].at - confirm[c].at >= Window

\* The job never deletes an alert and keeps an older one: what the citizen app
\* reads is the newest part of the history (CRUDEvacuationEvent.prune).
PruneKeepsNewest ==
  [][\A c \in history \ history', e \in history' : c < e]_vars

\* "The authorization happened regardless of subscriber count": an alert is
\* broadcast and gets its audit row, or its request ends with an exception, which
\* the admin sees, or the process dies. None ends as if all were well without both.
BlastIsAudited ==
  \A c \in Confirms :
    pc[c] = "sending" ~> c \in history \cap live \/ pc[c] \in {"failed", "killed"}

\* "Commit the dispatch row regardless of send outcomes": a send that has
\* reached a device and is over has its row, unless the process died.
DispatchedRegardless ==
  \A c \in Confirms :
    reached[c] # {} /\ pc[c] \in Ended \ {"killed"} => c \in dispatched
=============================================================================
