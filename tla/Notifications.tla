---------------------------- MODULE Notifications ----------------------------
(***************************************************************************)
(* Push notifications to responders: the sends, their deliveries and       *)
(* acknowledgements (app/services/notification_service.py) and the job     *)
(* that escalates unacknowledged critical ones (app/core/escalation.py).   *)
(*                                                                         *)
(* Rows are those committed to PostgreSQL; a transaction shows nothing of  *)
(* itself before its commit except the row locks it holds. The webpush     *)
(* calls block the event loop, so that the pushes of one send are a single *)
(* step.                                                                   *)
(***************************************************************************)
EXTENDS Integers, FiniteSets, SequencesExt

CONSTANTS
  Responders,
  Endpoints,      \* push subscriptions that may ever exist
  NoEndpoint,     \* the None of subscription_id
  Owner,          \* [Endpoints -> Responders]
  Senders,        \* requests of admins that send a notification
  Job,            \* the escalation job; the scheduler runs one at a time
  Payloads,       \* what an admin may post
  Results,        \* outcomes of a push
  MaxEscalation,  \* max_escalation_count
  MaxDispatch,    \* bound of the notification_dispatches rows
  MaxAttempts,    \* bound of the attempts for one delivery
  MaxFaults       \* bound of the crashes, and of what raises

Tasks == Senders \cup {Job}
Kinds == {"critical", "warning", "blockage", "announcement", "maintenance"}
Dispatches == 1 .. MaxDispatch
Deliveries == Dispatches \X Responders
AllResults == {"sent", "failed", "gone"}

\* SendNotificationSchema: the type of the template or of the custom text.
PayloadType == [template : Kinds \cup {"none"}, custom : Kinds \cup {"none"},
                system : BOOLEAN]

ASSUME NotificationsAssumption ==
  /\ IsFiniteSet(Endpoints) /\ IsFiniteSet(Senders)
  /\ NoEndpoint \notin Endpoints
  /\ Owner \in [Endpoints -> Responders]
  /\ Job \notin Senders
  /\ Payloads \subseteq PayloadType
  /\ Results \subseteq AllResults
  /\ MaxEscalation \in Nat \ {0}
  /\ MaxDispatch \in Nat
  /\ MaxAttempts \in Nat
  /\ MaxFaults \in Nat

VARIABLES
  subscribed,  \* push_subscriptions
  expired,     \* endpoints the push service has reported gone
  last,        \* the last dispatch committed
  kind,        \* its type, per dispatch
  status,      \* per delivery: "none" before its row exists
  reached,     \* deliveries that some device accepted
  count,       \* escalation_count
  acking,      \* acknowledgements inserted and not yet committed
  acked,       \* deliveries with an acknowledgement
  aged,        \* dispatches sent longer ago than the escalation timeout
  pc,          \* where each send stands
  send,        \* the type and the responders of each send
  result,      \* what the pushes of each send came to
  overdue,     \* the deliveries the job has selected
  uncounted,   \* those it has still to count
  attempts,    \* how often the job pushed because of a delivery
  late,        \* how often it did so after the acknowledgement
  lost,        \* and how often its count was lost, by an exception or a crash
  faults       \* the crashes and exceptions so far

rows == <<last, kind, status>>
acks == <<acking, acked>>
pushed == <<attempts, late, lost>>
vars == <<subscribed, expired, last, kind, status, reached, count, acking, acked,
          aged, pc, send, result, overdue, uncounted, attempts, late, lost, faults>>

NoSend == [kind |-> "none", to |-> {}]

\* What is recorded of a responder without a subscription. The column's own
\* default would be "pending".
NoRowPending == [status |-> "pending", sub |-> NoEndpoint]
NoRow == [status |-> "failed", sub |-> NoEndpoint]

NoResult == [row |-> [r \in Responders |-> NoRow], gone |-> {}, reached |-> {}]
Row == [status : {"sent", "failed"}, sub : Endpoints \cup {NoEndpoint}]

TypeOK ==
  /\ subscribed \subseteq Endpoints
  /\ expired \subseteq Endpoints
  /\ last \in 0 .. MaxDispatch
  /\ kind \in [Dispatches -> Kinds \cup {"none"}]
  /\ status \in [Deliveries -> {"none", "sent", "failed"}]
  /\ reached \subseteq Deliveries
  /\ count \in [Deliveries -> Nat]
  /\ acking \subseteq Deliveries
  /\ acked \subseteq Deliveries
  /\ aged \subseteq Dispatches
  /\ pc \in [Tasks -> {"idle", "locking", "sending", "pushed"}]
  /\ send \in [Tasks -> [kind : Kinds \cup {"none"}, to : SUBSET Responders]]
  /\ result \in [Tasks -> [row : [Responders -> Row], gone : SUBSET Endpoints,
                           reached : SUBSET Responders]]
  /\ overdue \subseteq Deliveries
  /\ uncounted \subseteq Deliveries
  /\ attempts \in [Deliveries -> Nat]
  /\ late \in [Deliveries -> Nat]
  /\ lost \in [Deliveries -> Nat]
  /\ faults \in 0 .. MaxFaults

Init ==
  /\ subscribed \in SUBSET Endpoints
  /\ expired = {}
  /\ last = 0
  /\ kind = [n \in Dispatches |-> "none"]
  /\ status = [d \in Deliveries |-> "none"]
  /\ reached = {}
  /\ count = [d \in Deliveries |-> 0]
  /\ acking = {}
  /\ acked = {}
  /\ aged = {}
  /\ pc = [t \in Tasks |-> "idle"]
  /\ send = [t \in Tasks |-> NoSend]
  /\ result = [t \in Tasks |-> NoResult]
  /\ overdue = {}
  /\ uncounted = {}
  /\ attempts = [d \in Deliveries |-> 0]
  /\ late = [d \in Deliveries |-> 0]
  /\ lost = [d \in Deliveries |-> 0]
  /\ faults = 0

-----------------------------------------------------------------------------
(***************************************************************************)
(* send_notification_to_subscribers.                                       *)
(***************************************************************************)

\* _resolve_notification_content takes exactly one of the two; a template must
\* be an announcement, a custom text too unless the system sends it.
Accepted(payload) ==
  /\ (payload.template = "none") # (payload.custom = "none")
  /\ payload.template \in {"announcement", "none"}
  /\ payload.custom \in {"announcement", "none"} \/ payload.system

KindOf(payload) ==
  IF payload.template # "none" THEN payload.template ELSE payload.custom

\* A dispatch number for every send under way (the bound of the rows).
Room == last + Cardinality({t \in Tasks : pc[t] # "idle"}) < MaxDispatch

Goes(t, place) == pc' = [pc EXCEPT ![t] = place]

\* An admin posts a notification. A refused payload changes nothing.
Send(t, payload, to) ==
  /\ pc[t] = "idle" /\ Room
  /\ to # {}
  /\ Accepted(payload)
  /\ Goes(t, "sending")
  /\ send' = [send EXCEPT ![t] = [kind |-> KindOf(payload), to |-> to]]
  /\ UNCHANGED <<subscribed, expired, rows, reached, count, acks, aged, result,
                 overdue, uncounted, pushed, faults>>

\* One result of the loop over a responder's subscriptions; a later failure
\* overwrites a success.
RecordLast(row, e, res) ==
  IF res = "sent" THEN [status |-> "sent", sub |-> e]
  ELSE [status |-> "failed", sub |-> IF res = "gone" THEN NoEndpoint ELSE e]

\* The same in the code: a success stays.
Record(row, e, res) ==
  IF res = "sent" THEN [status |-> "sent", sub |-> e]
  ELSE IF row.status = "sent" THEN row
  ELSE [status |-> "failed", sub |-> IF res = "gone" THEN NoEndpoint ELSE e]

\* The loop, over the subscriptions in the order the query returns them: what
\* is recorded of a responder after the first of them.
RowAfter(order, outcome, r) ==
  LET row[n \in 0 .. Len(order)] ==
        IF n = 0 THEN NoRow
        ELSE IF Owner[order[n]] = r THEN Record(row[n - 1], order[n], outcome[order[n]])
        ELSE row[n - 1]
  IN row

Recorded(order, outcome) == [r \in Responders |-> RowAfter(order, outcome, r)[Len(order)]]

\* The transaction is over, kept or lost; the job gives up its row locks.
Ends(t) ==
  /\ Goes(t, "idle")
  /\ send' = [send EXCEPT ![t] = NoSend]
  /\ result' = [result EXCEPT ![t] = NoResult]
  /\ overdue' = IF t = Job THEN {} ELSE overdue

\* A crash, or an await that raises.
Fault == faults < MaxFaults /\ faults' = faults + 1

\* The job has pushed because of these deliveries.
Pushed(deliveries) ==
  /\ attempts' = [d \in Deliveries |->
       IF d \in deliveries THEN attempts[d] + 1 ELSE attempts[d]]
  /\ late' = [d \in Deliveries |->
       IF d \in deliveries \cap acked THEN late[d] + 1 ELSE late[d]]

\* Those pushes will not be counted.
Loses(deliveries) ==
  lost' = [d \in Deliveries |-> IF d \in deliveries THEN lost[d] + 1 ELSE lost[d]]

\* The deliveries that the job has pushed for and has still to count.
Uncounted == uncounted \cup (IF pc[Job] = "pushed" THEN overdue ELSE {})

\* The subscriptions are read and pushed to one by one. An exception other
\* than WebPushException ends the send with some of them tried, and its
\* transaction is lost; the pushes are not.
Push(t) ==
  /\ pc[t] = "sending"
  /\ LET targets == {e \in subscribed : Owner[e] \in send[t].to} IN
     \E tried \in SUBSET targets :
     \E outcome \in [tried -> Results], order \in SetToSeqs(tried) :
       LET gone == {e \in tried : outcome[e] = "gone"} IN
       /\ tried \cap expired \subseteq gone
       /\ expired' = expired \cup gone
       /\ \/ /\ tried = targets
             /\ Goes(t, "pushed")
             /\ result' = [result EXCEPT ![t] =
                  [row |-> Recorded(order, outcome),
                   gone |-> gone,
                   reached |-> {Owner[e] : e \in {x \in tried : outcome[x] = "sent"}}]]
             /\ Pushed(IF t = Job THEN overdue ELSE {})
             /\ UNCHANGED <<send, overdue, lost, faults>>
          \/ /\ Fault
             /\ Ends(t)
             /\ LET hit == IF t = Job THEN {d \in overdue : \E e \in tried : Owner[e] = d[2]}
                           ELSE {}
                IN Pushed(hit) /\ Loses(hit)
  /\ UNCHANGED <<subscribed, rows, reached, count, acks, aged, uncounted>>

\* The dispatch, one delivery per responder and the removal of dead
\* subscriptions are committed together. subscription_id is a foreign key: if
\* another send has removed the subscription, all of it is lost.
Recordable(t) ==
  \A r \in send[t].to : result[t].row[r].sub \in subscribed \cup {NoEndpoint}

\* The deliveries the query of the job selects.
OverdueUpTo(most, answered) ==
  {d \in Deliveries :
     /\ status[d] = "sent" /\ d \notin answered
     /\ kind[d[1]] = "critical"
     /\ d[1] \in aged
     /\ count[d] <= most}

\* A last escalation is left out, one too many is let in, or an
\* acknowledgement is not looked for.
OverdueTooEarly == OverdueUpTo(MaxEscalation - 2, acked)
OverdueOnceMore == OverdueUpTo(MaxEscalation, acked)
OverdueAnswered == OverdueUpTo(MaxEscalation - 1, {})
Overdue == OverdueUpTo(MaxEscalation - 1, acked)

\* The rows of a send are committed.
Stores(t) ==
  /\ Recordable(t)
  /\ last' = last + 1
  /\ kind' = [kind EXCEPT ![last + 1] = send[t].kind]
  /\ status' = [d \in Deliveries |->
       IF d[1] = last + 1 /\ d[2] \in send[t].to
         THEN result[t].row[d[2]].status ELSE status[d]]
  /\ reached' = reached \cup ({last + 1} \X result[t].reached)
  /\ subscribed' = subscribed \ result[t].gone

Commit(t) ==
  /\ pc[t] = "pushed"
  /\ Stores(t)
  /\ uncounted' = IF t = Job THEN overdue ELSE uncounted
  /\ Ends(t)
  /\ UNCHANGED <<expired, count, acks, aged, pushed, faults>>

\* Or the commit raises: for the foreign key, or for another reason with the
\* rows stored or not. The job counts nothing then.
CommitRaises(t) ==
  /\ pc[t] = "pushed"
  /\ \/ ~Recordable(t) /\ UNCHANGED <<rows, reached, subscribed, faults>>
     \/ Fault /\ UNCHANGED <<rows, reached, subscribed>>
     \/ Fault /\ Stores(t)
  /\ Loses(IF t = Job THEN overdue ELSE {})
  /\ Ends(t)
  /\ UNCHANGED <<expired, count, acks, aged, uncounted, attempts, late>>

-----------------------------------------------------------------------------
(***************************************************************************)
(* escalation_check_job, every five minutes.                               *)
(***************************************************************************)

\* The overdue deliveries are selected. With none overdue the job returns.
JobSelect ==
  /\ pc[Job] = "idle" /\ uncounted = {} /\ Room
  /\ Overdue # {}
  /\ \A d \in Overdue : attempts[d] < MaxAttempts
  /\ overdue' = Overdue
  /\ Goes(Job, "locking")
  /\ UNCHANGED <<subscribed, expired, rows, reached, count, acks, aged, send, result,
                 uncounted, pushed, faults>>

\* FOR UPDATE OF the deliveries waits for the acknowledgements under way, which
\* hold their rows. It locks what was selected: the rows have not changed, so
\* that the join with the acknowledgements is not evaluated again. Then each
\* responder gets one critical notification.
JobLock ==
  /\ pc[Job] = "locking"
  /\ overdue \cap acking = {}
  /\ Goes(Job, "sending")
  /\ send' = [send EXCEPT ![Job] = [kind |-> "critical",
                                    to |-> {d[2] : d \in overdue}]]
  /\ UNCHANGED <<subscribed, expired, rows, reached, count, acks, aged, result,
                 overdue, uncounted, pushed, faults>>

\* Each delivery is counted in a transaction of its own.
JobCount ==
  /\ \E d \in uncounted :
       /\ count' = [count EXCEPT ![d] = @ + 1]
       /\ uncounted' = uncounted \ {d}
  /\ UNCHANGED <<subscribed, expired, rows, reached, acks, aged, pc, send, result,
                 overdue, pushed, faults>>

\* One of those transactions raises, before its commit or after it, and the
\* job gives up the rest.
JobCountRaises ==
  /\ Fault
  /\ \E d \in uncounted :
       \/ UNCHANGED count /\ Loses(uncounted)
       \/ count' = [count EXCEPT ![d] = @ + 1] /\ Loses(uncounted \ {d})
  /\ uncounted' = {}
  /\ UNCHANGED <<subscribed, expired, rows, reached, acks, aged, pc, send, result,
                 overdue, attempts, late>>

-----------------------------------------------------------------------------
(***************************************************************************)
(* Responders, time and crashes.                                           *)
(***************************************************************************)

\* An acknowledgement refers to its delivery: the foreign key locks the row
\* until the commit, and waits for a transaction that holds it FOR UPDATE.
RowFree(d) == d \notin overdue \/ pc[Job] = "locking"

\* acknowledge_alert. A second acknowledgement is refused by a constraint.
Acknowledge(d) ==
  /\ status[d] # "none" /\ d \notin acking \cup acked
  /\ RowFree(d)
  /\ acking' = acking \cup {d}
  /\ UNCHANGED <<subscribed, expired, rows, reached, count, acked, aged, pc, send,
                 result, overdue, uncounted, pushed, faults>>

AcknowledgeCommit(d) ==
  /\ d \in acking
  /\ acking' = acking \ {d}
  /\ acked' = acked \cup {d}
  /\ UNCHANGED <<subscribed, expired, rows, reached, count, aged, pc, send, result,
                 overdue, uncounted, pushed, faults>>

\* A browser subscribes; an endpoint that was gone does not come back.
Subscribe(e) ==
  /\ e \notin subscribed \cup expired
  /\ subscribed' = subscribed \cup {e}
  /\ UNCHANGED <<expired, rows, reached, count, acks, aged, pc, send, result,
                 overdue, uncounted, pushed, faults>>

\* escalation_timeout_minutes pass.
Age(n) ==
  /\ n <= last /\ n \notin aged
  /\ aged' = aged \cup {n}
  /\ UNCHANGED <<subscribed, expired, rows, reached, count, acks, pc, send, result,
                 overdue, uncounted, pushed, faults>>

Crash ==
  /\ Fault
  /\ pc' = [t \in Tasks |-> "idle"]
  /\ send' = [t \in Tasks |-> NoSend]
  /\ result' = [t \in Tasks |-> NoResult]
  /\ acking' = {}
  /\ overdue' = {} /\ uncounted' = {}
  /\ Loses(Uncounted)
  /\ UNCHANGED <<subscribed, expired, rows, reached, count, acked, aged, attempts, late>>

Next ==
  \/ \E t \in Senders, payload \in Payloads, to \in SUBSET Responders :
       Send(t, payload, to)
  \/ \E t \in Tasks : Push(t) \/ Commit(t) \/ CommitRaises(t)
  \/ JobSelect \/ JobLock \/ JobCount \/ JobCountRaises
  \/ \E d \in Deliveries : Acknowledge(d) \/ AcknowledgeCommit(d)
  \/ \E e \in Endpoints : Subscribe(e)
  \/ \E n \in Dispatches : Age(n)
  \/ Crash

Spec == Init /\ [][Next]_vars

\* The scheduler starts the job again and again, the event loop runs every
\* task, and time passes.
Fairness ==
  /\ \A t \in Tasks : WF_vars(Push(t)) /\ WF_vars(Commit(t) \/ CommitRaises(t))
  /\ WF_vars(JobSelect) /\ WF_vars(JobLock) /\ WF_vars(JobCount)
  /\ \A d \in Deliveries : WF_vars(AcknowledgeCommit(d))
  /\ \A n \in Dispatches : WF_vars(Age(n))

FairSpec == Spec /\ Fairness

-----------------------------------------------------------------------------
(***************************************************************************)
(* Properties.                                                             *)
(***************************************************************************)

\* A delivery is recorded as sent exactly if some device of the responder
\* accepted the push, whatever the others answered and in whatever order the
\* loop met them (send_notification_to_subscribers).
SentIffReached ==
  \A d \in Deliveries : status[d] = "sent" <=> d \in reached

\* A responder who has acknowledged a delivery is notified for it at most once
\* more, by a job that had selected it before; whatever the sends, their failures
\* and the crashes in between (get_unacknowledged_critical_past_threshold).
LateAtMostOnce == \A d \in Deliveries : late[d] <= 1

\* Every push of the job is counted once, still to be counted, or lost to an
\* exception or a crash, and the stored count stays within the maximum
\* (escalation_check_job, increment_escalation_count).
AttemptsAreCounted ==
  \A d \in Deliveries :
    /\ attempts[d] = count[d] + lost[d] + (IF d \in Uncounted THEN 1 ELSE 0)
    /\ count[d] <= MaxEscalation

\* A critical delivery that reached a device is acknowledged or escalated to
\* the maximum, unless no dispatch number is left.
OverdueIsEscalated ==
  \A d \in Deliveries :
    status[d] = "sent" /\ kind[d[1]] = "critical"
      ~> \/ d \in acked
         \/ count[d] = MaxEscalation
         \/ last = MaxDispatch
=============================================================================
