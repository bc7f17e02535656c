-------------------------- MODULE NotificationsProofs --------------------------
(***************************************************************************)
(* Theorems about the escalation job and about what is recorded of a push, *)
(* for every value of the constants.                                       *)
(*                                                                         *)
(* Those of the job follow from what it knows of the deliveries it has     *)
(* selected: they were below the maximum and not yet answered, and the     *)
(* row locks keep the count of others away until the job has used it.      *)
(***************************************************************************)
EXTENDS Notifications, FiniteSetTheorems, TLAPS

\* The part of TypeOK that the job and the acknowledgements need.
JobTypeOK ==
  /\ pc \in [Tasks -> {"idle", "locking", "sending", "pushed"}]
  /\ overdue \subseteq Deliveries
  /\ uncounted \subseteq Deliveries
  /\ count \in [Deliveries -> Nat]
  /\ attempts \in [Deliveries -> Nat]
  /\ late \in [Deliveries -> Nat]
  /\ lost \in [Deliveries -> Nat]

\* The selection lives from the query to the commit, and is counted after it.
Phases ==
  /\ pc[Job] = "idle" => overdue = {}
  /\ pc[Job] # "idle" => uncounted = {}

\* What is selected may be counted once more, after the push; until the push
\* nobody has been notified for it too late.
Selected ==
  \A d \in overdue :
    /\ count[d] < MaxEscalation
    /\ pc[Job] # "pushed" => late[d] = 0

ToCount == \A d \in uncounted : count[d] < MaxEscalation

\* A late notification is for an acknowledged delivery, which is not selected again.
LateIsAnswered == \A d \in Deliveries : late[d] > 0 => d \in acked

IInv ==
  /\ JobTypeOK
  /\ Phases
  /\ Selected
  /\ ToCount
  /\ LateIsAnswered
  /\ AttemptsAreCounted
  /\ LateAtMostOnce

LEMMA JobIsTask == Job \in Tasks
  BY DEF Tasks

LEMMA InitIInv == Init => IInv
<1> SUFFICES ASSUME Init PROVE IInv
  OBVIOUS
<1>1. JobTypeOK
  BY DEF Init, JobTypeOK
<1>2. Phases /\ Selected /\ ToCount /\ LateIsAnswered
  BY JobIsTask DEF Init, Phases, Selected, ToCount, LateIsAnswered
<1>3. AttemptsAreCounted /\ LateAtMostOnce
  BY NotificationsAssumption, JobIsTask DEF Init, AttemptsAreCounted, Uncounted, LateAtMostOnce
<1> QED BY <1>1, <1>2, <1>3 DEF IInv

\* What the invariant reads; a step that leaves it alone keeps the invariant.
LEMMA Untouched ==
  ASSUME IInv, pc' = pc,
         UNCHANGED <<overdue, uncounted, count, attempts, late, lost>>, acked \subseteq acked'
  PROVE  IInv'
  BY DEF IInv, JobTypeOK, Phases, Selected, ToCount, LateIsAnswered,
         AttemptsAreCounted, Uncounted, LateAtMostOnce

\* A step of a request, which moves its own pc only.
LEMMA OfRequest ==
  ASSUME IInv, NEW t \in Senders, NEW place \in {"idle", "sending", "pushed"},
         Goes(t, place),
         UNCHANGED <<overdue, uncounted, count, attempts, late, lost, acked>>
  PROVE  IInv'
<1>1. pc'[Job] = pc[Job]
  BY NotificationsAssumption, JobIsTask DEF Goes, IInv, JobTypeOK
<1>2. JobTypeOK'
  BY DEF Goes, IInv, JobTypeOK
<1> QED
  BY <1>1, <1>2 DEF IInv, Phases, Selected, ToCount, LateIsAnswered,
         AttemptsAreCounted, Uncounted, LateAtMostOnce

\* What a push and a loss add, delivery by delivery.
LEMMA LosesTypes ==
  ASSUME IInv, NEW S \in SUBSET Deliveries, Loses(S)
  PROVE  /\ lost' \in [Deliveries -> Nat]
         /\ \A d \in Deliveries : lost'[d] = IF d \in S THEN lost[d] + 1 ELSE lost[d]
  BY DEF IInv, JobTypeOK, Loses

LEMMA PushedTypes ==
  ASSUME IInv, NEW S \in SUBSET Deliveries, Pushed(S)
  PROVE  /\ attempts' \in [Deliveries -> Nat] /\ late' \in [Deliveries -> Nat]
         /\ \A d \in Deliveries :
              /\ attempts'[d] = IF d \in S THEN attempts[d] + 1 ELSE attempts[d]
              /\ late'[d] = IF d \in S /\ d \in acked THEN late[d] + 1 ELSE late[d]
  BY DEF IInv, JobTypeOK, Pushed

\* The pushes of the job: late ones are late for the first time, and each is to
\* be counted.
LEMMA OfJobPushes ==
  ASSUME IInv, pc[Job] = "sending", Pushed(overdue),
         Goes(Job, "pushed"),
         UNCHANGED <<overdue, uncounted, count, acked, lost>>
  PROVE  IInv'
<1>1. pc'[Job] = "pushed" /\ JobTypeOK'
  BY JobIsTask, PushedTypes DEF Goes, IInv, JobTypeOK
<1>2. \A d \in Deliveries :
        /\ attempts'[d] = IF d \in overdue THEN attempts[d] + 1 ELSE attempts[d]
        /\ late'[d] = IF d \in overdue /\ d \in acked THEN late[d] + 1 ELSE late[d]
  BY PushedTypes DEF IInv, JobTypeOK
<1>3. \A d \in Deliveries : /\ count[d] \in Nat /\ attempts[d] \in Nat
                            /\ late[d] \in Nat /\ lost[d] \in Nat
  BY DEF IInv, JobTypeOK
<1>4. \A d \in overdue : d \in Deliveries /\ late[d] = 0 /\ count[d] < MaxEscalation
  BY DEF IInv, JobTypeOK, Selected
<1>5. Phases' /\ Selected'
  BY <1>1, <1>4 DEF IInv, Phases, Selected
<1>6. ToCount'
  BY DEF IInv, ToCount
<1>7. LateIsAnswered' /\ LateAtMostOnce'
  BY <1>2, <1>3, <1>4 DEF IInv, LateIsAnswered, LateAtMostOnce
<1>8. Uncounted = uncounted /\ Uncounted' = uncounted \cup overdue
  BY <1>1 DEF Uncounted
<1>9. \A d \in overdue : d \notin uncounted
  BY DEF IInv, Phases
<1>10. AttemptsAreCounted'
  BY <1>2, <1>3, <1>8, <1>9 DEF IInv, AttemptsAreCounted
<1> QED BY <1>1, <1>5, <1>6, <1>7, <1>10 DEF IInv

\* The pushes of the job up to one that raises: the selection is given up.
LEMMA OfJobRaises ==
  ASSUME IInv, pc[Job] = "sending", NEW S \in SUBSET overdue, Pushed(S), Loses(S),
         Goes(Job, "idle"), overdue' = {},
         UNCHANGED <<uncounted, count, acked>>
  PROVE  IInv'
<1>1. pc'[Job] = "idle" /\ S \in SUBSET Deliveries
  BY JobIsTask DEF Goes, IInv, JobTypeOK
<1>2. JobTypeOK'
  BY <1>1, PushedTypes, LosesTypes DEF Goes, IInv, JobTypeOK
<1>3. \A d \in Deliveries :
        /\ attempts'[d] = IF d \in S THEN attempts[d] + 1 ELSE attempts[d]
        /\ late'[d] = IF d \in S /\ d \in acked THEN late[d] + 1 ELSE late[d]
        /\ lost'[d] = IF d \in S THEN lost[d] + 1 ELSE lost[d]
  BY <1>1, PushedTypes, LosesTypes
<1>4. \A d \in Deliveries : /\ count[d] \in Nat /\ attempts[d] \in Nat
                            /\ late[d] \in Nat /\ lost[d] \in Nat
  BY DEF IInv, JobTypeOK
<1>5. \A d \in S : late[d] = 0
  BY DEF IInv, Selected
<1>6. Phases' /\ Selected' /\ ToCount'
  BY <1>1 DEF IInv, Phases, Selected, ToCount
<1>7. LateIsAnswered' /\ LateAtMostOnce'
  BY <1>3, <1>4, <1>5 DEF IInv, LateIsAnswered, LateAtMostOnce
<1>8. Uncounted' = Uncounted
  BY <1>1 DEF Uncounted
<1>9. AttemptsAreCounted'
  BY <1>3, <1>4, <1>8 DEF IInv, AttemptsAreCounted
<1> QED BY <1>2, <1>6, <1>7, <1>9 DEF IInv

LEMMA PushKeepsIInv ==
  ASSUME IInv, NEW t \in Tasks, Push(t)
  PROVE  IInv'
<1>1. UNCHANGED <<count, acked, uncounted>>
  BY DEF Push, acks
<1>2. PICK tried \in SUBSET {e \in subscribed : Owner[e] \in send[t].to} :
        \/ /\ Goes(t, "pushed")
           /\ Pushed(IF t = Job THEN overdue ELSE {})
           /\ UNCHANGED <<send, overdue, lost>>
        \/ /\ Ends(t)
           /\ Pushed(IF t = Job THEN {d \in overdue : \E e \in tried : Owner[e] = d[2]}
                                ELSE {})
           /\ Loses(IF t = Job THEN {d \in overdue : \E e \in tried : Owner[e] = d[2]}
                               ELSE {})
  BY DEF Push
<1>3. CASE t = Job
  <2>1. pc[Job] = "sending"
    BY <1>3 DEF Push
  <2>2. CASE Goes(t, "pushed") /\ Pushed(overdue) /\ UNCHANGED <<overdue, lost>>
    BY <1>1, <1>3, <2>1, <2>2, OfJobPushes
  <2>3. CASE /\ Ends(t)
             /\ Pushed({d \in overdue : \E e \in tried : Owner[e] = d[2]})
             /\ Loses({d \in overdue : \E e \in tried : Owner[e] = d[2]})
    <3>1. Goes(Job, "idle") /\ overdue' = {}
      BY <1>3, <2>3 DEF Ends
    <3> QED BY <1>1, <2>1, <2>3, <3>1, OfJobRaises
  <2> QED BY <1>2, <1>3, <2>2, <2>3
<1>4. CASE t # Job
  <2>1. t \in Senders
    BY <1>4 DEF Tasks
  <2>2. Pushed({}) /\ UNCHANGED overdue /\ (Loses({}) \/ UNCHANGED lost)
    BY <1>2, <1>4 DEF Ends
  <2>3. \E place \in {"idle", "pushed"} : Goes(t, place)
    BY <1>2 DEF Ends
  <2>4. UNCHANGED <<attempts, late, lost>>
    BY <2>2 DEF Pushed, Loses, IInv, JobTypeOK
  <2> QED BY <1>1, <2>1, <2>2, <2>3, <2>4, OfRequest
<1> QED BY <1>3, <1>4

\* The end of a transaction after its pushes: those of the job are to be
\* counted, or lost.
LEMMA OfJobCommits ==
  ASSUME IInv, pc[Job] = "pushed", Goes(Job, "idle"), overdue' = {},
         UNCHANGED <<count, acked, attempts, late>>,
         \/ uncounted' = overdue /\ UNCHANGED lost
         \/ UNCHANGED uncounted /\ Loses(overdue)
  PROVE  IInv'
<1>1. pc'[Job] = "idle" /\ overdue \in SUBSET Deliveries
  BY JobIsTask DEF Goes, IInv, JobTypeOK
<1>2. JobTypeOK'
  BY <1>1, LosesTypes DEF Goes, IInv, JobTypeOK
<1>3. Phases' /\ Selected'
  BY <1>1 DEF Phases, Selected
<1>4. Uncounted = uncounted \cup overdue /\ Uncounted' = uncounted'
  BY <1>1 DEF Uncounted
<1>5. \A d \in Deliveries : /\ count[d] \in Nat /\ attempts[d] \in Nat /\ lost[d] \in Nat
  BY DEF IInv, JobTypeOK
<1>6. uncounted = {}
  BY DEF IInv, Phases
<1>7. CASE uncounted' = overdue /\ UNCHANGED lost
  <2>1. JobTypeOK' /\ Phases'
    BY <1>1, <1>2, <1>7 DEF IInv, JobTypeOK, Phases
  <2>2. ToCount' /\ Selected'
    BY <1>7 DEF IInv, Selected, ToCount
  <2>3. AttemptsAreCounted'
    BY <1>4, <1>6, <1>7 DEF IInv, AttemptsAreCounted
  <2> QED BY <2>1, <2>2, <2>3 DEF IInv, LateIsAnswered, LateAtMostOnce
<1>8. CASE UNCHANGED uncounted /\ Loses(overdue)
  <2>1. \A d \in Deliveries : lost'[d] = IF d \in overdue THEN lost[d] + 1 ELSE lost[d]
    BY <1>1, <1>8, LosesTypes
  <2>2. AttemptsAreCounted'
    BY <1>4, <1>5, <1>6, <1>8, <2>1 DEF IInv, AttemptsAreCounted
  <2>3. ToCount'
    BY <1>8 DEF IInv, ToCount
  <2> QED BY <1>2, <1>3, <2>2, <2>3 DEF IInv, LateIsAnswered, LateAtMostOnce
<1> QED BY <1>7, <1>8

LEMMA CommitKeepsIInv ==
  ASSUME IInv, NEW t \in Tasks, Commit(t) \/ CommitRaises(t)
  PROVE  IInv'
<1>1. /\ pc[t] = "pushed" /\ Goes(t, "idle")
      /\ overdue' = IF t = Job THEN {} ELSE overdue
      /\ UNCHANGED <<count, acked, attempts, late>>
      /\ \/ uncounted' = (IF t = Job THEN overdue ELSE uncounted) /\ UNCHANGED lost
         \/ UNCHANGED uncounted /\ Loses(IF t = Job THEN overdue ELSE {})
  BY DEF Commit, CommitRaises, Ends, acks, pushed
<1>2. CASE t = Job
  BY <1>1, <1>2, OfJobCommits
<1>3. CASE t # Job
  <2>1. UNCHANGED <<uncounted, lost>>
    BY <1>1, <1>3 DEF Loses, IInv, JobTypeOK
  <2> QED BY <1>1, <1>3, <2>1, OfRequest DEF Tasks
<1> QED BY <1>2, <1>3

LEMMA JobSelectKeepsIInv == ASSUME IInv, JobSelect PROVE IInv'
<1>1. /\ pc[Job] = "idle" /\ pc'[Job] = "locking" /\ uncounted = {}
      /\ overdue' = Overdue
      /\ UNCHANGED <<uncounted, count, acked, attempts, late, lost>>
  BY JobIsTask DEF JobSelect, Goes, acks, pushed, IInv, JobTypeOK
<1>2. \A d \in Overdue : d \in Deliveries /\ d \notin acked /\ count[d] < MaxEscalation
  BY NotificationsAssumption DEF Overdue, OverdueUpTo, IInv, JobTypeOK
<1>3. \A d \in Overdue : late[d] = 0
  BY <1>2 DEF IInv, JobTypeOK, LateIsAnswered
<1>4. JobTypeOK'
  BY <1>1, <1>2 DEF JobSelect, Goes, IInv, JobTypeOK
<1>5. Phases' /\ Selected'
  BY <1>1, <1>2, <1>3 DEF Phases, Selected
<1>6. Uncounted' = Uncounted
  BY <1>1 DEF Uncounted
<1> QED BY <1>1, <1>4, <1>5, <1>6
        DEF IInv, ToCount, LateIsAnswered, AttemptsAreCounted, LateAtMostOnce

LEMMA JobLockKeepsIInv == ASSUME IInv, JobLock PROVE IInv'
<1>1. /\ pc[Job] = "locking" /\ pc'[Job] = "sending"
      /\ UNCHANGED <<overdue, uncounted, count, acked, attempts, late, lost>>
  BY JobIsTask DEF JobLock, Goes, acks, pushed, IInv, JobTypeOK
<1>2. JobTypeOK'
  BY <1>1 DEF JobLock, Goes, IInv, JobTypeOK
<1>3. Uncounted' = Uncounted
  BY <1>1 DEF Uncounted
<1> QED BY <1>1, <1>2, <1>3 DEF IInv, Phases, Selected, ToCount, LateIsAnswered,
               AttemptsAreCounted, LateAtMostOnce

\* The job counts when it has nothing selected.
LEMMA CountingIsIdle ==
  ASSUME IInv, NEW c \in uncounted
  PROVE  /\ pc[Job] = "idle" /\ overdue = {} /\ Uncounted = uncounted
         /\ c \in Deliveries /\ count[c] < MaxEscalation
  BY DEF IInv, JobTypeOK, Phases, ToCount, Uncounted

LEMMA JobCountKeepsIInv == ASSUME IInv, JobCount PROVE IInv'
<1>1. PICK c \in uncounted : /\ count' = [count EXCEPT ![c] = @ + 1]
                             /\ uncounted' = uncounted \ {c}
  BY DEF JobCount
<1>2. UNCHANGED <<overdue, acked, pc, attempts, late, lost>>
  BY DEF JobCount, acks, pushed
<1>3. /\ c \in Deliveries /\ overdue = {} /\ count[c] < MaxEscalation
      /\ pc[Job] = "idle" /\ Uncounted = uncounted
  BY CountingIsIdle
<1>4. \A d \in Deliveries :
        /\ count[d] \in Nat /\ attempts[d] \in Nat /\ lost[d] \in Nat
        /\ count'[d] = IF d = c THEN count[d] + 1 ELSE count[d]
  BY <1>1 DEF IInv, JobTypeOK
<1>5. JobTypeOK' /\ Phases' /\ Selected'
  BY <1>1, <1>2, <1>3 DEF IInv, JobTypeOK, Phases, Selected
<1>6. ToCount'
  BY <1>1, <1>2, <1>4 DEF IInv, JobTypeOK, ToCount
<1>7. Uncounted' = Uncounted \ {c}
  BY <1>1, <1>2, <1>3 DEF Uncounted
<1>8. AttemptsAreCounted'
  BY <1>1, <1>2, <1>3, <1>4, <1>7, NotificationsAssumption DEF IInv, AttemptsAreCounted
<1> QED BY <1>2, <1>5, <1>6, <1>8 DEF IInv, LateIsAnswered, LateAtMostOnce

\* The rest is given up: it is lost, but for one that may have been counted.
LEMMA JobCountRaisesKeepsIInv == ASSUME IInv, JobCountRaises PROVE IInv'
<1>1. PICK c \in uncounted :
        \/ UNCHANGED count /\ Loses(uncounted)
        \/ count' = [count EXCEPT ![c] = @ + 1] /\ Loses(uncounted \ {c})
  BY DEF JobCountRaises
<1>2. UNCHANGED <<overdue, acked, pc, attempts, late>> /\ uncounted' = {}
  BY DEF JobCountRaises, acks
<1>3. /\ c \in Deliveries /\ overdue = {} /\ count[c] < MaxEscalation
      /\ pc[Job] = "idle" /\ Uncounted = uncounted /\ Uncounted' = {}
  BY <1>2, CountingIsIdle DEF Uncounted
<1>4. uncounted \in SUBSET Deliveries /\ uncounted \ {c} \in SUBSET Deliveries
  BY DEF IInv, JobTypeOK
<1>5. \A d \in Deliveries : /\ count[d] \in Nat /\ attempts[d] \in Nat /\ lost[d] \in Nat
  BY DEF IInv, JobTypeOK
<1>6. /\ lost' \in [Deliveries -> Nat] /\ count' \in [Deliveries -> Nat]
      /\ \A d \in Deliveries :
           /\ count'[d] + lost'[d] = count[d] + lost[d] + (IF d \in uncounted THEN 1 ELSE 0)
           /\ count'[d] <= MaxEscalation
  <2>1. \A d \in Deliveries : count[d] <= MaxEscalation
    BY DEF IInv, AttemptsAreCounted
  <2>2. CASE UNCHANGED count /\ Loses(uncounted)
    BY <1>4, <1>5, <2>1, <2>2, LosesTypes DEF IInv, JobTypeOK
  <2>3. CASE count' = [count EXCEPT ![c] = @ + 1] /\ Loses(uncounted \ {c})
    <3>1. /\ lost' \in [Deliveries -> Nat]
          /\ \A d \in Deliveries :
               lost'[d] = IF d \in uncounted \ {c} THEN lost[d] + 1 ELSE lost[d]
      BY <1>4, <2>3, LosesTypes
    <3>2. /\ count' \in [Deliveries -> Nat]
          /\ \A d \in Deliveries : count'[d] = IF d = c THEN count[d] + 1 ELSE count[d]
      BY <1>3, <2>3 DEF IInv, JobTypeOK
    <3> QED BY <1>3, <1>5, <2>1, <3>1, <3>2, NotificationsAssumption
  <2> QED BY <1>1, <2>2, <2>3
<1>7. JobTypeOK' /\ Phases' /\ Selected' /\ ToCount'
  BY <1>2, <1>3, <1>6 DEF IInv, JobTypeOK, Phases, Selected, ToCount
<1>8. \A d \in Deliveries : count'[d] \in Nat /\ lost'[d] \in Nat
  BY <1>6
<1>9. AttemptsAreCounted'
  <2> SUFFICES ASSUME NEW d \in Deliveries
               PROVE  attempts[d] = count'[d] + lost'[d] /\ count'[d] <= MaxEscalation
    BY <1>2, <1>3, <1>8 DEF AttemptsAreCounted
  <2>1. attempts[d] = count[d] + lost[d] + (IF d \in uncounted THEN 1 ELSE 0)
    BY <1>3 DEF IInv, AttemptsAreCounted
  <2> QED BY <1>6, <2>1
<1> QED BY <1>2, <1>7, <1>9 DEF IInv, LateIsAnswered, LateAtMostOnce

LEMMA CrashKeepsIInv == ASSUME IInv, Crash PROVE IInv'
<1>1. /\ pc' = [t \in Tasks |-> "idle"] /\ overdue' = {} /\ uncounted' = {}
      /\ Loses(Uncounted)
      /\ UNCHANGED <<count, acked, attempts, late>>
  BY DEF Crash
<1>2. Uncounted \in SUBSET Deliveries /\ Uncounted' = {}
  BY <1>1, JobIsTask DEF Uncounted, IInv, JobTypeOK
<1>3. /\ lost' \in [Deliveries -> Nat]
      /\ \A d \in Deliveries : lost'[d] = IF d \in Uncounted THEN lost[d] + 1 ELSE lost[d]
  BY <1>1, <1>2, LosesTypes
<1>4. JobTypeOK'
  BY <1>1, <1>3 DEF IInv, JobTypeOK
<1>5. Phases' /\ Selected' /\ ToCount'
  BY <1>1, JobIsTask DEF Phases, Selected, ToCount
<1>6. \A d \in Deliveries : count[d] \in Nat /\ lost[d] \in Nat
  BY DEF IInv, JobTypeOK
<1>7. AttemptsAreCounted'
  BY <1>1, <1>2, <1>3, <1>6 DEF IInv, AttemptsAreCounted
<1> QED BY <1>1, <1>4, <1>5, <1>7 DEF IInv, LateIsAnswered, LateAtMostOnce

LEMMA StepIInv == IInv /\ [Next]_vars => IInv'
<1> SUFFICES ASSUME IInv, [Next]_vars PROVE IInv'
  OBVIOUS
<1>1. ASSUME NEW t \in Senders, NEW payload \in Payloads, NEW to \in SUBSET Responders,
             Send(t, payload, to)
      PROVE  IInv'
  BY <1>1, OfRequest DEF Send, acks, pushed
<1>2. ASSUME NEW d \in Deliveries, Acknowledge(d) PROVE IInv'
  BY <1>2, Untouched DEF Acknowledge, pushed
<1>3. ASSUME NEW d \in Deliveries, AcknowledgeCommit(d) PROVE IInv'
  BY <1>3, Untouched DEF AcknowledgeCommit, pushed
<1>4. ASSUME NEW e \in Endpoints, Subscribe(e) PROVE IInv'
  BY <1>4, Untouched DEF Subscribe, acks, pushed
<1>5. ASSUME NEW n \in Dispatches, Age(n) PROVE IInv'
  BY <1>5, Untouched DEF Age, acks, pushed
<1>6. ASSUME UNCHANGED vars PROVE IInv'
  BY <1>6, Untouched DEF vars
<1> QED
  BY <1>1, <1>2, <1>3, <1>4, <1>5, <1>6, PushKeepsIInv, CommitKeepsIInv,
     JobSelectKeepsIInv, JobLockKeepsIInv, JobCountKeepsIInv, JobCountRaisesKeepsIInv,
     CrashKeepsIInv DEF Next

LEMMA Invariance == Spec => []IInv
  BY InitIInv, StepIInv, PTL DEF Spec

\* A responder who has answered is notified for that delivery at most once more.
THEOREM LateOnce == Spec => []LateAtMostOnce
<1>1. IInv => LateAtMostOnce
  BY DEF IInv
<1> QED BY <1>1, Invariance, PTL

\* Each push of the job is counted once, to be counted, or lost to what raised or
\* crashed; the stored count stays within the maximum.
THEOREM Counted == Spec => []AttemptsAreCounted
<1>1. IInv => AttemptsAreCounted
  BY DEF IInv
<1> QED BY <1>1, Invariance, PTL

-----------------------------------------------------------------------------
(***************************************************************************)
(* The loop over the subscriptions. It is a recursive function, of which   *)
(* must be shown that it exists before anything of its values; both by      *)
(* induction, the second over the subscriptions met so far.                 *)
(***************************************************************************)

\* Natural induction, of a set in place of a predicate.
LEMMA Below ==
  ASSUME NEW S, 0 \in S, \A n \in Nat : n \in S => n + 1 \in S
  PROVE  Nat \subseteq S
<1> DEFINE less == {p \in Nat \X Nat : p[1] < p[2]}
           T == Nat \ S
<1>1. less = OpToRel(<, Nat)
  BY DEF OpToRel
<1>2. IsWellFoundedOn(less, Nat)
  BY <1>1, NatLessThanWellFounded
<1>3. \A k, m \in Nat : k < m => <<k, m>> \in less
  OBVIOUS
<1> HIDE DEF less
<1>4. SUFFICES ASSUME T # {} PROVE FALSE
  OBVIOUS
<1>5. PICK m \in T : \A k \in T : ~(<<k, m>> \in less)
  <2>1. T \in SUBSET Nat
    OBVIOUS
  <2> HIDE DEF T
  <2> QED BY <1>2, <1>4, <2>1, WFMin
<1>6. m # 0 /\ m \in Nat
  OBVIOUS
<1>7. m - 1 \in Nat /\ m - 1 < m
  BY <1>6
<1>8. m - 1 \in S
  BY <1>3, <1>5, <1>6, <1>7
<1> QED BY <1>5, <1>6, <1>7, <1>8

\* The rows that the loop computes exist, one after each subscription.
Loop(order, outcome, r, row, length) ==
  row = [n \in 0 .. length |->
           IF n = 0 THEN NoRow
           ELSE IF Owner[order[n]] = r THEN Record(row[n - 1], order[n], outcome[order[n]])
           ELSE row[n - 1]]

LEMMA LoopEnds ==
  ASSUME NEW order, NEW outcome, NEW r, NEW length \in Nat
  PROVE  \E row : Loop(order, outcome, r, row, length)
<1> DEFINE Ended == {n \in Nat : \E row : Loop(order, outcome, r, row, n)}
           After(row, n) == IF Owner[order[n]] = r
                              THEN Record(row[n - 1], order[n], outcome[order[n]])
                              ELSE row[n - 1]
<1>1. 0 \in Ended
  <2>1. Loop(order, outcome, r, [n \in 0 .. 0 |-> NoRow], 0)
    BY DEF Loop
  <2> QED BY <2>1
<1>2. ASSUME NEW n \in Nat, n \in Ended PROVE n + 1 \in Ended
  <2>1. PICK row : row = [k \in 0 .. n |-> IF k = 0 THEN NoRow ELSE After(row, k)]
    BY <1>2 DEF Loop
  <2> HIDE DEF After
  <2>2. \A k \in 0 .. n : row[k] = IF k = 0 THEN NoRow ELSE After(row, k)
    BY <2>1
  <2> DEFINE more == [k \in 0 .. n + 1 |-> IF k = n + 1 THEN After(row, k) ELSE row[k]]
  <2>3. \A k \in 0 .. n : more[k] = row[k]
    OBVIOUS
  <2>4. \A k \in 1 .. n + 1 : After(more, k) = After(row, k)
    <3> SUFFICES ASSUME NEW k \in 1 .. n + 1 PROVE After(more, k) = After(row, k)
      OBVIOUS
    <3>1. k - 1 \in 0 .. n
      OBVIOUS
    <3>2. more[k - 1] = row[k - 1]
      BY <2>3, <3>1
    <3> HIDE DEF more
    <3> QED BY <3>2 DEF After
  <2>5. \A k \in 0 .. n + 1 : more[k] = IF k = 0 THEN NoRow ELSE After(more, k)
    <3> SUFFICES ASSUME NEW k \in 0 .. n + 1
                 PROVE  more[k] = IF k = 0 THEN NoRow ELSE After(more, k)
      OBVIOUS
    <3>1. CASE k = n + 1
      <4>1. more[k] = After(row, k)
        BY <3>1
      <4>2. k # 0 /\ k \in 1 .. n + 1
        BY <3>1
      <4> QED BY <4>1, <4>2, <2>4
    <3>2. CASE k # n + 1
      <4>1. k \in 0 .. n
        BY <3>2
      <4>2. k # 0 => After(more, k) = After(row, k)
        BY <2>4
      <4> QED BY <2>2, <2>3, <4>1, <4>2
    <3> QED BY <3>1, <3>2
  <2>6. more = [k \in 0 .. n + 1 |-> IF k = 0 THEN NoRow ELSE After(more, k)]
    <3>1. DOMAIN more = 0 .. n + 1 /\ more = [k \in 0 .. n + 1 |-> more[k]]
      OBVIOUS
    <3> HIDE DEF more
    <3> QED BY <2>5, <3>1
  <2>7. Loop(order, outcome, r, more, n + 1)
    BY <2>6 DEF Loop, After
  <2> QED BY <2>7
<1> HIDE DEF Ended
<1>3. length \in Ended
  BY <1>1, <1>2, Below
<1> QED BY <1>3 DEF Ended

LEMMA RowsAfter ==
  ASSUME NEW order, NEW outcome, NEW r, Len(order) \in Nat
  PROVE  Loop(order, outcome, r, RowAfter(order, outcome, r), Len(order))
<1>1. RowAfter(order, outcome, r) = CHOOSE row : Loop(order, outcome, r, row, Len(order))
  BY DEF RowAfter, Loop
<1> QED BY <1>1, LoopEnds

\* A push changes the row of its owner to sent, or leaves it sent if it was.
LEMMA RecordType ==
  ASSUME NEW row \in Row, NEW e \in Endpoints, NEW res \in AllResults
  PROVE  /\ Record(row, e, res) \in Row
         /\ Record(row, e, res).status = "sent" <=> row.status = "sent" \/ res = "sent"
BY DEF Record, Row, AllResults

\* What the loop has recorded of a responder: that some device accepted the push,
\* if one did, whatever the others answered and in whatever order.
LEMMA RowTells ==
  ASSUME NEW order, NEW outcome, NEW r \in Responders, Len(order) \in Nat,
         \A i \in 1 .. Len(order) : order[i] \in Endpoints /\ outcome[order[i]] \in AllResults
  PROVE  /\ RowAfter(order, outcome, r)[Len(order)] \in Row
         /\ RowAfter(order, outcome, r)[Len(order)].status = "sent" <=>
              \E i \in 1 .. Len(order) : Owner[order[i]] = r /\ outcome[order[i]] = "sent"
<1> DEFINE row == RowAfter(order, outcome, r)
           Hit(i) == Owner[order[i]] = r /\ outcome[order[i]] = "sent"
           Tells(n) == row[n] \in Row /\ (row[n].status = "sent" <=> \E i \in 1 .. n : Hit(i))
           Told == {n \in Nat : n <= Len(order) => Tells(n)}
<1>1. \A n \in 0 .. Len(order) :
        row[n] = IF n = 0 THEN NoRow
                 ELSE IF Owner[order[n]] = r
                   THEN Record(row[n - 1], order[n], outcome[order[n]])
                   ELSE row[n - 1]
  BY RowsAfter DEF Loop
<1>2. 0 \in Told
  <2>1. row[0] = NoRow
    BY <1>1
  <2>2. NoRow \in Row /\ NoRow.status = "failed"
    BY DEF NoRow, Row
  <2>3. Tells(0)
    <3> HIDE DEF row, Hit
    <3> QED BY <2>1, <2>2
  <2> QED BY <2>3
<1>3. ASSUME NEW n \in Nat, n \in Told PROVE n + 1 \in Told
  <2> SUFFICES ASSUME n + 1 <= Len(order) PROVE Tells(n + 1)
    OBVIOUS
  <2>1. Tells(n)
    BY <1>3
  <2>2. /\ order[n + 1] \in Endpoints /\ outcome[order[n + 1]] \in AllResults
        /\ n + 1 \in 0 .. Len(order) /\ n + 1 # 0 /\ (n + 1) - 1 = n
    OBVIOUS
  <2>3. row[n + 1] = IF Owner[order[n + 1]] = r
                       THEN Record(row[n], order[n + 1], outcome[order[n + 1]])
                       ELSE row[n]
    BY <1>1, <2>2
  <2>4. row[n + 1] \in Row /\ (row[n + 1].status = "sent" <=> row[n].status = "sent" \/ Hit(n + 1))
    <3> HIDE DEF row
    <3> QED BY <2>1, <2>2, <2>3, RecordType
  <2>5. (\E i \in 1 .. n + 1 : Hit(i)) <=> (\E i \in 1 .. n : Hit(i)) \/ Hit(n + 1)
    <3> HIDE DEF Hit
    <3>1. 1 .. n + 1 = (1 .. n) \cup {n + 1}
      OBVIOUS
    <3> QED BY <3>1
  <2> HIDE DEF row, Hit
  <2> QED BY <2>1, <2>4, <2>5
<1>4. Len(order) \in Told
  <2> HIDE DEF Told
  <2> QED BY <1>2, <1>3, Below
<1> QED BY <1>4

\* An order of a finite set has each of its members somewhere.
LEMMA OrderCovers ==
  ASSUME NEW S, IsFiniteSet(S), NEW order \in SetToSeqs(S)
  PROVE  /\ Len(order) \in Nat
         /\ \A i \in 1 .. Len(order) : order[i] \in S
         /\ \A e \in S : \E i \in 1 .. Len(order) : order[i] = e
<1> DEFINE n == Cardinality(S)
<1>1. n \in Nat
  BY FS_CardinalityType
<1>2. order \in [1 .. n -> S] /\ \A i, j \in 1 .. n : i # j => order[i] # order[j]
  BY DEF SetToSeqs
<1>3. order \in Injection(1 .. n, S)
  BY <1>2 DEF Injection, IsInjective
<1>4. Cardinality(1 .. n) = n
  BY <1>1, FS_Interval
<1>5. order \in Surjection(1 .. n, S)
  <2> HIDE DEF n
  <2> QED BY <1>3, <1>4, FS_Injection DEF n
<1>6. Len(order) = n
  <2> HIDE DEF n
  <2> QED BY <1>1, <1>2
<1> QED BY <1>1, <1>2, <1>5, <1>6 DEF Surjection

\* The rows of a send that tried these subscriptions.
LEMMA RecordedTells ==
  ASSUME NEW tried \in SUBSET Endpoints, NEW order \in SetToSeqs(tried),
         NEW outcome \in [tried -> Results]
  PROVE  /\ Recorded(order, outcome) \in [Responders -> Row]
         /\ \A r \in Responders :
              Recorded(order, outcome)[r].status = "sent" <=>
                r \in {Owner[e] : e \in {x \in tried : outcome[x] = "sent"}}
<1> USE NotificationsAssumption
<1>1. /\ Len(order) \in Nat
      /\ \A i \in 1 .. Len(order) : order[i] \in tried
      /\ \A e \in tried : \E i \in 1 .. Len(order) : order[i] = e
  BY FS_Subset, OrderCovers
<1>2. \A i \in 1 .. Len(order) : order[i] \in Endpoints /\ outcome[order[i]] \in AllResults
  BY <1>1
<1>3. \A r \in Responders :
        /\ RowAfter(order, outcome, r)[Len(order)] \in Row
        /\ RowAfter(order, outcome, r)[Len(order)].status = "sent" <=>
              \E i \in 1 .. Len(order) : Owner[order[i]] = r /\ outcome[order[i]] = "sent"
  BY <1>1, <1>2, RowTells
<1>4. \A r \in Responders :
        (\E i \in 1 .. Len(order) : Owner[order[i]] = r /\ outcome[order[i]] = "sent")
          <=> r \in {Owner[e] : e \in {x \in tried : outcome[x] = "sent"}}
  BY <1>1
<1>5. Recorded(order, outcome) = [r \in Responders |-> RowAfter(order, outcome, r)[Len(order)]]
  BY DEF Recorded
<1> QED BY <1>3, <1>4, <1>5

-----------------------------------------------------------------------------
(***************************************************************************)
(* What is recorded. The results of a send that has pushed say the truth of *)
(* its responders, and numbers that have not been given have no deliveries: *)
(* a commit writes rows that are not there yet. There is a number for every *)
(* send under way.                                                          *)
(***************************************************************************)

Busy == {t \in Tasks : pc[t] # "idle"}
Space == last + Cardinality(Busy) <= MaxDispatch

Truthful ==
  \A t \in Tasks : pc[t] = "pushed" =>
    /\ result[t].reached \subseteq send[t].to
    /\ \A r \in send[t].to : result[t].row[r].status = "sent" <=> r \in result[t].reached

Unwritten == \A d \in Deliveries : d[1] > last => status[d] = "none" /\ d \notin reached

RecordInv == TypeOK /\ Space /\ Truthful /\ Unwritten /\ SentIffReached

LEMMA TasksFinite == IsFiniteSet(Tasks) /\ \A T \in SUBSET Tasks : IsFiniteSet(T)
<1>1. IsFiniteSet(Tasks)
  BY NotificationsAssumption, FS_AddElement DEF Tasks
<1> QED BY <1>1, FS_Subset

LEMMA BusyCounts ==
  /\ Cardinality(Busy) \in Nat
  /\ \A t \in Tasks : Busy' = Busy \cup {t} /\ t \notin Busy
                        => Cardinality(Busy)' = Cardinality(Busy) + 1
  /\ \A t \in Tasks : Busy' = Busy \ {t} /\ t \in Busy
                        => Cardinality(Busy)' = Cardinality(Busy) - 1
  /\ Busy' = {} => Cardinality(Busy)' = 0
  /\ Busy' = Busy => Cardinality(Busy)' = Cardinality(Busy)
<1>1. IsFiniteSet(Busy)
  BY TasksFinite DEF Busy
<1>2. Cardinality(Busy)' = Cardinality(Busy')
  OBVIOUS
<1>3. Cardinality(Busy) \in Nat
  BY <1>1, FS_CardinalityType
<1> HIDE DEF Busy
<1>4. \A t : Cardinality(Busy \cup {t}) = IF t \in Busy THEN Cardinality(Busy)
                                          ELSE Cardinality(Busy) + 1
  BY <1>1, FS_AddElement
<1>5. \A t : Cardinality(Busy \ {t}) = IF t \in Busy THEN Cardinality(Busy) - 1
                                       ELSE Cardinality(Busy)
  BY <1>1, FS_RemoveElement
<1> QED BY <1>2, <1>3, <1>4, <1>5, FS_EmptySet

\* Where a task goes, and who is busy then.
LEMMA BusyGoes ==
  ASSUME pc \in [Tasks -> {"idle", "locking", "sending", "pushed"}],
         NEW t \in Tasks, NEW place \in {"idle", "locking", "sending", "pushed"}, Goes(t, place)
  PROVE  /\ pc' \in [Tasks -> {"idle", "locking", "sending", "pushed"}]
         /\ pc'[t] = place /\ \A x \in Tasks \ {t} : pc'[x] = pc[x]
         /\ Busy' = IF place = "idle" THEN Busy \ {t} ELSE Busy \cup {t}
BY DEF Goes, Busy

LEMMA InitRecordInv == Init => RecordInv
<1> SUFFICES ASSUME Init PROVE RecordInv
  OBVIOUS
<1> USE NotificationsAssumption
<1>1. NoResult \in [row : [Responders -> Row], gone : SUBSET Endpoints, reached : SUBSET Responders]
  BY DEF NoResult, NoRow, Row
<1>2. TypeOK
  BY <1>1 DEF Init, TypeOK, NoSend
<1>3. Busy = {}
  BY DEF Init, Busy
<1>4. Space
  BY <1>3, FS_EmptySet DEF Init, Space
<1>5. Truthful /\ Unwritten /\ SentIffReached
  BY DEF Init, Truthful, Unwritten, SentIffReached
<1> QED BY <1>2, <1>4, <1>5 DEF RecordInv

\* Steps that neither push nor commit: of the parts, the types and the room
\* are at stake.
LEMMA NothingRecorded ==
  ASSUME RecordInv, TypeOK', Space', UNCHANGED <<last, status, reached, result>>,
         \A t \in Tasks : pc'[t] = "pushed" => pc[t] = "pushed" /\ send'[t] = send[t]
  PROVE  RecordInv'
<1>1. Truthful'
  BY DEF RecordInv, Truthful
<1>2. Unwritten' /\ SentIffReached'
  BY DEF RecordInv, Unwritten, SentIffReached
<1> QED BY <1>1, <1>2 DEF RecordInv

LEMMA SendKeeps ==
  ASSUME RecordInv, NEW t \in Senders, NEW payload \in Payloads, NEW to \in SUBSET Responders,
         Send(t, payload, to)
  PROVE  RecordInv'
<1> USE NotificationsAssumption
<1>0. TypeOK /\ Space /\ t \in Tasks
  BY DEF RecordInv, Tasks
<1>1. /\ pc[t] = "idle" /\ Room /\ Goes(t, "sending")
      /\ send' = [send EXCEPT ![t] = [kind |-> KindOf(payload), to |-> to]]
      /\ UNCHANGED <<subscribed, expired, last, kind, status, reached, count, acking, acked, aged,
                     result, overdue, uncounted, attempts, late, lost, faults>>
  BY DEF Send, rows, acks, pushed
<1>2. KindOf(payload) \in Kinds \cup {"none"}
  BY DEF KindOf, PayloadType
<1>3. /\ pc' \in [Tasks -> {"idle", "locking", "sending", "pushed"}]
      /\ pc'[t] = "sending" /\ \A x \in Tasks \ {t} : pc'[x] = pc[x]
      /\ Busy' = Busy \cup {t}
  BY <1>0, <1>1, BusyGoes DEF TypeOK
<1>4. TypeOK'
  <2>1. send' \in [Tasks -> [kind : Kinds \cup {"none"}, to : SUBSET Responders]]
    BY <1>0, <1>1, <1>2 DEF TypeOK
  <2> QED BY <1>0, <1>1, <1>3, <2>1 DEF TypeOK
<1>5. Space'
  <2>1. last + Cardinality(Busy) < MaxDispatch /\ t \notin Busy
    BY <1>1 DEF Room, Busy
  <2>2. Cardinality(Busy)' = Cardinality(Busy) + 1 /\ Cardinality(Busy) \in Nat
    BY <1>0, <1>3, <2>1, BusyCounts
  <2> QED BY <1>0, <1>1, <2>1, <2>2 DEF Space, TypeOK
<1>6. \A x \in Tasks : pc'[x] = "pushed" => pc[x] = "pushed" /\ send'[x] = send[x]
  BY <1>0, <1>1, <1>3 DEF TypeOK
<1> QED BY <1>1, <1>4, <1>5, <1>6, NothingRecorded

\* The pushes count in the deliveries of the job.
LEMMA PushedCounts ==
  ASSUME TypeOK, NEW S, Pushed(S)
  PROVE  attempts' \in [Deliveries -> Nat] /\ late' \in [Deliveries -> Nat]
BY DEF TypeOK, Pushed

\* So do those that are lost.
LEMMA LosesCounts ==
  ASSUME TypeOK, NEW S, Loses(S) PROVE lost' \in [Deliveries -> Nat]
BY DEF TypeOK, Loses

LEMMA FaultTyped ==
  ASSUME TypeOK, Fault PROVE faults' \in 0 .. MaxFaults
BY NotificationsAssumption DEF TypeOK, Fault

\* A transaction that is over leaves nothing of the send.
LEMMA EndsTyped ==
  ASSUME TypeOK, NEW t \in Tasks, Ends(t)
  PROVE  /\ pc' \in [Tasks -> {"idle", "locking", "sending", "pushed"}]
         /\ send' \in [Tasks -> [kind : Kinds \cup {"none"}, to : SUBSET Responders]]
         /\ result' \in [Tasks -> [row : [Responders -> Row], gone : SUBSET Endpoints,
                                   reached : SUBSET Responders]]
         /\ overdue' \subseteq Deliveries
         /\ pc'[t] = "idle" /\ Busy' = Busy \ {t}
         /\ \A x \in Tasks \ {t} : pc'[x] = pc[x] /\ send'[x] = send[x] /\ result'[x] = result[x]
<1>1. NoResult \in [row : [Responders -> Row], gone : SUBSET Endpoints, reached : SUBSET Responders]
  BY NotificationsAssumption DEF NoResult, NoRow, Row
<1>2. NoSend \in [kind : Kinds \cup {"none"}, to : SUBSET Responders]
  BY DEF NoSend
<1>3. /\ Goes(t, "idle") /\ send' = [send EXCEPT ![t] = NoSend]
      /\ result' = [result EXCEPT ![t] = NoResult] /\ overdue' \in {{}, overdue}
  BY DEF Ends
<1>4. /\ pc' \in [Tasks -> {"idle", "locking", "sending", "pushed"}]
      /\ pc'[t] = "idle" /\ Busy' = Busy \ {t} /\ \A x \in Tasks \ {t} : pc'[x] = pc[x]
  BY <1>3, BusyGoes DEF TypeOK
<1>5. result' \in [Tasks -> [row : [Responders -> Row], gone : SUBSET Endpoints,
                             reached : SUBSET Responders]]
  BY <1>1, <1>3 DEF TypeOK
<1>6. send' \in [Tasks -> [kind : Kinds \cup {"none"}, to : SUBSET Responders]]
  BY <1>2, <1>3 DEF TypeOK
<1>7. \A x \in Tasks \ {t} : send'[x] = send[x] /\ result'[x] = result[x]
  BY <1>3 DEF TypeOK
<1> QED BY <1>3, <1>4, <1>5, <1>6, <1>7 DEF TypeOK

LEMMA PushRecords ==
  ASSUME RecordInv, NEW t \in Tasks, Push(t) PROVE RecordInv'
<1> USE NotificationsAssumption
<1>0. TypeOK /\ Space /\ Truthful /\ Unwritten /\ SentIffReached
  BY DEF RecordInv
<1> DEFINE targets == {e \in subscribed : Owner[e] \in send[t].to}
           results == [row : [Responders -> Row], gone : SUBSET Endpoints,
                       reached : SUBSET Responders]
<1>1. /\ pc[t] = "sending"
      /\ UNCHANGED <<subscribed, last, kind, status, reached, count, acking, acked, aged,
                     uncounted>>
      /\ faults' \in 0 .. MaxFaults
  BY <1>0, FaultTyped DEF Push, rows, acks, TypeOK
<1>2. PICK tried \in SUBSET targets :
      \E outcome \in [tried -> Results], order \in SetToSeqs(tried) :
        LET gone == {e \in tried : outcome[e] = "gone"} IN
        /\ tried \cap expired \subseteq gone
        /\ expired' = expired \cup gone
        /\ \/ /\ tried = targets
              /\ Goes(t, "pushed")
              /\ result' = [result EXCEPT ![t] =
                   [row |-> Recorded(order, outcome),
                    gone |-> gone,
                    reached |-> {Owner[e] : e \in {x \in tried : outcome[x] = "sent"}}]]
              /\ Pushed(IF t = Job THEN overdue ELSE {})
              /\ UNCHANGED <<send, overdue, lost, faults>>
           \/ /\ Fault
              /\ Ends(t)
              /\ LET hit == IF t = Job THEN {d \in overdue : \E e \in tried : Owner[e] = d[2]}
                            ELSE {}
                 IN Pushed(hit) /\ Loses(hit)
  BY DEF Push
<1>3. tried \in SUBSET Endpoints /\ \A e \in tried : Owner[e] \in send[t].to
  BY <1>0 DEF TypeOK
<1>4. PICK outcome \in [tried -> Results] :
      \E order \in SetToSeqs(tried) :
        LET gone == {e \in tried : outcome[e] = "gone"} IN
        /\ tried \cap expired \subseteq gone
        /\ expired' = expired \cup gone
        /\ \/ /\ tried = targets
              /\ Goes(t, "pushed")
              /\ result' = [result EXCEPT ![t] =
                   [row |-> Recorded(order, outcome),
                    gone |-> gone,
                    reached |-> {Owner[e] : e \in {x \in tried : outcome[x] = "sent"}}]]
              /\ Pushed(IF t = Job THEN overdue ELSE {})
              /\ UNCHANGED <<send, overdue, lost, faults>>
           \/ /\ Fault
              /\ Ends(t)
              /\ LET hit == IF t = Job THEN {d \in overdue : \E e \in tried : Owner[e] = d[2]}
                            ELSE {}
                 IN Pushed(hit) /\ Loses(hit)
  BY <1>2
<1> DEFINE gone == {e \in tried : outcome[e] = "gone"}
           hit == {Owner[e] : e \in {x \in tried : outcome[x] = "sent"}}
<1> HIDE DEF targets
<1>5. PICK order \in SetToSeqs(tried) :
        /\ expired' = expired \cup gone
        /\ \/ /\ Goes(t, "pushed")
              /\ result' = [result EXCEPT ![t] =
                   [row |-> Recorded(order, outcome), gone |-> gone, reached |-> hit]]
              /\ Pushed(IF t = Job THEN overdue ELSE {})
              /\ UNCHANGED <<send, overdue, lost>>
           \/ /\ Ends(t)
              /\ \E S : Pushed(S) /\ Loses(S)
  BY <1>4
<1>6. /\ expired' \subseteq Endpoints
      /\ attempts' \in [Deliveries -> Nat] /\ late' \in [Deliveries -> Nat]
      /\ lost' \in [Deliveries -> Nat]
  BY <1>0, <1>3, <1>5, PushedCounts, LosesCounts DEF TypeOK
<1>7. Unwritten' /\ SentIffReached'
  BY <1>0, <1>1 DEF Unwritten, SentIffReached
<1>8. CASE /\ Goes(t, "pushed") /\ UNCHANGED <<send, overdue>>
           /\ result' = [result EXCEPT ![t] =
                   [row |-> Recorded(order, outcome), gone |-> gone, reached |-> hit]]
  <2>1. /\ Recorded(order, outcome) \in [Responders -> Row]
        /\ \A r \in Responders : Recorded(order, outcome)[r].status = "sent" <=> r \in hit
    BY <1>3, RecordedTells
  <2>2. gone \in SUBSET Endpoints /\ hit \in SUBSET Responders /\ hit \subseteq send[t].to
    BY <1>3
  <2> HIDE DEF gone, hit
  <2>3. /\ pc' \in [Tasks -> {"idle", "locking", "sending", "pushed"}]
        /\ pc'[t] = "pushed" /\ \A x \in Tasks \ {t} : pc'[x] = pc[x]
        /\ Busy' = Busy \cup {t}
    BY <1>0, <1>8, BusyGoes DEF TypeOK
  <2>4. Busy' = Busy
    BY <1>1, <2>3 DEF Busy
  <2>5. Space'
    BY <1>0, <1>1, <2>4, BusyCounts DEF Space
  <2>6. [row |-> Recorded(order, outcome), gone |-> gone, reached |-> hit] \in results
    BY <2>1, <2>2
  <2>7. result \in [Tasks -> results]
    BY <1>0 DEF TypeOK
  <2>8. /\ result'[t] = [row |-> Recorded(order, outcome), gone |-> gone, reached |-> hit]
        /\ \A x \in Tasks \ {t} : result'[x] = result[x]
    BY <1>8, <2>7
  <2>9. result' \in [Tasks -> results]
    <3> HIDE DEF results
    <3> QED BY <1>8, <2>6, <2>7
  <2>10. TypeOK'
    BY <1>0, <1>1, <1>6, <1>8, <2>3, <2>9 DEF TypeOK
  <2>11. send[t].to \subseteq Responders
    BY <1>0 DEF TypeOK
  <2>12. Truthful'
    <3>1. ASSUME NEW x \in Tasks, x # t, pc'[x] = "pushed"
          PROVE  /\ result'[x].reached \subseteq send'[x].to
                 /\ \A r \in send'[x].to :
                      result'[x].row[r].status = "sent" <=> r \in result'[x].reached
      BY <1>0, <1>8, <2>3, <2>8, <3>1 DEF Truthful
    <3>2. /\ result'[t].reached \subseteq send'[t].to
          /\ \A r \in send'[t].to :
               result'[t].row[r].status = "sent" <=> r \in result'[t].reached
      BY <1>8, <2>1, <2>2, <2>8, <2>11
    <3> QED BY <3>1, <3>2 DEF Truthful
  <2> QED BY <1>7, <2>5, <2>10, <2>12 DEF RecordInv
<1>9. CASE Ends(t)
  <2>1. /\ pc' \in [Tasks -> {"idle", "locking", "sending", "pushed"}]
        /\ send' \in [Tasks -> [kind : Kinds \cup {"none"}, to : SUBSET Responders]]
        /\ result' \in [Tasks -> results]
        /\ overdue' \subseteq Deliveries
        /\ pc'[t] = "idle" /\ Busy' = Busy \ {t}
        /\ \A x \in Tasks \ {t} : pc'[x] = pc[x] /\ send'[x] = send[x] /\ result'[x] = result[x]
    BY <1>0, <1>9, EndsTyped
  <2>2. TypeOK'
    BY <1>0, <1>1, <1>6, <2>1 DEF TypeOK
  <2>3. t \in Busy
    BY <1>1 DEF Busy
  <2>4. Space'
    <3>1. Cardinality(Busy)' = Cardinality(Busy) - 1 /\ Cardinality(Busy) \in Nat
      BY <2>1, <2>3, BusyCounts
    <3> QED BY <1>0, <1>1, <3>1 DEF Space, TypeOK
  <2>5. \A x \in Tasks : pc'[x] = "pushed" =>
          pc[x] = "pushed" /\ send'[x] = send[x] /\ result'[x] = result[x]
    BY <2>1
  <2>6. Truthful'
    BY <1>0, <2>5 DEF Truthful
  <2> QED BY <1>7, <2>2, <2>4, <2>6 DEF RecordInv
<1> QED BY <1>5, <1>8, <1>9

LEMMA CommitRecords ==
  ASSUME RecordInv, NEW t \in Tasks, Commit(t) \/ CommitRaises(t) PROVE RecordInv'
<1> USE NotificationsAssumption
<1>0. TypeOK /\ Space /\ Truthful /\ Unwritten /\ SentIffReached
  BY DEF RecordInv
<1>1. /\ pc[t] = "pushed" /\ Ends(t)
      /\ UNCHANGED <<expired, count, acking, acked, aged, attempts, late>>
      /\ lost' \in [Deliveries -> Nat] /\ faults' \in 0 .. MaxFaults
      /\ uncounted' \in {uncounted, overdue}
  BY <1>0, LosesCounts, FaultTyped DEF Commit, CommitRaises, acks, pushed, TypeOK
<1>2. /\ pc' \in [Tasks -> {"idle", "locking", "sending", "pushed"}]
      /\ send' \in [Tasks -> [kind : Kinds \cup {"none"}, to : SUBSET Responders]]
      /\ result' \in [Tasks -> [row : [Responders -> Row], gone : SUBSET Endpoints,
                                reached : SUBSET Responders]]
      /\ overdue' \subseteq Deliveries
      /\ pc'[t] = "idle" /\ Busy' = Busy \ {t}
      /\ \A x \in Tasks \ {t} : pc'[x] = pc[x] /\ send'[x] = send[x] /\ result'[x] = result[x]
  BY <1>0, <1>1, EndsTyped
<1>3. Cardinality(Busy)' = Cardinality(Busy) - 1 /\ Cardinality(Busy) \in Nat
  <2>1. t \in Busy
    BY <1>1 DEF Busy
  <2> QED BY <1>2, <2>1, BusyCounts
<1>4. Truthful'
  <2>1. \A x \in Tasks : pc'[x] = "pushed" =>
          pc[x] = "pushed" /\ send'[x] = send[x] /\ result'[x] = result[x]
    BY <1>2
  <2> QED BY <1>0, <2>1 DEF Truthful
<1>5. last \in Nat /\ last + Cardinality(Busy) <= MaxDispatch
  BY <1>0 DEF TypeOK, Space
<1>6. CASE UNCHANGED <<last, kind, status, reached, subscribed>>
  <2>1. TypeOK'
    BY <1>0, <1>1, <1>2, <1>6 DEF TypeOK
  <2>2. Space'
    BY <1>3, <1>5, <1>6 DEF Space
  <2>3. Unwritten' /\ SentIffReached'
    BY <1>0, <1>6 DEF Unwritten, SentIffReached
  <2> QED BY <1>4, <2>1, <2>2, <2>3 DEF RecordInv
<1>7. CASE /\ last' = last + 1
           /\ kind' = [kind EXCEPT ![last + 1] = send[t].kind]
           /\ status' = [d \in Deliveries |->
                IF d[1] = last + 1 /\ d[2] \in send[t].to
                  THEN result[t].row[d[2]].status ELSE status[d]]
           /\ reached' = reached \cup ({last + 1} \X result[t].reached)
           /\ subscribed' = subscribed \ result[t].gone
  <2>1. last + 1 \in Dispatches /\ last' \in 0 .. MaxDispatch /\ Space'
    <3>1. Cardinality(Busy) - 1 \in Nat
      BY <1>3, FS_CardinalityType, TasksFinite, <1>1, FS_EmptySet DEF Busy
    <3> QED BY <1>3, <1>5, <1>7, <3>1 DEF Dispatches, Space
  <2>2. /\ send[t].kind \in Kinds \cup {"none"} /\ send[t].to \subseteq Responders
        /\ result[t].row \in [Responders -> Row] /\ result[t].reached \subseteq Responders
    BY <1>0 DEF TypeOK
  <2>3. kind' \in [Dispatches -> Kinds \cup {"none"}]
    BY <1>0, <1>7, <2>2 DEF TypeOK
  <2>4. \A r \in Responders : result[t].row[r].status \in {"sent", "failed"}
    BY <2>2 DEF Row
  <2>5. status' \in [Deliveries -> {"none", "sent", "failed"}]
    BY <1>0, <1>7, <2>2, <2>4 DEF TypeOK
  <2>6. reached' \subseteq Deliveries
    BY <1>0, <1>7, <2>1, <2>2 DEF TypeOK, Deliveries
  <2>7. uncounted' \subseteq Deliveries /\ subscribed' \subseteq Endpoints
    BY <1>0, <1>1, <1>7 DEF TypeOK
  <2>8. TypeOK'
    BY <1>0, <1>1, <1>2, <2>1, <2>3, <2>5, <2>6, <2>7 DEF TypeOK
  <2>9. \A d \in Deliveries :
          /\ d[1] \in Nat /\ d[2] \in Responders
          /\ d \in {last + 1} \X result[t].reached
               <=> d[1] = last + 1 /\ d[2] \in result[t].reached
    BY DEF Deliveries, Dispatches
  <2>10. Unwritten'
    BY <1>0, <1>5, <1>7, <2>9 DEF Unwritten
  <2>11. SentIffReached'
    <3> SUFFICES ASSUME NEW d \in Deliveries PROVE status'[d] = "sent" <=> d \in reached'
      BY DEF SentIffReached
    <3>1. CASE d[1] = last + 1
      <4>1. status[d] = "none" /\ d \notin reached
        BY <1>0, <1>5, <2>9, <3>1 DEF Unwritten
      <4>2. d \in reached' <=> d[2] \in result[t].reached
        BY <1>7, <2>9, <3>1, <4>1
      <4>3. /\ result[t].reached \subseteq send[t].to
            /\ \A r \in send[t].to :
                 result[t].row[r].status = "sent" <=> r \in result[t].reached
        BY <1>0, <1>1 DEF Truthful
      <4>4. status'[d] = IF d[2] \in send[t].to THEN result[t].row[d[2]].status ELSE "none"
        BY <1>7, <3>1, <4>1
      <4> QED BY <4>2, <4>3, <4>4
    <3>2. CASE d[1] # last + 1
      BY <1>0, <1>7, <2>9, <3>2 DEF SentIffReached
    <3> QED BY <3>1, <3>2
  <2> QED BY <1>4, <2>1, <2>8, <2>10, <2>11 DEF RecordInv
<1> QED BY <1>6, <1>7 DEF Commit, CommitRaises, Stores, rows

LEMMA JobRecords ==
  ASSUME RecordInv, JobSelect \/ JobLock \/ JobCount \/ JobCountRaises PROVE RecordInv'
<1> USE NotificationsAssumption
<1>0. TypeOK /\ Space /\ Job \in Tasks
  BY DEF RecordInv, Tasks
<1>1. CASE JobSelect
  <2>1. /\ pc[Job] = "idle" /\ Room /\ Goes(Job, "locking") /\ overdue' = Overdue
        /\ UNCHANGED <<subscribed, expired, last, kind, status, reached, count, acking, acked,
                       aged, send, result, uncounted, attempts, late, lost, faults>>
    BY <1>1 DEF JobSelect, rows, acks, pushed
  <2>2. /\ pc' \in [Tasks -> {"idle", "locking", "sending", "pushed"}]
        /\ pc'[Job] = "locking" /\ \A x \in Tasks \ {Job} : pc'[x] = pc[x]
        /\ Busy' = Busy \cup {Job}
    BY <1>0, <2>1, BusyGoes DEF TypeOK
  <2>3. TypeOK'
    BY <1>0, <2>1, <2>2 DEF TypeOK, Overdue, OverdueUpTo
  <2>4. last + Cardinality(Busy) < MaxDispatch /\ Job \notin Busy
    BY <2>1 DEF Room, Busy
  <2>5. Cardinality(Busy)' = Cardinality(Busy) + 1 /\ Cardinality(Busy) \in Nat
    BY <1>0, <2>2, <2>4, BusyCounts
  <2>6. Space'
    BY <1>0, <2>1, <2>4, <2>5 DEF Space, TypeOK
  <2> QED BY <2>1, <2>2, <2>3, <2>6, NothingRecorded
<1>2. CASE JobLock
  <2>1. /\ pc[Job] = "locking" /\ Goes(Job, "sending")
        /\ send' = [send EXCEPT ![Job] = [kind |-> "critical", to |-> {d[2] : d \in overdue}]]
        /\ UNCHANGED <<subscribed, expired, last, kind, status, reached, count, acking, acked,
                       aged, result, overdue, uncounted, attempts, late, lost, faults>>
    BY <1>2 DEF JobLock, rows, acks, pushed
  <2>2. /\ pc' \in [Tasks -> {"idle", "locking", "sending", "pushed"}]
        /\ pc'[Job] = "sending" /\ \A x \in Tasks \ {Job} : pc'[x] = pc[x]
        /\ Busy' = Busy \cup {Job}
    BY <1>0, <2>1, BusyGoes DEF TypeOK
  <2>3. Busy' = Busy
    BY <1>0, <2>1, <2>2 DEF Busy
  <2>4. Space'
    BY <1>0, <2>1, <2>3, BusyCounts DEF Space
  <2>5. [kind |-> "critical", to |-> {d[2] : d \in overdue}]
          \in [kind : Kinds \cup {"none"}, to : SUBSET Responders]
    BY <1>0 DEF TypeOK, Deliveries, Kinds
  <2>6. send' \in [Tasks -> [kind : Kinds \cup {"none"}, to : SUBSET Responders]]
    BY <1>0, <2>1, <2>5 DEF TypeOK
  <2>7. TypeOK'
    BY <1>0, <2>1, <2>2, <2>6 DEF TypeOK
  <2>8. \A x \in Tasks : pc'[x] = "pushed" => pc[x] = "pushed" /\ send'[x] = send[x]
    BY <1>0, <2>1, <2>2 DEF TypeOK
  <2> QED BY <2>1, <2>4, <2>7, <2>8, NothingRecorded
<1>3. CASE JobCount
  <2>1. UNCHANGED <<subscribed, expired, last, kind, status, reached, acking, acked, aged, pc,
                    send, result, overdue, attempts, late, lost, faults>>
    BY <1>3 DEF JobCount, rows, acks, pushed
  <2>2. PICK d \in uncounted :
          count' = [count EXCEPT ![d] = @ + 1] /\ uncounted' = uncounted \ {d}
    BY <1>3 DEF JobCount
  <2>3. TypeOK'
    BY <1>0, <2>1, <2>2 DEF TypeOK
  <2>4. Space'
    BY <1>0, <2>1 DEF Space, Busy
  <2> QED BY <2>1, <2>3, <2>4, NothingRecorded
<1>4. CASE JobCountRaises
  <2>1. /\ UNCHANGED <<subscribed, expired, last, kind, status, reached, acking, acked, aged, pc,
                       send, result, overdue, attempts, late>>
        /\ uncounted' = {} /\ faults' \in 0 .. MaxFaults
        /\ lost' \in [Deliveries -> Nat]
    BY <1>0, <1>4, LosesCounts, FaultTyped DEF JobCountRaises, rows, acks
  <2>2. count' \in [Deliveries -> Nat]
    <3>1. PICK d \in uncounted : UNCHANGED count \/ count' = [count EXCEPT ![d] = @ + 1]
      BY <1>4 DEF JobCountRaises
    <3> QED BY <1>0, <3>1 DEF TypeOK
  <2>3. TypeOK'
    BY <1>0, <2>1, <2>2 DEF TypeOK
  <2>4. Space'
    BY <1>0, <2>1 DEF Space, Busy
  <2> QED BY <2>1, <2>3, <2>4, NothingRecorded
<1> QED BY <1>1, <1>2, <1>3, <1>4

LEMMA OthersRecord ==
  ASSUME RecordInv,
         \/ \E d \in Deliveries : Acknowledge(d) \/ AcknowledgeCommit(d)
         \/ \E e \in Endpoints : Subscribe(e)
         \/ \E n \in Dispatches : Age(n)
         \/ UNCHANGED vars
  PROVE  RecordInv'
<1>0. TypeOK /\ Space
  BY DEF RecordInv
<1>1. UNCHANGED <<expired, last, kind, status, reached, count, pc, send, result, overdue,
                  uncounted, attempts, late, lost, faults>>
  BY DEF Acknowledge, AcknowledgeCommit, Subscribe, Age, vars, rows, acks, pushed
<1>2. /\ subscribed' \subseteq Endpoints /\ aged' \subseteq Dispatches
      /\ acking' \subseteq Deliveries /\ acked' \subseteq Deliveries
  BY <1>0 DEF Acknowledge, AcknowledgeCommit, Subscribe, Age, vars, acks, TypeOK
<1>3. TypeOK'
  BY <1>0, <1>1, <1>2 DEF TypeOK
<1>4. Space'
  BY <1>0, <1>1 DEF Space, Busy
<1> QED BY <1>1, <1>3, <1>4, NothingRecorded

LEMMA CrashRecords == ASSUME RecordInv, Crash PROVE RecordInv'
<1> USE NotificationsAssumption
<1>0. TypeOK /\ Space /\ Unwritten /\ SentIffReached
  BY DEF RecordInv
<1>1. /\ faults' \in 0 .. MaxFaults /\ lost' \in [Deliveries -> Nat]
      /\ pc' = [t \in Tasks |-> "idle"] /\ send' = [t \in Tasks |-> NoSend]
      /\ result' = [t \in Tasks |-> NoResult]
      /\ acking' = {} /\ overdue' = {} /\ uncounted' = {}
      /\ UNCHANGED <<subscribed, expired, last, kind, status, reached, count, acked, aged,
                     attempts, late>>
  BY <1>0, LosesCounts, FaultTyped DEF Crash, rows
<1>2. NoResult \in [row : [Responders -> Row], gone : SUBSET Endpoints, reached : SUBSET Responders]
  BY DEF NoResult, NoRow, Row
<1>3. NoSend \in [kind : Kinds \cup {"none"}, to : SUBSET Responders]
  BY DEF NoSend
<1>4. TypeOK'
  BY <1>0, <1>1, <1>2, <1>3 DEF TypeOK
<1>5. Busy' = {}
  BY <1>1 DEF Busy
<1>6. Space'
  BY <1>0, <1>1, <1>5, BusyCounts DEF Space, TypeOK
<1>7. Truthful'
  BY <1>1 DEF Truthful
<1>8. Unwritten' /\ SentIffReached'
  BY <1>0, <1>1 DEF Unwritten, SentIffReached
<1> QED BY <1>4, <1>6, <1>7, <1>8 DEF RecordInv

LEMMA Recording == Spec => []RecordInv
<1>1. RecordInv /\ [Next]_vars => RecordInv'
  <2> SUFFICES ASSUME RecordInv, [Next]_vars PROVE RecordInv'
    OBVIOUS
  <2>1. ASSUME NEW t \in Tasks, Push(t) \/ Commit(t) \/ CommitRaises(t) PROVE RecordInv'
    BY <2>1, PushRecords, CommitRecords
  <2> QED BY <2>1, SendKeeps, JobRecords, OthersRecord, CrashRecords DEF Next
<1> QED BY InitRecordInv, <1>1, PTL DEF Spec

\* Every variable keeps its type; there is a dispatch number for each commit.
THEOREM TypeCorrect == Spec => []TypeOK
<1>1. RecordInv => TypeOK
  BY DEF RecordInv
<1> QED BY Recording, <1>1, PTL

\* A delivery is recorded as sent exactly if some device of the responder
\* accepted the push, of any number of devices in any order.
THEOREM RecordedTruly == Spec => []SentIffReached
<1>1. RecordInv => SentIffReached
  BY DEF RecordInv
<1> QED BY Recording, <1>1, PTL
=============================================================================
