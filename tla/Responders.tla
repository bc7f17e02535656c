------------------------------ MODULE Responders ------------------------------
(***************************************************************************)
(* Responders: how one signs in with a one-time code and becomes active    *)
(* (app/services/responder/responder_app_service.py), and the groups that  *)
(* admins keep of them (app/services/responder_group/service.py). The two  *)
(* meet in the default group, which every active responder is a member of. *)
(*                                                                         *)
(* A request runs against the database at READ COMMITTED, in a transaction *)
(* per commit. A step is a transaction, or a part of one that another      *)
(* request can tell from the rest.                                         *)
(***************************************************************************)
EXTENDS Integers

CONSTANTS
  People,       \* rows that responders may have
  Requests,     \* requests, and the codes they generate
  Nobody,       \* no code, no author, no lock
  Ids,          \* keys of groups
  Default,      \* the key of the group "All Active Responders"
  Names,        \* names of groups
  DefaultName,  \* DEFAULT_ACTIVE_RESPONDERS_GROUP_NAME
  NoName,       \* of a group that does not exist
  Limit         \* OTP_ATTEMPT_LIMIT

ASSUME RespondersAssumption ==
  /\ Nobody \notin Requests
  /\ Default \in Ids
  /\ DefaultName \in Names /\ NoName \notin Names
  /\ Limit \in Nat \ {0}

NoOtp == [code |-> Nobody, count |-> 0, expired |-> FALSE]
NoRequest == [op |-> "none"]

Operations ==
  [op : {"send"}, person : People]
    \cup [op : {"verify"}, person : People, code : Requests]
    \cup [op : {"create"}, id : Ids, name : Names, members : SUBSET People]
    \cup [op : {"update"}, id : Ids, name : Names, members : SUBSET People]
    \cup [op : {"delete"}, id : Ids]

OtpSteps == {"replacing", "checking", "forgetting", "counting", "activating", "consuming"}
GroupSteps == {"locking", "locked", "saving"}
Ends == {"done", "refused", "failed"}

VARIABLES
  status,       \* responders.status, or that there is no such row
  activatedBy,  \* the request that set activated_at
  otp,          \* responders_otp_verification
  named,        \* groups.name
  members,      \* responder_groups
  author,       \* the last request that saved a group
  locked,       \* the request that holds the row of a group
  request,      \* what each request asks
  pc,           \* where it stands, or how it ended
  seen,         \* the attempt_count a verification has read
  current,      \* the members an update has read
  late          \* sends whose DELETE precedes the commit of another one

people == <<status, activatedBy>>
groups == <<named, members, author, locked, current>>
vars == <<people, otp, groups, request, pc, seen, late>>

TypeOK ==
  /\ status \in [People -> {"none", "pending", "active"}]
  /\ activatedBy \in [People -> Requests \cup {Nobody}]
  /\ otp \in [People -> [code : Requests \cup {Nobody}, count : 0 .. Limit - 1,
                         expired : BOOLEAN]]
  /\ named \in [Ids -> Names \cup {NoName}]
  /\ members \in [Ids -> SUBSET People]
  /\ author \in [Ids -> Requests \cup {Nobody}]
  /\ locked \in [Ids -> Requests \cup {Nobody}]
  /\ request \in [Requests -> Operations \cup {NoRequest}]
  /\ pc \in [Requests -> {"idle"} \cup OtpSteps \cup GroupSteps \cup Ends]
  /\ seen \in [Requests -> 0 .. Limit - 1]
  /\ current \in [Requests -> SUBSET People]
  /\ late \subseteq Requests

Init ==
  /\ status = [p \in People |-> "none"]
  /\ activatedBy = [p \in People |-> Nobody]
  /\ otp = [p \in People |-> NoOtp]
  /\ named = [i \in Ids |-> NoName]
  /\ members = [i \in Ids |-> {}]
  /\ author = [i \in Ids |-> Nobody]
  /\ locked = [i \in Ids |-> Nobody]
  /\ request = [r \in Requests |-> NoRequest]
  /\ pc = [r \in Requests |-> "idle"]
  /\ seen = [r \in Requests |-> 0]
  /\ current = [r \in Requests |-> {}]
  /\ late = {}

Goes(r, place) == pc' = [pc EXCEPT ![r] = place]
Asks(r, operation) == pc[r] = "idle" /\ request' = [request EXCEPT ![r] = operation]
At(r, place) == pc[r] = place /\ UNCHANGED request

Registered == {p \in People : status[p] # "none"}

\* An admin enters a responder (bulk_create_responders).
Register(p) ==
  /\ status[p] = "none"
  /\ status' = [status EXCEPT ![p] = "pending"]
  /\ UNCHANGED <<activatedBy, otp, groups, request, pc, seen, late>>

-----------------------------------------------------------------------------
(***************************************************************************)
(* One-time codes. The row's key is the responder: whoever updates or      *)
(* deletes it hits the code that stands there now, not the one it has read. *)
(***************************************************************************)

\* for-approval and resend-otp: upsert_otp deletes and inserts. The code is the
\* request that generated it.
Send(r, p) ==
  /\ Asks(r, [op |-> "send", person |-> p])
  /\ Goes(r, IF p \in Registered THEN "replacing" ELSE "refused")
  /\ UNCHANGED <<people, otp, groups, seen, late>>

\* A row inserted after the DELETE started is not seen by it, and the INSERT
\* meets its key unless the row is gone again.
Replace(r) ==
  /\ At(r, "replacing")
  /\ LET p == request[r].person IN
     \/ /\ r \in late /\ otp[p].code # Nobody
        /\ Goes(r, "failed")
        /\ UNCHANGED <<otp, late>>
     \/ /\ r \notin late \/ otp[p].code = Nobody
        /\ otp' = [otp EXCEPT ![p] = [code |-> r, count |-> 0, expired |-> FALSE]]
        /\ late' = late \cup {q \in Requests \ {r} :
                                pc[q] = "replacing" /\ request[q].person = p}
        /\ Goes(r, "done")
  /\ UNCHANGED <<people, groups, seen>>

\* Slip: one attempt too many.
ExhaustedAfter(count) == count + 1 > Limit
Exhausted(count) == count + 1 >= Limit

\* What verify_otp makes of the row it reads.
Verdict(p, code) ==
  CASE otp[p].code = Nobody -> "refused"
    [] otp[p].code # Nobody /\ otp[p].expired -> "forgetting"
    [] otp[p].code # Nobody /\ ~otp[p].expired ->
         IF otp[p].code = code THEN "checking"
         ELSE IF Exhausted(otp[p].count) THEN "forgetting" ELSE "counting"

\* ensure_exists: the default group is there from the first use on.
Ensured == [named EXCEPT ![Default] = DefaultName]

Verify(r, p, code) ==
  /\ Asks(r, [op |-> "verify", person |-> p, code |-> code])
  /\ named' = Ensured
  /\ seen' = [seen EXCEPT ![r] = otp[p].count]
  /\ Goes(r, Verdict(p, code))
  /\ UNCHANGED <<people, otp, members, author, locked, current, late>>

\* delete_by_responder_id, of a code that has expired or that was missed too often.
Forget(r) ==
  /\ At(r, "forgetting")
  /\ otp' = [otp EXCEPT ![request[r].person] = NoOtp]
  /\ Goes(r, "refused")
  /\ UNCHANGED <<people, groups, seen, late>>

\* increment_attempt_count adds to what was read; a row that is gone fails it.
Count(r) ==
  /\ At(r, "counting")
  /\ LET p == request[r].person IN
     \/ /\ otp[p].code = Nobody
        /\ Goes(r, "failed")
        /\ UNCHANGED otp
     \/ /\ otp[p].code # Nobody
        /\ otp' = [otp EXCEPT ![p].count = seen[r] + 1]
        /\ Goes(r, "refused")
  /\ UNCHANGED <<people, groups, seen, late>>

CheckStatus(r) ==
  /\ At(r, "checking")
  /\ Goes(r, IF status[request[r].person] = "pending" THEN "activating" ELSE "consuming")
  /\ UNCHANGED <<people, otp, groups, seen, late>>

\* The code goes, or whatever code stands there. Slip: it is left to expire.
ConsumedKept(p) == otp
Consumed(p) == [otp EXCEPT ![p] = NoOtp]

\* One transaction: activate, add_member, delete_by_responder_id. It holds the
\* responder's row from its first statement; a membership that is there already
\* fails it as a whole. Slip: an insert that minds no conflict.
MemberAlreadyIgnored(p) == FALSE
MemberAlready(p) == p \in members[Default]

Activate(r) ==
  /\ At(r, "activating")
  /\ LET p == request[r].person IN
     \/ /\ MemberAlready(p)
        /\ Goes(r, "failed")
        /\ UNCHANGED <<people, otp, members>>
     \/ /\ ~MemberAlready(p)
        /\ status' = [status EXCEPT ![p] = "active"]
        /\ activatedBy' = [activatedBy EXCEPT ![p] = r]
        /\ members' = [members EXCEPT ![Default] = @ \cup {p}]
        /\ otp' = Consumed(p)
        /\ Goes(r, "done")
  /\ UNCHANGED <<named, author, locked, current, seen, late>>

\* A responder who is active already signs in again.
Consume(r) ==
  /\ At(r, "consuming")
  /\ otp' = Consumed(request[r].person)
  /\ Goes(r, "done")
  /\ UNCHANGED <<people, groups, seen, late>>

Expire(p) ==
  /\ otp[p].code # Nobody /\ ~otp[p].expired
  /\ otp' = [otp EXCEPT ![p].expired = TRUE]
  /\ UNCHANGED <<people, groups, request, pc, seen, late>>

\* data_cleanup_job, delete_expired.
Purge ==
  /\ \E p \in People : otp[p].expired
  /\ otp' = [p \in People |-> IF otp[p].expired THEN NoOtp ELSE otp[p]]
  /\ UNCHANGED <<people, groups, request, pc, seen, late>>

-----------------------------------------------------------------------------
(***************************************************************************)
(* Groups.                                                                 *)
(***************************************************************************)

Reserved(name) == name = DefaultName
Taken(name, i) == \E j \in Ids \ {i} : named[j] = name

\* Slip: the system group is a group like another.
ProtectedNever(i) == FALSE
Protected(i) == named[i] = DefaultName

ListGroups ==
  /\ named[Default] = NoName
  /\ named' = Ensured
  /\ UNCHANGED <<people, otp, members, author, locked, current, request, pc, seen, late>>

\* A key is never used again. The unique name is checked before the insert and
\* by it, with one answer.
Create(r, i, name, S) ==
  /\ i # Default /\ author[i] = Nobody
  /\ Asks(r, [op |-> "create", id |-> i, name |-> name, members |-> S])
  /\ \/ /\ Reserved(name) \/ Taken(name, i) \/ ~(S \subseteq Registered)
        /\ Goes(r, "refused")
        /\ UNCHANGED <<named, members, author>>
     \/ /\ ~Reserved(name) /\ ~Taken(name, i) /\ S \subseteq Registered
        /\ named' = [named EXCEPT ![i] = name]
        /\ members' = [members EXCEPT ![i] = S]
        /\ author' = [author EXCEPT ![i] = r]
        /\ Goes(r, "done")
  /\ UNCHANGED <<people, otp, locked, current, seen, late>>

Update(r, i, name, S) ==
  /\ Asks(r, [op |-> "update", id |-> i, name |-> name, members |-> S])
  /\ Goes(r, IF Reserved(name) THEN "refused" ELSE "locking")
  /\ UNCHANGED <<people, otp, groups, seen, late>>

Delete(r, i) ==
  /\ Asks(r, [op |-> "delete", id |-> i])
  /\ Goes(r, "locking")
  /\ UNCHANGED <<people, otp, groups, seen, late>>

\* Slip: the row is read without FOR UPDATE.
FreeAlways(i) == TRUE
Free(i) == locked[i] = Nobody

\* Whether the request ends here, at the first check that fails.
Denied(r) ==
  LET q == request[r] IN
  \/ named[q.id] = NoName
  \/ Protected(q.id)
  \/ /\ q.op = "update"
     /\ Taken(q.name, q.id) \/ ~(q.members \subseteq Registered)

\* get_with_lock and the checks after it. A request that is denied rolls back.
Lock(r) ==
  /\ At(r, "locking")
  /\ LET i == request[r].id IN
     /\ Free(i)
     /\ \/ Denied(r) /\ Goes(r, "refused") /\ UNCHANGED locked
        \/ /\ ~Denied(r)
           /\ locked' = [locked EXCEPT ![i] = r]
           /\ Goes(r, "locked")
  /\ UNCHANGED <<people, otp, named, members, author, current, seen, late>>

\* update_with_members reads the members and writes the difference.
ReadMembers(r) ==
  /\ At(r, "locked") /\ request[r].op = "update"
  /\ current' = [current EXCEPT ![r] = members[request[r].id]]
  /\ Goes(r, "saving")
  /\ UNCHANGED <<people, otp, named, members, author, locked, seen, late>>

\* Memberships are inserted and the group renamed; a key or the unique name may fail.
Save(r) ==
  /\ At(r, "saving")
  /\ LET q == request[r]
         added == q.members \ current[r]
         removed == current[r] \ q.members
     IN
     /\ locked' = [locked EXCEPT ![q.id] = Nobody]
     /\ \/ /\ Taken(q.name, q.id) \/ added \cap members[q.id] # {}
           /\ Goes(r, "failed")
           /\ UNCHANGED <<named, members, author>>
        \/ /\ ~Taken(q.name, q.id) /\ added \cap members[q.id] = {}
           /\ named' = [named EXCEPT ![q.id] = q.name]
           /\ members' = [members EXCEPT ![q.id] = (@ \ removed) \cup added]
           /\ author' = [author EXCEPT ![q.id] = r]
           /\ Goes(r, "done")
  /\ UNCHANGED <<people, otp, current, seen, late>>

\* The memberships go with the group.
Remove(r) ==
  /\ At(r, "locked") /\ request[r].op = "delete"
  /\ LET i == request[r].id IN
     /\ named' = [named EXCEPT ![i] = NoName]
     /\ members' = [members EXCEPT ![i] = {}]
     /\ locked' = [locked EXCEPT ![i] = Nobody]
  /\ Goes(r, "done")
  /\ UNCHANGED <<people, otp, author, current, seen, late>>

-----------------------------------------------------------------------------
Arrive(r) ==
  \/ \E p \in People : Send(r, p) \/ \E code \in Requests : Verify(r, p, code)
  \/ \E i \in Ids :
       \/ Delete(r, i)
       \/ \E name \in Names, S \in SUBSET People : Create(r, i, name, S) \/ Update(r, i, name, S)

Step(r) ==
  \/ Replace(r) \/ Forget(r) \/ Count(r) \/ CheckStatus(r) \/ Activate(r) \/ Consume(r)
  \/ Lock(r) \/ ReadMembers(r) \/ Save(r) \/ Remove(r)

Next ==
  \/ \E r \in Requests : Arrive(r) \/ Step(r)
  \/ \E p \in People : Register(p) \/ Expire(p)
  \/ Purge \/ ListGroups

Spec == Init /\ [][Next]_vars

-----------------------------------------------------------------------------
(***************************************************************************)
(* Properties, and the parts of the inductive invariant.                   *)
(***************************************************************************)

\* The default group has its name from the first use on.
DefaultKeepsName == named[Default] \in {NoName, DefaultName}

\* A step finds the request it is a step of.
InStep ==
  \A r \in Requests :
    /\ pc[r] \in {"checking", "activating", "consuming"} => request[r].op = "verify"
    /\ pc[r] \in {"forgetting", "counting"} => request[r].op = "verify"
    /\ pc[r] = "replacing" => request[r].op = "send"
    /\ pc[r] = "counting" => seen[r] + 1 < Limit
    /\ pc[r] \in GroupSteps => request[r].op \in {"update", "delete"}
    /\ pc[r] = "saving" => request[r].op = "update"

\* Who is past the lock holds a group that the admins have, and an update that is
\* about to save knows its members.
Holding ==
  \A r \in Requests :
    /\ pc[r] \in {"locked", "saving"} =>
         /\ request[r].id # Default /\ named[request[r].id] # NoName
         /\ locked[request[r].id] = r
    /\ pc[r] = "saving" => current[r] = members[request[r].id]

Authored ==
  \A i \in Ids \ {Default} :
    named[i] # NoName => author[i] \in Requests /\ pc[author[i]] = "done"

ActivatedAreMembers ==
  \A p \in People : activatedBy[p] # Nobody => p \in members[Default]

\* "On success: activate responder, add to default group": the active
\* responders are the members of the default group, whatever verifications
\* overlap and whatever admins do to groups (verify_otp, update_group).
ActiveAreMembers ==
  members[Default] = {p \in People : status[p] = "active"}

\* activated_at is set once: of two verifications that both found the responder
\* pending, the second one fails as a whole (verify_otp, add_member).
ActivatedOnce ==
  [][\A p \in People : activatedBy[p] # Nobody => activatedBy'[p] = activatedBy[p]]_vars

\* A code that has signed its responder in is not there to be used by a request
\* that comes later (delete_by_responder_id at the end of verify_otp).
UsedCodeIsGone ==
  \A r \in Requests :
    pc[r] = "done" /\ request[r].op = "verify"
      => otp[request[r].person].code # request[r].code

\* A group has the members that its last author asked for, never a mix of two
\* updates that overlap (get_with_lock, update_with_members).
GroupIsItsAuthors ==
  \A i \in Ids \ {Default} :
    named[i] # NoName => members[i] = request[author[i]].members

RespondersInv ==
  /\ TypeOK /\ DefaultKeepsName /\ InStep /\ Holding /\ Authored
  /\ ActivatedAreMembers /\ ActiveAreMembers /\ GroupIsItsAuthors
=============================================================================
