--------------------------- MODULE RespondersProofs ---------------------------
(***************************************************************************)
(* What Responders promises of any number of people, groups and requests.  *)
(* The lock of a group's row and the name that protects the default group  *)
(* are what the induction needs to know.                                   *)
(***************************************************************************)
EXTENDS Responders, TLAPS

\* What an update that succeeds leaves behind.
Saved(r) ==
  LET q == request[r] IN
  /\ named' = [named EXCEPT ![q.id] = q.name]
  /\ members' = [members EXCEPT ![q.id] = (@ \ (current[r] \ q.members))
                                            \cup (q.members \ current[r])]
  /\ author' = [author EXCEPT ![q.id] = r]

LEMMA InitInv == Init => RespondersInv
<1> SUFFICES ASSUME Init PROVE RespondersInv
  OBVIOUS
<1>1. TypeOK
  BY RespondersAssumption DEF Init, TypeOK, NoOtp, NoRequest
<1>2. Holding /\ InStep
  BY DEF Init, Holding, InStep, GroupSteps
<1>3. DefaultKeepsName /\ Authored /\ GroupIsItsAuthors
  BY RespondersAssumption DEF Init, DefaultKeepsName, Authored, GroupIsItsAuthors
<1>4. ActivatedAreMembers /\ ActiveAreMembers
  BY RespondersAssumption DEF Init, ActivatedAreMembers, ActiveAreMembers
<1> QED BY <1>1, <1>2, <1>3, <1>4 DEF RespondersInv

-----------------------------------------------------------------------------
(***************************************************************************)
(* Types.                                                                  *)
(***************************************************************************)

\* A request that arrives is of the operations, and one that goes on stays.
LEMMA ArrivesTyped ==
  ASSUME TypeOK, NEW r \in Requests, NEW operation \in Operations, Asks(r, operation)
  PROVE  request' \in [Requests -> Operations \cup {NoRequest}]
BY DEF TypeOK, Asks

LEMMA PersonTyped ==
  ASSUME TypeOK, NEW r \in Requests, request[r].op \in {"send", "verify"}
  PROVE  request[r].person \in People
BY DEF TypeOK, Operations, NoRequest

LEMMA GroupTyped ==
  ASSUME TypeOK, NEW r \in Requests, request[r].op \in {"update", "delete"}
  PROVE  /\ request[r].id \in Ids
         /\ request[r].op = "update" =>
              request[r].name \in Names /\ request[r].members \in SUBSET People
BY DEF TypeOK, Operations, NoRequest

LEMMA ArriveTypeOK ==
  ASSUME RespondersInv, NEW r \in Requests, Arrive(r) PROVE TypeOK'
<1> USE RespondersAssumption
<1> TypeOK
  BY DEF RespondersInv
<1>1. ASSUME NEW p \in People, Send(r, p) PROVE TypeOK'
  <2>1. request' \in [Requests -> Operations \cup {NoRequest}]
    BY <1>1, ArrivesTyped DEF Send, Operations
  <2> QED BY <1>1, <2>1 DEF Send, Goes, TypeOK, OtpSteps, Ends, people, groups
<1>2. ASSUME NEW p \in People, NEW code \in Requests, Verify(r, p, code) PROVE TypeOK'
  <2>1. request' \in [Requests -> Operations \cup {NoRequest}]
    BY <1>2, ArrivesTyped DEF Verify, Operations
  <2>2. Verdict(p, code) \in OtpSteps \cup Ends
    BY DEF Verdict, OtpSteps, Ends, TypeOK
  <2>3. otp[p].count \in 0 .. Limit - 1
    BY DEF TypeOK
  <2> QED BY <1>2, <2>1, <2>2, <2>3 DEF Verify, Goes, TypeOK, Ensured, people
<1>3. ASSUME NEW i \in Ids, Delete(r, i) PROVE TypeOK'
  <2>1. request' \in [Requests -> Operations \cup {NoRequest}]
    BY <1>3, ArrivesTyped DEF Delete, Operations
  <2> QED BY <1>3, <2>1 DEF Delete, Goes, TypeOK, GroupSteps, people, groups
<1>4. ASSUME NEW i \in Ids, NEW name \in Names, NEW S \in SUBSET People, Create(r, i, name, S)
      PROVE  TypeOK'
  <2>1. request' \in [Requests -> Operations \cup {NoRequest}]
    BY <1>4, ArrivesTyped DEF Create, Operations
  <2>2. pc' \in [Requests -> {"idle"} \cup OtpSteps \cup GroupSteps \cup Ends]
    BY <1>4 DEF Create, Goes, TypeOK, Ends
  <2>3. UNCHANGED <<status, activatedBy, otp, locked, current, seen, late>>
    BY <1>4 DEF Create, people
  <2>4. CASE UNCHANGED <<named, members, author>>
    BY <2>1, <2>2, <2>3, <2>4 DEF TypeOK
  <2>5. CASE /\ named' = [named EXCEPT ![i] = name] /\ members' = [members EXCEPT ![i] = S]
             /\ author' = [author EXCEPT ![i] = r]
    BY <2>1, <2>2, <2>3, <2>5 DEF TypeOK
  <2> QED BY <1>4, <2>4, <2>5 DEF Create
<1>5. ASSUME NEW i \in Ids, NEW name \in Names, NEW S \in SUBSET People, Update(r, i, name, S)
      PROVE  TypeOK'
  <2>1. request' \in [Requests -> Operations \cup {NoRequest}]
    BY <1>5, ArrivesTyped DEF Update, Operations
  <2> QED BY <1>5, <2>1 DEF Update, Goes, TypeOK, GroupSteps, Ends, people, groups
<1> QED BY <1>1, <1>2, <1>3, <1>4, <1>5 DEF Arrive

LEMMA StepTypeOK ==
  ASSUME RespondersInv, NEW r \in Requests, Step(r) PROVE TypeOK'
<1> USE RespondersAssumption
<1> TypeOK /\ InStep
  BY DEF RespondersInv
<1>1. CASE Replace(r)
  <2>1. request[r].person \in People
    BY <1>1, PersonTyped DEF InStep, Replace, At
  <2>2. otp' \in [People -> [code : Requests \cup {Nobody}, count : 0 .. Limit - 1,
                             expired : BOOLEAN]]
    <3>1. [code |-> r, count |-> 0, expired |-> FALSE]
            \in [code : Requests \cup {Nobody}, count : 0 .. Limit - 1, expired : BOOLEAN]
      OBVIOUS
    <3>2. otp' = otp \/ otp' = [otp EXCEPT ![request[r].person] =
                                   [code |-> r, count |-> 0, expired |-> FALSE]]
      BY <1>1 DEF Replace
    <3> HIDE RespondersAssumption
    <3> QED BY <2>1, <3>1, <3>2 DEF TypeOK
  <2> QED BY <1>1, <2>2 DEF Replace, At, Goes, TypeOK, Ends, people, groups
<1>2. CASE Forget(r)
  <2>1. request[r].person \in People
    BY <1>2, PersonTyped DEF InStep, Forget, At
  <2> QED BY <1>2, <2>1 DEF Forget, At, Goes, TypeOK, NoOtp, Ends, people, groups
<1>3. CASE Count(r)
  <2>1. request[r].person \in People
    BY <1>3, PersonTyped DEF InStep, Count, At
  <2>2. seen[r] + 1 \in 0 .. Limit - 1
    BY <1>3 DEF InStep, Count, At, TypeOK
  <2>3. UNCHANGED <<people, groups, request, seen, late>>
    BY <1>3 DEF Count, At
  <2>4. pc' \in [Requests -> {"idle"} \cup OtpSteps \cup GroupSteps \cup Ends]
    BY <1>3 DEF Count, Goes, TypeOK, Ends
  <2>5. otp' = otp \/ otp' = [otp EXCEPT ![request[r].person].count = seen[r] + 1]
    BY <1>3 DEF Count
  <2>6. ASSUME NEW counts, NEW n \in counts,
               NEW row \in [code : Requests \cup {Nobody}, count : counts, expired : BOOLEAN]
        PROVE  [row EXCEPT !.count = n]
                 \in [code : Requests \cup {Nobody}, count : counts, expired : BOOLEAN]
    OBVIOUS
  <2>7. otp' \in [People -> [code : Requests \cup {Nobody}, count : 0 .. Limit - 1,
                             expired : BOOLEAN]]
    <3> DEFINE Rows == [code : Requests \cup {Nobody}, count : 0 .. Limit - 1,
                        expired : BOOLEAN]
               p == request[r].person
    <3>1. otp[p] \in Rows
      BY <2>1 DEF TypeOK
    <3>2. [otp[p] EXCEPT !.count = seen[r] + 1] \in Rows
      BY <2>2, <2>6, <3>1
    <3>3. otp \in [People -> Rows]
      BY DEF TypeOK
    <3>4. otp' = otp \/ otp' = [otp EXCEPT ![p] = [otp[p] EXCEPT !.count = seen[r] + 1]]
      BY <2>5
    <3> HIDE DEF Rows, p
    <3>5. otp' \in [People -> Rows]
      BY <3>2, <3>3, <3>4
    <3> QED BY <3>5 DEF Rows
  <2> QED BY <2>3, <2>4, <2>7 DEF TypeOK, people, groups
<1>4. CASE CheckStatus(r)
  BY <1>4 DEF CheckStatus, At, Goes, TypeOK, OtpSteps, people, groups
<1>5. CASE Activate(r)
  <2>1. request[r].person \in People
    BY <1>5, PersonTyped DEF InStep, Activate, At
  <2>2. UNCHANGED <<named, author, locked, current, request, seen, late>>
    BY <1>5 DEF Activate, At
  <2>3. pc' \in [Requests -> {"idle"} \cup OtpSteps \cup GroupSteps \cup Ends]
    BY <1>5 DEF Activate, Goes, TypeOK, Ends
  <2>4. CASE UNCHANGED <<status, activatedBy, otp, members>>
    BY <2>2, <2>3, <2>4 DEF TypeOK
  <2>5. CASE /\ status' = [status EXCEPT ![request[r].person] = "active"]
             /\ activatedBy' = [activatedBy EXCEPT ![request[r].person] = r]
             /\ members' = [members EXCEPT ![Default] = @ \cup {request[r].person}]
             /\ otp' = [otp EXCEPT ![request[r].person] = NoOtp]
    BY <2>1, <2>2, <2>3, <2>5 DEF TypeOK, NoOtp
  <2> QED BY <1>5, <2>4, <2>5 DEF Activate, Consumed, people
<1>6. CASE Consume(r)
  <2>1. request[r].person \in People
    BY <1>6, PersonTyped DEF InStep, Consume, At
  <2> QED BY <1>6, <2>1 DEF Consume, Consumed, At, Goes, TypeOK, NoOtp, Ends, people, groups
<1>7. CASE Lock(r)
  <2>1. request[r].id \in Ids
    BY <1>7, GroupTyped DEF InStep, Lock, At, GroupSteps
  <2>2. UNCHANGED <<people, otp, named, members, author, current, request, seen, late>>
    BY <1>7 DEF Lock, At
  <2>3. pc' \in [Requests -> {"idle"} \cup OtpSteps \cup GroupSteps \cup Ends]
    BY <1>7 DEF Lock, Goes, TypeOK, GroupSteps, Ends
  <2>4. locked' = locked \/ locked' = [locked EXCEPT ![request[r].id] = r]
    BY <1>7 DEF Lock
  <2> QED BY <2>1, <2>2, <2>3, <2>4 DEF TypeOK, people
<1>8. CASE ReadMembers(r)
  <2>1. request[r].id \in Ids
    BY <1>8, GroupTyped DEF ReadMembers
  <2> QED BY <1>8, <2>1 DEF ReadMembers, At, Goes, TypeOK, GroupSteps, people
<1>9. CASE Save(r)
  <2>1. request[r].id \in Ids /\ request[r].name \in Names /\ request[r].members \in SUBSET People
    BY <1>9, GroupTyped DEF InStep, Save, At
  <2>2. UNCHANGED <<status, activatedBy, otp, current, request, seen, late>>
    BY <1>9 DEF Save, At, people
  <2>3. pc' \in [Requests -> {"idle"} \cup OtpSteps \cup GroupSteps \cup Ends]
    BY <1>9 DEF Save, Goes, TypeOK, Ends
  <2>4. locked' = [locked EXCEPT ![request[r].id] = Nobody]
    BY <1>9 DEF Save
  <2>5. CASE UNCHANGED <<named, members, author>>
    BY <2>1, <2>2, <2>3, <2>4, <2>5 DEF TypeOK
  <2>6. CASE Saved(r)
    BY <2>1, <2>2, <2>3, <2>4, <2>6 DEF TypeOK, Saved
  <2> QED BY <1>9, <2>5, <2>6 DEF Save, Saved
<1>10. CASE Remove(r)
  <2>1. request[r].id \in Ids
    BY <1>10, GroupTyped DEF Remove
  <2> QED BY <1>10, <2>1 DEF Remove, At, Goes, TypeOK, Ends, people
<1> QED BY <1>1, <1>2, <1>3, <1>4, <1>5, <1>6, <1>7, <1>8, <1>9, <1>10 DEF Step

-----------------------------------------------------------------------------
(***************************************************************************)
(* The parts. A request that arrives was idle, so that nobody has its group *)
(* and it is no group's author.                                            *)
(***************************************************************************)

LEMMA ArriveKeeps ==
  ASSUME RespondersInv, NEW r \in Requests, Arrive(r)
  PROVE  RespondersInv'
<1> USE RespondersAssumption
<1> TypeOK /\ DefaultKeepsName /\ InStep /\ Holding /\ Authored /\ ActivatedAreMembers
    /\ ActiveAreMembers /\ GroupIsItsAuthors
  BY DEF RespondersInv
<1> TypeOK'
  BY ArriveTypeOK
<1>1. ASSUME NEW operation \in Operations, NEW place,
             Asks(r, operation), Goes(r, place), UNCHANGED <<people, locked, current>>,
             members' = members /\ author' = author /\ named' \in {named, Ensured},
             place \notin {"locked", "saving"},
             InStep'
      PROVE  RespondersInv'
  <2>1. /\ request' = [request EXCEPT ![r] = operation] /\ pc[r] = "idle"
        /\ pc' = [pc EXCEPT ![r] = place]
    BY <1>1 DEF Asks, Goes
  <2>2. DefaultKeepsName' /\ \A i \in Ids \ {Default} : named'[i] = named[i]
    BY <1>1 DEF DefaultKeepsName, Ensured, TypeOK
  <2>3. Holding'
    <3>1. \A q \in Requests : pc'[q] \in {"locked", "saving"} =>
             /\ pc'[q] = pc[q] /\ request'[q] = request[q]
             /\ request[q].id \in Ids \ {Default}
      BY <1>1, <2>1, GroupTyped DEF TypeOK, Holding, InStep, GroupSteps
    <3> QED BY <1>1, <2>2, <3>1 DEF Holding
  <2>4. Authored' /\ GroupIsItsAuthors'
    BY <1>1, <2>1, <2>2 DEF Authored, GroupIsItsAuthors, TypeOK
  <2>5. ActivatedAreMembers' /\ ActiveAreMembers'
    BY <1>1 DEF ActivatedAreMembers, ActiveAreMembers, people
  <2> QED BY <1>1, <2>2, <2>3, <2>4, <2>5 DEF RespondersInv
<1>2. ASSUME NEW p \in People, Send(r, p) PROVE RespondersInv'
  <2> DEFINE place == IF p \in Registered THEN "replacing" ELSE "refused"
  <2>1. InStep'
    BY <1>2 DEF Send, Asks, Goes, InStep, TypeOK, GroupSteps, groups
  <2> QED BY <1>1, <1>2, <2>1 DEF Send, Operations, groups
<1>3. ASSUME NEW p \in People, NEW code \in Requests, Verify(r, p, code)
      PROVE  RespondersInv'
  <2>1. Verdict(p, code) \in {"refused", "forgetting", "checking", "counting"}
    BY DEF Verdict, TypeOK
  <2>2. Verdict(p, code) = "counting" => otp[p].count + 1 < Limit
    BY DEF Verdict, Exhausted, TypeOK
  <2>3. InStep'
    BY <1>3, <2>1, <2>2 DEF Verify, Asks, Goes, InStep, TypeOK, GroupSteps
  <2> QED BY <1>1, <1>3, <2>1, <2>3 DEF Verify, Operations
<1>4. ASSUME NEW i \in Ids, Delete(r, i) PROVE RespondersInv'
  <2>1. InStep'
    BY <1>4 DEF Delete, Asks, Goes, InStep, TypeOK, GroupSteps
  <2> QED BY <1>1, <1>4, <2>1 DEF Delete, Operations, groups
<1>5. ASSUME NEW i \in Ids, NEW name \in Names, NEW S \in SUBSET People, Update(r, i, name, S)
      PROVE  RespondersInv'
  <2>1. InStep'
    BY <1>5 DEF Update, Asks, Goes, InStep, TypeOK, GroupSteps
  <2> QED BY <1>1, <1>5, <2>1 DEF Update, Operations, groups
<1>6. ASSUME NEW i \in Ids, NEW name \in Names, NEW S \in SUBSET People, Create(r, i, name, S)
      PROVE  RespondersInv'
  <2>1. InStep'
    BY <1>6 DEF Create, Asks, Goes, InStep, TypeOK, GroupSteps
  <2> DEFINE operation == [op |-> "create", id |-> i, name |-> name, members |-> S]
  <2>2. CASE UNCHANGED <<named, members, author>> /\ Goes(r, "refused")
    BY <1>1, <1>6, <2>1, <2>2 DEF Create, Operations
  <2>3. CASE /\ named' = [named EXCEPT ![i] = name] /\ members' = [members EXCEPT ![i] = S]
             /\ author' = [author EXCEPT ![i] = r] /\ Goes(r, "done")
    <3>1. /\ request' = [request EXCEPT ![r] = operation] /\ pc[r] = "idle"
          /\ pc' = [pc EXCEPT ![r] = "done"] /\ i # Default /\ author[i] = Nobody
          /\ UNCHANGED <<status, activatedBy, locked, current>>
      BY <1>6, <2>3 DEF Create, Asks, Goes, people
    <3>2. DefaultKeepsName' /\ ActivatedAreMembers' /\ ActiveAreMembers'
      BY <2>3, <3>1 DEF DefaultKeepsName, ActivatedAreMembers, ActiveAreMembers, TypeOK
    <3>3. Authored'
      BY <2>3, <3>1 DEF Authored, TypeOK
    <3>4. GroupIsItsAuthors'
      BY <2>3, <3>1 DEF GroupIsItsAuthors, Authored, TypeOK
    <3>5. Holding'
      BY <2>3, <3>1 DEF Holding, Authored, TypeOK
    <3> QED BY <2>1, <3>2, <3>3, <3>4, <3>5 DEF RespondersInv
  <2> QED BY <1>6, <2>2, <2>3 DEF Create
<1> QED BY <1>2, <1>3, <1>4, <1>5, <1>6 DEF Arrive

-----------------------------------------------------------------------------
(***************************************************************************)
(* The steps of codes. They leave alone the groups that admins have.       *)
(***************************************************************************)

LEMMA GroupsLeftAlone ==
  ASSUME RespondersInv, NEW r \in Requests, NEW place, request' = request,
         Goes(r, place), pc[r] \notin {"locked", "saving", "done"},
         place \notin {"locked", "saving"},
         UNCHANGED <<named, author, locked, current>>,
         \A i \in Ids \ {Default} : members'[i] = members[i]
  PROVE  Holding' /\ Authored' /\ GroupIsItsAuthors'
<1> TypeOK /\ Holding /\ Authored /\ GroupIsItsAuthors
  BY DEF RespondersInv
<1>1. request' = request /\ pc' = [pc EXCEPT ![r] = place]
  BY DEF Goes
<1>2. Holding'
  <2>1. \A q \in Requests : pc'[q] \in {"locked", "saving"} =>
           pc'[q] = pc[q] /\ request[q].id \in Ids \ {Default}
    BY <1>1, GroupTyped DEF TypeOK, Holding, RespondersInv, InStep, GroupSteps
  <2> QED BY <1>1, <2>1 DEF Holding
<1>3. \A q \in Requests : pc[q] = "done" => pc'[q] = "done"
  BY <1>1 DEF TypeOK
<1>4. Authored'
  BY <1>3 DEF Authored
<1>5. GroupIsItsAuthors'
  BY <1>1 DEF GroupIsItsAuthors
<1> QED BY <1>2, <1>4, <1>5

LEMMA StepInStep ==
  ASSUME RespondersInv, NEW r \in Requests, Step(r) PROVE InStep'
<1> USE RespondersAssumption DEF At, Goes, InStep, GroupSteps
<1> TypeOK /\ InStep
  BY DEF RespondersInv
<1>1. CASE Replace(r)
  BY <1>1 DEF Replace, TypeOK
<1>2. CASE Forget(r)
  BY <1>2 DEF Forget, TypeOK
<1>3. CASE Count(r)
  BY <1>3 DEF Count, TypeOK
<1>4. CASE CheckStatus(r)
  BY <1>4 DEF CheckStatus, TypeOK
<1>5. CASE Activate(r)
  BY <1>5 DEF Activate, TypeOK
<1>6. CASE Consume(r)
  BY <1>6 DEF Consume, TypeOK
<1>7. CASE Lock(r)
  BY <1>7 DEF Lock, TypeOK
<1>8. CASE ReadMembers(r)
  BY <1>8 DEF ReadMembers, TypeOK
<1>9. CASE Save(r)
  BY <1>9 DEF Save, TypeOK
<1>10. CASE Remove(r)
  BY <1>10 DEF Remove, TypeOK
<1> QED BY <1>1, <1>2, <1>3, <1>4, <1>5, <1>6, <1>7, <1>8, <1>9, <1>10 DEF Step

LEMMA CodeStepKeeps ==
  ASSUME RespondersInv, NEW r \in Requests,
         Replace(r) \/ Forget(r) \/ Count(r) \/ CheckStatus(r) \/ Activate(r) \/ Consume(r)
  PROVE  RespondersInv'
<1> USE RespondersAssumption
<1> TypeOK /\ DefaultKeepsName /\ InStep /\ ActivatedAreMembers /\ ActiveAreMembers
  BY DEF RespondersInv
<1>1. TypeOK' /\ InStep'
  BY StepTypeOK, StepInStep DEF Step
<1>2. /\ request' = request /\ UNCHANGED <<named, author, locked, current>>
      /\ pc[r] \notin {"locked", "saving", "done"}
      /\ \E place \in OtpSteps \cup Ends : Goes(r, place)
  BY DEF Replace, Forget, Count, CheckStatus, Activate, Consume, At, people, groups,
         OtpSteps, Ends
<1>3. /\ \A i \in Ids \ {Default} : members'[i] = members[i]
      /\ ActivatedAreMembers' /\ ActiveAreMembers'
  <2>1. CASE UNCHANGED <<status, activatedBy, members>>
    BY <2>1 DEF ActivatedAreMembers, ActiveAreMembers
  <2>2. CASE Activate(r)
    <3>1. request[r].person \in People
      BY <2>2, PersonTyped DEF InStep, Activate, At
    <3>2. CASE /\ status' = [status EXCEPT ![request[r].person] = "active"]
               /\ activatedBy' = [activatedBy EXCEPT ![request[r].person] = r]
               /\ members' = [members EXCEPT ![Default] = @ \cup {request[r].person}]
      BY <3>1, <3>2 DEF TypeOK, ActivatedAreMembers, ActiveAreMembers
    <3> QED BY <2>1, <2>2, <3>2 DEF Activate, people
  <2> QED BY <2>1, <2>2 DEF Replace, Forget, Count, CheckStatus, Consume, people, groups
<1>4. Holding' /\ Authored' /\ GroupIsItsAuthors'
  <2>1. PICK place \in OtpSteps \cup Ends : Goes(r, place)
    BY <1>2
  <2> QED BY <1>2, <1>3, <2>1, GroupsLeftAlone DEF OtpSteps, Ends
<1>5. DefaultKeepsName'
  BY <1>2 DEF DefaultKeepsName
<1> QED BY <1>1, <1>3, <1>4, <1>5 DEF RespondersInv

-----------------------------------------------------------------------------
(***************************************************************************)
(* The steps of groups. A request that is let through the lock does not    *)
(* have the default group, whose name protects it.                         *)
(***************************************************************************)

LEMMA GroupStepKeeps ==
  ASSUME RespondersInv, NEW r \in Requests, Lock(r) \/ ReadMembers(r) \/ Save(r) \/ Remove(r)
  PROVE  RespondersInv'
<1> USE RespondersAssumption
<1> TypeOK /\ DefaultKeepsName /\ InStep /\ Holding /\ Authored /\ ActivatedAreMembers
    /\ ActiveAreMembers /\ GroupIsItsAuthors
  BY DEF RespondersInv
<1>1. TypeOK' /\ InStep'
  BY StepTypeOK, StepInStep DEF Step
<1>2. request[r].id \in Ids /\ request' = request /\ UNCHANGED <<status, activatedBy>>
  BY GroupTyped DEF Lock, ReadMembers, Save, Remove, At, InStep, GroupSteps, people
<1>3. \A q \in Requests : pc[q] \in {"locked", "saving"} => request[q].id \in Ids
  BY GroupTyped DEF InStep, GroupSteps
<1>4. CASE Lock(r)
  <2>1. UNCHANGED <<named, members, author, current>> /\ Free(request[r].id)
    BY <1>4 DEF Lock
  <2>2. DefaultKeepsName' /\ ActivatedAreMembers' /\ ActiveAreMembers'
    BY <1>2, <2>1 DEF DefaultKeepsName, ActivatedAreMembers, ActiveAreMembers
  <2>3. Authored' /\ GroupIsItsAuthors'
    BY <1>2, <1>4, <2>1 DEF Lock, At, Goes, Authored, GroupIsItsAuthors, TypeOK
  <2>4. CASE Denied(r) /\ Goes(r, "refused") /\ UNCHANGED locked
    <3>1. Holding'
      BY <1>2, <2>1, <2>4 DEF Holding, Goes, TypeOK
    <3> QED BY <1>1, <2>2, <2>3, <3>1 DEF RespondersInv
  <2>5. CASE /\ ~Denied(r) /\ Goes(r, "locked")
             /\ locked' = [locked EXCEPT ![request[r].id] = r]
    <3>1. named[request[r].id] # NoName /\ request[r].id # Default
      BY <2>5 DEF Denied, Protected, DefaultKeepsName
    <3>2. Holding'
      BY <1>2, <1>3, <2>1, <2>5, <3>1 DEF Holding, Goes, TypeOK, Free
    <3> QED BY <1>1, <2>2, <2>3, <3>2 DEF RespondersInv
  <2> QED BY <1>4, <2>4, <2>5 DEF Lock
<1>5. CASE ReadMembers(r)
  <2>1. UNCHANGED <<named, members, author, locked>>
    BY <1>5 DEF ReadMembers
  <2>2. DefaultKeepsName' /\ ActivatedAreMembers' /\ ActiveAreMembers'
    BY <1>2, <2>1 DEF DefaultKeepsName, ActivatedAreMembers, ActiveAreMembers
  <2>3. Authored' /\ GroupIsItsAuthors'
    BY <1>2, <1>5, <2>1 DEF ReadMembers, At, Goes, Authored, GroupIsItsAuthors, TypeOK
  <2>4. Holding'
    BY <1>2, <1>5, <2>1 DEF ReadMembers, At, Goes, Holding, TypeOK
  <2> QED BY <1>1, <2>2, <2>3, <2>4 DEF RespondersInv
<1>6. ASSUME pc[r] \in {"locked", "saving"}, NEW place \in Ends, Goes(r, place),
             locked' = [locked EXCEPT ![request[r].id] = Nobody], UNCHANGED current,
             \A i \in Ids \ {request[r].id} :
               named'[i] = named[i] /\ members'[i] = members[i] /\ author'[i] = author[i],
             \/ named'[request[r].id] = NoName
             \/ UNCHANGED <<named, members, author>>
             \/ /\ author'[request[r].id] = r /\ place = "done"
                /\ members'[request[r].id] = request[r].members
      PROVE  RespondersInv'
  <2>1. request[r].id # Default /\ locked[request[r].id] = r
    BY <1>6 DEF Holding
  <2>2. DefaultKeepsName' /\ ActivatedAreMembers' /\ ActiveAreMembers'
    BY <1>2, <1>6, <2>1 DEF DefaultKeepsName, ActivatedAreMembers, ActiveAreMembers
  <2>3. \A q \in Requests \ {r} : pc'[q] = pc[q]
    BY <1>6 DEF Goes, TypeOK
  <2>4. pc'[r] = place
    BY <1>6 DEF Goes, TypeOK
  <2>5. Authored'
    BY <1>2, <1>6, <2>3, <2>4 DEF Authored
  <2>6. GroupIsItsAuthors'
    BY <1>2, <1>6 DEF GroupIsItsAuthors
  <2>7. \A q \in Requests : pc'[q] \in {"locked", "saving"} =>
           q # r /\ request[q].id # request[r].id
    BY <1>6, <2>1, <2>3, <2>4 DEF Holding, Ends
  <2>8. Holding'
    BY <1>2, <1>3, <1>6, <2>3, <2>7 DEF Holding, TypeOK
  <2> QED BY <1>1, <2>2, <2>5, <2>6, <2>8 DEF RespondersInv
<1>7. CASE Save(r)
  <2>1. /\ pc[r] = "saving" /\ current[r] = members[request[r].id]
        /\ locked' = [locked EXCEPT ![request[r].id] = Nobody] /\ UNCHANGED current
    BY <1>7 DEF Save, At, Holding
  <2>2. CASE UNCHANGED <<named, members, author>> /\ Goes(r, "failed")
    BY <1>6, <2>1, <2>2 DEF Ends
  <2>3. CASE Saved(r) /\ Goes(r, "done")
    <3>1. members'[request[r].id] = request[r].members
      BY <1>2, <2>1, <2>3, GroupTyped DEF Saved, TypeOK
    <3>2. author'[request[r].id] = r
      BY <1>2, <2>3 DEF Saved, TypeOK
    <3>3. \A i \in Ids \ {request[r].id} :
            named'[i] = named[i] /\ members'[i] = members[i] /\ author'[i] = author[i]
      BY <1>2, <2>3 DEF Saved, TypeOK
    <3> QED BY <1>6, <2>1, <2>3, <3>1, <3>2, <3>3 DEF Ends
  <2> QED BY <1>7, <2>2, <2>3 DEF Save, Saved
<1>8. CASE Remove(r)
  <2>1. /\ pc[r] = "locked" /\ Goes(r, "done") /\ UNCHANGED <<author, current>>
        /\ locked' = [locked EXCEPT ![request[r].id] = Nobody]
        /\ named' = [named EXCEPT ![request[r].id] = NoName]
        /\ members' = [members EXCEPT ![request[r].id] = {}]
    BY <1>8 DEF Remove, At
  <2>2. /\ named'[request[r].id] = NoName
        /\ \A i \in Ids \ {request[r].id} :
              named'[i] = named[i] /\ members'[i] = members[i] /\ author'[i] = author[i]
    BY <1>2, <2>1 DEF TypeOK
  <2> QED BY <1>6, <2>1, <2>2 DEF Ends
<1> QED BY <1>4, <1>5, <1>7, <1>8

-----------------------------------------------------------------------------

LEMMA OthersKeep ==
  ASSUME RespondersInv,
         \/ \E p \in People : Register(p) \/ Expire(p)
         \/ Purge \/ ListGroups \/ UNCHANGED vars
  PROVE  RespondersInv'
<1> USE RespondersAssumption
<1> TypeOK /\ DefaultKeepsName /\ InStep /\ Holding /\ Authored /\ ActivatedAreMembers
    /\ ActiveAreMembers /\ GroupIsItsAuthors
  BY DEF RespondersInv
<1>1. UNCHANGED <<activatedBy, members, author, locked, current, request, pc, seen, late>>
  BY DEF Register, Expire, Purge, ListGroups, vars, groups, people
<1>2. named' \in {named, Ensured}
  BY DEF Register, Expire, Purge, ListGroups, vars, groups
<1>3. DefaultKeepsName' /\ \A i \in Ids \ {Default} : named'[i] = named[i]
  BY <1>2 DEF DefaultKeepsName, Ensured, TypeOK
<1>4. status' = status \/ \E p \in People :
        status[p] = "none" /\ status' = [status EXCEPT ![p] = "pending"]
  BY DEF Register, Expire, Purge, ListGroups, vars, people
<1>5. otp' \in [People -> [code : Requests \cup {Nobody}, count : 0 .. Limit - 1,
                           expired : BOOLEAN]]
  <2>1. CASE otp' = otp
    BY <2>1 DEF TypeOK
  <2>2. CASE \E p \in People : Expire(p)
    <3> DEFINE Rows == [code : Requests \cup {Nobody}, count : 0 .. Limit - 1,
                        expired : BOOLEAN]
    <3>1. PICK p \in People : otp' = [otp EXCEPT ![p] = [otp[p] EXCEPT !.expired = TRUE]]
      BY <2>2 DEF Expire
    <3>2. ASSUME NEW codes, NEW counts, NEW row \in [code : codes, count : counts,
                                                     expired : BOOLEAN]
          PROVE  [row EXCEPT !.expired = TRUE]
                   \in [code : codes, count : counts, expired : BOOLEAN]
      OBVIOUS
    <3>3. otp \in [People -> Rows]
      BY DEF TypeOK
    <3>4. [otp[p] EXCEPT !.expired = TRUE] \in Rows
      BY <3>2, <3>3
    <3> HIDE DEF Rows
    <3>5. otp' \in [People -> Rows]
      BY <3>1, <3>3, <3>4
    <3> QED BY <3>5 DEF Rows
  <2>3. CASE Purge
    BY <2>3 DEF TypeOK, Purge, NoOtp
  <2> QED BY <2>1, <2>2, <2>3 DEF Register, ListGroups, vars
<1>6. TypeOK'
  <2>1. status' \in [People -> {"none", "pending", "active"}]
    BY <1>4 DEF TypeOK
  <2>2. named' \in [Ids -> Names \cup {NoName}]
    BY <1>2 DEF TypeOK, Ensured
  <2> QED BY <1>1, <1>5, <2>1, <2>2 DEF TypeOK
<1>7. ActivatedAreMembers' /\ ActiveAreMembers'
  BY <1>1, <1>4 DEF ActivatedAreMembers, ActiveAreMembers, TypeOK
<1>8. InStep' /\ Authored' /\ GroupIsItsAuthors'
  BY <1>1, <1>3 DEF InStep, Authored, GroupIsItsAuthors
<1>9. Holding'
  BY <1>1, <1>3, GroupTyped DEF Holding, InStep, GroupSteps
<1> QED BY <1>3, <1>6, <1>7, <1>8, <1>9 DEF RespondersInv

LEMMA NextKeeps == RespondersInv /\ [Next]_vars => RespondersInv'
<1> SUFFICES ASSUME RespondersInv, [Next]_vars PROVE RespondersInv'
  OBVIOUS
<1>1. ASSUME NEW r \in Requests, Arrive(r) \/ Step(r) PROVE RespondersInv'
  BY <1>1, ArriveKeeps, CodeStepKeeps, GroupStepKeeps DEF Step
<1> QED BY <1>1, OthersKeep DEF Next

LEMMA Invariance == Spec => []RespondersInv
BY InitInv, NextKeeps, PTL DEF Spec

-----------------------------------------------------------------------------
(***************************************************************************)
(* Codes. That a used code is gone is not inductive: the code must also not *)
(* come back. It does not because it was inserted by a send that is over,   *)
(* and both the row that stands there and a verification that has matched   *)
(* it know it for such a code.                                              *)
(***************************************************************************)

Sent(code) == code \in Requests /\ pc[code] = "done" /\ request[code].op = "send"

Matched(r) ==
  \/ pc[r] \in {"checking", "activating", "consuming"}
  \/ pc[r] = "done" /\ request[r].op = "verify"

CodesInv ==
  /\ \A p \in People : otp[p].code # Nobody => Sent(otp[p].code)
  /\ \A r \in Requests : Matched(r) => Sent(request[r].code)
  /\ UsedCodeIsGone

\* A step of one request keeps the codes when it leaves the codes that stand,
\* deletes some or inserts its own, and matches or uses up no other than they.
LEMMA CodesKept ==
  ASSUME RespondersInv, CodesInv, NEW r \in Requests, pc[r] # "done",
         \A q \in Requests \ {r} : pc'[q] = pc[q] /\ request'[q] = request[q],
         \A p \in People : \/ otp'[p].code \in {otp[p].code, Nobody}
                           \/ otp'[p].code = r /\ Sent(r)',
         Matched(r)' => Sent(request'[r].code),
         pc'[r] = "done" /\ request'[r].op = "verify"
           => otp'[request'[r].person].code # request'[r].code
  PROVE  CodesInv'
<1> USE RespondersAssumption
<1>1. \A code : Sent(code) => Sent(code)' /\ code # r
  BY DEF Sent
<1>2. \A p \in People : otp'[p].code # Nobody => Sent(otp[p].code)'
  <2> SUFFICES ASSUME NEW p \in People, otp'[p].code # Nobody PROVE Sent(otp[p].code)'
    OBVIOUS
  <2>1. CASE otp'[p].code = otp[p].code
    <3>1. Sent(otp[p].code)
      BY <2>1 DEF CodesInv
    <3> QED BY <1>1, <2>1, <3>1 DEF Sent
  <2>2. CASE otp'[p].code = r /\ Sent(r)'
    BY <2>2 DEF Sent
  <2> QED BY <2>1, <2>2
<1>3. \A q \in Requests : Matched(q)' => Sent(request'[q].code) /\ Sent(request[q].code)'
  <2>1. \A q \in Requests \ {r} : Matched(q)' => Sent(request'[q].code)
    BY DEF Matched, CodesInv
  <2>2. \A q \in Requests : Matched(q)' => Sent(request'[q].code)
    BY <2>1
  <2> QED BY <1>1, <2>2 DEF Sent
<1>4. UsedCodeIsGone'
  <2> SUFFICES ASSUME NEW q \in Requests \ {r}, pc[q] = "done", request[q].op = "verify"
               PROVE  otp'[request[q].person].code # request[q].code
    BY DEF UsedCodeIsGone
  <2>1. otp[request[q].person].code # request[q].code
    BY DEF CodesInv, UsedCodeIsGone
  <2>2. request[q].person \in People
    BY PersonTyped DEF RespondersInv
  <2>3. Sent(request[q].code)
    BY DEF CodesInv, Matched
  <2>4. request[q].code # r /\ request[q].code # Nobody
    BY <2>3 DEF Sent
  <2> QED BY <2>1, <2>2, <2>4
<1> QED BY <1>2, <1>3, <1>4 DEF CodesInv

LEMMA CodesInArrive ==
  ASSUME RespondersInv, CodesInv, NEW r \in Requests, Arrive(r) PROVE CodesInv'
<1> TypeOK
  BY DEF RespondersInv
<1>1. pc[r] = "idle" /\ otp' = otp /\ \E operation, place :
        /\ request' = [request EXCEPT ![r] = operation]
        /\ pc' = [pc EXCEPT ![r] = place]
  BY DEF Arrive, Send, Verify, Create, Update, Delete, Asks, Goes
<1>2. \A q \in Requests \ {r} : pc'[q] = pc[q] /\ request'[q] = request[q]
  BY <1>1
<1>3. ~Matched(r)' \/ (pc'[r] = "checking" /\ Sent(request'[r].code))
  <2>1. ASSUME NEW p \in People, NEW code \in Requests, Verify(r, p, code)
        PROVE  ~Matched(r)' \/ (pc'[r] = "checking" /\ Sent(request'[r].code))
    <3>1. pc'[r] = Verdict(p, code) /\ request'[r].code = code
      BY <2>1 DEF Verify, Asks, Goes, TypeOK
    <3>2. Verdict(p, code) = "checking" => otp[p].code = code
      BY DEF Verdict, TypeOK
    <3>3. Verdict(p, code) \in {"refused", "forgetting", "checking", "counting"}
      BY DEF Verdict, TypeOK
    <3>4. pc'[r] = "checking" => Sent(request'[r].code)
      BY <3>1, <3>2, RespondersAssumption DEF CodesInv
    <3>5. pc'[r] # "checking" => ~Matched(r)'
      BY <3>1, <3>3 DEF Matched
    <3> QED BY <3>4, <3>5
  <2>2. ASSUME NEW p \in People, Send(r, p) PROVE ~Matched(r)'
    BY <2>2 DEF Send, Asks, Goes, Matched, TypeOK
  <2>3. ASSUME NEW i \in Ids, Delete(r, i) PROVE ~Matched(r)'
    BY <2>3 DEF Delete, Asks, Goes, Matched, TypeOK
  <2>4. ASSUME NEW i \in Ids, NEW name \in Names, NEW S \in SUBSET People,
               Create(r, i, name, S) \/ Update(r, i, name, S)
        PROVE  ~Matched(r)'
    BY <2>4 DEF Create, Update, Asks, Goes, Matched, TypeOK
  <2> QED BY <2>1, <2>2, <2>3, <2>4 DEF Arrive
<1>4. pc'[r] = "done" /\ request'[r].op = "verify" => Matched(r)'
  BY DEF Matched
<1>5. pc'[r] = "done" => pc'[r] # "checking"
  OBVIOUS
<1>6. Matched(r)' => Sent(request'[r].code)
  BY <1>3
<1>7. ~(pc'[r] = "done" /\ request'[r].op = "verify")
  BY <1>3, <1>4, <1>5
<1> QED BY <1>1, <1>2, <1>6, <1>7, CodesKept

\* Counting and expiring leave the code of the row.
LEMMA CodeOfRow ==
  ASSUME NEW codes, NEW counts, NEW n,
         NEW row \in [code : codes, count : counts, expired : BOOLEAN]
  PROVE  [row EXCEPT !.count = n].code = row.code /\ [row EXCEPT !.expired = TRUE].code = row.code
OBVIOUS

LEMMA CodesInStep ==
  ASSUME RespondersInv, CodesInv, NEW r \in Requests, Step(r) PROVE CodesInv'
<1> USE RespondersAssumption
<1> TypeOK /\ InStep
  BY DEF RespondersInv
<1>1. /\ request' = request /\ pc[r] \in OtpSteps \cup GroupSteps
      /\ \E place : pc' = [pc EXCEPT ![r] = place]
  BY DEF Step, Replace, Forget, Count, CheckStatus, Activate, Consume, Lock, ReadMembers, Save,
         Remove, At, Goes, OtpSteps, GroupSteps
<1>2. pc[r] # "done" /\ \A q \in Requests \ {r} : pc'[q] = pc[q] /\ request'[q] = request[q]
  BY <1>1 DEF OtpSteps, GroupSteps
<1> DEFINE p == request[r].person
           Quiet == \A x \in People : otp'[x].code \in {otp[x].code, Nobody}
           Fresh == \A x \in People :
                      otp'[x].code \in {otp[x].code, Nobody} \/ (otp'[x].code = r /\ Sent(r)')
<1>3. CASE Replace(r)
  <2>1. p \in People /\ request[r].op = "send"
    BY <1>3, PersonTyped DEF InStep, Replace, At
  <2>2. ~Matched(r)'
    BY <1>3, <2>1 DEF Replace, At, Goes, Matched, TypeOK
  <2>3. Fresh
    <3>1. CASE UNCHANGED otp
      BY <3>1
    <3>2. CASE /\ otp' = [otp EXCEPT ![p] = [code |-> r, count |-> 0, expired |-> FALSE]]
               /\ Goes(r, "done")
      <4>1. Sent(r)'
        BY <1>1, <2>1, <3>2 DEF Sent, Goes, TypeOK
      <4>2. otp'[p].code = r /\ \A x \in People \ {p} : otp'[x] = otp[x]
        BY <2>1, <3>2 DEF TypeOK
      <4> QED BY <4>1, <4>2
    <3> QED BY <1>3, <3>1, <3>2 DEF Replace
  <2>4. ~(pc'[r] = "done" /\ request'[r].op = "verify")
    BY <1>1, <2>1
  <2> QED BY <1>2, <2>2, <2>3, <2>4, CodesKept
<1>4. CASE Activate(r) \/ Consume(r)
  <2>1. p \in People /\ request[r].op = "verify" /\ pc[r] \in {"activating", "consuming"}
    BY <1>4, PersonTyped DEF InStep, Activate, Consume, At
  <2>2. Sent(request[r].code) /\ request[r].code # Nobody
    BY <2>1 DEF CodesInv, Matched, Sent
  <2>3. \/ otp' = otp /\ pc'[r] = "failed"
        \/ otp' = [otp EXCEPT ![p] = NoOtp]
    BY <1>4 DEF Activate, Consume, Consumed, Goes, TypeOK
  <2>4. Quiet
    BY <2>1, <2>3 DEF TypeOK, NoOtp
  <2>5. pc'[r] = "done" => otp'[p].code = Nobody
    BY <2>1, <2>3 DEF TypeOK, NoOtp
  <2>6. Matched(r)' => Sent(request'[r].code)
    BY <1>1, <2>2
  <2>7. pc'[r] = "done" => otp'[request'[r].person].code # request'[r].code
    BY <1>1, <2>2, <2>5
  <2> QED BY <1>2, <2>4, <2>6, <2>7, CodesKept
<1>5. CASE Forget(r) \/ Count(r)
  <2>1. p \in People /\ request[r].op = "verify"
    BY <1>5, PersonTyped DEF InStep, Forget, Count, At
  <2>2. ~Matched(r)' /\ pc'[r] # "done"
    BY <1>5 DEF Forget, Count, Goes, Matched, TypeOK
  <2>3. \/ otp' = otp \/ otp' = [otp EXCEPT ![p] = NoOtp]
        \/ otp' = [otp EXCEPT ![p] = [otp[p] EXCEPT !.count = seen[r] + 1]]
    BY <1>5 DEF Forget, Count
  <2>4. otp[p] \in [code : Requests \cup {Nobody}, count : 0 .. Limit - 1, expired : BOOLEAN]
    BY <2>1 DEF TypeOK
  <2>5. [otp[p] EXCEPT !.count = seen[r] + 1].code = otp[p].code
    BY <2>4, CodeOfRow
  <2>6. Quiet
    <3> HIDE DEF p
    <3> QED BY <2>1, <2>3, <2>5 DEF TypeOK, NoOtp
  <2> QED BY <1>2, <2>2, <2>6, CodesKept
<1>6. CASE CheckStatus(r)
  <2>1. pc[r] = "checking" /\ pc'[r] # "done" /\ otp' = otp
    BY <1>6 DEF CheckStatus, At, Goes, TypeOK
  <2>2. Sent(request[r].code)
    BY <2>1 DEF CodesInv, Matched
  <2> QED BY <1>1, <1>2, <2>1, <2>2, CodesKept
<1>7. CASE Lock(r) \/ ReadMembers(r) \/ Save(r) \/ Remove(r)
  <2>1. pc[r] \in GroupSteps /\ otp' = otp
    BY <1>7 DEF Lock, ReadMembers, Save, Remove, At, GroupSteps
  <2>2. request[r].op # "verify"
    BY <2>1 DEF InStep
  <2>3. pc'[r] \notin {"checking", "activating", "consuming"}
    BY <1>7 DEF Lock, ReadMembers, Save, Remove, Goes, TypeOK
  <2>4. ~Matched(r)'
    BY <1>1, <2>2, <2>3 DEF Matched
  <2> QED BY <1>1, <1>2, <2>1, <2>2, <2>4, CodesKept
<1> QED BY <1>3, <1>4, <1>5, <1>6, <1>7 DEF Step

LEMMA CodesInOthers ==
  ASSUME RespondersInv, CodesInv,
         \/ \E p \in People : Register(p) \/ Expire(p)
         \/ Purge \/ ListGroups \/ UNCHANGED vars
  PROVE  CodesInv'
<1> TypeOK
  BY DEF RespondersInv
<1>1. UNCHANGED <<request, pc>>
  BY DEF Register, Expire, Purge, ListGroups, vars
<1>2. \A code : Sent(code)' = Sent(code)
  BY <1>1 DEF Sent
<1>3. \A q \in Requests : Matched(q)' = Matched(q)
  BY <1>1 DEF Matched
<1>4. \A x \in People : otp'[x].code \in {otp[x].code, Nobody}
  <2>1. CASE otp' = otp
    BY <2>1
  <2>2. CASE \E p \in People : Expire(p)
    <3>1. PICK p \in People : otp' = [otp EXCEPT ![p] = [otp[p] EXCEPT !.expired = TRUE]]
      BY <2>2 DEF Expire
    <3>2. [otp[p] EXCEPT !.expired = TRUE].code = otp[p].code
      BY CodeOfRow DEF TypeOK
    <3> QED BY <3>1, <3>2 DEF TypeOK
  <2>3. CASE Purge
    BY <2>3 DEF Purge, NoOtp
  <2> QED BY <2>1, <2>2, <2>3 DEF Register, ListGroups, vars
<1>5. \A x \in People : otp'[x].code # Nobody => Sent(otp[x].code)'
  BY <1>2, <1>4 DEF CodesInv
<1>6. \A q \in Requests : Matched(q)' => Sent(request[q].code)'
  BY <1>1, <1>2, <1>3 DEF CodesInv
<1>7. UsedCodeIsGone'
  <2> SUFFICES ASSUME NEW q \in Requests, pc[q] = "done", request[q].op = "verify"
               PROVE  otp'[request[q].person].code # request[q].code
    BY <1>1 DEF UsedCodeIsGone
  <2>1. request[q].person \in People
    BY PersonTyped
  <2>2. Sent(request[q].code)
    BY DEF CodesInv, Matched
  <2> QED BY <1>4, <2>1, <2>2, RespondersAssumption DEF Sent, CodesInv, UsedCodeIsGone
<1> QED BY <1>5, <1>6, <1>7 DEF CodesInv

\* Every variable keeps its type, and no code outlives its attempts.
THEOREM TypeCorrect == Spec => []TypeOK
<1>1. RespondersInv => TypeOK
  BY DEF RespondersInv
<1> QED BY Invariance, <1>1, PTL

\* The active responders are the members of the default group.
THEOREM DefaultGroup == Spec => []ActiveAreMembers
<1>1. RespondersInv => ActiveAreMembers
  BY DEF RespondersInv
<1> QED BY Invariance, <1>1, PTL

\* A code that has signed its responder in never stands there again, whatever
\* codes are sent and verified at once.
THEOREM UsedUp == Spec => []UsedCodeIsGone
<1>1. Init => CodesInv
  BY RespondersAssumption DEF Init, CodesInv, UsedCodeIsGone, Matched, NoOtp
<1>2. RespondersInv /\ CodesInv /\ [Next]_vars => CodesInv'
  <2> SUFFICES ASSUME RespondersInv, CodesInv, [Next]_vars PROVE CodesInv'
    OBVIOUS
  <2>1. ASSUME NEW r \in Requests, Arrive(r) \/ Step(r) PROVE CodesInv'
    BY <2>1, CodesInArrive, CodesInStep
  <2> QED BY <2>1, CodesInOthers DEF Next
<1>3. CodesInv => UsedCodeIsGone
  BY DEF CodesInv
<1> QED BY Invariance, <1>1, <1>2, <1>3, PTL DEF Spec

\* A group has the members that its last author asked for.
THEOREM WholeUpdates == Spec => []GroupIsItsAuthors
<1>1. RespondersInv => GroupIsItsAuthors
  BY DEF RespondersInv
<1> QED BY Invariance, <1>1, PTL

\* A responder is activated once: who has been activated is a member, and a
\* member is not activated.
THEOREM OneActivation == Spec => ActivatedOnce
<1> DEFINE Kept == \A p \in People :
                     activatedBy[p] # Nobody => activatedBy'[p] = activatedBy[p]
<1>1. RespondersInv /\ [Next]_vars => Kept
  <2> SUFFICES ASSUME RespondersInv, [Next]_vars PROVE Kept
    OBVIOUS
  <2>1. CASE activatedBy' = activatedBy
    BY <2>1
  <2>2. ASSUME NEW r \in Requests, Activate(r) PROVE Kept
    <3>1. request[r].person \in People
      BY <2>2, PersonTyped DEF RespondersInv, InStep, Activate, At
    <3>2. \/ activatedBy' = activatedBy
          \/ /\ request[r].person \notin members[Default]
             /\ activatedBy' = [activatedBy EXCEPT ![request[r].person] = r]
      BY <2>2 DEF Activate, MemberAlready, people
    <3> QED BY <3>1, <3>2 DEF RespondersInv, TypeOK, ActivatedAreMembers
  <2>3. activatedBy' = activatedBy \/ \E r \in Requests : Activate(r)
    <3>1. ASSUME NEW r \in Requests, Arrive(r) PROVE activatedBy' = activatedBy
      BY <3>1 DEF Arrive, Send, Verify, Create, Update, Delete, people
    <3>2. ASSUME NEW r \in Requests, Step(r)
          PROVE  Activate(r) \/ activatedBy' = activatedBy
      BY <3>2 DEF Step, Replace, Forget, Count, CheckStatus, Consume, Lock, ReadMembers,
                  Save, Remove, people
    <3>3. ASSUME NEW p \in People, Register(p) \/ Expire(p) PROVE activatedBy' = activatedBy
      BY <3>3 DEF Register, Expire, people
    <3>4. ASSUME Purge \/ ListGroups \/ UNCHANGED vars PROVE activatedBy' = activatedBy
      BY <3>4 DEF Purge, ListGroups, vars, people
    <3> QED BY <3>1, <3>2, <3>3, <3>4 DEF Next
  <2> QED BY <2>1, <2>2, <2>3
<1>2. Kept => [Kept]_vars
  OBVIOUS
<1> QED BY Invariance, <1>1, PTL DEF Spec, ActivatedOnce
=============================================================================
