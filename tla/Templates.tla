------------------------------ MODULE Templates ------------------------------
(***************************************************************************)
(* Notification templates (notification_template_service.py and the crud    *)
(* of the same name). A template of a type other than announcement is the   *)
(* default of that type: the text of the automatic notifications is looked  *)
(* up by type. The service demotes the old default before it writes the     *)
(* new one; warning, critical and blockage are also kept apart by a unique  *)
(* index, maintenance is not.                                               *)
(*                                                                         *)
(* Every query and every commit is a step: requests of several admins       *)
(* overlap, each with a session of its own that remembers what it has read. *)
(***************************************************************************)

CONSTANTS
  Edits,     \* requests of admins, each used once
  Rows,      \* ids of templates, never used again
  NoRow      \* no template

ASSUME TemplatesAssumption == NoRow \notin Rows

\* Warning stands for the three types of the index.
Warning == "warning"
Announcement == "announcement"
TemplateTypes == {Warning, "maintenance", Announcement}

\* The type of an id that no row has had yet, or whose row is deleted.
Unused == "unused"
Deleted == "deleted"

\* No index at all.
Unindexed == {}

\* uq_notification_templates_single_system_template_type
Indexed == {Warning}

VARIABLES
  type,      \* notification_templates.type of each id
  stripped,  \* types whose default was taken away by other than its replacement
  want,      \* what each request asks for: an operation, an id and a type
  at,        \* where it is between two awaits
  held,      \* the other default that its session has read, or NoRow
  known      \* the type of its own template, as its session has read it

templateVars == <<type, stripped, want, at, held, known>>

Holders(ty) == {i \in Rows : type[i] = ty}
Exists(i) == type[i] \in TemplateTypes

NoWish == [op |-> "none", id |-> NoRow, type |-> Unused]
Wishes ==
  [op : {"create"}, id : {NoRow}, type : TemplateTypes]
    \cup [op : {"update"}, id : Rows, type : TemplateTypes]
    \cup [op : {"delete"}, id : Rows, type : {Unused}]

TemplatesTypeOK ==
  /\ type \in [Rows -> TemplateTypes \cup {Unused, Deleted}]
  /\ stripped \subseteq TemplateTypes
  /\ want \in [Edits -> Wishes \cup {NoWish}]
  /\ at \in [Edits -> {"new", "demoting", "writing", "loaded", "deleting", "done"}]
  /\ held \in [Edits -> Rows \cup {NoRow}]
  /\ known \in [Edits -> TemplateTypes \cup {Unused}]

\* The seed has a default of every indexed type.
TemplatesInit ==
  /\ type \in [Rows -> TemplateTypes \cup {Unused}]
  /\ \E i \in Rows : Holders(Warning) = {i}
  /\ \A i, j \in Holders("maintenance") : i = j
  /\ stripped = {}
  /\ want = [r \in Edits |-> NoWish]
  /\ at = [r \in Edits |-> "new"]
  /\ held = [r \in Edits |-> NoRow]
  /\ known = [r \in Edits |-> Unused]

\* A request goes on at "place".
Goes(r, place) == at' = [at EXCEPT ![r] = place]

\* A request has nothing more to do.
Ends(r) ==
  /\ Goes(r, "done")
  /\ want' = [want EXCEPT ![r] = NoWish]
  /\ held' = [held EXCEPT ![r] = NoRow]
  /\ known' = [known EXCEPT ![r] = Unused]

-----------------------------------------------------------------------------
(***************************************************************************)
(* _demote_existing_if_conflicts                                           *)
(***************************************************************************)

\* The first query of a create or an update. Of two rows of the type the query
\* makes an error; the template's own row stays in the session as it was read.
AskDefault(r, w) ==
  /\ at[r] = "new" /\ w.op # "delete"
  /\ LET rivals == IF w.type = Announcement THEN {} ELSE Holders(w.type) IN
       /\ \A i, j \in rivals : i = j
       /\ want' = [want EXCEPT ![r] = w]
       /\ \/ /\ rivals \subseteq {w.id}
             /\ known' = [known EXCEPT ![r] = IF rivals = {} THEN Unused ELSE w.type]
             /\ Goes(r, "writing") /\ UNCHANGED held
          \/ /\ \E i \in rivals \ {w.id} : held' = [held EXCEPT ![r] = i]
             /\ Goes(r, "demoting") /\ UNCHANGED known
  /\ UNCHANGED <<type, stripped>>

\* The row gets the type announcement, whatever it has by now; a row that has
\* been deleted is an error.
Demote(r) ==
  /\ at[r] = "demoting"
  /\ Exists(held[r])
  /\ type' = [type EXCEPT ![held[r]] = Announcement]
  /\ stripped' = stripped \cup ({type[held[r]]} \ {want[r].type})
  /\ Goes(r, "writing")
  /\ UNCHANGED <<want, held, known>>

-----------------------------------------------------------------------------
(***************************************************************************)
(* create, update, delete of the crud.                                     *)
(***************************************************************************)

\* The index lets a row have the type.
Admits(i, ty) == ty \in Indexed => Holders(ty) \subseteq {i}

Create(r) ==
  /\ at[r] = "writing" /\ want[r].op = "create"
  /\ \E i \in Rows :
       /\ type[i] = Unused
       /\ Admits(i, want[r].type)
       /\ type' = [type EXCEPT ![i] = want[r].type]
  /\ stripped' = stripped \ {want[r].type}
  /\ Ends(r)

\* The template is read, unless the session has it. Without its row: 404.
LoadTemplate(r) ==
  /\ at[r] = "writing" /\ want[r].op = "update"
  /\ Exists(want[r].id)
  /\ known' = [known EXCEPT ![r] = IF @ = Unused THEN type[want[r].id] ELSE @]
  /\ Goes(r, "loaded")
  /\ UNCHANGED <<type, stripped, want, held>>

\* Only a type that differs from the one the session knows is written.
Update(r) ==
  /\ at[r] = "loaded"
  /\ Exists(want[r].id)
  /\ \/ /\ known[r] = want[r].type
        /\ UNCHANGED <<type, stripped>>
     \/ /\ known[r] # want[r].type
        /\ Admits(want[r].id, want[r].type)
        /\ type' = [type EXCEPT ![want[r].id] = want[r].type]
        /\ stripped' = (stripped \cup {type[want[r].id]}) \ {want[r].type}
  /\ Ends(r)

\* Only an announcement goes on to be deleted.
AskDelete(r, w) ==
  /\ at[r] = "new" /\ w.op = "delete"
  /\ type[w.id] = Announcement
  /\ want' = [want EXCEPT ![r] = w]
  /\ Goes(r, "deleting")
  /\ UNCHANGED <<type, stripped, held, known>>

\* The row goes whatever its type is by now, or is gone already.
Delete(r) ==
  /\ at[r] = "deleting"
  /\ type' = [type EXCEPT ![want[r].id] = Deleted]
  /\ stripped' = stripped \cup ({type[want[r].id]} \cap TemplateTypes)
  /\ Ends(r)

\* An error, a disconnect or a restart at an await: what is committed stays.
\* The errors of the actions above, which change no row, are among these.
RequestFails(r) ==
  /\ at[r] \in {"demoting", "writing", "loaded", "deleting"}
  /\ stripped' = IF held[r] # NoRow /\ at[r] # "demoting" THEN stripped \cup {want[r].type}
                                                        ELSE stripped
  /\ Ends(r)
  /\ UNCHANGED type

TemplatesNext ==
  \E r \in Edits :
    \/ \E w \in Wishes : AskDefault(r, w) \/ AskDelete(r, w)
    \/ Demote(r) \/ Create(r) \/ LoadTemplate(r) \/ Update(r) \/ Delete(r)
    \/ RequestFails(r)

TemplatesSpec == TemplatesInit /\ [][TemplatesNext]_templateVars

-----------------------------------------------------------------------------
(***************************************************************************)
(* Properties.                                                             *)
(***************************************************************************)

\* A request has demoted the default of the type, and will write another.
Replacing(ty) ==
  \E r \in Edits :
    at[r] \in {"writing", "loaded"} /\ held[r] # NoRow /\ want[r].type = ty

\* The automatic notifications look their text up by type: with none they are
\* not sent, with two the lookup raises. "Type uniqueness enforced for warning,
\* critical, blockage" (docs/api-reference.md): however the requests of admins
\* overlap, such a type has exactly one template, but while one replaces it,
\* and after it was stripped: the replacement failed once the old one had been
\* demoted, an update gave the template another type, or a demotion or a
\* deletion hit a template that had become the default after it was read.
DefaultStands ==
  \A ty \in {Warning} :
    /\ \A i, j \in Holders(ty) : i = j
    /\ ~Replacing(ty) /\ ty \notin stripped => Holders(ty) # {}
=============================================================================
