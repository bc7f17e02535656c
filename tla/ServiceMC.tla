------------------------------ MODULE ServiceMC ------------------------------
(***************************************************************************)
(* Four services that share the process and no variable: sensor readings    *)
(* with the cached configuration, the WebSocket hub, the notification       *)
(* templates, the nightly jobs. A behaviour is one of any of them.          *)
(***************************************************************************)
EXTENDS SensorIngest, WsHub, Templates, DailyJobs, TLC

VARIABLE part

vars == <<part, ingestVars, hubVars, templateVars, jobVars>>

Init ==
  /\ part \in {"ingest", "hub", "templates", "jobs"}
  /\ IngestInit /\ HubInit /\ TemplatesInit /\ JobsInit
  /\ part # "ingest" => config = [d \in Devices |-> CHOOSE c \in Configs : TRUE]
  /\ part # "templates" => type = [i \in Rows |-> IF i = (CHOOSE j \in Rows : TRUE)
                                                    THEN Warning ELSE Unused]
  /\ part # "jobs" => retention = CHOOSE r \in Retentions : TRUE

Ingest == part = "ingest" /\ IngestNext /\ UNCHANGED <<part, hubVars, templateVars, jobVars>>
Hub == part = "hub" /\ HubNext /\ UNCHANGED <<part, ingestVars, templateVars, jobVars>>
Template == part = "templates" /\ TemplatesNext /\ UNCHANGED <<part, ingestVars, hubVars, jobVars>>

Jobs == part = "jobs" /\ JobsNext /\ UNCHANGED <<part, ingestVars, hubVars, templateVars>>

Next == Ingest \/ Hub \/ Template \/ Jobs

Spec == Init /\ [][Next]_vars

Symmetry == Permutations(Clients) \cup Permutations(Broadcasts) \cup Permutations(Edits)

\* Every variable of the four has values of its type.
ServiceTypeOK == IngestTypeOK /\ HubTypeOK /\ TemplatesTypeOK /\ JobsTypeOK
=============================================================================
