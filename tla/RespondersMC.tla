----------------------------- MODULE RespondersMC -----------------------------
(***************************************************************************)
(* Responders on a small instance. Requests, responders and the groups'    *)
(* names are interchangeable, and so are the keys that admins create.      *)
(***************************************************************************)
EXTENDS Responders, TLC, FiniteSets

Interchangeable ==
  Permutations(Requests) \cup Permutations(People)
    \cup Permutations(Ids \ {Default}) \cup Permutations(Names \ {DefaultName})
=============================================================================
