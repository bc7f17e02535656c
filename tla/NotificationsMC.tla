--------------------------- MODULE NotificationsMC ---------------------------
(***************************************************************************)
(* A small instance of Notifications for TLC.                              *)
(***************************************************************************)
EXTENDS Notifications

CONSTANTS ana, phone, laptop

\* ana has two devices.
MCOwner == (phone :> ana) @@ (laptop :> ana)

\* A system notification, an announcement, and a template that is refused.
MCPayloads ==
  {[template |-> "none", custom |-> "critical", system |-> TRUE],
   [template |-> "announcement", custom |-> "none", system |-> FALSE],
   [template |-> "critical", custom |-> "none", system |-> TRUE]}
=============================================================================
