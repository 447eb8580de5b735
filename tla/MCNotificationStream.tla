------------------------- MODULE MCNotificationStream -------------------------
(***************************************************************************)
(* Instances of the notification stream for TLC.                           *)
(***************************************************************************)
EXTENDS NotificationStream

CONSTANTS n1, n2
=============================================================================
