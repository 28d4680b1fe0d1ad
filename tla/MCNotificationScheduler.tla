------------------------ MODULE MCNotificationScheduler ------------------------
(* NotificationScheduler on small instances. *)
EXTENDS NotificationScheduler
=============================================================================
