--------------------------- MODULE MCTaskReminder ---------------------------
(* TaskReminder on a small instance.  Workers are not declared symmetric, though they are
   interchangeable: the run checks liveness. *)
EXTENDS TaskReminder
=============================================================================
