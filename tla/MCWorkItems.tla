------------------------------ MODULE MCWorkItems ------------------------------
(* Small payloads for WorkItems. *)
EXTENDS WorkItems

Nothing == [status |-> Keep, deadline |-> Keep, warning |-> Keep, urgent |-> Keep, other |-> FALSE]

\* An edit of a text with an early warning, an edit that reopens with a passed deadline and
\* a lower level, one that drops the deadline, and a payload that names only the level.
SomePatches ==
  {[Nothing EXCEPT !.other = TRUE, !.warning = 0],
   [Nothing EXCEPT !.status = "open", !.deadline = 0, !.urgent = FALSE],
   [Nothing EXCEPT !.status = "closed", !.deadline = NoTime],
   [Nothing EXCEPT !.urgent = TRUE]}

SomeCreations ==
  {[status |-> "open", deadline |-> 1, warning |-> 1, urgent |-> FALSE],
   [status |-> "closed", deadline |-> NoTime, warning |-> NoTime, urgent |-> TRUE]}

SomeSnoozes == {ByMode, NoTime}

SomeReopenings ==
  {[deadline |-> Keep, warning |-> Keep, dated |-> FALSE],
   [deadline |-> NoTime, warning |-> Keep, dated |-> TRUE]}
=============================================================================
