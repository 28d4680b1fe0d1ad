---------------------------- MODULE VersionHistory ----------------------------
(***************************************************************************)
(* What a document's history promises its readers: a published version is   *)
(* never changed or withdrawn, no number is given twice, and only a         *)
(* published version is appointed the official one.                         *)
(***************************************************************************)
EXTENDS Integers

CONSTANTS Numbers, Rows   \* version numbers; what a version holds, with its number

VARIABLES
  published,   \* the versions
  official     \* the number of the official one, 0 while there is none

Numbered(n) == \E r \in published : r.number = n

Init == published = {} /\ official = 0

\* One row is new, and so is its number.
Publish ==
  /\ \E r \in published' \ published :
       r \in Rows /\ ~Numbered(r.number) /\ published' = published \cup {r}
  /\ UNCHANGED official

Appoint ==
  /\ \E n \in Numbers : Numbered(n) /\ official' = n
  /\ UNCHANGED published

Spec == Init /\ [][Publish \/ Appoint]_<<published, official>>
=============================================================================
