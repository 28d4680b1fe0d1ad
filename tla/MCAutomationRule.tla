-------------------------- MODULE MCAutomationRule --------------------------
(* AutomationRule on small instances. *)
EXTENDS AutomationRule, TLC

\* Runs are interchangeable: no action orders them.
RunSymmetry == Permutations(Runs)

\* Bounds: once the log holds its last row administrators only disable and no
\* run is manual; before, one run is manual, or dies, but not both.
SmallAdministration ==
  LET manual == {r \in Runs : run[r].manual}
  IN  /\ Cardinality(manual) + crashes <= 1
      /\ Len(log) = MaxLog => manual = {} /\ \A a \in Admins : admin[a].want \in {"off", "keep"}
=============================================================================
