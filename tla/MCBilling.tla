------------------------------- MODULE MCBilling -------------------------------
EXTENDS Billing, TLC
CONSTANTS o1, o2, school, annex, m1, m2, m3, f1, f2, s1, s2, s3, acc, spare, r1, r2, k1, k2, k3

MCModel ==
  m1 :> [rate |-> 1, lessons |-> 3, intro |-> 1, sibling |-> 3, large |-> 3]
  @@ m2 :> [rate |-> 1, lessons |-> 2, intro |-> 0, sibling |-> 1, large |-> 3]
  @@ m3 :> [rate |-> 2, lessons |-> 1, intro |-> 0, sibling |-> 0, large |-> 0]
MCRoll == <<s1, s2, s3>>
MCStudent ==
  s1 :> [payer |-> f1, model |-> m1, school |-> school, order |-> 1]
  @@ s2 :> [payer |-> f1, model |-> m1, school |-> school, order |-> 2]
  @@ s3 :> [payer |-> f1, model |-> m2, school |-> school, order |-> 3]
MCRow == r1 :> [amount |-> 3, payer |-> f1] @@ r2 :> [amount |-> -2, payer |-> f2]
MCStatements == k1 :> <<r1, r2, r1>> @@ k2 :> <<r1>> @@ k3 :> <<r2>>
MCAccount == k1 :> acc @@ k2 :> acc @@ k3 :> acc
OperatorSymmetry == Permutations(Operators)
================================================================================
