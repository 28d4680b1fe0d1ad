--------------------------- MODULE MCInvoiceHandoff ---------------------------
EXTENDS InvoiceHandoff, TLC
CONSTANTS o1, o2, i1, i2, i3, here, there
MCOrganization == i1 :> here @@ i2 :> here @@ i3 :> there
MCSelections == {<<i1, i2>>, <<i2, i3>>, <<i3>>}
ClerkSymmetry == Permutations(Clerks)
================================================================================
