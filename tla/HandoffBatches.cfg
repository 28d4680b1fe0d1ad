CONSTANTS
  o1 = o1  o2 = o2  i1 = i1  i2 = i2  i3 = i3  here = here  there = there
  Clerks = {o1, o2}
  Organization <- MCOrganization
  Selections <- MCSelections
  NoRow = NoRow
  MaxHandoffs = 3
SPECIFICATION HandoffSpec
SYMMETRY ClerkSymmetry
CHECK_DEADLOCK FALSE
INVARIANTS
  BatchesAgree
