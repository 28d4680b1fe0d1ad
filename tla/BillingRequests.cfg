\* Three requests by two operators, overlapping in every way, one of which may end half way.
CONSTANTS
  o1 = o1  o2 = o2  school = school  annex = annex  m1 = m1  m2 = m2  m3 = m3  f1 = f1  f2 = f2
  s1 = s1  s2 = s2  s3 = s3  acc = acc  spare = spare  r1 = r1  r2 = r2  k1 = k1  k2 = k2  k3 = k3
  Operators = {o1, o2}
  Payers = {f1, f2}
  Models = {m1, m2, m3}
  Schools = {school, annex}
  Accounts = {acc, spare}
  Model <- MCModel
  Card = {f1}
  Roll <- MCRoll
  Student <- MCStudent
  Periods = {"p1", "p2"}
  Row <- MCRow
  Statements <- MCStatements
  Unreadable = {k3}
  Account <- MCAccount
  NoPayer = NoPayer
  NoState = NoState
  Later = {f2, s3, m3, annex, spare}
  Amounts = {1, 2}
  MaxDate = 2
  MaxRequests = 3
SPECIFICATION Spec
SYMMETRY OperatorSymmetry
CHECK_DEADLOCK FALSE
INVARIANTS
  ChargedOnce
  DiscountsAccounted
  BooksAgree
  OneOpenStep
