CONSTANTS
  o1 = o1  o2 = o2  mail = mail  letter = letter  blurred = blurred  chat = chat  doc = doc  next = next
  x1 = x1  x2 = x2  n1 = n1  n2 = n2  s1 = s1  scrap = scrap
  Operators = {o1, o2}
  Messages = {mail, letter, blurred, chat, doc, next}
  Paper <- MCPaper
  Mailbox <- MCMailbox
  KsefInbox <- MCKsefInbox
  Changes <- MCChanges
  Early = mail
  EarlyDoc = doc
  NoValue = NoValue
  NoOne = NoOne
  MaxInvoices = 4
  MaxRequests = 3
SPECIFICATION Spec
SYMMETRY OperatorSymmetry
CHECK_DEADLOCK FALSE
INVARIANTS
  TypeOK
  TwinsAreFlagged
  CorrectionsInForce
  NothingLeftBehind
