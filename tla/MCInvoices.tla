------------------------------ MODULE MCInvoices ------------------------------
EXTENDS Invoices, TLC
CONSTANTS o1, o2, mail, letter, blurred, chat, doc, next, x1, x2, n1, n2, s1, scrap

MCPaper ==
  mail :> [source |-> "EMAIL", ksef |-> NoValue, number |-> n1, supplier |-> s1, weak |-> FALSE, aged |-> TRUE]
  @@ letter :> [source |-> "EMAIL", ksef |-> x1, number |-> n2, supplier |-> s1, weak |-> FALSE, aged |-> FALSE]
  @@ blurred :> [source |-> "TELEGRAM", ksef |-> NoValue, number |-> NoValue, supplier |-> scrap, weak |-> TRUE, aged |-> TRUE]
  @@ chat :> [source |-> "TELEGRAM", ksef |-> NoValue, number |-> n1, supplier |-> s1, weak |-> FALSE, aged |-> FALSE]
  @@ doc :> [source |-> "KSEF", ksef |-> x1, number |-> n1, supplier |-> s1, weak |-> FALSE, aged |-> FALSE]
  @@ next :> [source |-> "KSEF", ksef |-> x2, number |-> n2, supplier |-> s1, weak |-> FALSE, aged |-> FALSE]
MCMailbox == <<letter>>
MCSameMailbox == <<mail>>
MCKsefInbox == <<next, doc>>
OperatorSymmetry == Permutations(Operators)
MCChanges == {<<"number", n2>>}
================================================================================
