\* The document queue and the state file that the goroutines of one application
\* share, with failing reads and saves and with kills: the queue is a latest-
\* wins mailbox that never blocks its submitter, the file is a register, and
\* what is reported from it goes back only while an Apply that could not load
\* it has overwritten it.
CONSTANTS
  MaxDocs = 4
  Values = {0, 1, 2, 3, 4}
  Empty = 0
  Torn = Torn
  NoValue = NoValue
  Unread = Unread
  Readers = {session, ticker}
  PowerCuts = FALSE
SPECIFICATION SharedSpec
PROPERTIES SubmitReturns ImplementsMailbox ImplementsRegister ReportedInOrder
