\* A power cut after the rename and before the content is on the disk.
CONSTANTS
  MaxDocs = 4
  Values = {0, 1, 2, 3, 4}
  Empty = 0
  Torn = Torn
  NoValue = NoValue
  Unread = Unread
  Readers = {session, ticker}
  PowerCuts = TRUE
SPECIFICATION SharedSpec
PROPERTY ImplementsRegister
