\* Two requests after each other, of all kinds, cut anywhere.
SPECIFICATION Spec
CONSTANTS
  Messages <- MCMessages
  MaxMessages = 2
  MaxReads = 4
  MaxBody = 3
  MaxHeader = 12
INVARIANTS TypeOK CountsAgree HeaderWhole BodyWhole NeverStalls RefusedRightly
\* The connection stops when a request is refused or the last one is complete.
CHECK_DEADLOCK FALSE
