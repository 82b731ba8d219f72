\* A body of fixed size in several reads: the earlier parts are lost.
SPECIFICATION Spec
CONSTANTS
  Messages <- FixedMessages
  MaxMessages = 1
  MaxReads = 3
  MaxBody = 3
  MaxHeader = 12
INVARIANTS BodyWhole
CHECK_DEADLOCK FALSE
