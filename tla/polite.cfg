\* A polite peer, a socket always ready for writing: the promise is kept.
SPECIFICATION FairSpec
CONSTANTS
  BufferSize = 2
  MaxScriptBody = 2
  Requests <- MCRequests
  Disks <- MCDisks
  Avoided = {0, 1}
  FirstStates = {"READY_FOR_INPUT"}
  WriteSize = 2
  MaxAsked = 2
  MaxUnread = 8
  PolitePeer = TRUE
  AlwaysWritable = TRUE
  IoFails = FALSE
  MaxThrows = 1
INVARIANTS TypeOK NoFalseEof
PROPERTIES ImplementsExchange GoneIsErased
