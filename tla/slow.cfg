\* A peer that reads slowly, a loop whose iterations are cut short.
SPECIFICATION Spec
CONSTANTS
  BufferSize = 2
  MaxScriptBody = 2
  Requests <- FileRequests
  Disks <- FileDisks
  Avoided = {}
  FirstStates = {"READY_FOR_INPUT"}
  WriteSize = 2
  MaxAsked = 2
  MaxUnread = 7
  PolitePeer = TRUE
  AlwaysWritable = FALSE
  IoFails = TRUE
  MaxThrows = 1
INVARIANTS BufferBound AnswersArePrefixes ErrorIsLast
