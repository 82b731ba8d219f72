\* A full read buffer is taken for the end of the file.
SPECIFICATION Spec
CONSTANTS
  BufferSize = 2
  MaxScriptBody = 2
  Requests <- OneRequest
  Disks <- OneDisk
  Avoided = {}
  FirstStates = {"READY_FOR_INPUT"}
  WriteSize = 2
  MaxAsked = 1
  MaxUnread = 8
  PolitePeer = TRUE
  AlwaysWritable = FALSE
  IoFails = FALSE
  MaxThrows = 0
INVARIANT NoFalseEof
