\* A redirect that was answered is answered again.
SPECIFICATION Spec
CONSTANTS
  BufferSize = 2
  MaxScriptBody = 2
  Requests <- RedirectRequests
  Disks <- OneDisk
  Avoided = {}
  FirstStates = {"READY_FOR_INPUT"}
  WriteSize = 2
  MaxAsked = 2
  MaxUnread = 8
  PolitePeer = TRUE
  AlwaysWritable = TRUE
  IoFails = FALSE
  MaxThrows = 0
INVARIANT OnlyRedirectsRedirected
