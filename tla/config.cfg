\* Configurations of up to three servers or locations, and one request at a
\* time under each.
SPECIFICATION Spec
CONSTANTS
  Methods <- MCMethods
  Texts <- MCTexts
  Requests <- MCRequests
  DefaultPort = 80
  DefaultBodySize = 2
INVARIANTS TypeOK SettingsInherited ServerChosen LocationChosen ServedAsConfigured RefusedWithReason
\* A configuration that is refused is the end.
CHECK_DEADLOCK FALSE
