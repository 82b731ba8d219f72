\* One request, to any of the scripts, with or without a body.
SPECIFICATION FairSpec
CONSTANTS
  Programs <- MCPrograms
  Bodies <- MCBodies
  Fields <- MCFields
  Number <- MCNumber
  NoNumber = NoNumber
  NL = "NL"
  PipeSize = 5
  MaxOutput = 6
  NoBody = NoBody
  None = None
  Lost = Lost
INVARIANTS TypeOK AnswerWhole FailureReported TooLargeRefused InputInOrder
PROPERTIES AlwaysAnswered NoneLeftRunning
\* The behaviour ends with the answer.
CHECK_DEADLOCK FALSE
