\* A ring shorter than the requests, which differ from a plain one in two pieces.
SPECIFICATION ConnSpec
CONSTANTS
  Bytes <- ByteClasses
  SGX_MAX_BUF = 20
  MaxBytes = 60
  None = None
  Differing = 2
  Requests <- SomeRequests
  ShiftOutcomes = {FALSE, TRUE}
  MethodsLeft <- AnyMethod
  RequestEnds <- Garbage
  FreedNext = {FALSE, TRUE}
  Host <- HostText
  Connection <- ConnectionText
  IfModifiedSince <- IfModifiedText
  KeepAlive <- KeepAliveText
  Dates <- DateTexts
INVARIANTS
  ParsedAsSent
  MethodRecognised
  AcceptsWellFormed
  EndsWithTheText
  HandledAsSent
CHECK_DEADLOCK FALSE
