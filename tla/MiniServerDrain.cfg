\* A program that reads its input to the end.
SPECIFICATION Spec
CONSTANTS
  t1 = t1
  t2 = t2
  Server = Server
  Threads <- OneThread
  Calls <- MixedCalls
  PipeSize = 1
PROPERTIES
  RequestsHandled
CHECK_DEADLOCK FALSE
