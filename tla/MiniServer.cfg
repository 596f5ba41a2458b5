\* Two connections, pipes of one byte: children inherit each other's pipes, and
\* both directions can be full.
SPECIFICATION Spec
CONSTANTS
  t1 = t1
  t2 = t2
  Server = Server
  Threads <- TwoThreads
  Calls <- MixedCalls
  PipeSize = 1
INVARIANTS
  NothingLeft
  ReplyIsOutput
  InputIsBody
  KilledForAReason
PROPERTIES
  ConnectionsEnd
CHECK_DEADLOCK FALSE
