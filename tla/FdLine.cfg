\* A buffer of seven bytes, and lines that are as long as fits, or longer.
SPECIFICATION Spec
CONSTANTS
  Bytes <- AllBytes
  Requests <- SomeRequests
  sgx_size = 7
  Name <- LengthName
  Garbage = {"NUL", "1"}
  None = None
INVARIANTS
  BodyFollows
  LengthAsSent
PROPERTIES
  HeadersEnd
CHECK_DEADLOCK FALSE
