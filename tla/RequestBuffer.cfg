\* Four places, nine bytes: the ring is gone round twice, and read at any cut.
SPECIFICATION Spec
CONSTANTS
  Bytes <- TwoBytes
  SGX_MAX_BUF = 4
  MaxBytes = 9
  None = None
INVARIANTS
  TypeOK
  NoOverflow
  WindowIntact
  FullOnlyWhenFull
PROPERTIES
  ImplementsByteFifo
CHECK_DEADLOCK FALSE
