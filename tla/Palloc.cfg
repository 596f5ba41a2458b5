\* Three blocks of twenty, of which two touch; headers leave twelve.
SPECIFICATION Spec
CONSTANTS
  Bases <- ThreeBases
  PoolSize = 20
  SizeofPool = 8
  SizeofData = 4
  SizeofLarge = 2
  SizeofCleanup = 2
  SizeofFile = 1
  SGX_DEBUG = TRUE
  Files = {1, 2}
  SGX_ALIGNMENT = 2
  MaxFromPool = 100
  Sizes <- SomeSizes
  Larges <- ThreeLarges
  MaxPieces = 6
  None = None
INVARIANTS
  SoundTillStrayed
  LargesAccounted
  FilesAccounted
CHECK_DEADLOCK FALSE
