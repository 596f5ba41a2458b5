------------------------------ MODULE MCPalloc ------------------------------
(* A small pool for TLC, of blocks that lie next to each other, and not.     *)
EXTENDS Palloc, TLC

ThreeBases == {4, 24, 60}
SomeSizes == {3, 8}
ThreeLarges == 1..3
=============================================================================
