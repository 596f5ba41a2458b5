-------------------------------- MODULE Ring --------------------------------
(* The array of a request buffer, into which indices that only grow point. *)
EXTENDS Naturals

CONSTANTS SGX_MAX_BUF,  \* the size of buf
          None          \* what is in a place, or a field, that nobody has set

\* Where in buf the byte with index i is.
Place(i) == i % SGX_MAX_BUF
=============================================================================
