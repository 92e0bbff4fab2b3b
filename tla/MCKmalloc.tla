----------------------------- MODULE MCKmalloc -----------------------------
(***************************************************************************)
(* Model-checking instance of Kmalloc.  An arena of 112 bytes holds seven  *)
(* header slots: enough for up to three live blocks plus remnants, so that  *)
(* first fit, splitting with and without a remainder, merging with a free  *)
(* right neighbour and exhaustion all occur.  Request sizes 1, 17 and 40   *)
(* round to block sizes 32, 48 and 64; 0 exercises the size == 0 paths.   *)
(***************************************************************************)
EXTENDS Kmalloc

MCHeapSize == 112
MCRequests == {0, 1, 17, 40}
====
