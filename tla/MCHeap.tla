------------------------------- MODULE MCHeap -------------------------------
(* Model-checking instances of Heap: a four-block table with requests of  *)
(* zero bytes and of one block, or of a block and a byte and of three     *)
(* blocks, so that first fit meets a trailing free run too short for it.  *)
EXTENDS Heap

MCSizesWithZero == {0, 4096}
MCPositiveSizes == {4096, 4097, 12288}
=============================================================================
