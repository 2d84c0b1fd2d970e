------------------------- MODULE MCMemoryOperations -------------------------
(* A small instance of MemoryOperations: a batch operation and one piece   *)
(* of evidence assigned to it.                                             *)
EXTENDS MemoryOperations

CONSTANTS batch, member

OneBatch == [o \in Ops |-> IF o = member THEN batch ELSE NoOp]
=============================================================================
