---------------------------- MODULE MCHeapClient ----------------------------
(* Five elements, two of them with the same key, and up to six in the heap:  *)
(* three levels.                                                             *)
EXTENDS HeapClient

MCElement == 1..5
MCkey == <<1, 2, 2, 3, 4>>
MCCapacity == 6
=============================================================================
