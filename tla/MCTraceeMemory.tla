--------------------------- MODULE MCTraceeMemory ---------------------------
(* Module TraceeMemory with sizes in the proportion of the program's (a    *)
(* chunk is half a word, the path buffer a multiple of it) and a page of   *)
(* one word, small enough to let every alignment, count and hole occur.    *)
EXTENDS TraceeMemory
=============================================================================
