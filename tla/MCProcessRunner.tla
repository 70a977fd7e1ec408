--------------------------- MODULE MCProcessRunner ---------------------------
(* A cap that is not a multiple of the chunk, so that a chunk is kept whole, *)
(* cut or dropped; stdout may exceed it, stderr may only reach it.          *)
EXTENDS ProcessRunner

MCWritten == [s \in Stream |-> IF s = "stdout" THEN 5 ELSE 3]
=============================================================================
