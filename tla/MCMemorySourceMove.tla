------------------------- MODULE MCMemorySourceMove -------------------------
(* Instances of the source move for TLC. *)
EXTENDS MemorySourceMoveProperties, TLC

CONSTANTS f1, f2, d1, d2

\* The first file in the root, the other in the first folder; the second
\* folder is empty.
RootAndFolder == (f1 :> Root) @@ [f \in Files \ {f1} |-> d1]
=============================================================================
