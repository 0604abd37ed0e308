-------------------------- MODULE MCClientTLMemIfc --------------------------
(***************************************************************************)
(* Small instances of ClientTLMemIfc for TLC.                              *)
(***************************************************************************)
EXTENDS ClientTLMemIfc, TLC

CONSTANTS p, q      \* beats a caller writes

\* Two buffers whose neighbouring beats differ, so that a swapped, lost or
\* repeated beat leaves a mark in memory.
MCBuffers ==
  {[k \in BufferIndex |-> IF k % 2 = 0 THEN p ELSE q],
   [k \in BufferIndex |-> IF k % 2 = 0 THEN q ELSE p]}

Symmetry == Permutations(Threads)

=============================================================================
