--------------------------- MODULE AlignedChunks ---------------------------
(***************************************************************************)
(* The address arithmetic of memifc.hpp: how a byte range is cut into      *)
(* naturally aligned power-of-two transfers, none larger than the bus      *)
(* allows.  Pure operators, shared by the memory interface and its proofs. *)
(***************************************************************************)
EXTENDS Integers, FiniteSetsExt

CONSTANTS
  BeatBytes,          \* data_bit_width / 8: the bytes one beat carries
  MaxTransferBytes    \* max_transfer_bytes: the largest burst of the bundle

(***************************************************************************)
(* 1 << lgSize for every lgSize the message builders accept (<= 12).       *)
(***************************************************************************)
LargestSize == 4096

Sizes == {1, 2, 4, 8, 16, 32, 64, 128, 256, 512, 1024, 2048, LargestSize}

BeatSizes == {1, 2, 4, 8, 16, 32}

\* set_TLBundleParams accepts at most 256 data bits and 4096-byte transfers; a
\* bus is a power of two wide.  Nothing asks that a largest burst be whole
\* beats, or a beat at all.
ASSUME BundleAssumption ==
  /\ BeatBytes \in BeatSizes
  /\ MaxTransferBytes \in 0 .. LargestSize

Aligned(x) == x % BeatBytes = 0
WholeBeats(n) == n >= BeatBytes /\ Aligned(n)

(***************************************************************************)
(* floor_pow2: the largest power of two that is at most n.                 *)
(***************************************************************************)
FloorPow2(n) == CHOOSE p \in Sizes : p <= n /\ n < 2 * p

\* fault: the halving loop is skipped.
UnalignedChunk(curr, remaining) == FloorPow2(remaining)

(***************************************************************************)
(* The chunk for_aligned_chunks takes at curr: it starts from the largest  *)
(* power of two that fits and halves it until curr is aligned to it, so it *)
(* stops at the largest one that divides curr.                             *)
(***************************************************************************)
AlignedChunk(curr, remaining) ==
  Max({p \in Sizes : p <= FloorPow2(remaining) /\ curr % p = 0})

============================================================================
