----------------------------- MODULE PoolWidths -----------------------------
(* The widths of a fixed allocator's pool: 64 flags and ints of 32 bits in *)
(* the code, constants so that small instances meet the boundary.          *)
EXTENDS Integers, FiniteSets

CONSTANTS
  BlockCount,  \* the blocks the pool is initialised with
  FlagBits,    \* the width of used_flags
  IntBits      \* the width of an int

\* fixed_allocator_init panics on more blocks than flags.
ASSUME WidthAssumption ==
  /\ FlagBits \in Nat
  /\ IntBits \in 1 .. FlagBits
  /\ BlockCount \in 1 .. FlagBits
=============================================================================
