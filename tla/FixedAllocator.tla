--------------------------- MODULE FixedAllocator ---------------------------
(***************************************************************************)
(* The fixed allocator of the C library: a pool of equal blocks and a word *)
(* of flags, one bit for each block that is in use.                        *)
(*                                                                         *)
(* The flags are set and cleared with the mask 1 << index, where 1 is an   *)
(* int (PoolWidths).                                                       *)
(*                                                                         *)
(* Every caller in the library panics when it gets no block, which ends    *)
(* the process, and frees only what it holds.                              *)
(***************************************************************************)
EXTENDS PoolWidths

VARIABLES
  used,   \* the bits of used_flags that are set
  held,   \* the blocks that callers hold
  ended   \* why the process has panicked, "no" before

poolVars == <<used, held, ended>>

Bits == 0 .. FlagBits - 1
Blocks == 0 .. BlockCount - 1

\* Faulty variant: the mask is not sign-extended.
MaskUnsigned(index) == {index}

\* Faulty variant: the sign extension goes one bit too far.
MaskOver(index) ==
  LET shift == index % IntBits IN
  IF shift = IntBits - 1 THEN shift .. FlagBits ELSE {shift}

\* 1 << index, sign-extended to the width of the flags.  A shift by the width
\* of an int or more is undefined; the machine takes it modulo that width.
Mask(index) ==
  LET shift == index % IntBits IN
  IF shift = IntBits - 1 THEN shift .. FlagBits - 1 ELSE {shift}

\* The lowest clear bit of the flags is index.
FirstFree(flags, index) ==
  /\ index \in Bits \ flags
  /\ \A b \in Bits \ flags : index <= b

\* The lowest clear bit, if there is one, is past the last block.
NoneFree(flags) == Blocks \subseteq flags

TypeOK ==
  /\ used \subseteq Bits
  /\ held \subseteq Blocks
  /\ ended \in {"no", "full", "too_large"}

Init == used = {} /\ held = {} /\ ended = "no"

\* fixed_allocator_malloc; "fits": the size is at most that of a block.  The
\* flag is set before the size is looked at.
Malloc(fits) ==
  /\ ended = "no"
  /\ \/ /\ NoneFree(used)
        /\ ended' = "full"
        /\ UNCHANGED <<used, held>>
     \/ \E index \in Blocks :
        /\ FirstFree(used, index)
        /\ used' = used \cup Mask(index)
        /\ \/ fits /\ held' = held \cup {index} /\ UNCHANGED ended
           \/ ~ fits /\ ended' = "too_large" /\ UNCHANGED held

\* Faulty variant: the flag is cleared only below the sign bit of the mask.
FreeLowOnly(block) ==
  /\ ended = "no"
  /\ block \in held
  /\ used' = IF block < IntBits - 1 THEN used \ Mask(block) ELSE used
  /\ held' = held \ {block}
  /\ UNCHANGED ended

\* fixed_allocator_free of a block the caller holds.
Free(block) ==
  /\ ended = "no"
  /\ block \in held
  /\ used' = used \ Mask(block)
  /\ held' = held \ {block}
  /\ UNCHANGED ended

\* A process that has panicked allocates nothing.
Panicked == ended # "no" /\ UNCHANGED poolVars

Next ==
  \/ \E fits \in BOOLEAN : Malloc(fits)
  \/ \E block \in Blocks : Free(block)
  \/ Panicked

Spec == Init /\ [][Next]_poolVars

-----------------------------------------------------------------------------

\* The flags agree with what is held: a block is in use while it is held, and
\* the bits above an int go with its sign bit.  So every block that is freed
\* comes back, and no other one does.
FlagsMatchHolders ==
  ended = "no" =>
    used = held \cup {b \in Bits : b >= IntBits /\ IntBits - 1 \in held}

\* The shift of every block that is handed out is defined.
NoUndefinedShift == \A b \in held : b < IntBits

\* No block is lost: the allocator is full only when every block that an int can
\* mask is held.
FullOnlyWhenHeld ==
  ended = "full" => \A b \in Blocks : b < IntBits => b \in held

\* c/README.md: "Maximum number of concurrent allocations: block_count".  The
\* allocator is full only when that many blocks are held.
FullOnlyAtBlockCount == ended = "full" => Cardinality(held) = BlockCount
=============================================================================
