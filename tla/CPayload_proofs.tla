-------------------------- MODULE CPayload_proofs --------------------------
(***************************************************************************)
(* Proofs about CPayload: a program that clears its response variables     *)
(* never holds a block twice and loses none, as a client and as a server,  *)
(* for any number of variables and blocks.                                 *)
(***************************************************************************)
EXTENDS CPayload, FiniteSetTheorems, TLAPS

-----------------------------------------------------------------------------
(* The pool, by itself: its holders are any set of blocks *)

\* The masks of the blocks below the width of an int.
LEMMA MaskFacts ==
  \A b \in 0 .. IntBits - 1 :
     /\ b < IntBits - 1 => Pool!Mask(b) = {b}
     /\ b = IntBits - 1 => Pool!Mask(b) = {b} \cup {c \in Pool!Bits : c >= IntBits}
     /\ Pool!Mask(b) \subseteq Pool!Bits
<1> SUFFICES ASSUME NEW b \in 0 .. IntBits - 1
             PROVE  /\ b < IntBits - 1 => Pool!Mask(b) = {b}
                    /\ b = IntBits - 1 => Pool!Mask(b) = {b} \cup {c \in Pool!Bits : c >= IntBits}
                    /\ Pool!Mask(b) \subseteq Pool!Bits
  OBVIOUS
<1>1. b % IntBits = b
  BY WidthAssumption
<1>2. Pool!Mask(b) = IF b = IntBits - 1 THEN b .. FlagBits - 1 ELSE {b}
  BY <1>1 DEF Pool!Mask
<1> QED BY <1>2, WidthAssumption DEF Pool!Bits

\* The inductive invariant: the flags above an int follow its sign bit, so no
\* block up there is ever the first free one.
PoolInv == Pool!TypeOK /\ Pool!FlagsMatchHolders /\ Pool!NoUndefinedShift

\* A block that malloc finds is one an int can mask.
LEMMA FirstFreeBelowInt ==
  ASSUME PoolInv, ended = "no", NEW index \in Pool!Blocks, Pool!FirstFree(used, index)
  PROVE  index \in 0 .. IntBits - 1 /\ index \notin Held
<1>1. index \notin used
  BY DEF Pool!FirstFree
<1>2. used = Held \cup {b \in Pool!Bits : b >= IntBits /\ IntBits - 1 \in Held}
  BY DEF PoolInv, Pool!FlagsMatchHolders
<1>3. CASE index >= IntBits
  <2>1. IntBits - 1 \notin Held
    BY <1>1, <1>2, <1>3 DEF Pool!FirstFree
  <2>2. IntBits - 1 \in Pool!Bits \ used
    BY <1>2, <2>1, WidthAssumption DEF Pool!Bits
  <2>3. index <= IntBits - 1
    BY <2>2 DEF Pool!FirstFree
  <2> QED BY <1>3, <2>3, WidthAssumption DEF Pool!Blocks
<1>4. CASE index < IntBits
  BY <1>1, <1>2, <1>4, WidthAssumption DEF Pool!Blocks
<1> QED BY <1>3, <1>4, WidthAssumption DEF Pool!Blocks

\* The initial state satisfies the invariant.
LEMMA PoolInitInv == Pool!Init => PoolInv
  BY DEF Pool!Init, PoolInv, Pool!TypeOK, Pool!FlagsMatchHolders, Pool!NoUndefinedShift

\* Every step keeps it.
LEMMA PoolStepInv == PoolInv /\ [Pool!Next]_(Pool!poolVars) => PoolInv'
<1> SUFFICES ASSUME PoolInv, [Pool!Next]_(Pool!poolVars) PROVE PoolInv'
  OBVIOUS
<1> USE DEF PoolInv
<1>1. ASSUME NEW fits \in BOOLEAN, Pool!Malloc(fits)
      PROVE  PoolInv'
  <2>1. CASE ended' = "full" /\ UNCHANGED <<used, Held>>
    BY <2>1 DEF Pool!TypeOK, Pool!FlagsMatchHolders, Pool!NoUndefinedShift
  <2>2. ASSUME NEW index \in Pool!Blocks,
               Pool!FirstFree(used, index),
               used' = used \cup Pool!Mask(index),
               \/ Held' = Held \cup {index} /\ UNCHANGED ended
               \/ ended' = "too_large" /\ UNCHANGED Held
        PROVE  PoolInv'
    <3>1. index \in 0 .. IntBits - 1 /\ index \notin Held
      BY <1>1, <2>2, FirstFreeBelowInt DEF Pool!Malloc
    <3>2. Pool!TypeOK'
      BY <2>2, <3>1, MaskFacts DEF Pool!TypeOK
    <3>3. Pool!NoUndefinedShift'
      BY <2>2, <3>1, WidthAssumption DEF Pool!NoUndefinedShift
    <3>4. Pool!FlagsMatchHolders'
      <4> SUFFICES ASSUME Held' = Held \cup {index}, ended = "no"
                   PROVE  used' = Held' \cup {b \in Pool!Bits : b >= IntBits /\ IntBits - 1 \in Held'}
        BY <2>2 DEF Pool!FlagsMatchHolders
      <4>1. used = Held \cup {b \in Pool!Bits : b >= IntBits /\ IntBits - 1 \in Held}
        BY DEF Pool!FlagsMatchHolders
      <4>2. CASE index = IntBits - 1
        BY <2>2, <3>1, <4>1, <4>2, MaskFacts
      <4>3. CASE index < IntBits - 1
        BY <2>2, <3>1, <4>1, <4>3, MaskFacts
      <4> QED BY <3>1, <4>2, <4>3, WidthAssumption
    <3> QED BY <3>2, <3>3, <3>4
  <2> QED BY <1>1, <2>1, <2>2 DEF Pool!Malloc
<1>2. ASSUME NEW block \in Pool!Blocks, Pool!Free(block)
      PROVE  PoolInv'
  <2>1. /\ block \in Held /\ ended = "no"
        /\ used' = used \ Pool!Mask(block)
        /\ Held' = Held \ {block}
        /\ UNCHANGED ended
        /\ block \in 0 .. IntBits - 1
    BY <1>2, WidthAssumption DEF Pool!Free, Pool!NoUndefinedShift, Pool!Blocks
  <2>2. Pool!TypeOK' /\ Pool!NoUndefinedShift'
    BY <2>1 DEF Pool!TypeOK, Pool!NoUndefinedShift
  <2>3. used = Held \cup {b \in Pool!Bits : b >= IntBits /\ IntBits - 1 \in Held}
    BY <2>1 DEF Pool!FlagsMatchHolders
  <2>4. \A b \in Held : b < IntBits
    BY DEF Pool!NoUndefinedShift
  <2>5. used' = Held' \cup {b \in Pool!Bits : b >= IntBits /\ IntBits - 1 \in Held'}
    <3>1. CASE block = IntBits - 1
      <4>1. Pool!Mask(block) = {block} \cup {c \in Pool!Bits : c >= IntBits}
        BY <2>1, <3>1, MaskFacts
      <4>2. \A b \in Held : b \in Int /\ ~ (b >= IntBits)
        BY <2>4, WidthAssumption DEF Pool!TypeOK, Pool!Blocks
      <4>3. used' = Held \ {block}
        BY <2>1, <2>3, <4>1, <4>2
      <4>4. IntBits - 1 \notin Held'
        BY <2>1, <3>1
      <4> QED BY <2>1, <4>3, <4>4
    <3>2. CASE block < IntBits - 1
      <4>1. Pool!Mask(block) = {block}
        BY <2>1, <3>2, MaskFacts
      <4> QED BY <2>1, <2>3, <3>2, <4>1, WidthAssumption
    <3> QED BY <2>1, <3>1, <3>2, WidthAssumption
  <2> QED BY <2>2, <2>5 DEF Pool!FlagsMatchHolders
<1>3. CASE UNCHANGED Pool!poolVars
  BY <1>3 DEF Pool!poolVars, Pool!TypeOK, Pool!FlagsMatchHolders, Pool!NoUndefinedShift
<1> QED BY <1>1, <1>2, <1>3 DEF Pool!Next, Pool!Panicked

\* Every reachable state satisfies the invariant.
LEMMA PoolInvariance == Pool!Spec => []PoolInv
  BY PoolInitInv, PoolStepInv, PTL DEF Pool!Spec

\* The flags always agree with what is held, so that no two callers hold the
\* same block and every freed block comes back, whatever the block count: the
\* sign extension of the mask keeps the bits it reaches out of use.
THEOREM FlagsAlwaysMatch == Pool!Spec => []Pool!FlagsMatchHolders
  BY PoolInvariance, PTL DEF PoolInv

\* No undefined shift is ever evaluated: no block above the width of an int is
\* handed out.
THEOREM ShiftsDefined == Pool!Spec => []Pool!NoUndefinedShift
  BY PoolInvariance, PTL DEF PoolInv

\* A step does not make the pool full while a block that an int can mask is free.
LEMMA StepFullOnlyWhenHeld ==
  PoolInv /\ Pool!FullOnlyWhenHeld /\ [Pool!Next]_(Pool!poolVars) => Pool!FullOnlyWhenHeld'
<1> SUFFICES ASSUME PoolInv, Pool!FullOnlyWhenHeld, [Pool!Next]_(Pool!poolVars), ended' = "full",
                    NEW b \in Pool!Blocks, b < IntBits
             PROVE  b \in Held'
  BY DEF Pool!FullOnlyWhenHeld
<1>1. CASE ended = "full"
  BY <1>1 DEF Pool!FullOnlyWhenHeld, Pool!Next, Pool!Malloc, Pool!Free, Pool!Panicked, Pool!poolVars
<1>2. CASE ended # "full"
  <2>1. ended = "no" /\ Pool!NoneFree(used) /\ Held' = Held
    BY <1>2 DEF Pool!Next, Pool!Malloc, Pool!Free, Pool!Panicked, Pool!poolVars
  <2>2. used = Held \cup {c \in Pool!Bits : c >= IntBits /\ IntBits - 1 \in Held}
    BY <2>1 DEF PoolInv, Pool!FlagsMatchHolders
  <2>3. b \in used /\ ~ (b >= IntBits)
    BY <2>1, WidthAssumption DEF Pool!NoneFree, Pool!Blocks
  <2> QED BY <2>1, <2>2, <2>3
<1> QED BY <1>1, <1>2

\* No block is lost: malloc gives up only when every block that an int can mask
\* is held, however many the pool has.
THEOREM PoolLosesNone == Pool!Spec => []Pool!FullOnlyWhenHeld
<1>1. Pool!Init => Pool!FullOnlyWhenHeld
  BY DEF Pool!Init, Pool!FullOnlyWhenHeld
<1> QED BY <1>1, StepFullOnlyWhenHeld, PoolInvariance, PTL DEF Pool!Spec

\* The pool's own Cardinality is that of the sets.
LEMMA SameCardinality == \A S : Pool!Cardinality(S) = Cardinality(S)
  BY DEF Pool!Cardinality, Cardinality

\* With at most as many blocks as an int has bits, the pool is full only when
\* as many are held as the README promises.
THEOREM FullAtBlockCount ==
  BlockCount <= IntBits => (Pool!Spec => []Pool!FullOnlyAtBlockCount)
<1> SUFFICES ASSUME BlockCount <= IntBits PROVE Pool!Spec => []Pool!FullOnlyAtBlockCount
  OBVIOUS
<1>1. PoolInv /\ Pool!FullOnlyWhenHeld => Pool!FullOnlyAtBlockCount
  <2> SUFFICES ASSUME PoolInv, Pool!FullOnlyWhenHeld, ended = "full"
               PROVE  Cardinality(Held) = BlockCount
    BY SameCardinality DEF Pool!FullOnlyAtBlockCount
  <2>1. \A b \in Pool!Blocks : b < IntBits
    BY WidthAssumption DEF Pool!Blocks
  <2>2. Held = Pool!Blocks
    BY <2>1 DEF Pool!FullOnlyWhenHeld, PoolInv, Pool!TypeOK
  <2> QED BY <2>2, FS_Interval, WidthAssumption DEF Pool!Blocks
<1> QED BY <1>1, PoolLosesNone, PoolInvariance, PTL

-----------------------------------------------------------------------------
(* The program *)

\* What is held is marked as used, and no block is in two places.
NoneTwice ==
  /\ Held \subseteq used
  /\ request # Null => request # response
  /\ \A s \in Slot :
        Block(s) # Null => Block(s) # request /\ Block(s) # response
  /\ \A s, t \in Slot : s # t /\ Block(s) # Null => Block(s) # Block(t)

\* A variable that did not get a block has no stale pointer when it is freed.
NoStale ==
  \A s \in Slot : /\ state[s] = "empty" => payload[s] = Null
                  /\ state[s] = "full" => payload[s] # Null

\* What may hold a block at each point of a server's round.
Round ==
  /\ at = "receive" => response = Null
  /\ at \in {"receive", "send", "sent"} => request = Null
  /\ at \in {"receive", "served", "send", "sent"} =>
        \A s \in Slot : state[s] = "ready"

Ownership == NoneTwice /\ NoStale /\ Round

\* The inductive invariant.
Inv == TypeOK /\ Pool!FlagsMatchHolders /\ Pool!NoUndefinedShift /\ Ownership

Places == {"client", "receive", "serve", "served", "send", "sent", "returned"}

\* Null is no block, and what is held are blocks.
LEMMA BlockFacts ==
  /\ Null \notin Pool!Blocks
  /\ TypeOK => Held \subseteq Pool!Blocks
  /\ TypeOK => \A s \in Slot : Block(s) \in Pool!Blocks \cup {Null}
  BY WidthAssumption DEF Null, Pool!Blocks, TypeOK, Held, Block

\* It keeps the pool's flags.
LEMMA PoolStep ==
  ASSUME Inv, [Pool!Next]_(Pool!poolVars)
  PROVE  /\ used' \subseteq Pool!Bits
         /\ Pool!FlagsMatchHolders' /\ Pool!NoUndefinedShift'
<1>1. PoolInv
  BY BlockFacts DEF Inv, TypeOK, PoolInv, Pool!TypeOK
<1>2. PoolInv'
  BY <1>1, PoolStepInv
<1> QED BY <1>2 DEF PoolInv, Pool!TypeOK

\* A block the allocator offers is held by nobody.
LEMMA OfferedIsFresh ==
  ASSUME Inv, ended = "no", NEW block \in Pool!Blocks, Pool!FirstFree(used, block)
  PROVE  block \notin Held /\ block # Null
  BY BlockFacts DEF Inv, Pool!FirstFree, Pool!FlagsMatchHolders

\* The initial state satisfies the invariant and is one of the pool's.
LEMMA InitInv == Init => Inv /\ Pool!Init
<1> SUFFICES ASSUME Init PROVE Inv /\ Pool!Init
  OBVIOUS
<1>1. Held = {} /\ \A s \in Slot : Block(s) = Null
  BY DEF Init, Held, Block
<1> QED
  BY <1>1
  DEF Init, Inv, TypeOK, Ownership, NoneTwice, NoStale, Round, Pool!Init,
      Pool!FlagsMatchHolders, Pool!NoUndefinedShift

\* Taking an offered block is a malloc of the pool.
LEMMA GetsIsMalloc ==
  ASSUME Inv, ended = "no", NEW block \in Pool!Blocks, Gets(block),
         Held' = Held \cup {block}
  PROVE  /\ Pool!Next /\ ended' = "no"
         /\ used' \subseteq Pool!Bits
         /\ Held' \subseteq used'
<1>1. Pool!Malloc(TRUE) /\ ended' = "no"
  BY DEF Gets, Pool!Malloc
<1> QED BY <1>1, PoolStep DEF Pool!Next, Pool!FlagsMatchHolders

\* Giving back one block is a free of the pool.
LEMMA GiveBackIsFree ==
  ASSUME Inv, ended = "no", UNCHANGED ended, NEW block \in Held,
         used' = used \ Pool!Mask(block), Held' = Held \ {block}
  PROVE  /\ Pool!Next
         /\ used' \subseteq Pool!Bits
         /\ Held' \subseteq used'
<1>1. Pool!Free(block) /\ block \in Pool!Blocks
  BY BlockFacts DEF Pool!Free, Inv
<1> QED BY <1>1, PoolStep DEF Pool!Next, Pool!FlagsMatchHolders

-----------------------------------------------------------------------------
(* The inductive step *)

\* Every step keeps the types and the ownership, and is a step of the pool.
LEMMA StepOwnership ==
  ASSUME Clears, Inv, [Next]_vars
  PROVE  TypeOK' /\ Ownership' /\ [Pool!Next]_(Pool!poolVars)
<1> USE DEF Inv
<1> DEFINE Goal == TypeOK' /\ Ownership' /\ [Pool!Next]_(Pool!poolVars)
<1>1. ASSUME UNCHANGED <<used, ended, request, response, payload, state>>,
             Round', at' \in Places
      PROVE  Goal
  <2>1. Held' = Held /\ \A s \in Slot : Block(s)' = Block(s)
    BY <1>1 DEF Held, Block
  <2>2. NoneTwice' /\ NoStale'
    BY <1>1, <2>1 DEF Ownership, NoneTwice, NoStale
  <2> QED BY <1>1, <2>1, <2>2 DEF TypeOK, Ownership, Pool!poolVars, Places
<1>2. CASE Receive
  <2>1. /\ ended = "no" /\ at = "receive" /\ at' = "serve"
        /\ request = Null /\ UNCHANGED <<response, payload, state>>
    BY <1>2 DEF Receive, Ownership, Round
  <2>2. Round' /\ NoStale' /\ \A s \in Slot : Block(s)' = Block(s)
    BY <2>1 DEF Round, Ownership, NoStale, Block
  <2>3. ASSUME NEW block \in Pool!Blocks, Gets(block), request' = block
        PROVE  Goal
    <3>1. block \notin Held /\ block # Null
      BY <2>1, <2>3, OfferedIsFresh DEF Gets
    <3>2. Held' = Held \cup {block}
      BY <2>1, <2>2, <2>3, <3>1 DEF Held
    <3>3. /\ Pool!Next /\ ended' = "no"
          /\ used' \subseteq Pool!Bits /\ Held' \subseteq used'
      BY <2>1, <2>3, <3>2, GetsIsMalloc
    <3>4. response # block /\ \A s \in Slot : Block(s) # block
      BY <3>1 DEF Held
    <3>5. NoneTwice'
      BY <2>1, <2>2, <2>3, <3>3, <3>4 DEF Ownership, NoneTwice
    <3>6. TypeOK'
      BY <2>1, <2>3, <3>3 DEF TypeOK
    <3> QED BY <2>2, <3>3, <3>5, <3>6 DEF Ownership
  <2>4. CASE UNCHANGED <<used, ended, request>>
    BY <1>1, <2>1, <2>2, <2>4 DEF Places
  <2> QED BY <1>2, <2>3, <2>4 DEF Receive
<1>3. CASE MallocResponse
  <2>1. /\ ended = "no" /\ at = "serve" /\ at' = "serve"
        /\ response = Null /\ UNCHANGED <<request, payload, state>>
    BY <1>3 DEF MallocResponse
  <2>2. Round' /\ NoStale' /\ \A s \in Slot : Block(s)' = Block(s)
    BY <2>1 DEF Round, Ownership, NoStale, Block
  <2>3. PICK block \in Pool!Blocks : Gets(block) /\ response' = block
    BY <1>3 DEF MallocResponse
  <2>4. block \notin Held /\ block # Null
    BY <2>1, <2>3, OfferedIsFresh DEF Gets
  <2>5. Held' = Held \cup {block}
    BY <2>1, <2>2, <2>3, <2>4 DEF Held
  <2>6. /\ Pool!Next /\ ended' = "no"
        /\ used' \subseteq Pool!Bits /\ Held' \subseteq used'
    BY <2>1, <2>3, <2>5, GetsIsMalloc
  <2>7. request # block /\ \A s \in Slot : Block(s) # block
    BY <2>4 DEF Held
  <2>8. NoneTwice'
    BY <2>1, <2>2, <2>3, <2>6, <2>7 DEF Ownership, NoneTwice
  <2>9. TypeOK'
    BY <2>1, <2>3, <2>6 DEF TypeOK
  <2> QED BY <2>2, <2>6, <2>8, <2>9 DEF Ownership
<1>4. ASSUME NEW s \in Slot, CallPayload(s)
      PROVE  Goal
  <2>1. /\ ended = "no" /\ at \in {"client", "serve"}
        /\ state[s] = "ready" /\ UNCHANGED <<at, request, response>>
    BY <1>4 DEF CallPayload, Calling
  <2>2. PICK block \in Pool!Blocks :
          Gets(block) /\ payload' = [payload EXCEPT ![s] = block]
    BY <1>4 DEF CallPayload
  <2>3. block \notin Held /\ block # Null
    BY <2>1, <2>2, OfferedIsFresh DEF Gets
  <2>4. /\ payload'[s] = block /\ state'[s] = "full"
        /\ \A t \in Slot : t # s => payload'[t] = payload[t] /\ state'[t] = state[t]
    BY <1>4, <2>2 DEF CallPayload, TypeOK
  <2>5. /\ Block(s) = Null /\ Block(s)' = block
        /\ \A t \in Slot : t # s => Block(t)' = Block(t)
    BY <2>1, <2>4 DEF Block
  <2>6. Held' = Held \cup {block}
    BY <2>1, <2>3, <2>5 DEF Held
  <2>7. /\ Pool!Next /\ ended' = "no"
        /\ used' \subseteq Pool!Bits /\ Held' \subseteq used'
    BY <2>1, <2>2, <2>6, GetsIsMalloc
  <2>8. /\ request # block /\ response # block
        /\ \A t \in Slot : Block(t) # block
    BY <2>3 DEF Held
  <2>9. NoneTwice'
    BY <2>1, <2>5, <2>7, <2>8 DEF Ownership, NoneTwice
  <2>10. NoStale' /\ Round'
    BY <2>1, <2>3, <2>4 DEF Ownership, NoStale, Round
  <2>11. TypeOK'
    BY <1>4, <2>1, <2>2, <2>7 DEF CallPayload, TypeOK
  <2> QED BY <2>7, <2>9, <2>10, <2>11 DEF Ownership
<1>5. ASSUME NEW s \in Slot, CallEmpty(s)
      PROVE  Goal
  <2>1. /\ at \in {"client", "serve"} /\ state[s] = "ready"
        /\ UNCHANGED <<used, ended, at, request, response>>
    BY <1>5 DEF CallEmpty, Calling
  <2>2. /\ payload'[s] = Null /\ state'[s] = "empty"
        /\ \A t \in Slot : t # s => payload'[t] = payload[t] /\ state'[t] = state[t]
    BY <1>5 DEF CallEmpty, Before, TypeOK
  <2>3. \A t \in Slot : Block(t)' = Block(t)
    BY <2>1, <2>2 DEF Block
  <2>4. Held' = Held
    BY <2>1, <2>3 DEF Held
  <2>5. Ownership'
    BY <2>1, <2>2, <2>3, <2>4 DEF Ownership, NoneTwice, NoStale, Round
  <2>6. TypeOK'
    BY <1>5 DEF CallEmpty, Before, TypeOK
  <2> QED BY <2>1, <2>4, <2>5, <2>6 DEF Pool!poolVars
<1>6. ASSUME NEW s \in Slot, Free(s)
      PROVE  Goal
  <2>1. /\ ended = "no" /\ at \in {"client", "serve"} /\ state[s] # "ready"
        /\ UNCHANGED <<ended, at, request, response, payload>>
    BY <1>6 DEF Free, Calling
  <2>2. /\ state'[s] = "ready"
        /\ \A t \in Slot : t # s => state'[t] = state[t]
        /\ state' \in [Slot -> {"ready", "full", "empty"}]
    BY <1>6 DEF Free, TypeOK
  <2>3. Block(s)' = Null /\ \A t \in Slot : t # s => Block(t)' = Block(t)
    BY <2>1, <2>2 DEF Block
  <2>4. NoStale' /\ Round'
    BY <2>1, <2>2 DEF Ownership, NoStale, Round
  <2>5. CASE state[s] = "empty"
    <3>1. used' = used /\ Block(s) = Null
      BY <1>6, <2>5 DEF Free, Ownership, NoStale, Block
    <3>2. Held' = Held
      BY <2>1, <2>3, <3>1 DEF Held
    <3>3. NoneTwice'
      BY <2>1, <2>3, <3>1, <3>2 DEF Ownership, NoneTwice
    <3>4. TypeOK'
      BY <2>1, <2>2, <3>1 DEF TypeOK
    <3> QED BY <2>1, <2>4, <3>1, <3>2, <3>3, <3>4 DEF Ownership, Pool!poolVars
  <2>6. CASE state[s] = "full"
    <3>1. /\ Block(s) = payload[s] /\ Block(s) # Null
          /\ used' = used \ Pool!Mask(Block(s))
      BY <1>6, <2>6 DEF Free, Ownership, NoStale, Block
    <3>2. Block(s) \in Held
      BY <3>1 DEF Held
    <3>3. Held' = Held \ {Block(s)}
      BY <2>1, <2>3, <3>1 DEF Held, Ownership, NoneTwice
    <3>4. Pool!Next /\ used' \subseteq Pool!Bits /\ Held' \subseteq used'
      BY <2>1, <3>1, <3>2, <3>3, GiveBackIsFree
    <3>5. NoneTwice'
      BY <2>1, <2>3, <3>4 DEF Ownership, NoneTwice
    <3>6. TypeOK'
      BY <2>1, <2>2, <3>4 DEF TypeOK
    <3> QED BY <2>4, <3>4, <3>5, <3>6 DEF Ownership
  <2> QED BY <2>1, <2>5, <2>6 DEF TypeOK
<1>7. CASE FreeRequest
  <2>1. /\ ended = "no" /\ at = "served" /\ at' = "send" /\ request' = Null
        /\ UNCHANGED <<ended, response, payload, state>>
        /\ used' = IF request = Null THEN used ELSE used \ Pool!Mask(request)
    BY <1>7 DEF FreeRequest
  <2>2. Round' /\ NoStale' /\ \A s \in Slot : Block(s)' = Block(s)
    BY <2>1 DEF Round, Ownership, NoStale, Block
  <2>3. CASE request = Null
    BY <1>1, <2>1, <2>2, <2>3 DEF Places
  <2>4. CASE request # Null
    <3>1. request \in Held /\ Held' = Held \ {request}
      BY <2>1, <2>2, <2>4 DEF Held, Ownership, NoneTwice
    <3>2. Pool!Next /\ used' \subseteq Pool!Bits /\ Held' \subseteq used'
      BY <2>1, <2>4, <3>1, GiveBackIsFree
    <3>3. TypeOK'
      BY <2>1, <3>2 DEF TypeOK
    <3>4. NoneTwice'
      BY <2>1, <2>2, <3>2 DEF Ownership, NoneTwice
    <3> QED BY <2>2, <3>2, <3>3, <3>4 DEF Ownership
  <2> QED BY <2>3, <2>4
<1>8. CASE FreeResponse
  <2>1. /\ ended = "no" /\ at = "sent" /\ at' = "receive" /\ response' = Null
        /\ UNCHANGED <<ended, request, payload, state>>
        /\ used' = IF response = Null THEN used ELSE used \ Pool!Mask(response)
    BY <1>8 DEF FreeResponse
  <2>2. Round' /\ NoStale' /\ \A s \in Slot : Block(s)' = Block(s)
    BY <2>1 DEF Round, Ownership, NoStale, Block
  <2>3. CASE response = Null
    BY <1>1, <2>1, <2>2, <2>3 DEF Places
  <2>4. CASE response # Null
    <3>1. response \in Held /\ Held' = Held \ {response}
      BY <2>1, <2>2, <2>4 DEF Held, Ownership, NoneTwice
    <3>2. Pool!Next /\ used' \subseteq Pool!Bits /\ Held' \subseteq used'
      BY <2>1, <2>4, <3>1, GiveBackIsFree
    <3>3. TypeOK'
      BY <2>1, <3>2 DEF TypeOK
    <3>4. NoneTwice'
      BY <2>1, <2>2, <3>2 DEF Ownership, NoneTwice
    <3> QED BY <2>2, <3>2, <3>3, <3>4 DEF Ownership
  <2> QED BY <2>3, <2>4
<1>9. CASE MallocPanics
  <2>1. /\ UNCHANGED <<at, request, response, payload, state>>
        /\ used \subseteq used'
        /\ ended' \in {"full", "too_large"}
    BY <1>9 DEF MallocPanics
  <2>2. Held' = Held /\ \A s \in Slot : Block(s)' = Block(s)
    BY <2>1 DEF Held, Block
  <2>3. Pool!Malloc(FALSE) /\ Pool!Next
    BY <1>9, <2>2 DEF MallocPanics, Pool!Malloc, Pool!Next
  <2>4. TypeOK'
    BY <2>1, <2>3, PoolStep DEF TypeOK
  <2>5. Ownership'
    BY <2>1, <2>2 DEF Ownership, NoneTwice, NoStale, Round
  <2> QED BY <2>3, <2>4, <2>5
<1>10. CASE Served \/ Sent \/ Fail \/ UNCHANGED vars
  <2>1. UNCHANGED <<used, ended, request, response, payload, state>>
    BY <1>10 DEF Served, Sent, Fail, vars
  <2>2. Round'
    BY <1>10, <2>1 DEF Served, Sent, Fail, vars, Round, Ownership
  <2>3. at' \in Places
    BY <1>10 DEF Served, Sent, Fail, vars, TypeOK, Places
  <2> QED BY <1>1, <2>1, <2>2, <2>3
<1> QED
  BY <1>2, <1>3, <1>4, <1>5, <1>6, <1>7, <1>8, <1>9, <1>10 DEF Next, Over

\* Every step keeps the invariant.
LEMMA StepInv == Clears /\ Inv /\ [Next]_vars => Inv' /\ [Pool!Next]_(Pool!poolVars)
<1> SUFFICES ASSUME Clears, Inv, [Next]_vars
             PROVE  Inv' /\ [Pool!Next]_(Pool!poolVars)
  OBVIOUS
<1>1. TypeOK' /\ Ownership' /\ [Pool!Next]_(Pool!poolVars)
  BY StepOwnership
<1>2. Pool!FlagsMatchHolders' /\ Pool!NoUndefinedShift'
  BY <1>1, PoolStep
<1> QED BY <1>1, <1>2 DEF Inv

\* Every reachable state satisfies it, when the program clears its variables.
LEMMA Invariance == Clears => (Spec => []Inv)
<1> SUFFICES ASSUME Clears PROVE Spec => []Inv
  OBVIOUS
<1>1. Init => Inv
  BY InitInv
<1>2. Inv /\ [Next]_vars => Inv'
  BY StepInv
<1> QED BY <1>1, <1>2, PTL DEF Spec

-----------------------------------------------------------------------------
(* What it gives *)

\* In every reachable state each variable of the program, the loop and the
\* callback holds a block of the pool or nothing.
THEOREM TypeCorrect == Clears => (Spec => []TypeOK)
<1>1. Inv => TypeOK
  BY DEF Inv
<1> QED BY <1>1, Invariance, PTL

\* The request, the response and the responses of the program's own calls are
\* in different blocks, each marked as used.
THEOREM NoBlockShared == Clears => (Spec => []NoSharedBlock)
<1>1. Inv => NoSharedBlock
  BY DEF Inv, Ownership, NoneTwice, NoSharedBlock
<1> QED BY <1>1, Invariance, PTL

\* A round of csi_run_server leaves no flag set, so the loop can go on for ever.
THEOREM NothingIsKept == Clears => (Spec => []NothingKept)
<1>1. Inv => NothingKept
  <2> SUFFICES ASSUME Inv, ended = "no", at = "receive" PROVE used = {}
    BY DEF NothingKept
  <2>1. Held = {}
    BY DEF Inv, Ownership, Round, Held, Block
  <2> QED BY <2>1 DEF Inv, Pool!FlagsMatchHolders
<1> QED BY <1>1, Invariance, PTL

\* The program uses the allocator as its callers have to: Spec implements the
\* pool.
THEOREM DisciplineKept == Clears => (Spec => KeepsDiscipline)
<1> SUFFICES ASSUME Clears PROVE Spec => KeepsDiscipline
  OBVIOUS
<1>1. Init => Inv /\ Pool!Init
  BY InitInv
<1>2. Inv /\ [Next]_vars => Inv' /\ [Pool!Next]_(Pool!poolVars)
  BY StepInv
<1> QED BY <1>1, <1>2, PTL DEF Spec, KeepsDiscipline, Pool!Spec

\* No block is lost: the program runs out only when every block that an int can
\* mask is held.  The pool's own theorem, which the implementation carries over.
THEOREM NoneLost == Clears => (Spec => []NoBlockLost)
  BY DisciplineKept, PoolLosesNone, PTL DEF NoBlockLost, KeepsDiscipline
=============================================================================
