----------------------------- MODULE Vlq_proofs -----------------------------
(***************************************************************************)
(* Proofs about Vlq, for every width of numbers, every group of bits that  *)
(* divides it or not, and streams of every length.  What the codec's       *)
(* recursive functions compute is proved by induction on the number and on *)
(* the length of the bytes; the readers by an inductive invariant, the     *)
(* list of places where the numbers of the stream end.                     *)
(***************************************************************************)
EXTENDS Vlq, WellFoundedInduction, SequenceTheorems, TLAPS

-----------------------------------------------------------------------------
(* Induction and recursion *)

\* A nonempty set of numbers has a least element: the one fact the inductions
\* rest on.
LEMMA Least ==
  ASSUME NEW T, T \subseteq Nat, T # {}
  PROVE  \E x \in T : \A y \in T : x <= y
<1>1. IsWellFoundedOn(OpToRel(<, Nat), Nat)
  BY NatLessThanWellFounded
<1>2. PICK x \in T : \A y \in T : ~ (<<y, x>> \in OpToRel(<, Nat))
  BY <1>1, WFMin
<1>3. \A y \in T : ~ (y < x)
  BY <1>2 DEF OpToRel
<1> QED BY <1>3

\* Induction by size, with the set of the good elements in place of a predicate:
\* the least bad one would have only good ones below it.
LEMMA Induction ==
  ASSUME NEW D, NEW size \in [D -> Nat], NEW Good,
         \A x \in D : (\A y \in D : size[y] < size[x] => y \in Good) => x \in Good
  PROVE  D \subseteq Good
<1> SUFFICES ASSUME D \ Good # {} PROVE FALSE
  OBVIOUS
<1> DEFINE Sizes == {size[x] : x \in D \ Good}
<1>1. Sizes \subseteq Nat /\ Sizes # {}
  OBVIOUS
<1>2. PICK n \in Sizes : \A m \in Sizes : n <= m
  BY <1>1, Least
<1>3. PICK x \in D \ Good : size[x] = n
  OBVIOUS
<1>4. \A y \in D : size[y] < size[x] => y \in Good
  <2> SUFFICES ASSUME NEW y \in D, size[y] < size[x], y \notin Good PROVE FALSE
    OBVIOUS
  <2>1. size[y] \in Sizes
    OBVIOUS
  <2>2. size[y] \in Nat /\ size[x] \in Nat /\ size[x] <= size[y]
    BY <1>2, <1>3, <2>1
  <2> QED BY <2>2
<1> QED BY <1>3, <1>4

\* Induction over the numbers, in the same form.
LEMMA NatInduct ==
  ASSUME NEW Good, 0 \in Good, \A n \in Nat : n \in Good => n + 1 \in Good
  PROVE  \A n \in Nat : n \in Good
<1> DEFINE id == [n \in Nat |-> n]
<1>1. ASSUME NEW n \in Nat, \A m \in Nat : id[m] < id[n] => m \in Good
      PROVE  n \in Good
  <2>1. CASE n = 0
    BY <2>1
  <2>2. CASE n # 0
    <3>1. n - 1 \in Nat /\ id[n - 1] < id[n] /\ (n - 1) + 1 = n
      BY <2>2
    <3> QED BY <1>1, <3>1
  <2> QED BY <2>1, <2>2
<1>2. id \in [Nat -> Nat]
  OBVIOUS
<1> HIDE DEF id
<1> QED BY <1>1, <1>2, Induction

\* A definition by recursion: what step gives for x depends only on the values
\* at the elements of a smaller size.
Recursive(D, T, size, step) ==
  /\ T # {}
  /\ size \in [D -> Nat]
  /\ step \in [D -> [[D -> T] -> T]]
  /\ \A x \in D : \A g, h \in [D -> T] :
        (\A y \in D : size[y] < size[x] => g[y] = h[y]) => step[x][g] = step[x][h]

\* Such a definition has a solution.  By induction there is one on the elements
\* of each size or less, two of them agree where both are defined, and together
\* they make the function.
LEMMA Recursion ==
  ASSUME NEW D, NEW T, NEW size, NEW step, Recursive(D, T, size, step)
  PROVE  \E f \in [D -> T] : \A x \in D : f[x] = step[x][f]
<1> USE DEF Recursive
<1> DEFINE Upto(n, g) == \A x \in D : size[x] < n => g[x] = step[x][g]
<1> DEFINE Some == {n \in Nat : \E g \in [D -> T] : Upto(n, g)}
<1>1. \A n \in Nat : n \in Some
  <2>1. 0 \in Some
    <3>1. PICK t \in T : TRUE
      OBVIOUS
    <3>2. [x \in D |-> t] \in [D -> T] /\ Upto(0, [x \in D |-> t])
      BY <3>1
    <3> QED BY <3>2
  <2>2. ASSUME NEW n \in Nat, n \in Some
        PROVE  n + 1 \in Some
    <3>1. PICK g \in [D -> T] : Upto(n, g)
      BY <2>2
    <3> DEFINE h == [x \in D |-> step[x][g]]
    <3>2. h \in [D -> T]
      OBVIOUS
    <3>3. \A x \in D : size[x] < n => h[x] = g[x]
      BY <3>1
    <3>4. ASSUME NEW x \in D, size[x] < n + 1 PROVE h[x] = step[x][h]
      <4>1. \A y \in D : size[y] < size[x] => h[y] = g[y]
        <5> SUFFICES ASSUME NEW y \in D, size[y] < size[x] PROVE size[y] < n
          BY <3>3
        <5>1. size[x] \in Nat /\ size[y] \in Nat
          OBVIOUS
        <5> QED BY <3>4, <5>1
      <4>2. step[x][h] = step[x][g]
        <5> HIDE DEF h
        <5> QED BY <3>2, <4>1
      <4> QED BY <4>2
    <3>5. Upto(n + 1, h)
      BY <3>4
    <3> HIDE DEF h, Upto
    <3> QED BY <3>2, <3>5
  <2> HIDE DEF Some
  <2> QED BY <2>1, <2>2, NatInduct
<1> DEFINE Agree(n, m, g, h) == \A x \in D : size[x] < n /\ size[x] < m => g[x] = h[x]
<1>2. \A n, m \in Nat : \A g, h \in [D -> T] :
         Upto(n, g) /\ Upto(m, h) => Agree(n, m, g, h)
  <2> SUFFICES ASSUME NEW n \in Nat, NEW m \in Nat,
                      NEW g \in [D -> T], NEW h \in [D -> T], Upto(n, g), Upto(m, h)
               PROVE  Agree(n, m, g, h)
    <3> HIDE DEF Upto, Agree
    <3> QED OBVIOUS
  <2> DEFINE Same == {x \in D : size[x] < n /\ size[x] < m => g[x] = h[x]}
  <2>1. ASSUME NEW x \in D, \A y \in D : size[y] < size[x] => y \in Same
        PROVE  x \in Same
    <3> SUFFICES ASSUME size[x] < n, size[x] < m PROVE g[x] = h[x]
      OBVIOUS
    <3>1. ASSUME NEW y \in D, size[y] < size[x] PROVE g[y] = h[y]
      <4>1. size[x] \in Nat /\ size[y] \in Nat
        OBVIOUS
      <4>2. size[y] < n /\ size[y] < m
        BY <3>1, <4>1
      <4> QED BY <2>1, <3>1, <4>2
    <3>2. step[x][g] = step[x][h]
      BY <3>1
    <3> QED BY <3>2
  <2>2. D \subseteq Same
    <3> HIDE DEF Same
    <3> QED BY <2>1, Induction
  <2> QED BY <2>2
<1> DEFINE Good(n) == CHOOSE g \in [D -> T] : Upto(n, g)
<1>3. \A n \in Nat : Good(n) \in [D -> T] /\ Upto(n, Good(n))
  <2> HIDE DEF Upto
  <2> QED BY <1>1
<1> DEFINE f == [x \in D |-> Good(size[x] + 1)[x]]
<1>4. ASSUME NEW x \in D PROVE f[x] = step[x][f] /\ f[x] \in T
  <2> DEFINE gx == Good(size[x] + 1)
  <2>1. size[x] \in Nat /\ size[x] + 1 \in Nat
    OBVIOUS
  <2>2. gx \in [D -> T] /\ Upto(size[x] + 1, gx)
    BY <1>3, <2>1
  <2>3. \A y \in D : size[y] < size[x] => f[y] = gx[y]
    <3> SUFFICES ASSUME NEW y \in D, size[y] < size[x] PROVE f[y] = gx[y]
      OBVIOUS
    <3>1. size[y] \in Nat /\ size[y] + 1 \in Nat /\ size[y] < size[x] + 1 /\ size[y] < size[y] + 1
      BY <2>1
    <3>2. Good(size[y] + 1) \in [D -> T] /\ Upto(size[y] + 1, Good(size[y] + 1))
      BY <1>3, <3>1
    <3> DEFINE gy == Good(size[y] + 1)
    <3>3. gy[y] = gx[y]
      <4> HIDE DEF gx, gy, Upto, Agree
      <4>1. gy \in [D -> T] /\ Upto(size[y] + 1, gy)
        BY <3>2 DEF gy
      <4>2. \A z \in D : size[z] < size[y] + 1 /\ size[z] < size[x] + 1 => gy[z] = gx[z]
        <5>1. size[x] + 1 \in Nat /\ size[y] + 1 \in Nat
          BY <2>1, <3>1
        <5>2. Agree(size[y] + 1, size[x] + 1, gy, gx)
          BY <1>2, <2>2, <4>1, <5>1
        <5> QED BY <5>2 DEF Agree
      <4> QED BY <3>1, <4>2
    <3> HIDE DEF Good, Upto
    <3> QED BY <3>3
  <2>4. f[x] = gx[x] /\ gx[x] = step[x][gx] /\ gx[x] \in T
    <3>1. f[x] = gx[x]
      OBVIOUS
    <3> HIDE DEF Good
    <3> QED BY <2>1, <2>2, <3>1
  <2>5. f \in [D -> T]
    <3> SUFFICES ASSUME NEW y \in D PROVE Good(size[y] + 1)[y] \in T
      OBVIOUS
    <3>1. size[y] + 1 \in Nat
      OBVIOUS
    <3> HIDE DEF Good
    <3> QED BY <1>3, <3>1
  <2> HIDE DEF f, gx
  <2> QED BY <2>2, <2>3, <2>4, <2>5
<1>5. f \in [D -> T]
  <2> HIDE DEF Good
  <2> QED BY <1>4
<1> HIDE DEF f
<1> QED BY <1>4, <1>5

-----------------------------------------------------------------------------
(* Powers of two *)

\* The recursive functions of the module satisfy their equations: first the
\* powers of two, what the shifts of the code compute.
LEMMA TwoToDef ==
  \A n \in Nat : TwoTo[n] = IF n = 0 THEN 1 ELSE 2 * TwoTo[n - 1]
<1> DEFINE size == [n \in Nat |-> n]
           step == [n \in Nat |-> [g \in [Nat -> Nat] |-> IF n = 0 THEN 1 ELSE 2 * g[n - 1]]]
           Is(g) == g = [n \in Nat |-> IF n = 0 THEN 1 ELSE 2 * g[n - 1]]
<1>1. size \in [Nat -> Nat] /\ step \in [Nat -> [[Nat -> Nat] -> Nat]]
  OBVIOUS
<1>2. ASSUME NEW n \in Nat, NEW g \in [Nat -> Nat], NEW h \in [Nat -> Nat],
             \A m \in Nat : size[m] < size[n] => g[m] = h[m]
      PROVE  step[n][g] = step[n][h]
  <2>1. n # 0 => g[n - 1] = h[n - 1]
    BY <1>2
  <2> QED BY <2>1
<1>3. \E f \in [Nat -> Nat] : \A n \in Nat : f[n] = step[n][f]
  <2>1. \A n \in Nat : \A g, h \in [Nat -> Nat] :
          (\A m \in Nat : size[m] < size[n] => g[m] = h[m]) => step[n][g] = step[n][h]
    BY <1>2
  <2>2. Recursive(Nat, Nat, size, step)
    <3> HIDE DEF size, step
    <3> QED BY <1>1, <2>1 DEF Recursive
  <2> HIDE DEF size, step
  <2> QED BY <2>2, Recursion
<1>4. \E f : Is(f)
  <2>1. PICK f \in [Nat -> Nat] : \A n \in Nat : f[n] = step[n][f]
    BY <1>3
  <2>2. f = [n \in Nat |-> IF n = 0 THEN 1 ELSE 2 * f[n - 1]]
    BY <2>1
  <2> QED BY <2>2
<1>5. TwoTo = CHOOSE f : Is(f)
  BY DEF TwoTo
<1>6. Is(TwoTo)
  <2> HIDE DEF Is
  <2> QED BY <1>4, <1>5
<1> QED BY <1>6

\* Products are numbers.
LEMMA NatProduct == \A j, k \in Nat : j * k \in Nat
  OBVIOUS

\* The powers of two are positive, and each is twice the one before.
LEMMA PowerFacts ==
  /\ TwoTo[0] = 1
  /\ \A n \in Nat : TwoTo[n] \in Nat \ {0} /\ TwoTo[n + 1] = 2 * TwoTo[n]
<1> DEFINE Good == {n \in Nat : TwoTo[n] \in Nat \ {0}}
<1>1. TwoTo[0] = 1
  BY TwoToDef
<1>2. \A n \in Nat : TwoTo[n + 1] = 2 * TwoTo[n]
  <2> SUFFICES ASSUME NEW n \in Nat PROVE TwoTo[n + 1] = 2 * TwoTo[n]
    OBVIOUS
  <2>1. n + 1 \in Nat /\ n + 1 # 0 /\ (n + 1) - 1 = n
    OBVIOUS
  <2> QED BY <2>1, TwoToDef
<1>3. 0 \in Good
  BY <1>1
<1>4. \A n \in Nat : n \in Good => n + 1 \in Good
  BY <1>2
<1>5. \A n \in Nat : n \in Good
  <2> HIDE DEF Good
  <2> QED BY <1>3, <1>4, NatInduct
<1> QED BY <1>1, <1>2, <1>5

\* Shifts add up.
LEMMA PowerSum ==
  \A m, n \in Nat : TwoTo[m + n] = TwoTo[m] * TwoTo[n]
<1> SUFFICES ASSUME NEW m \in Nat
             PROVE  \A n \in Nat : TwoTo[m + n] = TwoTo[m] * TwoTo[n]
  OBVIOUS
<1> DEFINE Good == {n \in Nat : TwoTo[m + n] = TwoTo[m] * TwoTo[n]}
<1>1. 0 \in Good
  BY PowerFacts
<1>2. \A n \in Nat : n \in Good => n + 1 \in Good
  <2> SUFFICES ASSUME NEW n \in Nat, n \in Good PROVE n + 1 \in Good
    OBVIOUS
  <2>1. m + (n + 1) = (m + n) + 1 /\ m + n \in Nat
    OBVIOUS
  <2>2. TwoTo[m + (n + 1)] = 2 * TwoTo[m + n]
    BY <2>1, PowerFacts
  <2>3. TwoTo[m] * TwoTo[n + 1] = TwoTo[m] * (2 * TwoTo[n])
    BY PowerFacts
  <2>4. ASSUME NEW x \in Nat, NEW y \in Nat PROVE x * (2 * y) = 2 * (x * y)
    OBVIOUS
  <2>5. TwoTo[m] \in Nat /\ TwoTo[n] \in Nat
    BY PowerFacts
  <2>6. TwoTo[m] * (2 * TwoTo[n]) = 2 * (TwoTo[m] * TwoTo[n])
    BY <2>4, <2>5
  <2> QED BY <2>2, <2>3, <2>6
<1> HIDE DEF Good
<1>3. \A n \in Nat : n \in Good
  BY <1>1, <1>2, NatInduct
<1> QED BY <1>3 DEF Good

\* A smaller power has a smaller exponent.
LEMMA PowerOrder ==
  \A m, n \in Nat : TwoTo[m] < TwoTo[n] => m < n
<1> SUFFICES ASSUME NEW m \in Nat, NEW n \in Nat, n <= m
             PROVE  TwoTo[n] <= TwoTo[m]
  BY PowerFacts
<1>1. PICK d \in Nat : m = n + d
  <2>1. m - n \in Nat /\ m = n + (m - n)
    OBVIOUS
  <2> QED BY <2>1
<1>2. TwoTo[m] = TwoTo[n] * TwoTo[d]
  BY <1>1, PowerSum
<1>3. TwoTo[n] \in Nat /\ TwoTo[d] \in Nat /\ TwoTo[d] >= 1
  BY PowerFacts
<1>4. ASSUME NEW x \in Nat, NEW y \in Nat, y >= 1 PROVE x <= x * y
  BY <1>4
<1> QED BY <1>2, <1>3, <1>4

\* What is left of a number after the low digit, and the digit, give the number
\* back; the rest is smaller.
LEMMA Divide ==
  ASSUME NEW B \in Nat, B >= 2, NEW v \in Nat
  PROVE  /\ v % B \in 0 .. B - 1
         /\ v \div B \in Nat
         /\ v = (v % B) + B * (v \div B)
         /\ v # 0 => v \div B < v
<1>1. v % B \in 0 .. B - 1
  OBVIOUS
<1>2. v = (v % B) + B * (v \div B)
  OBVIOUS
<1>3. v \div B \in Nat
  OBVIOUS
<1>4. v # 0 => v \div B < v
  BY <1>1, <1>2, <1>3
<1> QED BY <1>1, <1>2, <1>3, <1>4

-----------------------------------------------------------------------------
(* The codec *)

\* The numbers that fit in a byte, and the byte that vlq_encode writes first.
B == TwoTo[Group]
LowByte(v) == [bits |-> v % B, more |-> v \div B # 0]

\* A byte carries at least one bit.
LEMMA BFacts == B \in Nat /\ B >= 2
<1>1. Group \in Nat /\ Group # 0
  BY VlqAssumption
<1>2. Group - 1 \in Nat /\ (Group - 1) + 1 = Group
  BY <1>1
<1>3. TwoTo[Group] = 2 * TwoTo[Group - 1] /\ TwoTo[Group - 1] \in Nat \ {0}
  BY <1>2, PowerFacts
<1> QED BY <1>3 DEF B

\* The fields of a byte.
LEMMA ByteFacts ==
  \A b \in Byte : b.bits \in 0 .. B - 1 /\ b.bits \in Nat /\ b.more \in BOOLEAN
<1> SUFFICES ASSUME NEW b \in Byte
             PROVE  b.bits \in 0 .. B - 1 /\ b.bits \in Nat /\ b.more \in BOOLEAN
  OBVIOUS
<1>1. b.bits \in 0 .. B - 1 /\ b.more \in BOOLEAN
  BY DEF Byte, B
<1> QED BY <1>1, BFacts

\* The numbers are those below the power of their width.
LEMMA NumberFacts ==
  /\ Number \subseteq Nat
  /\ 0 \in Number
  /\ \A v \in Number : \A w \in Nat : w <= v => w \in Number
  /\ \A v \in Nat : v < TwoTo[Width] <=> v \in Number
  /\ TwoTo[Width] \in Nat \ {0}
  BY PowerFacts, VlqAssumption DEF Number

\* vlq_encode goes on with a smaller number and writes a byte.
LEMMA RestFacts ==
  ASSUME NEW v \in Number
  PROVE  /\ v \div B \in Number
         /\ v # 0 => v \div B < v
         /\ v = (v % B) + B * (v \div B)
         /\ LowByte(v) \in Byte
<1>1. v \in Nat
  BY NumberFacts
<1>2. /\ v % B \in 0 .. B - 1
      /\ v \div B \in Nat
      /\ v = (v % B) + B * (v \div B)
      /\ v # 0 => v \div B < v
  BY <1>1, BFacts, Divide
<1>3. v \div B \in Number
  <2>1. CASE v = 0
    BY <1>1, <1>2, <2>1, BFacts, NumberFacts
  <2>2. CASE v # 0
    BY <1>1, <1>2, <2>2, NumberFacts
  <2> QED BY <2>1, <2>2
<1>4. LowByte(v) \in Byte
  BY <1>2 DEF LowByte, Byte, B
<1> QED BY <1>2, <1>3, <1>4

\* vlq_encode: its first byte, then what the rest gives.
LEMMA EncodeDef ==
  \A v \in Number :
    Encode[v] = <<LowByte(v)>> \o (IF v \div B = 0 THEN <<>> ELSE Encode[v \div B])
<1> DEFINE size == [v \in Number |-> v]
           Body(g, v) == <<LowByte(v)>> \o (IF v \div B = 0 THEN <<>> ELSE g[v \div B])
           step == [v \in Number |-> [g \in [Number -> Seq(Byte)] |-> Body(g, v)]]
           Is(g) == g = [v \in Number |-> Body(g, v)]
<1>1. size \in [Number -> Nat]
  BY NumberFacts
<1>2. step \in [Number -> [[Number -> Seq(Byte)] -> Seq(Byte)]]
  <2> SUFFICES ASSUME NEW v \in Number, NEW g \in [Number -> Seq(Byte)]
               PROVE  Body(g, v) \in Seq(Byte)
    OBVIOUS
  <2>1. LowByte(v) \in Byte /\ g[v \div B] \in Seq(Byte)
    BY RestFacts
  <2>2. (IF v \div B = 0 THEN <<>> ELSE g[v \div B]) \in Seq(Byte)
    BY <2>1
  <2> QED BY <2>1, <2>2
<1>3. \A v \in Number : \A g, h \in [Number -> Seq(Byte)] :
        (\A w \in Number : size[w] < size[v] => g[w] = h[w]) => step[v][g] = step[v][h]
  <2> SUFFICES ASSUME NEW v \in Number, NEW g \in [Number -> Seq(Byte)],
                      NEW h \in [Number -> Seq(Byte)],
                      \A w \in Number : size[w] < size[v] => g[w] = h[w]
               PROVE  Body(g, v) = Body(h, v)
    OBVIOUS
  <2>1. CASE v \div B = 0
    BY <2>1
  <2>2. CASE v \div B # 0
    <3>1. v # 0
      BY <2>2, BFacts, NumberFacts
    <3>2. g[v \div B] = h[v \div B]
      BY <3>1, RestFacts
    <3> QED BY <3>2
  <2> QED BY <2>1, <2>2
<1>4. Recursive(Number, Seq(Byte), size, step)
  <2>1. Seq(Byte) # {}
    <3>1. <<>> \in Seq(Byte)
      OBVIOUS
    <3> QED BY <3>1
  <2> HIDE DEF size, step
  <2> QED BY <1>1, <1>2, <1>3, <2>1 DEF Recursive
<1>5. \E f \in [Number -> Seq(Byte)] : \A v \in Number : f[v] = step[v][f]
  <2> HIDE DEF size, step
  <2> QED BY <1>4, Recursion
<1>6. \E f : Is(f)
  <2>1. PICK f \in [Number -> Seq(Byte)] : \A v \in Number : f[v] = step[v][f]
    BY <1>5
  <2>2. \A v \in Number : f[v] = Body(f, v)
    <3> HIDE DEF Body
    <3> QED BY <2>1
  <2> HIDE DEF Body
  <2> QED BY <2>2
<1>7. Encode = CHOOSE f : Is(f)
  BY DEF Encode, LowByte, B
<1>8. Is(Encode)
  <2> HIDE DEF Is
  <2> QED BY <1>6, <1>7
<1> QED BY <1>8

\* The bits of the first byte are the lowest, those of the others follow.
LEMMA BitsDef ==
  \A s \in Seq(Byte) :
    Bits[s] = IF s = <<>> THEN 0 ELSE Head(s).bits + B * Bits[Tail(s)]
<1> DEFINE size == [s \in Seq(Byte) |-> Len(s)]
           Body(g, s) == IF s = <<>> THEN 0 ELSE Head(s).bits + B * g[Tail(s)]
           step == [s \in Seq(Byte) |-> [g \in [Seq(Byte) -> Nat] |-> Body(g, s)]]
           Is(g) == g = [s \in Seq(Byte) |-> Body(g, s)]
<1>1. size \in [Seq(Byte) -> Nat]
  OBVIOUS
<1>2. step \in [Seq(Byte) -> [[Seq(Byte) -> Nat] -> Nat]]
  <2> SUFFICES ASSUME NEW s \in Seq(Byte), NEW g \in [Seq(Byte) -> Nat]
               PROVE  Body(g, s) \in Nat
    OBVIOUS
  <2>1. CASE s = <<>>
    BY <2>1
  <2>2. CASE s # <<>>
    <3>1. Head(s) \in Byte /\ Tail(s) \in Seq(Byte)
      BY <2>2
    <3>2. Head(s).bits \in Nat /\ g[Tail(s)] \in Nat
      BY <3>1, ByteFacts
    <3>3. PICK i \in Nat, j \in Nat, k \in Nat :
            i = Head(s).bits /\ j = B /\ k = g[Tail(s)]
      BY <3>2, BFacts
    <3>4. PICK m \in Nat : m = j * k
      BY NatProduct, Zenon
    <3>5. i + m \in Nat
      OBVIOUS
    <3>6. i + j * k \in Nat
      BY <3>4, <3>5, Zenon
    <3>7. Head(s).bits + B * g[Tail(s)] \in Nat
      BY <3>3, <3>6
    <3> QED BY <2>2, <3>7
  <2> QED BY <2>1, <2>2
<1>3. \A s \in Seq(Byte) : \A g, h \in [Seq(Byte) -> Nat] :
        (\A t \in Seq(Byte) : size[t] < size[s] => g[t] = h[t]) => step[s][g] = step[s][h]
  <2> SUFFICES ASSUME NEW s \in Seq(Byte), NEW g \in [Seq(Byte) -> Nat],
                      NEW h \in [Seq(Byte) -> Nat],
                      \A t \in Seq(Byte) : size[t] < size[s] => g[t] = h[t]
               PROVE  Body(g, s) = Body(h, s)
    OBVIOUS
  <2>1. CASE s = <<>>
    BY <2>1
  <2>2. CASE s # <<>>
    <3>1. Tail(s) \in Seq(Byte) /\ Len(Tail(s)) < Len(s)
      BY <2>2
    <3>2. g[Tail(s)] = h[Tail(s)]
      BY <3>1
    <3> QED BY <3>2
  <2> QED BY <2>1, <2>2
<1>4. Recursive(Seq(Byte), Nat, size, step)
  <2>1. Nat # {}
    OBVIOUS
  <2> HIDE DEF size, step
  <2> QED BY <1>1, <1>2, <1>3, <2>1 DEF Recursive
<1>5. \E f \in [Seq(Byte) -> Nat] : \A s \in Seq(Byte) : f[s] = step[s][f]
  <2> HIDE DEF size, step
  <2> QED BY <1>4, Recursion
<1>6. \E f : Is(f)
  <2>1. PICK f \in [Seq(Byte) -> Nat] : \A s \in Seq(Byte) : f[s] = step[s][f]
    BY <1>5
  <2>2. \A s \in Seq(Byte) : f[s] = Body(f, s)
    <3> HIDE DEF Body
    <3> QED BY <2>1
  <2> HIDE DEF Body
  <2> QED BY <2>2
<1>7. Bits = CHOOSE f : Is(f)
  BY DEF Bits, B
<1>8. Is(Bits)
  <2> HIDE DEF Is
  <2> QED BY <1>6, <1>7
<1> QED BY <1>8

\* A byte before others.
LEMMA Prepend ==
  ASSUME NEW b \in Byte, NEW s \in Seq(Byte)
  PROVE  /\ <<b>> \o s \in Seq(Byte)
         /\ Len(<<b>> \o s) = Len(s) + 1
         /\ (<<b>> \o s)[1] = b
         /\ \A i \in 1 .. Len(s) : (<<b>> \o s)[i + 1] = s[i]
         /\ Head(<<b>> \o s) = b
         /\ Tail(<<b>> \o s) = s
         /\ <<b>> \o s # <<>>
<1> DEFINE t == <<b>> \o s
<1>1. t \in Seq(Byte) /\ Len(t) = Len(s) + 1 /\ t[1] = b
  OBVIOUS
<1>2. \A i \in 1 .. Len(s) : t[i + 1] = s[i]
  OBVIOUS
<1> HIDE DEF t
<1>3. t # <<>> /\ Head(t) = b
  BY <1>1
<1>4. Tail(t) = s
  <2>1. Tail(t) \in Seq(Byte) /\ Len(Tail(t)) = Len(s) /\ \A i \in 1 .. Len(s) : Tail(t)[i] = t[i + 1]
    BY <1>1, <1>3
  <2> QED BY <1>2, <2>1, SeqEqual
<1> QED BY <1>1, <1>2, <1>3, <1>4 DEF t

\* A number on the wire: bytes of which only the last one lacks the bit.
Complete(s) ==
  /\ s \in Seq(Byte) /\ Len(s) > 0
  /\ \A i \in 1 .. Len(s) - 1 : s[i].more
  /\ ~ s[Len(s)].more

\* What vlq_encode writes, by induction on the number: it is complete, its bits
\* are the number, and it has no byte that the bits of the number do not need.
LEMMA EncodeFacts ==
  \A v \in Number :
     /\ Complete(Encode[v])
     /\ Bits[Encode[v]] = v
     /\ \A k \in Nat \ {0} : v < TwoTo[k] => Group * (Len(Encode[v]) - 1) < k
<1> DEFINE Short(v) == \A k \in Nat \ {0} : v < TwoTo[k] => Group * (Len(Encode[v]) - 1) < k
           Good == {v \in Number : Complete(Encode[v]) /\ Bits[Encode[v]] = v /\ Short(v)}
           id == [v \in Number |-> v]
<1>1. ASSUME NEW v \in Number, \A w \in Number : id[w] < id[v] => w \in Good
      PROVE  v \in Good
  <2> DEFINE q == v \div B
  <2>1. /\ q \in Number /\ q \in Nat /\ v \in Nat
        /\ v = (v % B) + B * q
        /\ LowByte(v) \in Byte
        /\ v % B \in Nat
    BY RestFacts, NumberFacts, BFacts, Divide
  <2>2. LowByte(v).bits = v % B /\ LowByte(v).more = (q # 0)
    BY DEF LowByte
  <2>3. CASE q = 0
    <3>1. Encode[v] = <<LowByte(v)>>
      <4>1. Encode[v] = <<LowByte(v)>> \o <<>>
        BY <2>3, EncodeDef
      <4>2. ASSUME NEW b \in Byte PROVE <<b>> \o <<>> = <<b>>
        OBVIOUS
      <4> QED BY <2>1, <4>1, <4>2
    <3>2. Complete(Encode[v])
      <4>1. ASSUME NEW b \in Byte, ~ b.more PROVE Complete(<<b>>)
        <5>1. <<b>> \in Seq(Byte) /\ Len(<<b>>) = 1 /\ <<b>>[1] = b
          OBVIOUS
        <5> QED BY <4>1, <5>1 DEF Complete
      <4>2. ~ LowByte(v).more
        BY <2>2, <2>3
      <4> QED BY <2>1, <3>1, <4>1, <4>2
    <3>3. Bits[Encode[v]] = v
      <4>1. Bits[<<>>] = 0
        <5>1. <<>> \in Seq(Byte)
          OBVIOUS
        <5> QED BY <5>1, BitsDef
      <4>2. Encode[v] \in Seq(Byte) /\ Encode[v] # <<>> /\ Head(Encode[v]) = LowByte(v) /\ Tail(Encode[v]) = <<>>
        BY <2>1, <3>1
      <4>3. Bits[Encode[v]] = LowByte(v).bits + B * 0
        BY <4>1, <4>2, BitsDef
      <4> QED BY <2>1, <2>2, <2>3, <4>3, BFacts
    <3>4. Short(v)
      <4>1. Len(Encode[v]) = 1
        BY <3>1
      <4> QED BY <4>1, VlqAssumption
    <3> QED BY <3>2, <3>3, <3>4
  <2>4. CASE q # 0
    <3>1. q \in Good
      <4>1. v # 0
        BY <2>1, <2>4, BFacts
      <4>2. q < v
        BY <4>1, RestFacts
      <4> QED BY <1>1, <2>1, <4>2
    <3> DEFINE rest == Encode[q]
    <3>2. Complete(rest) /\ Bits[rest] = q /\ Short(q) /\ rest \in Seq(Byte)
      BY <3>1 DEF Complete
    <3>3. Encode[v] = <<LowByte(v)>> \o rest
      BY <2>4, EncodeDef
    <3> HIDE DEF rest
    <3>4. Complete(Encode[v])
      <4> DEFINE e == <<LowByte(v)>> \o rest
      <4>1. /\ e \in Seq(Byte) /\ Len(e) = Len(rest) + 1 /\ e[1] = LowByte(v)
            /\ \A i \in 1 .. Len(rest) : e[i + 1] = rest[i]
        BY <2>1, <3>2, Prepend
      <4> HIDE DEF e
      <4>2. Len(rest) \in Nat /\ Len(rest) > 0 /\ ~ rest[Len(rest)].more
            /\ \A i \in 1 .. Len(rest) - 1 : rest[i].more
        BY <3>2 DEF Complete
      <4>3. ~ e[Len(e)].more
        BY <4>1, <4>2
      <4>4. ASSUME NEW i \in 1 .. Len(e) - 1 PROVE e[i].more
        <5>1. CASE i = 1
          BY <2>2, <2>4, <4>1, <5>1
        <5>2. CASE i # 1
          <6>1. i - 1 \in 1 .. Len(rest) - 1 /\ (i - 1) + 1 = i /\ i - 1 \in 1 .. Len(rest)
            BY <4>1, <4>2, <5>2
          <6> QED BY <4>1, <4>2, <6>1
        <5> QED BY <5>1, <5>2
      <4>5. Complete(e)
        BY <4>1, <4>2, <4>3, <4>4 DEF Complete
      <4> QED BY <3>3, <4>5 DEF e
    <3>5. Bits[Encode[v]] = v
      <4>1. Encode[v] \in Seq(Byte) /\ Encode[v] # <<>> /\ Head(Encode[v]) = LowByte(v) /\ Tail(Encode[v]) = rest
        BY <2>1, <3>2, <3>3, Prepend
      <4>2. Bits[Encode[v]] = LowByte(v).bits + B * q
        BY <3>2, <4>1, BitsDef
      <4> QED BY <2>1, <2>2, <4>2
    <3>6. Short(v)
      <4> SUFFICES ASSUME NEW k \in Nat \ {0}, v < TwoTo[k]
                   PROVE  Group * (Len(Encode[v]) - 1) < k
        OBVIOUS
      <4>1. Group \in Nat /\ k \in Nat /\ TwoTo[k] \in Nat
        BY VlqAssumption, PowerFacts
      <4>2. B * q >= B /\ v >= B
        BY <2>1, <2>4, BFacts
      <4>3. TwoTo[Group] < TwoTo[k]
        <5>1. B < TwoTo[k]
          BY <2>1, <4>1, <4>2, BFacts
        <5> QED BY <5>1 DEF B
      <4>4. k - Group \in Nat \ {0} /\ k = Group + (k - Group)
        BY <4>1, <4>3, PowerOrder
      <4>5. TwoTo[k] = B * TwoTo[k - Group] /\ TwoTo[k - Group] \in Nat
        <5>1. TwoTo[Group + (k - Group)] = TwoTo[Group] * TwoTo[k - Group]
          BY <4>1, <4>4, PowerSum
        <5>2. TwoTo[k] = TwoTo[Group] * TwoTo[k - Group]
          BY <4>4, <5>1
        <5> QED BY <4>4, <5>2, PowerFacts DEF B
      <4>6. q < TwoTo[k - Group]
        BY <2>1, <4>5, BFacts
      <4>7. Group * (Len(rest) - 1) < k - Group
        BY <3>2, <4>4, <4>6 DEF rest
      <4>8. Len(Encode[v]) = Len(rest) + 1 /\ Len(rest) \in Nat
        BY <2>1, <3>2, <3>3, Prepend
      <4> QED BY <4>1, <4>7, <4>8
    <3> QED BY <3>4, <3>5, <3>6
  <2> QED BY <2>3, <2>4
<1>2. id \in [Number -> Nat]
  BY NumberFacts
<1>3. Number \subseteq Good
  <2> HIDE DEF Good, id
  <2> QED BY <1>1, <1>2, Induction
<1> QED BY <1>3

\* MAX_VLQ_LEN is the last length whose last byte is shifted by less than the
\* width, also when the group width does not divide that of a number.
LEMMA MaxLenFacts ==
  /\ MaxLen \in Nat
  /\ \A n \in Nat \ {0} : Group * (n - 1) < Width <=> n <= MaxLen
<1> DEFINE W == Width + Group - 1
<1>1. Group \in Nat /\ Group >= 1 /\ Width \in Nat /\ W \in Nat
  BY VlqAssumption
<1>2. MaxLen \in Nat /\ W = (W % Group) + Group * MaxLen /\ W % Group \in 0 .. Group - 1
  BY <1>1 DEF MaxLen
<1> SUFFICES ASSUME NEW n \in Nat \ {0}
             PROVE  Group * (n - 1) < Width <=> n <= MaxLen
  BY <1>2
<1>3. Group * (n - 1) = Group * n - Group
  BY <1>1
<1>4. ASSUME n <= MaxLen PROVE Group * (n - 1) < Width
  <2>1. Group * n <= Group * MaxLen
    BY <1>1, <1>2, <1>4
  <2> QED BY <1>1, <1>2, <1>3, <2>1
<1>5. ASSUME Group * (n - 1) < Width PROVE n <= MaxLen
  <2>1. SUFFICES ASSUME n >= MaxLen + 1 PROVE FALSE
    BY <1>2
  <2>2. Group * n >= Group * (MaxLen + 1) /\ Group * (MaxLen + 1) = Group * MaxLen + Group
    BY <1>1, <1>2, <2>1
  <2> QED BY <1>1, <1>2, <1>3, <1>5, <2>2
<1> QED BY <1>4, <1>5

\* The bits of bytes are a number, by induction on their length.
LEMMA BitsTyped == \A s \in Seq(Byte) : Bits[s] \in Nat
<1> DEFINE Good == {s \in Seq(Byte) : Bits[s] \in Nat}
           size == [s \in Seq(Byte) |-> Len(s)]
<1>1. ASSUME NEW s \in Seq(Byte), \A t \in Seq(Byte) : size[t] < size[s] => t \in Good
      PROVE  s \in Good
  <2>1. CASE s = <<>>
    <3>1. Bits[s] = 0
      BY <2>1, BitsDef
    <3> QED BY <3>1
  <2>2. CASE s # <<>>
    <3>1. Head(s) \in Byte /\ Tail(s) \in Seq(Byte) /\ Len(Tail(s)) < Len(s)
      BY <2>2
    <3>2. Head(s).bits \in Nat /\ Bits[Tail(s)] \in Nat
      BY <1>1, <3>1, ByteFacts
    <3> QED BY <2>2, <3>2, BitsDef, BFacts
  <2> QED BY <2>1, <2>2
<1>2. size \in [Seq(Byte) -> Nat]
  OBVIOUS
<1>3. Seq(Byte) \subseteq Good
  <2> HIDE DEF Good, size
  <2> QED BY <1>1, <1>2, Induction, ZenonT(40)
<1> QED BY <1>3

\* What the decoders return has the width of a number.
LEMMA ValueTyped == \A s \in Seq(Byte) : Value(s) \in Number
<1> SUFFICES ASSUME NEW s \in Seq(Byte) PROVE Value(s) \in Number
  OBVIOUS
<1>1. ASSUME NEW m \in Nat \ {0}, NEW n \in Nat PROVE n % m \in 0 .. m - 1
  OBVIOUS
<1> QED BY <1>1, BitsTyped, PowerFacts, VlqAssumption DEF Value, Number

\* The decoders return a number exactly for bytes that end without the bit and
\* are no more than MAX_VLQ_LEN.
LEMMA DecodesFacts ==
  ASSUME NEW s \in Seq(Byte)
  PROVE  Decodes(s) <=> Len(s) > 0 /\ ~ s[Len(s)].more /\ Len(s) <= MaxLen
<1>1. Len(s) \in Nat /\ (s # <<>> <=> Len(s) > 0)
  OBVIOUS
<1> QED BY <1>1, MaxLenFacts DEF Decodes, Last

\* vlq_decode(vlq_encode(v)) = v, and the encoding fits in MAX_VLQ_LEN bytes,
\* for every width, every group of bits and every number.
THEOREM EncodingDecodes ==
  \A value \in Number :
     /\ Encode[value] \in Seq(Byte) /\ Len(Encode[value]) <= MaxLen
     /\ Decodes(Encode[value]) /\ Value(Encode[value]) = value
<1> SUFFICES ASSUME NEW value \in Number
             PROVE  /\ Encode[value] \in Seq(Byte) /\ Len(Encode[value]) <= MaxLen
                    /\ Decodes(Encode[value]) /\ Value(Encode[value]) = value
  OBVIOUS
<1>1. PICK e : e = Encode[value]
  OBVIOUS
<1>2. Complete(e) /\ Bits[e] = value
  BY <1>1, EncodeFacts
<1>3. e \in Seq(Byte) /\ Len(e) > 0 /\ ~ e[Len(e)].more
  BY <1>2 DEF Complete
<1>4. /\ value \in Nat /\ value < TwoTo[Width] /\ Width \in Nat \ {0}
      /\ TwoTo[Width] \in Nat
  BY PowerFacts, VlqAssumption DEF Number
<1>5. Group * (Len(e) - 1) < Width
  BY <1>1, <1>4, EncodeFacts
<1>6. Len(e) <= MaxLen
  BY <1>3, <1>5, MaxLenFacts
<1>7. Decodes(e)
  BY <1>3, <1>6, DecodesFacts
<1>8. Value(e) = value
  <2>1. value % TwoTo[Width] = value
    BY <1>4
  <2> QED BY <1>2, <2>1 DEF Value
<1> QED BY <1>1, <1>3, <1>6, <1>7, <1>8

-----------------------------------------------------------------------------
(* Parts of a stream *)

\* The bytes of s after the first a, up to the b-th.
Between(s, a, b) == SubSeq(s, a + 1, b)

\* The sequence t consists of these bytes.
SliceOf(t, s, a, b) ==
  t \in Seq(Byte) /\ Len(t) = b - a /\ \A i \in 1 .. b - a : t[i] = s[a + i]

\* And Between does.
LEMMA Slice ==
  ASSUME NEW s \in Seq(Byte), NEW a \in Nat, NEW b \in Nat, a <= b, b <= Len(s)
  PROVE  SliceOf(Between(s, a, b), s, a, b)
  BY DEF SliceOf, Between

\* One byte more.
LEMMA BetweenOn ==
  ASSUME NEW s \in Seq(Byte), NEW a \in Nat, NEW p \in Nat, a <= p, p < Len(s)
  PROVE  Append(Between(s, a, p), s[p + 1]) = Between(s, a, p + 1)
<1> DEFINE t == Between(s, a, p)
           u == Between(s, a, p + 1)
<1>1. u \in Seq(Byte) /\ Len(u) = p + 1 - a /\ \A i \in 1 .. p + 1 - a : u[i] = s[a + i]
  BY DEF Between
<1>2. t \in Seq(Byte) /\ Len(t) = p - a /\ (\A i \in 1 .. p - a : t[i] = s[a + i])
  BY DEF Between
<1>3. s[p + 1] \in Byte
  OBVIOUS
<1> HIDE DEF t, u
<1>4. /\ Append(t, s[p + 1]) \in Seq(Byte) /\ Len(Append(t, s[p + 1])) = Len(t) + 1
      /\ \A i \in 1 .. Len(t) : Append(t, s[p + 1])[i] = t[i]
      /\ Append(t, s[p + 1])[Len(t) + 1] = s[p + 1]
  BY <1>2, <1>3
<1>5. \A i \in 1 .. Len(u) : Append(t, s[p + 1])[i] = u[i]
  <2> SUFFICES ASSUME NEW i \in 1 .. Len(u) PROVE Append(t, s[p + 1])[i] = u[i]
    OBVIOUS
  <2>1. CASE i \in 1 .. Len(t)
    BY <1>1, <1>2, <1>4, <2>1
  <2>2. CASE i = Len(t) + 1
    <3>1. i = p + 1 - a /\ a + i = p + 1 /\ i \in 1 .. p + 1 - a
      BY <1>2, <2>2
    <3> QED BY <1>1, <1>4, <2>2, <3>1
  <2> QED BY <1>1, <1>2, <2>1, <2>2
<1>6. Append(t, s[p + 1]) = u
  BY <1>1, <1>2, <1>4, <1>5, SeqEqual
<1> QED BY <1>6 DEF t, u

-----------------------------------------------------------------------------
(* Types *)

\* The initial state has its type.
LEMMA InitTyped == Init => TypeOK
<1> SUFFICES ASSUME Init PROVE TypeOK
  OBVIOUS
<1>1. stream \in Seq(Byte)
  <2>1. PICK n \in 0 .. MaxStream : stream \in [1 .. n -> Byte]
    BY DEF Init, BoundedSeq, SeqOf
  <2>2. n \in Nat
    BY VlqAssumption
  <2> QED BY <2>1, <2>2
<1>2. <<>> \in Seq(Byte) /\ <<>> \in Seq(Number)
  OBVIOUS
<1>3. 0 \in 0 .. Len(stream)
  BY <1>1
<1> QED BY <1>1, <1>2, <1>3 DEF Init, TypeOK

\* Every step keeps the type.
LEMMA StepTyped == TypeOK /\ [Next]_vars => TypeOK'
<1> SUFFICES ASSUME TypeOK, [Next]_vars PROVE TypeOK'
  OBVIOUS
<1> DEFINE States == {"reading", "refused", "untouched"}
<1>1. /\ stream \in Seq(Byte) /\ Len(stream) \in Nat
      /\ buf \in [Reader -> Seq(Byte)] /\ taken \in [Reader -> Seq(Number)]
      /\ pos \in [Reader -> 0 .. Len(stream)] /\ state \in [Reader -> States]
      /\ "rust" \in Reader /\ "c" \in Reader
  BY DEF TypeOK, Reader
<1>2. <<>> \in Seq(Byte)
  OBVIOUS
<1>3. ASSUME NEW r \in Reader, NEW bytes \in Seq(Byte), Finish(r, bytes)
      PROVE  /\ buf' \in [Reader -> Seq(Byte)] /\ taken' \in [Reader -> Seq(Number)]
             /\ state' \in [Reader -> States]
  <2>1. CASE Decodes(bytes)
    <3>1. Append(taken[r], Value(bytes)) \in Seq(Number)
      BY <1>1, ValueTyped
    <3> QED BY <1>1, <1>2, <1>3, <2>1, <3>1 DEF Finish
  <2>2. CASE ~ Decodes(bytes)
    BY <1>1, <1>3, <2>2 DEF Finish
  <2> QED BY <2>1, <2>2
<1>4. ASSUME NEW r \in Reader, ~ AtEnd(r)
      PROVE  /\ pos[r] + 1 \in 0 .. Len(stream) /\ NextByte(r) \in Byte
             /\ Append(buf[r], NextByte(r)) \in Seq(Byte)
             /\ [pos EXCEPT ![r] = @ + 1] \in [Reader -> 0 .. Len(stream)]
  <2>1. pos[r] \in 0 .. Len(stream) /\ pos[r] # Len(stream)
    BY <1>1, <1>4 DEF AtEnd
  <2>2. pos[r] + 1 \in 1 .. Len(stream)
    BY <1>1, <2>1
  <2>3. stream[pos[r] + 1] \in Byte
    BY <1>1, <2>2
  <2> QED BY <1>1, <2>2, <2>3 DEF NextByte
<1>5. ASSUME NEW r \in Reader, ~ AtEnd(r), Keep(r)
      PROVE  TypeOK'
  <2>1. /\ stream' = stream /\ pos' = [pos EXCEPT ![r] = @ + 1]
        /\ \/ /\ buf' = [buf EXCEPT ![r] = Append(buf[r], NextByte(r))]
              /\ UNCHANGED <<taken, state>>
           \/ Finish(r, Append(buf[r], NextByte(r)))
    BY <1>5 DEF Keep
  <2>2. /\ buf' \in [Reader -> Seq(Byte)] /\ taken' \in [Reader -> Seq(Number)]
        /\ state' \in [Reader -> States]
    <3> DEFINE bytes == Append(buf[r], NextByte(r))
    <3>1. bytes \in Seq(Byte)
      BY <1>4, <1>5
    <3> HIDE DEF bytes
    <3>2. CASE buf' = [buf EXCEPT ![r] = bytes] /\ UNCHANGED <<taken, state>>
      BY <1>1, <3>1, <3>2
    <3>3. CASE Finish(r, bytes)
      BY <1>3, <3>1, <3>3
    <3> QED BY <2>1, <3>2, <3>3 DEF bytes
  <2> QED BY <1>1, <1>4, <1>5, <2>1, <2>2 DEF TypeOK
<1>6. CASE RustByte
  BY <1>1, <1>5, <1>6 DEF RustByte
<1>7. CASE RustEnd
  <2>1. Finish("rust", buf["rust"]) /\ UNCHANGED <<stream, pos>> /\ buf["rust"] \in Seq(Byte)
    BY <1>1, <1>7 DEF RustEnd
  <2> QED BY <1>1, <1>3, <2>1 DEF TypeOK
<1>8. CASE CByte
  <2>1. ~ AtEnd("c")
    BY <1>8 DEF CByte
  <2>2. CASE Keep("c")
    BY <1>1, <1>5, <2>1, <2>2
  <2>3. CASE /\ pos' = [pos EXCEPT !["c"] = @ + 1]
             /\ state' = [state EXCEPT !["c"] = "refused"]
             /\ UNCHANGED <<stream, buf, taken>>
    BY <1>1, <1>4, <2>1, <2>3 DEF TypeOK
  <2> QED BY <1>8, <2>2, <2>3 DEF CByte
<1>9. CASE CEnd
  BY <1>1, <1>9 DEF CEnd, TypeOK
<1>10. CASE UNCHANGED vars
  BY <1>10 DEF vars, TypeOK
<1> QED BY <1>6, <1>7, <1>8, <1>9, <1>10 DEF Next, Stopped

-----------------------------------------------------------------------------
(* The invariant *)

\* Where a number that decodes stands in the stream s: after the byte first, up
\* to the byte last.
NumberAt(s, first, last) ==
  /\ last \in first + 1 .. Len(s)
  /\ \A i \in first + 1 .. last - 1 : s[i].more
  /\ ~ s[last].more
  /\ last - first <= MaxLen

\* None stands there.
NoNumber(s, first) == \A last \in Nat : ~ NumberAt(s, first, last)

\* Two lists of cuts have the same first n.
Agree(cut2, cut, n) == \A i \in 0 .. n : cut2[i] = cut[i]

\* The numbers are those that stand between the cuts.
Returned(s, numbers, cut) ==
  \A i \in 1 .. Len(numbers) :
     /\ NumberAt(s, cut[i - 1], cut[i])
     /\ numbers[i] = Value(Between(s, cut[i - 1], cut[i]))

\* The bytes after first, up to p, have been kept, and the number goes on.
Kept(s, first, p, bytes) ==
  /\ first <= p
  /\ bytes = Between(s, first, p)
  /\ \A i \in first + 1 .. p : s[i].more

\* The Rust reader has stopped for a byte that ends a number, or at the end.
StoppedAt(s, first, p) == p = Len(s) \/ (first < p /\ ~ s[p].more)

\* What the state holds for one reader.
Part(r) == [pos |-> pos[r], buf |-> buf[r], taken |-> taken[r], state |-> state[r]]

\* The values of that.
Parts ==
  [pos : Nat, buf : Seq(Byte), taken : Seq(Number),
   state : {"reading", "refused", "untouched"}]

\* The reader r, in state x, follows the cuts: it has returned the numbers
\* between them; while it reads it keeps the bytes after the last cut it has
\* reached; it stops only where no number stands.
Follows(s, r, x, cut) ==
  LET start == cut[Len(x.taken)] IN
  /\ Returned(s, x.taken, cut)
  /\ x.state = "reading" =>
        /\ Kept(s, start, x.pos, x.buf)
        /\ r = "c" => Len(x.buf) <= MaxLen
  /\ x.state # "reading" => NoNumber(s, start)
  /\ x.state = "refused" /\ r = "rust" => StoppedAt(s, start, x.pos)
  /\ x.state = "untouched" => r = "c" /\ Kept(s, start, Len(s), x.buf)

\* Where the numbers of a stream end; the first begins with it.
Cuts == {cut \in [Nat -> Nat] : cut[0] = 0}

\* All readers follow the same cuts.
Followed(s, X) == \E cut \in Cuts : \A r \in Reader : Follows(s, r, X[r], cut)

\* The state of both readers.
State == [r \in Reader |-> Part(r)]

\* The inductive invariant.  Each reader alone has its numbers between cuts of its
\* own; that the cuts are the same is what makes two readers agree, and it is
\* inductive because a stream has at most one number at a place (OneNumber).
IInv == TypeOK /\ Followed(stream, State)

-----------------------------------------------------------------------------
(* Numbers in a stream *)

\* A reader that keeps the next byte keeps the next longer stretch.
LEMMA KeepOn ==
  ASSUME NEW s \in Seq(Byte), NEW first \in Nat, NEW p \in Nat, NEW bytes,
         Kept(s, first, p, bytes), p < Len(s)
  PROVE  /\ Append(bytes, s[p + 1]) = Between(s, first, p + 1)
         /\ s[p + 1].more => Kept(s, first, p + 1, Append(bytes, s[p + 1]))
         /\ Len(bytes) = p - first /\ Len(Append(bytes, s[p + 1])) = p + 1 - first
<1>1. first <= p /\ p <= Len(s) /\ bytes = Between(s, first, p) /\ p + 1 \in Nat
  BY DEF Kept
<1>2. SliceOf(bytes, s, first, p)
  BY <1>1, Slice
<1>3. Append(bytes, s[p + 1]) = Between(s, first, p + 1)
  BY <1>1, BetweenOn
<1>4. Append(bytes, s[p + 1]) = Between(s, first, p + 1) /\ Len(bytes) = p - first
  BY <1>2, <1>3 DEF SliceOf
<1>5. Len(Between(s, first, p + 1)) = p + 1 - first
  <2>1. first <= p + 1 /\ p + 1 <= Len(s)
    BY <1>1
  <2>2. SliceOf(Between(s, first, p + 1), s, first, p + 1)
    BY <1>1, <2>1, Slice
  <2> QED BY <2>2 DEF SliceOf
<1>6. ASSUME s[p + 1].more PROVE \A i \in first + 1 .. p + 1 : s[i].more
  <2> SUFFICES ASSUME NEW i \in first + 1 .. p + 1 PROVE s[i].more
    OBVIOUS
  <2>1. i = p + 1 \/ i \in first + 1 .. p
    OBVIOUS
  <2> QED BY <1>6, <2>1 DEF Kept
<1> QED BY <1>1, <1>4, <1>5, <1>6 DEF Kept

\* With the bit, the number goes on.
LEMMA KeepMore ==
  ASSUME NEW s \in Seq(Byte), NEW first \in Nat, NEW p \in Nat, NEW bytes,
         Kept(s, first, p, bytes), p < Len(s), s[p + 1].more,
         NEW bytes2, bytes2 = Append(bytes, s[p + 1])
  PROVE  Kept(s, first, p + 1, bytes2)
  BY KeepOn

\* With or without it, the bytes are those of the stream.
LEMMA KeepSlice ==
  ASSUME NEW s \in Seq(Byte), NEW first \in Nat, NEW p \in Nat, NEW bytes,
         Kept(s, first, p, bytes), p < Len(s),
         NEW bytes2, bytes2 = Append(bytes, s[p + 1])
  PROVE  bytes2 = Between(s, first, p + 1)
  BY KeepOn

\* A byte without the bit ends a number, unless the bytes are too many: then no
\* number stands there.
LEMMA LastByte ==
  ASSUME NEW s \in Seq(Byte), NEW first \in Nat, NEW p \in Nat, NEW bytes,
         Kept(s, first, p, bytes), p < Len(s), ~ s[p + 1].more
  PROVE  /\ Decodes(Append(bytes, s[p + 1])) => NumberAt(s, first, p + 1)
         /\ ~ Decodes(Append(bytes, s[p + 1])) => NoNumber(s, first)
<1> DEFINE t == Between(s, first, p + 1)
<1>1. /\ first <= p /\ p + 1 \in Nat /\ first <= p + 1 /\ p + 1 <= Len(s) /\ Len(s) \in Nat
      /\ \A i \in first + 1 .. p : s[i].more
  BY DEF Kept
<1>2. /\ Append(bytes, s[p + 1]) = t /\ t \in Seq(Byte) /\ Len(t) = p + 1 - first
      /\ \A i \in 1 .. p + 1 - first : t[i] = s[first + i]
  <2>1. Append(bytes, s[p + 1]) = t
    BY KeepOn
  <2>2. /\ t \in Seq(Byte) /\ Len(t) = p + 1 - first
        /\ \A i \in 1 .. p + 1 - first : t[i] = s[first + i]
    <3>1. SliceOf(t, s, first, p + 1)
      BY <1>1, Slice
    <3> QED BY <3>1 DEF SliceOf
  <2> QED BY <2>1, <2>2
<1>3. t[Len(t)] = s[p + 1]
  <2>1. p + 1 - first \in 1 .. p + 1 - first /\ first + (p + 1 - first) = p + 1
    BY <1>1
  <2> QED BY <1>2, <2>1
<1> HIDE DEF t
<1>4. Decodes(t) <=> p + 1 - first <= MaxLen
  BY <1>1, <1>2, <1>3, DecodesFacts, MaxLenFacts
<1>5. ASSUME Decodes(t) PROVE NumberAt(s, first, p + 1)
  BY <1>1, <1>4, <1>5 DEF NumberAt
<1>6. ASSUME ~ Decodes(t), NEW last \in Nat, NumberAt(s, first, last) PROVE FALSE
  <2>1. last >= first + 1 /\ last - first <= MaxLen /\ ~ s[last].more
    BY <1>6 DEF NumberAt
  <2>2. last <= p
    BY <1>1, <1>4, <1>6, <2>1, MaxLenFacts
  <2> QED BY <1>1, <2>1, <2>2
<1> QED BY <1>2, <1>5, <1>6 DEF NoNumber

\* Nor does one when there are MAX_VLQ_LEN bytes and another follows.
LEMMA TooLong ==
  ASSUME NEW s \in Seq(Byte), NEW first \in Nat, NEW p \in Nat, NEW bytes,
         Kept(s, first, p, bytes), p < Len(s), Len(bytes) >= MaxLen
  PROVE  NoNumber(s, first)
<1>1. p - first >= MaxLen
  BY KeepOn
<1> SUFFICES ASSUME NEW last \in Nat, NumberAt(s, first, last) PROVE FALSE
  BY DEF NoNumber
<1>2. last >= first + 1 /\ last - first <= MaxLen /\ ~ s[last].more
  BY DEF NumberAt
<1>3. last \in first + 1 .. p
  BY <1>1, <1>2, MaxLenFacts
<1> QED BY <1>2, <1>3 DEF Kept

\* Nor does one when the stream ends first; the bytes do not decode.
LEMMA AtTheEnd ==
  ASSUME NEW s \in Seq(Byte), NEW first \in Nat, NEW bytes,
         Kept(s, first, Len(s), bytes)
  PROVE  NoNumber(s, first) /\ ~ Decodes(bytes)
<1> DEFINE p == Len(s)
<1>1. /\ p \in Nat /\ first <= p /\ bytes = Between(s, first, p)
      /\ \A i \in first + 1 .. p : s[i].more
  BY DEF Kept
<1>2. NoNumber(s, first)
  BY <1>1 DEF NoNumber, NumberAt
<1>3. SliceOf(bytes, s, first, p)
  BY <1>1, Slice
<1>4. /\ bytes \in Seq(Byte) /\ Len(bytes) = p - first
      /\ \A i \in 1 .. p - first : bytes[i] = s[first + i]
  BY <1>3 DEF SliceOf
<1>5. ASSUME p - first > 0 PROVE bytes[p - first].more
  <2>1. p - first \in 1 .. p - first /\ first + (p - first) = p /\ p \in first + 1 .. p
    BY <1>1, <1>5
  <2> QED BY <1>1, <1>4, <2>1
<1> QED BY <1>2, <1>4, <1>5, DecodesFacts

\* At most one number stands at a place.
LEMMA OneNumber ==
  ASSUME NEW s \in Seq(Byte), NEW first \in Nat, NEW x \in Nat, NEW y \in Nat,
         NumberAt(s, first, x), NumberAt(s, first, y)
  PROVE  x = y
  BY DEF NumberAt

\* The numbers returned depend only on the cuts up to the last of them.
LEMMA SameCuts ==
  ASSUME NEW s, NEW t \in Seq(Number), NEW cut, NEW cut2,
         Agree(cut2, cut, Len(t)), Returned(s, t, cut)
  PROVE  Returned(s, t, cut2)
<1>1. Len(t) \in Nat
  OBVIOUS
<1>2. \A i \in 1 .. Len(t) : cut2[i - 1] = cut[i - 1] /\ cut2[i] = cut[i]
  BY <1>1 DEF Agree
<1> QED BY <1>1, <1>2 DEF Returned

\* A number that stands after the last cut, and its end as the next cut.
LEMMA OneMore ==
  ASSUME NEW s, NEW t \in Seq(Number), NEW cut, Returned(s, t, cut),
         NEW first, NEW last, cut[Len(t)] = first, cut[Len(t) + 1] = last,
         NumberAt(s, first, last), NEW v \in Number,
         v = Value(Between(s, first, last))
  PROVE  Returned(s, Append(t, v), cut)
<1>1. Len(t) \in Nat
  OBVIOUS
<1>2. /\ Len(Append(t, v)) = Len(t) + 1
      /\ \A i \in 1 .. Len(t) : Append(t, v)[i] = t[i]
      /\ Append(t, v)[Len(t) + 1] = v
  OBVIOUS
<1>3. ASSUME NEW i \in 1 .. Len(t) + 1
      PROVE  /\ NumberAt(s, cut[i - 1], cut[i])
             /\ Append(t, v)[i] = Value(Between(s, cut[i - 1], cut[i]))
  <2>1. CASE i \in 1 .. Len(t)
    BY <1>2, <2>1 DEF Returned
  <2>2. CASE i = Len(t) + 1
    <3>1. i - 1 = Len(t)
      BY <1>1, <2>2
    <3> QED BY <1>2, <2>2, <3>1
  <2> QED BY <1>1, <2>1, <2>2
<1> QED BY <1>2, <1>3 DEF Returned

-----------------------------------------------------------------------------
(* What a step does, for any stream and any state of its reader *)

\* The byte is kept and the number goes on.
Keeps(s, r, x, y) ==
  /\ x.pos < Len(s) /\ s[x.pos + 1].more
  /\ r = "c" => Len(x.buf) < MaxLen
  /\ y = [pos |-> x.pos + 1, buf |-> Append(x.buf, s[x.pos + 1]),
          taken |-> x.taken, state |-> x.state]

\* The byte ends a number and the call returns it.
Takes(s, r, x, y) ==
  LET bytes == Append(x.buf, s[x.pos + 1]) IN
  /\ x.pos < Len(s) /\ ~ s[x.pos + 1].more /\ Decodes(bytes)
  /\ y = [pos |-> x.pos + 1, buf |-> <<>>,
          taken |-> Append(x.taken, Value(bytes)), state |-> x.state]

\* The byte ends the bytes, which do not decode.
Refuses(s, r, x, y) ==
  /\ x.pos < Len(s) /\ ~ s[x.pos + 1].more
  /\ ~ Decodes(Append(x.buf, s[x.pos + 1]))
  /\ y = [pos |-> x.pos + 1, buf |-> x.buf, taken |-> x.taken, state |-> "refused"]

\* The C reader has no place for the byte.
Overflows(s, r, x, y) ==
  /\ r = "c" /\ x.pos < Len(s) /\ Len(x.buf) >= MaxLen
  /\ y = [pos |-> x.pos + 1, buf |-> x.buf, taken |-> x.taken, state |-> "refused"]

\* There is no byte left.
Ends(s, r, x, y) ==
  /\ x.pos = Len(s)
  /\ y = [pos |-> x.pos, buf |-> x.buf, taken |-> x.taken,
          state |-> IF r = "c" THEN "untouched" ELSE "refused"]

\* What a step does for the reader that takes it.
Moves(s, r, x, y) ==
  \/ Keeps(s, r, x, y) \/ Refuses(s, r, x, y) \/ Overflows(s, r, x, y) \/ Ends(s, r, x, y)
  \/ Takes(s, r, x, y)

\* The fields of the state of a reader.
LEMMA Fields ==
  ASSUME NEW x \in Parts
  PROVE  /\ x.pos \in Nat /\ x.buf \in Seq(Byte) /\ x.taken \in Seq(Number)
         /\ x.state \in {"reading", "refused", "untouched"}
         /\ Len(x.taken) \in Nat /\ Len(x.buf) \in Nat
  BY DEF Parts

\* Follows, for a reader that goes on,
LEMMA FollowsReading ==
  ASSUME NEW s, NEW r, NEW x, NEW cut, NEW first, NEW p, NEW bytes, NEW t,
         x.state = "reading", x.pos = p, x.buf = bytes, x.taken = t,
         cut[Len(t)] = first
  PROVE  Follows(s, r, x, cut) <=>
           /\ Returned(s, t, cut) /\ Kept(s, first, p, bytes)
           /\ r = "c" => Len(bytes) <= MaxLen
  BY DEF Follows

\* for one that has refused,
LEMMA FollowsRefused ==
  ASSUME NEW s, NEW r, NEW x, NEW cut, NEW first, NEW p, NEW t,
         x.state = "refused", x.pos = p, x.taken = t, cut[Len(t)] = first
  PROVE  Follows(s, r, x, cut) <=>
           /\ Returned(s, t, cut) /\ NoNumber(s, first)
           /\ r = "rust" => StoppedAt(s, first, p)
  BY DEF Follows

\* and for the C reader that has met the end.
LEMMA FollowsUntouched ==
  ASSUME NEW s, NEW r, NEW x, NEW cut, NEW first, NEW bytes, NEW t,
         x.state = "untouched", x.buf = bytes, x.taken = t, cut[Len(t)] = first
  PROVE  Follows(s, r, x, cut) <=>
           /\ Returned(s, t, cut) /\ NoNumber(s, first)
           /\ r = "c" /\ Kept(s, first, Len(s), bytes)
  BY DEF Follows

\* A reader that does nothing follows any list with the same cuts up to where it is.
LEMMA Frame ==
  ASSUME NEW s, NEW r, NEW x \in Parts, NEW cut, NEW cut2,
         Agree(cut2, cut, Len(x.taken)), Follows(s, r, x, cut)
  PROVE  Follows(s, r, x, cut2)
<1>1. PICK t \in Seq(Number) : t = x.taken
  BY Fields
<1>2. Returned(s, t, cut) /\ Agree(cut2, cut, Len(t))
  BY <1>1 DEF Follows
<1>3. Returned(s, t, cut2)
  BY <1>2, SameCuts
<1>4. cut2[Len(t)] = cut[Len(t)]
  BY <1>2 DEF Agree
<1> QED BY <1>1, <1>3, <1>4 DEF Follows

\* A reader that returns no number follows the same cuts as before.
LEMMA Stays ==
  ASSUME NEW s \in Seq(Byte), NEW r \in Reader, NEW x \in Parts, NEW y,
         NEW cut \in [Nat -> Nat], Follows(s, r, x, cut), x.state = "reading",
         Keeps(s, r, x, y) \/ Refuses(s, r, x, y) \/ Overflows(s, r, x, y) \/ Ends(s, r, x, y)
  PROVE  Follows(s, r, y, cut)
<1>1. PICK p \in Nat, b \in Seq(Byte), t \in Seq(Number), n \in Nat :
        p = x.pos /\ b = x.buf /\ t = x.taken /\ n = Len(t)
  BY Fields
<1>2. PICK first \in Nat : first = cut[n]
  OBVIOUS
<1>3. Returned(s, t, cut) /\ Kept(s, first, p, b) /\ (r = "c" => Len(b) <= MaxLen)
  BY <1>1, <1>2, FollowsReading
<1>4. first <= p /\ Len(s) \in Nat
  BY <1>3 DEF Kept
<1>5. CASE Keeps(s, r, x, y)
  <2>1. /\ p < Len(s) /\ s[p + 1].more /\ (r = "c" => Len(b) < MaxLen)
        /\ y = [pos |-> p + 1, buf |-> Append(b, s[p + 1]), taken |-> t, state |-> "reading"]
    BY <1>1, <1>5 DEF Keeps
  <2>2. PICK b2 : b2 = Append(b, s[p + 1])
    OBVIOUS
  <2>3. Kept(s, first, p + 1, b2)
    BY <1>3, <2>1, <2>2, KeepMore
  <2>4. Len(b) = p - first /\ Len(b2) = p + 1 - first
    BY <1>3, <2>1, <2>2, KeepOn
  <2>5. r = "c" => Len(b2) <= MaxLen
    BY <1>4, <2>1, <2>4, MaxLenFacts
  <2>6. y.pos = p + 1 /\ y.buf = b2 /\ y.taken = t /\ y.state = "reading"
    BY <2>1, <2>2
  <2> QED BY <1>1, <1>2, <1>3, <2>3, <2>5, <2>6, FollowsReading
<1>6. CASE Refuses(s, r, x, y)
  <2>1. p < Len(s) /\ ~ s[p + 1].more /\ ~ Decodes(Append(b, s[p + 1]))
    BY <1>1, <1>6 DEF Refuses
  <2>2. y.pos = p + 1 /\ y.taken = t /\ y.state = "refused"
    BY <1>1, <1>6 DEF Refuses
  <2>3. NoNumber(s, first)
    BY <1>3, <2>1, LastByte
  <2>4. StoppedAt(s, first, p + 1)
    BY <1>4, <2>1 DEF StoppedAt
  <2> QED BY <1>1, <1>2, <1>3, <2>2, <2>3, <2>4, FollowsRefused
<1>7. CASE Overflows(s, r, x, y)
  <2>1. p < Len(s) /\ r = "c" /\ Len(b) >= MaxLen
    BY <1>1, <1>7 DEF Overflows
  <2>2. y.taken = t /\ y.state = "refused"
    BY <1>1, <1>7 DEF Overflows
  <2>3. NoNumber(s, first)
    BY <1>3, <2>1, TooLong
  <2> QED BY <1>1, <1>2, <1>3, <2>1, <2>2, <2>3, FollowsRefused
<1>8. CASE Ends(s, r, x, y)
  <2>1. /\ p = Len(s) /\ y.pos = p /\ y.buf = b /\ y.taken = t
        /\ y.state = IF r = "c" THEN "untouched" ELSE "refused"
    BY <1>1, <1>8 DEF Ends
  <2>2. NoNumber(s, first) /\ StoppedAt(s, first, p)
    BY <1>3, <2>1, AtTheEnd DEF StoppedAt
  <2>3. Kept(s, first, Len(s), b)
    BY <1>3, <2>1
  <2>4. CASE r = "c"
    BY <1>1, <1>2, <1>3, <2>1, <2>2, <2>3, <2>4, FollowsUntouched
  <2>5. CASE r # "c"
    BY <1>1, <1>2, <1>3, <2>1, <2>2, <2>5, FollowsRefused
  <2> QED BY <2>4, <2>5
<1> QED BY <1>5, <1>6, <1>7, <1>8

\* After a number, nothing is kept.
LEMMA KeptNothing ==
  ASSUME NEW s \in Seq(Byte), NEW p \in Nat, p <= Len(s)
  PROVE  Kept(s, p, p, <<>>)
<1>1. Between(s, p, p) \in Seq(Byte) /\ Len(Between(s, p, p)) = p - p
  <2>1. SliceOf(Between(s, p, p), s, p, p)
    BY Slice
  <2> QED BY <2>1 DEF SliceOf
<1>2. Between(s, p, p) = <<>>
  BY <1>1
<1> QED BY <1>2 DEF Kept

\* A reader that returns one has met the end of a number, and follows every list
\* in which that is the next cut.
LEMMA Returns ==
  ASSUME NEW s \in Seq(Byte), NEW r \in Reader, NEW x \in Parts, NEW y,
         NEW cut \in [Nat -> Nat], Follows(s, r, x, cut), x.state = "reading",
         Takes(s, r, x, y)
  PROVE  /\ NumberAt(s, cut[Len(x.taken)], x.pos + 1)
         /\ \A cut2 \in [Nat -> Nat] :
              Agree(cut2, cut, Len(x.taken)) /\ cut2[Len(x.taken) + 1] = x.pos + 1
              => Follows(s, r, y, cut2)
<1>1. PICK p \in Nat, b \in Seq(Byte), t \in Seq(Number), n \in Nat :
        p = x.pos /\ b = x.buf /\ t = x.taken /\ n = Len(t)
  BY Fields
<1>2. PICK first \in Nat : first = cut[n]
  OBVIOUS
<1>3. Returned(s, t, cut) /\ Kept(s, first, p, b)
  BY <1>1, <1>2, FollowsReading
<1>4. PICK b2 : b2 = Append(b, s[p + 1])
  OBVIOUS
<1>5. PICK v : v = Value(b2)
  OBVIOUS
<1>6. /\ p < Len(s) /\ ~ s[p + 1].more /\ Decodes(b2) /\ Len(s) \in Nat
      /\ y = [pos |-> p + 1, buf |-> <<>>, taken |-> Append(t, v), state |-> "reading"]
  BY <1>1, <1>4, <1>5 DEF Takes
<1>7. NumberAt(s, first, p + 1)
  BY <1>3, <1>4, <1>6, LastByte
<1>8. b2 = Between(s, first, p + 1) /\ p + 1 \in Nat /\ p + 1 <= Len(s) /\ first <= p + 1
  <2>1. first <= p
    BY <1>3 DEF Kept
  <2>2. p < Len(s)
    BY <1>6
  <2>3. b2 = Between(s, first, p + 1)
    BY <1>3, <1>4, <2>2, KeepSlice
  <2> QED BY <1>4, <1>6, <2>1, <2>3
<1>9. v \in Number
  <2>1. SliceOf(b2, s, first, p + 1)
    BY <1>8, Slice
  <2>2. b2 \in Seq(Byte)
    BY <2>1 DEF SliceOf
  <2> QED BY <1>5, <2>2, ValueTyped
<1>10. Kept(s, p + 1, p + 1, <<>>) /\ (r = "c" => Len(<<>>) <= MaxLen)
  <2>1. Kept(s, p + 1, p + 1, <<>>)
    BY <1>8, KeptNothing
  <2>2. Len(<<>>) <= MaxLen
    BY MaxLenFacts
  <2> QED BY <2>1, <2>2
<1>11. ASSUME NEW cut2 \in [Nat -> Nat], Agree(cut2, cut, n), cut2[n + 1] = p + 1
       PROVE  Follows(s, r, y, cut2)
  <2>1. Returned(s, t, cut2)
    BY <1>1, <1>3, <1>11, SameCuts
  <2>2. cut2[n] = first
    BY <1>2, <1>11 DEF Agree
  <2>3. PICK t2 : t2 = Append(t, v)
    OBVIOUS
  <2>4. v = Value(Between(s, first, p + 1))
    BY <1>5, <1>8
  <2>5. Returned(s, t2, cut2)
    BY <1>1, <1>7, <1>9, <1>11, <2>1, <2>2, <2>3, <2>4, OneMore
  <2>6. Returned(s, t2, cut2) /\ Len(t2) = n + 1
    BY <1>1, <1>9, <2>3, <2>5
  <2>7. y.pos = p + 1 /\ y.buf = <<>> /\ y.taken = t2 /\ y.state = "reading"
    BY <1>6, <2>3
  <2>8. cut2[Len(t2)] = p + 1
    BY <1>11, <2>6
  <2> QED BY <1>10, <2>6, <2>7, <2>8, FollowsReading
<1> QED BY <1>1, <1>2, <1>7, <1>11

\* When a reader moves the readers still follow the same cuts: if another one has
\* returned the number already its end is the next cut, otherwise it becomes that.
LEMMA StillFollowed ==
  ASSUME NEW s \in Seq(Byte), NEW X \in [Reader -> Parts], NEW Y, NEW r \in Reader,
         \A q \in Reader \ {r} : Y[q] = X[q],
         X[r].state = "reading", Moves(s, r, X[r], Y[r]), Followed(s, X)
  PROVE  Followed(s, Y)
<1>1. PICK cut \in Cuts : \A q \in Reader : Follows(s, q, X[q], cut)
  BY DEF Followed
<1>2. cut \in [Nat -> Nat] /\ cut[0] = 0
  BY DEF Cuts
<1>3. PICK x \in Parts : x = X[r]
  OBVIOUS
<1>4. PICK y : y = Y[r]
  OBVIOUS
<1>5. PICK p \in Nat, n \in Nat : p = x.pos /\ n = Len(x.taken)
  BY Fields
<1>6. x = X[r] /\ y = Y[r] /\ p = x.pos /\ n = Len(x.taken)
  BY <1>3, <1>4, <1>5
<1>7. Follows(s, r, x, cut) /\ x.state = "reading"
  BY <1>1, <1>6
<1>8. CASE ~ Takes(s, r, x, y)
  <2>1. Follows(s, r, y, cut)
    BY <1>2, <1>6, <1>7, <1>8, Stays DEF Moves
  <2>2. \A q \in Reader : Follows(s, q, Y[q], cut)
    BY <1>1, <1>6, <2>1
  <2> QED BY <2>2 DEF Followed
<1>9. CASE Takes(s, r, x, y)
  <2>1. /\ NumberAt(s, cut[n], p + 1)
        /\ \A cut2 \in [Nat -> Nat] :
             Agree(cut2, cut, n) /\ cut2[n + 1] = p + 1 => Follows(s, r, y, cut2)
    BY <1>2, <1>6, <1>7, <1>9, Returns
  <2>2. CASE \E q \in Reader : Len(X[q].taken) > n
    <3>1. PICK q \in Reader, m \in Nat, t \in Seq(Number) :
            m > n /\ t = X[q].taken /\ m = Len(t)
      BY <2>2, Fields
    <3>2. Returned(s, t, cut)
      BY <1>1, <3>1 DEF Follows
    <3>3. NumberAt(s, cut[n], cut[n + 1])
      <4>1. n + 1 \in 1 .. m /\ (n + 1) - 1 = n
        BY <3>1
      <4> QED BY <3>1, <3>2, <4>1 DEF Returned
    <3>4. cut[n + 1] = p + 1
      <4>1. n \in Nat /\ n + 1 \in Nat
        OBVIOUS
      <4>2. cut[n] \in Nat /\ cut[n + 1] \in Nat /\ p + 1 \in Nat
        BY <1>2, <4>1
      <4> QED BY <2>1, <3>3, <4>2, OneNumber
    <3>5. Follows(s, r, y, cut)
      <4>1. Agree(cut, cut, n)
        BY DEF Agree
      <4> QED BY <1>2, <2>1, <3>4, <4>1
    <3>6. \A q2 \in Reader : Follows(s, q2, Y[q2], cut)
      BY <1>1, <1>6, <3>5
    <3> QED BY <3>6 DEF Followed
  <2>3. CASE \A q \in Reader : ~ (Len(X[q].taken) > n)
    <3>1. PICK cut2 : cut2 = [cut EXCEPT ![n + 1] = p + 1]
      OBVIOUS
    <3>2. cut2 \in [Nat -> Nat] /\ cut2[n + 1] = p + 1 /\ cut2[0] = 0
      BY SMTT(30), <1>2, <3>1
    <3>3. ASSUME NEW m \in Nat, ~ (m > n) PROVE Agree(cut2, cut, m)
      <4> SUFFICES ASSUME NEW i \in 0 .. m PROVE cut2[i] = cut[i]
        BY DEF Agree
      <4>1. i \in Nat /\ i # n + 1
        BY <3>3
      <4> QED BY <1>2, <3>1, <4>1
    <3>4. Follows(s, r, y, cut2)
      <4>1. Agree(cut2, cut, n)
        BY <3>3
      <4> QED BY <2>1, <3>2, <4>1
    <3>5. ASSUME NEW q \in Reader, q # r PROVE Follows(s, q, Y[q], cut2)
      <4>1. PICK z \in Parts, m \in Nat : z = X[q] /\ m = Len(z.taken)
        BY Fields
      <4>2. Agree(cut2, cut, Len(z.taken)) /\ Follows(s, q, z, cut)
        BY <1>1, <2>3, <3>3, <4>1
      <4>3. Follows(s, q, z, cut2)
        BY <4>2, Frame
      <4> QED BY <3>5, <4>1, <4>3
    <3>6. cut2 \in Cuts /\ \A q \in Reader : Follows(s, q, Y[q], cut2)
      BY <1>6, <3>2, <3>4, <3>5 DEF Cuts
    <3> QED BY <3>6 DEF Followed
  <2> QED BY <2>2, <2>3
<1> QED BY <1>8, <1>9

-----------------------------------------------------------------------------
(* The steps of the specification *)

\* The state as seen by the lemmas above.
LEMMA StateTyped ==
  ASSUME TypeOK
  PROVE  /\ State \in [Reader -> Parts] /\ stream \in Seq(Byte)
         /\ \A r \in Reader : /\ State[r] = Part(r)
                             /\ Part(r).pos = pos[r] /\ Part(r).buf = buf[r]
                             /\ Part(r).taken = taken[r] /\ Part(r).state = state[r]
<1>1. ASSUME NEW r \in Reader PROVE Part(r) \in Parts
  <2>1. /\ Len(stream) \in Nat /\ pos[r] \in 0 .. Len(stream) /\ buf[r] \in Seq(Byte)
        /\ taken[r] \in Seq(Number) /\ state[r] \in {"reading", "refused", "untouched"}
    BY DEF TypeOK
  <2>2. pos[r] \in Nat
    BY <2>1
  <2> QED BY <2>1, <2>2 DEF Part, Parts
<1>2. stream \in Seq(Byte)
  BY DEF TypeOK
<1> QED BY <1>1, <1>2 DEF State, Part

\* What the step of one reader leaves alone.
Alone(r) ==
  /\ stream' = stream
  /\ \A q \in Reader \ {r} : State'[q] = State[q]

\* It does so when the fields of the other reader are what they were.
LEMMA OneReader ==
  ASSUME NEW r \in Reader, stream' = stream,
         \A q \in Reader \ {r} :
            /\ pos'[q] = pos[q] /\ buf'[q] = buf[q]
            /\ taken'[q] = taken[q] /\ state'[q] = state[q]
  PROVE  Alone(r)
  BY DEF Alone, State, Part

\* A step of one reader.
Step(r) ==
  Alone(r) /\ state[r] = "reading" /\ Moves(stream, r, State[r], State'[r])

\* The state of a reader after a step, from its fields.
LEMMA PartAfter ==
  ASSUME NEW r \in Reader
  PROVE  State'[r] = [pos |-> pos'[r], buf |-> buf'[r], taken |-> taken'[r], state |-> state'[r]]
  BY DEF State, Part

\* Every step of the specification is one of these.  That RustEnd is Ends, and
\* never returns a number at the end of the stream, needs the invariant.
LEMMA Steps ==
  ASSUME IInv, [Next]_vars
  PROVE  stream' = stream /\ (State' = State \/ \E r \in Reader : Step(r))
<1>1. TypeOK /\ Followed(stream, State) /\ "rust" \in Reader /\ "c" \in Reader
  BY DEF IInv, Reader
<1>2. /\ stream \in Seq(Byte) /\ Len(stream) \in Nat
      /\ pos \in [Reader -> 0 .. Len(stream)] /\ buf \in [Reader -> Seq(Byte)]
      /\ DOMAIN pos = Reader /\ DOMAIN buf = Reader /\ DOMAIN taken = Reader /\ DOMAIN state = Reader
  BY <1>1 DEF TypeOK
<1>3. ASSUME NEW r \in Reader, Keep(r), ~ AtEnd(r), state[r] = "reading",
             r = "c" => Len(buf[r]) < MaxLen
      PROVE  Step(r)
  <2> DEFINE x == State[r]
             y == State'[r]
             bytes == Append(buf[r], stream[pos[r] + 1])
  <2>1. /\ x = [pos |-> pos[r], buf |-> buf[r], taken |-> taken[r], state |-> state[r]]
        /\ x.pos = pos[r] /\ x.buf = buf[r] /\ x.taken = taken[r] /\ x.state = state[r]
    BY <1>1, StateTyped DEF Part
  <2>2. pos[r] < Len(stream)
    BY <1>2, <1>3 DEF AtEnd
  <2>3. stream' = stream /\ pos' = [pos EXCEPT ![r] = pos[r] + 1]
    BY <1>3 DEF Keep
  <2> HIDE DEF x, y, bytes
  <2>4. CASE stream[pos[r] + 1].more
    <3>1. buf' = [buf EXCEPT ![r] = bytes] /\ taken' = taken /\ state' = state
      BY <1>3, <2>4 DEF Keep, NextByte, bytes
    <3>2. Alone(r) /\ y = [pos |-> pos[r] + 1, buf |-> bytes,
                          taken |-> taken[r], state |-> state[r]]
      <4>1. \A q \in Reader \ {r} :
              /\ pos'[q] = pos[q] /\ buf'[q] = buf[q]
              /\ taken'[q] = taken[q] /\ state'[q] = state[q]
        BY <1>1, <1>2, <2>3, <3>1
      <4>2. /\ pos'[r] = pos[r] + 1 /\ buf'[r] = bytes
            /\ taken'[r] = taken[r] /\ state'[r] = state[r]
        BY <1>1, <1>2, <2>3, <3>1
      <4>3. stream' = stream
        BY <2>3
      <4>4. Alone(r)
        BY <1>1, <4>1, <4>3, OneReader
      <4> QED BY <1>1, <4>2, <4>4, PartAfter DEF y
    <3>3. Keeps(stream, r, x, y)
      BY <1>3, <2>1, <2>2, <2>4, <3>2 DEF Keeps, bytes
    <3> QED BY <1>3, <3>2, <3>3 DEF Step, Moves, x, y
  <2>5. CASE ~ stream[pos[r] + 1].more /\ Decodes(bytes)
    <3>1. /\ taken' = [taken EXCEPT ![r] = Append(taken[r], Value(bytes))]
          /\ buf' = [buf EXCEPT ![r] = <<>>] /\ state' = state
      BY <1>3, <2>5 DEF Keep, Finish, NextByte, bytes
    <3>2. Alone(r) /\ y = [pos |-> pos[r] + 1, buf |-> <<>>,
                          taken |-> Append(taken[r], Value(bytes)), state |-> state[r]]
      <4>1. \A q \in Reader \ {r} :
              /\ pos'[q] = pos[q] /\ buf'[q] = buf[q]
              /\ taken'[q] = taken[q] /\ state'[q] = state[q]
        BY <1>1, <1>2, <2>3, <3>1
      <4>2. /\ pos'[r] = pos[r] + 1 /\ buf'[r] = <<>>
            /\ taken'[r] = Append(taken[r], Value(bytes)) /\ state'[r] = state[r]
        BY <1>1, <1>2, <2>3, <3>1
      <4>3. stream' = stream
        BY <2>3
      <4>4. Alone(r)
        BY <1>1, <4>1, <4>3, OneReader
      <4> QED BY <1>1, <4>2, <4>4, PartAfter DEF y
    <3>3. Takes(stream, r, x, y)
      BY <2>1, <2>2, <2>5, <3>2 DEF Takes, bytes
    <3> QED BY <1>3, <3>2, <3>3 DEF Step, Moves, x, y
  <2>6. CASE ~ stream[pos[r] + 1].more /\ ~ Decodes(bytes)
    <3>1. state' = [state EXCEPT ![r] = "refused"] /\ taken' = taken /\ buf' = buf
      BY <1>3, <2>6 DEF Keep, Finish, NextByte, bytes
    <3>2. Alone(r) /\ y = [pos |-> pos[r] + 1, buf |-> buf[r],
                          taken |-> taken[r], state |-> "refused"]
      <4>1. \A q \in Reader \ {r} :
              /\ pos'[q] = pos[q] /\ buf'[q] = buf[q]
              /\ taken'[q] = taken[q] /\ state'[q] = state[q]
        BY <1>1, <1>2, <2>3, <3>1
      <4>2. /\ pos'[r] = pos[r] + 1 /\ buf'[r] = buf[r]
            /\ taken'[r] = taken[r] /\ state'[r] = "refused"
        BY <1>1, <1>2, <2>3, <3>1
      <4>3. stream' = stream
        BY <2>3
      <4>4. Alone(r)
        BY <1>1, <4>1, <4>3, OneReader
      <4> QED BY <1>1, <4>2, <4>4, PartAfter DEF y
    <3>3. Refuses(stream, r, x, y)
      BY <2>1, <2>2, <2>6, <3>2 DEF Refuses, bytes
    <3> QED BY <1>3, <3>2, <3>3 DEF Step, Moves, x, y
  <2> QED BY <2>4, <2>5, <2>6
<1>4. ASSUME NEW r \in Reader, state[r] = "reading", AtEnd(r),
             UNCHANGED <<stream, buf, pos, taken>>,
             state' = [state EXCEPT ![r] = IF r = "c" THEN "untouched" ELSE "refused"]
      PROVE  Step(r)
  <2> DEFINE x == State[r]
             y == State'[r]
             st == IF r = "c" THEN "untouched" ELSE "refused"
  <2>1. x = [pos |-> pos[r], buf |-> buf[r], taken |-> taken[r], state |-> state[r]]
    BY <1>1, StateTyped DEF Part
  <2> HIDE DEF st
  <2>2. state' = [state EXCEPT ![r] = st]
    BY <1>4 DEF st
  <2>3. Alone(r) /\ y = [pos |-> pos[r], buf |-> buf[r],
                        taken |-> taken[r], state |-> st]
    <3>1. \A q \in Reader \ {r} :
            /\ pos'[q] = pos[q] /\ buf'[q] = buf[q]
            /\ taken'[q] = taken[q] /\ state'[q] = state[q]
      BY <1>1, <1>2, <1>4, <2>2
    <3>2. /\ pos'[r] = pos[r] /\ buf'[r] = buf[r]
          /\ taken'[r] = taken[r] /\ state'[r] = st
      BY <1>1, <1>2, <1>4, <2>2
    <3>3. stream' = stream
      BY <1>4
    <3>4. Alone(r)
      BY <1>1, <3>1, <3>3, OneReader
    <3> QED BY <1>1, <3>2, <3>4, PartAfter DEF y
  <2> HIDE DEF x, y
  <2>4. x.pos = pos[r] /\ x.buf = buf[r] /\ x.taken = taken[r]
    BY <2>1
  <2>5. Ends(stream, r, x, y)
    BY <1>4, <2>3, <2>4 DEF Ends, AtEnd, st
  <2> QED BY <1>4, <2>3, <2>5 DEF Step, Moves, x, y
<1>5. CASE RustByte
  <2>1. Step("rust")
    BY <1>1, <1>3, <1>5 DEF RustByte
  <2> QED BY <1>1, <2>1 DEF Step, Alone
<1>6. CASE RustEnd
  <2>1. /\ state["rust"] = "reading" /\ AtEnd("rust")
        /\ Finish("rust", buf["rust"]) /\ stream' = stream /\ pos' = pos
    BY <1>6 DEF RustEnd
  <2>2. ~ Decodes(buf["rust"])
    <3>1. PICK cut \in Cuts : Follows(stream, "rust", State["rust"], cut)
      BY <1>1 DEF Followed
    <3>2. PICK n \in Nat : n = Len(taken["rust"])
      BY <1>1, Fields, StateTyped
    <3>3. PICK first \in Nat : first = cut[n]
      BY DEF Cuts
    <3>4. Kept(stream, first, Len(stream), buf["rust"])
      BY <1>1, <2>1, <3>1, <3>2, <3>3, StateTyped DEF Follows, AtEnd
    <3> QED BY <1>2, <3>4, AtTheEnd
  <2>3. state' = [state EXCEPT !["rust"] = "refused"] /\ taken' = taken /\ buf' = buf
    BY <2>1, <2>2 DEF Finish
  <2>4. Step("rust")
    BY <1>1, <1>4, <2>1, <2>3
  <2> QED BY <1>1, <2>1, <2>4
<1>7. CASE CByte
  <2>1. state["c"] = "reading" /\ ~ AtEnd("c")
    BY <1>7 DEF CByte
  <2>2. CASE Len(buf["c"]) >= MaxLen
    <3> DEFINE x == State["c"]
               y == State'["c"]
    <3>1. /\ pos' = [pos EXCEPT !["c"] = pos["c"] + 1]
          /\ state' = [state EXCEPT !["c"] = "refused"]
          /\ UNCHANGED <<stream, buf, taken>>
      BY <1>7, <2>2 DEF CByte
    <3>2. /\ x = [pos |-> pos["c"], buf |-> buf["c"], taken |-> taken["c"], state |-> state["c"]]
          /\ x.pos = pos["c"] /\ x.buf = buf["c"] /\ x.taken = taken["c"]
      BY <1>1, StateTyped DEF Part
    <3>3. Alone("c") /\ y = [pos |-> pos["c"] + 1, buf |-> buf["c"],
                          taken |-> taken["c"], state |-> "refused"]
      <4>1. \A q \in Reader \ {"c"} :
              /\ pos'[q] = pos[q] /\ buf'[q] = buf[q]
              /\ taken'[q] = taken[q] /\ state'[q] = state[q]
        BY <1>1, <1>2, <3>1
      <4>2. /\ pos'["c"] = pos["c"] + 1 /\ buf'["c"] = buf["c"]
            /\ taken'["c"] = taken["c"] /\ state'["c"] = "refused"
        BY <1>1, <1>2, <3>1
      <4>3. stream' = stream
        BY <3>1
      <4>4. Alone("c")
        BY <1>1, <4>1, <4>3, OneReader
      <4> QED BY <1>1, <4>2, <4>4, PartAfter DEF y
    <3>4. pos["c"] < Len(stream)
      BY <1>1, <1>2, <2>1 DEF AtEnd
    <3> HIDE DEF x, y
    <3>5. Overflows(stream, "c", x, y)
      BY <2>2, <3>2, <3>3, <3>4 DEF Overflows
    <3>6. Step("c")
      BY <2>1, <3>3, <3>5 DEF Step, Moves, x, y
    <3> QED BY <1>1, <3>1, <3>6
  <2>3. CASE ~ (Len(buf["c"]) >= MaxLen)
    <3>1. Keep("c")
      BY <1>7, <2>3 DEF CByte
    <3>2. Len(buf["c"]) < MaxLen
      <4>1. Len(buf["c"]) \in Nat
        BY <1>1, <1>2
      <4> QED BY <2>3, <4>1, MaxLenFacts
    <3>3. Step("c")
      BY <1>1, <1>3, <2>1, <3>1, <3>2
    <3> QED BY <1>1, <3>3 DEF Step, Alone
  <2> QED BY <2>2, <2>3
<1>8. CASE CEnd
  <2>1. /\ state["c"] = "reading" /\ AtEnd("c")
        /\ state' = [state EXCEPT !["c"] = "untouched"]
        /\ UNCHANGED <<stream, buf, pos, taken>>
    BY <1>8 DEF CEnd
  <2>2. Step("c")
    BY <1>1, <1>4, <2>1
  <2> QED BY <1>1, <2>1, <2>2
<1>9. CASE UNCHANGED vars
  BY <1>9 DEF vars, State, Part
<1> QED BY <1>5, <1>6, <1>7, <1>8, <1>9 DEF Next, Stopped

-----------------------------------------------------------------------------
(* The invariant holds *)

\* The initial state satisfies the invariant: nothing is read yet.
LEMMA InitIInv == Init => IInv
<1> SUFFICES ASSUME Init PROVE IInv
  OBVIOUS
<1>1. TypeOK /\ stream \in Seq(Byte) /\ State \in [Reader -> Parts]
  BY InitTyped, StateTyped
<1>2. PICK cut : cut = [n \in Nat |-> 0]
  OBVIOUS
<1>3. cut \in Cuts
  BY <1>2 DEF Cuts
<1>4. ASSUME NEW r \in Reader PROVE Follows(stream, r, State[r], cut)
  <2>1. PICK x \in Parts : x = State[r]
    BY <1>1
  <2>2. x.pos = 0 /\ x.buf = <<>> /\ x.taken = <<>> /\ x.state = "reading"
    BY <1>1, <2>1, StateTyped DEF Init
  <2>3. Kept(stream, 0, 0, <<>>)
    BY <1>1, KeptNothing
  <2>4. Returned(stream, <<>>, cut)
    BY DEF Returned
  <2>5. Len(<<>>) <= MaxLen
    BY MaxLenFacts
  <2>6. cut[Len(<<>>)] = 0
    BY <1>2
  <2> QED BY <2>1, <2>2, <2>3, <2>4, <2>5, <2>6, FollowsReading
<1> QED BY <1>1, <1>3, <1>4 DEF IInv, Followed

\* Every step keeps it.
LEMMA StepIInv == IInv /\ [Next]_vars => IInv'
<1> SUFFICES ASSUME IInv, [Next]_vars PROVE IInv'
  OBVIOUS
<1>1. TypeOK /\ Followed(stream, State) /\ stream \in Seq(Byte) /\ State \in [Reader -> Parts]
  BY StateTyped DEF IInv
<1>2. TypeOK'
  BY <1>1, StepTyped
<1>3. stream' = stream
  BY Steps
<1>4. CASE State' = State
  BY <1>1, <1>2, <1>3, <1>4 DEF IInv
<1>5. ASSUME NEW r \in Reader, Step(r) PROVE Followed(stream, State')
  <2>1. PICK X \in [Reader -> Parts] : X = State
    BY <1>1
  <2>2. PICK Y : Y = State'
    OBVIOUS
  <2>3. /\ \A q \in Reader \ {r} : Y[q] = X[q]
        /\ Moves(stream, r, X[r], Y[r])
    BY <1>5, <2>1, <2>2 DEF Step, Alone
  <2>4. X[r].state = "reading"
    BY <1>1, <1>5, <2>1, StateTyped DEF Step
  <2>5. PICK s \in Seq(Byte) : s = stream
    BY <1>1
  <2>6. Followed(s, X)
    BY <1>1, <2>1, <2>5
  <2>7. Followed(s, Y)
    BY <2>3, <2>4, <2>5, <2>6, StillFollowed
  <2> QED BY <2>2, <2>5, <2>7
<1> QED BY <1>2, <1>3, <1>4, <1>5, Steps DEF IInv

\* The invariant holds in every reachable state.
THEOREM Invariance == Spec => []IInv
<1>1. Init => IInv
  BY InitIInv
<1>2. IInv /\ [Next]_vars => IInv'
  BY StepIInv
<1> QED BY <1>1, <1>2, PTL DEF Spec

\* The state has its type: no number the readers return is wider than it may be.
THEOREM TypeCorrect == Spec => []TypeOK
<1>1. IInv => TypeOK
  BY DEF IInv
<1> QED BY <1>1, Invariance, PTL

-----------------------------------------------------------------------------
(* The readers agree *)

\* Of two readers along the same cuts, one has returned a prefix of what the other
\* has,
LEMMA SamePrefix ==
  ASSUME NEW s, NEW t \in Seq(Number), NEW u \in Seq(Number), NEW cut,
         Returned(s, t, cut), Returned(s, u, cut), Len(t) <= Len(u)
  PROVE  IsPrefix(t, u)
<1>1. Len(t) \in Nat /\ Len(u) \in Nat
  OBVIOUS
<1>2. \A i \in 1 .. Len(t) : t[i] = u[i]
  BY <1>1 DEF Returned
<1>3. SubSeq(t, 1, Len(t)) = SubSeq(u, 1, Len(t))
  BY <1>1, <1>2
<1> QED BY <1>3 DEF IsPrefix

\* and one that has stopped where no number stands is not behind.
LEMMA StoppedTogether ==
  ASSUME NEW s, NEW t \in Seq(Number), NEW u \in Seq(Number), NEW cut \in [Nat -> Nat],
         Returned(s, u, cut), NoNumber(s, cut[Len(t)])
  PROVE  Len(u) <= Len(t)
<1> SUFFICES ASSUME ~ (Len(u) <= Len(t)) PROVE FALSE
  OBVIOUS
<1>1. PICK n \in Nat : n = Len(t)
  OBVIOUS
<1>2. n + 1 \in 1 .. Len(u) /\ (n + 1) - 1 = n /\ n + 1 \in Nat
  BY SMTT(30), <1>1
<1>3. NumberAt(s, cut[n], cut[n + 1])
  BY <1>2 DEF Returned
<1>4. cut[n + 1] \in Nat
  BY <1>2
<1> QED BY <1>1, <1>3, <1>4 DEF NoNumber

\* So the invariant implies the agreement.
LEMMA AgreementHolds == IInv => Agreement
<1> SUFFICES ASSUME IInv PROVE Agreement
  OBVIOUS
<1>1. /\ TypeOK /\ stream \in Seq(Byte) /\ State \in [Reader -> Parts]
      /\ "rust" \in Reader /\ "c" \in Reader
  BY StateTyped DEF IInv, Reader
<1>2. PICK cut \in Cuts : \A r \in Reader : Follows(stream, r, State[r], cut)
  BY DEF IInv, Followed
<1>3. cut \in [Nat -> Nat]
  BY DEF Cuts
<1>4. PICK t \in Seq(Number), u \in Seq(Number) : t = taken["rust"] /\ u = taken["c"]
  BY <1>1 DEF TypeOK
<1>5. PICK x \in Parts, y \in Parts : x = State["rust"] /\ y = State["c"]
  BY <1>1
<1>6. /\ x.taken = t /\ x.state = state["rust"] /\ x.pos = pos["rust"]
      /\ y.taken = u /\ y.state = state["c"]
  BY <1>1, <1>4, <1>5, StateTyped
<1>7. Follows(stream, "rust", x, cut) /\ Follows(stream, "c", y, cut)
  BY <1>1, <1>2, <1>5
<1>8. Returned(stream, t, cut) /\ Returned(stream, u, cut)
  BY <1>6, <1>7 DEF Follows
<1>9. IsPrefix(t, u) \/ IsPrefix(u, t)
  <2>1. Len(t) <= Len(u) \/ Len(u) <= Len(t)
    <3>1. Len(t) \in Nat /\ Len(u) \in Nat
      OBVIOUS
    <3> QED BY <3>1
  <2> QED BY <1>8, <2>1, SamePrefix
<1>10. ASSUME state["rust"] # "reading", state["c"] # "reading"
       PROVE  t = u /\ (state["c"] = "untouched" => AtEnd("rust"))
  <2>1. NoNumber(stream, cut[Len(t)]) /\ NoNumber(stream, cut[Len(u)])
    BY <1>6, <1>7, <1>10 DEF Follows
  <2>2. Len(t) = Len(u)
    <3>1. Len(u) <= Len(t) /\ Len(t) <= Len(u)
      BY <1>3, <1>8, <2>1, StoppedTogether
    <3> QED BY <3>1
  <2>3. t = u
    <3>1. \A i \in 1 .. Len(t) : t[i] = u[i]
      BY <1>8, <2>2 DEF Returned
    <3> QED BY <2>2, <3>1, SeqEqual
  <2>4. ASSUME state["c"] = "untouched" PROVE AtEnd("rust")
    <3>1. Len(t) \in Nat
      OBVIOUS
    <3>2. cut[Len(t)] \in Nat /\ x.pos \in Nat
      BY <1>3, <3>1, Fields
    <3>3. PICK first \in Nat, p \in Nat : first = cut[Len(t)] /\ p = x.pos
      BY <3>2
    <3>4. Kept(stream, first, Len(stream), y.buf)
      BY <1>6, <1>7, <2>3, <2>4, <3>3 DEF Follows
    <3>5. state["rust"] = "refused" /\ StoppedAt(stream, first, p)
      <4>1. state["rust"] \in {"reading", "refused", "untouched"} /\ "rust" # "c"
        BY <1>1 DEF TypeOK
      <4> QED BY <1>6, <1>7, <1>10, <3>3, <4>1 DEF Follows
    <3>6. p \in 0 .. Len(stream)
      BY <1>1, <1>6, <3>3 DEF TypeOK
    <3>7. p = Len(stream)
      BY <1>1, <3>4, <3>5, <3>6 DEF StoppedAt, Kept
    <3> QED BY <1>6, <3>3, <3>7 DEF AtEnd
  <2> QED BY <2>3, <2>4
<1> QED BY <1>4, <1>9, <1>10 DEF Agreement, Reader

\* A Rust and a C peer read the same numbers out of every stream, and neither goes
\* on where the other stops: read_next_vlq and csi_read_vlq, for every width and
\* streams of any length.
THEOREM ReadersAgree == Spec => []Agreement
  BY Invariance, AgreementHolds, PTL

-----------------------------------------------------------------------------
(* Encodings are read *)

\* Where the stream goes on with a complete sequence that is not too long, a number
\* stands, and its bytes are that sequence.
LEMMA NumberAhead ==
  ASSUME NEW s \in Seq(Byte), NEW first \in Nat, first <= Len(s),
         NEW e, Complete(e), NEW n \in Nat, n = Len(e), n <= MaxLen,
         IsPrefix(e, Between(s, first, Len(s)))
  PROVE  NumberAt(s, first, first + n) /\ SliceOf(e, s, first, first + n)
<1>1. /\ e \in Seq(Byte) /\ Len(e) > 0
      /\ (\A i \in 1 .. Len(e) - 1 : e[i].more) /\ ~ e[Len(e)].more
  BY DEF Complete
<1>2. PICK z \in Nat : n = Len(e) /\ z = Len(s)
  OBVIOUS
<1> DEFINE u == Between(s, first, z)
<1>3. SliceOf(u, s, first, z)
  BY <1>2, Slice
<1>4. u \in Seq(Byte) /\ Len(u) = z - first /\ \A i \in 1 .. z - first : u[i] = s[first + i]
  BY <1>3 DEF SliceOf
<1>5. n <= z - first /\ SubSeq(e, 1, n) = SubSeq(u, 1, n)
  BY <1>2, <1>4 DEF IsPrefix
<1> HIDE DEF u
<1>6. \A i \in 1 .. n : e[i] = s[first + i]
  <2> SUFFICES ASSUME NEW i \in 1 .. n PROVE e[i] = s[first + i]
    OBVIOUS
  <2>1. SubSeq(e, 1, n)[i] = e[i]
    BY <1>1, <1>2
  <2>2. SubSeq(u, 1, n)[i] = u[i]
    BY <1>2, <1>4, <1>5
  <2>3. i \in 1 .. z - first
    BY <1>2, <1>5
  <2> QED BY <1>4, <1>5, <2>1, <2>2, <2>3
<1>7. first + n \in Nat /\ first <= first + n /\ first + n <= z /\ n > 0 /\ n <= MaxLen
  BY <1>1, <1>2, <1>5
<1>8. NumberAt(s, first, first + n)
  <2>1. ASSUME NEW j \in first + 1 .. first + n - 1 PROVE s[j].more
    <3>1. PICK i \in 1 .. n - 1 : j = first + i
      <4>1. j - first \in 1 .. n - 1 /\ j = first + (j - first)
        BY <1>2
      <4> QED BY <4>1
    <3>2. i \in 1 .. n
      BY <1>2
    <3> QED BY <1>1, <1>2, <1>6, <3>1, <3>2
  <2>2. ~ s[first + n].more
    <3>1. n \in 1 .. n
      BY <1>7
    <3> QED BY <1>1, <1>2, <1>6, <3>1
  <2>3. first + n \in first + 1 .. Len(s) /\ (first + n) - first <= MaxLen
    BY <1>2, <1>7, MaxLenFacts
  <2> QED BY <2>1, <2>2, <2>3 DEF NumberAt
<1>9. SliceOf(e, s, first, first + n)
  <2>1. (first + n) - first = n
    BY <1>2
  <2> QED BY <1>1, <1>2, <1>6, <2>1 DEF SliceOf
<1> QED BY <1>8, <1>9

\* The bytes of a place are one sequence.
LEMMA SameSlice ==
  ASSUME NEW s, NEW a, NEW b, NEW t, NEW u, SliceOf(t, s, a, b), SliceOf(u, s, a, b)
  PROVE  t = u
<1>1. t \in Seq(Byte) /\ u \in Seq(Byte) /\ Len(t) = Len(u)
  BY DEF SliceOf
<1>2. \A i \in 1 .. Len(t) : t[i] = u[i]
  BY DEF SliceOf
<1> QED BY <1>1, <1>2, SeqEqual

\* A reader that has read p bytes, of which it keeps b, has the encoding ahead.
IsAhead(s, p, b, value) == IsPrefix(Encode[value], Between(s, p - Len(b), Len(s)))

\* A reader that has the encoding of a number ahead goes on, or returns the number.
LEMMA ReadsIt ==
  ASSUME NEW s \in Seq(Byte), NEW r \in Reader, NEW x \in Parts, NEW y,
         NEW cut \in [Nat -> Nat], Follows(s, r, x, cut), x.state = "reading",
         x.pos <= Len(s), Moves(s, r, x, y), NEW value \in Number,
         IsAhead(s, x.pos, x.buf, value)
  PROVE  /\ y.state = "reading"
         /\ y.taken # x.taken =>
              /\ y.taken = Append(x.taken, value)
              /\ y.pos = x.pos - Len(x.buf) + Len(Encode[value])
<1>1. PICK p \in Nat, b \in Seq(Byte), t \in Seq(Number), n \in Nat :
        p = x.pos /\ b = x.buf /\ t = x.taken /\ n = Len(t)
  BY Fields
<1>2. PICK first \in Nat : first = cut[n]
  OBVIOUS
<1>3. PICK e \in Seq(Byte) : e = Encode[value]
  BY EncodingDecodes
<1>4. Kept(s, first, p, b) /\ p <= Len(s) /\ Len(s) \in Nat
  <2>1. Kept(s, first, p, b)
    BY <1>1, <1>2, FollowsReading
  <2> QED BY <1>1, <2>1
<1>5. first <= p /\ p - Len(b) = first /\ p - Len(b) + 1 = first + 1 /\ first <= Len(s)
  <2>1. first <= p /\ b = Between(s, first, p)
    BY <1>4 DEF Kept
  <2>2. PICK m \in Nat : m = Len(b)
    OBVIOUS
  <2>3. Len(b) = p - first
    <3>1. SliceOf(b, s, first, p)
      BY <1>4, <2>1, Slice
    <3> QED BY <3>1 DEF SliceOf
  <2>4. m = p - first /\ first <= p /\ p <= Len(s) /\ Len(s) \in Nat
    BY <1>4, <2>1, <2>2, <2>3
  <2>5. p - m = first /\ p - m + 1 = first + 1 /\ first <= Len(s)
    BY <2>4
  <2> QED BY <2>1, <2>2, <2>5
<1>6. PICK m \in Nat : m = Len(e)
  OBVIOUS
<1>7. NumberAt(s, first, first + m) /\ SliceOf(e, s, first, first + m)
  <2>1. IsPrefix(e, Between(s, first, Len(s)))
    BY <1>1, <1>3, <1>5 DEF IsAhead
  <2>2. first <= Len(s)
    BY <1>5
  <2>3. Complete(e) /\ m <= MaxLen
    BY <1>3, <1>6, EncodeFacts, EncodingDecodes
  <2>4. NumberAt(s, first, first + m)
    BY <1>6, <2>1, <2>2, <2>3, NumberAhead
  <2>5. SliceOf(e, s, first, first + m)
    BY <1>6, <2>1, <2>2, <2>3, NumberAhead
  <2> QED BY <2>4, <2>5
<1>8. Value(e) = value
  BY <1>3, EncodingDecodes
<1>9. CASE Keeps(s, r, x, y)
  BY <1>9 DEF Keeps
<1>10. CASE Refuses(s, r, x, y) \/ Overflows(s, r, x, y) \/ Ends(s, r, x, y)
  <2>1. Follows(s, r, y, cut)
    BY <1>10, Stays
  <2>2. y.taken = t /\ y.state # "reading"
    <3>1. CASE Refuses(s, r, x, y)
      BY <1>1, <3>1 DEF Refuses
    <3>2. CASE Overflows(s, r, x, y)
      BY <1>1, <3>2 DEF Overflows
    <3>3. CASE Ends(s, r, x, y)
      BY <1>1, <3>3 DEF Ends
    <3> QED BY <1>10, <3>1, <3>2, <3>3
  <2>3. NoNumber(s, first)
    BY <1>1, <1>2, <2>1, <2>2 DEF Follows
  <2>4. first + m \in Nat
    OBVIOUS
  <2> QED BY <1>7, <2>3, <2>4 DEF NoNumber
<1>11. CASE Takes(s, r, x, y)
  <2>1. PICK b2 : b2 = Append(b, s[p + 1])
    OBVIOUS
  <2>2. PICK v : v = Value(b2)
    OBVIOUS
  <2>3. /\ p < Len(s) /\ y.pos = p + 1 /\ y.taken = Append(t, v) /\ y.state = "reading"
    BY <1>1, <1>11, <2>1, <2>2 DEF Takes
  <2>4. NumberAt(s, first, p + 1)
    BY <1>1, <1>2, <1>11, Returns
  <2>5. p + 1 = first + m
    <3>1. p + 1 \in Nat /\ first + m \in Nat
      OBVIOUS
    <3> QED BY <1>7, <2>4, <3>1, OneNumber
  <2>6. b2 = e
    <3>1. p < Len(s)
      BY <2>3
    <3>2. Kept(s, first, p, b)
      BY <1>4
    <3>3. b2 = Between(s, first, p + 1)
      BY <2>1, <3>1, <3>2, KeepSlice
    <3>4. p + 1 \in Nat /\ first <= p + 1 /\ p + 1 <= Len(s)
      <4>1. first <= p
        BY <3>2 DEF Kept
      <4>2. Len(s) \in Nat
        OBVIOUS
      <4> QED BY <3>1, <4>1, <4>2
    <3>5. SliceOf(b2, s, first, p + 1)
      BY <3>3, <3>4, Slice
    <3> QED BY <1>7, <2>5, <3>5, SameSlice
  <2>7. v = value
    BY <1>8, <2>2, <2>6
  <2> QED BY <1>1, <1>3, <1>5, <1>6, <2>3, <2>5, <2>7
<1> QED BY <1>9, <1>10, <1>11 DEF Moves

\* In every step, a reader with the encoding of a number ahead neither stops nor
\* returns another number, and it consumes exactly the encoding.
THEOREM EncodingsAreRead == Spec => RoundTrip
<1> DEFINE Reads(r, value) ==
             state[r] = "reading" /\ IsPrefix(Encode[value], Ahead(r)) =>
               /\ state'[r] = "reading"
               /\ taken'[r] # taken[r] =>
                    /\ taken'[r] = Append(taken[r], value)
                    /\ pos'[r] = pos[r] - Len(buf[r]) + Len(Encode[value])
<1>1. ASSUME IInv, [Next]_vars, NEW r \in Reader, NEW value \in Number PROVE Reads(r, value)
  <2> SUFFICES ASSUME state[r] = "reading", IsPrefix(Encode[value], Ahead(r))
               PROVE  /\ state'[r] = "reading"
                      /\ taken'[r] # taken[r] =>
                           /\ taken'[r] = Append(taken[r], value)
                           /\ pos'[r] = pos[r] - Len(buf[r]) + Len(Encode[value])
    OBVIOUS
  <2>1. TypeOK /\ TypeOK' /\ stream \in Seq(Byte) /\ State \in [Reader -> Parts]
    BY <1>1, StateTyped, StepTyped DEF IInv
  <2>2. PICK cut \in Cuts : Follows(stream, r, State[r], cut)
    BY <1>1 DEF IInv, Followed
  <2>3. PICK x \in Parts : x = State[r]
    BY <2>1
  <2>4. PICK y : y = State'[r]
    OBVIOUS
  <2>5. /\ x.pos = pos[r] /\ x.buf = buf[r] /\ x.taken = taken[r] /\ x.state = state[r]
    BY <2>1, <2>3, StateTyped
  <2>6. y.pos = pos'[r] /\ y.taken = taken'[r] /\ y.state = state'[r]
    <3>1. y = [pos |-> pos'[r], buf |-> buf'[r], taken |-> taken'[r], state |-> state'[r]]
      BY <2>4, PartAfter
    <3> QED BY <3>1
  <2>7. x.pos <= Len(stream)
    <3>1. pos[r] \in 0 .. Len(stream) /\ Len(stream) \in Nat
      BY <2>1 DEF TypeOK
    <3> QED BY <2>5, <3>1
  <2>8. CASE y = x
    BY <2>5, <2>6, <2>8
  <2>9. CASE Moves(stream, r, x, y)
    <3>1. cut \in [Nat -> Nat]
      BY DEF Cuts
    <3>2. IsAhead(stream, x.pos, x.buf, value)
      BY <2>5 DEF Ahead, IsAhead, Between
    <3>3. PICK s \in Seq(Byte) : s = stream
      BY <2>1
    <3>4. /\ Follows(s, r, x, cut) /\ x.state = "reading" /\ x.pos <= Len(s)
          /\ Moves(s, r, x, y)
          /\ IsAhead(s, x.pos, x.buf, value)
      BY <2>2, <2>3, <2>5, <2>7, <2>9, <3>2, <3>3
    <3>5. /\ y.state = "reading"
          /\ y.taken # x.taken =>
               /\ y.taken = Append(x.taken, value)
               /\ y.pos = x.pos - Len(x.buf) + Len(Encode[value])
      BY <3>1, <3>4, ReadsIt, ZenonT(40)
    <3> QED BY <2>5, <2>6, <3>5
  <2> QED BY <1>1, <2>3, <2>4, <2>8, <2>9, Steps DEF Step, Alone
<1>2. IInv /\ [Next]_vars => [\A r \in Reader, value \in Number : Reads(r, value)]_vars
  BY <1>1
<1> QED BY <1>2, Invariance, PTL DEF Spec, RoundTrip

=============================================================================
