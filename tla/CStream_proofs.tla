--------------------------- MODULE CStream_proofs ---------------------------
(***************************************************************************)
(* Proofs about CStream, for every size of the buffers and of a block, all *)
(* lengths of payloads and any number of packets.                          *)
(***************************************************************************)
EXTENDS CStream, SequenceTheorems, TLAPS

Packets == [code : Codes, length : Lengths, payload : Seq(Byte)]
\* What a receive function can return.
Received == [code : Byte, length : Byte, payload : Seq(Byte)]

\* What goes over the pipe for a packet.
Bytes(p) == <<0, p.code, p.length>> \o p.payload

\* The bytes of the pieces of a packet; there are at most four.
Piece(t, i) == IF i <= Len(t) THEN t[i] ELSE <<>>
Joined(t) == Piece(t, 1) \o (Piece(t, 2) \o (Piece(t, 3) \o Piece(t, 4)))

\* The bytes of the writer's packet that the reader has not got.
Unsent ==
  IF writer = "flushing" THEN pipe \o Joined(todo)
  ELSE IF writer = "direct" THEN pipe \o Joined(Tail(todo))
  ELSE outBuffer \o Joined(todo)

\* The bytes that the reader has got and not looked at.
Chunk(f, k, n) == [i \in 1 .. n |-> f[k + i]]
Buffered == Chunk(inBuffer, pos, filled - pos)

\* The bytes of the packet that it is reading.
Have ==
  IF field = "version" THEN <<>>
  ELSE IF field = "code" THEN <<0>>
  ELSE IF field = "length" THEN <<0, packet.code>>
  ELSE <<0, packet.code, packet.length>> \o packet.payload

WriterInv ==
  /\ sent \in Seq(Packets)
  /\ \A i \in 1 .. Len(sent) : Len(sent[i].payload) = sent[i].length
  /\ todo \in Seq(Seq(Byte)) /\ Len(todo) <= 4
  /\ outBuffer \in Seq(Byte)
  /\ pipe \in Seq(Byte)
  /\ writer \in {"idle", "ended"} => todo = <<>> /\ outBuffer = <<>>
  /\ writer = "flushing" => outBuffer # <<>>
  /\ writer = "direct" => todo # <<>> /\ outBuffer = <<>>
  /\ writer = "failed" => ReaderEnded

ReaderInv ==
  /\ packet \in Received
  /\ field \in {"version", "code"} => packet = NoPacket
  /\ field = "length" => packet.length = 0 /\ packet.payload = <<>>
  /\ field = "payload" => Len(packet.payload) < packet.length
  /\ received \in Seq(Received)
  /\ reader = "blocked" => pos = filled

\* What was received is what was sent, as far as both go; only an ended writer is
\* followed by more.
InOrder ==
  /\ Len(received) <= Len(sent) \/ writer = "ended"
  /\ \A i \in 1 .. Len(received) : i <= Len(sent) => received[i] = sent[i]

\* The reader is between two packets and has looked at everything.
NothingLeft ==
  /\ Len(received) = Len(sent)
  /\ field = "version" /\ Buffered = <<>> /\ Unsent = <<>>

\* It is in the packet that is being sent.
InPacket ==
  /\ Len(received) + 1 = Len(sent)
  /\ Have \o (Buffered \o Unsent) = Bytes(sent[Len(received) + 1])

\* It has all of the packet before that one.
Behind ==
  /\ Len(received) + 2 = Len(sent)
  /\ Have \o Buffered = Bytes(sent[Len(received) + 1])
  /\ Unsent = Bytes(sent[Len(received) + 2])

\* It goes on after the end of the stream.
PastEnd == writer = "ended" /\ Len(received) >= Len(sent)

Stream == NothingLeft \/ InPacket \/ Behind \/ PastEnd

\* The inductive invariant.
Inv ==
  /\ TypeOK
  /\ WriterInv
  /\ ReaderInv
  /\ InOrder
  /\ ReaderEnded \/ Stream
  /\ NoFalseEnd

-----------------------------------------------------------------------------
(* Pieces and bytes *)

LEMMA ByteFacts ==
  Byte \subseteq Nat /\ 0 \in Byte /\ Codes \subseteq Byte /\ Lengths \subseteq Byte
  BY LengthsAssumption DEF Byte, Codes

LEMMA Concat ==
  /\ \A a, b \in Seq(Byte) : a \o b \in Seq(Byte) /\ Len(a \o b) = Len(a) + Len(b)
  /\ \A a, b, c \in Seq(Byte) : (a \o b) \o c = a \o (b \o c)
  /\ \A a \in Seq(Byte) : a \o <<>> = a /\ <<>> \o a = a
<1>1. \A a, b \in Seq(Byte) : a \o b \in Seq(Byte) /\ Len(a \o b) = Len(a) + Len(b)
  BY ConcatProperties
<1>2. \A a, b, c \in Seq(Byte) : (a \o b) \o c = a \o (b \o c)
  <2> SUFFICES ASSUME NEW a \in Seq(Byte), NEW b \in Seq(Byte), NEW c \in Seq(Byte)
               PROVE  (a \o b) \o c = a \o (b \o c)
    OBVIOUS
  <2> QED BY ConcatAssociative
<1>3. \A a \in Seq(Byte) : a \o <<>> = a /\ <<>> \o a = a
  BY ConcatEmptySeq, Zenon
<1> QED BY <1>1, <1>2, <1>3, Zenon

LEMMA ConcatBytes ==
  ASSUME NEW a \in Seq(Byte), NEW b \in Seq(Byte)
  PROVE  /\ a \o b \in Seq(Byte) /\ Len(a \o b) = Len(a) + Len(b)
         /\ \A i \in 1 .. Len(a) + Len(b) :
              (a \o b)[i] = IF i <= Len(a) THEN a[i] ELSE b[i - Len(a)]
  BY ConcatProperties

LEMMA Associative ==
  ASSUME NEW a \in Seq(Byte), NEW b \in Seq(Byte), NEW c \in Seq(Byte)
  PROVE  (a \o b) \o c = a \o (b \o c)
  BY ConcatAssociative

LEMMA NoBytes ==
  /\ <<>> \in Seq(Byte) /\ Len(<<>>) = 0
  /\ \A a \in Seq(Byte) : Len(a) \in Nat /\ (Len(a) = 0 <=> a = <<>>)
<1>1. <<>> \in Seq(Byte) /\ Len(<<>>) = 0
  BY EmptySeq, Zenon
<1>2. ASSUME NEW a \in Seq(Byte)
      PROVE  Len(a) \in Nat /\ (Len(a) = 0 <=> a = <<>>)
  <2>1. Len(a) \in Nat
    BY LenProperties, Zenon
  <2>2. a # <<>> => Len(a) \in Nat \ {0}
    BY EmptySeq, Zenon
  <2>3. a # <<>> => Len(a) # 0
    BY <2>2
  <2> QED BY <1>1, <2>1, <2>3, Zenon
<1> QED BY <1>1, <1>2, Zenon

LEMMA PieceType ==
  ASSUME NEW t \in Seq(Seq(Byte)), NEW i \in Nat \ {0}
  PROVE  Piece(t, i) \in Seq(Byte)
<1>1. CASE i <= Len(t)
  <2>1. Len(t) \in Nat
    BY LenProperties, Zenon
  <2>2. i \in 1 .. Len(t)
    BY <1>1, <2>1
  <2>3. t[i] \in Seq(Byte)
    BY <2>2, ElementOfSeq, Zenon
  <2> QED BY <1>1, <2>3, Zenon DEF Piece
<1>2. CASE ~ (i <= Len(t))
  BY <1>2, NoBytes, Zenon DEF Piece
<1> QED BY <1>1, <1>2, Zenon

LEMMA JoinedType ==
  ASSUME NEW t \in Seq(Seq(Byte))
  PROVE  Joined(t) \in Seq(Byte)
<1>1. /\ Piece(t, 1) \in Seq(Byte) /\ Piece(t, 2) \in Seq(Byte)
      /\ Piece(t, 3) \in Seq(Byte) /\ Piece(t, 4) \in Seq(Byte)
  BY PieceType
<1> QED BY <1>1, Concat, Zenon DEF Joined

LEMMA NothingJoined ==
  Joined(<<>>) = <<>>
<1>1. ASSUME NEW i \in Nat \ {0}
      PROVE  Piece(<<>>, i) = <<>>
  <2>1. ~ (i <= 0)
    OBVIOUS
  <2> QED BY <2>1, NoBytes, Zenon DEF Piece
<1>2. /\ Piece(<<>>, 1) = <<>> /\ Piece(<<>>, 2) = <<>>
      /\ Piece(<<>>, 3) = <<>> /\ Piece(<<>>, 4) = <<>>
  <2>1. 1 \in Nat \ {0} /\ 2 \in Nat \ {0} /\ 3 \in Nat \ {0} /\ 4 \in Nat \ {0}
    OBVIOUS
  <2> QED BY <1>1, <2>1, Zenon
<1>3. <<>> \o <<>> = <<>>
  BY NoBytes, ConcatEmptySeq, Zenon
<1> QED BY <1>2, <1>3, Zenon DEF Joined

\* The bytes of the pieces are those of the first one and of the others.
LEMMA JoinedFacts ==
  ASSUME NEW t \in Seq(Seq(Byte)), Len(t) <= 4, Len(t) > 0
  PROVE  /\ Head(t) \in Seq(Byte)
         /\ Tail(t) \in Seq(Seq(Byte)) /\ Len(Tail(t)) <= 4
         /\ Joined(t) = Head(t) \o Joined(Tail(t))
<1>0. Len(t) \in Nat
  BY LenProperties, Zenon
<1>1. t # <<>>
  <2>1. Len(t) # 0
    BY <1>0
  <2> QED BY <2>1, EmptySeq, Zenon
<1>2. /\ Head(t) = t[1]
      /\ Tail(t) \in Seq(Seq(Byte)) /\ Len(Tail(t)) = Len(t) - 1
      /\ \A i \in 1 .. Len(Tail(t)) : Tail(t)[i] = t[i + 1]
  <2>1. Head(t) = t[1]
    OBVIOUS
  <2> QED BY <1>1, <2>1, HeadTailProperties, Zenon
<1>3. ASSUME NEW i \in Nat \ {0}
      PROVE  Piece(Tail(t), i) = Piece(t, i + 1)
  <2>1. CASE i <= Len(Tail(t))
    <3>1. i + 1 <= Len(t) /\ i \in 1 .. Len(Tail(t))
      BY <1>0, <1>2, <2>1
    <3> QED BY <1>2, <2>1, <3>1, Zenon DEF Piece
  <2>2. CASE ~ (i <= Len(Tail(t)))
    <3>1. ~ (i + 1 <= Len(t))
      BY <1>0, <1>2, <2>2
    <3> QED BY <2>2, <3>1, Zenon DEF Piece
  <2> QED BY <2>1, <2>2, Zenon
<1>4. /\ Piece(Tail(t), 1) = Piece(t, 2) /\ Piece(Tail(t), 2) = Piece(t, 3)
      /\ Piece(Tail(t), 3) = Piece(t, 4) /\ Piece(Tail(t), 4) = Piece(t, 5)
  <2>1. /\ Piece(Tail(t), 1) = Piece(t, 1 + 1) /\ Piece(Tail(t), 2) = Piece(t, 2 + 1)
        /\ Piece(Tail(t), 3) = Piece(t, 3 + 1) /\ Piece(Tail(t), 4) = Piece(t, 4 + 1)
    <3>1. 1 \in Nat \ {0} /\ 2 \in Nat \ {0} /\ 3 \in Nat \ {0} /\ 4 \in Nat \ {0}
      OBVIOUS
    <3> QED BY <1>3, <3>1, Zenon
  <2>2. 1 + 1 = 2 /\ 2 + 1 = 3 /\ 3 + 1 = 4 /\ 4 + 1 = 5
    OBVIOUS
  <2> QED BY <2>1, <2>2, Zenon
<1>5. Piece(t, 5) = <<>>
  <2>1. ~ (5 <= Len(t))
    BY <1>0
  <2> QED BY <2>1, Zenon DEF Piece
<1>6. Piece(t, 1) = t[1]
  <2>1. 1 <= Len(t)
    BY <1>0
  <2> QED BY <2>1, Zenon DEF Piece
<1>7. /\ Piece(t, 1) \in Seq(Byte) /\ Piece(t, 2) \in Seq(Byte)
      /\ Piece(t, 3) \in Seq(Byte) /\ Piece(t, 4) \in Seq(Byte)
  BY PieceType
<1>8. Joined(Tail(t)) = Piece(t, 2) \o (Piece(t, 3) \o Piece(t, 4))
  <2>1. Piece(t, 4) \o <<>> = Piece(t, 4)
    BY <1>7, ConcatEmptySeq, Zenon
  <2> QED BY <1>4, <1>5, <2>1, Zenon DEF Joined
<1>9. Len(Tail(t)) <= 4
  BY <1>0, <1>2
<1>10. Joined(t) = Head(t) \o Joined(Tail(t))
  BY <1>2, <1>6, <1>8, Zenon DEF Joined
<1> QED BY <1>2, <1>6, <1>7, <1>9, <1>10, Zenon

LEMMA OneByte ==
  ASSUME NEW b \in Byte
  PROVE  <<b>> \in Seq(Byte) /\ Len(<<b>>) = 1 /\ <<b>>[1] = b
  OBVIOUS

LEMMA ThreeBytes ==
  ASSUME NEW a \in Byte, NEW b \in Byte, NEW c \in Byte
  PROVE  /\ <<a, b, c>> \in Seq(Byte) /\ Len(<<a, b, c>>) = 3
         /\ <<a, b, c>>[1] = a /\ <<a, b, c>>[2] = b /\ <<a, b, c>>[3] = c
         /\ <<a, b>> \in Seq(Byte)
         /\ <<a, b, c>> = <<a>> \o (<<b>> \o <<c>>)
         /\ <<a, b>> = <<a>> \o <<b>>
         /\ <<a, b, c>> = <<a, b>> \o <<c>>
<1>1. /\ <<a, b, c>> \in Seq(Byte) /\ Len(<<a, b, c>>) = 3
      /\ <<a, b, c>>[1] = a /\ <<a, b, c>>[2] = b /\ <<a, b, c>>[3] = c
  OBVIOUS
<1>2. <<a, b>> \in Seq(Byte)
  OBVIOUS
<1>3. <<a, b>> = <<a>> \o <<b>>
  <2>1. Len(<<a, b>>) = 2 /\ <<a, b>>[1] = a /\ <<a, b>>[2] = b
    OBVIOUS
  <2>2. /\ <<a>> \o <<b>> \in Seq(Byte) /\ Len(<<a>> \o <<b>>) = 2
        /\ (<<a>> \o <<b>>)[1] = a /\ (<<a>> \o <<b>>)[2] = b
    OBVIOUS
  <2> DEFINE x == <<a, b>>
             y == <<a>> \o <<b>>
  <2>3. /\ x \in Seq(Byte) /\ y \in Seq(Byte) /\ Len(x) = Len(y) /\ Len(x) = 2
        /\ x[1] = y[1] /\ x[2] = y[2]
    BY <1>2, <2>1, <2>2
  <2> HIDE DEF x, y
  <2>4. ASSUME NEW i \in 1 .. Len(x)
        PROVE  x[i] = y[i]
    <3>1. i = 1 \/ i = 2
      BY <2>3
    <3> QED BY <2>3, <3>1, Zenon
  <2>5. x = y
    BY <2>3, <2>4, SeqEqual, Zenon
  <2> QED BY <2>5 DEF x, y
<1>4. <<a, b, c>> = <<a, b>> \o <<c>>
  OBVIOUS
<1>5. (<<a>> \o <<b>>) \o <<c>> = <<a>> \o (<<b>> \o <<c>>)
  BY OneByte, ConcatAssociative
<1> QED BY <1>1, <1>2, <1>3, <1>4, <1>5, Zenon

\* Where the numbers and the payload of a packet are in its bytes.
LEMMA BytesFacts ==
  ASSUME NEW p \in Packets, Len(p.payload) = p.length
  PROVE  /\ Bytes(p) \in Seq(Byte) /\ Len(Bytes(p)) = 3 + p.length
         /\ p.length \in Nat /\ p.length \in Byte /\ p.code \in Byte
         /\ p.payload \in Seq(Byte)
         /\ Bytes(p)[1] = 0 /\ Bytes(p)[2] = p.code /\ Bytes(p)[3] = p.length
         /\ \A i \in 1 .. p.length : Bytes(p)[3 + i] = p.payload[i]
<1> DEFINE h == <<0, p.code, p.length>>
<1>1. p.code \in Byte /\ p.length \in Byte /\ 0 \in Byte /\ p.length \in Nat
  BY ByteFacts, LengthsAssumption DEF Packets
<1>2. h \in Seq(Byte) /\ Len(h) = 3 /\ h[1] = 0 /\ h[2] = p.code /\ h[3] = p.length
  BY <1>1, ThreeBytes, Zenon
<1>3. p.payload \in Seq(Byte)
  BY DEF Packets
<1>4. Bytes(p) = h \o p.payload
  BY DEF Bytes
<1> HIDE DEF h
<1>5. /\ h \o p.payload \in Seq(Byte)
      /\ Len(h \o p.payload) = 3 + p.length
      /\ \A i \in 1 .. 3 + p.length :
           (h \o p.payload)[i] = IF i <= 3 THEN h[i] ELSE p.payload[i - 3]
  <2> DEFINE d == p.payload
  <2>1. d \in Seq(Byte) /\ Len(d) = p.length
    BY <1>3
  <2> HIDE DEF d
  <2>2. /\ h \o d \in Seq(Byte) /\ Len(h \o d) = Len(h) + Len(d)
        /\ \A i \in 1 .. Len(h) + Len(d) :
             (h \o d)[i] = IF i <= Len(h) THEN h[i] ELSE d[i - Len(h)]
    BY <1>2, <2>1, ConcatProperties, Zenon
  <2> QED BY <1>2, <2>1, <2>2, Zenon DEF d
<1>6. Bytes(p)[1] = 0 /\ Bytes(p)[2] = p.code /\ Bytes(p)[3] = p.length
  BY <1>1, <1>2, <1>4, <1>5
<1>7. \A i \in 1 .. p.length : Bytes(p)[3 + i] = p.payload[i]
  BY <1>1, <1>4, <1>5
<1> QED BY <1>1, <1>3, <1>4, <1>5, <1>6, <1>7, Zenon

LEMMA SamePacket ==
  ASSUME NEW p \in Packets, NEW q \in Received,
         q.code = p.code, q.length = p.length, q.payload = p.payload
  PROVE  q = p
<1>1. Codes \subseteq Byte /\ Lengths \subseteq Byte
  BY ByteFacts, Zenon
<1> QED BY <1>1 DEF Packets, Received

LEMMA FourPieces ==
  ASSUME NEW a \in Seq(Byte), NEW b \in Seq(Byte), NEW c \in Seq(Byte),
         NEW d \in Seq(Byte)
  PROVE  <<a, b, c>> \o <<d>> = <<a, b, c, d>> /\ <<a, b, c>> \o <<>> = <<a, b, c>>
<1> DEFINE t == <<a, b, c>>
           u == <<d>>
           v == <<a, b, c, d>>
           B == Seq(Byte)
<1>1. /\ t \in Seq(B) /\ Len(t) = 3 /\ t[1] = a /\ t[2] = b /\ t[3] = c
      /\ u \in Seq(B) /\ Len(u) = 1 /\ u[1] = d
  OBVIOUS
<1>2. /\ v \in Seq(B) /\ Len(v) = 4
      /\ v[1] = a /\ v[2] = b /\ v[3] = c /\ v[4] = d
  OBVIOUS
<1> HIDE DEF t, u, v, B
<1>3. /\ t \o u \in Seq(B) /\ Len(t \o u) = 4
      /\ \A i \in 1 .. 4 : (t \o u)[i] = IF i <= 3 THEN t[i] ELSE u[i - 3]
  <2>1. /\ t \o u \in Seq(B) /\ Len(t \o u) = Len(t) + Len(u)
        /\ \A i \in 1 .. Len(t) + Len(u) :
             (t \o u)[i] = IF i <= Len(t) THEN t[i] ELSE u[i - Len(t)]
    BY <1>1, ConcatProperties, Zenon
  <2>2. Len(t) + Len(u) = 4
    BY <1>1
  <2> QED BY <1>1, <2>1, <2>2, Zenon
<1>4. ASSUME NEW i \in 1 .. Len(v)
      PROVE  v[i] = (t \o u)[i]
  <2>1. i = 1 \/ i = 2 \/ i = 3 \/ i = 4
    BY <1>2
  <2> QED BY <1>1, <1>2, <1>3, <2>1
<1>5. v = t \o u
  BY <1>2, <1>3, <1>4, SeqEqual, Zenon
<1>6. t \o <<>> = t
  BY <1>1, ConcatEmptySeq, Zenon
<1> QED BY <1>5, <1>6, Zenon DEF t, u, v

LEMMA PiecesFacts ==
  ASSUME NEW p \in Packets, Len(p.payload) = p.length
  PROVE  /\ Pieces(p) \in Seq(Seq(Byte)) /\ Len(Pieces(p)) <= 4
         /\ Joined(Pieces(p)) = Bytes(p)
<1> DEFINE a == <<0>>
           b == <<p.code>>
           c == <<p.length>>
           d == p.payload
<1>1. p.code \in Byte /\ p.length \in Byte /\ 0 \in Byte /\ p.length \in Nat
  BY ByteFacts, LengthsAssumption DEF Packets
<1>2. a \in Seq(Byte) /\ b \in Seq(Byte) /\ c \in Seq(Byte) /\ d \in Seq(Byte)
  BY <1>1 DEF Packets
<1>3. Bytes(p) = (a \o (b \o c)) \o d
  BY <1>1, ThreeBytes, ZenonT(40) DEF Bytes
<1>4. Pieces(p) = IF p.length > 0 THEN <<a, b, c, d>> ELSE <<a, b, c>>
  <2>1. Pieces(p) = <<a, b, c>> \o (IF p.length > 0 THEN <<d>> ELSE <<>>)
    BY DEF Pieces
  <2> HIDE DEF a, b, c, d
  <2>2. <<a, b, c>> \o <<d>> = <<a, b, c, d>> /\ <<a, b, c>> \o <<>> = <<a, b, c>>
    BY <1>2, FourPieces, Zenon
  <2>3. CASE p.length > 0
    BY <2>1, <2>2, <2>3, Zenon
  <2>4. CASE ~ (p.length > 0)
    BY <2>1, <2>2, <2>4, Zenon
  <2> QED BY <2>3, <2>4, Zenon
<1>5. ~ (p.length > 0) => d = <<>>
  BY <1>1, <1>2, NoBytes
<1> HIDE DEF a, b, c, d
<1>6. (a \o (b \o c)) \o d = a \o (b \o (c \o d))
  <2>1. b \o c \in Seq(Byte)
    BY <1>2, Concat, Zenon
  <2>2. (a \o (b \o c)) \o d = a \o ((b \o c) \o d)
    BY <1>2, <2>1, Concat, ZenonT(40)
  <2>3. (b \o c) \o d = b \o (c \o d)
    BY <1>2, Concat, ZenonT(40)
  <2> QED BY <2>2, <2>3, Zenon
<1>7. CASE p.length > 0
  <2> DEFINE t == <<a, b, c, d>>
  <2>1. /\ t \in Seq(Seq(Byte)) /\ Len(t) = 4
        /\ t[1] = a /\ t[2] = b /\ t[3] = c /\ t[4] = d
    BY <1>2
  <2>2. Pieces(p) = t
    BY <1>4, <1>7, Zenon
  <2> HIDE DEF t
  <2>3. Piece(t, 1) = a /\ Piece(t, 2) = b /\ Piece(t, 3) = c /\ Piece(t, 4) = d
    <3>1. 1 <= Len(t) /\ 2 <= Len(t) /\ 3 <= Len(t) /\ 4 <= Len(t)
      BY <2>1
    <3> QED BY <2>1, <3>1, Zenon DEF Piece
  <2>4. Joined(t) = a \o (b \o (c \o d))
    BY <2>3, Zenon DEF Joined
  <2>5. Len(t) <= 4
    BY <2>1
  <2> QED BY <1>3, <1>6, <2>1, <2>2, <2>4, <2>5, Zenon
<1>8. CASE ~ (p.length > 0)
  <2> DEFINE t == <<a, b, c>>
  <2>1. /\ t \in Seq(Seq(Byte)) /\ Len(t) = 3
        /\ t[1] = a /\ t[2] = b /\ t[3] = c
    BY <1>2
  <2>2. Pieces(p) = t
    BY <1>4, <1>8, Zenon
  <2> HIDE DEF t
  <2>3. Piece(t, 1) = a /\ Piece(t, 2) = b /\ Piece(t, 3) = c /\ Piece(t, 4) = d
    <3>1. 1 <= Len(t) /\ 2 <= Len(t) /\ 3 <= Len(t) /\ ~ (4 <= Len(t))
      BY <2>1
    <3> QED BY <1>5, <1>8, <2>1, <3>1, Zenon DEF Piece
  <2>4. Joined(t) = a \o (b \o (c \o d))
    BY <2>3, Zenon DEF Joined
  <2>5. Len(t) <= 4
    BY <2>1
  <2> QED BY <1>3, <1>6, <2>1, <2>2, <2>4, <2>5, Zenon
<1> QED BY <1>7, <1>8, Zenon

LEMMA ChunkFacts ==
  ASSUME NEW f, NEW k \in Nat, NEW n \in Nat, \A i \in 1 .. n : f[k + i] \in Byte
  PROVE  /\ Chunk(f, k, n) \in Seq(Byte) /\ Len(Chunk(f, k, n)) = n
         /\ \A i \in 1 .. n : Chunk(f, k, n)[i] = f[k + i]
  BY DEF Chunk

\* A chunk is a shorter one and the rest.
LEMMA ChunkSplits ==
  ASSUME NEW f, NEW k \in Nat, NEW n \in Nat, \A i \in 1 .. n : f[k + i] \in Byte,
         NEW m \in 0 .. n
  PROVE  /\ Chunk(f, k, m) \in Seq(Byte) /\ Len(Chunk(f, k, m)) = m
         /\ Chunk(f, k + m, n - m) \in Seq(Byte)
         /\ Len(Chunk(f, k + m, n - m)) = n - m
         /\ Chunk(f, k, n) = Chunk(f, k, m) \o Chunk(f, k + m, n - m)
<1> DEFINE x == Chunk(f, k, n)
           y == Chunk(f, k, m)
           z == Chunk(f, k + m, n - m)
<1>1. x \in Seq(Byte) /\ Len(x) = n /\ \A i \in 1 .. n : x[i] = f[k + i]
  BY ChunkFacts, Zenon
<1>2. y \in Seq(Byte) /\ Len(y) = m /\ \A i \in 1 .. m : y[i] = f[k + i]
  <2>1. m \in Nat /\ \A i \in 1 .. m : f[k + i] \in Byte
    OBVIOUS
  <2> QED BY <2>1, ChunkFacts, Zenon
<1>3. z \in Seq(Byte) /\ Len(z) = n - m /\ \A i \in 1 .. n - m : z[i] = f[k + m + i]
  <2>1. k + m \in Nat /\ n - m \in Nat
    OBVIOUS
  <2>2. \A i \in 1 .. n - m : f[k + m + i] \in Byte
    <3> TAKE i \in 1 .. n - m
    <3>1. m + i \in 1 .. n /\ k + (m + i) = k + m + i
      OBVIOUS
    <3> QED BY <3>1, Zenon
  <2> QED BY <2>1, <2>2, ChunkFacts, Zenon
<1> HIDE DEF x, y, z
<1>4. /\ y \o z \in Seq(Byte) /\ Len(y \o z) = Len(y) + Len(z)
      /\ \A i \in 1 .. Len(y) + Len(z) :
           (y \o z)[i] = IF i <= Len(y) THEN y[i] ELSE z[i - Len(y)]
  BY <1>2, <1>3, ConcatProperties, Zenon
<1>5. Len(x) = Len(y \o z)
  BY <1>1, <1>2, <1>3, <1>4
<1>6. ASSUME NEW i \in 1 .. Len(x)
      PROVE  x[i] = (y \o z)[i]
  <2>1. i \in 1 .. n /\ i \in 1 .. Len(y) + Len(z) /\ x[i] = f[k + i]
    BY <1>1, <1>2, <1>3
  <2>2. CASE i <= Len(y)
    <3>1. i \in 1 .. m
      BY <1>2, <2>1, <2>2
    <3> QED BY <1>2, <1>4, <2>1, <2>2, <3>1, Zenon
  <2>3. CASE ~ (i <= Len(y))
    <3>1. i - m \in 1 .. n - m /\ k + m + (i - m) = k + i
      BY <1>2, <2>1, <2>3
    <3> QED BY <1>2, <1>3, <1>4, <2>1, <2>3, <3>1, Zenon
  <2> QED BY <2>2, <2>3, Zenon
<1>7. x = y \o z
  BY <1>1, <1>4, <1>5, <1>6, SeqEqual, Zenon
<1> QED BY <1>2, <1>3, <1>7, Zenon DEF x, y, z

LEMMA Regroup ==
  ASSUME NEW a \in Seq(Byte), NEW b \in Seq(Byte), NEW c \in Seq(Byte),
         NEW d \in Seq(Byte)
  PROVE  (a \o b) \o (c \o d) = a \o ((b \o c) \o d)
<1>1. b \o c \in Seq(Byte) /\ c \o d \in Seq(Byte)
  BY Concat, Zenon
<1>2. (a \o b) \o (c \o d) = a \o (b \o (c \o d))
  BY <1>1, Concat, ZenonT(40)
<1>3. (b \o c) \o d = b \o (c \o d)
  BY Concat, ZenonT(40)
<1> QED BY <1>2, <1>3, Zenon

-----------------------------------------------------------------------------
(* What the reader has of a packet *)

LEMMA BufferedFacts ==
  ASSUME TypeOK
  PROVE  /\ pos \in Nat /\ filled \in Nat /\ filled - pos \in Nat
         /\ Buffered \in Seq(Byte) /\ Len(Buffered) = filled - pos
         /\ \A i \in 1 .. filled - pos : inBuffer[pos + i] \in Byte
         /\ \A i \in 1 .. filled - pos : Buffered[i] = inBuffer[pos + i]
<1>1. MaxLen \in Nat /\ filled \in 0 .. MaxLen /\ pos \in 0 .. filled
  BY LengthsAssumption DEF TypeOK
<1>2. pos \in Nat /\ filled \in Nat /\ filled - pos \in Nat
  BY <1>1
<1>3. \A i \in 1 .. filled - pos : inBuffer[pos + i] \in Byte
  <2> TAKE i \in 1 .. filled - pos
  <2>1. pos + i \in 1 .. MaxLen
    BY <1>1
  <2> QED BY <2>1 DEF TypeOK
<1> QED BY <1>2, <1>3, ChunkFacts, Zenon DEF Buffered

LEMMA HaveFacts ==
  ASSUME TypeOK, ReaderInv
  PROVE  /\ Have \in Seq(Byte)
         /\ field = "version" => Len(Have) = 0
         /\ field = "code" => Len(Have) = 1
         /\ field = "length" => Len(Have) = 2 /\ Have[2] = packet.code
         /\ field = "payload" =>
              /\ Len(Have) = 3 + Len(packet.payload)
              /\ Have[2] = packet.code /\ Have[3] = packet.length
              /\ \A i \in 1 .. Len(packet.payload) : Have[3 + i] = packet.payload[i]
<1>1. /\ packet.code \in Byte /\ packet.length \in Byte
      /\ packet.payload \in Seq(Byte) /\ 0 \in Byte
  BY ByteFacts DEF ReaderInv, Received
<1>2. field \in {"version", "code", "length", "payload"}
  BY DEF TypeOK, Fields
<1>3. CASE field = "version"
  BY <1>3, NoBytes DEF Have
<1>4. CASE field = "code"
  BY <1>1, <1>4, OneByte DEF Have
<1>5. CASE field = "length"
  <2>1. Have = <<0, packet.code>>
    BY <1>5 DEF Have
  <2>2. /\ <<0, packet.code>> \in Seq(Byte) /\ Len(<<0, packet.code>>) = 2
        /\ <<0, packet.code>>[2] = packet.code
    BY <1>1
  <2> QED BY <1>5, <2>1, <2>2
<1>6. CASE field = "payload"
  <2> DEFINE h == <<0, packet.code, packet.length>>
             d == packet.payload
  <2>1. Have = h \o d
    BY <1>6 DEF Have
  <2>2. /\ h \in Seq(Byte) /\ Len(h) = 3
        /\ h[1] = 0 /\ h[2] = packet.code /\ h[3] = packet.length
    BY <1>1, ThreeBytes, Zenon
  <2>3. d \in Seq(Byte) /\ Len(d) \in Nat
    BY <1>1, LenProperties, Zenon
  <2> HIDE DEF h, d
  <2>4. /\ h \o d \in Seq(Byte) /\ Len(h \o d) = Len(h) + Len(d)
        /\ \A i \in 1 .. Len(h) + Len(d) :
             (h \o d)[i] = IF i <= Len(h) THEN h[i] ELSE d[i - Len(h)]
    BY <2>2, <2>3, ConcatProperties, Zenon
  <2>5. (h \o d)[2] = packet.code /\ (h \o d)[3] = packet.length
    BY <2>2, <2>3, <2>4
  <2>6. \A i \in 1 .. Len(d) : (h \o d)[3 + i] = d[i]
    BY <2>2, <2>3, <2>4
  <2>7. Len(h \o d) = 3 + Len(d)
    BY <2>2, <2>4, Zenon
  <2>8. field # "version" /\ field # "code" /\ field # "length"
    BY <1>6
  <2> QED BY <2>1, <2>4, <2>5, <2>6, <2>7, <2>8, Zenon DEF d
<1> QED BY <1>2, <1>3, <1>4, <1>5, <1>6, Zenon

\* When what it has is the beginning of a packet, its numbers and its payload are
\* those of the packet and something is missing.
LEMMA HaveIsShort ==
  ASSUME TypeOK, ReaderInv,
         NEW p \in Packets, Len(p.payload) = p.length,
         NEW X \in Seq(Byte), Have \o X = Bytes(p)
  PROVE  /\ Len(X) \in Nat /\ Len(X) > 0 /\ Len(Have) + Len(X) = 3 + p.length
         /\ field = "version" => X[1] = 0
         /\ field = "code" => X[1] = p.code
         /\ field = "length" => X[1] = p.length /\ packet.code = p.code
         /\ field = "payload" =>
              /\ packet.code = p.code /\ packet.length = p.length
              /\ \A i \in 1 .. Len(packet.payload) : packet.payload[i] = p.payload[i]
              /\ \A i \in 1 .. Len(X) : X[i] = p.payload[Len(packet.payload) + i]
<1>1. /\ Len(Bytes(p)) = 3 + p.length /\ p.length \in Nat
      /\ Bytes(p)[1] = 0 /\ Bytes(p)[2] = p.code /\ Bytes(p)[3] = p.length
      /\ \A i \in 1 .. p.length : Bytes(p)[3 + i] = p.payload[i]
  BY BytesFacts, Zenon
<1>2. Have \in Seq(Byte) /\ Len(Have) \in Nat /\ Len(X) \in Nat
  BY HaveFacts, LenProperties, Zenon
<1>3. /\ Len(Have \o X) = Len(Have) + Len(X)
      /\ \A i \in 1 .. Len(Have) + Len(X) :
           (Have \o X)[i] = IF i <= Len(Have) THEN Have[i] ELSE X[i - Len(Have)]
  BY <1>2, ConcatProperties, Zenon
<1>4. \A i \in 1 .. Len(Have) : Have[i] = Bytes(p)[i]
  BY <1>2, <1>3
<1>5. \A i \in 1 .. Len(X) : X[i] = Bytes(p)[Len(Have) + i]
  BY <1>2, <1>3
<1>6. Len(Have) + Len(X) = 3 + p.length
  BY <1>1, <1>3, Zenon
<1>7. field \in {"version", "code", "length", "payload"}
  BY DEF TypeOK, Fields
<1>8. CASE field = "version"
  <2>1. Len(Have) = 0
    BY <1>8, HaveFacts, Zenon
  <2> QED BY <1>1, <1>2, <1>5, <1>6, <1>8, <2>1
<1>9. CASE field = "code"
  <2>1. Len(Have) = 1
    BY <1>9, HaveFacts, Zenon
  <2> QED BY <1>1, <1>2, <1>5, <1>6, <1>9, <2>1
<1>10. CASE field = "length"
  <2>1. Len(Have) = 2 /\ Have[2] = packet.code
    BY <1>10, HaveFacts, Zenon
  <2> QED BY <1>1, <1>2, <1>4, <1>5, <1>6, <1>10, <2>1
<1>11. CASE field = "payload"
  <2> DEFINE n == Len(packet.payload)
  <2>1. /\ Len(Have) = 3 + n /\ Have[2] = packet.code /\ Have[3] = packet.length
        /\ \A i \in 1 .. n : Have[3 + i] = packet.payload[i]
    BY <1>11, HaveFacts, Zenon
  <2>2. n \in Nat /\ n < packet.length
    BY <1>11, LenProperties DEF ReaderInv
  <2> HIDE DEF n
  <2>3. packet.code = p.code /\ packet.length = p.length
    BY <1>1, <1>4, <2>1, <2>2
  <2>4. Len(X) > 0
    BY <1>1, <1>2, <1>6, <2>1, <2>2, <2>3
  <2>5. ASSUME NEW i \in 1 .. n
        PROVE  packet.payload[i] = p.payload[i]
    <3>1. 3 + i \in 1 .. Len(Have) /\ i \in 1 .. p.length
      BY <1>1, <2>1, <2>2, <2>3
    <3> QED BY <1>1, <1>4, <2>1, <3>1, Zenon
  <2>6. ASSUME NEW i \in 1 .. Len(X)
        PROVE  X[i] = p.payload[n + i]
    <3>1. Len(Have) + i = 3 + (n + i) /\ n + i \in 1 .. p.length
      BY <1>1, <1>2, <1>6, <2>1, <2>2
    <3> QED BY <1>1, <1>5, <3>1, Zenon
  <2>7. field # "version" /\ field # "code" /\ field # "length"
    BY <1>11
  <2> QED BY <1>2, <1>6, <2>3, <2>4, <2>5, <2>6, <2>7, Zenon DEF n
<1> QED BY <1>7, <1>8, <1>9, <1>10, <1>11, Zenon

LEMMA BufferedTaken ==
  ASSUME TypeOK, NEW m \in 0 .. filled - pos,
         pos' = pos + m, filled' = filled, inBuffer' = inBuffer
  PROVE  /\ Chunk(inBuffer, pos, m) \in Seq(Byte) /\ Len(Chunk(inBuffer, pos, m)) = m
         /\ \A i \in 1 .. m : Chunk(inBuffer, pos, m)[i] = inBuffer[pos + i]
         /\ Buffered' \in Seq(Byte) /\ Len(Buffered') = filled - pos - m
         /\ Buffered = Chunk(inBuffer, pos, m) \o Buffered'
<1>1. /\ pos \in Nat /\ filled - pos \in Nat /\ filled \in Nat
      /\ \A i \in 1 .. filled - pos : inBuffer[pos + i] \in Byte
  BY BufferedFacts, Zenon
<1>2. Buffered' = Chunk(inBuffer, pos + m, filled - pos - m)
  <2>1. Buffered' = Chunk(inBuffer, pos + m, filled - (pos + m))
    BY DEF Buffered
  <2>2. filled - (pos + m) = filled - pos - m
    BY <1>1
  <2> QED BY <2>1, <2>2, Zenon
<1>3. \A i \in 1 .. m : Chunk(inBuffer, pos, m)[i] = inBuffer[pos + i]
  <2>1. m \in Nat /\ \A i \in 1 .. m : inBuffer[pos + i] \in Byte
    BY <1>1
  <2> QED BY <1>1, <2>1, ChunkFacts, Zenon
<1>4. /\ Chunk(inBuffer, pos, m) \in Seq(Byte) /\ Len(Chunk(inBuffer, pos, m)) = m
      /\ Chunk(inBuffer, pos + m, filled - pos - m) \in Seq(Byte)
      /\ Len(Chunk(inBuffer, pos + m, filled - pos - m)) = filled - pos - m
      /\ Chunk(inBuffer, pos, filled - pos)
           = Chunk(inBuffer, pos, m) \o Chunk(inBuffer, pos + m, filled - pos - m)
  <2> DEFINE n == filled - pos
  <2>1. n \in Nat /\ m \in 0 .. n /\ \A i \in 1 .. n : inBuffer[pos + i] \in Byte
    BY <1>1
  <2> HIDE DEF n
  <2>2. /\ Chunk(inBuffer, pos, m) \in Seq(Byte) /\ Len(Chunk(inBuffer, pos, m)) = m
        /\ Chunk(inBuffer, pos + m, n - m) \in Seq(Byte)
        /\ Len(Chunk(inBuffer, pos + m, n - m)) = n - m
        /\ Chunk(inBuffer, pos, n)
             = Chunk(inBuffer, pos, m) \o Chunk(inBuffer, pos + m, n - m)
    BY <1>1, <2>1, ChunkSplits, ZenonT(40)
  <2> QED BY <2>2, Zenon DEF n
<1> QED BY <1>2, <1>3, <1>4, Zenon DEF Buffered

\* What happens to the packet p the reader is in when it takes bytes: it has more
\* of p, or all of it.
Consumed(p, X) ==
  /\ reader' = reader
  /\ \/ /\ received' = received /\ Buffered' \in Seq(Byte)
        /\ Have' \o (Buffered' \o X) = Bytes(p)
     \/ /\ received' = Append(received, p)
        /\ field' = "version" /\ Buffered' = <<>> /\ X = <<>>

LEMMA NumberConsumed ==
  ASSUME TypeOK, ReaderInv, TakeNumber,
         NEW p \in Packets, Len(p.payload) = p.length,
         NEW X \in Seq(Byte), Have \o (Buffered \o X) = Bytes(p)
  PROVE  (reader' = "no_block" /\ received' = received) \/ Consumed(p, X)
<1> DEFINE b == inBuffer[pos + 1]
           c == Chunk(inBuffer, pos, 1)
<1>1. /\ pos < filled /\ pos' = pos + 1 /\ field # "payload" /\ reader = "ready"
      /\ filled' = filled /\ inBuffer' = inBuffer
      /\ NumberRead(b)
  BY DEF TakeNumber
<1>2. /\ pos \in Nat /\ filled \in Nat /\ 1 \in 0 .. filled - pos
      /\ Buffered \in Seq(Byte) /\ Len(Buffered) = filled - pos
  <2>1. /\ pos \in Nat /\ filled \in Nat
        /\ Buffered \in Seq(Byte) /\ Len(Buffered) = filled - pos
    BY BufferedFacts, Zenon
  <2> QED BY <1>1, <2>1
<1>3. /\ c \in Seq(Byte) /\ Len(c) = 1 /\ c[1] = b
      /\ Buffered' \in Seq(Byte) /\ Len(Buffered') = filled - pos - 1
      /\ Buffered = c \o Buffered'
  <2>1. 1 \in 1 .. 1
    OBVIOUS
  <2> QED BY <1>1, <1>2, <2>1, BufferedTaken, Zenon
<1>4. b \in Byte
  BY <1>3, ElementOfSeq
<1>5. c = <<b>>
  BY <1>3, <1>4
<1> HIDE DEF b, c
<1>6. Buffered \o X \in Seq(Byte) /\ Buffered' \o X \in Seq(Byte)
  BY <1>2, <1>3, Concat, Zenon
<1>7. Buffered \o X = c \o (Buffered' \o X)
  <2> DEFINE r == Buffered'
  <2>1. c \in Seq(Byte) /\ r \in Seq(Byte) /\ X \in Seq(Byte) /\ Buffered = c \o r
    BY <1>3, Zenon
  <2> HIDE DEF r
  <2>2. (c \o r) \o X = c \o (r \o X)
    BY <2>1, Concat, Zenon
  <2> QED BY <2>1, <2>2, Zenon DEF r
<1>8. (Buffered \o X)[1] = b
  <2> DEFINE r == Buffered' \o X
  <2>1. r \in Seq(Byte) /\ Len(r) \in Nat
    BY <1>6, LenProperties, Zenon
  <2> HIDE DEF r
  <2>2. \A i \in 1 .. Len(c) + Len(r) :
          (c \o r)[i] = IF i <= Len(c) THEN c[i] ELSE r[i - Len(c)]
    BY <1>3, <2>1, ConcatProperties, Zenon
  <2>3. (c \o r)[1] = b
    <3>1. 1 \in 1 .. Len(c) + Len(r) /\ 1 <= Len(c)
      BY <1>3, <2>1
    <3> QED BY <1>3, <2>2, <3>1, Zenon
  <2> QED BY <1>7, <2>3, Zenon DEF r
<1>9. /\ Len(Have) + Len(Buffered \o X) = 3 + p.length
      /\ field = "version" => b = 0
      /\ field = "code" => b = p.code
      /\ field = "length" => b = p.length /\ packet.code = p.code
  BY <1>6, <1>8, HaveIsShort, Zenon
<1>10. Have \in Seq(Byte)
  BY HaveFacts, Zenon
\* One more number of the header.
<1>11. ASSUME Have' = Have \o c
       PROVE  Have' \o (Buffered' \o X) = Bytes(p)
  <2>1. (Have \o c) \o (Buffered' \o X) = Have \o (c \o (Buffered' \o X))
    <3> DEFINE h == Have
               r == Buffered' \o X
    <3>1. h \in Seq(Byte) /\ r \in Seq(Byte)
      BY <1>6, <1>10, Zenon
    <3> HIDE DEF h, r
    <3>2. (h \o c) \o r = h \o (c \o r)
      BY <1>3, <3>1, Concat, ZenonT(40)
    <3> QED BY <3>2, Zenon DEF h, r
  <2> QED BY <1>7, <1>11, <2>1, Zenon
<1>12. /\ packet.code \in Byte /\ packet.length \in Byte
       /\ packet.payload \in Seq(Byte) /\ 0 \in Byte
  BY ByteFacts DEF ReaderInv, Received
<1>13. CASE field = "version" /\ field' = "code" /\ UNCHANGED <<packet, received, reader>>
  <2>1. Have = <<>> /\ Have' = <<0>>
    BY <1>13 DEF Have
  <2>2. c = <<0>>
    BY <1>5, <1>9, <1>13, Zenon
  <2>3. <<>> \o c = c
    BY <1>3, ConcatEmptySeq, Zenon
  <2>4. Have' = Have \o c
    BY <2>1, <2>2, <2>3, Zenon
  <2> QED BY <1>3, <1>11, <1>13, <2>4, Zenon DEF Consumed
<1>14. CASE /\ field = "code" /\ field' = "length"
            /\ packet' = [packet EXCEPT !.code = b]
            /\ UNCHANGED <<received, reader>>
  <2>1. Have = <<0>> /\ Have' = <<0, packet'.code>>
    BY <1>14 DEF Have
  <2>2. packet'.code = b
    BY <1>14 DEF ReaderInv, Received
  <2>3. <<0>> \o <<b>> = <<0, b>>
    BY <1>4, <1>12, ThreeBytes, Zenon
  <2>4. Have' = Have \o c
    BY <1>5, <2>1, <2>2, <2>3, Zenon
  <2> QED BY <1>3, <1>11, <1>14, <2>4, Zenon DEF Consumed
<1>15. CASE field = "length" /\ b = 0 /\ Deliver(packet) /\ UNCHANGED reader
  <2>1. p.length = 0 /\ packet.code = p.code
    BY <1>9, <1>15, Zenon
  <2>2. packet.length = 0 /\ packet.payload = <<>>
    BY <1>15 DEF ReaderInv
  <2>3. p.payload = <<>>
    BY <2>1, BytesFacts, NoBytes, Zenon
  <2>4. packet = p
    <3>1. packet.payload = p.payload /\ packet.length = p.length
      BY <2>1, <2>2, <2>3, Zenon
    <3>2. packet \in Received
      BY Zenon DEF ReaderInv
    <3> QED BY <2>1, <3>1, <3>2, SamePacket, Zenon
  <2>5. Len(Have) = 2
    BY <1>15, HaveFacts, Zenon
  <2>6. Len(Buffered \o X) = 1 + (Len(Buffered') + Len(X))
    <3> DEFINE r == Buffered' \o X
    <3> HIDE DEF r
    <3>0. r \in Seq(Byte) /\ Buffered \o X = c \o r
      BY <1>6, <1>7, Zenon DEF r
    <3>1. Len(Buffered \o X) = Len(c) + Len(r)
      <4>1. Len(c \o r) = Len(c) + Len(r)
        BY <1>3, <3>0, Concat, Zenon
      <4> QED BY <3>0, <4>1, Zenon
    <3>2. Len(r) = Len(Buffered') + Len(X)
      BY <1>3, Concat, Zenon DEF r
    <3> QED BY <1>3, <3>1, <3>2, Zenon
  <2>7. Len(Buffered') = 0 /\ Len(X) = 0
    <3>1. Len(Buffered') \in Nat /\ Len(X) \in Nat
      BY <1>3, LenProperties, Zenon
    <3> QED BY <1>9, <2>1, <2>5, <2>6, <3>1
  <2>8. Buffered' = <<>> /\ X = <<>>
    BY <1>3, <2>7, NoBytes, Zenon
  <2> QED BY <1>15, <2>4, <2>8, Zenon DEF Consumed, Deliver
<1>16. CASE /\ field = "length" /\ field' = "payload"
            /\ packet' = [packet EXCEPT !.length = b]
            /\ UNCHANGED <<received, reader>>
  <2>1. Have = <<0, packet.code>> /\ packet.payload = <<>>
    BY <1>16 DEF Have, ReaderInv
  <2>2. packet'.code = packet.code /\ packet'.length = b /\ packet'.payload = <<>>
    BY <1>16, <2>1 DEF ReaderInv, Received
  <2>3. Have' = <<0, packet'.code, packet'.length>> \o packet'.payload
    BY <1>16 DEF Have
  <2>4. <<0, packet.code, b>> \in Seq(Byte)
    BY <1>4, <1>12, ThreeBytes, Zenon
  <2>5. <<0, packet.code, b>> \o <<>> = <<0, packet.code, b>>
    BY <2>4, ConcatEmptySeq, Zenon
  <2>6. <<0, packet.code, b>> = <<0, packet.code>> \o <<b>>
    BY <1>4, <1>12, ThreeBytes, Zenon
  <2>7. Have' = Have \o c
    BY <1>5, <2>1, <2>2, <2>3, <2>5, <2>6, Zenon
  <2> QED BY <1>3, <1>11, <1>16, <2>7, Zenon DEF Consumed
<1>17. CASE reader' = "no_block" /\ UNCHANGED <<field, packet, received>>
  BY <1>17
<1> QED BY <1>1, <1>13, <1>14, <1>15, <1>16, <1>17 DEF NumberRead

LEMMA PayloadConsumed ==
  ASSUME TypeOK, ReaderInv, TakePayload,
         NEW p \in Packets, Len(p.payload) = p.length,
         NEW X \in Seq(Byte), Have \o (Buffered \o X) = Bytes(p)
  PROVE  Consumed(p, X)
<1> DEFINE missing == packet.length - Len(packet.payload)
           n == IF missing < filled - pos THEN missing ELSE filled - pos
           c == Chunk(inBuffer, pos, n)
           more == [packet EXCEPT !.payload = @ \o c]
           d == packet.payload
           r == Buffered' \o X
<1>1. /\ pos < filled /\ pos' = pos + n /\ field = "payload"
      /\ reader' = reader /\ filled' = filled /\ inBuffer' = inBuffer
      /\ \/ n = missing /\ Deliver(more)
         \/ n < missing /\ packet' = more /\ UNCHANGED <<field, received>>
  BY DEF TakePayload, Chunk
<1>2. /\ packet \in Received /\ packet.code \in Byte /\ packet.length \in Nat
      /\ d \in Seq(Byte) /\ Len(d) \in Nat /\ Len(d) < packet.length
  BY <1>1, ByteFacts, LenProperties DEF ReaderInv, Received
<1>3. /\ filled - pos \in Nat
      /\ Buffered \in Seq(Byte) /\ Len(Buffered) = filled - pos
  BY BufferedFacts, Zenon
<1>4. n \in 0 .. filled - pos /\ n \in Nat /\ missing \in Nat
  BY <1>2, <1>3
<1>5. /\ c \in Seq(Byte) /\ Len(c) = n
      /\ Buffered' \in Seq(Byte) /\ Len(Buffered') = filled - pos - n
      /\ Buffered = c \o Buffered'
  <2> HIDE DEF n
  <2> QED BY <1>1, <1>4, BufferedTaken, Zenon
<1> HIDE DEF n, c, d
<1>6. r \in Seq(Byte) /\ Buffered \o X \in Seq(Byte) /\ Len(r) = Len(Buffered') + Len(X)
  BY <1>3, <1>5, Concat, Zenon
<1>7. Buffered \o X = c \o r
  <2>1. (c \o Buffered') \o X = c \o (Buffered' \o X)
    <3> DEFINE y == Buffered'
    <3> HIDE DEF y
    <3>1. y \in Seq(Byte)
      BY <1>5, Zenon DEF y
    <3>2. (c \o y) \o X = c \o (y \o X)
      BY <1>5, <3>1, Concat, Zenon
    <3> QED BY <3>2, Zenon DEF y
  <2> QED BY <1>5, <2>1, Zenon
<1> HIDE DEF r
<1>8. /\ c \o r \in Seq(Byte) /\ Len(c \o r) = Len(c) + Len(r)
      /\ \A i \in 1 .. Len(c) + Len(r) :
           (c \o r)[i] = IF i <= Len(c) THEN c[i] ELSE r[i - Len(c)]
  BY <1>5, <1>6, ConcatBytes
<1>9. /\ Len(Have) + Len(c \o r) = 3 + p.length
      /\ packet.code = p.code /\ packet.length = p.length
      /\ \A i \in 1 .. Len(d) : d[i] = p.payload[i]
      /\ \A i \in 1 .. Len(c \o r) : (c \o r)[i] = p.payload[Len(d) + i]
  <2>1. Have \o (c \o r) = Bytes(p)
    BY <1>7, Zenon
  <2> QED BY <1>1, <1>8, <2>1, HaveIsShort, Zenon DEF d
<1>10. Len(Have) = 3 + Len(d) /\ Have \in Seq(Byte)
  BY <1>1, HaveFacts, Zenon DEF d
<1>11. /\ more \in Received /\ more.code = packet.code /\ more.length = packet.length
       /\ more.payload = d \o c
  <2>1. d \o c \in Seq(Byte)
    BY <1>2, <1>5, Concat, Zenon
  <2>2. more = [packet EXCEPT !.payload = d \o c]
    BY DEF d
  <2> HIDE DEF more
  <2> QED BY <1>2, <2>1, <2>2 DEF Received
<1> HIDE DEF more
<1>12. CASE n < missing /\ packet' = more /\ UNCHANGED <<field, received>>
  <2> DEFINE h == <<0, packet.code, packet.length>>
  <2>1. Have = h \o d /\ Have' = h \o (d \o c)
    BY <1>1, <1>11, <1>12 DEF Have, d
  <2>2. h \in Seq(Byte)
    BY <1>2, ByteFacts, ThreeBytes DEF Received
  <2> HIDE DEF h
  <2>3. h \o (d \o c) = (h \o d) \o c
    BY <1>2, <1>5, <2>2, Concat, ZenonT(40)
  <2> DEFINE k == h \o d
  <2>4. k \in Seq(Byte) /\ Have = k /\ Have' = k \o c
    BY <1>10, <2>1, <2>3, Zenon
  <2> HIDE DEF k
  <2>5. (k \o c) \o r = k \o (c \o r)
    BY <1>5, <1>6, <2>4, Associative
  <2>6. Have' \o r = Bytes(p)
    BY <1>7, <2>4, <2>5, Zenon
  <2> QED BY <1>1, <1>5, <1>12, <2>6, Zenon DEF Consumed, r
<1>13. CASE n = missing /\ Deliver(more)
  <2>1. Len(r) = 0 /\ Len(d) + Len(c) = p.length
    <3>1. Len(r) \in Nat
      BY <1>6, LenProperties, Zenon
    <3>2. Len(c) = packet.length - Len(d)
      BY <1>5, <1>13 DEF d
    <3>3. 3 + Len(d) + (Len(c) + Len(r)) = 3 + packet.length
      BY <1>8, <1>9, <1>10, Zenon
    <3>4. Len(r) = 0 /\ Len(d) + Len(c) = packet.length
      <4> DEFINE x == Len(d)
                 y == Len(c)
                 z == Len(r)
                 w == packet.length
      <4>1. x \in Nat /\ z \in Nat /\ w \in Nat /\ y = w - x
        BY <1>2, <3>1, <3>2, Zenon
      <4>2. 3 + x + (y + z) = 3 + w
        BY <3>3, Zenon
      <4> HIDE DEF x, y, z, w
      <4>3. z = 0 /\ x + y = w
        BY <4>1, <4>2
      <4> QED BY <4>3, Zenon DEF x, y, z, w
    <3> QED BY <1>9, <3>4, Zenon
  <2>2. Buffered' = <<>> /\ X = <<>>
    <3>1. Len(Buffered') \in Nat /\ Len(X) \in Nat
      BY <1>5, LenProperties, Zenon
    <3>2. Len(Buffered') = 0 /\ Len(X) = 0
      <4>1. Len(Buffered') + Len(X) = 0
        BY <1>6, <2>1, Zenon
      <4> QED BY <3>1, <4>1
    <3> QED BY <1>5, <3>2, NoBytes, Zenon
  <2>3. /\ d \o c \in Seq(Byte) /\ Len(d \o c) = Len(d) + Len(c)
        /\ \A i \in 1 .. Len(d) + Len(c) :
             (d \o c)[i] = IF i <= Len(d) THEN d[i] ELSE c[i - Len(d)]
    BY <1>2, <1>5, ConcatBytes
  <2>4. ASSUME NEW i \in 1 .. Len(d \o c)
        PROVE  (d \o c)[i] = p.payload[i]
    <3>1. i \in 1 .. Len(d) + Len(c) /\ Len(c) \in Nat
      BY <1>4, <1>5, <2>3
    <3>2. CASE i <= Len(d)
      <4>1. i \in 1 .. Len(d)
        BY <1>2, <3>1, <3>2
      <4> QED BY <1>9, <2>3, <3>1, <3>2, <4>1, Zenon
    <3>3. CASE ~ (i <= Len(d))
      <4> DEFINE j == i - Len(d)
      <4>1. /\ j \in 1 .. Len(c) /\ j \in 1 .. Len(c) + Len(r) /\ j <= Len(c)
            /\ Len(d) + j = i
        BY <1>2, <2>1, <3>1, <3>3
      <4>2. (d \o c)[i] = c[j]
        BY <2>3, <3>1, <3>3, Zenon
      <4> HIDE DEF j
      <4>3. (c \o r)[j] = c[j]
        BY <1>8, <4>1, Zenon
      <4>4. (c \o r)[j] = p.payload[Len(d) + j]
        BY <1>8, <1>9, <4>1, Zenon
      <4> QED BY <4>1, <4>2, <4>3, <4>4, Zenon
    <3> QED BY <3>2, <3>3, Zenon
  <2>5. p.payload \in Seq(Byte) /\ Len(d \o c) = Len(p.payload)
    BY <2>1, <2>3, BytesFacts, Zenon
  <2>6. d \o c = p.payload
    BY <2>3, <2>4, <2>5, SeqEqual, Zenon
  <2>7. more = p
    BY <1>9, <1>11, <2>6, SamePacket, Zenon
  <2> QED BY <1>1, <1>13, <2>2, <2>7, Zenon DEF Consumed, Deliver
<1> QED BY <1>1, <1>12, <1>13, Zenon

-----------------------------------------------------------------------------
(* The types *)

LEMMA NumberReadTypes ==
  ASSUME TypeOK, ReaderInv, NEW value \in Byte, NumberRead(value),
         reader \in {"ready", "blocked"}
  PROVE  /\ reader' \in {"ready", "blocked"} \/ ReaderEnded'
         /\ field' \in Fields
         /\ Len(packet'.payload) <= packet'.length
         /\ packet' \in Received
         /\ field' \in {"version", "code"} => packet' = NoPacket
         /\ field' = "length" => packet'.length = 0 /\ packet'.payload = <<>>
         /\ field' = "payload" => Len(packet'.payload) < packet'.length
         /\ received' \in Seq(Received)
         /\ reader' = reader \/ reader' = "no_block"
<1>1. /\ packet \in Received /\ packet.code \in Byte /\ packet.length \in Byte
      /\ packet.payload \in Seq(Byte) /\ received \in Seq(Received)
      /\ 0 \in Byte /\ Byte \subseteq Nat
      /\ <<>> \in Seq(Byte) /\ Len(<<>>) = 0
      /\ NoPacket \in Received /\ Len(NoPacket.payload) <= NoPacket.length
  BY ByteFacts, NoBytes DEF ReaderInv, Received, NoPacket
<1>2. CASE field = "version" /\ field' = "code" /\ UNCHANGED <<packet, received, reader>>
  BY <1>1, <1>2 DEF TypeOK, ReaderInv, Fields
<1>3. CASE /\ field = "code" /\ field' = "length"
           /\ packet' = [packet EXCEPT !.code = value]
           /\ UNCHANGED <<received, reader>>
  <2>1. packet = NoPacket
    BY <1>3 DEF ReaderInv
  <2>2. packet' = [code |-> value, length |-> 0, payload |-> <<>>]
    BY <1>3, <2>1 DEF NoPacket
  <2>3. packet' \in Received
    BY <1>1, <2>2 DEF Received
  <2>4. packet'.length = 0 /\ packet'.payload = <<>>
    BY <2>2
  <2>5. Len(packet'.payload) <= packet'.length
    BY <1>1, <2>4
  <2> QED BY <1>1, <1>3, <2>3, <2>4, <2>5 DEF Fields
<1>4. CASE field = "length" /\ value = 0 /\ Deliver(packet) /\ UNCHANGED reader
  BY <1>1, <1>4 DEF Deliver, Fields, NoPacket
<1>5. CASE /\ field = "length" /\ value \in 1 .. BlockSize /\ field' = "payload"
           /\ packet' = [packet EXCEPT !.length = value]
           /\ UNCHANGED <<received, reader>>
  <2>1. packet.payload = <<>>
    BY <1>5 DEF ReaderInv
  <2>2. packet' \in Received /\ packet'.length = value /\ packet'.payload = <<>>
    BY <1>1, <1>5, <2>1 DEF Received
  <2>3. Len(packet'.payload) < packet'.length
    BY <1>1, <1>5, <2>2
  <2>4. Len(packet'.payload) <= packet'.length
    BY <1>1, <1>5, <2>2
  <2> QED BY <1>1, <1>5, <2>2, <2>3, <2>4 DEF Fields
<1>6. CASE reader' = "no_block" /\ UNCHANGED <<field, packet, received>>
  BY <1>1, <1>6 DEF TypeOK, ReaderInv, ReaderEnded, Fields
<1> QED BY <1>2, <1>3, <1>4, <1>5, <1>6 DEF NumberRead

\* The packet that StartPacket begins to send.
NextPacket(code, length) ==
  [code |-> code, length |-> length, payload |-> [i \in 1 .. length |-> Len(sent) + 1]]

LEMMA StartFacts ==
  ASSUME WriterInv, NEW code \in Codes, NEW length \in Lengths,
         StartPacket(code, length)
  PROVE  /\ NextPacket(code, length) \in Packets
         /\ Len(NextPacket(code, length).payload) = NextPacket(code, length).length
         /\ sent' = Append(sent, NextPacket(code, length))
         /\ todo' = Pieces(NextPacket(code, length))
         /\ writer = "idle" /\ writer' = "writing"
         /\ UNCHANGED <<outBuffer, pipe, readerVars>>
<1> DEFINE d == [i \in 1 .. length |-> Len(sent) + 1]
<1>1. Len(sent) \in Nat /\ Len(sent) < MaxPackets
  BY LenProperties DEF WriterInv, StartPacket
<1>2. Len(sent) + 1 \in Byte
  BY <1>1, LengthsAssumption DEF Byte
<1>3. length \in Nat
  BY LengthsAssumption
<1>4. d \in Seq(Byte) /\ Len(d) = length
  BY <1>2, <1>3
<1>5. NextPacket(code, length) = [code |-> code, length |-> length, payload |-> d]
  BY DEF NextPacket
<1> HIDE DEF d
<1>6. /\ NextPacket(code, length) \in Packets
      /\ Len(NextPacket(code, length).payload) = NextPacket(code, length).length
  BY <1>4, <1>5 DEF Packets
<1> QED BY <1>6 DEF StartPacket, NextPacket

LEMMA StartTypes ==
  ASSUME TypeOK, WriterInv, ReaderInv, NEW code \in Codes, NEW length \in Lengths,
         StartPacket(code, length)
  PROVE  TypeOK' /\ WriterInv' /\ ReaderInv'
<1> DEFINE p == NextPacket(code, length)
<1>1. /\ p \in Packets /\ Len(p.payload) = p.length
      /\ sent' = Append(sent, p) /\ todo' = Pieces(p)
      /\ writer = "idle" /\ writer' = "writing"
      /\ UNCHANGED <<outBuffer, pipe, readerVars>>
  BY StartFacts, Zenon
<1> HIDE DEF p
<1>2. sent \in Seq(Packets) /\ Len(sent) \in Nat
  BY LenProperties DEF WriterInv
<1>3. /\ sent' \in Seq(Packets) /\ Len(sent') = Len(sent) + 1
      /\ \A i \in 1 .. Len(sent) : sent'[i] = sent[i]
      /\ sent'[Len(sent) + 1] = p
  BY <1>1, <1>2, AppendProperties
<1>4. \A i \in 1 .. Len(sent') : Len(sent'[i].payload) = sent'[i].length
  <2> TAKE i \in 1 .. Len(sent')
  <2>1. i \in 1 .. Len(sent) \/ i = Len(sent) + 1
    BY <1>2, <1>3
  <2>2. \A j \in 1 .. Len(sent) : Len(sent[j].payload) = sent[j].length
    BY DEF WriterInv
  <2> QED BY <1>1, <1>3, <2>1, <2>2, Zenon
<1>5. todo' \in Seq(Seq(Byte)) /\ Len(todo') <= 4
  BY <1>1, PiecesFacts, Zenon
<1>6. TypeOK'
  BY <1>1 DEF TypeOK, readerVars, ReaderEnded
<1>7. ReaderInv'
  BY <1>1, Zenon DEF ReaderInv, readerVars
<1>8. WriterInv'
  BY <1>1, <1>3, <1>4, <1>5 DEF WriterInv
<1> QED BY <1>6, <1>7, <1>8, Zenon

\* The first piece of a packet that is being written, and the others.
LEMMA TodoFacts ==
  ASSUME WriterInv, todo # <<>>
  PROVE  /\ Len(todo) > 0 /\ Head(todo) \in Seq(Byte)
         /\ Tail(todo) \in Seq(Seq(Byte)) /\ Len(Tail(todo)) <= 4
         /\ Joined(todo) = Head(todo) \o Joined(Tail(todo))
         /\ Joined(todo) \in Seq(Byte) /\ Joined(Tail(todo)) \in Seq(Byte)
<1>1. todo \in Seq(Seq(Byte)) /\ Len(todo) <= 4
  BY DEF WriterInv
<1>2. Len(todo) > 0
  <2>1. Len(todo) \in Nat \ {0}
    BY <1>1, EmptySeq, Zenon
  <2> QED BY <2>1
<1> QED BY <1>1, <1>2, JoinedFacts, JoinedType, Zenon

LEMMA BufWriteTypes ==
  ASSUME TypeOK, WriterInv, ReaderInv, BufWrite
  PROVE  TypeOK' /\ WriterInv' /\ ReaderInv'
<1>1. /\ Head(todo) \in Seq(Byte) /\ Tail(todo) \in Seq(Seq(Byte))
      /\ Len(Tail(todo)) <= 4 /\ todo # <<>>
  BY TodoFacts DEF BufWrite
<1>2. UNCHANGED <<sent, readerVars>> /\ writer = "writing"
  BY DEF BufWrite
<1>3. ReaderInv'
  BY <1>2, Zenon DEF ReaderInv, ReaderEnded, readerVars
<1>4. outBuffer \in Seq(Byte) /\ todo \in Seq(Seq(Byte)) /\ Len(todo) <= 4
  BY DEF WriterInv
<1>5. CASE Overflows /\ ReachesPipe(outBuffer) /\ WritePipe(outBuffer, "flushing")
           /\ UNCHANGED <<sent, todo, outBuffer>>
  <2>1. TypeOK'
    BY <1>2, <1>5 DEF TypeOK, WritePipe, readerVars, ReaderEnded
  <2>2. WriterInv'
    BY <1>1, <1>2, <1>5, Zenon DEF WriterInv, WritePipe, readerVars, ReaderEnded, ReachesPipe
  <2> QED BY <1>3, <2>1, <2>2
<1>6. CASE /\ Len(Head(todo)) > MaxLen /\ ~ ReachesPipe(outBuffer)
           /\ WritePipe(Head(todo), "direct")
           /\ UNCHANGED <<sent, todo, outBuffer>>
  <2>1. TypeOK'
    BY <1>2, <1>6 DEF TypeOK, WritePipe, readerVars, ReaderEnded
  <2>2. WriterInv'
    BY <1>1, <1>2, <1>6, Zenon DEF WriterInv, WritePipe, readerVars, ReaderEnded, ReachesPipe
  <2> QED BY <1>3, <2>1, <2>2
<1>7. CASE /\ ~ Overflows
           /\ outBuffer' = outBuffer \o Head(todo) /\ todo' = Tail(todo)
           /\ UNCHANGED <<sent, writer, pipe>>
  <2>1. /\ outBuffer' \in Seq(Byte)
        /\ Len(outBuffer') = Len(outBuffer) + Len(Head(todo))
    BY <1>1, <1>4, <1>7, ConcatBytes
  <2>2. Len(outBuffer') <= MaxLen
    <3>1. Len(outBuffer) \in Nat /\ Len(Head(todo)) \in Nat
      BY <1>1, <1>4, LenProperties, Zenon
    <3>2. ~ (Len(outBuffer) + Len(Head(todo)) > MaxLen) /\ MaxLen \in Nat
      BY <1>7, LengthsAssumption DEF Overflows
    <3> QED BY <2>1, <3>1, <3>2
  <2>3. TypeOK'
    BY <1>2, <1>7, <2>2 DEF TypeOK, readerVars, ReaderEnded
  <2>4. WriterInv'
    BY <1>1, <1>2, <1>7, <2>1 DEF WriterInv, readerVars, ReaderEnded
  <2> QED BY <1>3, <2>3, <2>4
<1> QED BY <1>5, <1>6, <1>7, Zenon DEF BufWrite

LEMMA OtherWriterTypes ==
  ASSUME TypeOK, WriterInv, ReaderInv,
         FinalFlush \/ FlushReturns \/ DirectReturns \/ WriterExit
  PROVE  TypeOK' /\ WriterInv' /\ ReaderInv'
<1>1. UNCHANGED <<sent, readerVars>>
  BY DEF FinalFlush, FlushReturns, DirectReturns, WriterExit
<1>2. ReaderInv'
  BY <1>1, Zenon DEF ReaderInv, ReaderEnded, readerVars
<1>3. <<>> \in Seq(Byte) /\ Len(<<>>) = 0 /\ MaxLen \in Nat
  BY NoBytes, LengthsAssumption
<1>4. CASE FinalFlush
  <2>1. TypeOK'
    BY <1>1, <1>4 DEF TypeOK, FinalFlush, WritePipe, readerVars, ReaderEnded
  <2>2. WriterInv'
    BY <1>1, <1>4, Zenon DEF WriterInv, FinalFlush, WritePipe, readerVars, ReaderEnded, ReachesPipe
  <2> QED BY <1>2, <2>1, <2>2
<1>5. CASE FlushReturns
  <2>1. TypeOK'
    BY <1>1, <1>3, <1>5 DEF TypeOK, FlushReturns, readerVars, ReaderEnded
  <2>2. WriterInv'
    BY <1>1, <1>3, <1>5 DEF WriterInv, FlushReturns, readerVars, ReaderEnded
  <2> QED BY <1>2, <2>1, <2>2
<1>6. CASE DirectReturns
  <2>1. Tail(todo) \in Seq(Seq(Byte)) /\ Len(Tail(todo)) <= 4
    BY <1>6, TodoFacts DEF DirectReturns, WriterInv
  <2>2. TypeOK'
    BY <1>1, <1>6 DEF TypeOK, DirectReturns, readerVars, ReaderEnded
  <2>3. WriterInv'
    BY <1>1, <1>6, <2>1 DEF WriterInv, DirectReturns, readerVars, ReaderEnded
  <2> QED BY <1>2, <2>2, <2>3
<1>7. CASE WriterExit
  <2>1. TypeOK'
    BY <1>1, <1>7 DEF TypeOK, WriterExit, readerVars, ReaderEnded
  <2>2. WriterInv'
    BY <1>1, <1>7 DEF WriterInv, WriterExit, readerVars, ReaderEnded
  <2> QED BY <1>2, <2>1, <2>2
<1> QED BY <1>4, <1>5, <1>6, <1>7

\* What the reader's steps leave alone of the writer's invariant.
LEMMA WriterInvKept ==
  ASSUME WriterInv, ~ ReaderEnded, UNCHANGED writerVars, pipe' \in Seq(Byte)
  PROVE  WriterInv'
<1>1. UNCHANGED <<sent, writer, todo, outBuffer>> /\ writer # "failed"
  BY DEF writerVars, WriterInv
<1> QED BY <1>1 DEF WriterInv

LEMMA ReadNumberTypes ==
  ASSUME TypeOK, WriterInv, ReaderInv, NEW value \in Byte, NumberRead(value),
         reader = "ready", UNCHANGED <<writerVars, pipe, inBuffer>>,
         filled' \in 0 .. MaxLen, pos' \in 0 .. filled'
  PROVE  TypeOK' /\ WriterInv' /\ ReaderInv'
<1>1. /\ reader' \in {"ready", "blocked"} \/ ReaderEnded'
      /\ field' \in Fields
      /\ Len(packet'.payload) <= packet'.length
      /\ packet' \in Received
      /\ field' \in {"version", "code"} => packet' = NoPacket
      /\ field' = "length" => packet'.length = 0 /\ packet'.payload = <<>>
      /\ field' = "payload" => Len(packet'.payload) < packet'.length
      /\ received' \in Seq(Received)
      /\ reader' = reader \/ reader' = "no_block"
  <2>1. reader \in {"ready", "blocked"}
    OBVIOUS
  <2> QED BY <2>1, NumberReadTypes, Zenon
<1>2. UNCHANGED <<sent, writer, todo, outBuffer, pipe, inBuffer>>
  BY DEF writerVars
<1>3. TypeOK'
  BY <1>1, <1>2 DEF TypeOK, ReaderEnded
<1>4. ReaderInv'
  <2>1. reader' # "blocked"
    BY <1>1
  <2> QED BY <1>1, <2>1, Zenon DEF ReaderInv
<1>5. WriterInv'
  <2>1. ~ ReaderEnded /\ pipe' \in Seq(Byte)
    BY <1>2 DEF ReaderEnded, WriterInv
  <2> QED BY <2>1, WriterInvKept, Zenon
<1> QED BY <1>3, <1>4, <1>5, Zenon

\* What Fill moves: n bytes of the pipe into the buffer.
LEMMA FillFacts ==
  ASSUME TypeOK, WriterInv, Fill
  PROVE  /\ pipe' \in Seq(Byte) /\ inBuffer' \in [1 .. MaxLen -> Byte]
         /\ filled' \in 0 .. MaxLen /\ pos' = 0
         /\ Buffered' \in Seq(Byte) /\ Buffered' # <<>>
         /\ pipe = Buffered' \o pipe'
<1> DEFINE n == IF Len(pipe) < MaxLen THEN Len(pipe) ELSE MaxLen
<1>1. /\ inBuffer' = [i \in 1 .. MaxLen |-> IF i <= n THEN pipe[i] ELSE inBuffer[i]]
      /\ filled' = n /\ pos' = 0
      /\ pipe' = SubSeq(pipe, n + 1, Len(pipe))
      /\ pipe # <<>>
  BY DEF Fill
<1>2. /\ pipe \in Seq(Byte) /\ Len(pipe) \in Nat /\ MaxLen \in Nat
      /\ inBuffer \in [1 .. MaxLen -> Byte]
      /\ \A i \in 1 .. Len(pipe) : pipe[i] \in Byte
  BY LenProperties, ElementOfSeq, LengthsAssumption DEF WriterInv, TypeOK
<1>3. n \in Nat /\ n <= Len(pipe) /\ n <= MaxLen
  BY <1>2
<1>4. n # 0
  <2>1. Len(pipe) # 0
    BY <1>1, <1>2, NoBytes, Zenon
  <2> QED BY <1>2, <2>1, LengthsAssumption
<1> HIDE DEF n
<1>5. inBuffer' \in [1 .. MaxLen -> Byte]
  <2>1. \A i \in 1 .. MaxLen : (IF i <= n THEN pipe[i] ELSE inBuffer[i]) \in Byte
    BY <1>2, <1>3
  <2> QED BY <1>1, <2>1
<1>6. /\ pipe' \in Seq(Byte) /\ Len(pipe') = Len(pipe) - n
      /\ \A i \in 1 .. Len(pipe) - n : pipe'[i] = pipe[n + i]
  <2> DEFINE m == n + 1
             l == Len(pipe)
  <2>1. m \in Int /\ l \in Int /\ \A i \in m .. l : pipe[i] \in Byte
    BY <1>2, <1>3
  <2>2. /\ l - m + 1 = l - n /\ (IF m <= l THEN l - m + 1 ELSE 0) = l - n
        /\ \A i \in 1 .. l - n : m + i - 1 = n + i
    BY <1>2, <1>3
  <2> HIDE DEF m, l
  <2>3. /\ SubSeq(pipe, m, l) \in Seq(Byte)
        /\ Len(SubSeq(pipe, m, l)) = IF m <= l THEN l - m + 1 ELSE 0
        /\ \A i \in 1 .. l - m + 1 : SubSeq(pipe, m, l)[i] = pipe[m + i - 1]
    BY <2>1, SubSeqProperties
  <2>4. pipe' = SubSeq(pipe, m, l)
    BY <1>1, Zenon DEF m, l
  <2>5. \A i \in 1 .. l - n : pipe'[i] = pipe[n + i]
    BY <2>2, <2>3, <2>4, Zenon
  <2>6. Len(pipe') = l - n
    BY <2>2, <2>3, <2>4, Zenon
  <2> QED BY <2>3, <2>4, <2>5, <2>6, Zenon DEF l
<1>7. /\ Buffered' \in Seq(Byte) /\ Len(Buffered') = n
      /\ \A i \in 1 .. n : Buffered'[i] = pipe[i]
  <2>1. Buffered' = Chunk(inBuffer', 0, n)
    <3>1. Buffered' = Chunk(inBuffer', pos', filled' - pos')
      BY Zenon DEF Buffered
    <3>2. filled' - pos' = n
      BY <1>1, <1>3
    <3> QED BY <1>1, <3>1, <3>2, Zenon
  <2>2. \A i \in 1 .. n : inBuffer'[0 + i] = pipe[i] /\ inBuffer'[0 + i] \in Byte
    BY <1>1, <1>2, <1>3
  <2>3. /\ Chunk(inBuffer', 0, n) \in Seq(Byte) /\ Len(Chunk(inBuffer', 0, n)) = n
        /\ \A i \in 1 .. n : Chunk(inBuffer', 0, n)[i] = inBuffer'[0 + i]
    <3>1. 0 \in Nat /\ \A i \in 1 .. n : inBuffer'[0 + i] \in Byte
      BY <2>2
    <3> QED BY <1>3, <3>1, ChunkFacts
  <2> QED BY <2>1, <2>2, <2>3, Zenon
<1>8. pipe = Buffered' \o pipe'
  <2> DEFINE x == Buffered'
             y == pipe'
  <2>1. /\ x \in Seq(Byte) /\ Len(x) = n /\ \A i \in 1 .. n : x[i] = pipe[i]
        /\ y \in Seq(Byte) /\ Len(y) = Len(pipe) - n
        /\ \A i \in 1 .. Len(pipe) - n : y[i] = pipe[n + i]
    BY <1>6, <1>7, Zenon
  <2> HIDE DEF x, y
  <2>2. /\ x \o y \in Seq(Byte) /\ Len(x \o y) = Len(x) + Len(y)
        /\ \A i \in 1 .. Len(x) + Len(y) :
             (x \o y)[i] = IF i <= Len(x) THEN x[i] ELSE y[i - Len(x)]
    BY <2>1, ConcatBytes, Zenon
  <2>3. Len(pipe) = Len(x \o y) /\ Len(x) + Len(y) = Len(pipe)
    BY <1>2, <1>3, <2>1, <2>2
  <2>4. ASSUME NEW i \in 1 .. Len(pipe)
        PROVE  pipe[i] = (x \o y)[i]
    <3>1. CASE i <= n
      <4>1. i \in 1 .. n
        BY <1>3, <3>1
      <4> QED BY <2>1, <2>2, <2>3, <3>1, <4>1, Zenon
    <3>2. CASE ~ (i <= n)
      <4>1. i - n \in 1 .. Len(pipe) - n /\ n + (i - n) = i
        BY <1>2, <1>3, <3>2
      <4> QED BY <2>1, <2>2, <2>3, <3>2, <4>1, Zenon
    <3> QED BY <3>1, <3>2, Zenon
  <2>5. pipe = x \o y
    BY <1>2, <2>2, <2>3, <2>4, SeqEqual, Zenon
  <2> QED BY <2>5, Zenon DEF x, y
<1>9. filled' \in 0 .. MaxLen
  BY <1>1, <1>2, <1>3
<1>10. Buffered' # <<>>
  BY <1>4, <1>7, NoBytes, Zenon
<1> QED BY <1>1, <1>10, <1>5, <1>6, <1>7, <1>8, <1>9, Zenon

LEMMA ReaderTypes ==
  ASSUME TypeOK, WriterInv, ReaderInv, ReaderStep \/ ReaderExit
  PROVE  TypeOK' /\ WriterInv' /\ ReaderInv'
<1>1. /\ MaxLen \in Nat /\ filled \in 0 .. MaxLen /\ pos \in 0 .. filled
      /\ pos \in Nat /\ filled \in Nat /\ 0 \in Byte
  BY LengthsAssumption, ByteFacts DEF TypeOK
<1>2. CASE ReadIssue
  <2>1. TypeOK'
    BY <1>2 DEF TypeOK, ReadIssue, writerVars
  <2>2. ReaderInv'
    BY <1>2 DEF ReaderInv, ReadIssue
  <2>3. WriterInv'
    BY <1>2, WriterInvKept DEF ReadIssue, ReaderEnded, WriterInv
  <2> QED BY <2>1, <2>2, <2>3
<1>3. CASE Fill
  <2>1. /\ pipe' \in Seq(Byte) /\ inBuffer' \in [1 .. MaxLen -> Byte]
        /\ filled' \in 0 .. MaxLen /\ pos' = 0
    BY <1>3, FillFacts, Zenon
  <2>2. /\ reader = "blocked" /\ reader' = "ready"
        /\ UNCHANGED <<writerVars, field, packet, received>>
    BY <1>3 DEF Fill
  <2>3. TypeOK'
    BY <1>1, <2>1, <2>2 DEF TypeOK, writerVars
  <2>4. ReaderInv'
    BY <2>2 DEF ReaderInv
  <2>5. WriterInv'
    BY <2>1, <2>2, WriterInvKept DEF ReaderEnded
  <2> QED BY <2>3, <2>4, <2>5
<1>4. CASE ReadNothing
  <2>1. TypeOK'
    BY <1>1, <1>4 DEF TypeOK, ReadNothing, writerVars, ReaderEnded
  <2>2. ReaderInv'
    BY <1>4 DEF ReaderInv, ReadNothing
  <2>3. WriterInv'
    BY <1>4, WriterInvKept DEF ReadNothing, ReaderEnded, WriterInv
  <2> QED BY <2>1, <2>2, <2>3
<1>5. CASE ReadError
  <2>1. /\ reader = "ready" /\ filled' = MaxLen
        /\ UNCHANGED <<writerVars, pipe, inBuffer, pos>>
    BY <1>5 DEF ReadError
  <2>2. filled' \in 0 .. MaxLen /\ pos' \in 0 .. filled'
    BY <1>1, <2>1
  <2>3. CASE NumberRead(0)
    BY <1>1, <2>1, <2>2, <2>3, ReadNumberTypes
  <2>4. CASE field = "payload" /\ reader' = "failed" /\ UNCHANGED <<field, packet, received>>
    <3>1. TypeOK'
      BY <2>1, <2>2, <2>4 DEF TypeOK, ReaderEnded, writerVars
    <3>2. ReaderInv'
      BY <2>4 DEF ReaderInv
    <3>3. WriterInv'
      BY <2>1, WriterInvKept DEF ReaderEnded, WriterInv
    <3> QED BY <3>1, <3>2, <3>3
  <2> QED BY <1>5, <2>3, <2>4 DEF ReadError
<1>6. CASE TakeNumber
  <2>1. /\ reader = "ready" /\ pos < filled /\ filled' = filled /\ pos' = pos + 1
        /\ UNCHANGED <<writerVars, pipe, inBuffer>>
        /\ NumberRead(inBuffer[pos + 1])
    BY <1>6 DEF TakeNumber
  <2>2. filled' \in 0 .. MaxLen /\ pos' \in 0 .. filled'
    BY <1>1, <2>1
  <2>3. inBuffer[pos + 1] \in Byte
    BY <1>1, <2>1 DEF TypeOK
  <2> QED BY <2>1, <2>2, <2>3, ReadNumberTypes
<1>7. CASE TakePayload
  <2> DEFINE missing == packet.length - Len(packet.payload)
             n == IF missing < filled - pos THEN missing ELSE filled - pos
             c == Chunk(inBuffer, pos, n)
             more == [packet EXCEPT !.payload = @ \o c]
             d == packet.payload
  <2>1. /\ pos < filled /\ pos' = pos + n /\ field = "payload" /\ reader = "ready"
        /\ reader' = reader /\ filled' = filled
        /\ UNCHANGED <<writerVars, pipe, inBuffer>>
        /\ \/ n = missing /\ Deliver(more)
           \/ n < missing /\ packet' = more /\ UNCHANGED <<field, received>>
    BY <1>7 DEF TakePayload, Chunk
  <2>2. /\ packet \in Received /\ packet.length \in Nat /\ received \in Seq(Received)
        /\ d \in Seq(Byte) /\ Len(d) \in Nat /\ Len(d) < packet.length
    BY <2>1, ByteFacts, LenProperties DEF ReaderInv, Received
  <2>3. n \in Nat /\ n <= filled - pos /\ missing \in Nat
    BY <1>1, <2>1, <2>2
  <2>4. c \in Seq(Byte) /\ Len(c) = n
    <3>1. \A i \in 1 .. n : inBuffer[pos + i] \in Byte
      <4>1. \A i \in 1 .. filled - pos : inBuffer[pos + i] \in Byte
        BY BufferedFacts, Zenon
      <4>2. \A i \in 1 .. n : i \in 1 .. filled - pos
        BY <1>1, <2>3
      <4> QED BY <4>1, <4>2, Zenon
    <3> HIDE DEF n
    <3> QED BY <1>1, <2>3, <3>1, ChunkFacts, Zenon
  <2> HIDE DEF n, c, d
  <2>5. /\ more \in Received /\ more.length = packet.length
        /\ more.payload = d \o c /\ Len(d \o c) = Len(d) + n
    <3>1. d \o c \in Seq(Byte) /\ Len(d \o c) = Len(d) + n
      BY <2>2, <2>4, ConcatBytes, Zenon
    <3>2. more = [packet EXCEPT !.payload = d \o c]
      BY DEF d
    <3> HIDE DEF more
    <3>3. more \in Received /\ more.length = packet.length /\ more.payload = d \o c
      BY <2>2, <3>1, <3>2 DEF Received
    <3> QED BY <3>1, <3>3, Zenon
  <2> HIDE DEF more
  <2>6. filled' \in 0 .. MaxLen /\ pos' \in 0 .. filled'
    BY <1>1, <2>1, <2>3
  <2>7. WriterInv'
    BY <2>1, WriterInvKept DEF ReaderEnded, WriterInv
  <2>8. CASE n = missing /\ Deliver(more)
    <3>1. NoPacket \in Received /\ Len(NoPacket.payload) <= NoPacket.length
      BY <1>1, NoBytes DEF NoPacket, Received
    <3>2. packet' = NoPacket /\ field' = "version" /\ received' \in Seq(Received)
      <4>1. received' = Append(received, more)
        BY <2>8, Zenon DEF Deliver
      <4>2. received' \in Seq(Received)
        BY <2>2, <2>5, <4>1, AppendProperties, Zenon
      <4> QED BY <2>8, <4>2, Zenon DEF Deliver
    <3>3. TypeOK'
      BY <2>1, <2>6, <3>1, <3>2 DEF TypeOK, writerVars, Fields
    <3>4. ReaderInv'
      BY <2>1, <3>1, <3>2 DEF ReaderInv
    <3> QED BY <2>7, <3>3, <3>4
  <2>9. CASE n < missing /\ packet' = more /\ UNCHANGED <<field, received>>
    <3>1. Len(packet'.payload) < packet'.length
      <4>1. Len(d) + n < packet.length
        BY <2>2, <2>3, <2>9 DEF d
      <4> QED BY <2>5, <2>9, <4>1, Zenon
    <3>2. Len(packet'.payload) <= packet'.length
      <4>1. Len(d) + n <= packet.length
        BY <2>2, <2>3, <2>9 DEF d
      <4> QED BY <2>5, <2>9, <4>1, Zenon
    <3>3. TypeOK'
      BY <2>1, <2>6, <2>9, <3>2 DEF TypeOK, writerVars, Fields
    <3>4. ReaderInv'
      BY <2>1, <2>5, <2>9, <3>1 DEF ReaderInv
    <3> QED BY <2>7, <3>3, <3>4
  <2> QED BY <2>1, <2>8, <2>9, Zenon
<1>8. CASE ReaderExit
  <2>1. TypeOK'
    BY <1>8 DEF TypeOK, ReaderExit, writerVars, ReaderEnded
  <2>2. ReaderInv'
    BY <1>8 DEF ReaderInv, ReaderExit
  <2>3. WriterInv'
    BY <1>8, WriterInvKept DEF ReaderExit, ReaderEnded, WriterInv
  <2> QED BY <2>1, <2>2, <2>3
<1> QED BY <1>2, <1>3, <1>4, <1>5, <1>6, <1>7, <1>8, Zenon DEF ReaderStep

-----------------------------------------------------------------------------
(* The stream *)

LEMMA UnsentType ==
  ASSUME WriterInv
  PROVE  Unsent \in Seq(Byte)
<1>1. /\ todo \in Seq(Seq(Byte)) /\ outBuffer \in Seq(Byte) /\ pipe \in Seq(Byte)
      /\ Joined(todo) \in Seq(Byte)
  BY JoinedType DEF WriterInv
<1>2. writer = "direct" => Joined(Tail(todo)) \in Seq(Byte)
  BY TodoFacts DEF WriterInv
<1>3. CASE writer = "flushing"
  <2>1. pipe \o Joined(todo) \in Seq(Byte)
    BY <1>1, Concat, Zenon
  <2> QED BY <1>3, <2>1, Zenon DEF Unsent
<1>4. CASE writer = "direct"
  <2>1. pipe \o Joined(Tail(todo)) \in Seq(Byte)
    BY <1>1, <1>2, <1>4, Concat, Zenon
  <2>2. writer # "flushing"
    BY <1>4
  <2> QED BY <1>4, <2>1, <2>2, Zenon DEF Unsent
<1>5. CASE writer # "flushing" /\ writer # "direct"
  <2>1. outBuffer \o Joined(todo) \in Seq(Byte)
    BY <1>1, Concat, Zenon
  <2> QED BY <1>5, <2>1, Zenon DEF Unsent
<1> QED BY <1>3, <1>4, <1>5, Zenon

\* A writer between two packets has sent everything.
LEMMA IdleSentAll ==
  ASSUME WriterInv, writer \in {"idle", "ended"}
  PROVE  Unsent = <<>>
<1>1. todo = <<>> /\ outBuffer = <<>> /\ writer # "flushing" /\ writer # "direct"
  BY DEF WriterInv
<1>2. outBuffer \o Joined(todo) = <<>>
  <2>1. <<>> \o <<>> = <<>>
    BY NoBytes, ConcatEmptySeq, Zenon
  <2> QED BY <1>1, <2>1, NothingJoined, Zenon
<1> QED BY <1>1, <1>2, Zenon DEF Unsent

\* The writer's steps inside a packet move bytes, and lose and add none.
LEMMA UnsentKept ==
  ASSUME TypeOK, WriterInv, ~ ReaderEnded,
         BufWrite \/ FinalFlush \/ FlushReturns \/ DirectReturns \/ WriterExit
  PROVE  Unsent' = Unsent
<1>1. /\ todo \in Seq(Seq(Byte)) /\ outBuffer \in Seq(Byte) /\ pipe \in Seq(Byte)
      /\ Joined(todo) \in Seq(Byte)
  BY JoinedType DEF WriterInv
<1>2. CASE BufWrite
  <2>1. /\ writer = "writing"
        /\ Head(todo) \in Seq(Byte) /\ Joined(Tail(todo)) \in Seq(Byte)
        /\ Joined(todo) = Head(todo) \o Joined(Tail(todo))
    BY <1>2, TodoFacts DEF BufWrite
  <2>2. writer # "flushing" /\ writer # "direct"
    BY <2>1
  <2>3. Unsent = outBuffer \o Joined(todo)
    BY <2>2, Zenon DEF Unsent
  <2>4. CASE WritePipe(outBuffer, "flushing") /\ UNCHANGED <<sent, todo, outBuffer>>
    <3>1. writer' = "flushing" /\ pipe' = outBuffer /\ todo' = todo
      BY <2>4 DEF WritePipe
    <3> QED BY <2>3, <3>1, Zenon DEF Unsent
  <2>5. CASE /\ ~ ReachesPipe(outBuffer) /\ WritePipe(Head(todo), "direct")
             /\ UNCHANGED <<sent, todo, outBuffer>>
    <3>1. writer' = "direct" /\ pipe' = Head(todo) /\ todo' = todo
      BY <2>5 DEF WritePipe
    <3>2. writer' # "flushing"
      BY <3>1
    <3>3. Unsent' = Head(todo) \o Joined(Tail(todo))
      BY <3>1, <3>2, Zenon DEF Unsent
    <3>4. outBuffer = <<>>
      BY <2>5, Zenon DEF ReachesPipe
    <3>5. <<>> \o Joined(todo) = Joined(todo)
      BY <1>1, ConcatEmptySeq, Zenon
    <3> QED BY <2>1, <2>3, <3>3, <3>4, <3>5, Zenon
  <2>6. CASE /\ outBuffer' = outBuffer \o Head(todo) /\ todo' = Tail(todo)
             /\ UNCHANGED <<sent, writer, pipe>>
    <3>1. Unsent' = (outBuffer \o Head(todo)) \o Joined(Tail(todo))
      <4>1. writer' = writer
        BY <2>6
      <4> QED BY <2>2, <2>6, <4>1, Zenon DEF Unsent
    <3> DEFINE h == Head(todo)
               j == Joined(Tail(todo))
    <3>2. h \in Seq(Byte) /\ j \in Seq(Byte)
      BY <2>1, Zenon
    <3> HIDE DEF h, j
    <3>3. (outBuffer \o h) \o j = outBuffer \o (h \o j)
      BY <1>1, <3>2, Associative, ZenonT(40)
    <3> QED BY <2>1, <2>3, <3>1, <3>3, Zenon DEF h, j
  <2> QED BY <1>2, <2>4, <2>5, <2>6, Zenon DEF BufWrite
<1>3. CASE FinalFlush
  <2>1. writer = "writing" /\ todo = <<>> /\ todo' = todo /\ outBuffer' = outBuffer
    BY <1>3 DEF FinalFlush
  <2>2. Unsent = outBuffer \o Joined(todo)
    <3>1. writer # "flushing" /\ writer # "direct"
      BY <2>1
    <3> QED BY <3>1, Zenon DEF Unsent
  <2>3. \/ writer' = "flushing" /\ pipe' = outBuffer
        \/ writer' = "idle"
    BY <1>3 DEF FinalFlush, WritePipe
  <2>4. writer' = "idle" => writer' # "flushing" /\ writer' # "direct"
    OBVIOUS
  <2> QED BY <2>1, <2>2, <2>3, <2>4, Zenon DEF Unsent
<1>4. CASE FlushReturns
  <2>1. /\ writer = "flushing" /\ pipe = <<>>
        /\ writer' \in {"idle", "writing"} /\ outBuffer' = <<>> /\ todo' = todo
    BY <1>4 DEF FlushReturns
  <2>2. writer' # "flushing" /\ writer' # "direct"
    BY <2>1
  <2> QED BY <2>1, <2>2, Zenon DEF Unsent
<1>5. CASE DirectReturns
  <2>1. /\ writer = "direct" /\ pipe = <<>> /\ writer' = "writing"
        /\ todo' = Tail(todo) /\ outBuffer' = outBuffer
    BY <1>5 DEF DirectReturns
  <2>2. outBuffer = <<>>
    BY <2>1 DEF WriterInv
  <2>3. writer # "flushing" /\ writer' # "flushing" /\ writer' # "direct"
    BY <2>1
  <2> QED BY <2>1, <2>2, <2>3, Zenon DEF Unsent
<1>6. CASE WriterExit
  <2>1. writer = "idle" /\ writer' = "ended" /\ outBuffer' = outBuffer /\ todo' = todo
    BY <1>6 DEF WriterExit
  <2>2. /\ writer # "flushing" /\ writer # "direct"
        /\ writer' # "flushing" /\ writer' # "direct"
    BY <2>1
  <2> QED BY <2>1, <2>2, Zenon DEF Unsent
<1> QED BY <1>2, <1>3, <1>4, <1>5, <1>6, Zenon

LEMMA UnsentFilled ==
  ASSUME TypeOK, WriterInv, Fill
  PROVE  Unsent' \in Seq(Byte) /\ Unsent = Buffered' \o Unsent'
<1>1. /\ writer \in {"flushing", "direct"}
      /\ writer' = writer /\ todo' = todo
  BY DEF Fill, writerVars
<1>2. pipe' \in Seq(Byte) /\ Buffered' \in Seq(Byte) /\ pipe = Buffered' \o pipe'
  BY FillFacts, Zenon
<1> DEFINE x == Buffered'
           y == pipe'
           j == IF writer = "flushing" THEN Joined(todo) ELSE Joined(Tail(todo))
<1>3. Unsent = pipe \o j /\ Unsent' = y \o j
  <2>1. CASE writer = "flushing"
    BY <1>1, <2>1, Zenon DEF Unsent
  <2>2. CASE writer = "direct" /\ writer # "flushing"
    BY <1>1, <2>2, Zenon DEF Unsent
  <2> QED BY <1>1, <2>1, <2>2
<1>4. j \in Seq(Byte)
  <2>1. todo \in Seq(Seq(Byte)) /\ (writer = "direct" => todo # <<>>)
    BY Zenon DEF WriterInv
  <2> QED BY <1>1, <2>1, TodoFacts, JoinedType
<1> HIDE DEF x, y, j
<1>5. x \in Seq(Byte) /\ y \in Seq(Byte) /\ pipe = x \o y
  BY <1>2, Zenon DEF x, y
<1>6. (x \o y) \o j = x \o (y \o j) /\ y \o j \in Seq(Byte)
  BY <1>4, <1>5, Concat, ZenonT(40)
<1> QED BY <1>3, <1>5, <1>6, Zenon DEF x

LEMMA SentPackets ==
  ASSUME WriterInv, NEW i \in 1 .. Len(sent)
  PROVE  sent[i] \in Packets /\ Len(sent[i].payload) = sent[i].length
<1>1. sent \in Seq(Packets)
  BY DEF WriterInv
<1>2. sent[i] \in Packets
  BY <1>1, ElementOfSeq, Zenon
<1> QED BY <1>2, Zenon DEF WriterInv

LEMMA ListLengths ==
  ASSUME WriterInv, ReaderInv
  PROVE  Len(sent) \in Nat /\ Len(received) \in Nat
  BY LenProperties DEF WriterInv, ReaderInv

\* The next packet is delivered.
LEMMA NextDelivered ==
  ASSUME WriterInv, ReaderInv, InOrder, sent' = sent, writer' = writer,
         Len(received) < Len(sent),
         received' = Append(received, sent[Len(received) + 1])
  PROVE  InOrder' /\ Len(received') = Len(received) + 1
<1> DEFINE p == sent[Len(received) + 1]
           S == Received \cup {p}
<1>1. Len(sent) \in Nat /\ Len(received) \in Nat
  BY ListLengths, Zenon
<1>2. received \in Seq(S) /\ p \in S
  <2>1. received \in Seq(Received) /\ Received \subseteq S
    BY Zenon DEF ReaderInv
  <2> QED BY <2>1, SeqMonotonic, Zenon
<1> HIDE DEF p, S
<1>3. received' = Append(received, p)
  BY Zenon DEF p
<1>4. /\ Len(received') = Len(received) + 1
      /\ \A i \in 1 .. Len(received) : received'[i] = received[i]
      /\ received'[Len(received) + 1] = p
  BY <1>2, <1>3, AppendProperties
<1>5. Len(received') <= Len(sent')
  BY <1>1, <1>4
<1>6. ASSUME NEW i \in 1 .. Len(received'), i <= Len(sent')
      PROVE  received'[i] = sent'[i]
  <2>1. i \in 1 .. Len(received) \/ i = Len(received) + 1
    BY <1>1, <1>4
  <2>2. i <= Len(sent) /\ sent'[i] = sent[i]
    BY <1>6
  <2>3. CASE i \in 1 .. Len(received)
    BY <1>4, <2>2, <2>3, Zenon DEF InOrder
  <2>4. CASE i = Len(received) + 1
    BY <1>4, <2>2, <2>4, Zenon DEF p
  <2> QED BY <2>1, <2>3, <2>4, Zenon
<1> QED BY <1>4, <1>5, <1>6, Zenon DEF InOrder

\* After the end of the stream nothing that was sent is received again.
LEMMA PastEndKept ==
  ASSUME WriterInv, ReaderInv, InOrder, PastEnd, sent' = sent, writer' = writer,
         received' = received \/ \E p : received' = Append(received, p)
  PROVE  InOrder' /\ PastEnd'
<1>1. Len(sent) \in Nat /\ Len(received) \in Nat
  BY ListLengths, Zenon
<1>2. CASE received' = received
  BY <1>2, Zenon DEF InOrder, PastEnd
<1>3. CASE \E p : received' = Append(received, p)
  <2>1. PICK p : received' = Append(received, p)
    BY <1>3, Zenon
  <2> DEFINE S == Received \cup {p}
  <2>2. received \in Seq(S) /\ p \in S
    <3>1. received \in Seq(Received) /\ Received \subseteq S
      BY Zenon DEF ReaderInv
    <3> QED BY <3>1, SeqMonotonic, Zenon
  <2> HIDE DEF S
  <2>3. /\ Len(received') = Len(received) + 1
        /\ \A i \in 1 .. Len(received) : received'[i] = received[i]
    BY <2>1, <2>2, AppendProperties, ZenonT(40)
  <2>4. writer = "ended" /\ Len(received) >= Len(sent)
    BY Zenon DEF PastEnd
  <2>5. Len(received') >= Len(sent')
    BY <1>1, <2>3, <2>4
  <2>6. ASSUME NEW i \in 1 .. Len(received'), i <= Len(sent')
        PROVE  received'[i] = sent'[i]
    <3>1. i \in 1 .. Len(received) /\ i <= Len(sent)
      BY <1>1, <2>3, <2>4, <2>6
    <3>2. received[i] = sent[i]
      BY <3>1, Zenon DEF InOrder
    <3> QED BY <2>3, <3>1, <3>2, Zenon
  <2> QED BY <2>4, <2>5, <2>6, Zenon DEF InOrder, PastEnd
<1> QED BY <1>2, <1>3, Zenon

LEMMA TakeStream ==
  ASSUME TypeOK, WriterInv, ReaderInv, InOrder, Stream, TakeNumber \/ TakePayload
  PROVE  InOrder' /\ (ReaderEnded' \/ Stream')
<1>1. /\ pos < filled
      /\ sent' = sent /\ writer' = writer /\ todo' = todo /\ outBuffer' = outBuffer
      /\ pipe' = pipe
  BY DEF TakeNumber, TakePayload, writerVars
<1>2. Unsent' = Unsent /\ Unsent \in Seq(Byte)
  BY <1>1, UnsentType, Zenon DEF Unsent
<1>3. Len(sent) \in Nat /\ Len(received) \in Nat
  BY ListLengths, Zenon
<1>4. Buffered # <<>> /\ Buffered \in Seq(Byte) /\ Have \in Seq(Byte)
  <2>1. /\ Buffered \in Seq(Byte) /\ Len(Buffered) = filled - pos
        /\ filled \in Nat /\ pos \in Nat
    BY BufferedFacts, Zenon
  <2>2. Len(Buffered) # 0
    BY <1>1, <2>1
  <2> QED BY <2>1, <2>2, NoBytes, HaveFacts, Zenon
<1> DEFINE p == sent[Len(received) + 1]
\* Whatever follows the buffered bytes: it is in the packet or completes it.
<1>5. ASSUME Len(received) < Len(sent),
             NEW X \in Seq(Byte), Have \o (Buffered \o X) = Bytes(p)
      PROVE  \/ InOrder' /\ ReaderEnded'
             \/ /\ InOrder' /\ received' = received /\ Buffered' \in Seq(Byte)
                /\ Have' \o (Buffered' \o X) = Bytes(p)
             \/ /\ InOrder' /\ Len(received') = Len(received) + 1
                /\ field' = "version" /\ Buffered' = <<>> /\ X = <<>>
  <2>1. Len(received) + 1 \in 1 .. Len(sent)
    BY <1>3, <1>5
  <2>2. p \in Packets /\ Len(p.payload) = p.length
    BY <2>1, SentPackets, Zenon
  <2> HIDE DEF p
  <2>3. (reader' = "no_block" /\ received' = received) \/ Consumed(p, X)
    BY <1>5, <2>2, NumberConsumed, PayloadConsumed, Zenon
  <2>4. received' = received => InOrder'
    BY <1>1, Zenon DEF InOrder
  <2>5. CASE reader' = "no_block" /\ received' = received
    <3>1. ReaderEnded'
      BY <2>5 DEF ReaderEnded
    <3> QED BY <2>4, <2>5, <3>1, Zenon
  <2>6. CASE /\ received' = Append(received, p)
             /\ field' = "version" /\ Buffered' = <<>> /\ X = <<>>
    <3>1. InOrder' /\ Len(received') = Len(received) + 1
      BY <1>1, <1>5, <2>6, NextDelivered, Zenon DEF p
    <3> QED BY <2>6, <3>1, Zenon
  <2> QED BY <2>3, <2>4, <2>5, <2>6, Zenon DEF Consumed
<1>6. CASE NothingLeft
  BY <1>4, <1>6, Zenon DEF NothingLeft
<1>7. CASE InPacket
  <2>1. Len(received) + 1 = Len(sent) /\ Have \o (Buffered \o Unsent) = Bytes(p)
    BY <1>7, Zenon DEF InPacket
  <2>2. Len(received) < Len(sent)
    BY <1>3, <2>1
  <2>3. CASE /\ InOrder' /\ received' = received
             /\ Have' \o (Buffered' \o Unsent) = Bytes(p)
    <3>1. InPacket'
      BY <1>1, <1>2, <2>1, <2>3, Zenon DEF InPacket
    <3> QED BY <2>3, <3>1, Zenon DEF Stream
  <2>4. CASE /\ InOrder' /\ Len(received') = Len(received) + 1
             /\ field' = "version" /\ Buffered' = <<>> /\ Unsent = <<>>
    <3>1. NothingLeft'
      BY <1>1, <1>2, <2>1, <2>4, Zenon DEF NothingLeft
    <3> QED BY <2>4, <3>1, Zenon DEF Stream
  <2> HIDE DEF p
  <2> QED BY <1>2, <1>5, <2>1, <2>2, <2>3, <2>4, Zenon
<1>8. CASE Behind
  <2>1. /\ Len(received) + 2 = Len(sent) /\ Have \o Buffered = Bytes(p)
        /\ Unsent = Bytes(sent[Len(received) + 2])
    BY <1>8, Zenon DEF Behind
  <2>2. Len(received) < Len(sent) /\ Len(received) + 1 + 1 = Len(received) + 2
    BY <1>3, <2>1
  <2>3. <<>> \in Seq(Byte) /\ Have \o (Buffered \o <<>>) = Bytes(p)
    BY <1>4, <2>1, NoBytes, ConcatEmptySeq, Zenon
  <2>4. CASE /\ InOrder' /\ received' = received /\ Buffered' \in Seq(Byte)
             /\ Have' \o (Buffered' \o <<>>) = Bytes(p)
    <3>1. Buffered' \o <<>> = Buffered'
      BY <2>4, ConcatEmptySeq, Zenon
    <3>2. Behind'
      BY <1>1, <1>2, <2>1, <2>4, <3>1, Zenon DEF Behind
    <3> QED BY <2>4, <3>2, Zenon DEF Stream
  <2>5. CASE /\ InOrder' /\ Len(received') = Len(received) + 1
             /\ field' = "version" /\ Buffered' = <<>>
    <3>1. Have' = <<>>
      BY <2>5, Zenon DEF Have
    <3>2. <<>> \o (<<>> \o Unsent) = Unsent
      BY <1>2, ConcatEmptySeq, Zenon
    <3>3. Len(received') + 1 = Len(received) + 2
      BY <2>2, <2>5, Zenon
    <3>4. InPacket'
      BY <1>1, <1>2, <2>1, <2>5, <3>1, <3>2, <3>3, Zenon DEF InPacket
    <3> QED BY <2>5, <3>4, Zenon DEF Stream
  <2> HIDE DEF p
  <2> QED BY <1>5, <2>2, <2>3, <2>4, <2>5, Zenon
<1>9. CASE PastEnd
  <2>1. received' = received \/ \E q : received' = Append(received, q)
    BY DEF TakeNumber, TakePayload, NumberRead, Deliver
  <2> QED BY <1>1, <1>9, <2>1, PastEndKept, Zenon DEF Stream
<1> QED BY <1>6, <1>7, <1>8, <1>9, Zenon DEF Stream

\* A read fails only when the reader is between two packets, after the last one.
LEMMA ErrorStream ==
  ASSUME TypeOK, WriterInv, ReaderInv, InOrder, Stream, ReadError
  PROVE  InOrder' /\ PastEnd'
<1>1. /\ reader = "ready" /\ pos = filled /\ writer \in {"failed", "ended"}
      /\ sent' = sent /\ writer' = writer
      /\ received' = received \/ \E q : received' = Append(received, q)
  BY DEF ReadError, NumberRead, Deliver, writerVars, WriterEnded
<1>2. writer = "ended"
  BY <1>1 DEF WriterInv, ReaderEnded
<1>3. Unsent = <<>>
  BY <1>2, IdleSentAll
<1>4. Buffered = <<>> /\ Have \in Seq(Byte)
  <2>1. /\ Buffered \in Seq(Byte) /\ Len(Buffered) = filled - pos
        /\ filled \in Nat /\ pos \in Nat
    BY BufferedFacts, Zenon
  <2>2. Len(Buffered) = 0
    BY <1>1, <2>1
  <2> QED BY <2>1, <2>2, NoBytes, HaveFacts, Zenon
<1>5. Len(sent) \in Nat /\ Len(received) \in Nat
  BY ListLengths, Zenon
<1>6. ASSUME NEW i \in 1 .. Len(sent)
      PROVE  Have # Bytes(sent[i])
  <2> DEFINE p == sent[i]
  <2>1. p \in Packets /\ Len(p.payload) = p.length
    BY SentPackets, Zenon
  <2> HIDE DEF p
  <2>2. <<>> \in Seq(Byte) /\ Len(<<>>) = 0 /\ Have \o <<>> = Have
    BY <1>4, NoBytes, ConcatEmptySeq, Zenon
  <2>3. Have = Bytes(p) => Len(<<>>) > 0
    BY <2>1, <2>2, HaveIsShort, Zenon
  <2>4. ~ (0 > 0)
    OBVIOUS
  <2> QED BY <2>2, <2>3, <2>4, Zenon DEF p
<1>7. ~ InPacket
  <2> SUFFICES ASSUME InPacket
               PROVE  FALSE
    BY Zenon
  <2>1. /\ Len(received) + 1 = Len(sent)
        /\ Have \o (Buffered \o Unsent) = Bytes(sent[Len(received) + 1])
    BY Zenon DEF InPacket
  <2>2. Len(received) + 1 \in 1 .. Len(sent)
    BY <1>5, <2>1
  <2>3. Have \o (Buffered \o Unsent) = Have
    <3>1. <<>> \o <<>> = <<>> /\ Have \o <<>> = Have
      BY <1>4, NoBytes, ConcatEmptySeq, Zenon
    <3> QED BY <1>3, <1>4, <3>1, Zenon
  <2> QED BY <1>6, <2>1, <2>2, <2>3, Zenon
<1>8. ~ Behind
  <2> SUFFICES ASSUME Behind
               PROVE  FALSE
    BY Zenon
  <2>1. /\ Len(received) + 2 = Len(sent)
        /\ Have \o Buffered = Bytes(sent[Len(received) + 1])
    BY Zenon DEF Behind
  <2>2. Len(received) + 1 \in 1 .. Len(sent)
    BY <1>5, <2>1
  <2>3. Have \o Buffered = Have
    BY <1>4, ConcatEmptySeq, Zenon
  <2> QED BY <1>6, <2>1, <2>2, <2>3, Zenon
<1>9. PastEnd
  <2>1. CASE NothingLeft
    <3>1. Len(received) = Len(sent)
      BY <2>1, Zenon DEF NothingLeft
    <3>2. Len(received) >= Len(sent)
      BY <1>5, <3>1
    <3> QED BY <1>2, <3>2, Zenon DEF PastEnd
  <2> QED BY <1>7, <1>8, <2>1, Zenon DEF Stream
<1> QED BY <1>1, <1>9, PastEndKept, Zenon

LEMMA FillStream ==
  ASSUME TypeOK, WriterInv, ReaderInv, InOrder, Stream, Fill
  PROVE  InOrder' /\ Stream'
<1>1. /\ writer \in {"flushing", "direct"} /\ reader = "blocked"
      /\ sent' = sent /\ writer' = writer
      /\ received' = received /\ field' = field /\ packet' = packet
  BY DEF Fill, writerVars
<1>2. /\ Unsent' \in Seq(Byte) /\ Unsent = Buffered' \o Unsent'
      /\ Buffered' \in Seq(Byte)
  BY UnsentFilled, FillFacts, Zenon
<1>3. Buffered = <<>> /\ Have \in Seq(Byte)
  <2>1. /\ Buffered \in Seq(Byte) /\ Len(Buffered) = filled - pos
        /\ filled \in Nat /\ pos \in Nat
    BY BufferedFacts, Zenon
  <2>2. pos = filled
    BY <1>1 DEF ReaderInv
  <2>3. Len(Buffered) = 0
    BY <2>1, <2>2
  <2> QED BY <2>1, <2>3, NoBytes, HaveFacts, Zenon
<1>4. Unsent # <<>>
  <2> DEFINE x == Buffered'
             y == Unsent'
  <2>4. x \in Seq(Byte) /\ y \in Seq(Byte) /\ x # <<>> /\ Unsent = x \o y
    BY <1>2, FillFacts, Zenon
  <2> HIDE DEF x, y
  <2> QED BY <2>4, ConcatEqualIffEmpty
<1>5. InOrder'
  BY <1>1, Zenon DEF InOrder
<1>6. Have' = Have
  BY <1>1, Zenon DEF Have
<1>7. CASE NothingLeft
  BY <1>4, <1>7, Zenon DEF NothingLeft
<1>8. CASE InPacket
  <2>1. <<>> \o Unsent = Unsent
    BY UnsentType, ConcatEmptySeq, Zenon
  <2>2. InPacket'
    BY <1>1, <1>2, <1>3, <1>6, <1>8, <2>1, Zenon DEF InPacket
  <2> QED BY <1>5, <2>2, Zenon DEF Stream
<1>9. CASE Behind
  <2>1. /\ Len(received) + 2 = Len(sent)
        /\ Have \o Buffered = Bytes(sent[Len(received) + 1])
    BY <1>9, Zenon DEF Behind
  <2>2. Len(sent) \in Nat /\ Len(received) \in Nat
    BY ListLengths, Zenon
  <2> DEFINE p == sent[Len(received) + 1]
  <2>3. Len(received) + 1 \in 1 .. Len(sent)
    BY <2>1, <2>2
  <2>4. p \in Packets /\ Len(p.payload) = p.length
    BY <2>3, SentPackets, Zenon
  <2>5. <<>> \in Seq(Byte) /\ Len(<<>>) = 0 /\ Have \o <<>> = Bytes(p)
    BY <1>3, <2>1, NoBytes, Zenon
  <2> HIDE DEF p
  <2>6. Len(<<>>) > 0
    BY <2>4, <2>5, HaveIsShort, Zenon
  <2>7. ~ (0 > 0)
    OBVIOUS
  <2> QED BY <2>5, <2>6, <2>7, Zenon
<1>10. CASE PastEnd
  <2>1. writer = "ended"
    BY <1>10, Zenon DEF PastEnd
  <2> QED BY <1>1, <2>1
<1> QED BY <1>7, <1>8, <1>9, <1>10, Zenon DEF Stream

LEMMA StartInOrder ==
  ASSUME WriterInv, ReaderInv, InOrder,
         NEW code \in Codes, NEW length \in Lengths, StartPacket(code, length)
  PROVE  InOrder'
<1> DEFINE p == NextPacket(code, length)
<1>1. p \in Packets /\ sent' = Append(sent, p) /\ writer = "idle" /\ received' = received
  BY StartFacts, Zenon DEF readerVars
<1> HIDE DEF p
<1>2. Len(sent) \in Nat /\ Len(received) \in Nat
  BY ListLengths, Zenon
<1>3. Len(sent') = Len(sent) + 1 /\ \A i \in 1 .. Len(sent) : sent'[i] = sent[i]
  BY <1>1, AppendProperties DEF WriterInv
<1>4. Len(received) <= Len(sent)
  BY <1>1 DEF InOrder
<1>5. Len(received') <= Len(sent')
  BY <1>1, <1>2, <1>3, <1>4
<1>6. ASSUME NEW i \in 1 .. Len(received')
      PROVE  received'[i] = sent'[i]
  <2>1. i \in 1 .. Len(received) /\ i \in 1 .. Len(sent) /\ i <= Len(sent)
    BY <1>1, <1>2, <1>4
  <2> QED BY <1>1, <1>3, <2>1, Zenon DEF InOrder
<1> QED BY <1>5, <1>6, Zenon DEF InOrder

\* A packet is begun when the reader has all but the last one.
LEMMA StartStream ==
  ASSUME TypeOK, WriterInv, ReaderInv, InOrder, Stream,
         NEW code \in Codes, NEW length \in Lengths, StartPacket(code, length)
  PROVE  InOrder' /\ Stream'
<1> DEFINE p == NextPacket(code, length)
<1>1. /\ p \in Packets /\ Len(p.payload) = p.length
      /\ sent' = Append(sent, p) /\ todo' = Pieces(p)
      /\ writer = "idle" /\ writer' = "writing"
      /\ UNCHANGED <<outBuffer, pipe, readerVars>>
  BY StartFacts, Zenon
<1> HIDE DEF p
<1>2. /\ Len(sent) \in Nat /\ Len(received) \in Nat
      /\ Buffered \in Seq(Byte) /\ Have \in Seq(Byte)
      /\ <<>> \in Seq(Byte) /\ Len(<<>>) = 0
  BY ListLengths, BufferedFacts, HaveFacts, NoBytes, Zenon
<1>3. /\ Len(sent') = Len(sent) + 1
      /\ \A i \in 1 .. Len(sent) : sent'[i] = sent[i]
      /\ sent'[Len(sent) + 1] = p
  BY <1>1, AppendProperties DEF WriterInv
<1>4. Unsent = <<>>
  <2>1. writer \in {"idle", "ended"}
    BY <1>1
  <2> QED BY <2>1, IdleSentAll, Zenon
<1>5. Unsent' = Bytes(p)
  <2>1. outBuffer' = <<>>
    BY <1>1 DEF WriterInv
  <2>2. Joined(todo') = Bytes(p) /\ Bytes(p) \in Seq(Byte)
    BY <1>1, PiecesFacts, BytesFacts, Zenon
  <2>3. writer' # "flushing" /\ writer' # "direct"
    BY <1>1
  <2>4. Unsent' = <<>> \o Bytes(p)
    BY <2>1, <2>2, <2>3, Zenon DEF Unsent
  <2> QED BY <2>2, <2>4, ConcatEmptySeq, Zenon
<1>6. received' = received /\ Have' = Have /\ Buffered' = Buffered /\ field' = field
  BY <1>1, Zenon DEF readerVars, Have, Buffered
<1>7. InOrder'
  BY StartInOrder, Zenon
<1>8. CASE NothingLeft
  <2>1. /\ Len(received) = Len(sent)
        /\ field = "version" /\ Buffered = <<>>
    BY <1>8, Zenon DEF NothingLeft
  <2>2. Have = <<>>
    BY <2>1, Zenon DEF Have
  <2>3. <<>> \o (<<>> \o Bytes(p)) = Bytes(p)
    BY <1>1, BytesFacts, ConcatEmptySeq, Zenon
  <2>4. Len(received') + 1 = Len(sent') /\ sent'[Len(received') + 1] = p
    BY <1>3, <1>6, <2>1, Zenon
  <2>5. InPacket'
    BY <1>5, <1>6, <2>1, <2>2, <2>3, <2>4, Zenon DEF InPacket
  <2> QED BY <1>7, <2>5, Zenon DEF Stream
<1>9. CASE InPacket
  <2>1. /\ Len(received) + 1 = Len(sent)
        /\ Have \o (Buffered \o Unsent) = Bytes(sent[Len(received) + 1])
    BY <1>9, Zenon DEF InPacket
  <2>2. Buffered \o Unsent = Buffered
    BY <1>2, <1>4, ConcatEmptySeq, Zenon
  <2>3. /\ Len(received) + 1 \in 1 .. Len(sent)
        /\ Len(received) + 2 = Len(sent) + 1
    BY <1>2, <2>1
  <2>4. /\ Len(received') + 2 = Len(sent')
        /\ sent'[Len(received') + 1] = sent[Len(received) + 1]
        /\ sent'[Len(received') + 2] = p
    BY <1>3, <1>6, <2>3, Zenon
  <2>5. Behind'
    BY <1>5, <1>6, <2>1, <2>2, <2>4, Zenon DEF Behind
  <2> QED BY <1>7, <2>5, Zenon DEF Stream
<1>10. CASE Behind
  <2>1. Len(received) + 2 = Len(sent) /\ Unsent = Bytes(sent[Len(received) + 2])
    BY <1>10, Zenon DEF Behind
  <2> DEFINE q == sent[Len(received) + 2]
  <2>2. Len(received) + 2 \in 1 .. Len(sent)
    BY <1>2, <2>1
  <2>3. q \in Packets /\ Len(q.payload) = q.length
    BY <2>2, SentPackets, Zenon
  <2>4. Bytes(q) = <<>>
    BY <1>4, <2>1, Zenon
  <2> HIDE DEF q
  <2>5. Len(Bytes(q)) = 3 + q.length /\ q.length \in Nat
    BY <2>3, BytesFacts, Zenon
  <2>6. Len(Bytes(q)) # 0
    BY <2>5
  <2> QED BY <1>2, <2>4, <2>6, Zenon
<1>11. CASE PastEnd
  <2>1. writer = "ended"
    BY <1>11, Zenon DEF PastEnd
  <2> QED BY <1>1, <2>1
<1> QED BY <1>8, <1>9, <1>10, <1>11, Zenon DEF Stream

\* The writer's other steps leave the stream as it is.
LEMMA WriterStream ==
  ASSUME TypeOK, WriterInv, InOrder, ReaderEnded \/ Stream,
         WriterStep \/ WriterExit
  PROVE  InOrder' /\ (ReaderEnded' \/ Stream')
<1>1. /\ sent' = sent /\ received' = received /\ reader' = reader /\ field' = field
      /\ packet' = packet /\ inBuffer' = inBuffer /\ pos' = pos /\ filled' = filled
      /\ writer # "ended"
  BY DEF WriterStep, BufWrite, FinalFlush, FlushReturns, DirectReturns, WriterExit,
         readerVars
<1>2. InOrder'
  BY <1>1, Zenon DEF InOrder
<1>3. CASE ReaderEnded
  BY <1>1, <1>2, <1>3, Zenon DEF ReaderEnded
<1>4. CASE ~ ReaderEnded
  <2>1. Unsent' = Unsent
    BY <1>4, UnsentKept, Zenon DEF WriterStep
  <2>2. Have' = Have /\ Buffered' = Buffered
    BY <1>1, Zenon DEF Have, Buffered
  <2>3. CASE NothingLeft
    BY <1>1, <1>2, <2>1, <2>2, <2>3, Zenon DEF NothingLeft, Stream
  <2>4. CASE InPacket
    BY <1>1, <1>2, <2>1, <2>2, <2>4, Zenon DEF InPacket, Stream
  <2>5. CASE Behind
    BY <1>1, <1>2, <2>1, <2>2, <2>5, Zenon DEF Behind, Stream
  <2>6. CASE PastEnd
    BY <1>1, <2>6, Zenon DEF PastEnd
  <2> QED BY <1>4, <2>3, <2>4, <2>5, <2>6, Zenon DEF Stream
<1> QED BY <1>3, <1>4, Zenon

\* Steps of the reader that take nothing.
LEMMA IdleReaderStream ==
  ASSUME InOrder, ReaderEnded \/ Stream, ReadIssue \/ ReadNothing \/ ReaderExit
  PROVE  InOrder' /\ (ReaderEnded' \/ Stream')
<1>1. /\ sent' = sent /\ writer' = writer /\ received' = received
      /\ todo' = todo /\ outBuffer' = outBuffer /\ pipe' = pipe
      /\ field' = field /\ packet' = packet
  BY DEF ReadIssue, ReadNothing, ReaderExit, writerVars
<1>2. InOrder'
  BY <1>1, Zenon DEF InOrder
<1>3. CASE ReadIssue
  <2>1. ~ ReaderEnded
    BY <1>3 DEF ReadIssue, ReaderEnded
  <2>2. Unsent' = Unsent /\ Have' = Have
    BY <1>1, Zenon DEF Unsent, Have
  <2>3. Buffered' = Buffered
    BY <1>3, Zenon DEF ReadIssue, Buffered
  <2> QED BY <1>1, <1>2, <2>1, <2>2, <2>3, Zenon
          DEF Stream, NothingLeft, InPacket, Behind, PastEnd
<1>4. CASE ReadNothing \/ ReaderExit
  BY <1>2, <1>4 DEF ReadNothing, ReaderExit, ReaderEnded
<1> QED BY <1>3, <1>4, Zenon

-----------------------------------------------------------------------------
(* The invariant *)

LEMMA InitHolds ==
  Init => Inv
<1> SUFFICES ASSUME Init
             PROVE  Inv
  OBVIOUS
<1>1. MaxLen \in Nat /\ 0 \in Byte /\ <<>> \in Seq(Byte) /\ Len(<<>>) = 0
  BY LengthsAssumption, ByteFacts, NoBytes
<1>2. TypeOK
  BY <1>1 DEF Init, TypeOK, Fields, NoPacket
<1>3. WriterInv
  BY <1>1 DEF Init, WriterInv
<1>4. ReaderInv
  BY <1>1 DEF Init, ReaderInv, Received, NoPacket
<1>5. InOrder
  BY DEF Init, InOrder
<1>6. NothingLeft
  <2>1. Unsent = <<>>
    BY <1>3, IdleSentAll DEF Init
  <2>2. Buffered = <<>>
    <3>1. Buffered \in Seq(Byte) /\ Len(Buffered) = filled - pos
      BY <1>2, BufferedFacts, Zenon
    <3>2. filled - pos = 0
      BY DEF Init
    <3> QED BY <3>1, <3>2, NoBytes, Zenon
  <2>3. Len(received) = Len(sent) /\ field = "version"
    BY DEF Init
  <2> QED BY <2>1, <2>2, <2>3, Zenon DEF NothingLeft
<1>7. NoFalseEnd
  BY DEF Init, NoFalseEnd
<1> QED BY <1>2, <1>3, <1>4, <1>5, <1>6, <1>7, Zenon DEF Inv, Stream

LEMMA StepKeeps ==
  Inv /\ [Next]_vars => Inv'
<1> SUFFICES ASSUME Inv, [Next]_vars
             PROVE  Inv'
  OBVIOUS
<1>0. /\ TypeOK /\ WriterInv /\ ReaderInv /\ InOrder /\ (ReaderEnded \/ Stream)
      /\ NoFalseEnd
  BY Zenon DEF Inv
<1>1. ASSUME NEW code \in Codes, NEW length \in Lengths, StartPacket(code, length)
      PROVE  Inv'
  <2>1. TypeOK' /\ WriterInv' /\ ReaderInv'
    BY <1>0, <1>1, StartTypes, Zenon
  <2>2. /\ writer = "idle" /\ writer' = "writing" /\ sent' = Append(sent, NextPacket(code, length))
        /\ reader' = reader /\ received' = received
    BY <1>0, <1>1, StartFacts DEF readerVars
  <2>3. NoFalseEnd'
    BY <1>0, <2>2 DEF NoFalseEnd, WriterEnded
  <2>4. CASE Stream
    BY <1>0, <1>1, <2>1, <2>3, <2>4, StartStream, Zenon DEF Inv
  <2>5. CASE ReaderEnded
    <3>1. ReaderEnded'
      BY <2>2, <2>5, Zenon DEF ReaderEnded
    <3>2. InOrder'
      BY <1>0, <1>1, <2>5, StartInOrder, Zenon
    <3> QED BY <2>1, <2>3, <3>1, <3>2, Zenon DEF Inv
  <2> QED BY <1>0, <2>4, <2>5, Zenon
<1>2. CASE WriterStep \/ WriterExit
  <2>1. TypeOK' /\ WriterInv' /\ ReaderInv'
    BY <1>0, <1>2, BufWriteTypes, OtherWriterTypes, Zenon DEF WriterStep
  <2>2. InOrder' /\ (ReaderEnded' \/ Stream')
    BY <1>0, <1>2, WriterStream, Zenon
  <2>3. reader' = reader /\ ~ WriterEnded
    BY <1>2 DEF WriterStep, BufWrite, FinalFlush, FlushReturns, DirectReturns,
                WriterExit, readerVars, WriterEnded
  <2>4. NoFalseEnd'
    BY <1>0, <2>3, Zenon DEF NoFalseEnd
  <2> QED BY <2>1, <2>2, <2>4, Zenon DEF Inv
<1>3. CASE ReaderStep \/ ReaderExit
  <2>1. TypeOK' /\ WriterInv' /\ ReaderInv'
    BY <1>0, <1>3, ReaderTypes, Zenon
  <2>2. ~ ReaderEnded /\ writer' = writer
    BY <1>3 DEF ReaderStep, ReadIssue, Fill, ReadNothing, ReadError, TakeNumber,
                TakePayload, ReaderExit, ReaderEnded, writerVars
  <2>3. InOrder' /\ (ReaderEnded' \/ Stream')
    <3>1. CASE ReadIssue \/ ReadNothing \/ ReaderExit
      BY <1>0, <3>1, IdleReaderStream, Zenon
    <3>2. CASE Fill
      BY <1>0, <2>2, <3>2, FillStream, Zenon
    <3>3. CASE ReadError
      BY <1>0, <2>2, <3>3, ErrorStream, Zenon DEF Stream
    <3>4. CASE TakeNumber \/ TakePayload
      BY <1>0, <2>2, <3>4, TakeStream, Zenon
    <3> QED BY <1>3, <3>1, <3>2, <3>3, <3>4, Zenon DEF ReaderStep
  <2>4. NoFalseEnd'
    <3>1. CASE ReadNothing
      BY <1>0, <2>2, <3>1 DEF ReadNothing, WriterInv, NoFalseEnd, WriterEnded
    <3>2. CASE ~ ReadNothing
      <4>1. reader' # "panicked"
        BY <1>3, <2>2, <3>2 DEF ReaderStep, ReadIssue, Fill, ReadError, TakeNumber,
                    TakePayload, ReaderExit, ReaderEnded, NumberRead, Deliver
      <4> QED BY <4>1, Zenon DEF NoFalseEnd
    <3> QED BY <3>1, <3>2, Zenon
  <2> QED BY <2>1, <2>3, <2>4, Zenon DEF Inv
<1>4. CASE UNCHANGED vars
  <2>1. /\ sent' = sent /\ writer' = writer /\ todo' = todo /\ outBuffer' = outBuffer
        /\ pipe' = pipe /\ reader' = reader /\ inBuffer' = inBuffer /\ pos' = pos
        /\ filled' = filled /\ field' = field /\ packet' = packet
        /\ received' = received
    BY <1>4 DEF vars
  <2>2. TypeOK' /\ ReaderInv' /\ WriterInv'
    BY <1>0, <2>1 DEF TypeOK, ReaderInv, WriterInv, ReaderEnded
  <2>3. InOrder' /\ NoFalseEnd' /\ (ReaderEnded => ReaderEnded')
    BY <1>0, <2>1, Zenon DEF InOrder, NoFalseEnd, ReaderEnded, WriterEnded
  <2>4. Stream => Stream'
    <3>1. Unsent' = Unsent /\ Have' = Have /\ Buffered' = Buffered
      BY <2>1, Zenon DEF Unsent, Have, Buffered
    <3> QED BY <2>1, <3>1, Zenon DEF Stream, NothingLeft, InPacket, Behind, PastEnd
  <2> QED BY <1>0, <2>2, <2>3, <2>4, Zenon DEF Inv
<1> QED BY <1>1, <1>2, <1>3, <1>4, Zenon DEF Next, Quiet

\* The bytes sent, buffered and read are one stream of packets in every state.
THEOREM InvHolds ==
  Spec => []Inv
<1> QED BY InitHolds, StepKeeps, PTL DEF Spec

\* The buffers keep within max_len and the read position within what was read.
THEOREM TypeCorrect ==
  Spec => []TypeOK
<1>1. Inv => TypeOK
  BY Zenon DEF Inv
<1> QED BY <1>1, InvHolds, PTL

\* A reader panics on the end of the stream only after the writer has ended:
\* buf_flush never writes an empty buffer.
THEOREM EndIsReal ==
  Spec => []NoFalseEnd
<1>1. Inv => NoFalseEnd
  BY Zenon DEF Inv
<1> QED BY <1>1, InvHolds, PTL

LEMMA PrefixFacts ==
  ASSUME NEW S, NEW T, NEW s \in Seq(S), NEW t \in Seq(T), Len(s) <= Len(t),
         \A i \in 1 .. Len(s) : s[i] = t[i]
  PROVE  IsPrefix(s, t)
<1>1. Len(s) \in Nat /\ Len(t) \in Nat
  BY LenProperties, Zenon
<1> DEFINE n == Len(s)
           u == SubSeq(t, 1, n)
           B == S \cup T
<1>2. s \in Seq(B) /\ t \in Seq(B)
  BY SeqMonotonic, Zenon
<1>3. \A i \in 1 .. n : t[i] \in B
  <2> HIDE DEF B
  <2>1. \A i \in 1 .. n : i \in 1 .. Len(t)
    BY <1>1
  <2> QED BY <1>2, <2>1, ElementOfSeq, Zenon
<1> HIDE DEF B
<1>4. /\ u \in Seq(B) /\ Len(u) = n
      /\ \A i \in 1 .. n : u[i] = t[i]
  <2>1. 1 \in Int /\ n \in Int /\ n - 1 + 1 = n /\ (IF 1 <= n THEN n ELSE 0) = n
        /\ \A i \in 1 .. n : 1 + i - 1 = i
    BY <1>1
  <2> HIDE DEF n
  <2>2. /\ u \in Seq(B) /\ Len(u) = IF 1 <= n THEN n - 1 + 1 ELSE 0
        /\ \A i \in 1 .. n - 1 + 1 : u[i] = t[1 + i - 1]
    BY <1>3, <2>1, SubSeqProperties
  <2> QED BY <2>1, <2>2, Zenon
<1>5. u = s
  <2> HIDE DEF u
  <2> QED BY <1>2, <1>4, SeqEqual, Zenon
<1> QED BY <1>5 DEF IsPrefix

\* What was received is what was sent, in order and whole, however the buffers
\* split it, until the writer has ended and all it sent was received.
THEOREM StreamFramed ==
  Spec => []Framing
<1>1. Inv => Framing
  <2> SUFFICES ASSUME Inv
               PROVE  Framing
    OBVIOUS
  <2>1. /\ sent \in Seq(Packets) /\ received \in Seq(Received)
        /\ Len(sent) \in Nat /\ Len(received) \in Nat
        /\ Len(received) <= Len(sent) \/ writer = "ended"
        /\ \A i \in 1 .. Len(received) : i <= Len(sent) => received[i] = sent[i]
    BY ListLengths, Zenon DEF Inv, WriterInv, ReaderInv, InOrder
  <2>2. CASE Len(received) <= Len(sent)
    <3>1. \A i \in 1 .. Len(received) : i <= Len(sent)
      BY <2>1, <2>2
    <3>2. \A i \in 1 .. Len(received) : received[i] = sent[i]
      BY <2>1, <3>1, Zenon
    <3> QED BY <2>1, <2>2, <3>2, PrefixFacts, Zenon DEF Framing
  <2>3. CASE ~ (Len(received) <= Len(sent))
    <3>1. Len(sent) <= Len(received)
      BY <2>1, <2>3
    <3>2. \A i \in 1 .. Len(sent) : i \in 1 .. Len(received) /\ i <= Len(sent)
      BY <2>1, <3>1
    <3>3. \A i \in 1 .. Len(sent) : sent[i] = received[i]
      BY <2>1, <3>2, Zenon
    <3> QED BY <2>1, <2>3, <3>1, <3>3, PrefixFacts, Zenon DEF Framing
  <2> QED BY <2>2, <2>3, Zenon
<1> QED BY <1>1, InvHolds, PTL

-----------------------------------------------------------------------------
(* Progress.  Liveness itself is beyond the prover, but not its two halves:  *)
(* somebody can always move, and every move brings the bytes nearer.         *)

\* The guards of the writer's steps and of the reader's.
WriterMoves ==
  \/ writer = "writing"
  \/ writer \in {"flushing", "direct"} /\ (pipe = <<>> \/ ReaderEnded)
ReaderMoves ==
  \/ reader = "ready" /\ pos = filled
  \/ reader = "ready" /\ pos < filled /\ (field = "payload" \/ ReceiveBound)
  \/ reader = "blocked" /\ writer \in {"flushing", "direct"} /\ pipe # <<>>

\* The writer's work on the packet: every piece may need a flush and its return, a
\* direct write and its return.
WriterSteps ==
  CASE writer = "writing" -> 5 * Len(todo) + (IF outBuffer = <<>> THEN 1 ELSE 3)
    [] writer = "flushing" -> 5 * Len(todo) + 2
    [] writer = "direct" -> 5 * Len(todo)
    [] OTHER -> 0

\* The reader's: a byte that is not read may need two calls of ckb_read and is then
\* taken from the buffer.
ReaderSteps == 3 * Len(Unsent) + (filled - pos)

IssueSteps == IF reader = "ready" THEN 1 ELSE 0

\* How many steps are left before all that was sent is received.
StreamSteps == WriterSteps + ReaderSteps + IssueSteps

\* The bound of the model on the packets.
LEMMA SentBounded == Spec => [](Len(sent) <= MaxPackets)
<1>1. Init => Len(sent) <= MaxPackets
  BY LengthsAssumption, NoBytes DEF Init
<1>2. Inv /\ Len(sent) <= MaxPackets /\ [Next]_vars => (Len(sent) <= MaxPackets)'
  <2> SUFFICES ASSUME Inv, Len(sent) <= MaxPackets, [Next]_vars
               PROVE  Len(sent') <= MaxPackets
    OBVIOUS
  <2>1. CASE UNCHANGED sent
    BY <2>1
  <2>2. ASSUME NEW code \in Codes, NEW length \in Lengths, StartPacket(code, length)
        PROVE  Len(sent') <= MaxPackets
    <3>1. Len(sent) < MaxPackets /\ Len(sent) \in Nat /\ sent \in Seq(Packets)
      BY <2>2, ListLengths DEF StartPacket, Inv, WriterInv
    <3>2. \E p : sent' = Append(sent, p)
      BY <2>2 DEF StartPacket
    <3>3. Len(sent') = Len(sent) + 1
      BY <3>1, <3>2
    <3> QED BY <3>1, <3>3, LengthsAssumption
  <2>3. UNCHANGED sent \/ \E code \in Codes, length \in Lengths : StartPacket(code, length)
    BY DEF Next, WriterStep, BufWrite, FinalFlush, FlushReturns, DirectReturns, WriterExit,
           ReaderStep, ReadIssue, Fill, ReadNothing, ReadError, TakeNumber, TakePayload,
           ReaderExit, Quiet, vars, writerVars
  <2> QED BY <2>1, <2>2, <2>3
<1> QED BY <1>1, <1>2, InvHolds, PTL DEF Spec

\* A reader that waits for a writer that has nothing to write has received all.
LEMMA IdleReceivedAll ==
  ASSUME Inv, ~ ReaderEnded, writer = "idle", reader = "blocked"
  PROVE  Len(received) = Len(sent)
<1>1. TypeOK /\ WriterInv /\ ReaderInv /\ Stream
  BY Zenon DEF Inv
<1>2. Unsent = <<>>
  BY <1>1, IdleSentAll
<1>3. Buffered = <<>> /\ Have \in Seq(Byte)
  <2>1. /\ Buffered \in Seq(Byte) /\ Len(Buffered) = filled - pos
        /\ filled \in Nat /\ pos \in Nat
    BY <1>1, BufferedFacts, Zenon
  <2>2. pos = filled
    BY <1>1 DEF ReaderInv
  <2>3. Len(Buffered) = 0
    BY <2>1, <2>2
  <2> QED BY <1>1, <2>1, <2>3, NoBytes, HaveFacts, Zenon
<1>4. ASSUME InPacket \/ Behind
      PROVE  FALSE
  <2>1. Len(sent) \in Nat /\ Len(received) \in Nat
    BY <1>1, ListLengths, Zenon
  <2>2. Len(received) + 1 \in 1 .. Len(sent)
    <3>1. Len(received) + 1 = Len(sent) \/ Len(received) + 2 = Len(sent)
      BY <1>4, Zenon DEF InPacket, Behind
    <3> QED BY <2>1, <3>1
  <2> DEFINE p == sent[Len(received) + 1]
  <2>3. p \in Packets /\ Len(p.payload) = p.length
    BY <1>1, <2>2, SentPackets, Zenon
  <2>4. <<>> \in Seq(Byte) /\ Len(<<>>) = 0 /\ <<>> \o <<>> = <<>>
    BY NoBytes, Concat, Zenon
  <2>5. Have \o <<>> = Bytes(p)
    BY <1>2, <1>3, <1>4, <2>4, Zenon DEF InPacket, Behind
  <2> HIDE DEF p
  <2>6. Len(<<>>) > 0
    BY <1>1, <2>3, <2>4, <2>5, HaveIsShort, Zenon
  <2>7. ~ (0 > 0)
    OBVIOUS
  <2> QED BY <2>4, <2>6, <2>7, Zenon
<1>5. ~ PastEnd
  BY DEF PastEnd
<1> QED BY <1>1, <1>4, <1>5, Zenon DEF Stream, NothingLeft

\* While a packet that was sent is not received and neither end has ended, one of
\* them can take a step: no split of the packets over the two buffers leaves both
\* programs blocked (buf_write, buf_flush, buf_read).
THEOREM StreamNeverStuck ==
  Spec => [](Len(received) < Len(sent) /\ ~ ReaderEnded /\ ~ WriterEnded =>
               WriterMoves \/ ReaderMoves)
<1>1. ASSUME Inv, Len(sent) <= MaxPackets,
             Len(received) < Len(sent), ~ ReaderEnded, ~ WriterEnded
      PROVE  WriterMoves \/ ReaderMoves
  <2>1. Len(sent) \in Nat /\ Len(received) \in Nat
    BY <1>1, ListLengths DEF Inv
  <2>2. ReceiveBound
    BY <1>1, <2>1, LengthsAssumption DEF ReceiveBound
  <2>3. /\ writer \in {"idle", "writing", "flushing", "direct"}
        /\ reader \in {"ready", "blocked"}
        /\ pos \in 0 .. filled /\ filled \in Nat
    BY <1>1, LengthsAssumption DEF Inv, TypeOK, WriterEnded
  <2>4. CASE reader = "ready"
    BY <2>2, <2>3, <2>4 DEF ReaderMoves
  <2>5. CASE reader = "blocked" /\ writer # "idle"
    BY <2>3, <2>5 DEF ReaderMoves, WriterMoves
  <2>6. ~ (reader = "blocked" /\ writer = "idle")
    <3> SUFFICES ASSUME reader = "blocked", writer = "idle" PROVE FALSE
      OBVIOUS
    <3>1. Len(received) = Len(sent)
      BY <1>1, IdleReceivedAll
    <3> QED BY <1>1, <2>1, <3>1
  <2> QED BY <2>3, <2>4, <2>5, <2>6
<1>2. Inv /\ Len(sent) <= MaxPackets =>
        (Len(received) < Len(sent) /\ ~ ReaderEnded /\ ~ WriterEnded =>
           WriterMoves \/ ReaderMoves)
  BY <1>1
<1> QED BY <1>2, InvHolds, SentBounded, PTL

\* What is counted are numbers.
LEMMA StepTypes ==
  ASSUME Inv
  PROVE  /\ WriterSteps \in Nat /\ ReaderSteps \in Nat /\ IssueSteps \in {0, 1}
         /\ StreamSteps \in Nat
<1>1. TypeOK /\ WriterInv
  BY Zenon DEF Inv
<1>2. WriterSteps \in Nat
  <2>1. Len(todo) \in Nat
    BY <1>1, LenProperties DEF WriterInv
  <2> QED BY <2>1 DEF WriterSteps
<1>3. ReaderSteps \in Nat
  <2>1. Len(Unsent) \in Nat
    BY <1>1, UnsentType, LenProperties
  <2>2. filled - pos \in Nat
    BY <1>1, BufferedFacts
  <2> QED BY <2>1, <2>2 DEF ReaderSteps
<1>4. IssueSteps \in {0, 1}
  BY DEF IssueSteps
<1> QED BY <1>2, <1>3, <1>4 DEF StreamSteps

\* A sum is less when one of its parts is and none is more.
LEMMA SumIsLess ==
  ASSUME NEW a \in Nat, NEW b \in Nat, NEW c \in Nat,
         NEW x \in Nat, NEW y \in Nat, NEW z \in Nat,
         \/ x < a /\ y = b /\ z = c
         \/ x = a /\ y + z < b + c
  PROVE  x + y + z < a + b + c
  OBVIOUS

LEMMA FewerSteps ==
  ASSUME Inv, Inv',
         \/ WriterSteps' < WriterSteps /\ ReaderSteps' = ReaderSteps /\ IssueSteps' = IssueSteps
         \/ WriterSteps' = WriterSteps /\ ReaderSteps' + IssueSteps' < ReaderSteps + IssueSteps,
         WriterSteps' \in Nat, ReaderSteps' \in Nat, IssueSteps' \in Nat
  PROVE  StreamSteps' < StreamSteps
<1> DEFINE a == WriterSteps
           b == ReaderSteps
           c == IssueSteps
           x == WriterSteps'
           y == ReaderSteps'
           z == IssueSteps'
<1>1. /\ a \in Nat /\ b \in Nat /\ c \in Nat /\ x \in Nat /\ y \in Nat /\ z \in Nat
      /\ \/ x < a /\ y = b /\ z = c
         \/ x = a /\ y + z < b + c
  BY StepTypes
<1>2. StreamSteps = a + b + c /\ StreamSteps' = x + y + z
  BY DEF StreamSteps
<1> HIDE DEF a, b, c, x, y, z
<1>3. x + y + z < a + b + c
  BY <1>1, SumIsLess
<1> QED BY <1>2, <1>3

\* The writer comes nearer to the end of its packet.
LEMMA WriterIsNearer ==
  ASSUME TypeOK, WriterInv, ~ ReaderEnded, WriterStep
  PROVE  WriterSteps' < WriterSteps /\ WriterSteps' \in Nat
<1>1. todo \in Seq(Seq(Byte)) /\ Len(todo) \in Nat
  BY LenProperties DEF WriterInv
<1>2. todo # <<>> => Len(Tail(todo)) = Len(todo) - 1 /\ Len(todo) > 0
  BY <1>1, TodoFacts, HeadTailProperties
<1>3. CASE BufWrite
  <2>1. /\ writer = "writing" /\ todo # <<>>
        /\ \/ outBuffer # <<>> /\ writer' = "flushing" /\ todo' = todo
           \/ outBuffer = <<>> /\ writer' = "direct" /\ todo' = todo
           \/ writer' = writer /\ todo' = Tail(todo)
    BY <1>3 DEF BufWrite, WritePipe, ReachesPipe
  <2> QED BY <1>1, <1>2, <2>1 DEF WriterSteps
<1>4. CASE FinalFlush
  <2>1. /\ writer = "writing" /\ todo = <<>> /\ todo' = todo
        /\ \/ outBuffer # <<>> /\ writer' = "flushing"
           \/ writer' = "idle"
    BY <1>4 DEF FinalFlush, WritePipe, ReachesPipe
  <2> QED BY <1>1, <2>1 DEF WriterSteps
<1>5. CASE FlushReturns
  <2>1. /\ writer = "flushing" /\ todo' = todo
        /\ writer' \in {"idle", "writing"} /\ outBuffer' = <<>>
    BY <1>5 DEF FlushReturns
  <2> QED BY <1>1, <2>1 DEF WriterSteps
<1>6. CASE DirectReturns
  <2>1. /\ writer = "direct" /\ writer' = "writing" /\ todo # <<>>
        /\ todo' = Tail(todo) /\ outBuffer' = outBuffer /\ outBuffer = <<>>
    BY <1>6 DEF DirectReturns, WriterInv
  <2> QED BY <1>1, <1>2, <2>1 DEF WriterSteps
<1> QED BY <1>3, <1>4, <1>5, <1>6 DEF WriterStep

\* The reader takes a byte, or asks for some and gets at least one.
LEMMA ReaderIsNearer ==
  ASSUME Inv, Inv', ReadIssue \/ Fill \/ TakeNumber \/ TakePayload, ~ ReaderEnded'
  PROVE  /\ WriterSteps' = WriterSteps
         /\ ReaderSteps' \in Nat /\ IssueSteps' \in Nat
         /\ ReaderSteps' + IssueSteps' < ReaderSteps + IssueSteps
<1>1. TypeOK /\ WriterInv /\ ReaderInv
  BY Zenon DEF Inv
<1>2. /\ writer' = writer /\ todo' = todo /\ outBuffer' = outBuffer
  BY DEF ReadIssue, Fill, TakeNumber, TakePayload, writerVars
<1>3. WriterSteps' = WriterSteps
  BY <1>2 DEF WriterSteps
<1>4. /\ Len(Unsent) \in Nat /\ pos \in Nat /\ filled \in Nat /\ filled - pos \in Nat
  BY <1>1, UnsentType, LenProperties, BufferedFacts
<1>5. ASSUME ReadIssue
      PROVE  /\ ReaderSteps' \in Nat /\ IssueSteps' \in Nat
             /\ ReaderSteps' + IssueSteps' < ReaderSteps + IssueSteps
  <2>1. pipe' = pipe /\ pos' = pos /\ filled' = filled /\ reader = "ready" /\ reader' = "blocked"
    BY <1>5 DEF ReadIssue
  <2>2. Unsent' = Unsent
    BY <1>2, <2>1, Zenon DEF Unsent
  <2>3. ReaderSteps' = ReaderSteps /\ ReaderSteps \in Nat
    BY <1>4, <2>1, <2>2 DEF ReaderSteps
  <2>4. IssueSteps = 1 /\ IssueSteps' = 0
    BY <2>1 DEF IssueSteps
  <2> QED BY <2>3, <2>4
<1>6. ASSUME Fill
      PROVE  /\ ReaderSteps' \in Nat /\ IssueSteps' \in Nat
             /\ ReaderSteps' + IssueSteps' < ReaderSteps + IssueSteps
  <2> DEFINE b == Buffered'
             u == Unsent'
  <2>1. /\ b \in Seq(Byte) /\ b # <<>> /\ u \in Seq(Byte) /\ Unsent = b \o u
    BY <1>1, <1>6, UnsentFilled, FillFacts, Zenon
  <2>2. Len(b) = filled' - pos'
    <3> DEFINE f == inBuffer'
               n == filled'
    <3>1. pos' = 0 /\ n \in 0 .. MaxLen /\ f \in [1 .. MaxLen -> Byte]
      BY <1>1, <1>6, FillFacts, Zenon
    <3>2. /\ n \in Nat /\ n - pos' = n
          /\ \A i \in 1 .. n : f[0 + i] \in Byte
      <4> HIDE DEF f, n
      <4>1. n \in Nat /\ n <= MaxLen /\ MaxLen \in Nat
        BY <3>1, LengthsAssumption
      <4>2. n - 0 = n
        BY <4>1
      <4>3. ASSUME NEW i \in 1 .. n
            PROVE  f[0 + i] \in Byte
        <5>1. 0 + i = i /\ i \in 1 .. MaxLen
          BY <4>1
        <5> QED BY <3>1, <5>1, Zenon
      <4> QED BY <3>1, <4>1, <4>2, <4>3, Zenon
    <3>3. b = Chunk(f, 0, n)
      BY <3>1, <3>2, Zenon DEF Buffered
    <3> HIDE DEF f, n, b
    <3>4. 0 \in Nat
      OBVIOUS
    <3>5. Len(Chunk(f, 0, n)) = n
      BY <3>2, <3>4, ChunkFacts, Zenon
    <3> QED BY <3>2, <3>3, <3>5 DEF n
  <2> HIDE DEF b, u
  <2>3. Len(Unsent) = Len(b) + Len(u) /\ Len(b) \in Nat \ {0} /\ Len(u) \in Nat
    BY <2>1, ConcatBytes, LenProperties, EmptySeq
  <2>4. Len(Unsent') = Len(u)
    BY DEF u
  <2>5. reader = "blocked" /\ reader' = "ready" /\ pos = filled
    BY <1>1, <1>6 DEF Fill, ReaderInv
  <2>6. ReaderSteps' = 3 * Len(u) + Len(b) /\ ReaderSteps = 3 * (Len(b) + Len(u))
    BY <1>4, <2>2, <2>3, <2>4, <2>5 DEF ReaderSteps
  <2>7. IssueSteps = 0 /\ IssueSteps' = 1
    BY <2>5 DEF IssueSteps
  <2> QED BY <2>3, <2>6, <2>7
<1>7. ASSUME TakeNumber \/ TakePayload
      PROVE  /\ ReaderSteps' \in Nat /\ IssueSteps' \in Nat
             /\ ReaderSteps' + IssueSteps' < ReaderSteps + IssueSteps
  <2>1. pipe' = pipe /\ filled' = filled
    BY <1>7 DEF TakeNumber, TakePayload
  <2>2. reader = "ready" /\ reader' = "ready"
    BY <1>7 DEF TakeNumber, TakePayload, NumberRead, Deliver, ReaderEnded
  <2>3. pos' \in Nat /\ pos' > pos /\ pos' <= filled
    <3>1. CASE TakeNumber
      BY <1>4, <3>1 DEF TakeNumber
    <3>2. CASE TakePayload
      <4>1. Len(packet.payload) \in Nat /\ packet.length \in Nat
               /\ Len(packet.payload) < packet.length
        BY <1>1, <3>2, ByteFacts, LenProperties DEF TakePayload, ReaderInv, Received
      <4> DEFINE missing == packet.length - Len(packet.payload)
                 n == IF missing < filled - pos THEN missing ELSE filled - pos
      <4>2. missing \in Nat /\ missing > 0
        BY <4>1
      <4>3. pos' = pos + n /\ pos < filled
        BY <3>2 DEF TakePayload
      <4> HIDE DEF missing
      <4> QED BY <1>4, <4>2, <4>3
    <3> QED BY <1>7, <3>1, <3>2
  <2>4. Unsent' = Unsent
    BY <1>2, <2>1, Zenon DEF Unsent
  <2>5. ReaderSteps' \in Nat /\ ReaderSteps' < ReaderSteps
    BY <1>4, <2>1, <2>3, <2>4 DEF ReaderSteps
  <2>6. IssueSteps = 1 /\ IssueSteps' = 1
    BY <2>2 DEF IssueSteps
  <2>7. ReaderSteps \in Nat
    BY <1>4 DEF ReaderSteps
  <2>8. \A m, n \in Nat : m < n => m + 1 < n + 1
    OBVIOUS
  <2>9. ReaderSteps' + 1 < ReaderSteps + 1
    BY <2>5, <2>7, <2>8, Zenon
  <2> QED BY <2>5, <2>6, <2>9, Zenon, SMT
<1> QED BY <1>3, <1>5, <1>6, <1>7

\* Until the next packet, every step while neither end has ended is one of those
\* that are left: what was sent arrives after that many steps, whoever takes them.
THEOREM StreamAdvances ==
  Spec => /\ [](StreamSteps \in Nat)
          /\ [][UNCHANGED sent /\ ~ ReaderEnded' /\ ~ WriterEnded' =>
                  StreamSteps' < StreamSteps]_vars
<1>1. Inv => StreamSteps \in Nat
  BY StepTypes
<1>2. ASSUME Inv, Inv', Next, UNCHANGED sent, ~ ReaderEnded', ~ WriterEnded', vars' # vars
      PROVE  StreamSteps' < StreamSteps
  <2>1. TypeOK /\ WriterInv /\ ReaderInv
    BY <1>2, Zenon DEF Inv
  <2>2. ASSUME WriterStep
        PROVE  StreamSteps' < StreamSteps
    <3>1. /\ reader' = reader /\ pos' = pos /\ filled' = filled
      BY <2>2 DEF WriterStep, BufWrite, FinalFlush, FlushReturns, DirectReturns, readerVars
    <3>2. ~ ReaderEnded
      BY <1>2, <3>1 DEF ReaderEnded
    <3>3. WriterSteps' < WriterSteps /\ WriterSteps' \in Nat
      BY <2>1, <2>2, <3>2, WriterIsNearer
    <3>4. Unsent' = Unsent
      BY <2>1, <2>2, <3>2, UnsentKept, Zenon DEF WriterStep
    <3>5. ReaderSteps' = ReaderSteps /\ IssueSteps' = IssueSteps
      BY <3>1, <3>4, Zenon DEF ReaderSteps, IssueSteps
    <3> QED BY <1>2, <3>3, <3>5, StepTypes, FewerSteps
  <2>3. ASSUME ReadIssue \/ Fill \/ TakeNumber \/ TakePayload
        PROVE  StreamSteps' < StreamSteps
    <3>1. WriterSteps \in Nat
      BY <1>2, StepTypes
    <3> QED BY <1>2, <2>3, <3>1, ReaderIsNearer, FewerSteps
  <2>4. ~ WriterExit /\ ~ ReadNothing /\ ~ ReadError /\ ~ ReaderExit
    BY <1>2
    DEF WriterExit, ReadNothing, ReadError, ReaderExit, WriterEnded, ReaderEnded, writerVars
  <2>5. \A code \in Codes, length \in Lengths : ~ StartPacket(code, length)
    <3> SUFFICES ASSUME NEW code \in Codes, NEW length \in Lengths,
                        StartPacket(code, length)
                 PROVE  FALSE
      OBVIOUS
    <3>1. sent \in Seq(Packets) /\ \E p : sent' = Append(sent, p)
      BY <2>1 DEF StartPacket, WriterInv
    <3>2. Len(sent') = Len(sent) + 1 /\ Len(sent) \in Nat
      BY <3>1
    <3> QED BY <1>2, <3>2
  <2> QED BY <1>2, <2>2, <2>3, <2>4, <2>5 DEF Next, ReaderStep, Quiet
<1>3. Inv /\ Inv' /\ [Next]_vars =>
        [UNCHANGED sent /\ ~ ReaderEnded' /\ ~ WriterEnded' => StreamSteps' < StreamSteps]_vars
  BY <1>2
<1> QED BY <1>1, <1>3, InvHolds, PTL DEF Spec
=============================================================================
