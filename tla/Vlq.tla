-------------------------------- MODULE Vlq --------------------------------
(***************************************************************************)
(* The numbers of a packet on the wire: their encoding in bytes of seven   *)
(* bits and a continuation bit, and the two readers, read_next_vlq of the  *)
(* Rust crate and csi_read_vlq of the C library, which read the same       *)
(* stream here, each at its own pace.  A stream is any sequence of bytes:  *)
(* what one of the encoders writes, what is left of it when the writer     *)
(* ends early, or anything else.                                           *)
(*                                                                         *)
(* The widths, 64 and 7 in the code, are constants, so that every number   *)
(* and every short stream can be looked at.  As in the code, the group     *)
(* width need not divide that of a number: the last byte then has bits     *)
(* that do not fit.                                                        *)
(***************************************************************************)
EXTENDS Integers, SequencesExt

CONSTANTS
  Width,     \* the bits of a number, 64
  Group,     \* the bits of a number that a byte carries, 7
  MaxStream  \* bound: the longest stream that is looked at

ASSUME VlqAssumption ==
  Width \in Nat \ {0} /\ Group \in 1 .. Width /\ MaxStream \in Nat

\* 1 << n.
TwoTo[n \in Nat] == IF n = 0 THEN 1 ELSE 2 * TwoTo[n - 1]

Number == 0 .. TwoTo[Width] - 1
Byte == [bits : 0 .. TwoTo[Group] - 1, more : BOOLEAN]
Reader == {"rust", "c"}

\* MAX_VLQ_LEN, and the bytes after which the decoders' shift passes Width: 10.
MaxLen == (Width + Group - 1) \div Group

VARIABLES
  stream,  \* the bytes, as written
  buf,     \* of each reader: the bytes of the number it is reading
  pos,     \* how many bytes it has read
  taken,   \* the numbers it has returned
  state    \* "reading"; after its last call "refused", or "untouched" when
           \* the C reader returned success and left the value as it was

vars == <<stream, buf, pos, taken, state>>

-----------------------------------------------------------------------------
(* The codec, the same in both languages *)

\* vlq_encode and csi_vlq_encode.
Encode[value \in Number] ==
  LET rest == value \div TwoTo[Group] IN
  <<[bits |-> value % TwoTo[Group], more |-> rest # 0]>>
    \o (IF rest = 0 THEN <<>> ELSE Encode[rest])

\* The bits of the bytes, the first byte the lowest.
Bits[bytes \in Seq(Byte)] ==
  IF bytes = <<>> THEN 0 ELSE Head(bytes).bits + TwoTo[Group] * Bits[Tail(bytes)]

\* Faulty variant: the bits that do not fit are kept.
ValueWide(bytes) == Bits[bytes]

\* The number in the bytes; what is shifted out of its width is lost.
Value(bytes) == Bits[bytes] % TwoTo[Width]

\* Faulty variant: the shift is compared before the byte is looked at.
DecodesEarly(bytes) ==
  bytes # <<>> /\ ~ Last(bytes).more /\ Group * Len(bytes) < Width

\* vlq_decode and csi_vlq_decode return a number: the last byte, the only one
\* that may lack the bit, lacks it, before the shift reaches the width.
Decodes(bytes) ==
  bytes # <<>> /\ ~ Last(bytes).more /\ Group * (Len(bytes) - 1) < Width

-----------------------------------------------------------------------------
(* The readers *)

TypeOK ==
  /\ stream \in Seq(Byte)
  /\ buf \in [Reader -> Seq(Byte)]
  /\ pos \in [Reader -> 0 .. Len(stream)]
  /\ taken \in [Reader -> Seq(Number)]
  /\ state \in [Reader -> {"reading", "refused", "untouched"}]

Init ==
  /\ stream \in BoundedSeq(Byte, MaxStream)
  /\ buf = [r \in Reader |-> <<>>]
  /\ pos = [r \in Reader |-> 0]
  /\ taken = [r \in Reader |-> <<>>]
  /\ state = [r \in Reader |-> "reading"]

AtEnd(r) == pos[r] = Len(stream)
NextByte(r) == stream[pos[r] + 1]

\* The call returns what the bytes decode to, and its caller stops on an error.
Finish(r, bytes) ==
  IF Decodes(bytes)
    THEN /\ taken' = [taken EXCEPT ![r] = Append(@, Value(bytes))]
         /\ buf' = [buf EXCEPT ![r] = <<>>]
         /\ UNCHANGED state
    ELSE /\ state' = [state EXCEPT ![r] = "refused"]
         /\ UNCHANGED <<taken, buf>>

\* A byte is read and kept; the last one of a number ends the loop.
Keep(r) ==
  LET bytes == Append(buf[r], NextByte(r)) IN
  /\ pos' = [pos EXCEPT ![r] = @ + 1]
  /\ IF NextByte(r).more
       THEN buf' = [buf EXCEPT ![r] = bytes] /\ UNCHANGED <<taken, state>>
       ELSE Finish(r, bytes)
  /\ UNCHANGED stream

\* read_next_vlq keeps any number of bytes.
RustByte == state["rust"] = "reading" /\ ~ AtEnd("rust") /\ Keep("rust")

\* At the end of the stream it decodes what it has.
RustEnd ==
  /\ state["rust"] = "reading" /\ AtEnd("rust")
  /\ Finish("rust", buf["rust"])
  /\ UNCHANGED <<stream, pos>>

\* Faulty variant: the place of the last byte is not used.
CByteShort ==
  /\ state["c"] = "reading" /\ ~ AtEnd("c")
  /\ IF Len(buf["c"]) >= MaxLen - 1
       THEN /\ pos' = [pos EXCEPT !["c"] = @ + 1]
            /\ state' = [state EXCEPT !["c"] = "refused"]
            /\ UNCHANGED <<stream, buf, taken>>
       ELSE Keep("c")

\* csi_read_vlq refuses the byte for which its buffer has no place.
CByte ==
  /\ state["c"] = "reading" /\ ~ AtEnd("c")
  /\ IF Len(buf["c"]) >= MaxLen
       THEN /\ pos' = [pos EXCEPT !["c"] = @ + 1]
            /\ state' = [state EXCEPT !["c"] = "refused"]
            /\ UNCHANGED <<stream, buf, taken>>
       ELSE Keep("c")

\* The error of a read at the end is lost in the loop's own err.
CEnd ==
  /\ state["c"] = "reading" /\ AtEnd("c")
  /\ state' = [state EXCEPT !["c"] = "untouched"]
  /\ UNCHANGED <<stream, buf, pos, taken>>

\* Both callers have stopped.
Stopped == (\A r \in Reader : state[r] # "reading") /\ UNCHANGED vars

Next == RustByte \/ RustEnd \/ CByte \/ CEnd \/ Stopped

Spec == Init /\ [][Next]_vars

-----------------------------------------------------------------------------

\* What is before the reader since its last number.
Ahead(r) == SubSeq(stream, pos[r] - Len(buf[r]) + 1, Len(stream))

\* Wherever the stream goes on with the encoding of a number, a reader neither
\* stops nor returns another number, and it consumes exactly the encoding.
RoundTrip ==
  [][\A r \in Reader, value \in Number :
       state[r] = "reading" /\ IsPrefix(Encode[value], Ahead(r)) =>
         /\ state'[r] = "reading"
         /\ taken'[r] # taken[r] =>
              /\ taken'[r] = Append(taken[r], value)
              /\ pos'[r] = pos[r] - Len(buf[r]) + Len(Encode[value])]_vars

\* On any bytes, a Rust and a C peer return the same numbers, and neither goes
\* on where the other stops: a sequence that is too long is refused by both, and
\* so is one that ends too early, except that the C reader does not tell.
Agreement ==
  /\ \/ IsPrefix(taken["rust"], taken["c"])
     \/ IsPrefix(taken["c"], taken["rust"])
  /\ (\A r \in Reader : state[r] # "reading") =>
       /\ taken["rust"] = taken["c"]
       /\ state["c"] = "untouched" => AtEnd("rust")
=============================================================================
