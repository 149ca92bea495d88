------------------------------ MODULE CStream ------------------------------
(***************************************************************************)
(* One direction of a channel between two programs that use the C library: *)
(* the buffered writer of one end, the pipe, and the buffered reader of    *)
(* the other, byte by byte.  The writer sends packets and then ends; the   *)
(* reader receives packets until it panics or fails.                       *)
(*                                                                         *)
(* A packet is a header of three numbers (version, error code or method,   *)
(* payload length), each one byte here, and the payload.  The writer puts  *)
(* the number of the packet into every byte of its payload.                *)
(*                                                                         *)
(* ckb_write blocks until the other end has read all of it or has ended,   *)
(* in which case it returns how much was read; ckb_read returns a part of  *)
(* what is being written, nothing when the other end ends while it waits,  *)
(* and an error when that end has ended before.                            *)
(***************************************************************************)
EXTENDS Naturals, SequencesExt

CONSTANTS
  MaxLen,       \* max_len of both buffers
  BlockSize,    \* the largest payload the reader can allocate
  Lengths,      \* the payload lengths the writer uses
  MaxPackets    \* bound: the number of packets the writer sends

ASSUME LengthsAssumption ==
  /\ MaxLen \in Nat \ {0}
  /\ BlockSize \in Nat
  /\ Lengths \subseteq Nat
  /\ MaxPackets \in Nat

VARIABLES
  sent,      \* the packets the writer has begun to send
  writer,    \* where the writer is
  todo,      \* the pieces of the packet it has not written to its buffer
  outBuffer, \* the bytes buffered by the writer
  pipe,      \* the bytes of the blocked ckb_write nobody has read
  reader,    \* where the reader is
  inBuffer,  \* the array of the reader's buffer
  pos,       \* its read position
  filled,    \* its filled_len
  field,     \* the part of a packet the reader is about to read
  packet,    \* what it has of that packet
  received   \* the packets that receive has returned

writerVars == <<sent, writer, todo, outBuffer>>
readerVars == <<reader, inBuffer, pos, filled, field, packet, received>>
vars == <<sent, writer, todo, outBuffer, pipe, reader, inBuffer, pos, filled,
          field, packet, received>>

Codes == {0, 1}
Byte == Codes \cup Lengths \cup 0 .. MaxPackets
Fields == {"version", "code", "length", "payload"}
NoPacket == [code |-> 0, length |-> 0, payload |-> <<>>]

WriterEnded == writer \in {"failed", "ended"}
ReaderEnded == reader \in {"failed", "panicked", "no_block", "ended"}

TypeOK ==
  /\ writer \in {"idle", "writing", "flushing", "direct", "failed", "ended"}
  /\ Len(outBuffer) <= MaxLen
  /\ reader \in {"ready", "blocked"} \/ ReaderEnded
  /\ inBuffer \in [1 .. MaxLen -> Byte]
  /\ filled \in 0 .. MaxLen
  /\ pos \in 0 .. filled
  /\ field \in Fields
  /\ Len(packet.payload) <= packet.length

Init ==
  /\ sent = <<>>
  /\ writer = "idle"
  /\ todo = <<>>
  /\ outBuffer = <<>>
  /\ pipe = <<>>
  /\ reader = "ready"
  /\ inBuffer = [i \in 1 .. MaxLen |-> 0]
  /\ pos = 0
  /\ filled = 0
  /\ field = "version"
  /\ packet = NoPacket
  /\ received = <<>>

-----------------------------------------------------------------------------
(* The writer *)

\* csi_send_request, csi_send_response: the numbers of the header one by one,
\* and the payload when there is one.
Pieces(p) ==
  <<<<0>>, <<p.code>>, <<p.length>>>>
    \o (IF p.length > 0 THEN <<p.payload>> ELSE <<>>)

StartPacket(code, length) ==
  LET p == [code |-> code, length |-> length,
            payload |-> [i \in 1 .. length |-> Len(sent) + 1]] IN
  /\ writer = "idle"
  /\ Len(sent) < MaxPackets
  /\ sent' = Append(sent, p)
  /\ todo' = Pieces(p)
  /\ writer' = "writing"
  /\ UNCHANGED <<outBuffer, pipe, readerVars>>

\* Faulty variant: a write of no bytes goes to the pipe like any other.
ReachesPipeAlways(bytes) == TRUE

\* csi_write_pipe returns at once when there is nothing to write: a write of no
\* bytes would look like the end of the stream to the reader.
ReachesPipe(bytes) == bytes # <<>>

\* ckb_write of bytes: it fails when the reader has ended, and blocks if not.
WritePipe(bytes, blocked) ==
  \/ ReaderEnded /\ writer' = "failed" /\ UNCHANGED pipe
  \/ ~ ReaderEnded /\ writer' = blocked /\ pipe' = bytes

\* The next piece does not fit into what is left of the buffer.
Overflows == Len(outBuffer) + Len(Head(todo)) > MaxLen

\* Faulty variant: a piece that does not fit is buffered without a flush.
BufWriteUnflushed ==
  /\ writer = "writing"
  /\ todo # <<>>
  /\ IF Len(Head(todo)) > MaxLen
     THEN /\ WritePipe(Head(todo), "direct")
          /\ UNCHANGED <<sent, todo, outBuffer>>
     ELSE /\ outBuffer' = outBuffer \o Head(todo)
          /\ todo' = Tail(todo)
          /\ UNCHANGED <<sent, writer, pipe>>
  /\ UNCHANGED readerVars

\* buf_write of the next piece: flush when it does not fit, then buffer it, or
\* write it directly when no buffer can hold it.
BufWrite ==
  /\ writer = "writing"
  /\ todo # <<>>
  /\ \/ /\ Overflows /\ ReachesPipe(outBuffer)
        /\ WritePipe(outBuffer, "flushing")
        /\ UNCHANGED <<sent, todo, outBuffer>>
     \/ /\ Len(Head(todo)) > MaxLen /\ ~ ReachesPipe(outBuffer)
        /\ WritePipe(Head(todo), "direct")
        /\ UNCHANGED <<sent, todo, outBuffer>>
     \/ /\ ~ Overflows
        /\ outBuffer' = outBuffer \o Head(todo)
        /\ todo' = Tail(todo)
        /\ UNCHANGED <<sent, writer, pipe>>
  /\ UNCHANGED readerVars

\* buf_flush after the last piece; a packet whose payload was written directly
\* leaves nothing to flush.
FinalFlush ==
  /\ writer = "writing"
  /\ todo = <<>>
  /\ \/ ReachesPipe(outBuffer) /\ WritePipe(outBuffer, "flushing")
     \/ ~ ReachesPipe(outBuffer) /\ writer' = "idle" /\ UNCHANGED pipe
  /\ UNCHANGED <<sent, todo, outBuffer, readerVars>>

\* ckb_write of the buffer returns.  buf_flush fails when the reader ended
\* before it had everything.
FlushReturns ==
  /\ writer = "flushing"
  /\ \/ /\ pipe = <<>>
        /\ writer' = IF todo = <<>> THEN "idle" ELSE "writing"
        /\ outBuffer' = <<>>
     \/ /\ pipe # <<>> /\ ReaderEnded
        /\ writer' = "failed"
        /\ UNCHANGED outBuffer
  /\ UNCHANGED <<sent, todo, pipe, readerVars>>

\* ckb_write of a large payload returns.  buf_write reports all of it written
\* whatever the reader took.
DirectReturns ==
  /\ writer = "direct"
  /\ pipe = <<>> \/ ReaderEnded
  /\ writer' = "writing"
  /\ todo' = Tail(todo)
  /\ UNCHANGED <<sent, outBuffer, pipe, readerVars>>

\* The program ends between two packets.
WriterExit ==
  /\ writer = "idle"
  /\ writer' = "ended"
  /\ UNCHANGED <<sent, todo, outBuffer, pipe, readerVars>>

-----------------------------------------------------------------------------
(* The reader *)

\* The packet is complete: receive returns it and the next one begins.
Deliver(p) ==
  /\ received' = Append(received, p)
  /\ packet' = NoPacket
  /\ field' = "version"

\* One number of the header is read, or the value of the variable is kept when
\* reading it failed.  A payload needs a block.
NumberRead(value) ==
  \/ /\ field = "version"
     /\ field' = "code"
     /\ UNCHANGED <<packet, received, reader>>
  \/ /\ field = "code"
     /\ field' = "length"
     /\ packet' = [packet EXCEPT !.code = value]
     /\ UNCHANGED <<received, reader>>
  \/ /\ field = "length" /\ value = 0
     /\ Deliver(packet)
     /\ UNCHANGED reader
  \/ /\ field = "length" /\ value \in 1 .. BlockSize
     /\ field' = "payload"
     /\ packet' = [packet EXCEPT !.length = value]
     /\ UNCHANGED <<received, reader>>
  \/ /\ field = "length" /\ value > BlockSize
     /\ reader' = "no_block"
     /\ UNCHANGED <<field, packet, received>>

\* buf_read finds its buffer used up and calls ckb_read, which waits.
ReadIssue ==
  /\ reader = "ready"
  /\ pos = filled
  /\ ~ WriterEnded
  /\ reader' = "blocked"
  /\ UNCHANGED <<writerVars, pipe, inBuffer, pos, filled, field, packet, received>>

\* Faulty variant: the bytes of a large write that do not fit are dropped.
FillDropping ==
  /\ reader = "blocked"
  /\ writer \in {"flushing", "direct"} /\ pipe # <<>>
  /\ LET n == IF Len(pipe) < MaxLen THEN Len(pipe) ELSE MaxLen IN
     /\ inBuffer' = [i \in 1 .. MaxLen |-> IF i <= n THEN pipe[i] ELSE inBuffer[i]]
     /\ filled' = n
     /\ pipe' = <<>>
  /\ pos' = 0
  /\ reader' = "ready"
  /\ UNCHANGED <<writerVars, field, packet, received>>

\* ckb_read returns what is being written, as much as the buffer can hold.
Fill ==
  /\ reader = "blocked"
  /\ writer \in {"flushing", "direct"} /\ pipe # <<>>
  /\ LET n == IF Len(pipe) < MaxLen THEN Len(pipe) ELSE MaxLen IN
     /\ inBuffer' = [i \in 1 .. MaxLen |-> IF i <= n THEN pipe[i] ELSE inBuffer[i]]
     /\ filled' = n
     /\ pipe' = SubSeq(pipe, n + 1, Len(pipe))
  /\ pos' = 0
  /\ reader' = "ready"
  /\ UNCHANGED <<writerVars, field, packet, received>>

\* ckb_read returns no bytes, because the writer ended or wrote none: buf_read
\* panics on an empty buffer.
ReadNothing ==
  /\ reader = "blocked"
  /\ WriterEnded \/ (writer = "flushing" /\ outBuffer = <<>>)
  /\ reader' = "panicked"
  /\ filled' = 0
  /\ pos' = 0
  /\ UNCHANGED <<writerVars, pipe, inBuffer, field, packet, received>>

\* Bound: a reader that goes on after the end of the stream stops after one
\* packet more than can be sent.
ReceiveBound == Len(received) <= MaxPackets

\* ckb_read fails: buf_read has already set filled_len to the length it asked
\* for, so the bytes after the position count as read.  csi_read_exact returns
\* the error; csi_read_vlq has a second variable err inside its loop and returns
\* the outer one, which is 0, without having set the value.
ReadError ==
  /\ ReceiveBound
  /\ reader = "ready"
  /\ pos = filled
  /\ WriterEnded
  /\ filled' = MaxLen
  /\ \/ /\ field = "payload"
        /\ reader' = "failed"
        /\ UNCHANGED <<field, packet, received>>
     \/ /\ field # "payload"
        /\ NumberRead(0)
  /\ UNCHANGED <<writerVars, pipe, inBuffer, pos>>

\* csi_read_vlq takes a byte from the buffer.
TakeNumber ==
  /\ ReceiveBound
  /\ reader = "ready"
  /\ pos < filled
  /\ field # "payload"
  /\ pos' = pos + 1
  /\ NumberRead(inBuffer[pos + 1])
  /\ UNCHANGED <<writerVars, pipe, inBuffer, filled>>

\* csi_read_exact takes as much of the payload as the buffer has.
TakePayload ==
  LET missing == packet.length - Len(packet.payload)
      n == IF missing < filled - pos THEN missing ELSE filled - pos
      p == [packet EXCEPT !.payload = @ \o [i \in 1 .. n |-> inBuffer[pos + i]]] IN
  /\ reader = "ready"
  /\ pos < filled
  /\ field = "payload"
  /\ pos' = pos + n
  /\ \/ n = missing /\ Deliver(p)
     \/ n < missing /\ packet' = p /\ UNCHANGED <<field, received>>
  /\ UNCHANGED <<writerVars, pipe, reader, inBuffer, filled>>

\* The program ends between two packets.
ReaderExit ==
  /\ reader = "ready"
  /\ field = "version"
  /\ reader' = "ended"
  /\ UNCHANGED <<writerVars, pipe, inBuffer, pos, filled, field, packet, received>>

-----------------------------------------------------------------------------

WriterStep == BufWrite \/ FinalFlush \/ FlushReturns \/ DirectReturns
ReaderStep ==
  ReadIssue \/ Fill \/ ReadNothing \/ ReadError \/ TakeNumber \/ TakePayload

\* Nothing is left to do: the writer sends no more, and the reader has ended
\* or waits for it.
Quiet ==
  /\ writer \in {"idle", "failed", "ended"}
  /\ Len(sent) = MaxPackets \/ WriterEnded
  /\ \/ ReaderEnded
     \/ reader = "blocked" /\ ~ WriterEnded
     \/ ~ ReceiveBound
  /\ UNCHANGED vars

Next ==
  \/ \E code \in Codes, length \in Lengths : StartPacket(code, length)
  \/ WriterStep
  \/ WriterExit
  \/ ReaderStep
  \/ ReaderExit
  \/ Quiet

Spec == Init /\ [][Next]_vars

\* Both processes run whenever they can.  Nothing makes the writer send.
FairSpec == Spec /\ WF_vars(WriterStep) /\ WF_vars(ReaderStep)

-----------------------------------------------------------------------------

\* The receive functions return what was sent: the packets received are the
\* first ones sent, whole and in order, however the two buffers split them.
\* Only a writer that has ended, with all it sent received, is followed by more.
Framing ==
  \/ IsPrefix(received, sent)
  \/ writer = "ended" /\ IsPrefix(sent, received)

\* A reader meets the end of the stream only when the writer has ended.
NoFalseEnd == reader = "panicked" => WriterEnded

\* ckb_script_ipc.h on the functions that receive: "return 0 for success,
\* non-zero for failure".  A packet that was received has been sent.
ReceivedWasSent == IsPrefix(received, sent)

\* Every packet that the writer begins to send arrives, unless an end fails.
AllArrive ==
  (Len(sent) > Len(received)) ~>
    (Len(received) = Len(sent) \/ ReaderEnded \/ WriterEnded)
=============================================================================
