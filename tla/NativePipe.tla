----------------------------- MODULE NativePipe -----------------------------
(***************************************************************************)
(* native.rs: a client in an ordinary program and a server script in a     *)
(* CKB-VM that runs in a thread of that program, joined by two Pipes.      *)
(*                                                                         *)
(* A Pipe is a rendezvous channel (sync_channel(0)): send blocks until the *)
(* other thread receives the message, or fails once the receiver has been  *)
(* dropped; recv blocks until there is a message, or fails once the sender *)
(* has been dropped.  The reading Pipe keeps what a read did not take.     *)
(*                                                                         *)
(* The client is Channel::call, the script Channel::execute: a packet is   *)
(* one write, and is complete when Size bytes of it have been read.  A     *)
(* byte of a packet is the pair of what the packet is and the call it      *)
(* belongs to.  A write that fails stops the machine, not just the script. *)
(***************************************************************************)
EXTENDS Naturals, Sequences

CONSTANTS
  MaxCalls,   \* bound: the number of calls the client makes
  Size,       \* the bytes of a packet
  ReadSizes   \* the lengths that reads ask for

ASSUME MaxCallsAssumption == MaxCalls \in Nat
ASSUME SizeAssumption == Size \in Nat \ {0}
ASSUME ReadSizesAssumption == ReadSizes \subseteq Nat \ {0} /\ ReadSizes # {}

VARIABLES
  client,    \* where the client's thread is
  vm,        \* where the thread of the machine is
  toVm,      \* the pipe from the client to the script
  toClient,  \* the pipe from the script to the client
  got,       \* what the client has read of a response
  vmGot,     \* what the script has read of a request
  last,      \* the script ends after the packet it is writing
  call,      \* the number of the client's last call
  ran,       \* how often the service has run each call
  answer     \* what each call has returned: a pair of kind and call

vars == <<client, vm, toVm, toClient, got, vmGot, last, call, ran, answer>>

Calls == 1 .. MaxCalls
Byte == {"request", "value", "error"} \X (0 .. MaxCalls)
Answer == {"none", "ok", "unread", "err"} \X (0 .. MaxCalls)

\* sender, receiver: the two ends that have not been dropped.  offered: the
\* message of a send that is blocked.  rest: buf of the reading Pipe.
Pipe == [sender : BOOLEAN, receiver : BOOLEAN, offered : Seq(Byte), rest : Seq(Byte)]

NewPair == [sender |-> TRUE, receiver |-> TRUE, offered |-> <<>>, rest |-> <<>>]

Packet(what, i) == [n \in 1 .. Size |-> <<what, i>>]

TypeOK ==
  /\ client \in {"new", "idle", "writing", "reading", "dropping", "ended"}
  /\ vm \in {"new", "loading", "reading", "serving", "failing", "writing",
             "dropping", "closing", "ended"}
  /\ toVm \in Pipe /\ Len(toVm.offered) + Len(toVm.rest) <= Size
  /\ toClient \in Pipe /\ Len(toClient.offered) + Len(toClient.rest) <= Size
  /\ got \in Seq(Byte) /\ Len(got) < Size
  /\ vmGot \in Seq(Byte) /\ Len(vmGot) <= Size
  /\ last \in BOOLEAN
  /\ call \in 0 .. MaxCalls
  /\ ran \in [Calls -> Nat]
  /\ answer \in [Calls -> Answer]

Init ==
  /\ client = "new" /\ vm = "new"
  /\ toVm = NewPair /\ toClient = NewPair
  /\ got = <<>> /\ vmGot = <<>> /\ last = FALSE
  /\ call = 0
  /\ ran = [i \in Calls |-> 0]
  /\ answer = [i \in Calls |-> <<"none", 0>>]

-----------------------------------------------------------------------------
(* Pipe *)

\* What a read of up to n bytes finds: the rest of the last message, or the
\* message of the blocked send.
Available(pipe) == IF pipe.rest # <<>> THEN pipe.rest ELSE pipe.offered

Least(a, b) == IF a < b THEN a ELSE b

Taken(pipe, n) == SubSeq(Available(pipe), 1, Least(n, Len(Available(pipe))))

\* Faulty variant: what does not fit into the reader's array is lost.
AfterReadLost(pipe, n) ==
  [pipe EXCEPT !.offered = IF pipe.rest # <<>> THEN @ ELSE <<>>, !.rest = <<>>]

\* The pipe after that read.  A message that is received unblocks its sender,
\* whatever is left of it.
AfterRead(pipe, n) ==
  [pipe EXCEPT !.offered = IF pipe.rest # <<>> THEN @ ELSE <<>>,
               !.rest = SubSeq(Available(pipe), Least(n, Len(Available(pipe))) + 1,
                               Len(Available(pipe)))]

\* read returns 0 bytes: everything was read and the sender has gone.
AtEnd(pipe) == Available(pipe) = <<>> /\ ~ pipe.sender

-----------------------------------------------------------------------------
(* The client *)

\* spawn_server: two pipes and a thread.  What becomes of the machine is not
\* known when it returns.
SpawnServer ==
  /\ client = "new"
  /\ client' = "idle"
  /\ vm' = "loading"
  /\ UNCHANGED <<toVm, toClient, got, vmGot, last, call, ran, answer>>

Return(i, a) ==
  /\ answer' = [answer EXCEPT ![i] = a]
  /\ client' = "idle"
  /\ got' = <<>>

\* call, up to the blocking send.  The request may not serialize.
ClientCall ==
  /\ client = "idle"
  /\ call < MaxCalls
  /\ call' = call + 1
  /\ \/ /\ toVm.receiver
        /\ toVm' = [toVm EXCEPT !.offered = Packet("request", call + 1)]
        /\ client' = "writing"
        /\ UNCHANGED <<answer, got>>
     \/ /\ Return(call + 1, <<"err", 0>>)
        /\ UNCHANGED toVm
  /\ UNCHANGED <<vm, toClient, vmGot, last, ran>>

\* send returns: the script received the message, or the receiver was dropped.
ClientSent ==
  /\ client = "writing"
  /\ \/ /\ toVm.offered = <<>>
        /\ client' = "reading"
        /\ UNCHANGED <<toVm, answer, got>>
     \/ /\ toVm.offered # <<>> /\ ~ toVm.receiver
        /\ toVm' = [toVm EXCEPT !.offered = <<>>]
        /\ Return(call, <<"err", 0>>)
  /\ UNCHANGED <<vm, toClient, vmGot, last, call, ran>>

\* What receive_response may make of a complete packet: the value of a reply
\* deserializes or it does not.
Outcomes(what) == IF what = "value" THEN {"ok", "unread"} ELSE {"err"}

\* read of a part of the response; the last part completes the call.
ClientRead(n) ==
  LET bytes == got \o Taken(toClient, n) IN
  /\ client = "reading"
  /\ Available(toClient) # <<>>
  /\ toClient' = AfterRead(toClient, n)
  /\ \/ /\ Len(bytes) < Size
        /\ got' = bytes
        /\ UNCHANGED <<client, answer>>
     \/ /\ Len(bytes) >= Size
        /\ \E kind \in Outcomes(bytes[1][1]) : Return(call, <<kind, bytes[1][2]>>)
  /\ UNCHANGED <<vm, toVm, vmGot, last, call, ran>>

\* Faulty variant: a closed channel is taken for an empty one.
ClientReadEndRetry ==
  /\ client = "reading"
  /\ AtEnd(toClient)
  /\ UNCHANGED vars

\* read returns 0 bytes and the response is incomplete.
ClientReadEnd ==
  /\ client = "reading"
  /\ AtEnd(toClient)
  /\ Return(call, <<"err", 0>>)
  /\ UNCHANGED <<vm, toVm, toClient, vmGot, last, call, ran>>

\* The client is dropped, the reader of its Channel first.
ClientDropReader ==
  /\ client = "idle"
  /\ client' = "dropping"
  /\ toClient' = [toClient EXCEPT !.receiver = FALSE]
  /\ UNCHANGED <<vm, toVm, got, vmGot, last, call, ran, answer>>

\* Faulty variant: another owner keeps the sender alive.
ClientDropWriterKept ==
  /\ client = "dropping"
  /\ client' = "ended"
  /\ UNCHANGED <<vm, toVm, toClient, got, vmGot, last, call, ran, answer>>

ClientDropWriter ==
  /\ client = "dropping"
  /\ client' = "ended"
  /\ toVm' = [toVm EXCEPT !.sender = FALSE]
  /\ UNCHANGED <<vm, toClient, got, vmGot, last, call, ran, answer>>

-----------------------------------------------------------------------------
(* The thread of the machine *)

\* load_program; its error ends the thread, and nobody looks at it.
VmLoad ==
  /\ vm = "loading"
  /\ vm' \in {"reading", "dropping"}
  /\ UNCHANGED <<client, toVm, toClient, got, vmGot, last, call, ran, answer>>

\* The read system call of the script.
VmRead(n) ==
  /\ vm = "reading"
  /\ Available(toVm) # <<>>
  /\ vmGot' = vmGot \o Taken(toVm, n)
  /\ toVm' = AfterRead(toVm, n)
  /\ vm' = IF Len(vmGot') >= Size THEN "serving" ELSE "reading"
  /\ UNCHANGED <<client, toClient, got, last, call, ran, answer>>

\* The read system call finds the channel closed.  execute reports the
\* incomplete packet and returns.
VmReadEnd ==
  /\ vm = "reading"
  /\ AtEnd(toVm)
  /\ vm' = "failing"
  /\ UNCHANGED <<client, toVm, toClient, got, vmGot, last, call, ran, answer>>

\* The write system call of a packet: blocked, or an error that stops the
\* machine.
VmSend(packet, isLast) ==
  /\ last' = isLast
  /\ \/ /\ toClient.receiver
        /\ toClient' = [toClient EXCEPT !.offered = packet]
        /\ vm' = "writing"
     \/ /\ ~ toClient.receiver
        /\ vm' = "dropping"
        /\ UNCHANGED toClient

\* Faulty variant: the request's bytes stay in front of those of the next one.
VmServeKeeping ==
  LET i == vmGot[1][2] IN
  /\ vm = "serving"
  /\ ran' = [ran EXCEPT ![i] = @ + 1]
  /\ VmSend(Packet("value", i), FALSE)
  /\ UNCHANGED <<vmGot, client, toVm, got, call, answer>>

\* receive_request cannot deserialize the request: execute reports the error and
\* returns.
VmRefuse ==
  /\ vm = "serving"
  /\ vmGot' = <<>>
  /\ VmSend(Packet("error", 0), TRUE)
  /\ UNCHANGED <<client, toVm, got, call, ran, answer>>

\* serve runs the request.  It may return an error, and the script may end or
\* be stopped by the machine (a system call that is not supported here).
VmServe ==
  LET i == vmGot[1][2] IN
  /\ vm = "serving"
  /\ ran' = [ran EXCEPT ![i] = @ + 1]
  /\ vmGot' = <<>>
  /\ \/ VmSend(Packet("value", i), FALSE)
     \/ VmSend(Packet("error", 0), TRUE)
     \/ vm' = "dropping" /\ UNCHANGED <<toClient, last>>
  /\ UNCHANGED <<client, toVm, got, call, answer>>

\* send_error_code after a failed read.
VmNotify ==
  /\ vm = "failing"
  /\ VmSend(Packet("error", 0), TRUE)
  /\ UNCHANGED <<client, toVm, got, vmGot, call, ran, answer>>

\* Faulty variant: the script goes on after it has reported an error.
VmSentGoesOn ==
  /\ vm = "writing"
  /\ \/ /\ toClient.offered = <<>>
        /\ vm' = "reading"
        /\ UNCHANGED toClient
     \/ /\ toClient.offered # <<>> /\ ~ toClient.receiver
        /\ vm' = "dropping"
        /\ toClient' = [toClient EXCEPT !.offered = <<>>]
  /\ UNCHANGED <<client, toVm, got, vmGot, last, call, ran, answer>>

\* The write system call returns, or stops the machine.
VmSent ==
  /\ vm = "writing"
  /\ \/ /\ toClient.offered = <<>>
        /\ vm' = IF last THEN "dropping" ELSE "reading"
        /\ UNCHANGED toClient
     \/ /\ toClient.offered # <<>> /\ ~ toClient.receiver
        /\ vm' = "dropping"
        /\ toClient' = [toClient EXCEPT !.offered = <<>>]
  /\ UNCHANGED <<client, toVm, got, vmGot, last, call, ran, answer>>

\* The machine is dropped with its system calls, the reading one first.
VmDropReader ==
  /\ vm = "dropping"
  /\ vm' = "closing"
  /\ toVm' = [toVm EXCEPT !.receiver = FALSE, !.rest = <<>>]
  /\ UNCHANGED <<client, toClient, got, vmGot, last, call, ran, answer>>

VmDropWriter ==
  /\ vm = "closing"
  /\ vm' = "ended"
  /\ toClient' = [toClient EXCEPT !.sender = FALSE]
  /\ UNCHANGED <<client, toVm, got, vmGot, last, call, ran, answer>>

-----------------------------------------------------------------------------

ClientWaits == ClientSent \/ (\E n \in ReadSizes : ClientRead(n)) \/ ClientReadEnd

ClientStep ==
  SpawnServer \/ ClientCall \/ ClientWaits \/ ClientDropReader \/ ClientDropWriter

VmStep ==
  \/ VmLoad \/ (\E n \in ReadSizes : VmRead(n)) \/ VmReadEnd
  \/ VmRefuse \/ VmServe \/ VmNotify \/ VmSent \/ VmDropReader \/ VmDropWriter

Terminated == client = "ended" /\ vm = "ended" /\ UNCHANGED vars

Next == ClientStep \/ VmStep \/ Terminated

Spec == Init /\ [][Next]_vars

\* Both threads run when they can, and a service returns.  Nothing makes the
\* program call or drop its client, but a drop that has begun is finished.
FairSpec ==
  /\ Spec
  /\ WF_vars(VmStep) /\ WF_vars(ClientWaits) /\ WF_vars(ClientDropWriter)

-----------------------------------------------------------------------------

\* The bytes on their way are those of the open call: what the script has read
\* of a request, what its Pipe keeps and what is being sent make one packet.
RequestWhole ==
  LET bytes == vmGot \o toVm.rest \o toVm.offered IN
  bytes # <<>> => bytes = Packet("request", call)

\* The same for the response, once it is being written.
ResponseWhole ==
  LET bytes == got \o toClient.rest \o toClient.offered IN
  bytes # <<>> => \E what \in {"value", "error"} : \E i \in {0, call} : bytes = Packet(what, i)

\* No byte is left over, lost or mixed up, in either direction.
PacketsWhole == RequestWhole /\ ResponseWhole

\* No call blocks forever, whatever becomes of the machine.
CallReturns == (client \in {"writing", "reading"}) ~> (client = "idle")

\* The doc of spawn_server: the thread ends when both pipes are dropped.
VmFollowsClient == (client = "ended") ~> (vm = "ended")

\* What a call returned, as Rpc has it: a value, read or not, counts as an answer
\* only when it is the one of the call's own request.
AnswerOf(i) ==
  IF answer[i][1] \in {"ok", "unread"} /\ answer[i][2] # i THEN "not_its_own"
  ELSE answer[i][1]

Promise ==
  INSTANCE Rpc WITH
    issued <- call,
    ran <- ran,
    answer <- [i \in Calls |-> AnswerOf(i)],
    up <- \/ vm \in {"new", "loading", "reading", "serving"}
          \/ vm = "writing" /\ ~ last

\* The session keeps the promises of Rpc, like the one between two scripts: a
\* call that returned a value ran once and got its own one, though the bytes of
\* the packets stay behind in pipes and buffers.
KeepsPromise == Promise!Spec
=============================================================================
