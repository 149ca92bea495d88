------------------------------ MODULE CSession ------------------------------
(***************************************************************************)
(* One client and one server that both use the C library, at the level of  *)
(* packets: csi_call on one side, csi_run_server on the other.  The bytes  *)
(* below the packets are in CStream, the pools of payloads in CPayload.    *)
(*                                                                         *)
(* The size of a packet decides how its writer blocks: a "small" one is    *)
(* buffered and flushed, so that a missing byte is noticed; the payload of *)
(* a "big" one is written directly and counts as written whatever the      *)
(* reader took; a "huge" one is a big one that has no block at the reader, *)
(* which panics.                                                           *)
(*                                                                         *)
(* When a process has ended, what the other reads depends on the moment.   *)
(* A read that was blocked returns no byte and buf_read panics.  A later   *)
(* one fails, but csi_read_vlq drops the error: numbers keep the value of  *)
(* their variable or come from bytes left in the buffer.  So a packet that *)
(* nobody sent is received, or a payload it seems to have fails or panics. *)
(***************************************************************************)
EXTENDS Naturals

CONSTANTS
  MaxCalls,   \* bound: the number of calls the client makes
  ErrorCodes  \* the error codes other than 0 that a service answers with

ASSUME MaxCallsAssumption == MaxCalls \in Nat
ASSUME ErrorCodesAssumption == ErrorCodes \subseteq Nat \ {0}

VARIABLES
  client,    \* where the client is
  call,      \* the number of its last call
  result,    \* what each call has returned
  c2s,       \* the pipe to the server
  s2c,       \* the pipe to the client
  server,    \* where the server is
  request,   \* the call the server works for, 0 when nobody sent it
  executed,  \* how often the service has run each call
  phantoms   \* how often it has run for a request that nobody sent

vars == <<client, call, result, c2s, s2c, server, request, executed, phantoms>>

Calls == 1 .. MaxCalls
Sizes == {"small", "big", "huge"}

\* "of": the call that a packet belongs to.
Packet == [of : 0 .. MaxCalls, code : ErrorCodes \cup {0}, size : Sizes]
Pipe == [state : {"free", "posted", "taken"}, packet : Packet]

NoPacket == [of |-> 0, code |-> 0, size |-> "small"]
Post(packet) == [state |-> "posted", packet |-> packet]

\* The result of csi_call: 0, the code of the response, or an error of its own.
Result == [tag : {"none", "ok", "code", "failed"}, of : 0 .. MaxCalls]
ResultOf(tag, i) == [tag |-> tag, of |-> i]
Answer(packet) == ResultOf(IF packet.code = 0 THEN "ok" ELSE "code", packet.of)

TypeOK ==
  /\ client \in {"idle", "posting", "waiting", "exited", "panicked"}
  /\ call \in 0 .. MaxCalls
  /\ result \in [Calls -> Result]
  /\ c2s \in Pipe
  /\ s2c \in Pipe
  /\ server \in {"receiving", "serving", "replying", "returned", "panicked"}
  /\ request \in 0 .. MaxCalls
  /\ executed \in [Calls -> Nat]
  /\ phantoms \in Nat

ClientEnded == client \in {"exited", "panicked"}
ServerEnded == server \in {"returned", "panicked"}

Init ==
  /\ client = "idle" /\ call = 0
  /\ result = [i \in Calls |-> ResultOf("none", 0)]
  /\ c2s = [state |-> "free", packet |-> NoPacket]
  /\ s2c = [state |-> "free", packet |-> NoPacket]
  /\ server = "receiving" /\ request = 0
  /\ executed = [i \in Calls |-> 0] /\ phantoms = 0

-----------------------------------------------------------------------------
(* The client *)

Return(i, r) ==
  /\ result' = [result EXCEPT ![i] = r]
  /\ client' = "idle"

\* csi_send_request, up to its blocking write, or its error when the server
\* has ended.
ClientCall(size) ==
  /\ client = "idle"
  /\ call < MaxCalls
  /\ call' = call + 1
  /\ \/ /\ ~ ServerEnded
        /\ c2s' = Post([of |-> call + 1, code |-> 0, size |-> size])
        /\ client' = "posting"
        /\ UNCHANGED result
     \/ /\ ServerEnded
        /\ Return(call + 1, ResultOf("failed", 0))
        /\ UNCHANGED c2s
  /\ UNCHANGED <<s2c, server, request, executed, phantoms>>

\* The write returns: the server read everything, or ended before.  buf_write
\* reports a direct write as complete in both cases, buf_flush notices.
ClientSent ==
  /\ client = "posting"
  /\ \/ /\ c2s.state = "taken"
        /\ client' = "waiting"
        /\ UNCHANGED result
     \/ /\ c2s.state = "posted" /\ ServerEnded
        /\ c2s.packet.size # "small"
        /\ client' = "waiting"
        /\ UNCHANGED result
     \/ /\ c2s.state = "posted" /\ ServerEnded
        /\ c2s.packet.size = "small"
        /\ Return(call, ResultOf("failed", 0))
  /\ c2s' = [c2s EXCEPT !.state = "free"]
  /\ UNCHANGED <<call, s2c, server, request, executed, phantoms>>

\* Faulty variant: a response that has no block is refused, and the client lives on.
ClientTakeRefused ==
  /\ client = "waiting"
  /\ s2c.state = "posted"
  /\ s2c' = [s2c EXCEPT !.state = "taken"]
  /\ Return(call, IF s2c.packet.size = "huge" THEN ResultOf("failed", 0) ELSE Answer(s2c.packet))
  /\ UNCHANGED <<call, c2s, server, request, executed, phantoms>>

\* csi_receive_response of a packet that is there.
ClientTake ==
  /\ client = "waiting"
  /\ s2c.state = "posted"
  /\ \/ /\ s2c.packet.size # "huge"
        /\ s2c' = [s2c EXCEPT !.state = "taken"]
        /\ Return(call, Answer(s2c.packet))
     \/ /\ s2c.packet.size = "huge"
        /\ \E state \in {"posted", "taken"} : s2c' = [s2c EXCEPT !.state = state]
        /\ client' = "panicked"
        /\ UNCHANGED result
  /\ UNCHANGED <<call, c2s, server, request, executed, phantoms>>

\* Faulty variant: the client reads on after the end of the stream.
ClientTakeNothingRetry ==
  /\ client = "waiting"
  /\ ServerEnded
  /\ s2c.state # "posted"
  /\ UNCHANGED vars

\* csi_receive_response when the server has ended without a response.
ClientTakeNothing ==
  /\ client = "waiting"
  /\ ServerEnded
  /\ s2c.state # "posted"
  /\ \/ client' = "panicked" /\ UNCHANGED result
     \/ \E tag \in {"ok", "code", "failed"} : Return(call, ResultOf(tag, 0))
  /\ UNCHANGED <<call, c2s, s2c, server, request, executed, phantoms>>

ClientExit ==
  /\ client = "idle"
  /\ client' = "exited"
  /\ UNCHANGED <<call, result, c2s, s2c, server, request, executed, phantoms>>

-----------------------------------------------------------------------------
(* The server *)

\* csi_receive_request of a packet that is there.
ServerTake ==
  /\ server = "receiving"
  /\ c2s.state = "posted"
  /\ \/ /\ c2s.packet.size # "huge"
        /\ c2s' = [c2s EXCEPT !.state = "taken"]
        /\ request' = c2s.packet.of
        /\ server' = "serving"
     \/ /\ c2s.packet.size = "huge"
        /\ \E state \in {"posted", "taken"} : c2s' = [c2s EXCEPT !.state = state]
        /\ server' = "panicked"
        /\ UNCHANGED request
  /\ UNCHANGED <<client, call, result, s2c, executed, phantoms>>

\* Faulty variant: the server reads on after the end of the stream.
ServerTakeNothingRetry ==
  /\ server = "receiving"
  /\ ClientEnded
  /\ c2s.state # "posted"
  /\ UNCHANGED vars

\* csi_receive_request when the client has gone.
ServerTakeNothing ==
  /\ server = "receiving"
  /\ ClientEnded
  /\ c2s.state # "posted"
  /\ \/ server' = "panicked" /\ UNCHANGED request
     \/ server' = "returned" /\ UNCHANGED request
     \/ server' = "serving" /\ request' = 0
  /\ UNCHANGED <<client, call, result, c2s, s2c, executed, phantoms>>

\* The callback has run once more.
Count ==
  \/ /\ request > 0
     /\ executed' = [executed EXCEPT ![request] = @ + 1]
     /\ UNCHANGED phantoms
  \/ /\ request = 0
     /\ phantoms' = phantoms + 1
     /\ UNCHANGED executed

\* Faulty variant: the error code is sent in another encoding.
ServerServeMiscoded(code, size) ==
  /\ server = "serving"
  /\ Count
  /\ ~ ClientEnded
  /\ s2c' = Post([of |-> request, code |-> 2 * code, size |-> size])
  /\ server' = "replying"
  /\ UNCHANGED <<client, call, result, c2s, request>>

\* Faulty variant: the response variable keeps what it had for the last call.
ServerServeStale(code, size) ==
  /\ server = "serving"
  /\ Count
  /\ ~ ClientEnded
  /\ s2c' = Post([of |-> IF s2c.packet.of = 0 THEN request ELSE s2c.packet.of,
                  code |-> code, size |-> size])
  /\ server' = "replying"
  /\ UNCHANGED <<client, call, result, c2s, request>>

\* Faulty variant: the error of sending a response does not end the loop.
ServerServeGoesOn(code, size) ==
  /\ server = "serving"
  /\ Count
  /\ \/ /\ ~ ClientEnded
        /\ s2c' = Post([of |-> request, code |-> code, size |-> size])
        /\ server' = "replying"
     \/ /\ ClientEnded
        /\ server' = "receiving"
        /\ UNCHANGED s2c
  /\ UNCHANGED <<client, call, result, c2s, request>>

\* The callback and csi_send_response up to its blocking write.  An error of
\* the callback ends the server without a response; a client that has gone
\* ends it with the error of the write.
ServerServe(code, size) ==
  /\ server = "serving"
  /\ Count
  /\ \/ /\ ~ ClientEnded
        /\ s2c' = Post([of |-> request, code |-> code, size |-> size])
        /\ server' = "replying"
     \/ /\ ClientEnded
        /\ server' = "returned"
        /\ UNCHANGED s2c
     \/ /\ server' \in {"returned", "panicked"}
        /\ UNCHANGED s2c
  /\ UNCHANGED <<client, call, result, c2s, request>>

\* Faulty variant: the loop serves the request again.
ServerRepliedAgain ==
  /\ server = "replying"
  /\ s2c.state = "taken"
  /\ server' = "serving"
  /\ s2c' = [s2c EXCEPT !.state = "free"]
  /\ UNCHANGED <<client, call, result, c2s, request, executed, phantoms>>

\* The write of the response returns, see ClientSent.
ServerReplied ==
  /\ server = "replying"
  /\ \/ s2c.state = "taken" /\ server' = "receiving"
     \/ /\ s2c.state = "posted" /\ ClientEnded
        /\ s2c.packet.size # "small"
        /\ server' = "receiving"
     \/ /\ s2c.state = "posted" /\ ClientEnded
        /\ s2c.packet.size = "small"
        /\ server' = "returned"
  /\ s2c' = [s2c EXCEPT !.state = "free"]
  /\ UNCHANGED <<client, call, result, c2s, request, executed, phantoms>>

-----------------------------------------------------------------------------

ClientStep ==
  \/ \E size \in Sizes : ClientCall(size)
  \/ ClientSent \/ ClientTake \/ ClientTakeNothing \/ ClientExit

ServerStep ==
  \/ ServerTake \/ ServerTakeNothing
  \/ \E code \in ErrorCodes \cup {0}, size \in Sizes : ServerServe(code, size)
  \/ ServerReplied

Terminated == ClientEnded /\ ServerEnded /\ UNCHANGED vars

Next == ClientStep \/ ServerStep \/ Terminated

Spec == Init /\ [][Next]_vars

\* The scheduler runs what can run and the callback returns.
FairSpec ==
  /\ Spec
  /\ WF_vars(ServerStep) /\ WF_vars(ClientSent)
  /\ WF_vars(ClientTake \/ ClientTakeNothing)

-----------------------------------------------------------------------------

\* A call that returned 0 or a code of the service got the response to its own
\* request, which ran once; only when the server is down may it have got what
\* nobody sent.
AnswersOwnCall ==
  \A i \in Calls : result[i].tag \in {"ok", "code"} =>
     \/ result[i].of = i /\ executed[i] = 1
     \/ result[i].of = 0 /\ ServerEnded

\* Requests run at most once, in the order of the calls.
OnceInOrder ==
  \A i \in Calls :
     /\ executed[i] <= 1
     /\ executed[i] = 1 =>
          i <= call /\ \A j \in 1 .. (i - 1) : result[j].tag # "none"

\* A call fails only when the server is down, and no later call reaches the
\* service.
FailureIsFinal ==
  \A i \in Calls : result[i].tag = "failed" =>
     ServerEnded /\ \A j \in i + 1 .. MaxCalls : executed[j] = 0

\* The service runs for a request that nobody sent at most once, as the last
\* thing before the server ends, and only when its client has gone.
PhantomOnlyAtEnd ==
  /\ phantoms > 0 => ClientEnded /\ ServerEnded
  /\ phantoms <= 1

\* csi_call does not block for ever: it returns, or the client panics.
CallReturns == (client \in {"posting", "waiting"}) ~> (client \in {"idle", "panicked"})

\* The server does not outlive its client.
ServerFollowsClient == ClientEnded ~> ServerEnded
=============================================================================
