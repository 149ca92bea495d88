----------------------------- MODULE RpcSession -----------------------------
(***************************************************************************)
(* One client and one server of the Rust crate, at the level of packets:   *)
(* Channel::call or the send_json/receive_json pair on the client's side,  *)
(* Channel::execute on the server's, and the two pipes between them.       *)
(*                                                                         *)
(* A pipe of the VM is a rendezvous.  The writer is blocked from the       *)
(* moment it posts a packet until the reader has taken all of it or has    *)
(* gone; a reader is blocked until something is posted or the writer has   *)
(* gone.  A packet is one write: Channel serializes it into one buffer and *)
(* flushes.  A packet that is larger than the BufWriter ("big") bypasses   *)
(* its buffer, and then Channel does not look at how much was written.     *)
(*                                                                         *)
(* A process that ends closes its descriptors.                             *)
(***************************************************************************)
EXTENDS IpcErrors

CONSTANTS
  MaxCalls,       \* bound: the number of calls a client makes
  Method,         \* the methods of the service
  NoMethod,       \* the method of a packet that carries none
  ServiceErrors   \* the errors an implementation of Serve may return

ASSUME MaxCallsAssumption == MaxCalls \in Nat
ASSUME MethodAssumption == NoMethod \notin Method
ASSUME ServiceErrorsAssumption == ServiceErrors \subseteq IpcError

VARIABLES
  api,       \* what the client calls with: "macro", "channel" or "json"
  client,    \* where the client is
  call,      \* the last request the client built
  result,    \* what each call has returned
  c2s,       \* the pipe to the server
  s2c,       \* the pipe to the client
  server,    \* where the server is
  request,   \* the request the server took last
  error,     \* the error that execute got, NoError before
  executed   \* how often the service has run each call

vars ==
  <<api, client, call, result, c2s, s2c, server, request, error, executed>>

Calls == 1 .. MaxCalls

\* "good": the payload deserializes to a request of the service.
Request ==
  [id : 0 .. MaxCalls, method : Method \cup {NoMethod},
   good : BOOLEAN, big : BOOLEAN]

NoRequest == [id |-> 0, method |-> NoMethod, good |-> FALSE, big |-> FALSE]

\* "of" is the call whose value the payload holds, 0 when it is empty.
Response ==
  [code : Nat, of : 0 .. MaxCalls, method : Method \cup {NoMethod},
   big : BOOLEAN]

NoError == Plain("none")

\* What a call has returned.  "from" is the call whose value it got.
NotReturned == [tag |-> "none", from |-> 0, error |-> NoError]
OkOf(i) == [tag |-> "ok", from |-> i, error |-> NoError]
Err(e) == [tag |-> "err", from |-> 0, error |-> e]

Result ==
  [tag : {"none", "ok", "err"}, from : 0 .. MaxCalls,
   error : IpcError \cup {NoError}]

Apis == {"macro", "channel", "json"}

Pipe(Packet) == [state : {"free", "posted", "taken"}, packet : Packet]

\* ResponsePacket of send_error_code: an error code and no payload.
ErrorPacket(code) ==
  [code |-> code, of |-> 0, method |-> NoMethod, big |-> FALSE]

TypeOK ==
  /\ api \in Apis
  /\ client \in {"idle", "posting", "sent", "waiting", "exited", "panicked"}
  /\ call \in Request
  /\ result \in [Calls -> Result]
  /\ c2s \in Pipe(Request)
  /\ s2c \in Pipe(Response)
  /\ server \in {"receiving", "serving", "replying", "failing", "notifying",
                 "returned", "panicked"}
  /\ request \in Request
  /\ error \in IpcError \cup {NoError}
  /\ executed \in [Calls -> Nat]

ClientEnded == client \in {"exited", "panicked"}
ServerEnded == server \in {"returned", "panicked"}

Init ==
  /\ api \in Apis
  /\ client = "idle"
  /\ call = NoRequest
  /\ result = [i \in Calls |-> NotReturned]
  /\ c2s = [state |-> "free", packet |-> NoRequest]
  /\ s2c = [state |-> "free", packet |-> ErrorPacket(0)]
  /\ server = "receiving"
  /\ request = NoRequest
  /\ error = NoError
  /\ executed = [i \in Calls |-> 0]

-----------------------------------------------------------------------------
(* The client *)

\* Where a client is once its call has returned: the methods of the macro's
\* client panic on every error, the others hand it to their caller.
AfterReturn(r) ==
  IF api = "macro" /\ r.tag = "err" THEN "panicked" ELSE "idle"

\* Call i returns r.
Return(i, r) ==
  /\ result' = [result EXCEPT ![i] = r]
  /\ client' = AfterReturn(r)

\* send_request and send_json_request up to the blocking write.  A typed
\* request may not serialize, and what it serializes to may still be nothing
\* the server can deserialize (a NaN is written as null).  A write to a pipe
\* whose other end is closed fails whatever its size.
ClientSend(method, good, big) ==
  /\ client = "idle"
  /\ call.id < MaxCalls
  /\ call' =
       [id |-> call.id + 1, method |-> method, good |-> good, big |-> big]
  /\ \/ /\ api # "json"
        /\ Return(call'.id, Err(Plain("SerializeError")))
        /\ UNCHANGED c2s
     \/ /\ ServerEnded
        /\ Return(call'.id, Err(Plain("GeneralIoError")))
        /\ UNCHANGED c2s
     \/ /\ ~ ServerEnded
        /\ c2s' = [state |-> "posted", packet |-> call']
        /\ client' = "posting"
        /\ UNCHANGED result
  /\ UNCHANGED <<api, s2c, server, request, error, executed>>

\* Faulty variant: the caller of the JSON pair may send before it receives.
AfterSendEager == IF api = "json" THEN "idle" ELSE "waiting"

\* Where a client is once its request is sent.  A caller of the JSON pair
\* sends one request and then receives its response.
AfterSend == IF api = "json" THEN "sent" ELSE "waiting"

\* The blocking write returns: the server took the packet, or ended without.
\* flush notices the missing bytes, the direct write of a big packet does not.
ClientSent ==
  /\ client = "posting"
  /\ \/ /\ c2s.state = "taken"
        /\ client' = AfterSend
        /\ UNCHANGED result
     \/ /\ c2s.state = "posted" /\ ServerEnded
        /\ call.big
        /\ client' = AfterSend
        /\ UNCHANGED result
     \/ /\ c2s.state = "posted" /\ ServerEnded
        /\ ~ call.big
        /\ Return(call.id, Err(Plain("GeneralIoError")))
  /\ c2s' = [c2s EXCEPT !.state = "free"]
  /\ UNCHANGED <<api, call, s2c, server, request, error, executed>>

\* The caller of the JSON pair calls receive_json_response.
ClientReceiveJson ==
  /\ client = "sent"
  /\ client' = "waiting"
  /\ UNCHANGED
       <<api, call, result, c2s, s2c, server, request, error, executed>>

\* Faulty variant: the error code of the packet is not looked at.
DecodedUnchecked(packet) == {OkOf(packet.of)}

\* What receive_response and receive_json_response may make of a packet.  The
\* JSON pair returns any payload as a string.  The payload of a typed reply may
\* not deserialize, and an empty one never does.
Decoded(packet) ==
  IF packet.code # 0 THEN {Err(ProtocolError(packet.code))}
  ELSE IF api = "json" THEN {OkOf(packet.of)}
  ELSE {OkOf(i) : i \in {packet.of} \ {0}} \cup {Err(Plain("DeserializeError"))}

\* The response is for another method: the client of the macro panics.
Mismatch(packet, r) ==
  /\ api = "macro"
  /\ r.tag = "ok"
  /\ packet.method # call.method

\* The client takes the response the server has posted.  An error code that is
\* not defined makes the conversion of it panic.
ClientTake ==
  /\ client = "waiting"
  /\ s2c.state = "posted"
  /\ s2c' = [s2c EXCEPT !.state = "taken"]
  /\ \E r \in Decoded(s2c.packet) :
        \/ /\ s2c.packet.code \notin DefinedCodes \/ Mismatch(s2c.packet, r)
           /\ client' = "panicked"
           /\ UNCHANGED result
        \/ /\ s2c.packet.code \in DefinedCodes /\ ~ Mismatch(s2c.packet, r)
           /\ Return(call.id, r)
  /\ UNCHANGED <<api, call, c2s, server, request, error, executed>>

\* Faulty variant: the end of the stream is taken for nothing to read yet.
ClientReadClosedRetry ==
  /\ client = "waiting"
  /\ ServerEnded
  /\ s2c.state # "posted"
  /\ UNCHANGED vars

\* The server has ended without a response.  A read that was blocked returns
\* 0 bytes and the packet is incomplete; one that comes later fails.
ClientReadClosed ==
  /\ client = "waiting"
  /\ ServerEnded
  /\ s2c.state # "posted"
  /\ \E e \in {Plain("IncompleteVlqSeq"), Plain("ReadVlqError")} :
        Return(call.id, Err(e))
  /\ UNCHANGED <<api, call, c2s, s2c, server, request, error, executed>>

\* The caller of the library ends, between calls or between the JSON pair.
ClientExit ==
  /\ client \in {"idle", "sent"}
  /\ client' = "exited"
  /\ UNCHANGED
       <<api, call, result, c2s, s2c, server, request, error, executed>>

-----------------------------------------------------------------------------
(* The server *)

\* Faulty variant: the error's detail is overwritten by the code it is sent as.
FailConverted(e) ==
  /\ error' = <<e[1], CodeOf(e)>>
  /\ server' = "failing"

\* execute's result is e: it goes on to notify the client.
Fail(e) ==
  /\ error' = e
  /\ server' = "failing"

\* receive_request, when a packet is there.
ServerTake ==
  /\ server = "receiving"
  /\ c2s.state = "posted"
  /\ c2s' = [c2s EXCEPT !.state = "taken"]
  /\ request' = c2s.packet
  /\ \/ c2s.packet.good /\ server' = "serving" /\ UNCHANGED error
     \/ ~ c2s.packet.good /\ Fail(Plain("DeserializeError"))
  /\ UNCHANGED <<api, client, call, result, s2c, executed>>

\* Faulty variant: the end of the stream is taken for nothing to read yet.
ServerReadClosedRetry ==
  /\ server = "receiving"
  /\ ClientEnded
  /\ c2s.state # "posted"
  /\ UNCHANGED vars

\* receive_request, when the client is gone.
ServerReadClosed ==
  /\ server = "receiving"
  /\ ClientEnded
  /\ c2s.state # "posted"
  /\ \E e \in {Plain("IncompleteVlqSeq"), Plain("ReadVlqError")} : Fail(e)
  /\ UNCHANGED <<api, client, call, result, c2s, s2c, request, executed>>

\* The packet that send_response builds from the service's value.
ReplyTo(r, big) == [code |-> 0, of |-> r.id, method |-> r.method, big |-> big]

\* Faulty variant: the reply is built from what is already in the buffer.
ServerServeStale(big) ==
  /\ server = "serving"
  /\ executed' = [executed EXCEPT ![request.id] = @ + 1]
  /\ s2c' = [state |-> "posted",
             packet |-> IF s2c.packet.of = 0 THEN ReplyTo(request, big)
                        ELSE s2c.packet]
  /\ server' = "replying"
  /\ UNCHANGED <<api, client, call, result, c2s, request, error>>

\* Faulty variant: an error of the service is reported and serving goes on.
ServerServeOn(big) ==
  /\ server = "serving"
  /\ executed' = [executed EXCEPT ![request.id] = @ + 1]
  /\ \/ s2c' = [state |-> "posted", packet |-> ReplyTo(request, big)]
     \/ \E e \in ServiceErrors :
          s2c' = [state |-> "posted", packet |-> ErrorPacket(CodeOf(e))]
  /\ server' = "replying"
  /\ UNCHANGED <<api, client, call, result, c2s, request, error>>

\* serve runs the method and send_response writes its value.  The service may
\* return an error or panic, the value may not serialize, and the client may
\* be gone.
ServerServe(big) ==
  /\ server = "serving"
  /\ executed' = [executed EXCEPT ![request.id] = @ + 1]
  /\ \/ /\ ~ ClientEnded
        /\ s2c' = [state |-> "posted", packet |-> ReplyTo(request, big)]
        /\ server' = "replying"
        /\ UNCHANGED error
     \/ /\ ClientEnded
        /\ Fail(Plain("GeneralIoError"))
        /\ UNCHANGED s2c
     \/ /\ \E e \in ServiceErrors \cup {Plain("SerializeError")} : Fail(e)
        /\ UNCHANGED s2c
     \/ /\ server' = "panicked"
        /\ UNCHANGED <<s2c, error>>
  /\ UNCHANGED <<api, client, call, result, c2s, request>>

\* Faulty variant: the request is served again after a reply.
ServerRepliedAgain ==
  /\ server = "replying"
  /\ s2c.state = "taken"
  /\ server' = "serving"
  /\ s2c' = [s2c EXCEPT !.state = "free"]
  /\ UNCHANGED <<api, client, call, result, c2s, request, error, executed>>

\* The write of a reply returns: the client took it, or has gone.  As in
\* ClientSent, a big reply that nobody read counts as sent.
ServerReplied ==
  /\ server = "replying"
  /\ \/ /\ s2c.state = "taken"
        /\ server' = "receiving"
        /\ UNCHANGED error
     \/ /\ s2c.state = "posted" /\ ClientEnded
        /\ s2c.packet.big
        /\ server' = "receiving"
        /\ UNCHANGED error
     \/ /\ s2c.state = "posted" /\ ClientEnded
        /\ ~ s2c.packet.big
        /\ Fail(Plain("GeneralIoError"))
  /\ s2c' = [s2c EXCEPT !.state = "free"]
  /\ UNCHANGED <<api, client, call, result, c2s, request, executed>>

\* send_error_code up to its blocking write.  When the client has gone the
\* write fails and the unwrap of its result panics.
ServerNotify ==
  /\ server = "failing"
  /\ \/ /\ ~ ClientEnded
        /\ s2c' = [state |-> "posted", packet |-> ErrorPacket(CodeOf(error))]
        /\ server' = "notifying"
     \/ /\ ClientEnded
        /\ server' = "panicked"
        /\ UNCHANGED s2c
  /\ UNCHANGED <<api, client, call, result, c2s, request, error, executed>>

\* Faulty variant: the loop goes on after it has reported an error.
ServerNotifiedContinue ==
  /\ server = "notifying"
  /\ \/ s2c.state = "taken" /\ server' = "receiving"
     \/ s2c.state = "posted" /\ ClientEnded /\ server' = "panicked"
  /\ s2c' = [s2c EXCEPT !.state = "free"]
  /\ UNCHANGED <<api, client, call, result, c2s, request, error, executed>>

\* The write of the error code returns, execute returns and the server ends.
ServerNotified ==
  /\ server = "notifying"
  /\ \/ s2c.state = "taken" /\ server' = "returned"
     \/ s2c.state = "posted" /\ ClientEnded /\ server' = "panicked"
  /\ s2c' = [s2c EXCEPT !.state = "free"]
  /\ UNCHANGED <<api, client, call, result, c2s, request, error, executed>>

-----------------------------------------------------------------------------

ClientStep ==
  \/ \E method \in Method, good \in BOOLEAN, big \in BOOLEAN :
        ClientSend(method, good, big)
  \/ ClientSent
  \/ ClientReceiveJson
  \/ ClientTake
  \/ ClientReadClosed
  \/ ClientExit

ServerStep ==
  \/ ServerTake
  \/ ServerReadClosed
  \/ \E big \in BOOLEAN : ServerServe(big)
  \/ ServerReplied
  \/ ServerNotify
  \/ ServerNotified

\* Both processes have ended: nothing is left to do.
Terminated == ClientEnded /\ ServerEnded /\ UNCHANGED vars

Next == ClientStep \/ ServerStep \/ Terminated

Spec == Init /\ [][Next]_vars

\* The scheduler runs every process that can run, and a service returns.
\* Nothing makes the caller of the library send, receive or end.
Fairness ==
  /\ WF_vars(ServerStep)
  /\ WF_vars(ClientSent)
  /\ WF_vars(ClientTake \/ ClientReadClosed)

FairSpec == Spec /\ Fairness

-----------------------------------------------------------------------------
(* Safety *)

\* A call that returned a value got the value of its own request, and the
\* service ran that request exactly once; the caller of the JSON pair may also
\* get the empty payload of a server that failed with the error code Ok.
ReplyAnswersCall ==
  \A i \in Calls : result[i].tag = "ok" =>
     /\ executed[i] = 1
     /\ \/ result[i].from = i
        \/ api = "json" /\ result[i].from = 0 /\ error = ProtocolError(0)

\* No request is run twice, and none is run before those sent earlier returned
\* (execute serves one request between two reads, and the client waits).
AtMostOnceInOrder ==
  \A i \in Calls :
     /\ executed[i] \in {0, 1}
     /\ executed[i] = 1 =>
          /\ i <= call.id
          /\ \A j \in 1 .. (i - 1) : result[j].tag # "none"

\* An error code that a call returned is the code of the one error that ended
\* the server's loop, and no later call gets a value.
TruthfulError ==
  \A i \in Calls :
     result[i].tag = "err" /\ result[i].error[1] = "ProtocolError" =>
        /\ error # NoError
        /\ result[i].error[2] = CodeOf(error)
        /\ \A j \in i + 1 .. MaxCalls : result[j].tag # "ok"

\* A client panics only because its call returned an error: no undefined error
\* code reaches it (From<u64> would panic), nor a reply to another method.
ClientPanicsOnlyOnError ==
  client = "panicked" => call.id > 0 /\ result[call.id].tag = "err"

\* The two blocking writes never wait for each other: both pipes full at once
\* would stop both processes for good.
NoMutualWrite ==
  ~ (/\ client = "posting" /\ c2s.state = "posted"
     /\ server \in {"replying", "notifying"} /\ s2c.state = "posted")

-----------------------------------------------------------------------------
(* Action properties and liveness *)

\* After its first error the server runs nothing, and its error stays.
FailStop == [][error # NoError => UNCHANGED <<executed, error>>]_vars

\* No call blocks forever: each one that is sent or waits for its answer
\* returns, whatever becomes of the server.
CallReturns == (client \in {"posting", "waiting"}) ~> (client \notin {"posting", "waiting"})

\* The server does not outlive its client.
ServerFollowsClient == ClientEnded ~> ServerEnded

-----------------------------------------------------------------------------
(* The session keeps the promises of Rpc. *)

\* What a result is in Rpc.  A DeserializeError is the client's own; that of the
\* server arrives as the code of a ProtocolError.
AnswerFor(r) ==
  IF r.error = Plain("DeserializeError") THEN "unread" ELSE r.tag

Promise ==
  INSTANCE Rpc WITH
    issued <- call.id,
    ran <- executed,
    answer <- [i \in Calls |-> AnswerFor(result[i])],
    up <- server \in {"receiving", "serving", "replying"}

\* Every behaviour of the two processes is one of the promised sessions.
KeepsPromise == Promise!Spec
=============================================================================
