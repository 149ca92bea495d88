------------------------- MODULE RpcSession_proofs -------------------------
(***************************************************************************)
(* Proofs about RpcSession, for every number of calls, every set of        *)
(* methods and every set of errors the service may return.                 *)
(***************************************************************************)
EXTENDS RpcSession, TLAPS

\* The calls that came before the last one have returned, the last one has
\* exactly when the client is between calls, and later ones are untouched.
CallsInOrder ==
  /\ \A i \in Calls : i < call.id => result[i].tag # "none"
  /\ \A i \in Calls : i > call.id => result[i] = NotReturned /\ executed[i] = 0
  /\ client = "idle" /\ call.id > 0 => result[call.id].tag # "none"
  /\ client \in {"posting", "sent", "waiting"} =>
       call.id \in Calls /\ result[call.id] = NotReturned

\* The server has the call, or its answer is on the way.
Busy == server \in {"serving", "failing"} \/ s2c.state = "posted"

\* A full pipe belongs to the writer that is blocked on it, and while the
\* server is busy the client neither writes nor is between calls.
PipesInStep ==
  /\ c2s.state # "free" <=> client = "posting"
  /\ c2s.state = "posted" => c2s.packet = call /\ executed[call.id] = 0
  /\ s2c.state # "free" <=> server \in {"replying", "notifying"}
  /\ Busy => client # "idle" /\ c2s.state # "posted"

\* The call the server runs is the open one and has not been run; its reply
\* carries the value of that call.
ServesOpenCall ==
  /\ \A i \in Calls : executed[i] \in {0, 1}
  /\ server = "serving" =>
       /\ call.id \in Calls
       /\ request = call
       /\ result[call.id] = NotReturned
       /\ executed[call.id] = 0
  /\ server = "replying" /\ s2c.state = "posted" =>
       /\ call.id \in Calls
       /\ executed[call.id] = 1
       /\ s2c.packet.code = 0
       /\ s2c.packet.of = call.id
       /\ s2c.packet.method = call.method

\* The loop's error is there exactly from the failure on; its code is what the
\* error packet carries, and nobody has been told of it before that.
ErrorInStep ==
  /\ server \in {"receiving", "serving", "replying"} => error = NoError
  /\ server \in {"failing", "notifying", "returned"} => error \in IpcError
  /\ server = "notifying" /\ s2c.state = "posted" =>
       s2c.packet = ErrorPacket(CodeOf(error))
  /\ error = ProtocolError(0) /\ Busy =>
       call.id \in Calls /\ executed[call.id] = 1
  /\ error = NoError \/ Busy =>
       \A i \in Calls :
          ~ (result[i].tag = "err" /\ result[i].error[1] = "ProtocolError")

\* The inductive invariant.
Inv ==
  /\ TypeOK
  /\ CallsInOrder
  /\ PipesInStep
  /\ ServesOpenCall
  /\ ErrorInStep
  /\ ReplyAnswersCall
  /\ TruthfulError
  /\ ClientPanicsOnlyOnError

-----------------------------------------------------------------------------
(* Error values *)

\* Every error the crate can produce is sent as a code the other end defines
\* (NoError too, which the type invariant alone does not exclude), and only
\* the error that carries the code Ok is sent as Ok.
LEMMA CodeOfFacts ==
  /\ \A e \in IpcError \cup {NoError} : CodeOf(e) \in DefinedCodes
  /\ \A e \in IpcError : CodeOf(e) = 0 => e = ProtocolError(0)
<1>1. \A e \in PlainVariants \X {0} :
         CodeOf(e) \in DefinedCodes /\ CodeOf(e) # 0
  BY DEF CodeOf, PlainVariants, DefinedCodes
<1>2. \A n \in 1 .. 10 : CodeOf(<<"CkbSysError", n>>) \in DefinedCodes \ {0}
  BY DEF CodeOf, CodeOfSysError, DefinedCodes
<1>3. \A c \in DefinedCodes : CodeOf(<<"ProtocolError", c>>) = c
  BY DEF CodeOf
<1>4. CodeOf(NoError) \in DefinedCodes
  BY DEF CodeOf, NoError, Plain, DefinedCodes
<1>5. ASSUME NEW e \in IpcError
      PROVE  CodeOf(e) \in DefinedCodes /\ (CodeOf(e) = 0 => e = ProtocolError(0))
  <2>1. CASE e \in PlainVariants \X {0}
    BY <1>1, <2>1
  <2>2. CASE e \in {"CkbSysError"} \X (1 .. 10)
    <3>1. PICK n \in 1 .. 10 : e = <<"CkbSysError", n>>
      BY <2>2
    <3> QED BY <1>2, <3>1
  <2>3. CASE e \in {"ProtocolError"} \X DefinedCodes
    <3>1. PICK c \in DefinedCodes : e = <<"ProtocolError", c>>
      BY <2>3
    <3> QED BY <1>3, <3>1 DEF ProtocolError
  <2> QED BY <2>1, <2>2, <2>3 DEF IpcError
<1> QED BY <1>4, <1>5

\* The errors that the actions name are errors of the crate.
LEMMA NamedErrors ==
  /\ Plain("SerializeError") \in IpcError
  /\ Plain("DeserializeError") \in IpcError
  /\ Plain("GeneralIoError") \in IpcError
  /\ Plain("IncompleteVlqSeq") \in IpcError
  /\ Plain("ReadVlqError") \in IpcError
  /\ \A c \in DefinedCodes : ProtocolError(c) \in IpcError
  /\ NoError \notin IpcError
  BY DEF Plain, IpcError, PlainVariants, ProtocolError, NoError

\* None of the errors that an end finds by itself is a ProtocolError.
LEMMA LocalErrors ==
  \A v \in {"SerializeError", "DeserializeError", "GeneralIoError",
            "IncompleteVlqSeq", "ReadVlqError"} :
     Plain(v)[1] # "ProtocolError" /\ Plain(v) # ProtocolError(0)
  BY DEF Plain, ProtocolError

-----------------------------------------------------------------------------
(* Type correctness *)

\* What a call returns is a Result.
LEMMA ResultType ==
  /\ NotReturned \in Result
  /\ \A e \in IpcError : Err(e) \in Result
  /\ \A i \in 0 .. MaxCalls : OkOf(i) \in Result
  /\ \A packet \in Response :
        packet.code \in DefinedCodes => Decoded(packet) \subseteq Result
<1>1. NotReturned \in Result
  BY MaxCallsAssumption DEF NotReturned, Result
<1>2. \A e \in IpcError : Err(e) \in Result
  BY MaxCallsAssumption DEF Err, Result
<1>3. \A i \in 0 .. MaxCalls : OkOf(i) \in Result
  BY DEF OkOf, Result
<1>4. ASSUME NEW packet \in Response, packet.code \in DefinedCodes
      PROVE  Decoded(packet) \subseteq Result
  <2>1. packet.of \in 0 .. MaxCalls
    BY DEF Response
  <2> QED BY <1>2, <1>3, <1>4, <2>1, NamedErrors DEF Decoded
<1> QED BY <1>1, <1>2, <1>3, <1>4

\* The initial state is well typed.
LEMMA InitType == Init => TypeOK
<1> SUFFICES ASSUME Init PROVE TypeOK
  OBVIOUS
<1>1. NoRequest \in Request
  BY MaxCallsAssumption DEF NoRequest, Request
<1>2. ErrorPacket(0) \in Response
  BY MaxCallsAssumption DEF ErrorPacket, Response
<1>3. c2s \in Pipe(Request) /\ s2c \in Pipe(Response)
  BY <1>1, <1>2 DEF Init, Pipe
<1>4. result \in [Calls -> Result] /\ executed \in [Calls -> Nat]
  BY ResultType DEF Init
<1> QED BY <1>1, <1>3, <1>4 DEF Init, TypeOK

\* Every step keeps every variable in its type.
LEMMA StepType == TypeOK /\ [Next]_vars => TypeOK'
<1> SUFFICES ASSUME TypeOK, [Next]_vars PROVE TypeOK'
  OBVIOUS
<1> USE DEF TypeOK
<1>1. ASSUME NEW method \in Method, NEW good \in BOOLEAN, NEW big \in BOOLEAN,
             ClientSend(method, good, big)
      PROVE  TypeOK'
  <2>1. call' \in Request /\ call'.id = call.id + 1
    BY <1>1, MaxCallsAssumption DEF ClientSend, Request
  <2>2. result' \in [Calls -> Result]
    BY <1>1, ResultType, NamedErrors DEF ClientSend, Return
  <2>3. c2s' \in Pipe(Request)
    BY <1>1, <2>1 DEF ClientSend, Pipe
  <2>4. client' \in {"idle", "posting", "panicked"}
    BY <1>1 DEF ClientSend, Return, AfterReturn
  <2> QED BY <1>1, <2>1, <2>2, <2>3, <2>4 DEF ClientSend
<1>2. CASE ClientSent
  <2>1. result' \in [Calls -> Result]
    BY <1>2, ResultType, NamedErrors DEF ClientSent, Return
  <2>2. c2s' \in Pipe(Request)
    BY <1>2 DEF ClientSent, Pipe
  <2>3. client' \in {"idle", "sent", "waiting", "panicked"}
    BY <1>2 DEF ClientSent, Return, AfterReturn, AfterSend
  <2> QED BY <1>2, <2>1, <2>2, <2>3 DEF ClientSent
<1>3. CASE ClientReceiveJson
  BY <1>3 DEF ClientReceiveJson
<1>4. CASE ClientTake
  <2>1. s2c.packet \in Response /\ s2c' \in Pipe(Response)
    BY <1>4 DEF ClientTake, Pipe
  <2>2. result' \in [Calls -> Result]
    BY <1>4, <2>1, ResultType DEF ClientTake, Return
  <2>3. client' \in {"idle", "panicked"}
    BY <1>4 DEF ClientTake, Return, AfterReturn
  <2> QED BY <1>4, <2>1, <2>2, <2>3 DEF ClientTake
<1>5. CASE ClientReadClosed
  <2> PICK e \in {Plain("IncompleteVlqSeq"), Plain("ReadVlqError")} :
        Return(call.id, Err(e))
    BY <1>5 DEF ClientReadClosed
  <2>1. result' \in [Calls -> Result]
    <3>1. Err(e) \in Result
      BY ResultType, NamedErrors
    <3> QED BY <3>1 DEF Return
  <2>2. client' \in {"idle", "panicked"}
    BY DEF Return, AfterReturn
  <2> QED BY <1>5, <2>1, <2>2 DEF ClientReadClosed
<1>6. CASE ClientExit
  BY <1>6 DEF ClientExit
<1>7. CASE ServerTake
  <2>1. c2s.packet \in Request /\ c2s' \in Pipe(Request)
    BY <1>7 DEF ServerTake, Pipe
  <2> QED BY <1>7, <2>1, NamedErrors DEF ServerTake, Fail
<1>8. CASE ServerReadClosed
  BY <1>8, NamedErrors DEF ServerReadClosed, Fail
<1>9. ASSUME NEW big \in BOOLEAN, ServerServe(big)
      PROVE  TypeOK'
  <2>1. executed' \in [Calls -> Nat]
    <3>1. executed' = [executed EXCEPT ![request.id] = executed[request.id] + 1]
      BY <1>9 DEF ServerServe
    <3>2. CASE request.id \in Calls
      BY <3>1, <3>2
    <3>3. CASE request.id \notin Calls
      <4>1. executed' = executed
        BY <3>1, <3>3
      <4> QED BY <4>1
    <3> QED BY <3>2, <3>3
  <2>2. ReplyTo(request, big) \in Response
    BY DEF ReplyTo, Request, Response
  <2>3. s2c' \in Pipe(Response)
    BY <1>9, <2>2 DEF ServerServe, Pipe
  <2>4. error' \in IpcError \cup {NoError}
    BY <1>9, NamedErrors, ServiceErrorsAssumption DEF ServerServe, Fail
  <2>5. server' \in {"replying", "failing", "panicked"}
    BY <1>9 DEF ServerServe, Fail
  <2> QED BY <1>9, <2>1, <2>3, <2>4, <2>5 DEF ServerServe
<1>10. CASE ServerReplied
  <2>1. s2c' \in Pipe(Response)
    BY <1>10 DEF ServerReplied, Pipe
  <2> QED BY <1>10, <2>1, NamedErrors DEF ServerReplied, Fail
<1>11. CASE ServerNotify
  <2>1. CodeOf(error) \in Nat
    BY CodeOfFacts DEF DefinedCodes
  <2>2. ErrorPacket(CodeOf(error)) \in Response
    BY <2>1, MaxCallsAssumption DEF ErrorPacket, Response
  <2>3. s2c' \in Pipe(Response)
    BY <1>11, <2>2 DEF ServerNotify, Pipe
  <2> QED BY <1>11, <2>3 DEF ServerNotify
<1>12. CASE ServerNotified
  <2>1. s2c' \in Pipe(Response)
    BY <1>12 DEF ServerNotified, Pipe
  <2> QED BY <1>12, <2>1 DEF ServerNotified
<1>13. CASE UNCHANGED vars
  BY <1>13 DEF vars
<1> QED
  BY <1>1, <1>2, <1>3, <1>4, <1>5, <1>6, <1>7, <1>8, <1>9, <1>10, <1>11,
     <1>12, <1>13
  DEF Next, ClientStep, ServerStep, Terminated

\* Every variable of the session stays in its type: in particular only defined
\* error values are stored and only packets of the protocol are in the pipes.
THEOREM TypeCorrect == Spec => []TypeOK
  BY InitType, StepType, PTL DEF Spec

-----------------------------------------------------------------------------
(* The inductive invariant *)

\* The pipes are records, so changing the state of one keeps its packet.
LEMMA PipeRecords ==
  ASSUME TypeOK, NEW st
  PROVE  /\ [c2s EXCEPT !.state = st].state = st
         /\ [c2s EXCEPT !.state = st].packet = c2s.packet
         /\ [s2c EXCEPT !.state = st].state = st
         /\ [s2c EXCEPT !.state = st].packet = s2c.packet
  BY DEF TypeOK, Pipe

\* The initial state satisfies it.
LEMMA InitInv == Init => Inv
<1> SUFFICES ASSUME Init PROVE Inv
  OBVIOUS
<1>1. TypeOK
  BY InitType
<1>2. CallsInOrder
  BY MaxCallsAssumption DEF Init, CallsInOrder, Calls, NoRequest
<1>3. PipesInStep
  BY DEF Init, PipesInStep, Busy
<1>4. ServesOpenCall
  BY DEF Init, ServesOpenCall
<1>5. ErrorInStep
  BY NamedErrors DEF Init, ErrorInStep, Busy, NotReturned
<1>6. ReplyAnswersCall /\ TruthfulError /\ ClientPanicsOnlyOnError
  BY DEF Init, ReplyAnswersCall, TruthfulError, ClientPanicsOnlyOnError,
         NotReturned
<1> QED BY <1>1, <1>2, <1>3, <1>4, <1>5, <1>6 DEF Inv

\* What a call returned stays as it is when a later call returns r.
LEMMA ReturnFacts ==
  ASSUME TypeOK, NEW i \in Calls, NEW r, Return(i, r)
  PROVE  /\ result'[i] = r
         /\ \A j \in Calls : j # i => result'[j] = result[j]
         /\ client' \in {"idle", "panicked"}
         /\ client' = "panicked" => r.tag = "err"
  BY DEF TypeOK, Return, AfterReturn

\* A send starts the next call, or fails on the spot with an error of its own.
LEMMA ClientSendInv ==
  ASSUME Inv, TypeOK',
         NEW method \in Method, NEW good \in BOOLEAN, NEW big \in BOOLEAN,
         ClientSend(method, good, big)
  PROVE  Inv'
<1> USE DEF Inv
<1> DEFINE n == call.id + 1
<1>1. /\ call.id \in 0 .. MaxCalls /\ n \in Calls /\ call'.id = n
      /\ client = "idle" /\ ~ Busy
      /\ result[n] = NotReturned /\ executed[n] = 0
      /\ call.id > 0 => result[call.id].tag # "none"
  BY MaxCallsAssumption
  DEF ClientSend, CallsInOrder, PipesInStep, TypeOK, Request, Calls
<1>2. \/ /\ \E v \in {"SerializeError", "GeneralIoError"} :
                  Return(n, Err(Plain(v)))
            /\ UNCHANGED c2s
         \/ /\ c2s' = [state |-> "posted", packet |-> call']
            /\ client' = "posting"
            /\ UNCHANGED result
  BY <1>1 DEF ClientSend
<1>3. /\ \A j \in Calls : j # n => result'[j] = result[j]
      /\ \/ /\ result'[n].tag = "err"
            /\ result'[n].error[1] # "ProtocolError"
            /\ client' \in {"idle", "panicked"}
            /\ UNCHANGED c2s
         \/ /\ result'[n] = NotReturned
            /\ c2s' = [state |-> "posted", packet |-> call']
            /\ client' = "posting"
  BY <1>1, <1>2, ReturnFacts, LocalErrors DEF Err
<1>4. UNCHANGED <<api, s2c, server, request, error, executed>> /\ Busy' = Busy
  BY DEF ClientSend, Busy
<1> HIDE DEF n
<1>5. CallsInOrder'
  <2>1. \A i \in Calls : i < n => result'[i].tag # "none"
    BY <1>1, <1>3 DEF CallsInOrder, Calls, n
  <2>2. \A i \in Calls : i > n => result'[i] = NotReturned /\ executed'[i] = 0
    BY <1>1, <1>3, <1>4 DEF CallsInOrder, Calls, n
  <2> QED BY <1>1, <1>3, <2>1, <2>2 DEF CallsInOrder
<1>6. PipesInStep'
  BY <1>1, <1>3, <1>4 DEF PipesInStep
<1>7. ServesOpenCall'
  BY <1>1, <1>4 DEF ServesOpenCall, Busy
<1>8. ErrorInStep'
  BY <1>1, <1>3, <1>4 DEF ErrorInStep, NotReturned, Busy
<1>9. ReplyAnswersCall'
  BY <1>1, <1>3, <1>4 DEF ReplyAnswersCall, NotReturned
<1>10. TruthfulError'
  BY <1>1, <1>3, <1>4 DEF TruthfulError, NotReturned, Calls
<1>11. ClientPanicsOnlyOnError'
  BY <1>1, <1>3 DEF ClientPanicsOnlyOnError, Calls
<1> QED BY <1>5, <1>6, <1>7, <1>8, <1>9, <1>10, <1>11

\* When the open call returns a value of its own, or an error that the server
\* did not report, only what depends on the pipes is left to show.
LEMMA ReturnInv ==
  ASSUME Inv, client \in {"posting", "waiting"}, NEW r, Return(call.id, r),
         UNCHANGED <<api, call, request, server, error, executed>>,
         \/ /\ r.tag = "err"
            /\ r.error[1] # "ProtocolError"
         \/ /\ r.tag = "err"
            /\ r.error[1] = "ProtocolError"
            /\ error # NoError
            /\ r.error[2] = CodeOf(error)
         \/ /\ r.tag = "ok"
            /\ executed[call.id] = 1
            /\ \A j \in Calls : ~ (/\ result[j].tag = "err"
                                   /\ result[j].error[1] = "ProtocolError")
            /\ \/ r.from = call.id
               \/ api = "json" /\ r.from = 0 /\ error = ProtocolError(0)
  PROVE  /\ CallsInOrder'
         /\ ReplyAnswersCall'
         /\ TruthfulError'
         /\ ClientPanicsOnlyOnError'
<1> USE DEF Inv
<1>1. call.id \in Calls /\ call' = call /\ result[call.id] = NotReturned
  BY DEF CallsInOrder
<1>2. /\ result'[call.id] = r
      /\ \A j \in Calls : j # call.id => result'[j] = result[j]
      /\ client' \in {"idle", "panicked"}
      /\ client' = "panicked" => r.tag = "err"
  BY <1>1, ReturnFacts
<1>3. r.tag \in {"ok", "err"}
  OBVIOUS
<1>4. CallsInOrder'
  <2>1. \A i \in Calls : i < call.id => result'[i].tag # "none"
    BY <1>1, <1>2 DEF CallsInOrder, Calls
  <2>2. \A i \in Calls : i > call.id =>
           result'[i] = NotReturned /\ executed'[i] = 0
    BY <1>1, <1>2 DEF CallsInOrder, Calls
  <2> QED BY <1>1, <1>2, <1>3, <2>1, <2>2 DEF CallsInOrder
<1>5. ReplyAnswersCall'
  <2> SUFFICES ASSUME NEW i \in Calls, result'[i].tag = "ok"
               PROVE  /\ executed[i] = 1
                      /\ \/ result'[i].from = i
                         \/ /\ api = "json"
                            /\ result'[i].from = 0
                            /\ error = ProtocolError(0)
    BY DEF ReplyAnswersCall
  <2>1. CASE i = call.id
    BY <1>2, <2>1
  <2>2. CASE i # call.id
    BY <1>2, <2>2 DEF ReplyAnswersCall
  <2> QED BY <2>1, <2>2
<1>6. TruthfulError'
  <2> SUFFICES ASSUME NEW i \in Calls, result'[i].tag = "err",
                      result'[i].error[1] = "ProtocolError"
               PROVE  /\ error # NoError
                      /\ result'[i].error[2] = CodeOf(error)
                      /\ \A j \in i + 1 .. MaxCalls : result'[j].tag # "ok"
    BY DEF TruthfulError
  <2>1. CASE i = call.id
    <3>1. \A j \in i + 1 .. MaxCalls : result'[j] = NotReturned
      BY <1>1, <1>2, <2>1, MaxCallsAssumption DEF CallsInOrder, Calls
    <3> QED BY <1>2, <2>1, <3>1 DEF NotReturned
  <2>2. CASE i # call.id
    <3>1. result[i].tag = "err" /\ result[i].error[1] = "ProtocolError"
      BY <1>2, <2>2
    <3>2. r.tag # "ok"
      BY <3>1
    <3>3. \A j \in i + 1 .. MaxCalls : j \in Calls
      BY MaxCallsAssumption DEF Calls
    <3>4. \A j \in i + 1 .. MaxCalls : result'[j].tag # "ok"
      BY <1>2, <3>1, <3>2, <3>3 DEF TruthfulError
    <3> QED BY <1>2, <2>2, <3>1, <3>4 DEF TruthfulError
  <2> QED BY <2>1, <2>2
<1>7. ClientPanicsOnlyOnError'
  BY <1>1, <1>2 DEF ClientPanicsOnlyOnError, Calls
<1> QED BY <1>4, <1>5, <1>6, <1>7

\* The end of a blocking write: the call goes on, or fails because the server
\* has ended.
LEMMA ClientSentInv == Inv /\ TypeOK' /\ ClientSent => Inv'
<1> SUFFICES ASSUME Inv, TypeOK', ClientSent PROVE Inv'
  OBVIOUS
<1> USE DEF Inv
<1>1. /\ client = "posting"
      /\ call.id \in Calls
      /\ result[call.id] = NotReturned
      /\ c2s'.state = "free"
      /\ UNCHANGED <<api, call, s2c, server, request, error, executed>>
      /\ Busy' = Busy
  BY PipeRecords DEF ClientSent, CallsInOrder, Busy
<1>2. CASE client' = AfterSend /\ UNCHANGED result
  <2>1. client' \in {"sent", "waiting"}
    BY <1>2 DEF AfterSend
  <2>2. CallsInOrder'
    BY <1>1, <1>2, <2>1 DEF CallsInOrder
  <2>3. PipesInStep'
    BY <1>1, <2>1 DEF PipesInStep
  <2>4. ServesOpenCall' /\ ErrorInStep'
    BY <1>1, <1>2 DEF ServesOpenCall, ErrorInStep
  <2>5. ReplyAnswersCall' /\ TruthfulError' /\ ClientPanicsOnlyOnError'
    BY <1>1, <1>2, <2>1
    DEF ReplyAnswersCall, TruthfulError, ClientPanicsOnlyOnError
  <2> QED BY <2>2, <2>3, <2>4, <2>5
<1>3. CASE /\ c2s.state = "posted"
           /\ ServerEnded
           /\ Return(call.id, Err(Plain("GeneralIoError")))
  <2> DEFINE r == Err(Plain("GeneralIoError"))
  <2>1. r.tag = "err" /\ r.error[1] # "ProtocolError"
    BY LocalErrors DEF Err
  <2> HIDE DEF r
  <2>2. /\ CallsInOrder'
        /\ ReplyAnswersCall'
        /\ TruthfulError'
        /\ ClientPanicsOnlyOnError'
    BY <1>1, <1>3, <2>1, ReturnInv DEF r
  <2>3. /\ result'[call.id] = r
        /\ \A j \in Calls : j # call.id => result'[j] = result[j]
        /\ client' \in {"idle", "panicked"}
    BY <1>1, <1>3, ReturnFacts DEF r
  <2>4. ~ Busy
    BY <1>3 DEF PipesInStep
  <2>5. PipesInStep'
    BY <1>1, <2>3, <2>4 DEF PipesInStep
  <2>6. ServesOpenCall'
    BY <1>1, <2>4 DEF ServesOpenCall, Busy
  <2>7. ErrorInStep'
    BY <1>1, <2>1, <2>3, <2>4 DEF ErrorInStep, Busy
  <2> QED BY <2>2, <2>5, <2>6, <2>7
<1> QED BY <1>2, <1>3 DEF ClientSent

\* The start of receive_json_response and the end of the caller touch neither
\* the calls nor the pipes.
LEMMA ClientMoveInv == Inv /\ TypeOK' /\ (ClientReceiveJson \/ ClientExit) => Inv'
<1> SUFFICES ASSUME Inv, TypeOK', ClientReceiveJson \/ ClientExit PROVE Inv'
  OBVIOUS
<1> USE DEF Inv
<1>1. /\ UNCHANGED <<api, call, result, c2s, s2c, server, request, error, executed>>
      /\ Busy' = Busy
      /\ \/ client = "sent" /\ client' = "waiting"
         \/ client \in {"idle", "sent"} /\ client' = "exited"
  BY DEF ClientReceiveJson, ClientExit, Busy
<1>2. CallsInOrder'
  BY <1>1 DEF CallsInOrder
<1>3. PipesInStep'
  BY <1>1 DEF PipesInStep
<1>4. ServesOpenCall' /\ ErrorInStep'
  BY <1>1 DEF ServesOpenCall, ErrorInStep
<1>5. ReplyAnswersCall' /\ TruthfulError' /\ ClientPanicsOnlyOnError'
  BY <1>1 DEF ReplyAnswersCall, TruthfulError, ClientPanicsOnlyOnError
<1> QED BY <1>2, <1>3, <1>4, <1>5

\* A response that is there when the client waits decodes to the value of the
\* open call, which may be unreadable, or to the error that ended the server.
LEMMA ResponseFacts ==
  ASSUME Inv, client = "waiting", s2c.state = "posted", NEW r \in Decoded(s2c.packet)
  PROVE  /\ s2c.packet.code \in DefinedCodes
         /\ ~ Mismatch(s2c.packet, r)
         /\ \/ /\ server = "replying"
               /\ r \in {OkOf(call.id), Err(Plain("DeserializeError"))}
               /\ executed[call.id] = 1
            \/ /\ server = "notifying"
               /\ error \in IpcError
               /\ \/ r = Err(ProtocolError(CodeOf(error)))
                  \/ /\ error = ProtocolError(0)
                     /\ executed[call.id] = 1
                     /\ \/ r = Err(Plain("DeserializeError"))
                        \/ api = "json" /\ r = OkOf(0)
<1> USE DEF Inv
<1>1. server \in {"replying", "notifying"}
  BY DEF PipesInStep
<1>2. CASE server = "replying"
  <2>1. /\ s2c.packet.code = 0
        /\ s2c.packet.of = call.id
        /\ s2c.packet.method = call.method
        /\ executed[call.id] = 1
        /\ call.id # 0
    BY <1>2 DEF ServesOpenCall, Calls
  <2>2. r \in {OkOf(call.id), Err(Plain("DeserializeError"))}
    BY <2>1 DEF Decoded
  <2> QED BY <1>2, <2>1, <2>2 DEF Mismatch, DefinedCodes
<1>3. CASE server = "notifying"
  <2>1. error \in IpcError /\ s2c.packet = ErrorPacket(CodeOf(error))
    BY <1>3 DEF ErrorInStep
  <2>2. s2c.packet.code = CodeOf(error) /\ s2c.packet.of = 0
    BY <2>1 DEF ErrorPacket
  <2>3. CodeOf(error) \in DefinedCodes
    BY <2>1, CodeOfFacts
  <2>4. CASE CodeOf(error) # 0
    <3>1. r = Err(ProtocolError(CodeOf(error)))
      BY <2>2, <2>4 DEF Decoded
    <3> QED BY <1>3, <2>1, <2>2, <2>3, <3>1 DEF Mismatch, Err
  <2>5. CASE CodeOf(error) = 0
    <3>1. error = ProtocolError(0)
      BY <2>1, <2>5, CodeOfFacts
    <3>2. executed[call.id] = 1
      BY <3>1 DEF ErrorInStep, Busy
    <3>3. r = IF api = "json" THEN OkOf(0) ELSE Err(Plain("DeserializeError"))
      BY <2>2, <2>5 DEF Decoded
    <3>4. ~ Mismatch(s2c.packet, r)
      BY <3>3 DEF Mismatch, Err
    <3> QED BY <1>3, <2>1, <2>2, <2>3, <3>1, <3>2, <3>3, <3>4
  <2> QED BY <2>4, <2>5
<1> QED BY <1>1, <1>2, <1>3

\* Taking the response returns the call.
LEMMA ClientTakeInv == Inv /\ TypeOK' /\ ClientTake => Inv'
<1> SUFFICES ASSUME Inv, TypeOK', ClientTake PROVE Inv'
  OBVIOUS
<1> USE DEF Inv
<1>1. /\ client = "waiting"
      /\ s2c.state = "posted"
      /\ s2c'.state = "taken"
      /\ UNCHANGED <<api, call, c2s, server, request, error, executed>>
      /\ call.id \in Calls
  BY PipeRecords DEF ClientTake, CallsInOrder
<1>2. PICK r \in Decoded(s2c.packet) : Return(call.id, r)
  BY <1>1, ResponseFacts DEF ClientTake
<1>3. \A i \in Calls : ~ (/\ result[i].tag = "err"
                          /\ result[i].error[1] = "ProtocolError")
  BY <1>1 DEF ErrorInStep, Busy
<1>4. \/ /\ r.tag = "err"
         /\ r.error[1] # "ProtocolError"
      \/ /\ r.tag = "err"
         /\ r.error[1] = "ProtocolError"
         /\ error # NoError
         /\ r.error[2] = CodeOf(error)
      \/ /\ r.tag = "ok"
         /\ executed[call.id] = 1
         /\ \/ r.from = call.id
            \/ api = "json" /\ r.from = 0 /\ error = ProtocolError(0)
  BY <1>1, ResponseFacts, LocalErrors, NamedErrors
  DEF OkOf, Err, ProtocolError
<1>5. /\ result'[call.id] = r
      /\ \A j \in Calls : j # call.id => result'[j] = result[j]
      /\ client' \in {"idle", "panicked"}
  BY <1>1, <1>2, ReturnFacts
<1>6. server = "replying" => ~ (r.tag = "err" /\ r.error[1] = "ProtocolError")
  BY <1>1, ResponseFacts, LocalErrors DEF OkOf, Err
<1>7. server \in {"replying", "notifying"} /\ ~ Busy'
  BY <1>1 DEF PipesInStep, Busy
<1>8. /\ CallsInOrder'
      /\ ReplyAnswersCall'
      /\ TruthfulError'
      /\ ClientPanicsOnlyOnError'
  BY <1>1, <1>2, <1>3, <1>4, ReturnInv
<1>9. PipesInStep'
  BY <1>1, <1>5, <1>7 DEF PipesInStep
<1>10. ServesOpenCall'
  BY <1>1, <1>7 DEF ServesOpenCall
<1>11. ErrorInStep'
  <2>1. error = NoError => ~ (r.tag = "err" /\ r.error[1] = "ProtocolError")
    BY <1>1, <1>6, <1>7, NamedErrors DEF ErrorInStep
  <2>2. error = NoError =>
          \A i \in Calls : ~ (/\ result'[i].tag = "err"
                              /\ result'[i].error[1] = "ProtocolError")
    BY <1>3, <1>5, <2>1
  <2> QED BY <1>1, <1>7, <2>2 DEF ErrorInStep
<1> QED BY <1>8, <1>9, <1>10, <1>11

\* Reading from a server that has ended returns the call with an error.
LEMMA ClientReadClosedInv == Inv /\ TypeOK' /\ ClientReadClosed => Inv'
<1> SUFFICES ASSUME Inv, TypeOK', ClientReadClosed PROVE Inv'
  OBVIOUS
<1> USE DEF Inv
<1>1. PICK v \in {"IncompleteVlqSeq", "ReadVlqError"} :
        Return(call.id, Err(Plain(v)))
  BY DEF ClientReadClosed
<1> DEFINE r == Err(Plain(v))
<1>2. r.tag = "err" /\ r.error[1] # "ProtocolError"
  BY LocalErrors DEF Err
<1> HIDE DEF r
<1>3. /\ client = "waiting"
      /\ UNCHANGED <<api, call, c2s, s2c, server, request, error, executed>>
      /\ call.id \in Calls
      /\ ~ Busy
      /\ Busy' = Busy
  BY DEF ClientReadClosed, CallsInOrder, Busy, ServerEnded
<1>4. /\ result'[call.id] = r
      /\ \A j \in Calls : j # call.id => result'[j] = result[j]
      /\ client' \in {"idle", "panicked"}
  BY <1>1, <1>3, ReturnFacts DEF r
<1>5. /\ CallsInOrder'
      /\ ReplyAnswersCall'
      /\ TruthfulError'
      /\ ClientPanicsOnlyOnError'
  BY <1>1, <1>2, <1>3, ReturnInv DEF r
<1>6. PipesInStep'
  BY <1>3, <1>4 DEF PipesInStep
<1>7. ServesOpenCall'
  BY <1>3 DEF ServesOpenCall, Busy
<1>8. ErrorInStep'
  BY <1>2, <1>3, <1>4 DEF ErrorInStep
<1> QED BY <1>5, <1>6, <1>7, <1>8

\* What the server does to its own variables leaves the calls as they are, as
\* long as the loop's error is set once and only the open call is run.
LEMMA ServerKeeps ==
  ASSUME Inv,
         UNCHANGED <<api, client, call, result>>,
         error' = error \/ error = NoError,
         \/ executed' = executed
         \/ /\ \A i \in Calls : i # call.id => executed'[i] = executed[i]
            /\ result[call.id] = NotReturned
  PROVE  /\ CallsInOrder'
         /\ ReplyAnswersCall'
         /\ TruthfulError'
         /\ ClientPanicsOnlyOnError'
<1> USE DEF Inv
<1>1. CallsInOrder'
  <2>1. call.id \in Nat /\ Calls \subseteq Nat
    BY MaxCallsAssumption DEF TypeOK, Request, Calls
  <2>2. \A i \in Calls : i > call.id => i # call.id
    BY <2>1
  <2> QED BY <2>2 DEF CallsInOrder
<1>2. ReplyAnswersCall'
  BY NamedErrors DEF ReplyAnswersCall, NotReturned, ProtocolError, NoError, Plain
<1>3. TruthfulError'
  BY DEF TruthfulError
<1>4. ClientPanicsOnlyOnError'
  BY DEF ClientPanicsOnlyOnError
<1> QED BY <1>1, <1>2, <1>3, <1>4

\* The server takes the request of the open call.
LEMMA ServerTakeInv == Inv /\ TypeOK' /\ ServerTake => Inv'
<1> SUFFICES ASSUME Inv, TypeOK', ServerTake PROVE Inv'
  OBVIOUS
<1> USE DEF Inv
<1>1. /\ server = "receiving"
      /\ error = NoError
      /\ c2s.state = "posted" /\ c2s'.state = "taken"
      /\ c2s.packet = call /\ executed[call.id] = 0
      /\ client = "posting"
      /\ call.id \in Calls /\ result[call.id] = NotReturned
      /\ request' = call
      /\ UNCHANGED <<api, client, call, result, s2c, executed>>
      /\ s2c.state = "free"
  BY PipeRecords DEF ServerTake, PipesInStep, ErrorInStep, CallsInOrder
<1>2. \/ server' = "serving" /\ error' = NoError
      \/ server' = "failing" /\ error' = Plain("DeserializeError")
  BY <1>1 DEF ServerTake, Fail
<1>3. /\ CallsInOrder'
      /\ ReplyAnswersCall'
      /\ TruthfulError'
      /\ ClientPanicsOnlyOnError'
  BY <1>1, ServerKeeps
<1>4. PipesInStep'
  BY <1>1, <1>2 DEF PipesInStep
<1>5. ServesOpenCall'
  BY <1>1, <1>2 DEF ServesOpenCall
<1>6. ErrorInStep'
  <2>1. error' # ProtocolError(0)
    BY <1>2, LocalErrors DEF ProtocolError, NoError, Plain
  <2> QED BY <1>1, <1>2, <2>1, NamedErrors DEF ErrorInStep
<1> QED BY <1>3, <1>4, <1>5, <1>6

\* The server finds that the client has gone.
LEMMA ServerReadClosedInv == Inv /\ TypeOK' /\ ServerReadClosed => Inv'
<1> SUFFICES ASSUME Inv, TypeOK', ServerReadClosed PROVE Inv'
  OBVIOUS
<1> USE DEF Inv
<1>1. /\ server = "receiving" /\ server' = "failing"
      /\ error = NoError
      /\ error' \in IpcError /\ error' # ProtocolError(0)
      /\ client \in {"exited", "panicked"}
      /\ s2c.state = "free"
      /\ UNCHANGED <<api, client, call, result, c2s, s2c, request, executed>>
  BY LocalErrors, NamedErrors
  DEF ServerReadClosed, Fail, ClientEnded, ErrorInStep, PipesInStep
<1>2. /\ CallsInOrder'
      /\ ReplyAnswersCall'
      /\ TruthfulError'
      /\ ClientPanicsOnlyOnError'
  BY <1>1, ServerKeeps
<1>3. PipesInStep'
  BY <1>1 DEF PipesInStep
<1>4. ServesOpenCall'
  BY <1>1 DEF ServesOpenCall
<1>5. ErrorInStep'
  BY <1>1 DEF ErrorInStep
<1> QED BY <1>2, <1>3, <1>4, <1>5

\* The server runs the open call and posts its reply, or fails.
LEMMA ServerServeInv ==
  ASSUME Inv, TypeOK', NEW big \in BOOLEAN, ServerServe(big)
  PROVE  Inv'
<1> USE DEF Inv
<1>1. /\ server = "serving"
      /\ error = NoError
      /\ call.id \in Calls /\ request = call
      /\ result[call.id] = NotReturned
      /\ executed'[call.id] = 1
      /\ \A i \in Calls : i # call.id => executed'[i] = executed[i]
      /\ client # "idle" /\ c2s.state # "posted"
      /\ s2c.state = "free"
      /\ UNCHANGED <<api, client, call, result, c2s, request>>
  BY DEF ServerServe, TypeOK, ServesOpenCall, ErrorInStep, PipesInStep, Busy
<1>2. \/ /\ s2c' = [state |-> "posted", packet |-> ReplyTo(request, big)]
         /\ server' = "replying"
         /\ error' = NoError
      \/ /\ server' = "failing"
         /\ error' \in IpcError
         /\ UNCHANGED s2c
      \/ /\ server' = "panicked"
         /\ UNCHANGED <<s2c, error>>
  BY <1>1, NamedErrors, ServiceErrorsAssumption DEF ServerServe, Fail
<1>3. /\ CallsInOrder'
      /\ ReplyAnswersCall'
      /\ TruthfulError'
      /\ ClientPanicsOnlyOnError'
  BY <1>1, ServerKeeps
<1>4. PipesInStep'
  BY <1>1, <1>2 DEF PipesInStep
<1>5. ServesOpenCall'
  BY <1>1, <1>2 DEF ServesOpenCall, ReplyTo
<1>6. ErrorInStep'
  BY <1>1, <1>2 DEF ErrorInStep
<1> QED BY <1>3, <1>4, <1>5, <1>6

\* The reply has been taken, or nobody is left to take it.
LEMMA ServerRepliedInv == Inv /\ TypeOK' /\ ServerReplied => Inv'
<1> SUFFICES ASSUME Inv, TypeOK', ServerReplied PROVE Inv'
  OBVIOUS
<1> USE DEF Inv
<1>1. /\ server = "replying"
      /\ error = NoError
      /\ s2c'.state = "free"
      /\ UNCHANGED <<api, client, call, result, c2s, request, executed>>
  BY PipeRecords DEF ServerReplied, ErrorInStep
<1>2. \/ server' = "receiving" /\ error' = NoError
      \/ /\ server' = "failing"
         /\ client \in {"exited", "panicked"}
         /\ error' \in IpcError /\ error' # ProtocolError(0)
  BY <1>1, NamedErrors, LocalErrors DEF ServerReplied, Fail, ClientEnded
<1>3. /\ CallsInOrder'
      /\ ReplyAnswersCall'
      /\ TruthfulError'
      /\ ClientPanicsOnlyOnError'
  BY <1>1, ServerKeeps
<1>4. PipesInStep'
  BY <1>1, <1>2 DEF PipesInStep, Busy
<1>5. ServesOpenCall'
  BY <1>1, <1>2 DEF ServesOpenCall
<1>6. ErrorInStep'
  BY <1>1, <1>2, NamedErrors DEF ErrorInStep, ProtocolError, NoError, Plain
<1> QED BY <1>3, <1>4, <1>5, <1>6

\* The error is reported, and then the server ends.
LEMMA ServerNotifyInv ==
  Inv /\ TypeOK' /\ (ServerNotify \/ ServerNotified) => Inv'
<1> SUFFICES ASSUME Inv, TypeOK', ServerNotify \/ ServerNotified PROVE Inv'
  OBVIOUS
<1> USE DEF Inv
<1>1. /\ server \in {"failing", "notifying"}
      /\ error \in IpcError
      /\ UNCHANGED <<api, client, call, result, c2s, request, error, executed>>
  BY DEF ServerNotify, ServerNotified, ErrorInStep
<1>2. /\ CallsInOrder'
      /\ ReplyAnswersCall'
      /\ TruthfulError'
      /\ ClientPanicsOnlyOnError'
  BY <1>1, ServerKeeps
<1>3. CASE ServerNotify
  <2>1. /\ server = "failing" /\ Busy /\ s2c.state = "free"
        /\ \/ /\ s2c'.state = "posted"
              /\ s2c'.packet = ErrorPacket(CodeOf(error))
              /\ server' = "notifying"
           \/ UNCHANGED s2c /\ server' = "panicked"
    BY <1>3 DEF ServerNotify, PipesInStep, Busy
  <2>2. PipesInStep'
    BY <1>1, <2>1 DEF PipesInStep
  <2>3. ServesOpenCall'
    BY <1>1, <2>1 DEF ServesOpenCall
  <2>4. ErrorInStep'
    BY <1>1, <2>1, NamedErrors DEF ErrorInStep
  <2> QED BY <1>2, <2>2, <2>3, <2>4
<1>4. CASE ServerNotified
  <2>1. /\ server = "notifying"
        /\ s2c'.state = "free"
        /\ server' \in {"returned", "panicked"}
        /\ ~ Busy'
    BY <1>4, PipeRecords DEF ServerNotified, Busy
  <2>2. PipesInStep'
    BY <1>1, <2>1 DEF PipesInStep
  <2>3. ServesOpenCall'
    BY <1>1, <2>1 DEF ServesOpenCall
  <2>4. ErrorInStep'
    BY <1>1, <2>1, NamedErrors DEF ErrorInStep
  <2> QED BY <1>2, <2>2, <2>3, <2>4
<1> QED BY <1>3, <1>4

\* The invariant is inductive.
LEMMA StepInv == Inv /\ [Next]_vars => Inv'
<1> SUFFICES ASSUME Inv, [Next]_vars PROVE Inv'
  OBVIOUS
<1>1. TypeOK'
  BY StepType DEF Inv
<1>2. CASE UNCHANGED vars
  BY <1>2
  DEF vars, Inv, TypeOK, CallsInOrder, PipesInStep, Busy, ServesOpenCall,
      ErrorInStep, ReplyAnswersCall, TruthfulError, ClientPanicsOnlyOnError
<1> QED
  BY <1>1, <1>2, ClientSendInv, ClientSentInv, ClientMoveInv, ClientTakeInv,
     ClientReadClosedInv, ServerTakeInv, ServerReadClosedInv, ServerServeInv,
     ServerRepliedInv, ServerNotifyInv
  DEF Next, ClientStep, ServerStep, Terminated

\* Every reachable state satisfies the invariant.
THEOREM Invariance == Spec => []Inv
  BY InitInv, StepInv, PTL DEF Spec

-----------------------------------------------------------------------------
(* What follows *)

\* A call that returns a value returns the value of its own request, which the
\* service ran exactly once (channel.rs: call, receive_response, execute).
THEOREM RepliesAnswerCalls == Spec => []ReplyAnswersCall
  BY Invariance, PTL DEF Inv

\* The error code a call returns is the one of the error that ended the
\* server's loop, and nothing is answered after it.
THEOREM ErrorsAreTruthful == Spec => []TruthfulError
  BY Invariance, PTL DEF Inv

\* A client never meets an undefined error code or another method's reply.
THEOREM PanicsOnlyOnErrors == Spec => []ClientPanicsOnlyOnError
  BY Invariance, PTL DEF Inv

\* No request runs twice or overtakes an earlier one.
THEOREM AtMostOnce == Spec => []AtMostOnceInOrder
<1>1. Inv => AtMostOnceInOrder
  <2> SUFFICES ASSUME Inv, NEW i \in Calls
               PROVE  /\ executed[i] \in {0, 1}
                      /\ executed[i] = 1 =>
                           /\ i <= call.id
                           /\ \A j \in 1 .. (i - 1) : result[j].tag # "none"
    BY DEF AtMostOnceInOrder
  <2>1. executed[i] \in {0, 1}
    BY DEF Inv, ServesOpenCall
  <2>2. ASSUME executed[i] = 1
        PROVE  i <= call.id /\ \A j \in 1 .. (i - 1) : result[j].tag # "none"
    <3>1. call.id \in Nat /\ i \in Nat
      BY MaxCallsAssumption DEF Inv, TypeOK, Request, Calls
    <3>2. i <= call.id
      BY <2>2, <3>1 DEF Inv, CallsInOrder
    <3>3. \A j \in 1 .. (i - 1) : j \in Calls /\ j < call.id
      BY <3>1, <3>2, MaxCallsAssumption DEF Calls
    <3> QED BY <3>2, <3>3 DEF Inv, CallsInOrder
  <2> QED BY <2>1, <2>2
<1> QED BY <1>1, Invariance, PTL

\* The two blocking writes never wait for each other.
THEOREM NoMutualWriteEver == Spec => []NoMutualWrite
<1>1. Inv => NoMutualWrite
  BY DEF Inv, PipesInStep, Busy, NoMutualWrite
<1> QED BY <1>1, Invariance, PTL

\* The server runs nothing after its first error.
THEOREM ServerFailStops == Spec => FailStop
<1>1. Inv /\ [Next]_vars => [error # NoError => UNCHANGED <<executed, error>>]_vars
  <2> SUFFICES ASSUME Inv, Next, error # NoError
               PROVE  UNCHANGED <<executed, error>>
    OBVIOUS
  <2>1. server \notin {"receiving", "serving", "replying"}
    BY DEF Inv, ErrorInStep
  <2> QED
    BY <2>1
    DEF Next, ClientStep, ServerStep, Terminated, vars, ClientSend, ClientSent,
        ClientReceiveJson, ClientTake, ClientReadClosed, ClientExit, ServerTake,
        ServerReadClosed, ServerServe, ServerReplied, ServerNotify,
        ServerNotified
<1> QED BY <1>1, Invariance, PTL DEF Spec, FailStop

-----------------------------------------------------------------------------
(* The session implements Rpc *)

\* Of the errors only the DeserializeError of the client counts as unread.
LEMMA AnswerFacts ==
  /\ AnswerFor(NotReturned) = "none"
  /\ \A i : AnswerFor(OkOf(i)) = "ok"
  /\ \A e : AnswerFor(Err(e)) = IF e = Plain("DeserializeError") THEN "unread" ELSE "err"
  /\ \A c : ProtocolError(c) # Plain("DeserializeError")
  /\ \A v \in {"SerializeError", "GeneralIoError", "IncompleteVlqSeq", "ReadVlqError"} :
       Plain(v) # Plain("DeserializeError")
  BY DEF AnswerFor, NotReturned, OkOf, Err, NoError, Plain, ProtocolError

\* A return of the open call maps to one of the three answers.
LEMMA ReturnRefines ==
  ASSUME Inv, client \in {"posting", "waiting"}, NEW r, Return(call.id, r),
         UNCHANGED <<call, server, executed>>,
         \/ AnswerFor(r) \in {"ok", "unread"} /\ executed[call.id] = 1
         \/ AnswerFor(r) = "err" /\ server \notin {"receiving", "serving", "replying"}
  PROVE  Promise!AnswerOk \/ Promise!AnswerUnread \/ Promise!AnswerErr
<1> USE DEF Inv
<1>1. /\ call.id \in Calls
      /\ call.id > 0
      /\ result[call.id] = NotReturned
      /\ result'[call.id] = r
      /\ \A j \in Calls : j # call.id => result'[j] = result[j]
  BY ReturnFacts, MaxCallsAssumption DEF CallsInOrder, Calls
<1>2. [i \in Calls |-> AnswerFor(result'[i])] =
        [[i \in Calls |-> AnswerFor(result[i])] EXCEPT ![call.id] = AnswerFor(r)]
  BY <1>1
<1>3. Promise!Open
  BY <1>1, AnswerFacts DEF Promise!Open
<1> QED
  BY <1>1, <1>2, <1>3
  DEF Promise!AnswerOk, Promise!AnswerUnread, Promise!AnswerErr

\* Initial states map to initial states.
LEMMA InitRefines == Init => Promise!Init
  BY AnswerFacts DEF Init, Promise!Init, Promise!Calls, Calls, NoRequest

\* Every step maps to a step of Rpc or leaves its variables alone.
LEMMA StepRefines ==
  Inv /\ [Next]_vars => [Promise!Next]_(Promise!abstractVars)
<1> SUFFICES ASSUME Inv, [Next]_vars
             PROVE  Promise!Next \/ UNCHANGED Promise!abstractVars
  OBVIOUS
<1> USE DEF Inv
<1>1. ASSUME NEW method \in Method, NEW good \in BOOLEAN, NEW big \in BOOLEAN,
             ClientSend(method, good, big)
      PROVE  Promise!Issue
  <2>1. /\ call.id \in 0 .. MaxCalls /\ call.id + 1 \in Calls
        /\ call'.id = call.id + 1
        /\ call.id < MaxCalls
        /\ call.id > 0 => result[call.id].tag # "none"
        /\ UNCHANGED <<server, executed>>
    BY <1>1, MaxCallsAssumption DEF ClientSend, CallsInOrder, TypeOK, Request, Calls
  <2>2. \/ UNCHANGED result
        \/ \E v \in {"SerializeError", "GeneralIoError"} : Return(call.id + 1, Err(Plain(v)))
    BY <1>1, <2>1 DEF ClientSend
  <2>3. \/ UNCHANGED result
        \/ [i \in Calls |-> AnswerFor(result'[i])] =
             [[i \in Calls |-> AnswerFor(result[i])] EXCEPT ![call.id + 1] = "err"]
    <3>1. CASE UNCHANGED result
      BY <3>1
    <3>2. CASE \E v \in {"SerializeError", "GeneralIoError"} :
                 Return(call.id + 1, Err(Plain(v)))
      <4>1. PICK v \in {"SerializeError", "GeneralIoError"} :
              Return(call.id + 1, Err(Plain(v)))
        BY <3>2
      <4>2. /\ AnswerFor(result'[call.id + 1]) = "err"
            /\ \A j \in Calls : j # call.id + 1 => result'[j] = result[j]
        BY <2>1, <4>1, ReturnFacts, AnswerFacts
      <4> QED BY <2>1, <4>2
    <3> QED BY <2>2, <3>1, <3>2
  <2>4. ~ Promise!Open
    BY <2>1 DEF Promise!Open, Calls, AnswerFor
  <2> QED BY <2>1, <2>3, <2>4 DEF Promise!Issue
<1>2. ASSUME ClientSent
      PROVE  \/ Promise!AnswerOk \/ Promise!AnswerUnread \/ Promise!AnswerErr
             \/ UNCHANGED Promise!abstractVars
  <2>1. CASE UNCHANGED result
    BY <1>2, <2>1 DEF ClientSent, Promise!abstractVars
  <2>2. CASE ServerEnded /\ Return(call.id, Err(Plain("GeneralIoError")))
    <3>1. AnswerFor(Err(Plain("GeneralIoError"))) = "err"
      BY AnswerFacts
    <3> QED BY <1>2, <2>2, <3>1, ReturnRefines DEF ClientSent, ServerEnded
  <2> QED BY <1>2, <2>1, <2>2 DEF ClientSent
<1>3. ASSUME ClientReceiveJson \/ ClientExit
      PROVE  UNCHANGED Promise!abstractVars
  BY <1>3 DEF ClientReceiveJson, ClientExit, Promise!abstractVars
<1>4. ASSUME ClientTake
      PROVE  Promise!AnswerOk \/ Promise!AnswerUnread \/ Promise!AnswerErr
  <2>1. /\ client = "waiting" /\ s2c.state = "posted"
        /\ UNCHANGED <<call, server, executed>>
    BY <1>4 DEF ClientTake
  <2>2. PICK r \in Decoded(s2c.packet) : Return(call.id, r)
    BY <1>4, <2>1, ResponseFacts DEF ClientTake
  <2>3. \/ AnswerFor(r) \in {"ok", "unread"} /\ executed[call.id] = 1
        \/ AnswerFor(r) = "err" /\ server = "notifying"
    BY <2>1, <2>2, ResponseFacts, AnswerFacts
  <2> QED BY <2>1, <2>2, <2>3, ReturnRefines
<1>5. ASSUME ClientReadClosed
      PROVE  Promise!AnswerOk \/ Promise!AnswerUnread \/ Promise!AnswerErr
  <2>1. PICK v \in {"IncompleteVlqSeq", "ReadVlqError"} : Return(call.id, Err(Plain(v)))
    BY <1>5 DEF ClientReadClosed
  <2>2. AnswerFor(Err(Plain(v))) = "err"
    BY AnswerFacts
  <2> QED BY <1>5, <2>1, <2>2, ReturnRefines DEF ClientReadClosed, ServerEnded
<1>6. ASSUME ServerTake \/ ServerReadClosed \/ ServerReplied
      PROVE  Promise!Stop \/ UNCHANGED Promise!abstractVars
  BY <1>6
  DEF ServerTake, ServerReadClosed, ServerReplied, Fail, Promise!Stop,
      Promise!abstractVars
<1>7. ASSUME NEW big \in BOOLEAN, ServerServe(big)
      PROVE  Promise!Run
  <2>1. /\ call.id \in Calls /\ call.id > 0
        /\ request = call
        /\ result[call.id] = NotReturned
        /\ executed[call.id] = 0
        /\ server = "serving"
        /\ UNCHANGED <<call, result>>
    BY <1>7, MaxCallsAssumption
    DEF ServerServe, ServesOpenCall, Calls
  <2>2. executed' = [executed EXCEPT ![call.id] = 1]
    BY <1>7, <2>1 DEF ServerServe, TypeOK
  <2> QED BY <2>1, <2>2, AnswerFacts DEF Promise!Run, Promise!Open
<1>8. ASSUME ServerNotify \/ ServerNotified
      PROVE  UNCHANGED Promise!abstractVars
  BY <1>8 DEF ServerNotify, ServerNotified, Promise!abstractVars
<1>9. ASSUME UNCHANGED vars
      PROVE  UNCHANGED Promise!abstractVars
  BY <1>9 DEF vars, Promise!abstractVars
<1> QED
  BY <1>1, <1>2, <1>3, <1>4, <1>5, <1>6, <1>7, <1>8, <1>9
  DEF Next, ClientStep, ServerStep, Terminated, Promise!Next

\* The two processes keep every promise of Rpc.
THEOREM SessionKeepsPromise == Spec => KeepsPromise
  BY Invariance, InitRefines, StepRefines, PTL DEF Spec, KeepsPromise, Promise!Spec

-----------------------------------------------------------------------------
(* Progress.  Liveness itself is beyond the prover, but not its two halves:  *)
(* somebody can always move, and every move brings the end nearer.           *)

\* The client waits for the server, in a write or in a read.
InCall == client \in {"posting", "waiting"}

\* A request that was taken is in the server's hands until its answer is on the
\* way, unless the server has ended.
InHand ==
  client \in {"sent", "waiting"} \/ c2s.state = "taken" => Busy \/ ServerEnded

\* The guards of ClientSent, of ClientTake and ClientReadClosed, and of the
\* server's steps.
WriteReturns == client = "posting" /\ (c2s.state = "taken" \/ ServerEnded)
ReadReturns == client = "waiting" /\ (s2c.state = "posted" \/ ServerEnded)
ServerMoves ==
  \/ server = "receiving" /\ (c2s.state = "posted" \/ ClientEnded)
  \/ server \in {"serving", "failing"}
  \/ server \in {"replying", "notifying"} /\ (s2c.state = "taken" \/ ClientEnded)

\* How many steps of the two processes a call can still take before it returns.
StepsOfCall ==
  (IF client = "posting" THEN 1 ELSE 0)
  + CASE server = "replying" -> IF s2c.state = "taken" THEN 5 ELSE 1
      [] server = "receiving" -> 4
      [] server = "serving" -> 3
      [] server = "failing" -> 2
      [] server = "notifying" -> 1
      [] OTHER -> 0

\* How many a server can still take once its client has ended.
StepsToEnd ==
  CASE server = "replying" -> 3
    [] server \in {"receiving", "serving"} -> 2
    [] server \in {"failing", "notifying"} -> 1
    [] OTHER -> 0

\* The server keeps what it has taken in hand.
LEMMA InHandKept == Inv /\ InHand /\ [Next]_vars => InHand'
<1> SUFFICES ASSUME Inv, InHand, [Next]_vars PROVE InHand'
  OBVIOUS
<1> USE DEF InHand, Busy, ServerEnded
<1>1. ASSUME NEW method \in Method, NEW good \in BOOLEAN, NEW big \in BOOLEAN,
             ClientSend(method, good, big)
      PROVE  InHand'
  <2>1. c2s.state # "taken"
    BY <1>1 DEF ClientSend, Inv, PipesInStep
  <2> QED BY <1>1, <2>1 DEF ClientSend, Return, AfterReturn
<1>2. CASE ClientSent
  <2>1. c2s'.state = "free"
    BY <1>2, PipeRecords DEF ClientSent, Inv
  <2> QED BY <1>2, <2>1 DEF ClientSent, Return, AfterReturn
<1>3. CASE ClientReceiveJson \/ ClientExit
  BY <1>3 DEF ClientReceiveJson, ClientExit
<1>4. CASE ClientTake \/ ClientReadClosed
  <2>1. c2s.state # "taken" /\ client' \in {"idle", "panicked"} /\ UNCHANGED c2s
    BY <1>4 DEF ClientTake, ClientReadClosed, Return, AfterReturn, Inv, PipesInStep
  <2> QED BY <2>1
<1>5. CASE ServerTake
  BY <1>5 DEF ServerTake, Fail
<1>6. CASE ServerReadClosed
  BY <1>6 DEF ServerReadClosed, Fail
<1>7. ASSUME NEW big \in BOOLEAN, ServerServe(big)
      PROVE  InHand'
  BY <1>7 DEF ServerServe, Fail
<1>8. CASE ServerReplied
  <2>1. s2c.state = "taken" \/ ClientEnded
    BY <1>8 DEF ServerReplied
  <2>2. client \in {"sent", "waiting"} \/ c2s.state = "taken" => ~ ClientEnded
    BY DEF ClientEnded, Inv, PipesInStep
  <2> QED BY <1>8, <2>1, <2>2 DEF ServerReplied
<1>9. CASE ServerNotify
  BY <1>9 DEF ServerNotify
<1>10. CASE ServerNotified
  BY <1>10 DEF ServerNotified
<1>11. CASE UNCHANGED vars
  BY <1>11 DEF vars
<1> QED
  BY <1>1, <1>2, <1>3, <1>4, <1>5, <1>6, <1>7, <1>8, <1>9, <1>10, <1>11
  DEF Next, ClientStep, ServerStep, Terminated

\* While a call waits, one of the two processes can take a step: there is no
\* deadlock between call and execute (channel.rs), whatever has failed.
THEOREM CallNeverStuck == Spec => [](InCall => WriteReturns \/ ReadReturns \/ ServerMoves)
<1>1. Init => InHand
  BY DEF Init, InHand
<1>2. Inv /\ InHand => (InCall => WriteReturns \/ ReadReturns \/ ServerMoves)
  <2> SUFFICES ASSUME Inv, InHand, InCall
               PROVE  WriteReturns \/ ReadReturns \/ ServerMoves
    OBVIOUS
  <2> USE DEF Inv, TypeOK, Pipe, PipesInStep, Busy, ServerEnded
  <2>1. CASE client = "posting"
    BY <2>1 DEF WriteReturns, ServerMoves
  <2>2. CASE client = "waiting"
    BY <2>2 DEF ReadReturns, ServerMoves, InHand
  <2> QED BY <2>1, <2>2 DEF InCall
<1> QED BY <1>1, <1>2, InHandKept, Invariance, PTL DEF Spec

\* Every step while a call waits is one of the few that are left to it: a call
\* takes at most seven steps, whoever takes them (channel.rs: call, execute).
THEOREM CallAdvances ==
  Spec => /\ [](InCall => StepsOfCall \in 0 .. 6)
          /\ [][InCall /\ InCall' => StepsOfCall' < StepsOfCall]_vars
<1>1. StepsOfCall \in 0 .. 6
  BY DEF StepsOfCall
<1>2. ASSUME Inv, Next, InCall, InCall', vars' # vars
      PROVE  StepsOfCall' < StepsOfCall
  <2>1. ~ ClientEnded
    BY <1>2 DEF InCall, ClientEnded
  <2>2. CASE ClientSent
    <3>1. client = "posting" /\ client' = "waiting" /\ UNCHANGED <<server, s2c>>
      BY <1>2, <2>2 DEF ClientSent, InCall, AfterSend, Return, AfterReturn
    <3> QED BY <3>1 DEF StepsOfCall
  <2>3. CASE ServerTake
    BY <1>2, <2>3 DEF ServerTake, Fail, StepsOfCall
  <2>4. ASSUME NEW big \in BOOLEAN, ServerServe(big)
        PROVE  StepsOfCall' < StepsOfCall
    BY <1>2, <2>1, <2>4 DEF ServerServe, Fail, StepsOfCall
  <2>5. CASE ServerReplied
    BY <1>2, <2>1, <2>5 DEF ServerReplied, StepsOfCall
  <2>6. CASE ServerNotify
    BY <1>2, <2>1, <2>6 DEF ServerNotify, StepsOfCall
  <2>7. CASE ServerNotified
    BY <1>2, <2>1, <2>7 DEF ServerNotified, StepsOfCall
  <2>8. \/ ClientSent \/ ServerTake \/ \E big \in BOOLEAN : ServerServe(big)
        \/ ServerReplied \/ ServerNotify \/ ServerNotified
    BY <1>2, <2>1
    DEF Next, ClientStep, ServerStep, Terminated, InCall, ClientSend,
        ClientReceiveJson, ClientTake, ClientReadClosed, ClientExit, Return,
        AfterReturn, ServerReadClosed
  <2> QED BY <2>2, <2>3, <2>4, <2>5, <2>6, <2>7, <2>8
<1>3. Inv /\ [Next]_vars => [InCall /\ InCall' => StepsOfCall' < StepsOfCall]_vars
  BY <1>2
<1> QED BY <1>1, <1>3, Invariance, PTL DEF Spec

\* Once its client has ended, a server can always take its next step, and there
\* are at most three before it ends as well (channel.rs: execute).
THEOREM ServerWindsUp ==
  Spec => /\ [](ClientEnded => StepsToEnd \in 0 .. 3 /\ (ServerEnded \/ ServerMoves))
          /\ [][ClientEnded => ClientEnded' /\ StepsToEnd' < StepsToEnd]_vars
<1>1. Inv => (ClientEnded => StepsToEnd \in 0 .. 3 /\ (ServerEnded \/ ServerMoves))
  <2>1. StepsToEnd \in 0 .. 3
    BY DEF StepsToEnd
  <2>2. Inv => (ClientEnded => ServerEnded \/ ServerMoves)
    BY DEF Inv, TypeOK, ClientEnded, ServerEnded, ServerMoves
  <2> QED BY <2>1, <2>2
<1>2. ASSUME Inv, Next, ClientEnded, vars' # vars
      PROVE  ClientEnded' /\ StepsToEnd' < StepsToEnd
  <2>1. ServerStep /\ UNCHANGED client /\ ~ ServerTake
    <3>1. ServerStep
      BY <1>2
      DEF Next, ClientStep, Terminated, ClientEnded, ClientSend, ClientSent,
          ClientReceiveJson, ClientTake, ClientReadClosed, ClientExit
    <3>2. UNCHANGED client
      BY <3>1
      DEF ServerStep, ServerTake, ServerReadClosed, ServerServe, ServerReplied,
          ServerNotify, ServerNotified
    <3> QED BY <1>2, <3>1, <3>2 DEF ServerTake, Inv, PipesInStep, ClientEnded
  <2> USE DEF StepsToEnd
  <2>2. ClientEnded'
    BY <1>2, <2>1 DEF ClientEnded
  <2>3. CASE ServerReadClosed
    BY <2>2, <2>3 DEF ServerReadClosed, Fail
  <2>4. ASSUME NEW big \in BOOLEAN, ServerServe(big)
        PROVE  StepsToEnd' < StepsToEnd
    BY <1>2, <2>2, <2>4 DEF ServerServe, Fail
  <2>5. CASE ServerReplied
    BY <2>2, <2>5 DEF ServerReplied, Fail
  <2>6. CASE ServerNotify \/ ServerNotified
    BY <1>2, <2>2, <2>6 DEF ServerNotify, ServerNotified
  <2> QED BY <2>1, <2>2, <2>3, <2>4, <2>5, <2>6 DEF ServerStep
<1>3. Inv /\ [Next]_vars => [ClientEnded => ClientEnded' /\ StepsToEnd' < StepsToEnd]_vars
  BY <1>2
<1> QED BY <1>1, <1>3, Invariance, PTL DEF Spec
=============================================================================
