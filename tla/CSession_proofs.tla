-------------------------- MODULE CSession_proofs --------------------------
(***************************************************************************)
(* Proofs about CSession, for every number of calls and all error codes.   *)
(***************************************************************************)
EXTENDS CSession, TLAPS

NotReturned == ResultOf("none", 0)

\* The calls before the last one have returned, the last one has unless the
\* client is in it, and later ones are untouched.
CallsInOrder ==
  /\ \A i \in Calls : i < call => result[i].tag # "none"
  /\ \A i \in Calls : i > call => result[i] = NotReturned /\ executed[i] = 0
  /\ client \in {"idle", "exited"} /\ call > 0 => result[call].tag # "none"
  /\ client \in {"posting", "waiting"} =>
       call \in Calls /\ result[call] = NotReturned

\* A full pipe belongs to the writer that is blocked on it.
PipesInStep ==
  /\ c2s.state # "free" <=> client = "posting"
  /\ client = "posting" => c2s.packet.of = call
  /\ c2s.state = "posted" => executed[call] = 0
  /\ s2c.state # "free" <=> server = "replying"

\* Where the client is while the server has its call.
ClientInCall == client = "waiting" \/ c2s.state = "taken"

\* The server has the open call exactly from its read until the client takes
\* the response, and runs it in between; a request that nobody sent comes only
\* after the client has gone.
ServesOpenCall ==
  /\ server = "receiving" => ~ ClientInCall
  /\ server = "serving" =>
       \/ request = 0 /\ ClientEnded
       \/ request > 0 /\ request = call /\ executed[call] = 0 /\ ClientInCall
  /\ server = "replying" => request > 0 /\ s2c.packet.of = request
  /\ server = "replying" /\ s2c.state = "posted" =>
       /\ request = call /\ executed[call] = 1
       /\ ClientInCall \/ client = "panicked"
  /\ server = "replying" /\ s2c.state = "taken" => ~ ClientInCall

RunsAtMostOnce == \A i \in Calls : executed[i] \in {0, 1}

\* The inductive invariant.
Inv ==
  /\ TypeOK
  /\ CallsInOrder
  /\ PipesInStep
  /\ ServesOpenCall
  /\ RunsAtMostOnce
  /\ AnswersOwnCall
  /\ FailureIsFinal
  /\ PhantomOnlyAtEnd

-----------------------------------------------------------------------------
(* Type correctness *)

\* Changing the state of a pipe keeps its packet.
LEMMA PipeRecords ==
  ASSUME TypeOK, NEW st \in {"free", "posted", "taken"}
  PROVE  /\ [c2s EXCEPT !.state = st] \in Pipe
         /\ [c2s EXCEPT !.state = st].state = st
         /\ [c2s EXCEPT !.state = st].packet = c2s.packet
         /\ [s2c EXCEPT !.state = st] \in Pipe
         /\ [s2c EXCEPT !.state = st].state = st
         /\ [s2c EXCEPT !.state = st].packet = s2c.packet
  BY DEF TypeOK, Pipe

\* A packet of the right parts makes a posted pipe.
LEMMA PostType ==
  ASSUME NEW i \in 0 .. MaxCalls, NEW code \in ErrorCodes \cup {0},
         NEW size \in Sizes
  PROVE  LET p == [of |-> i, code |-> code, size |-> size] IN
         /\ p \in Packet /\ Post(p) \in Pipe
         /\ Post(p).state = "posted" /\ Post(p).packet = p
  BY DEF Post, Packet, Pipe

\* What a call returns is a Result.
LEMMA ResultType ==
  /\ \A tag \in {"none", "ok", "code", "failed"}, i \in 0 .. MaxCalls :
        /\ ResultOf(tag, i) \in Result
        /\ ResultOf(tag, i).tag = tag /\ ResultOf(tag, i).of = i
  /\ \A p \in Packet :
        /\ Answer(p) \in Result
        /\ Answer(p).tag \in {"ok", "code"} /\ Answer(p).of = p.of
  BY DEF ResultOf, Result, Answer, Packet

\* The initial state is well typed.
LEMMA InitType == Init => TypeOK
<1> SUFFICES ASSUME Init PROVE TypeOK
  OBVIOUS
<1>1. NoPacket \in Packet
  BY MaxCallsAssumption DEF NoPacket, Packet, Sizes
<1>2. c2s \in Pipe /\ s2c \in Pipe
  BY <1>1 DEF Init, Pipe
<1>3. result \in [Calls -> Result] /\ executed \in [Calls -> Nat]
  BY ResultType, MaxCallsAssumption DEF Init
<1> QED BY <1>2, <1>3, MaxCallsAssumption DEF Init, TypeOK

\* Every step keeps the types.
LEMMA StepType == TypeOK /\ [Next]_vars => TypeOK'
<1> SUFFICES ASSUME TypeOK, [Next]_vars PROVE TypeOK'
  OBVIOUS
<1> USE DEF TypeOK
<1>1. ASSUME NEW size \in Sizes, ClientCall(size) PROVE TypeOK'
  <2>1. call + 1 \in Calls /\ call' = call + 1 /\ call' \in 0 .. MaxCalls
    BY <1>1, MaxCallsAssumption DEF ClientCall, Calls
  <2>2. c2s' \in Pipe
    BY <1>1, <2>1, PostType DEF ClientCall
  <2>3. result' \in [Calls -> Result] /\ client' \in {"posting", "idle"}
    BY <1>1, <2>1, ResultType, MaxCallsAssumption DEF ClientCall, Return
  <2> QED BY <1>1, <2>1, <2>2, <2>3 DEF ClientCall
<1>2. CASE ClientSent
  <2>1. c2s' \in Pipe
    BY <1>2, PipeRecords DEF ClientSent
  <2>2. result' \in [Calls -> Result] /\ client' \in {"waiting", "idle"}
    BY <1>2, ResultType, MaxCallsAssumption DEF ClientSent, Return
  <2> QED BY <1>2, <2>1, <2>2 DEF ClientSent
<1>3. CASE ClientTake
  <2>1. s2c' \in Pipe
    BY <1>3, PipeRecords DEF ClientTake
  <2>2. Answer(s2c.packet) \in Result
    BY ResultType DEF Pipe
  <2>3. result' \in [Calls -> Result] /\ client' \in {"panicked", "idle"}
    BY <1>3, <2>2 DEF ClientTake, Return
  <2> QED BY <1>3, <2>1, <2>3 DEF ClientTake
<1>4. CASE ClientTakeNothing
  <2>1. \A tag \in {"ok", "code", "failed"} : ResultOf(tag, 0) \in Result
    BY ResultType, MaxCallsAssumption
  <2>2. result' \in [Calls -> Result] /\ client' \in {"panicked", "idle"}
    BY <1>4, <2>1 DEF ClientTakeNothing, Return
  <2> QED BY <1>4, <2>2 DEF ClientTakeNothing
<1>5. CASE ClientExit
  BY <1>5 DEF ClientExit
<1>6. CASE ServerTake
  <2>1. c2s' \in Pipe
    BY <1>6, PipeRecords DEF ServerTake
  <2>2. c2s.packet.of \in 0 .. MaxCalls
    BY DEF Pipe, Packet
  <2>3. request' \in 0 .. MaxCalls /\ server' \in {"serving", "panicked"}
    BY <1>6, <2>2 DEF ServerTake
  <2> QED BY <1>6, <2>1, <2>3 DEF ServerTake
<1>7. CASE ServerTakeNothing
  BY <1>7, MaxCallsAssumption DEF ServerTakeNothing
<1>8. ASSUME NEW code \in ErrorCodes \cup {0}, NEW size \in Sizes,
             ServerServe(code, size)
      PROVE  TypeOK'
  <2>1. executed' \in [Calls -> Nat] /\ phantoms' \in Nat
    BY <1>8 DEF ServerServe, Count, Calls
  <2>2. s2c' \in Pipe /\ server' \in {"replying", "returned", "panicked"}
    BY <1>8, PostType DEF ServerServe
  <2> QED BY <1>8, <2>1, <2>2 DEF ServerServe
<1>9. CASE ServerReplied
  <2>1. s2c' \in Pipe
    BY <1>9, PipeRecords DEF ServerReplied
  <2> QED BY <1>9, <2>1 DEF ServerReplied
<1>10. CASE UNCHANGED vars
  BY <1>10 DEF vars
<1> QED
  BY <1>1, <1>2, <1>3, <1>4, <1>5, <1>6, <1>7, <1>8, <1>9, <1>10
  DEF Next, ClientStep, ServerStep, Terminated

\* In every reachable state each variable holds a value of its kind: no step
\* of either process leaves the states of csi_call and csi_run_server.
THEOREM TypeCorrect == Spec => []TypeOK
  BY InitType, StepType, PTL DEF Spec

-----------------------------------------------------------------------------
(* The inductive invariant *)

\* The initial state satisfies it.
LEMMA InitInv == Init => Inv
<1> SUFFICES ASSUME Init PROVE Inv
  OBVIOUS
<1>1. TypeOK
  BY InitType
<1>2. CallsInOrder /\ RunsAtMostOnce
  BY MaxCallsAssumption DEF Init, CallsInOrder, Calls, NotReturned, RunsAtMostOnce
<1>3. PipesInStep /\ ServesOpenCall
  BY DEF Init, PipesInStep, ServesOpenCall, ClientInCall
<1>4. AnswersOwnCall /\ FailureIsFinal /\ PhantomOnlyAtEnd
  BY DEF Init, AnswersOwnCall, FailureIsFinal, PhantomOnlyAtEnd, ResultOf
<1> QED BY <1>1, <1>2, <1>3, <1>4 DEF Inv

\* When the last call returns r with the server as it is, the properties of
\* results hold again if r itself has them.
LEMMA ReturnInv ==
  ASSUME Inv, NEW r \in Result,
         client' = "idle", result' = [result EXCEPT ![call'] = r],
         call' \in Calls, result[call'] = NotReturned,
         \/ call' = call
         \/ call' = call + 1 /\ (call > 0 => result[call].tag # "none"),
         UNCHANGED <<server, executed, phantoms>>,
         \/ r.tag \in {"ok", "code"} /\ r.of = call' /\ executed[call'] = 1
         \/ r.tag \in {"ok", "code"} /\ r.of = 0 /\ ServerEnded
         \/ r.tag = "failed" /\ ServerEnded
  PROVE  CallsInOrder' /\ RunsAtMostOnce' /\ AnswersOwnCall' /\ FailureIsFinal'
<1> DEFINE n == call'
<1> USE DEF Inv
<1>1. /\ client' = "idle" /\ result'[n] = r /\ r.tag # "none"
      /\ \A j \in Calls : j # n => result'[j] = result[j]
      /\ ServerEnded' = ServerEnded
      /\ call \in 0 .. MaxCalls
  BY DEF ServerEnded, TypeOK, NotReturned, ResultOf
<1>2. \A i \in Calls : i > n => result[i] = NotReturned /\ executed[i] = 0
  BY <1>1, MaxCallsAssumption DEF CallsInOrder, Calls
<1>3. CallsInOrder'
  <2>1. \A i \in Calls : i < n => result'[i].tag # "none"
    BY <1>1, MaxCallsAssumption DEF CallsInOrder, Calls
  <2> QED BY <1>1, <1>2, <2>1 DEF CallsInOrder
<1>4. RunsAtMostOnce'
  BY DEF RunsAtMostOnce
<1>5. AnswersOwnCall'
  BY <1>1 DEF AnswersOwnCall
<1>6. FailureIsFinal'
  <2> SUFFICES ASSUME NEW i \in Calls, result'[i].tag = "failed",
                      NEW j \in i + 1 .. MaxCalls
               PROVE  ServerEnded /\ executed[j] = 0
    BY <1>1 DEF FailureIsFinal
  <2>1. CASE i = n
    <3>1. j \in Calls /\ j > n
      <4>1. i \in Nat /\ j \in Nat /\ 1 <= i /\ i + 1 <= j /\ j <= MaxCalls
        BY MaxCallsAssumption DEF Calls
      <4>2. 1 <= j /\ j > i
        BY <4>1
      <4> QED BY <2>1, <4>1, <4>2 DEF Calls
    <3>2. ServerEnded
      BY <1>1, <2>1
    <3> QED BY <1>2, <3>1, <3>2
  <2>2. CASE i # n
    BY <1>1, <2>2 DEF FailureIsFinal
  <2> QED BY <2>1, <2>2
<1> QED BY <1>3, <1>4, <1>5, <1>6

\* A call begins, or fails on the spot because the server has ended.
LEMMA ClientCallInv ==
  ASSUME Inv, TypeOK', NEW size \in Sizes, ClientCall(size)
  PROVE  Inv'
<1> USE DEF Inv
<1> DEFINE n == call + 1
<1>1. /\ n \in Calls /\ n \in 0 .. MaxCalls /\ call' = n /\ client = "idle"
      /\ result[n] = NotReturned /\ executed[n] = 0
      /\ call > 0 => result[call].tag # "none"
      /\ c2s.state = "free" /\ call \in 0 .. MaxCalls
  BY MaxCallsAssumption
  DEF ClientCall, CallsInOrder, PipesInStep, TypeOK, Calls, Pipe
<1>2. UNCHANGED <<s2c, server, request, executed, phantoms>>
  BY DEF ClientCall
<1>3. PipesInStep'
  <2>1. \/ client' = "idle" /\ c2s' = c2s
        \/ client' = "posting" /\ c2s'.state = "posted" /\ c2s'.packet.of = n
    BY <1>1 DEF ClientCall, Return, Post
  <2> QED BY <1>1, <1>2, <2>1 DEF PipesInStep
<1>4. ServesOpenCall'
  <2>1. ~ ClientInCall /\ ~ ClientEnded
    BY <1>1 DEF ClientInCall, ClientEnded
  <2>2. ~ ClientInCall'
    <3>1. client' \in {"idle", "posting"} /\ c2s'.state \in {"free", "posted"}
      BY <1>1 DEF ClientCall, Return, Post
    <3> QED BY <3>1 DEF ClientInCall
  <2>3. server # "serving" /\ ~ (server = "replying" /\ s2c.state = "posted")
    BY <1>1, <2>1 DEF ServesOpenCall
  <2> QED BY <1>2, <2>2, <2>3 DEF ServesOpenCall
<1>5. PhantomOnlyAtEnd'
  <2>1. phantoms = 0
    BY <1>1 DEF PhantomOnlyAtEnd, ClientEnded, TypeOK
  <2> QED BY <1>2, <2>1 DEF PhantomOnlyAtEnd
<1>6. CASE ServerEnded /\ Return(n, ResultOf("failed", 0))
  <2>1. ResultOf("failed", 0) \in Result /\ ResultOf("failed", 0).tag = "failed"
    BY ResultType, MaxCallsAssumption
  <2>2. CallsInOrder' /\ RunsAtMostOnce' /\ AnswersOwnCall' /\ FailureIsFinal'
    BY <1>1, <1>2, <1>6, <2>1, ReturnInv DEF Return
  <2> QED BY <1>3, <1>4, <1>5, <2>2
<1>7. CASE client' = "posting" /\ UNCHANGED result
  <2>1. \A i \in Calls : i < n => result[i].tag # "none"
    BY <1>1, MaxCallsAssumption DEF CallsInOrder, Calls
  <2>2. \A i \in Calls : i > n => result[i] = NotReturned /\ executed[i] = 0
    BY <1>1, MaxCallsAssumption DEF CallsInOrder, Calls
  <2>3. CallsInOrder'
    BY <1>1, <1>2, <1>7, <2>1, <2>2 DEF CallsInOrder
  <2>4. RunsAtMostOnce' /\ AnswersOwnCall' /\ FailureIsFinal'
    BY <1>2, <1>7 DEF RunsAtMostOnce, AnswersOwnCall, FailureIsFinal, ServerEnded
  <2> QED BY <1>3, <1>4, <1>5, <2>3, <2>4
<1> QED BY <1>6, <1>7 DEF ClientCall

\* The write of a request returns.
LEMMA ClientSentInv ==
  ASSUME Inv, TypeOK', ClientSent
  PROVE  Inv'
<1> USE DEF Inv
<1>1. /\ client = "posting" /\ call \in Calls /\ result[call] = NotReturned
      /\ c2s'.state = "free" /\ call' = call
      /\ UNCHANGED <<s2c, server, request, executed, phantoms>>
  BY PipeRecords DEF ClientSent, CallsInOrder
<1>2. /\ ResultOf("failed", 0) \in Result
      /\ ResultOf("failed", 0).tag = "failed"
  BY ResultType, MaxCallsAssumption
<1>3. \/ client' = "waiting" /\ UNCHANGED result /\ (c2s.state = "taken" \/ ServerEnded)
      \/ ServerEnded /\ Return(call, ResultOf("failed", 0)) /\ client' = "idle"
  BY DEF ClientSent, Return
<1>4. PipesInStep'
  BY <1>1, <1>3 DEF PipesInStep
<1>5. ServesOpenCall'
  <2>1. CASE ServerEnded
    BY <1>1, <2>1 DEF ServesOpenCall, ServerEnded
  <2>2. CASE c2s.state = "taken" /\ client' = "waiting"
    BY <1>1, <2>2 DEF ServesOpenCall, ClientInCall, ClientEnded
  <2> QED BY <1>3, <2>1, <2>2
<1>6. PhantomOnlyAtEnd'
  BY <1>1 DEF PhantomOnlyAtEnd, ClientEnded, TypeOK
<1>7. CASE client' = "waiting" /\ UNCHANGED result
  <2>1. CallsInOrder'
    BY <1>1, <1>7 DEF CallsInOrder
  <2>2. RunsAtMostOnce' /\ AnswersOwnCall' /\ FailureIsFinal'
    BY <1>1, <1>7 DEF RunsAtMostOnce, AnswersOwnCall, FailureIsFinal, ServerEnded
  <2> QED BY <1>4, <1>5, <1>6, <2>1, <2>2
<1>8. CASE ServerEnded /\ Return(call, ResultOf("failed", 0))
  <2>1. CallsInOrder' /\ RunsAtMostOnce' /\ AnswersOwnCall' /\ FailureIsFinal'
    BY <1>1, <1>2, <1>8, ReturnInv DEF Return
  <2> QED BY <1>4, <1>5, <1>6, <2>1
<1> QED BY <1>3, <1>7, <1>8

\* The client takes a response, which is the one of its call.
LEMMA ClientTakeInv ==
  ASSUME Inv, TypeOK', ClientTake
  PROVE  Inv'
<1> USE DEF Inv
<1>1. /\ client = "waiting" /\ call \in Calls /\ result[call] = NotReturned
      /\ call' = call /\ s2c.state = "posted" /\ c2s.state = "free"
      /\ s2c'.state \in {"posted", "taken"} /\ s2c'.packet = s2c.packet
      /\ UNCHANGED <<c2s, server, request, executed, phantoms>>
  BY PipeRecords DEF ClientTake, CallsInOrder, PipesInStep, TypeOK, Pipe
<1>2. /\ server = "replying" /\ request = call /\ request > 0
      /\ executed[call] = 1 /\ s2c.packet.of = call
  BY <1>1 DEF PipesInStep, ServesOpenCall
<1>3. /\ Answer(s2c.packet) \in Result
      /\ Answer(s2c.packet).tag \in {"ok", "code"}
      /\ Answer(s2c.packet).of = call
  BY <1>2, ResultType DEF TypeOK, Pipe
<1>4. \/ s2c'.state = "taken" /\ Return(call, Answer(s2c.packet)) /\ client' = "idle"
      \/ client' = "panicked" /\ UNCHANGED result
  BY PipeRecords DEF ClientTake, Return
<1>5. PipesInStep'
  BY <1>1, <1>2, <1>4 DEF PipesInStep
<1>6. ServesOpenCall'
  <2>1. ~ ClientInCall'
    BY <1>1, <1>4 DEF ClientInCall
  <2> QED BY <1>1, <1>2, <1>4, <2>1 DEF ServesOpenCall
<1>7. PhantomOnlyAtEnd'
  BY <1>1 DEF PhantomOnlyAtEnd, ClientEnded, TypeOK
<1>8. CASE Return(call, Answer(s2c.packet))
  <2>1. CallsInOrder' /\ RunsAtMostOnce' /\ AnswersOwnCall' /\ FailureIsFinal'
    BY <1>1, <1>2, <1>3, <1>8, ReturnInv DEF Return
  <2> QED BY <1>5, <1>6, <1>7, <2>1
<1>9. CASE client' = "panicked" /\ UNCHANGED result
  <2>1. CallsInOrder'
    BY <1>1, <1>9 DEF CallsInOrder
  <2>2. RunsAtMostOnce' /\ AnswersOwnCall' /\ FailureIsFinal'
    BY <1>1, <1>9 DEF RunsAtMostOnce, AnswersOwnCall, FailureIsFinal, ServerEnded
  <2> QED BY <1>5, <1>6, <1>7, <2>1, <2>2
<1> QED BY <1>4, <1>8, <1>9

\* The client reads on after the server has ended.
LEMMA ClientTakeNothingInv ==
  ASSUME Inv, TypeOK', ClientTakeNothing
  PROVE  Inv'
<1> USE DEF Inv
<1>1. /\ client = "waiting" /\ ServerEnded /\ call' = call
      /\ call \in Calls /\ result[call] = NotReturned /\ c2s.state = "free"
      /\ UNCHANGED <<c2s, s2c, server, request, executed, phantoms>>
  BY DEF ClientTakeNothing, CallsInOrder, PipesInStep, TypeOK, Pipe
<1>2. PhantomOnlyAtEnd'
  BY <1>1 DEF PhantomOnlyAtEnd, ClientEnded, TypeOK
<1>3. ServesOpenCall'
  BY <1>1 DEF ServesOpenCall, ServerEnded
<1>4. CASE client' = "panicked" /\ UNCHANGED result
  <2>1. CallsInOrder' /\ PipesInStep'
    BY <1>1, <1>4 DEF CallsInOrder, PipesInStep
  <2>2. RunsAtMostOnce' /\ AnswersOwnCall' /\ FailureIsFinal'
    BY <1>1, <1>4 DEF RunsAtMostOnce, AnswersOwnCall, FailureIsFinal, ServerEnded
  <2> QED BY <1>2, <1>3, <2>1, <2>2
<1>5. ASSUME NEW tag \in {"ok", "code", "failed"}, Return(call, ResultOf(tag, 0))
      PROVE  Inv'
  <2>1. /\ ResultOf(tag, 0) \in Result
        /\ ResultOf(tag, 0).tag = tag /\ ResultOf(tag, 0).of = 0
    BY ResultType, MaxCallsAssumption
  <2>2. CallsInOrder' /\ RunsAtMostOnce' /\ AnswersOwnCall' /\ FailureIsFinal'
    BY <1>1, <1>5, <2>1, ReturnInv DEF Return
  <2>3. PipesInStep'
    BY <1>1, <1>5 DEF PipesInStep, Return
  <2> QED BY <1>2, <1>3, <2>2, <2>3
<1> QED BY <1>4, <1>5 DEF ClientTakeNothing

\* The client ends between two calls.
LEMMA ClientExitInv ==
  ASSUME Inv, TypeOK', ClientExit
  PROVE  Inv'
<1> USE DEF Inv
<1>1. /\ client = "idle" /\ client' = "exited"
      /\ UNCHANGED <<call, result, c2s, s2c, server, request, executed, phantoms>>
  BY DEF ClientExit
<1>2. CallsInOrder' /\ PipesInStep'
  BY <1>1 DEF CallsInOrder, PipesInStep
<1>3. ServesOpenCall'
  BY <1>1 DEF ServesOpenCall, ClientInCall, ClientEnded
<1>4. /\ RunsAtMostOnce' /\ AnswersOwnCall' /\ FailureIsFinal'
      /\ PhantomOnlyAtEnd'
  BY <1>1
  DEF RunsAtMostOnce, AnswersOwnCall, FailureIsFinal, PhantomOnlyAtEnd,
      ServerEnded, ClientEnded
<1> QED BY <1>2, <1>3, <1>4

\* The server takes the request of the open call, which has not run.
LEMMA ServerTakeInv ==
  ASSUME Inv, TypeOK', ServerTake
  PROVE  Inv'
<1> USE DEF Inv
<1>1. /\ server = "receiving" /\ c2s.state = "posted" /\ client = "posting"
      /\ call \in Calls /\ c2s.packet.of = call /\ executed[call] = 0
      /\ UNCHANGED <<client, call, result, s2c, executed, phantoms>>
  BY DEF ServerTake, PipesInStep, CallsInOrder
<1>2. /\ c2s'.state \in {"posted", "taken"} /\ c2s'.packet = c2s.packet
      /\ \/ server' = "serving" /\ request' = call /\ c2s'.state = "taken"
         \/ server' = "panicked" /\ request' = request
  <2>1. \A st \in {"posted", "taken"} :
           /\ [c2s EXCEPT !.state = st].state = st
           /\ [c2s EXCEPT !.state = st].packet = c2s.packet
    BY PipeRecords
  <2> QED BY <1>1, <2>1 DEF ServerTake
<1>3. CallsInOrder' /\ PipesInStep'
  BY <1>1, <1>2 DEF CallsInOrder, PipesInStep
<1>4. ServesOpenCall'
  <2>1. call > 0
    BY <1>1 DEF Calls
  <2> QED BY <1>1, <1>2, <2>1 DEF ServesOpenCall, ClientInCall
<1>5. ~ ServerEnded /\ ~ ClientEnded /\ phantoms = 0
  BY <1>1 DEF ServerEnded, ClientEnded, PhantomOnlyAtEnd, TypeOK
<1>6. RunsAtMostOnce' /\ AnswersOwnCall' /\ FailureIsFinal' /\ PhantomOnlyAtEnd'
  BY <1>1, <1>5
  DEF RunsAtMostOnce, AnswersOwnCall, FailureIsFinal, PhantomOnlyAtEnd
<1> QED BY <1>3, <1>4, <1>6

\* The server reads on after the client has gone.
LEMMA ServerTakeNothingInv ==
  ASSUME Inv, TypeOK', ServerTakeNothing
  PROVE  Inv'
<1> USE DEF Inv
<1>1. /\ server = "receiving" /\ ClientEnded
      /\ \/ server' \in {"panicked", "returned"} /\ request' = request
         \/ server' = "serving" /\ request' = 0
      /\ UNCHANGED <<client, call, result, c2s, s2c, executed, phantoms>>
  BY DEF ServerTakeNothing
<1>2. CallsInOrder' /\ PipesInStep' /\ RunsAtMostOnce'
  BY <1>1 DEF CallsInOrder, PipesInStep, RunsAtMostOnce
<1>3. ServesOpenCall'
  BY <1>1 DEF ServesOpenCall, ClientEnded
<1>4. ~ ServerEnded /\ phantoms = 0
  BY <1>1 DEF ServerEnded, PhantomOnlyAtEnd, TypeOK
<1>5. AnswersOwnCall' /\ FailureIsFinal' /\ PhantomOnlyAtEnd'
  BY <1>1, <1>4 DEF AnswersOwnCall, FailureIsFinal, PhantomOnlyAtEnd
<1> QED BY <1>2, <1>3, <1>5

\* The callback runs, for the open call or for a request that nobody sent.
LEMMA ServerServeInv ==
  ASSUME Inv, TypeOK', NEW code \in ErrorCodes \cup {0}, NEW size \in Sizes,
         ServerServe(code, size)
  PROVE  Inv'
<1> USE DEF Inv
<1>1. /\ server = "serving" /\ s2c.state = "free"
      /\ UNCHANGED <<client, call, result, c2s, request>>
  BY DEF ServerServe, PipesInStep, TypeOK, Pipe
<1>2. ~ ServerEnded /\ phantoms = 0
  BY <1>1 DEF ServerEnded, PhantomOnlyAtEnd, TypeOK
<1>3. \A i \in Calls : result[i].tag # "failed" /\ (result[i].tag \in {"ok", "code"} => executed[i] = 1)
  BY <1>2 DEF AnswersOwnCall, FailureIsFinal
<1>4. CASE request = 0
  <2>1. /\ ClientEnded /\ server' \in {"returned", "panicked"} /\ s2c' = s2c
        /\ executed' = executed /\ phantoms' = 1
    BY <1>1, <1>2, <1>4 DEF ServesOpenCall, ServerServe, Count
  <2>2. CallsInOrder' /\ PipesInStep' /\ ServesOpenCall' /\ RunsAtMostOnce'
    BY <1>1, <2>1
    DEF CallsInOrder, PipesInStep, ServesOpenCall, RunsAtMostOnce
  <2>3. AnswersOwnCall' /\ FailureIsFinal' /\ PhantomOnlyAtEnd'
    BY <1>1, <1>3, <2>1
    DEF AnswersOwnCall, FailureIsFinal, PhantomOnlyAtEnd, ServerEnded, ClientEnded
  <2> QED BY <2>2, <2>3
<1>5. CASE request # 0
  <2>1. /\ request > 0 /\ request = call /\ executed[call] = 0 /\ ClientInCall
        /\ client \in {"posting", "waiting"} /\ call \in Calls
        /\ result[call] = NotReturned
    BY <1>1, <1>5 DEF ServesOpenCall, ClientInCall, PipesInStep, CallsInOrder
  <2>2. /\ phantoms' = phantoms
        /\ executed'[call] = 1
        /\ \A i \in Calls : i # call => executed'[i] = executed[i]
        /\ ~ ClientEnded
    BY <2>1 DEF ServerServe, Count, TypeOK, ClientEnded
  <2>3. \/ server' = "replying" /\ s2c'.state = "posted" /\ s2c'.packet.of = call
        \/ server' \in {"returned", "panicked"} /\ s2c' = s2c
    BY <2>1, <2>2, PostType DEF ServerServe, TypeOK
  <2>4. CallsInOrder'
    <3>1. \A i \in Calls : i > call => i # call
      BY DEF TypeOK, Calls
    <3> QED BY <1>1, <2>1, <2>2, <3>1 DEF CallsInOrder
  <2>5. c2s.state # "posted"
    BY <2>1 DEF ClientInCall, PipesInStep
  <2>6. PipesInStep'
    BY <1>1, <2>1, <2>3, <2>5 DEF PipesInStep
  <2>7. ServesOpenCall'
    BY <1>1, <2>1, <2>2, <2>3 DEF ServesOpenCall, ClientInCall
  <2>8. RunsAtMostOnce'
    BY <2>2 DEF RunsAtMostOnce
  <2>9. AnswersOwnCall' /\ FailureIsFinal'
    <3>1. result[call].tag = "none"
      BY <2>1 DEF NotReturned, ResultOf
    <3>2. AnswersOwnCall'
      BY <1>1, <1>2, <2>2, <3>1 DEF AnswersOwnCall
    <3> QED BY <1>1, <1>3, <3>2 DEF FailureIsFinal
  <2>10. PhantomOnlyAtEnd'
    BY <1>2, <2>2 DEF PhantomOnlyAtEnd
  <2> QED BY <2>4, <2>6, <2>7, <2>8, <2>9, <2>10
<1> QED BY <1>4, <1>5

\* The write of a response returns.
LEMMA ServerRepliedInv ==
  ASSUME Inv, TypeOK', ServerReplied
  PROVE  Inv'
<1> USE DEF Inv
<1>1. /\ server = "replying" /\ server' \in {"receiving", "returned"}
      /\ s2c.state = "taken" \/ ClientEnded
      /\ s2c'.state = "free"
      /\ UNCHANGED <<client, call, result, c2s, request, executed, phantoms>>
  BY PipeRecords DEF ServerReplied
<1>2. CallsInOrder' /\ PipesInStep' /\ RunsAtMostOnce'
  BY <1>1 DEF CallsInOrder, PipesInStep, RunsAtMostOnce
<1>3. ~ ClientInCall
  <2>1. CASE s2c.state = "taken"
    BY <1>1, <2>1 DEF ServesOpenCall
  <2>2. CASE ClientEnded
    BY <2>2 DEF ClientInCall, ClientEnded, PipesInStep
  <2> QED BY <1>1, <2>1, <2>2
<1>4. ServesOpenCall'
  BY <1>1, <1>3 DEF ServesOpenCall, ClientInCall
<1>5. ~ ServerEnded /\ phantoms = 0
  BY <1>1 DEF ServerEnded, PhantomOnlyAtEnd, TypeOK
<1>6. AnswersOwnCall' /\ FailureIsFinal' /\ PhantomOnlyAtEnd'
  BY <1>1, <1>5 DEF AnswersOwnCall, FailureIsFinal, PhantomOnlyAtEnd
<1> QED BY <1>2, <1>4, <1>6

\* Every step keeps the invariant.
LEMMA StepInv == Inv /\ [Next]_vars => Inv'
<1> SUFFICES ASSUME Inv, [Next]_vars PROVE Inv'
  OBVIOUS
<1>1. TypeOK'
  BY StepType DEF Inv
<1>2. CASE UNCHANGED vars
  BY <1>2
  DEF vars, Inv, TypeOK, CallsInOrder, PipesInStep, ClientInCall,
      ServesOpenCall, RunsAtMostOnce, AnswersOwnCall, FailureIsFinal,
      PhantomOnlyAtEnd, ServerEnded, ClientEnded
<1> QED
  BY <1>1, <1>2, ClientCallInv, ClientSentInv, ClientTakeInv,
     ClientTakeNothingInv, ClientExitInv, ServerTakeInv, ServerTakeNothingInv,
     ServerServeInv, ServerRepliedInv
  DEF Next, ClientStep, ServerStep, Terminated

\* Every reachable state satisfies it.
LEMMA Invariance == Spec => []Inv
  BY InitInv, StepInv, PTL DEF Spec

-----------------------------------------------------------------------------
(* What it gives *)

\* csi_call never returns the response to another call, and returns what nobody
\* sent only when the server is down.
THEOREM AnswersAreOwn == Spec => []AnswersOwnCall
<1>1. Inv => AnswersOwnCall
  BY DEF Inv
<1> QED BY <1>1, Invariance, PTL

\* csi_run_server runs its callback at most once for each request, in the order
\* of the calls.
THEOREM RunsInOrder == Spec => []OnceInOrder
<1>1. Inv => OnceInOrder
  <2> SUFFICES ASSUME Inv, NEW i \in Calls, executed[i] = 1
               PROVE  i <= call /\ \A j \in 1 .. (i - 1) : result[j].tag # "none"
    BY DEF Inv, RunsAtMostOnce, OnceInOrder
  <2>1. i <= call /\ call \in 0 .. MaxCalls
    BY DEF Inv, CallsInOrder, TypeOK, Calls
  <2>2. \A j \in 1 .. (i - 1) : j \in Calls /\ j < call
    BY <2>1, MaxCallsAssumption DEF Calls
  <2> QED BY <2>1, <2>2 DEF Inv, CallsInOrder
<1> QED BY <1>1, Invariance, PTL

\* A failed csi_call means that the server is down and serves no later call.
THEOREM FailuresAreFinal == Spec => []FailureIsFinal
<1>1. Inv => FailureIsFinal
  BY DEF Inv
<1> QED BY <1>1, Invariance, PTL

\* However often csi_receive_request loses the error of a read, the callback
\* runs at most once for a request that nobody sent, and nothing comes after.
THEOREM OnePhantomAtMost == Spec => []PhantomOnlyAtEnd
<1>1. Inv => PhantomOnlyAtEnd
  BY DEF Inv
<1> QED BY <1>1, Invariance, PTL

-----------------------------------------------------------------------------
(* Progress.  Liveness itself is beyond the prover, but not its two halves:  *)
(* somebody can always move, and every move brings the end nearer.           *)

\* The client waits for the server, in a write or in a read.
InCall == client \in {"posting", "waiting"}

\* The guards of ClientSent, of ClientTake and ClientTakeNothing, and of the
\* server's steps.
WriteReturns == client = "posting" /\ (c2s.state = "taken" \/ ServerEnded)
ReadReturns == client = "waiting" /\ (s2c.state = "posted" \/ ServerEnded)
ServerMoves ==
  \/ server = "receiving" /\ (c2s.state = "posted" \/ ClientEnded)
  \/ server = "serving"
  \/ server = "replying" /\ (s2c.state = "taken" \/ ClientEnded)

\* How many steps the server can still take.  While a call waits the reply that
\* it is writing is either the one of the call before, which was taken, or the
\* call's own, which the client takes.
ServerSteps ==
  CASE server = "replying" -> IF InCall /\ s2c.state = "posted" THEN 0 ELSE 3
    [] server = "receiving" -> 2
    [] server = "serving" -> 1
    [] OTHER -> 0

\* How many steps of the two processes a call can still take before it returns.
StepsOfCall == ServerSteps + IF client = "posting" THEN 1 ELSE 0

\* While a call waits, one of the two processes can take a step: there is no
\* deadlock between csi_call and csi_run_server (ckb_script_ipc.c), also when the
\* call before failed or the server has ended without a response.
THEOREM CallNeverStuck == Spec => [](InCall => WriteReturns \/ ReadReturns \/ ServerMoves)
<1>1. Inv => (InCall => WriteReturns \/ ReadReturns \/ ServerMoves)
  <2> SUFFICES ASSUME Inv, InCall
               PROVE  WriteReturns \/ ReadReturns \/ ServerMoves
    OBVIOUS
  <2> USE DEF Inv, TypeOK, Pipe, PipesInStep, ServesOpenCall, ClientInCall, ServerEnded
  <2>1. CASE client = "posting"
    BY <2>1 DEF WriteReturns, ServerMoves
  <2>2. CASE client = "waiting"
    BY <2>2 DEF ReadReturns, ServerMoves
  <2> QED BY <2>1, <2>2 DEF InCall
<1> QED BY <1>1, Invariance, PTL

\* Every step while a call waits is one of the few that are left to it: a call
\* takes at most five steps, whoever takes them (csi_call, csi_run_server).
THEOREM CallAdvances ==
  Spec => /\ [](InCall => StepsOfCall \in 0 .. 4)
          /\ [][InCall /\ InCall' => StepsOfCall' < StepsOfCall]_vars
<1>1. StepsOfCall \in 0 .. 4
  BY DEF StepsOfCall, ServerSteps
<1>2. ASSUME Inv, Next, InCall, InCall', vars' # vars
      PROVE  StepsOfCall' < StepsOfCall
  <2> USE DEF StepsOfCall, ServerSteps
  <2>1. ~ ClientEnded
    BY <1>2 DEF InCall, ClientEnded
  <2>2. CASE ClientSent
    <3>1. client = "posting" /\ client' = "waiting" /\ UNCHANGED <<server, s2c>>
      BY <1>2, <2>2 DEF ClientSent, InCall, Return
    <3> QED BY <1>2, <3>1
  <2>3. CASE ServerTake
    BY <1>2, <2>3 DEF ServerTake
  <2>4. ASSUME NEW code \in ErrorCodes \cup {0}, NEW size \in Sizes,
               ServerServe(code, size)
        PROVE  StepsOfCall' < StepsOfCall
    <3>1. Post([of |-> request, code |-> code, size |-> size]).state = "posted"
      BY DEF Post
    <3> QED BY <1>2, <2>1, <2>4, <3>1 DEF ServerServe
  <2>5. CASE ServerReplied
    BY <1>2, <2>1, <2>5 DEF ServerReplied
  <2>6. \/ ClientSent \/ ServerTake \/ ServerReplied
        \/ \E code \in ErrorCodes \cup {0}, size \in Sizes : ServerServe(code, size)
    BY <1>2, <2>1
    DEF Next, ClientStep, ServerStep, Terminated, InCall, ClientCall, ClientTake,
        ClientTakeNothing, ClientExit, Return, ServerTakeNothing
  <2> QED BY <2>2, <2>3, <2>4, <2>5, <2>6
<1>3. Inv /\ [Next]_vars => [InCall /\ InCall' => StepsOfCall' < StepsOfCall]_vars
  BY <1>2
<1> QED BY <1>1, <1>3, Invariance, PTL DEF Spec

\* Once its client has ended, a server can always take its next step, and there
\* are at most three before it ends as well, the run for a request that nobody
\* sent among them (csi_run_server).
THEOREM ServerWindsUp ==
  Spec => /\ [](ClientEnded => ServerSteps \in 0 .. 3 /\ (ServerEnded \/ ServerMoves))
          /\ [][ClientEnded => ClientEnded' /\ ServerSteps' < ServerSteps]_vars
<1>1. Inv => (ClientEnded => ServerSteps \in 0 .. 3 /\ (ServerEnded \/ ServerMoves))
  <2>1. ServerSteps \in 0 .. 3
    BY DEF ServerSteps
  <2>2. Inv => (ClientEnded => ServerEnded \/ ServerMoves)
    BY DEF Inv, TypeOK, ClientEnded, ServerEnded, ServerMoves
  <2> QED BY <2>1, <2>2
<1>2. ASSUME Inv, Next, ClientEnded, vars' # vars
      PROVE  ClientEnded' /\ ServerSteps' < ServerSteps
  <2>1. ServerStep /\ UNCHANGED client /\ ~ ServerTake
    <3>1. ServerStep
      BY <1>2
      DEF Next, ClientStep, Terminated, ClientEnded, ClientCall, ClientSent,
          ClientTake, ClientTakeNothing, ClientExit
    <3>2. UNCHANGED client
      BY <3>1
      DEF ServerStep, ServerTake, ServerTakeNothing, ServerServe, ServerReplied
    <3> QED BY <1>2, <3>1, <3>2 DEF ServerTake, Inv, PipesInStep, ClientEnded
  <2> USE DEF ServerSteps
  <2>2. ClientEnded' /\ ~ InCall /\ ~ InCall'
    BY <1>2, <2>1 DEF ClientEnded, InCall
  <2>3. CASE ServerTakeNothing
    BY <2>2, <2>3 DEF ServerTakeNothing
  <2>4. ASSUME NEW code \in ErrorCodes \cup {0}, NEW size \in Sizes,
               ServerServe(code, size)
        PROVE  ServerSteps' < ServerSteps
    BY <1>2, <2>2, <2>4 DEF ServerServe
  <2>5. CASE ServerReplied
    BY <2>2, <2>5 DEF ServerReplied
  <2> QED BY <2>1, <2>2, <2>3, <2>4, <2>5 DEF ServerStep
<1>3. Inv /\ [Next]_vars => [ClientEnded => ClientEnded' /\ ServerSteps' < ServerSteps]_vars
  BY <1>2
<1> QED BY <1>1, <1>3, Invariance, PTL DEF Spec
=============================================================================
