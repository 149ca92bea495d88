------------------------- MODULE NativePipe_proofs -------------------------
(***************************************************************************)
(* Proofs about NativePipe, for every number of calls, every size of a     *)
(* packet and every set of lengths that reads ask for.                     *)
(***************************************************************************)
EXTENDS NativePipe, SequenceTheorems, TLAPS

\* The client is in a call.
Waiting == client \in {"writing", "reading"}

\* The script may still serve.
Up ==
  \/ vm \in {"new", "loading", "reading", "serving"}
  \/ vm = "writing" /\ ~ last

\* Which ends are left is known from where the two threads are.
Ends ==
  /\ toVm.sender = (client # "ended")
  /\ toVm.receiver = (vm \notin {"closing", "ended"})
  /\ toClient.sender = (vm # "ended")
  /\ toClient.receiver = (client \notin {"dropping", "ended"})
  /\ client = "new" <=> vm = "new"
  /\ client = "new" => call = 0
  /\ vm = "failing" => client = "ended"

\* What a call that has returned may count as.
Returned == {"ok", "unread", "err"}

\* Calls before the last one have returned, and the last one has exactly when
\* the client does not wait; those after it have not begun.
CallsInOrder ==
  /\ Waiting => call \in Calls /\ answer[call] = <<"none", 0>>
  /\ \A i \in Calls :
       /\ ran[i] \in {0, 1}
       /\ i > call => ran[i] = 0 /\ answer[i] = <<"none", 0>>
       /\ i < call \/ (i = call /\ ~ Waiting) => AnswerOf(i) \in Returned

\* The script has some of the request.
RequestTaken == vmGot # <<>> \/ toVm.rest # <<>>

\* The client has some of the response.
ResponseTaken == got # <<>> \/ toClient.rest # <<>>

\* A request is in one place, offered or taken, until it is served.
RequestInStep ==
  /\ toVm.offered # <<>> =>
       /\ client = "writing" /\ ran[call] = 0
       /\ toVm.offered = Packet("request", call)
       /\ ~ RequestTaken
  /\ RequestTaken =>
       /\ Waiting /\ ran[call] = 0
       /\ vm \in {"reading", "serving"}
       /\ vmGot \o toVm.rest = Packet("request", call)
  /\ vm = "reading" => Len(vmGot) < Size
  /\ vm = "serving" => vmGot # <<>> /\ toVm.rest = <<>>

\* The request of the open call has still to be served.
Unserved == toVm.offered # <<>> \/ RequestTaken

\* What a response may be: a value only when the call ran, an error only when the
\* script is ending.
IsResponse(bytes) ==
  \/ bytes = Packet("value", call) /\ ran[call] = 1
  \/ bytes = Packet("error", 0) /\ ~ Up

\* So is a response, from then on until the call returns; there is neither only
\* when the script has ended instead.
ResponseInStep ==
  /\ toClient.offered # <<>> =>
       /\ Waiting /\ ~ Unserved
       /\ vm = "writing"
       /\ IsResponse(toClient.offered)
       /\ ~ ResponseTaken
  /\ ResponseTaken =>
       /\ client = "reading" /\ ~ Unserved
       /\ IsResponse(got \o toClient.rest)
  /\ Waiting =>
       \/ Unserved \/ toClient.offered # <<>> \/ ResponseTaken
       \/ vm \in {"dropping", "closing", "ended"}

\* The inductive invariant.
Inv ==
  /\ TypeOK
  /\ Ends
  /\ CallsInOrder
  /\ RequestInStep
  /\ ResponseInStep

-----------------------------------------------------------------------------
(* Packets and reads *)

LEMMA PacketFacts ==
  ASSUME NEW what \in {"request", "value", "error"}, NEW i \in 0 .. MaxCalls
  PROVE  /\ Packet(what, i) \in Seq(Byte)
         /\ Len(Packet(what, i)) = Size
         /\ Packet(what, i) # <<>>
         /\ Packet(what, i)[1] = <<what, i>>
<1>1. Packet(what, i) \in [1 .. Size -> Byte]
  BY DEF Packet, Byte
<1>2. Packet(what, i) \in Seq(Byte) /\ Len(Packet(what, i)) = Size
  BY <1>1, SizeAssumption
<1>3. Packet(what, i)[1] = <<what, i>>
  BY SizeAssumption DEF Packet
<1> QED BY <1>2, <1>3, SizeAssumption, EmptySeq

\* A read takes at least a byte, and what it leaves follows what it took.
LEMMA ReadFacts ==
  ASSUME NEW pipe \in Pipe, NEW n \in Nat \ {0}, Available(pipe) # <<>>
  PROVE  /\ Taken(pipe, n) \in Seq(Byte) /\ Taken(pipe, n) # <<>>
         /\ AfterRead(pipe, n) \in Pipe
         /\ Taken(pipe, n) \o AfterRead(pipe, n).rest = Available(pipe)
         /\ AfterRead(pipe, n).offered = IF pipe.rest # <<>> THEN pipe.offered ELSE <<>>
         /\ AfterRead(pipe, n).sender = pipe.sender
         /\ AfterRead(pipe, n).receiver = pipe.receiver
<1> DEFINE a == Available(pipe)
           k == Least(n, Len(a))
<1>1. a \in Seq(Byte) /\ Len(a) \in Nat \ {0}
  BY EmptySeq DEF Available, Pipe
<1>2. k \in 1 .. Len(a)
  BY <1>1 DEF Least
<1>3. /\ SubSeq(a, 1, k) \in Seq(Byte)
      /\ Len(SubSeq(a, 1, k)) = k
      /\ SubSeq(a, k + 1, Len(a)) \in Seq(Byte)
  <2> HIDE DEF a, k
  <2>1. \A j \in 1 .. Len(a) : a[j] \in Byte
    BY <1>1, ElementOfSeq
  <2>2. (\A j \in 1 .. k : a[j] \in Byte) /\ \A j \in k + 1 .. Len(a) : a[j] \in Byte
    BY <1>1, <1>2, <2>1
  <2>3. k \in Int /\ k + 1 \in Int /\ Len(a) \in Int /\ 1 \in Int
    BY <1>1, <1>2
  <2>4. SubSeq(a, 1, k) \in Seq(Byte) /\ Len(SubSeq(a, 1, k)) = IF 1 <= k THEN k - 1 + 1 ELSE 0
    BY <2>2, <2>3, SubSeqProperties
  <2>5. SubSeq(a, k + 1, Len(a)) \in Seq(Byte)
    BY <2>2, <2>3, SubSeqProperties
  <2> QED BY <1>2, <2>4, <2>5
<1>4. SubSeq(a, 1, k) \o SubSeq(a, k + 1, Len(a)) = a
  <2> HIDE DEF a, k
  <2>1. 1 \in 1 .. Len(a) + 1 /\ k \in 1 - 1 .. Len(a) /\ Len(a) \in k .. Len(a)
    BY <1>1, <1>2
  <2>2. SubSeq(a, 1, k) \o SubSeq(a, k + 1, Len(a)) = SubSeq(a, 1, Len(a))
    BY <1>1, <2>1, ConcatAdjacentSubSeq
  <2> QED BY <1>1, <2>2, SubSeqFull
<1>5. Taken(pipe, n) = SubSeq(a, 1, k)
  BY DEF Taken
<1>6. /\ AfterRead(pipe, n) \in Pipe
      /\ AfterRead(pipe, n).rest = SubSeq(a, k + 1, Len(a))
      /\ AfterRead(pipe, n).offered = IF pipe.rest # <<>> THEN pipe.offered ELSE <<>>
      /\ AfterRead(pipe, n).sender = pipe.sender
      /\ AfterRead(pipe, n).receiver = pipe.receiver
  <2> DEFINE left == SubSeq(a, k + 1, Len(a))
             offered == IF pipe.rest # <<>> THEN pipe.offered ELSE <<>>
  <2>1. AfterRead(pipe, n) = [pipe EXCEPT !.offered = offered, !.rest = left]
    BY Zenon DEF AfterRead
  <2>2. left \in Seq(Byte) /\ offered \in Seq(Byte)
    BY <1>3, EmptySeq DEF Pipe
  <2> HIDE DEF left, offered
  <2>3. /\ AfterRead(pipe, n) \in Pipe
        /\ AfterRead(pipe, n).rest = left
        /\ AfterRead(pipe, n).offered = offered
        /\ AfterRead(pipe, n).sender = pipe.sender
        /\ AfterRead(pipe, n).receiver = pipe.receiver
    BY <2>1, <2>2 DEF Pipe
  <2> QED BY <2>3 DEF left, offered
<1> HIDE DEF a, k
<1>7. SubSeq(a, 1, k) # <<>>
  BY <1>2, <1>3, EmptySeq
<1>8. a = Available(pipe)
  BY DEF a
<1> QED BY <1>3, <1>4, <1>5, <1>6, <1>7, <1>8

\* What is read joins what was there: a whole packet is there when nothing is
\* left to read, and the first byte is always that of the packet.
LEMMA JoinFacts ==
  ASSUME NEW have \in Seq(Byte), NEW taken \in Seq(Byte), NEW rest \in Seq(Byte),
         taken # <<>>,
         Len(have \o (taken \o rest)) = Size
  PROVE  /\ have \o taken \in Seq(Byte) /\ have \o taken # <<>>
         /\ (have \o taken) \o rest = have \o (taken \o rest)
         /\ (have \o taken)[1] = (have \o (taken \o rest))[1]
         /\ Len(have \o taken) + Len(rest) = Size
         /\ Len(have \o taken) >= Size => rest = <<>>
<1> DEFINE h == have \o taken
           p == have \o (taken \o rest)
<1>0. Len(p) = Size
  OBVIOUS
<1>1. h \in Seq(Byte) /\ h # <<>>
  BY ConcatProperties, ConcatEqualIffEmpty
<1>2. h \o rest = p
  BY ConcatAssociative
<1>3. Len(h) \in Nat \ {0} /\ Len(rest) \in Nat
  <2> HIDE DEF h, p
  <2> QED BY <1>1, EmptySeq, LenProperties
<1> HIDE DEF h, p
<1>4. Len(h) + Len(rest) = Size
  BY <1>0, <1>1, <1>2, ConcatProperties
<1>5. p[1] = h[1]
  BY <1>1, <1>2, <1>3, ConcatProperties
<1>6. Len(h) >= Size => rest = <<>>
  BY <1>3, <1>4, SizeAssumption, EmptySeq
<1> QED BY <1>1, <1>2, <1>4, <1>5, <1>6 DEF h, p

-----------------------------------------------------------------------------
(* The invariant holds at the start and while the client acts *)

LEMMA InitInv == Init => Inv
<1> SUFFICES ASSUME Init PROVE Inv
  OBVIOUS
<1> USE MaxCallsAssumption, SizeAssumption, EmptySeq DEF Init
<1>1. toVm \in Pipe /\ toClient \in Pipe /\ got \in Seq(Byte) /\ vmGot \in Seq(Byte)
  BY DEF NewPair, Pipe
<1>2. /\ Len(toVm.offered) + Len(toVm.rest) <= Size
      /\ Len(toClient.offered) + Len(toClient.rest) <= Size
      /\ Len(got) < Size /\ Len(vmGot) <= Size
  <2>1. Len(<<>>) = 0
    BY EmptySeq
  <2>2. /\ toVm.offered = <<>> /\ toVm.rest = <<>>
        /\ toClient.offered = <<>> /\ toClient.rest = <<>>
    BY DEF NewPair
  <2> QED BY <2>1, <2>2
<1>3. ran \in [Calls -> Nat] /\ answer \in [Calls -> Answer]
  <2>1. 0 \in 0 .. MaxCalls
    OBVIOUS
  <2> DEFINE none == <<"none", 0>>
  <2>2. none \in Answer
    BY <2>1 DEF Answer
  <2>3. answer = [i \in Calls |-> none]
    OBVIOUS
  <2> HIDE DEF none
  <2>4. answer \in [Calls -> Answer]
    BY ONLY <2>2, <2>3
  <2>5. ran \in [Calls -> Nat]
    BY ONLY Init DEF Init
  <2> QED BY <2>4, <2>5
<1>4. TypeOK
  <2>1. client = "new" /\ vm = "new" /\ last \in BOOLEAN
    BY Zenon
  <2>2. call \in 0 .. MaxCalls
    BY ONLY Init, MaxCallsAssumption DEF Init
  <2> QED BY ONLY <1>1, <1>2, <1>3, <2>1, <2>2 DEF TypeOK
<1>5. Ends
  BY DEF Ends, NewPair
<1>6. CallsInOrder
  BY DEF CallsInOrder, Waiting, Calls
<1>7. RequestInStep /\ ResponseInStep
  BY DEF RequestInStep, RequestTaken, ResponseInStep, ResponseTaken, Unserved, Waiting, NewPair
<1> QED BY <1>4, <1>5, <1>6, <1>7 DEF Inv

\* Between calls nothing is on its way.
LEMMA NothingOnItsWay ==
  ASSUME Inv, ~ Waiting
  PROVE  /\ toVm.offered = <<>> /\ toVm.rest = <<>> /\ vmGot = <<>>
         /\ toClient.offered = <<>> /\ toClient.rest = <<>> /\ got = <<>>
         /\ vm # "serving"
  BY DEF Inv, RequestInStep, RequestTaken, ResponseInStep, ResponseTaken, Waiting

LEMMA ReturnFacts ==
  ASSUME TypeOK, NEW i \in Calls, NEW kind \in Returned, NEW of \in 0 .. MaxCalls,
         kind # "err" => of = i, Return(i, <<kind, of>>)
  PROVE  /\ client' = "idle" /\ got' = <<>>
         /\ answer' \in [Calls -> Answer]
         /\ AnswerOf(i)' = kind
         /\ \A j \in Calls : j # i => answer'[j] = answer[j] /\ AnswerOf(j)' = AnswerOf(j)
<1>1. answer' = [answer EXCEPT ![i] = <<kind, of>>] /\ <<kind, of>> \in Answer
  BY DEF Return, Answer, Returned
<1>2. /\ answer' \in [Calls -> Answer]
      /\ answer'[i] = <<kind, of>>
      /\ \A j \in Calls : j # i => answer'[j] = answer[j]
  BY <1>1 DEF TypeOK
<1> QED BY <1>2 DEF Return, AnswerOf, Returned

\* A call that returns leaves nothing on its way.
LEMMA ReturnInv ==
  ASSUME Inv, Waiting,
         NEW kind \in Returned, NEW of \in 0 .. MaxCalls, kind # "err" => of = call,
         Return(call, <<kind, of>>),
         UNCHANGED <<vm, vmGot, last, call, ran>>,
         toVm' \in Pipe, toClient' \in Pipe,
         toVm'.sender = toVm.sender, toVm'.receiver = toVm.receiver,
         toClient'.sender = toClient.sender, toClient'.receiver = toClient.receiver,
         toVm'.offered = <<>>, toVm'.rest = <<>>, vmGot = <<>>,
         toClient'.offered = <<>>, toClient'.rest = <<>>,
         vm # "serving"
  PROVE  Inv'
<1> USE DEF Inv
<1>1. call \in Calls
  BY DEF CallsInOrder
<1>2. /\ client' = "idle" /\ got' = <<>>
      /\ answer' \in [Calls -> Answer]
      /\ AnswerOf(call)' = kind
      /\ \A j \in Calls : j # call => answer'[j] = answer[j] /\ AnswerOf(j)' = AnswerOf(j)
  BY <1>1, ReturnFacts
<1>3. TypeOK'
  BY <1>2, SizeAssumption, EmptySeq DEF TypeOK
<1>4. Ends'
  BY <1>2 DEF Ends, Waiting
<1>5. CallsInOrder'
  <2>1. ~ Waiting'
    BY <1>2 DEF Waiting
  <2>2. ASSUME NEW i \in Calls
        PROVE  /\ ran'[i] \in {0, 1}
               /\ i > call' => ran'[i] = 0 /\ answer'[i] = <<"none", 0>>
               /\ i < call' \/ i = call' => AnswerOf(i)' \in Returned
    <3>1. i \in Nat /\ call \in Nat
      BY <1>1 DEF Calls
    <3> QED BY <1>2, <3>1 DEF CallsInOrder
  <2> QED BY <2>1, <2>2 DEF CallsInOrder
<1>6. RequestInStep' /\ ResponseInStep'
  BY <1>2, SizeAssumption, EmptySeq
  DEF RequestInStep, RequestTaken, ResponseInStep, ResponseTaken, Unserved, Waiting
<1> QED BY <1>3, <1>4, <1>5, <1>6

LEMMA SpawnServerInv == ASSUME Inv, SpawnServer PROVE Inv'
<1> USE DEF Inv, SpawnServer
<1>1. TypeOK'
  BY DEF TypeOK
<1>2. Ends'
  BY DEF Ends
<1>3. CallsInOrder'
  BY DEF CallsInOrder, Waiting, AnswerOf
<1>4. RequestInStep' /\ ResponseInStep'
  BY NothingOnItsWay DEF RequestInStep, RequestTaken, ResponseInStep, ResponseTaken, Unserved, Waiting
<1> QED BY <1>1, <1>2, <1>3, <1>4

LEMMA ClientCallInv == ASSUME Inv, ClientCall PROVE Inv'
<1> USE DEF Inv
<1> DEFINE packet == Packet("request", call + 1)
<1>1. /\ call \in Nat /\ call + 1 \in Calls /\ call' = call + 1
      /\ client = "idle" /\ ~ Waiting
      /\ UNCHANGED <<vm, toClient, vmGot, last, ran>>
  BY MaxCallsAssumption DEF ClientCall, TypeOK, Calls, Waiting
<1>2. /\ toVm.offered = <<>> /\ toVm.rest = <<>> /\ vmGot = <<>>
      /\ toClient.offered = <<>> /\ toClient.rest = <<>> /\ got = <<>>
      /\ vm # "serving"
  BY <1>1, NothingOnItsWay
<1>3. /\ ran[call + 1] = 0 /\ answer[call + 1] = <<"none", 0>>
      /\ \A i \in Calls : i <= call => AnswerOf(i) \in Returned
  BY <1>1 DEF CallsInOrder, Calls
<1>4. CASE /\ toVm' = [toVm EXCEPT !.offered = packet]
           /\ client' = "writing"
           /\ UNCHANGED <<answer, got>>
  <2>1. packet \in Seq(Byte) /\ Len(packet) = Size /\ packet # <<>>
    BY <1>1, PacketFacts DEF Calls
  <2> HIDE DEF packet
  <2>2. /\ toVm' \in Pipe /\ toVm'.offered = packet /\ toVm'.rest = <<>>
        /\ toVm'.sender = toVm.sender /\ toVm'.receiver = toVm.receiver
    BY <1>2, <1>4, <2>1 DEF TypeOK, Pipe
  <2>3. Len(toVm'.offered) + Len(toVm'.rest) <= Size
    BY <2>1, <2>2, SizeAssumption, EmptySeq
  <2>4. TypeOK'
    <3>1. call' \in 0 .. MaxCalls
      BY <1>1, MaxCallsAssumption DEF Calls
    <3> QED BY <1>1, <1>4, <2>2, <2>3, <3>1 DEF TypeOK
  <2>5. Ends'
    BY <1>1, <1>4, <2>2 DEF Ends
  <2>6. CallsInOrder'
    <3>1. ASSUME NEW i \in Calls
          PROVE  /\ ran'[i] \in {0, 1}
                 /\ i > call' => ran'[i] = 0 /\ answer'[i] = <<"none", 0>>
                 /\ i < call' => AnswerOf(i)' \in Returned
      <4>1. i \in Nat /\ (i < call' => i <= call) /\ (i > call' => i > call)
        BY <1>1 DEF Calls
      <4>2. AnswerOf(i)' = AnswerOf(i)
        BY <1>4 DEF AnswerOf
      <4> QED BY <1>1, <1>3, <1>4, <4>1, <4>2 DEF CallsInOrder
    <3> QED BY <1>1, <1>3, <1>4, <3>1 DEF CallsInOrder, Waiting
  <2>7. RequestInStep'
    BY <1>1, <1>2, <1>3, <1>4, <2>1, <2>2, SizeAssumption, EmptySeq
    DEF RequestInStep, RequestTaken, Waiting, packet
  <2>8. ResponseInStep'
    BY <1>1, <1>2, <1>4, <2>1, <2>2 DEF ResponseInStep, ResponseTaken, Unserved, Waiting
  <2> QED BY <2>4, <2>5, <2>6, <2>7, <2>8
<1>5. CASE Return(call + 1, <<"err", 0>>) /\ UNCHANGED toVm
  <2>1. PICK next \in Calls : next = call + 1
    BY <1>1
  <2>2. 0 \in 0 .. MaxCalls /\ next \in 0 .. MaxCalls
    BY MaxCallsAssumption DEF Calls
  <2>3. Return(next, <<"err", 0>>)
    BY <1>5, <2>1
  <2>4. /\ client' = "idle" /\ got' = <<>>
        /\ answer' \in [Calls -> Answer]
        /\ AnswerOf(next)' = "err"
        /\ \A j \in Calls : j # next => answer'[j] = answer[j] /\ AnswerOf(j)' = AnswerOf(j)
    BY <2>2, <2>3, ReturnFacts DEF Returned
  <2>5. TypeOK'
    <3>1. call' \in 0 .. MaxCalls
      BY <1>1, <2>1, <2>2
    <3>2. got' \in Seq(Byte) /\ Len(got') < Size
      BY <2>4, SizeAssumption, EmptySeq
    <3>3. client' \in {"new", "idle", "writing", "reading", "dropping", "ended"}
      BY <2>4
    <3> QED BY <1>1, <1>5, <2>4, <3>1, <3>2, <3>3 DEF TypeOK
  <2>6. Ends'
    BY <1>1, <1>5, <2>4 DEF Ends
  <2>7. CallsInOrder'
    <3>1. ASSUME NEW i \in Calls
          PROVE  /\ ran'[i] \in {0, 1}
                 /\ i > call' => ran'[i] = 0 /\ answer'[i] = <<"none", 0>>
                 /\ i < call' \/ i = call' => AnswerOf(i)' \in Returned
      <4>1. /\ i < call' => i <= call /\ i # next
            /\ i > call' => i > call /\ i # next
            /\ call' = next
        BY <1>1, <2>1 DEF Calls
      <4> QED BY <1>1, <1>3, <2>4, <4>1 DEF CallsInOrder, Returned
    <3> QED BY <2>4, <3>1 DEF CallsInOrder, Waiting
  <2>8. RequestInStep' /\ ResponseInStep'
    BY <1>1, <1>2, <1>5, <2>4, SizeAssumption, EmptySeq
    DEF RequestInStep, RequestTaken, ResponseInStep, ResponseTaken, Unserved, Waiting
  <2> QED BY <2>5, <2>6, <2>7, <2>8
<1> QED BY <1>4, <1>5 DEF ClientCall

LEMMA ClientSentInv == ASSUME Inv, ClientSent PROVE Inv'
<1> USE DEF Inv
<1>1. client = "writing" /\ Waiting /\ UNCHANGED <<vm, toClient, vmGot, last, call, ran>>
  BY DEF ClientSent, Waiting
<1>2. CASE toVm.offered = <<>> /\ client' = "reading" /\ UNCHANGED <<toVm, answer, got>>
  <2>1. TypeOK'
    BY <1>1, <1>2 DEF TypeOK
  <2>2. Ends'
    BY <1>1, <1>2 DEF Ends
  <2>3. CallsInOrder'
    BY <1>1, <1>2 DEF CallsInOrder, Waiting, AnswerOf
  <2>4. RequestInStep'
    BY <1>1, <1>2 DEF RequestInStep, RequestTaken, Waiting
  <2>5. ResponseInStep'
    BY <1>1, <1>2
    DEF ResponseInStep, ResponseTaken, Unserved, RequestTaken, Waiting, IsResponse, Up
  <2> QED BY <2>1, <2>2, <2>3, <2>4, <2>5
<1>3. CASE /\ toVm.offered # <<>> /\ ~ toVm.receiver
           /\ toVm' = [toVm EXCEPT !.offered = <<>>]
           /\ Return(call, <<"err", 0>>)
  <2>1. /\ toVm' \in Pipe /\ toVm'.offered = <<>> /\ toVm'.rest = toVm.rest
        /\ toVm'.sender = toVm.sender /\ toVm'.receiver = toVm.receiver
    BY <1>3, EmptySeq DEF TypeOK, Pipe
  <2>2. /\ vmGot = <<>> /\ toVm.rest = <<>> /\ ran[call] = 0
        /\ vm # "serving"
    BY <1>3 DEF RequestInStep, RequestTaken
  <2>3. toClient.offered = <<>> /\ toClient.rest = <<>>
    BY <1>3 DEF ResponseInStep, ResponseTaken, Unserved
  <2>4. toClient' \in Pipe
    BY <1>1 DEF TypeOK
  <2> QED
    BY <1>1, <1>3, <2>1, <2>2, <2>3, <2>4, ReturnInv, MaxCallsAssumption DEF Returned
<1> QED BY <1>2, <1>3 DEF ClientSent

\* What the client finds is the response, or the part of it that it lacks.
LEMMA ResponseFound ==
  ASSUME Inv, client = "reading", Available(toClient) # <<>>
  PROVE  /\ call \in Calls
         /\ IsResponse(got \o Available(toClient))
         /\ got \o Available(toClient) \in Seq(Byte)
         /\ Len(got \o Available(toClient)) = Size
         /\ toClient.rest # <<>> => toClient.offered = <<>>
         /\ toVm.offered = <<>> /\ toVm.rest = <<>> /\ vmGot = <<>> /\ vm # "serving"
<1> USE DEF Inv
<1>1. toClient.offered \in Seq(Byte) /\ got \in Seq(Byte)
  BY DEF TypeOK, Pipe
<1>2. toClient.rest # <<>> => toClient.offered = <<>>
  BY DEF ResponseInStep, ResponseTaken
<1>3. call \in Calls /\ ~ Unserved
  BY DEF ResponseInStep, ResponseTaken, Available, CallsInOrder, Waiting
<1>4. IsResponse(got \o Available(toClient))
  <2>1. CASE toClient.rest # <<>>
    BY <2>1 DEF ResponseInStep, ResponseTaken, Available
  <2>2. CASE toClient.rest = <<>>
    <3>1. Available(toClient) = toClient.offered /\ IsResponse(toClient.offered) /\ got = <<>>
      BY <2>2 DEF Available, ResponseInStep, ResponseTaken
    <3>2. <<>> \o toClient.offered = toClient.offered
      BY <1>1, ConcatEmptySeq
    <3> QED BY <3>1, <3>2
  <2> QED BY <2>1, <2>2
<1>5. call \in 0 .. MaxCalls /\ 0 \in 0 .. MaxCalls
  BY MaxCallsAssumption DEF TypeOK
<1>6. /\ got \o Available(toClient) \in Seq(Byte)
      /\ Len(got \o Available(toClient)) = Size
  BY <1>4, <1>5, PacketFacts DEF IsResponse
<1>7. toVm.offered = <<>> /\ toVm.rest = <<>> /\ vmGot = <<>> /\ vm # "serving"
  BY <1>3 DEF RequestInStep, RequestTaken, Unserved
<1> QED BY <1>2, <1>3, <1>4, <1>6, <1>7

\* Reading a part of it leaves the rest; the first byte tells what it is.
LEMMA ClientReadFacts ==
  ASSUME Inv, NEW n \in ReadSizes, ClientRead(n)
  PROVE  /\ toClient' \in Pipe
         /\ toClient'.sender = toClient.sender /\ toClient'.receiver = toClient.receiver
         /\ toClient'.offered = <<>>
         /\ got \o Taken(toClient, n) \in Seq(Byte)
         /\ got \o Taken(toClient, n) # <<>>
         /\ IsResponse((got \o Taken(toClient, n)) \o toClient'.rest)
         /\ Len(got \o Taken(toClient, n)) + Len(toClient'.rest) = Size
         /\ Len(got \o Taken(toClient, n)) >= Size => toClient'.rest = <<>>
         /\ \/ (got \o Taken(toClient, n))[1] = <<"value", call>> /\ ran[call] = 1
            \/ (got \o Taken(toClient, n))[1] = <<"error", 0>> /\ ~ Up
<1> DEFINE p == got \o Available(toClient)
           t == Taken(toClient, n)
           r == toClient'.rest
<1>1. /\ n \in Nat \ {0} /\ toClient \in Pipe /\ got \in Seq(Byte)
      /\ client = "reading" /\ Available(toClient) # <<>>
      /\ toClient' = AfterRead(toClient, n)
  BY ReadSizesAssumption DEF ClientRead, Inv, TypeOK
<1>2. /\ IsResponse(p) /\ Len(p) = Size /\ p \in Seq(Byte)
      /\ toClient.rest # <<>> => toClient.offered = <<>>
  BY <1>1, ResponseFound
<1>3. /\ t \in Seq(Byte) /\ t # <<>> /\ toClient' \in Pipe
      /\ t \o r = Available(toClient)
      /\ toClient'.offered = <<>>
      /\ toClient'.sender = toClient.sender /\ toClient'.receiver = toClient.receiver
  BY <1>1, <1>2, ReadFacts
<1>4. r \in Seq(Byte)
  BY <1>3 DEF Pipe
<1>5. p = got \o (t \o r)
  BY <1>3
<1> HIDE DEF p, t, r
<1>6. (p[1] = <<"value", call>> /\ ran[call] = 1) \/ (p[1] = <<"error", 0>> /\ ~ Up)
  <2>1. call \in 0 .. MaxCalls /\ 0 \in 0 .. MaxCalls
    BY MaxCallsAssumption DEF Inv, TypeOK
  <2>2. Packet("value", call)[1] = <<"value", call>> /\ Packet("error", 0)[1] = <<"error", 0>>
    BY <2>1, PacketFacts
  <2> QED BY <1>2, <2>2 DEF IsResponse
<1>7. /\ got \o t \in Seq(Byte) /\ got \o t # <<>>
      /\ (got \o t) \o r = p
      /\ (got \o t)[1] = p[1]
      /\ Len(got \o t) + Len(r) = Size
      /\ Len(got \o t) >= Size => r = <<>>
  <2>1. /\ got \in Seq(Byte) /\ t \in Seq(Byte) /\ r \in Seq(Byte) /\ t # <<>>
        /\ Len(got \o (t \o r)) = Size
    BY <1>1, <1>2, <1>3, <1>4, <1>5
  <2>2. /\ got \o t \in Seq(Byte) /\ got \o t # <<>>
        /\ (got \o t) \o r = got \o (t \o r)
        /\ (got \o t)[1] = (got \o (t \o r))[1]
        /\ Len(got \o t) + Len(r) = Size
        /\ Len(got \o t) >= Size => r = <<>>
    BY ONLY <2>1, JoinFacts
  <2> QED BY ONLY <1>5, <2>2
<1> QED BY <1>2, <1>3, <1>6, <1>7 DEF t, r

LEMMA ClientReadInv ==
  ASSUME Inv, NEW n \in ReadSizes, ClientRead(n) PROVE Inv'
<1> DEFINE bytes == got \o Taken(toClient, n)
<1>1. /\ toClient' \in Pipe
      /\ toClient'.sender = toClient.sender /\ toClient'.receiver = toClient.receiver
      /\ toClient'.offered = <<>>
      /\ bytes \in Seq(Byte) /\ bytes # <<>>
      /\ IsResponse(bytes \o toClient'.rest)
      /\ Len(bytes) + Len(toClient'.rest) = Size
      /\ Len(bytes) >= Size => toClient'.rest = <<>>
      /\ (bytes[1] = <<"value", call>> /\ ran[call] = 1) \/ (bytes[1] = <<"error", 0>> /\ ~ Up)
  BY ClientReadFacts
<1>2. /\ client = "reading" /\ Waiting /\ Available(toClient) # <<>>
      /\ UNCHANGED <<vm, toVm, vmGot, last, call, ran>>
  BY DEF ClientRead, Waiting
<1>3. /\ call \in Calls
      /\ toVm.offered = <<>> /\ toVm.rest = <<>> /\ vmGot = <<>> /\ vm # "serving"
  BY <1>2, ResponseFound
<1>4. \/ Len(bytes) < Size /\ got' = bytes /\ UNCHANGED <<client, answer>>
      \/ /\ Len(bytes) >= Size
         /\ \E kind \in Outcomes(bytes[1][1]) : Return(call, <<kind, bytes[1][2]>>)
  BY DEF ClientRead
<1> HIDE DEF bytes
<1> USE DEF Inv
<1>5. CASE Len(bytes) < Size /\ got' = bytes /\ UNCHANGED <<client, answer>>
  <2>1. TypeOK'
    <3>1. Len(toClient'.offered) + Len(toClient'.rest) <= Size
      <4>1. /\ Len(toClient'.offered) = 0 /\ Len(toClient'.rest) \in Nat /\ Len(bytes) \in Nat
            /\ Size \in Nat
        BY <1>1, EmptySeq, LenProperties, SizeAssumption DEF Pipe
      <4> QED BY <1>1, <4>1
    <3> QED BY <1>1, <1>2, <1>5, <3>1 DEF TypeOK
  <2>2. Ends'
    BY <1>1, <1>2, <1>5 DEF Ends
  <2>3. CallsInOrder'
    BY <1>2, <1>5 DEF CallsInOrder, Waiting, AnswerOf
  <2>4. RequestInStep'
    BY <1>2, <1>3, <1>5 DEF RequestInStep, RequestTaken, Waiting
  <2>5. ResponseInStep'
    <3>1. IsResponse(got \o toClient.rest)'
      <4>1. Up' = Up /\ call' = call /\ ran' = ran
        BY <1>2 DEF Up
      <4> QED BY <1>1, <1>5, <4>1 DEF IsResponse
    <3>2. client' = "reading" /\ ~ Unserved' /\ got' # <<>>
      BY <1>1, <1>2, <1>3, <1>5 DEF Unserved, RequestTaken
    <3> QED BY <1>1, <3>1, <3>2 DEF ResponseInStep, ResponseTaken, Waiting
  <2> QED BY <2>1, <2>2, <2>3, <2>4, <2>5
<1>6. CASE /\ Len(bytes) >= Size
           /\ \E kind \in Outcomes(bytes[1][1]) : Return(call, <<kind, bytes[1][2]>>)
  <2>1. toVm' \in Pipe /\ toClient'.rest = <<>> /\ call \in 0 .. MaxCalls /\ 0 \in 0 .. MaxCalls
    BY <1>1, <1>2, <1>6, MaxCallsAssumption DEF TypeOK
  <2>2. PICK kind \in Returned : /\ Return(call, <<kind, bytes[1][2]>>)
                                 /\ kind \in Outcomes(bytes[1][1])
    BY <1>6 DEF Outcomes, Returned
  <2>3. bytes[1][2] \in 0 .. MaxCalls /\ (kind # "err" => bytes[1][2] = call)
    BY <1>1, <2>1, <2>2 DEF Outcomes
  <2> QED BY <1>1, <1>2, <1>3, <2>1, <2>2, <2>3, ReturnInv
<1> QED BY <1>4, <1>5, <1>6

LEMMA ClientReadEndInv == ASSUME Inv, ClientReadEnd PROVE Inv'
<1> USE DEF Inv
<1>1. /\ client = "reading" /\ Waiting /\ Return(call, <<"err", 0>>)
      /\ toClient.rest = <<>> /\ toClient.offered = <<>> /\ ~ toClient.sender
      /\ UNCHANGED <<vm, toVm, toClient, vmGot, last, call, ran>>
  BY DEF ClientReadEnd, AtEnd, Available, Waiting
<1>2. vm = "ended" /\ toVm \in Pipe /\ toClient \in Pipe
  BY <1>1 DEF Ends, TypeOK
<1>3. toVm.offered = <<>> /\ toVm.rest = <<>> /\ vmGot = <<>>
  BY <1>1, <1>2 DEF RequestInStep, RequestTaken
<1>4. 0 \in 0 .. MaxCalls /\ "err" \in Returned
  BY MaxCallsAssumption DEF Returned
<1> QED BY <1>1, <1>2, <1>3, <1>4, ReturnInv

LEMMA ClientDropReaderInv == ASSUME Inv, ClientDropReader PROVE Inv'
<1> USE DEF Inv
<1>1. /\ client = "idle" /\ client' = "dropping" /\ ~ Waiting /\ ~ Waiting'
      /\ toClient' = [toClient EXCEPT !.receiver = FALSE]
      /\ UNCHANGED <<vm, toVm, got, vmGot, last, call, ran, answer>>
  BY DEF ClientDropReader, Waiting
<1>2. /\ toClient' \in Pipe /\ toClient'.receiver = FALSE /\ toClient'.sender = toClient.sender
      /\ toClient'.offered = toClient.offered /\ toClient'.rest = toClient.rest
  BY <1>1 DEF TypeOK, Pipe
<1>3. TypeOK'
  BY <1>1, <1>2 DEF TypeOK
<1>4. Ends'
  BY <1>1, <1>2 DEF Ends
<1>5. CallsInOrder'
  BY <1>1 DEF CallsInOrder, AnswerOf
<1>6. RequestInStep' /\ ResponseInStep'
  <2>1. /\ toVm.offered = <<>> /\ toVm.rest = <<>> /\ vmGot = <<>>
        /\ toClient.offered = <<>> /\ toClient.rest = <<>> /\ got = <<>>
        /\ vm # "serving"
    BY <1>1, NothingOnItsWay
  <2>2. vm = "reading" => Len(vmGot) < Size
    BY DEF RequestInStep
  <2>3. RequestInStep'
    BY <1>1, <1>2, <2>1, <2>2 DEF RequestInStep, RequestTaken
  <2>4. ResponseInStep'
    BY <1>1, <1>2, <2>1 DEF ResponseInStep, ResponseTaken
  <2> QED BY <2>3, <2>4
<1> QED BY <1>3, <1>4, <1>5, <1>6

LEMMA ClientDropWriterInv == ASSUME Inv, ClientDropWriter PROVE Inv'
<1> USE DEF Inv
<1>1. /\ client = "dropping" /\ client' = "ended" /\ ~ Waiting /\ ~ Waiting'
      /\ toVm' = [toVm EXCEPT !.sender = FALSE]
      /\ UNCHANGED <<vm, toClient, got, vmGot, last, call, ran, answer>>
  BY DEF ClientDropWriter, Waiting
<1>2. /\ toVm' \in Pipe /\ toVm'.sender = FALSE /\ toVm'.receiver = toVm.receiver
      /\ toVm'.offered = toVm.offered /\ toVm'.rest = toVm.rest
  BY <1>1 DEF TypeOK, Pipe
<1>3. TypeOK'
  BY <1>1, <1>2 DEF TypeOK
<1>4. Ends'
  BY <1>1, <1>2 DEF Ends
<1>5. CallsInOrder'
  BY <1>1 DEF CallsInOrder, AnswerOf
<1>6. RequestInStep' /\ ResponseInStep'
  <2>1. /\ toVm.offered = <<>> /\ toVm.rest = <<>> /\ vmGot = <<>>
        /\ toClient.offered = <<>> /\ toClient.rest = <<>> /\ got = <<>>
        /\ vm # "serving"
    BY <1>1, NothingOnItsWay
  <2>2. vm = "reading" => Len(vmGot) < Size
    BY DEF RequestInStep
  <2>3. RequestInStep'
    BY <1>1, <1>2, <2>1, <2>2 DEF RequestInStep, RequestTaken
  <2>4. ResponseInStep'
    BY <1>1, <1>2, <2>1 DEF ResponseInStep, ResponseTaken
  <2> QED BY <2>3, <2>4
<1> QED BY <1>3, <1>4, <1>5, <1>6

-----------------------------------------------------------------------------
(* The invariant holds while the machine acts *)

LEMMA VmLoadInv == ASSUME Inv, VmLoad PROVE Inv'
<1> USE DEF Inv
<1>1. /\ vm = "loading" /\ vm' \in {"reading", "dropping"}
      /\ UNCHANGED <<client, toVm, toClient, got, vmGot, last, call, ran, answer>>
  BY DEF VmLoad
<1>2. ~ RequestTaken /\ vmGot = <<>> /\ Len(vmGot) < Size
  BY <1>1, SizeAssumption, EmptySeq DEF RequestInStep, RequestTaken
<1>3. TypeOK'
  BY <1>1 DEF TypeOK
<1>4. Ends'
  BY <1>1 DEF Ends
<1>5. CallsInOrder'
  BY <1>1 DEF CallsInOrder, Waiting, AnswerOf
<1>6. RequestInStep'
  BY <1>1, <1>2 DEF RequestInStep, RequestTaken, Waiting
<1>7. ResponseInStep'
  <2>1. Up /\ toClient.offered = <<>>
    BY <1>1 DEF Up, ResponseInStep
  <2>2. ResponseTaken => IsResponse(got \o toClient.rest)'
    BY <1>1, <2>1 DEF ResponseInStep, IsResponse
  <2> QED BY <1>1, <2>1, <2>2
      DEF ResponseInStep, ResponseTaken, Unserved, RequestTaken, Waiting
<1> QED BY <1>3, <1>4, <1>5, <1>6, <1>7

\* What the script finds is the request, or the part of it that it lacks.
LEMMA VmReadFacts ==
  ASSUME Inv, NEW n \in ReadSizes, VmRead(n)
  PROVE  /\ toVm' \in Pipe
         /\ toVm'.sender = toVm.sender /\ toVm'.receiver = toVm.receiver
         /\ toVm'.offered = <<>>
         /\ vmGot' \in Seq(Byte) /\ vmGot' # <<>>
         /\ vmGot' \o toVm'.rest = Packet("request", call)
         /\ Len(vmGot') + Len(toVm'.rest) = Size
         /\ Len(vmGot') >= Size => toVm'.rest = <<>>
         /\ Waiting /\ ran[call] = 0
<1> DEFINE p == Packet("request", call)
           t == Taken(toVm, n)
           r == toVm'.rest
<1>1. /\ n \in Nat \ {0} /\ toVm \in Pipe /\ vmGot \in Seq(Byte)
      /\ Available(toVm) # <<>> /\ toVm' = AfterRead(toVm, n)
      /\ vmGot' = vmGot \o t
  BY ReadSizesAssumption DEF VmRead, Inv, TypeOK
<1>2. /\ toVm.rest # <<>> => toVm.offered = <<>>
      /\ Waiting /\ ran[call] = 0
      /\ vmGot \o Available(toVm) = p
  <2>1. CASE toVm.rest # <<>>
    BY <2>1 DEF Inv, RequestInStep, RequestTaken, Available
  <2>2. CASE toVm.rest = <<>>
    <3>1. /\ Available(toVm) = toVm.offered /\ toVm.offered = p /\ vmGot = <<>>
          /\ client = "writing" /\ ran[call] = 0
      BY <1>1, <2>2 DEF Inv, RequestInStep, RequestTaken, Available
    <3>2. <<>> \o toVm.offered = toVm.offered
      BY <1>1, ConcatEmptySeq DEF Pipe
    <3> QED BY <2>2, <3>1, <3>2 DEF Waiting
  <2> QED BY <2>1, <2>2
<1>3. Len(p) = Size
  BY PacketFacts DEF Inv, TypeOK
<1>4. /\ t \in Seq(Byte) /\ t # <<>> /\ toVm' \in Pipe
      /\ t \o r = Available(toVm)
      /\ toVm'.offered = <<>>
      /\ toVm'.sender = toVm.sender /\ toVm'.receiver = toVm.receiver
  BY <1>1, <1>2, ReadFacts
<1>5. r \in Seq(Byte) /\ p = vmGot \o (t \o r)
  BY <1>2, <1>4 DEF Pipe
<1> HIDE DEF p, t, r
<1>6. /\ vmGot \o t \in Seq(Byte) /\ vmGot \o t # <<>>
      /\ (vmGot \o t) \o r = p
      /\ Len(vmGot \o t) + Len(r) = Size
      /\ Len(vmGot \o t) >= Size => r = <<>>
  <2>1. /\ vmGot \in Seq(Byte) /\ t \in Seq(Byte) /\ r \in Seq(Byte) /\ t # <<>>
        /\ Len(vmGot \o (t \o r)) = Size
    BY <1>1, <1>3, <1>4, <1>5
  <2>2. /\ vmGot \o t \in Seq(Byte) /\ vmGot \o t # <<>>
        /\ (vmGot \o t) \o r = vmGot \o (t \o r)
        /\ Len(vmGot \o t) + Len(r) = Size
        /\ Len(vmGot \o t) >= Size => r = <<>>
    BY ONLY <2>1, JoinFacts
  <2> QED BY ONLY <1>5, <2>2
<1> QED BY <1>1, <1>2, <1>4, <1>6 DEF p, r

LEMMA VmReadInv ==
  ASSUME Inv, NEW n \in ReadSizes, VmRead(n) PROVE Inv'
<1>1. /\ toVm' \in Pipe
      /\ toVm'.sender = toVm.sender /\ toVm'.receiver = toVm.receiver
      /\ toVm'.offered = <<>>
      /\ vmGot' \in Seq(Byte) /\ vmGot' # <<>>
      /\ vmGot' \o toVm'.rest = Packet("request", call)
      /\ Len(vmGot') + Len(toVm'.rest) = Size
      /\ Len(vmGot') >= Size => toVm'.rest = <<>>
      /\ Waiting /\ ran[call] = 0
  BY VmReadFacts
<1>2. /\ vm = "reading" /\ vm' = IF Len(vmGot') >= Size THEN "serving" ELSE "reading"
      /\ UNCHANGED <<client, toClient, got, last, call, ran, answer>>
  BY DEF VmRead
<1> USE DEF Inv
<1>3. /\ Len(toVm'.offered) + Len(toVm'.rest) <= Size /\ Len(vmGot') <= Size
      /\ Len(vmGot') \in Nat
  <2>1. /\ Len(toVm'.offered) = 0 /\ Len(toVm'.rest) \in Nat /\ Len(vmGot') \in Nat
        /\ Size \in Nat
    BY <1>1, EmptySeq, LenProperties, SizeAssumption DEF Pipe
  <2> QED BY <1>1, <2>1
<1>4. TypeOK'
  BY <1>1, <1>2, <1>3 DEF TypeOK
<1>5. Ends'
  BY <1>1, <1>2 DEF Ends
<1>6. CallsInOrder'
  BY <1>2 DEF CallsInOrder, Waiting, AnswerOf
<1>7. RequestInStep'
  <2>1. CASE Len(vmGot') >= Size
    BY <1>1, <1>2, <2>1 DEF RequestInStep, RequestTaken, Waiting
  <2>2. CASE ~ (Len(vmGot') >= Size)
    <3>1. Len(vmGot') < Size /\ vm' = "reading"
      BY <1>2, <1>3, <2>2, SizeAssumption
    <3> QED BY <1>1, <1>2, <3>1 DEF RequestInStep, RequestTaken, Waiting
  <2> QED BY <2>1, <2>2
<1>8. ResponseInStep'
  <2>1. Unserved /\ Unserved'
    BY <1>1, VmReadFacts DEF Unserved, RequestTaken, VmRead, Available
  <2> QED BY <1>1, <1>2, <2>1 DEF ResponseInStep, ResponseTaken, Waiting
<1> QED BY <1>4, <1>5, <1>6, <1>7, <1>8

LEMMA VmReadEndInv == ASSUME Inv, VmReadEnd PROVE Inv'
<1> USE DEF Inv
<1>1. /\ vm = "reading" /\ vm' = "failing" /\ toVm.sender = FALSE
      /\ UNCHANGED <<client, toVm, toClient, got, vmGot, last, call, ran, answer>>
  BY DEF VmReadEnd, AtEnd, TypeOK, Pipe
<1>2. client = "ended" /\ ~ Waiting
  BY <1>1 DEF Ends, Waiting
<1>3. TypeOK'
  BY <1>1 DEF TypeOK
<1>4. Ends'
  BY <1>1, <1>2 DEF Ends
<1>5. CallsInOrder'
  BY <1>1 DEF CallsInOrder, Waiting, AnswerOf
<1>6. RequestInStep' /\ ResponseInStep'
  <2>1. /\ toVm.offered = <<>> /\ toVm.rest = <<>> /\ vmGot = <<>>
        /\ toClient.offered = <<>> /\ toClient.rest = <<>> /\ got = <<>>
    BY <1>2, NothingOnItsWay
  <2> QED BY <1>1, <1>2, <2>1
      DEF RequestInStep, RequestTaken, ResponseInStep, ResponseTaken, Unserved, Waiting
<1> QED BY <1>3, <1>4, <1>5, <1>6

\* A request that is whole is the one of the open call.
LEMMA ServeFacts ==
  ASSUME Inv, vm = "serving"
  PROVE  /\ call \in Calls /\ vmGot[1][2] = call
         /\ Waiting /\ ran[call] = 0
         /\ toClient.receiver = TRUE
         /\ toVm.offered = <<>> /\ toVm.rest = <<>>
         /\ toClient.offered = <<>> /\ toClient.rest = <<>> /\ got = <<>>
<1> USE DEF Inv
<1>1. /\ Waiting /\ ran[call] = 0 /\ toVm.rest = <<>> /\ toVm.offered = <<>>
      /\ vmGot \o <<>> = Packet("request", call)
  BY DEF RequestInStep, RequestTaken
<1>2. call \in 0 .. MaxCalls /\ vmGot \in Seq(Byte)
  BY DEF TypeOK
<1>3. vmGot = Packet("request", call)
  BY <1>1, <1>2, ConcatEmptySeq
<1>4. vmGot[1] = <<"request", call>>
  BY <1>2, <1>3, PacketFacts
<1>5. call \in Calls
  BY <1>1 DEF CallsInOrder
<1>6. toClient.receiver = TRUE
  BY <1>1 DEF Ends, Waiting
<1>7. toClient.offered = <<>> /\ toClient.rest = <<>> /\ got = <<>>
  BY DEF RequestInStep, ResponseInStep, ResponseTaken, Unserved, RequestTaken
<1> QED BY <1>1, <1>4, <1>5, <1>6, <1>7

LEMMA VmServeInv == ASSUME Inv, VmServe \/ VmRefuse PROVE Inv'
<1> DEFINE value == Packet("value", call)
           error == Packet("error", 0)
<1>1. /\ call \in Calls /\ vmGot[1][2] = call
      /\ Waiting /\ ran[call] = 0
      /\ toClient.receiver = TRUE
      /\ toVm.offered = <<>> /\ toVm.rest = <<>>
      /\ toClient.offered = <<>> /\ toClient.rest = <<>> /\ got = <<>>
  BY ServeFacts DEF VmServe, VmRefuse
<1>2. /\ vm = "serving" /\ vmGot' = <<>>
      /\ ran' = ran \/ ran' = [ran EXCEPT ![call] = @ + 1]
      /\ UNCHANGED <<client, toVm, got, call, answer>>
  BY <1>1 DEF VmServe, VmRefuse
<1>3. \/ /\ toClient' = [toClient EXCEPT !.offered = value]
         /\ vm' = "writing" /\ last' = FALSE
         /\ ran' = [ran EXCEPT ![call] = @ + 1]
      \/ /\ toClient' = [toClient EXCEPT !.offered = error]
         /\ vm' = "writing" /\ last' = TRUE
      \/ vm' = "dropping" /\ UNCHANGED <<toClient, last>>
  BY <1>1 DEF VmServe, VmRefuse, VmSend
<1>4. /\ value \in Seq(Byte) /\ Len(value) = Size /\ value # <<>>
      /\ error \in Seq(Byte) /\ Len(error) = Size /\ error # <<>>
  <2>1. call \in 0 .. MaxCalls /\ 0 \in 0 .. MaxCalls
    BY MaxCallsAssumption DEF Inv, TypeOK
  <2> QED BY <2>1, PacketFacts
<1> USE DEF Inv
<1>5. /\ ran' \in [Calls -> Nat] /\ ran'[call] \in {0, 1}
      /\ ran' = [ran EXCEPT ![call] = @ + 1] => ran'[call] = 1
      /\ \A i \in Calls : i # call => ran'[i] = ran[i]
  BY <1>1, <1>2 DEF TypeOK
<1>6. /\ toClient' \in Pipe
      /\ toClient'.sender = toClient.sender /\ toClient'.receiver = toClient.receiver
      /\ toClient'.rest = <<>>
      /\ \/ /\ toClient'.offered = value /\ vm' = "writing" /\ last' = FALSE
            /\ ran' = [ran EXCEPT ![call] = @ + 1]
         \/ toClient'.offered = error /\ vm' = "writing" /\ last' = TRUE
         \/ toClient'.offered = <<>> /\ vm' = "dropping" /\ last' = last
  <2> HIDE DEF value, error
  <2>1. toClient \in Pipe
    BY DEF TypeOK
  <2> QED BY ONLY <1>1, <1>3, <1>4, <2>1 DEF Pipe
<1> HIDE DEF value, error
<1>7. TypeOK'
  <2>1. Len(toClient'.offered) + Len(toClient'.rest) <= Size /\ Len(vmGot') <= Size
    BY <1>2, <1>4, <1>6, SizeAssumption, EmptySeq
  <2>2. vmGot' \in Seq(Byte) /\ last' \in BOOLEAN
    BY <1>2, <1>6, EmptySeq DEF TypeOK
  <2> QED BY <1>2, <1>5, <1>6, <2>1, <2>2 DEF TypeOK
<1>8. Ends'
  BY <1>1, <1>2, <1>6 DEF Ends, Waiting
<1>9. CallsInOrder'
  <2>1. ASSUME NEW i \in Calls
        PROVE  /\ ran'[i] \in {0, 1}
               /\ i > call => ran'[i] = 0
    <3>1. i > call => i # call
      BY <1>1 DEF Calls
    <3> QED BY <1>5, <3>1 DEF CallsInOrder
  <2> QED BY <1>1, <1>2, <2>1 DEF CallsInOrder, Waiting, AnswerOf
<1>10. RequestInStep'
  BY <1>1, <1>2, <1>5, <1>6 DEF RequestInStep, RequestTaken, Waiting
<1>11. ResponseInStep'
  <2>1. ~ ResponseTaken' /\ Waiting' /\ ~ Unserved'
    BY <1>1, <1>2, <1>6 DEF ResponseTaken, Waiting, Unserved, RequestTaken
  <2>2. toClient'.offered # <<>> => IsResponse(toClient.offered)' /\ vm' = "writing"
    BY <1>2, <1>5, <1>6 DEF IsResponse, Up, value, error
  <2>3. toClient'.offered = <<>> => vm' = "dropping"
    BY <1>4, <1>6
  <2> QED BY <2>1, <2>2, <2>3 DEF ResponseInStep
<1> QED BY <1>7, <1>8, <1>9, <1>10, <1>11

\* Nobody is left to read a report that a request was incomplete.
LEMMA VmNotifyInv == ASSUME Inv, VmNotify PROVE Inv'
<1> USE DEF Inv
<1>1. /\ vm = "failing" /\ client = "ended" /\ ~ Waiting
  BY DEF VmNotify, Ends, Waiting
<1>2. toClient.receiver = FALSE
  BY <1>1 DEF Ends
<1>3. /\ vm' = "dropping" /\ last' = TRUE
      /\ UNCHANGED <<client, toVm, toClient, got, vmGot, call, ran, answer>>
  BY <1>2 DEF VmNotify, VmSend
<1>4. TypeOK'
  BY <1>3 DEF TypeOK
<1>5. Ends'
  BY <1>1, <1>3 DEF Ends
<1>6. CallsInOrder'
  BY <1>3 DEF CallsInOrder, Waiting, AnswerOf
<1>7. RequestInStep' /\ ResponseInStep'
  <2>1. /\ toVm.offered = <<>> /\ toVm.rest = <<>> /\ vmGot = <<>>
        /\ toClient.offered = <<>> /\ toClient.rest = <<>> /\ got = <<>>
    BY <1>1, NothingOnItsWay
  <2> QED BY <1>1, <1>3, <2>1
      DEF RequestInStep, RequestTaken, ResponseInStep, ResponseTaken, Unserved, Waiting
<1> QED BY <1>4, <1>5, <1>6, <1>7

LEMMA VmSentInv == ASSUME Inv, VmSent PROVE Inv'
<1> USE DEF Inv
<1>1. /\ vm = "writing"
      /\ UNCHANGED <<client, toVm, got, vmGot, last, call, ran, answer>>
  BY DEF VmSent
<1>2. /\ toClient.offered = <<>>
      /\ vm' = IF last THEN "dropping" ELSE "reading"
      /\ UNCHANGED toClient
  <2>1. ~ (toClient.offered # <<>> /\ ~ toClient.receiver)
    BY DEF ResponseInStep, Ends, Waiting
  <2> QED BY <2>1 DEF VmSent
<1>3. ~ RequestTaken /\ vmGot = <<>> /\ Len(vmGot) < Size
  BY <1>1, SizeAssumption, EmptySeq DEF RequestInStep, RequestTaken
<1>4. TypeOK'
  BY <1>1, <1>2 DEF TypeOK
<1>5. Ends'
  BY <1>1, <1>2 DEF Ends
<1>6. CallsInOrder'
  BY <1>1 DEF CallsInOrder, Waiting, AnswerOf
<1>7. RequestInStep'
  BY <1>1, <1>2, <1>3 DEF RequestInStep, RequestTaken, Waiting
<1>8. ResponseInStep'
  <2>1. ResponseTaken => IsResponse(got \o toClient.rest)'
    BY <1>1, <1>2 DEF ResponseInStep, IsResponse, Up
  <2> QED BY <1>1, <1>2, <2>1
      DEF ResponseInStep, ResponseTaken, Unserved, RequestTaken, Waiting
<1> QED BY <1>4, <1>5, <1>6, <1>7, <1>8

LEMMA VmDropReaderInv == ASSUME Inv, VmDropReader PROVE Inv'
<1> USE DEF Inv
<1>1. /\ vm = "dropping" /\ vm' = "closing"
      /\ toVm' = [toVm EXCEPT !.receiver = FALSE, !.rest = <<>>]
      /\ UNCHANGED <<client, toClient, got, vmGot, last, call, ran, answer>>
  BY DEF VmDropReader
<1>2. toVm.rest = <<>> /\ vmGot = <<>>
  BY <1>1 DEF RequestInStep, RequestTaken
<1>3. /\ toVm' \in Pipe /\ toVm'.receiver = FALSE /\ toVm'.sender = toVm.sender
      /\ toVm'.offered = toVm.offered /\ toVm'.rest = toVm.rest
  BY <1>1, <1>2, EmptySeq DEF TypeOK, Pipe
<1>4. TypeOK'
  BY <1>1, <1>3 DEF TypeOK
<1>5. Ends'
  BY <1>1, <1>3 DEF Ends
<1>6. CallsInOrder'
  BY <1>1 DEF CallsInOrder, Waiting, AnswerOf
<1>7. RequestInStep'
  BY <1>1, <1>2, <1>3 DEF RequestInStep, RequestTaken, Waiting
<1>8. ResponseInStep'
  BY <1>1, <1>2, <1>3
  DEF ResponseInStep, ResponseTaken, Unserved, RequestTaken, IsResponse, Up, Waiting
<1> QED BY <1>4, <1>5, <1>6, <1>7, <1>8

LEMMA VmDropWriterInv == ASSUME Inv, VmDropWriter PROVE Inv'
<1> USE DEF Inv
<1>1. /\ vm = "closing" /\ vm' = "ended"
      /\ toClient' = [toClient EXCEPT !.sender = FALSE]
      /\ UNCHANGED <<client, toVm, got, vmGot, last, call, ran, answer>>
  BY DEF VmDropWriter
<1>2. /\ toClient' \in Pipe /\ toClient'.sender = FALSE
      /\ toClient'.receiver = toClient.receiver
      /\ toClient'.offered = toClient.offered /\ toClient'.rest = toClient.rest
  BY <1>1 DEF TypeOK, Pipe
<1>3. TypeOK'
  BY <1>1, <1>2 DEF TypeOK
<1>4. Ends'
  BY <1>1, <1>2 DEF Ends
<1>5. CallsInOrder'
  BY <1>1 DEF CallsInOrder, Waiting, AnswerOf
<1>6. RequestInStep'
  BY <1>1 DEF RequestInStep, RequestTaken, Waiting
<1>7. ResponseInStep'
  BY <1>1, <1>2
  DEF ResponseInStep, ResponseTaken, Unserved, RequestTaken, IsResponse, Up, Waiting
<1> QED BY <1>3, <1>4, <1>5, <1>6, <1>7

-----------------------------------------------------------------------------
(* The theorems *)

LEMMA StepInv == Inv /\ [Next]_vars => Inv'
<1> SUFFICES ASSUME Inv, [Next]_vars PROVE Inv'
  OBVIOUS
<1>1. CASE ClientStep
  BY <1>1, SpawnServerInv, ClientCallInv, ClientSentInv, ClientReadInv, ClientReadEndInv,
     ClientDropReaderInv, ClientDropWriterInv
  DEF ClientStep, ClientWaits
<1>2. CASE VmStep
  BY <1>2, VmLoadInv, VmReadInv, VmReadEndInv, VmServeInv, VmNotifyInv, VmSentInv,
     VmDropReaderInv, VmDropWriterInv
  DEF VmStep
<1>3. CASE UNCHANGED vars
  BY <1>3
  DEF vars, Inv, TypeOK, Ends, CallsInOrder, RequestInStep, RequestTaken, ResponseInStep,
      ResponseTaken, Unserved, IsResponse, Up, Waiting, AnswerOf
<1> QED BY <1>1, <1>2, <1>3 DEF Next, Terminated

LEMMA Invariance == Spec => []Inv
  BY InitInv, StepInv, PTL DEF Spec

\* Every variable keeps its type: a blocked send and a reader's buffer never
\* hold more than one packet together.
THEOREM TypeCorrect == Spec => []TypeOK
<1>1. Inv => TypeOK
  BY DEF Inv
<1> QED BY <1>1, Invariance, PTL

LEMMA RequestStaysWhole == Inv => RequestWhole
<1> SUFFICES ASSUME Inv PROVE RequestWhole
  OBVIOUS
<1> USE DEF Inv
<1>1. toVm.rest \in Seq(Byte) /\ toVm.offered \in Seq(Byte) /\ vmGot \in Seq(Byte)
  BY DEF TypeOK, Pipe
<1>2. CASE toVm.offered # <<>>
  <2>1. /\ vmGot = <<>> /\ toVm.rest = <<>>
        /\ toVm.offered = Packet("request", call)
    BY <1>2 DEF RequestInStep, RequestTaken
  <2>2. <<>> \o <<>> = <<>> /\ <<>> \o toVm.offered = toVm.offered
    BY <1>1, EmptySeq, ConcatEmptySeq
  <2> QED BY <2>1, <2>2 DEF RequestWhole
<1>3. CASE toVm.offered = <<>>
  <2>1. vmGot \o toVm.rest \in Seq(Byte)
    BY <1>1, ConcatProperties
  <2>2. vmGot \o toVm.rest \o <<>> = vmGot \o toVm.rest
    BY <2>1, ConcatEmptySeq
  <2>3. CASE RequestTaken
    BY <1>3, <2>2, <2>3 DEF RequestInStep, RequestWhole
  <2>4. CASE ~ RequestTaken
    <3>1. vmGot \o toVm.rest = <<>>
      BY <1>1, <2>4, ConcatEmptySeq, EmptySeq DEF RequestTaken
    <3> QED BY <1>3, <2>2, <3>1 DEF RequestWhole
  <2> QED BY <2>3, <2>4
<1> QED BY <1>2, <1>3

LEMMA ResponseStaysWhole == Inv => ResponseWhole
<1> SUFFICES ASSUME Inv PROVE ResponseWhole
  OBVIOUS
<1> USE DEF Inv
<1>1. toClient.rest \in Seq(Byte) /\ toClient.offered \in Seq(Byte) /\ got \in Seq(Byte)
  BY DEF TypeOK, Pipe
<1>2. ASSUME NEW bytes, IsResponse(bytes)
      PROVE  \E what \in {"value", "error"} : \E i \in {0, call} : bytes = Packet(what, i)
  BY <1>2 DEF IsResponse
<1>3. CASE toClient.offered # <<>>
  <2>1. got = <<>> /\ toClient.rest = <<>> /\ IsResponse(toClient.offered)
    BY <1>3 DEF ResponseInStep, ResponseTaken
  <2>2. <<>> \o <<>> = <<>> /\ <<>> \o toClient.offered = toClient.offered
    BY <1>1, EmptySeq, ConcatEmptySeq
  <2>3. got \o toClient.rest \o toClient.offered = toClient.offered
    BY <2>1, <2>2
  <2> QED BY <1>2, <2>1, <2>3 DEF ResponseWhole
<1>4. CASE toClient.offered = <<>>
  <2>1. got \o toClient.rest \in Seq(Byte)
    BY <1>1, ConcatProperties
  <2>2. got \o toClient.rest \o toClient.offered = got \o toClient.rest
    BY <1>4, <2>1, ConcatEmptySeq
  <2>3. CASE ResponseTaken
    <3>1. IsResponse(got \o toClient.rest)
      BY <2>3 DEF ResponseInStep
    <3> QED BY <1>2, <2>2, <3>1 DEF ResponseWhole
  <2>4. CASE ~ ResponseTaken
    <3>1. got \o toClient.rest = <<>>
      BY <1>1, <2>4, ConcatEmptySeq, EmptySeq DEF ResponseTaken
    <3> QED BY <2>2, <3>1 DEF ResponseWhole
  <2> QED BY <2>3, <2>4
<1> QED BY <1>3, <1>4

\* Between a write and the reads that take it apart no byte of a packet is
\* lost, doubled or mixed with another's, wherever the reads cut it.
THEOREM PacketsAreWhole == Spec => []PacketsWhole
<1>1. Inv => PacketsWhole
  BY RequestStaysWhole, ResponseStaysWhole DEF PacketsWhole
<1> QED BY <1>1, Invariance, PTL

-----------------------------------------------------------------------------
(* The session implements Rpc *)

\* A return of the open call maps to one of the three answers.
LEMMA ReturnRefines ==
  ASSUME Inv, Waiting, NEW kind \in Returned, NEW of \in 0 .. MaxCalls,
         kind # "err" => of = call /\ ran[call] = 1,
         kind = "err" => ~ Up,
         Return(call, <<kind, of>>),
         UNCHANGED <<vm, last, call, ran>>
  PROVE  Promise!AnswerOk \/ Promise!AnswerUnread \/ Promise!AnswerErr
<1> DEFINE kinds == [i \in Calls |-> AnswerOf(i)]
<1>1. /\ call \in Calls /\ call > 0
      /\ AnswerOf(call) = "none"
  BY DEF Inv, CallsInOrder, Calls, AnswerOf
<1>2. /\ AnswerOf(call)' = kind
      /\ \A j \in Calls : j # call => AnswerOf(j)' = AnswerOf(j)
  BY <1>1, ReturnFacts DEF Inv
<1>3. kinds' = [kinds EXCEPT ![call] = kind]
  BY <1>1, <1>2
<1>4. Promise!Open
  BY <1>1 DEF Promise!Open
<1>5. CASE kind = "ok"
  BY <1>3, <1>4, <1>5 DEF Promise!AnswerOk
<1>6. CASE kind = "err"
  BY <1>3, <1>4, <1>6 DEF Promise!AnswerErr, Up
<1>7. CASE kind = "unread"
  BY <1>3, <1>4, <1>7 DEF Promise!AnswerUnread
<1> QED BY <1>5, <1>6, <1>7 DEF Returned

\* Initial states map to initial states.
LEMMA InitRefines == Init => Promise!Init
  BY DEF Init, Promise!Init, Promise!Calls, Calls, AnswerOf

LEMMA CallRefines == ASSUME Inv, ClientCall PROVE Promise!Issue
<1> DEFINE kinds == [i \in Calls |-> AnswerOf(i)]
<1>1. /\ call \in Nat /\ call < MaxCalls /\ call' = call + 1
      /\ ~ Waiting
      /\ UNCHANGED <<vm, last, ran>>
  BY MaxCallsAssumption DEF ClientCall, Inv, TypeOK, Waiting
<1>2. PICK next \in Calls : next = call + 1
  BY <1>1, MaxCallsAssumption DEF Calls
<1>3. ~ Promise!Open
  <2>1. call > 0 => call \in Calls /\ AnswerOf(call) \in Returned
    <3>1. call > 0 => call \in Calls
      BY <1>1, MaxCallsAssumption DEF Calls
    <3>2. call \in Calls => AnswerOf(call) \in Returned
      BY <1>1 DEF Inv, CallsInOrder
    <3> QED BY <3>1, <3>2
  <2> QED BY <2>1 DEF Promise!Open, Returned
<1>4. kinds' = kinds \/ kinds' = [kinds EXCEPT ![next] = "err"]
  <2>1. CASE UNCHANGED answer
    BY <2>1 DEF AnswerOf
  <2>2. CASE Return(next, <<"err", 0>>)
    <3>1. 0 \in 0 .. MaxCalls
      BY MaxCallsAssumption
    <3>2. /\ AnswerOf(next)' = "err"
          /\ \A j \in Calls : j # next => AnswerOf(j)' = AnswerOf(j)
      BY <2>2, <3>1, ReturnFacts DEF Inv, Returned
    <3> QED BY <3>2
  <2> QED BY <1>2, <2>1, <2>2 DEF ClientCall
<1> QED BY <1>1, <1>2, <1>3, <1>4 DEF Promise!Issue

LEMMA ReadRefines ==
  ASSUME Inv, NEW n \in ReadSizes, ClientRead(n)
  PROVE  \/ Promise!AnswerOk \/ Promise!AnswerUnread \/ Promise!AnswerErr
         \/ UNCHANGED Promise!abstractVars
<1> DEFINE bytes == got \o Taken(toClient, n)
<1>1. \/ bytes[1] = <<"value", call>> /\ ran[call] = 1
      \/ bytes[1] = <<"error", 0>> /\ ~ Up
  BY ClientReadFacts
<1>2. /\ client = "reading" /\ Waiting
      /\ UNCHANGED <<vm, last, call, ran>>
      /\ Available(toClient) # <<>>
      /\ \/ UNCHANGED answer
         \/ \E kind \in Outcomes(bytes[1][1]) : Return(call, <<kind, bytes[1][2]>>)
  BY DEF ClientRead, Waiting
<1>3. call \in 0 .. MaxCalls /\ 0 \in 0 .. MaxCalls
  BY MaxCallsAssumption DEF Inv, TypeOK
<1> HIDE DEF bytes
<1>4. CASE UNCHANGED answer
  BY <1>2, <1>4 DEF Promise!abstractVars, AnswerOf
<1>5. CASE \E kind \in Outcomes(bytes[1][1]) : Return(call, <<kind, bytes[1][2]>>)
  <2>1. PICK kind \in Returned : /\ Return(call, <<kind, bytes[1][2]>>)
                                 /\ kind \in Outcomes(bytes[1][1])
    BY <1>5 DEF Outcomes, Returned
  <2>2. /\ bytes[1][2] \in 0 .. MaxCalls
        /\ kind # "err" => bytes[1][2] = call /\ ran[call] = 1
        /\ kind = "err" => ~ Up
    BY <1>1, <1>3, <2>1 DEF Outcomes
  <2> QED BY <1>2, <2>1, <2>2, ReturnRefines
<1> QED BY <1>2, <1>4, <1>5

\* A request that does not deserialize is the end of the script.
LEMMA RefuseRefines == ASSUME Inv, VmRefuse PROVE Promise!Stop
<1>1. toClient.receiver = TRUE /\ vm = "serving"
  BY ServeFacts DEF VmRefuse
<1>2. vm' = "writing" /\ last' = TRUE /\ UNCHANGED <<call, ran, answer>>
  BY <1>1 DEF VmRefuse, VmSend
<1> QED BY <1>1, <1>2 DEF Promise!Stop, AnswerOf

LEMMA ServeRefines == ASSUME Inv, VmServe PROVE Promise!Run
<1>1. /\ vm = "serving" /\ call \in Calls /\ call > 0
      /\ Waiting /\ ran[call] = 0 /\ vmGot[1][2] = call
  BY ServeFacts DEF VmServe, Calls
<1>2. AnswerOf(call) = "none"
  BY <1>1 DEF Inv, CallsInOrder, AnswerOf
<1>3. ran' = [ran EXCEPT ![call] = 1]
  BY <1>1 DEF VmServe, Inv, TypeOK
<1>4. UNCHANGED <<call, answer>>
  BY DEF VmServe
<1>5. Promise!Open
  BY <1>1, <1>2 DEF Promise!Open
<1> QED BY <1>1, <1>3, <1>4, <1>5 DEF Promise!Run, AnswerOf

\* Every step maps to a step of Rpc or leaves its variables alone.
LEMMA StepRefines ==
  Inv /\ [Next]_vars => [Promise!Next]_(Promise!abstractVars)
<1> SUFFICES ASSUME Inv, [Next]_vars
             PROVE  Promise!Next \/ UNCHANGED Promise!abstractVars
  OBVIOUS
<1>1. ASSUME SpawnServer
      PROVE  UNCHANGED Promise!abstractVars
  BY <1>1 DEF SpawnServer, Inv, Ends, Promise!abstractVars, AnswerOf
<1>2. ASSUME ClientCall
      PROVE  Promise!Issue
  BY <1>2, CallRefines
<1>3. ASSUME ClientSent \/ ClientReadEnd
      PROVE  \/ Promise!AnswerOk \/ Promise!AnswerUnread \/ Promise!AnswerErr
             \/ UNCHANGED Promise!abstractVars
  <2>1. /\ Waiting
        /\ UNCHANGED <<vm, last, call, ran>>
        /\ \/ UNCHANGED answer
           \/ vm \in {"closing", "ended"} /\ Return(call, <<"err", 0>>)
    BY <1>3 DEF ClientSent, ClientReadEnd, AtEnd, Waiting, Inv, Ends
  <2>2. CASE UNCHANGED answer
    BY <2>1, <2>2 DEF Promise!abstractVars, AnswerOf
  <2>3. CASE vm \in {"closing", "ended"} /\ Return(call, <<"err", 0>>)
    <3>1. ~ Up /\ 0 \in 0 .. MaxCalls /\ "err" \in Returned
      BY <2>3, MaxCallsAssumption DEF Up, Returned
    <3> QED BY <2>1, <2>3, <3>1, ReturnRefines
  <2> QED BY <2>1, <2>2, <2>3
<1>4. ASSUME NEW n \in ReadSizes, ClientRead(n)
      PROVE  \/ Promise!AnswerOk \/ Promise!AnswerUnread \/ Promise!AnswerErr
             \/ UNCHANGED Promise!abstractVars
  BY <1>4, ReadRefines
<1>5. ASSUME ClientDropReader \/ ClientDropWriter
      PROVE  UNCHANGED Promise!abstractVars
  BY <1>5 DEF ClientDropReader, ClientDropWriter, Promise!abstractVars, AnswerOf
<1>6. ASSUME VmLoad \/ VmReadEnd
      PROVE  Promise!Stop \/ UNCHANGED Promise!abstractVars
  BY <1>6 DEF VmLoad, VmReadEnd, Promise!Stop, Promise!abstractVars, AnswerOf
<1>7. ASSUME NEW n \in ReadSizes, VmRead(n)
      PROVE  UNCHANGED Promise!abstractVars
  BY <1>7 DEF VmRead, Promise!abstractVars, AnswerOf
<1>8. ASSUME VmServe
      PROVE  Promise!Run
  BY <1>8, ServeRefines
<1>9. ASSUME VmNotify
      PROVE  UNCHANGED Promise!abstractVars
  <2>1. /\ vm = "failing" /\ vm' = "dropping"
        /\ UNCHANGED <<call, ran, answer>>
    BY <1>9 DEF VmNotify, VmSend, Inv, Ends
  <2> QED BY <2>1 DEF Promise!abstractVars, AnswerOf
<1>10. ASSUME VmSent
       PROVE  UNCHANGED Promise!abstractVars
  <2>1. /\ vm = "writing" /\ vm' = IF last THEN "dropping" ELSE "reading"
        /\ UNCHANGED <<last, call, ran, answer>>
    BY <1>10 DEF VmSent, Inv, ResponseInStep, Ends, Waiting
  <2> QED BY <2>1 DEF Promise!abstractVars, AnswerOf
<1>11. ASSUME VmDropReader \/ VmDropWriter
       PROVE  UNCHANGED Promise!abstractVars
  BY <1>11 DEF VmDropReader, VmDropWriter, Promise!abstractVars, AnswerOf
<1>12. ASSUME UNCHANGED vars
       PROVE  UNCHANGED Promise!abstractVars
  BY <1>12 DEF vars, Promise!abstractVars, AnswerOf
<1>13. ASSUME VmRefuse
       PROVE  Promise!Stop
  BY <1>13, RefuseRefines
<1> QED
  BY <1>1, <1>2, <1>3, <1>4, <1>5, <1>6, <1>7, <1>8, <1>9, <1>10, <1>11, <1>12, <1>13
  DEF Next, ClientStep, ClientWaits, VmStep, Terminated, Promise!Next

\* The program and the machine keep every promise of Rpc, wherever the reads cut
\* the packets and whenever the machine stops.
THEOREM SessionKeepsPromise == Spec => KeepsPromise
  BY Invariance, InitRefines, StepRefines, PTL DEF Spec, KeepsPromise, Promise!Spec

-----------------------------------------------------------------------------
(* Progress.  Liveness itself is beyond the prover, but not its two halves:  *)
(* somebody can always move, and every move brings the end nearer.           *)

\* The guards of ClientSent, of ClientRead and ClientReadEnd, and of the steps of
\* the machine.
WriteReturns == client = "writing" /\ (toVm.offered = <<>> \/ ~ toVm.receiver)
ReadReturns == client = "reading" /\ (Available(toClient) # <<>> \/ AtEnd(toClient))
VmMoves ==
  \/ vm \in {"loading", "serving", "failing", "dropping", "closing"}
  \/ vm = "reading" /\ (Available(toVm) # <<>> \/ AtEnd(toVm))
  \/ vm = "writing" /\ (toClient.offered = <<>> \/ ~ toClient.receiver)

\* How far the machine is from its end while a call waits, before the call is
\* served and after it.
VmSteps ==
  CASE vm = "loading" -> 7
    [] vm = "writing" -> IF Unserved THEN 7 ELSE 4
    [] vm = "reading" -> IF Unserved THEN 6 ELSE 3
    [] vm = "serving" -> 5
    [] vm = "dropping" -> 2
    [] vm = "closing" -> 1
    [] OTHER -> 0

\* The bytes that are still to be read for a call.
BytesOfCall == (IF Unserved THEN Size - Len(vmGot) ELSE 0) + (Size - Len(got))

\* The write of the request returns once.
WriteSteps == IF client = "writing" THEN 1 ELSE 0

\* How many steps of the two threads a call can still take before it returns.
StepsOfCall == VmSteps + BytesOfCall + WriteSteps

\* How many steps are left to the machine once the client has been dropped.
StepsToEnd ==
  CASE vm \in {"loading", "writing"} -> 5
    [] vm = "reading" -> 4
    [] vm = "failing" -> 3
    [] vm = "dropping" -> 2
    [] vm = "closing" -> 1
    [] OTHER -> 0

\* What is missing of a packet is there to be read.
LEMMA RestIsThere ==
  ASSUME NEW a \in Seq(Byte), NEW b \in Seq(Byte), Len(a \o b) = Size, Len(a) < Size
  PROVE  b # <<>>
<1> SUFFICES ASSUME b = <<>> PROVE FALSE
  OBVIOUS
<1>1. a \o b = a
  BY ConcatEmptySeq
<1> QED BY <1>1

\* A call that waits finds an end that can move.
LEMMA WaitingMoves == Inv /\ Waiting => WriteReturns \/ ReadReturns \/ VmMoves
<1> SUFFICES ASSUME Inv, Waiting PROVE WriteReturns \/ ReadReturns \/ VmMoves
  OBVIOUS
<1> USE DEF Inv
<1>1. /\ call \in Calls /\ client # "ended" /\ client # "new"
      /\ toVm \in Pipe /\ toClient \in Pipe /\ got \in Seq(Byte) /\ vmGot \in Seq(Byte)
      /\ call \in 0 .. MaxCalls
  BY DEF CallsInOrder, Waiting, TypeOK
<1>2. ASSUME toVm.offered # <<>>
      PROVE  WriteReturns \/ VmMoves
  <2>1. client = "writing" /\ Unserved
    BY <1>2 DEF RequestInStep, Unserved
  <2>2. CASE vm = "reading"
    BY <1>2, <2>2 DEF VmMoves, Available
  <2>3. CASE vm = "writing"
    <3>1. toClient.offered = <<>>
      BY <2>1 DEF ResponseInStep
    <3> QED BY <2>3, <3>1 DEF VmMoves
  <2>4. CASE vm = "ended"
    BY <2>1, <2>4 DEF Ends, WriteReturns
  <2> QED BY <1>1, <2>2, <2>3, <2>4 DEF TypeOK, Ends, VmMoves
<1>3. ASSUME RequestTaken
      PROVE  VmMoves
  <2>1. vm \in {"reading", "serving"} /\ vmGot \o toVm.rest = Packet("request", call)
    BY <1>3 DEF RequestInStep
  <2>2. CASE vm = "reading"
    <3>1. Len(Packet("request", call)) = Size /\ Len(vmGot) < Size /\ toVm.rest \in Seq(Byte)
      BY <1>1, <2>2, PacketFacts DEF RequestInStep, Pipe
    <3>2. toVm.rest # <<>>
      BY <1>1, <2>1, <3>1, RestIsThere
    <3> QED BY <2>2, <3>2 DEF VmMoves, Available
  <2> QED BY <2>1, <2>2 DEF VmMoves
<1>4. ASSUME toClient.offered # <<>>
      PROVE  WriteReturns \/ ReadReturns
  <2>1. toVm.offered = <<>>
    BY <1>4 DEF ResponseInStep, Unserved
  <2> QED BY <1>4, <2>1 DEF Waiting, WriteReturns, ReadReturns, Available
<1>5. ASSUME ResponseTaken
      PROVE  ReadReturns
  <2>1. client = "reading" /\ IsResponse(got \o toClient.rest)
    BY <1>5 DEF ResponseInStep
  <2>2. Len(got \o toClient.rest) = Size
    BY <1>1, <2>1, MaxCallsAssumption, PacketFacts DEF IsResponse
  <2>3. Len(got) < Size /\ toClient.rest \in Seq(Byte)
    BY <1>1 DEF TypeOK, Pipe
  <2>4. toClient.rest # <<>>
    BY <1>1, <2>2, <2>3, RestIsThere
  <2> QED BY <2>1, <2>4 DEF ReadReturns, Available
<1>6. ASSUME vm \in {"dropping", "closing", "ended"}
      PROVE  WriteReturns \/ ReadReturns \/ VmMoves
  BY <1>6 DEF Ends, Waiting, WriteReturns, ReadReturns, AtEnd, VmMoves
<1> QED BY <1>2, <1>3, <1>4, <1>5, <1>6 DEF ResponseInStep, Unserved

\* While a call waits, one of the two threads can take a step: no order of reads,
\* writes and drops leaves the program and its machine waiting for each other
\* (native.rs: Pipe).
THEOREM CallNeverStuck == Spec => [](Waiting => WriteReturns \/ ReadReturns \/ VmMoves)
  BY WaitingMoves, Invariance, PTL

\* The types of what is counted.
LEMMA CountTypes ==
  ASSUME Inv, Waiting
  PROVE  /\ Len(got) \in Nat /\ Len(got) < Size
         /\ Len(vmGot) \in Nat /\ Len(vmGot) <= Size
         /\ Size \in Nat
         /\ VmSteps \in 0 .. 7
         /\ BytesOfCall \in 0 .. 2 * Size
         /\ StepsOfCall \in 0 .. 2 * Size + 8
<1>1. /\ Len(got) \in Nat /\ Len(got) < Size
      /\ Len(vmGot) \in Nat /\ Len(vmGot) <= Size
      /\ Size \in Nat
  BY SizeAssumption DEF Inv, TypeOK, CallsInOrder
<1>2. VmSteps \in 0 .. 7
  BY DEF VmSteps
<1>3. BytesOfCall \in 0 .. 2 * Size
  BY <1>1 DEF BytesOfCall
<1>4. StepsOfCall \in 0 .. 2 * Size + 8
  BY <1>1, <1>2, <1>3 DEF StepsOfCall, WriteSteps
<1> QED BY <1>1, <1>2, <1>3, <1>4

\* A sum is less when one of its parts is and none is more.
LEMMA SumIsLess ==
  ASSUME NEW a \in Int, NEW b \in Int, NEW c \in Int,
         NEW x \in Int, NEW y \in Int, NEW z \in Int,
         x <= a, y <= b, z <= c, x < a \/ y < b \/ z < c
  PROVE  x + y + z < a + b + c
  OBVIOUS

\* The three parts of StepsOfCall.
LEMMA FewerSteps ==
  ASSUME VmSteps \in Int, BytesOfCall \in Int, WriteSteps \in Int,
         VmSteps' \in Int, BytesOfCall' \in Int, WriteSteps' \in Int,
         VmSteps' <= VmSteps, BytesOfCall' <= BytesOfCall, WriteSteps' <= WriteSteps,
         \/ VmSteps' < VmSteps \/ BytesOfCall' < BytesOfCall \/ WriteSteps' < WriteSteps
  PROVE  StepsOfCall' < StepsOfCall
<1> DEFINE a == VmSteps
           b == BytesOfCall
           c == WriteSteps
           x == VmSteps'
           y == BytesOfCall'
           z == WriteSteps'
<1>1. /\ a \in Int /\ b \in Int /\ c \in Int /\ x \in Int /\ y \in Int /\ z \in Int
      /\ x <= a /\ y <= b /\ z <= c
      /\ x < a \/ y < b \/ z < c
  OBVIOUS
<1>2. StepsOfCall = a + b + c /\ StepsOfCall' = x + y + z
  BY DEF StepsOfCall
<1> HIDE DEF a, b, c, x, y, z
<1>3. x + y + z < a + b + c
  BY <1>1, SumIsLess
<1> QED BY <1>2, <1>3

\* A read that does not complete the response has some of it.
LEMMA ReadIsNearer ==
  ASSUME Inv, Inv', NEW n \in ReadSizes, ClientRead(n), Waiting, Waiting'
  PROVE  StepsOfCall' < StepsOfCall
<1> DEFINE t == Taken(toClient, n)
<1>1. /\ got' = got \o t /\ client' = client
      /\ UNCHANGED <<vm, vmGot, toVm>>
  BY DEF ClientRead, Return, Waiting
<1>2. t \in Seq(Byte) /\ t # <<>> /\ got \in Seq(Byte)
  BY ReadFacts, ReadSizesAssumption DEF ClientRead, Inv, TypeOK
<1> HIDE DEF t
<1>3. Len(got') = Len(got) + Len(t) /\ Len(t) \in Nat \ {0}
  BY <1>1, <1>2, EmptySeq, ConcatProperties, LenProperties
<1>4. Unserved' = Unserved /\ VmSteps' = VmSteps
  BY <1>1 DEF VmSteps, Unserved, RequestTaken
<1>5. VmSteps \in Int /\ BytesOfCall \in Int
  BY CountTypes
<1>6. BytesOfCall' \in Int /\ BytesOfCall' < BytesOfCall
  BY SMTT(30), <1>1, <1>3, <1>4, CountTypes DEF BytesOfCall
<1>7. WriteSteps' = WriteSteps /\ WriteSteps \in Int
  BY <1>1 DEF WriteSteps
<1> QED BY <1>4, <1>5, <1>6, <1>7, FewerSteps

\* So has a read of the script.
LEMMA VmReadIsNearer ==
  ASSUME Inv, Inv', NEW n \in ReadSizes, VmRead(n), Waiting, Waiting'
  PROVE  StepsOfCall' < StepsOfCall
<1> DEFINE t == Taken(toVm, n)
<1>1. /\ vmGot' = vmGot \o t /\ vm = "reading" /\ vm' \in {"serving", "reading"}
      /\ Unserved /\ Unserved'
      /\ UNCHANGED <<client, got>>
  BY VmReadFacts DEF VmRead, Unserved, RequestTaken, Available
<1>2. t \in Seq(Byte) /\ t # <<>> /\ vmGot \in Seq(Byte)
  BY ReadFacts, ReadSizesAssumption DEF VmRead, Inv, TypeOK
<1> HIDE DEF t
<1>3. Len(vmGot') = Len(vmGot) + Len(t) /\ Len(t) \in Nat \ {0}
  BY <1>1, <1>2, EmptySeq, ConcatProperties, LenProperties
<1>4. VmSteps \in Int /\ VmSteps' \in Int /\ VmSteps' <= VmSteps
  BY <1>1 DEF VmSteps
<1>5. BytesOfCall \in Int /\ BytesOfCall' \in Int /\ BytesOfCall' < BytesOfCall
  <2>1. /\ BytesOfCall = Size - Len(vmGot) + Size - Len(got)
        /\ BytesOfCall' = Size - Len(vmGot') + Size - Len(got)
    BY <1>1 DEF BytesOfCall
  <2>2. Len(got) \in Nat /\ Len(vmGot) \in Nat /\ Size \in Nat
    BY <1>2, LenProperties, SizeAssumption DEF Inv, TypeOK
  <2> QED BY <1>3, <2>1, <2>2
<1>6. WriteSteps' = WriteSteps /\ WriteSteps \in Int
  BY <1>1 DEF WriteSteps
<1> QED BY <1>4, <1>5, <1>6, FewerSteps

\* The machine leaves the request of a call behind.
LEMMA ServeIsNearer ==
  ASSUME Inv, Inv', VmServe \/ VmRefuse, Waiting, Waiting'
  PROVE  StepsOfCall' < StepsOfCall
<1>1. /\ vm = "serving" /\ toVm.offered = <<>> /\ toVm.rest = <<>>
      /\ Unserved
      /\ UNCHANGED <<client, got, toVm>>
  BY ServeFacts DEF VmServe, VmRefuse, Inv, RequestInStep, RequestTaken, Unserved
<1>2. ~ Unserved'
  BY <1>1 DEF VmServe, VmRefuse, Unserved, RequestTaken
<1>3. vm' \in {"writing", "dropping"}
  BY DEF VmServe, VmRefuse, VmSend
<1>4. VmSteps = 5 /\ VmSteps' \in {4, 2}
  BY <1>1, <1>2, <1>3 DEF VmSteps
<1>5. BytesOfCall \in Int /\ BytesOfCall' \in Int /\ BytesOfCall' <= BytesOfCall
  BY <1>1, <1>2, CountTypes DEF BytesOfCall
<1>6. WriteSteps' = WriteSteps /\ WriteSteps \in Int
  BY <1>1 DEF WriteSteps
<1> QED BY <1>4, <1>5, <1>6, FewerSteps

\* The other steps read nothing.
LEMMA MoveIsNearer ==
  ASSUME Inv, Inv', Waiting, Waiting',
         \/ ClientSent \/ VmLoad \/ VmSent \/ VmDropReader \/ VmDropWriter
  PROVE  StepsOfCall' < StepsOfCall
<1>1. UNCHANGED <<Unserved, vmGot, got>>
  <2>1. CASE VmDropReader
    <3>1. toVm.rest = <<>> /\ vm = "dropping"
      BY <2>1 DEF VmDropReader, Inv, RequestInStep, RequestTaken
    <3>2. toVm'.offered = toVm.offered /\ toVm'.rest = <<>>
      BY <2>1 DEF VmDropReader, Inv, TypeOK, Pipe
    <3> QED BY <2>1, <3>1, <3>2 DEF VmDropReader, Unserved, RequestTaken
  <2>2. CASE ClientSent \/ VmLoad \/ VmSent \/ VmDropWriter
    BY <2>2
    DEF ClientSent, Return, Waiting, VmLoad, VmSent, VmDropWriter, Unserved, RequestTaken
  <2> QED BY <2>1, <2>2
<1>2. BytesOfCall' = BytesOfCall /\ BytesOfCall \in Int
  BY <1>1, CountTypes DEF BytesOfCall
<1>3. CASE ClientSent
  <2>1. client = "writing" /\ client' = "reading" /\ UNCHANGED vm
    BY <1>3 DEF ClientSent, Return, Waiting
  <2>2. VmSteps' = VmSteps /\ VmSteps \in Int
    BY <1>1, <2>1, CountTypes DEF VmSteps
  <2>3. WriteSteps = 1 /\ WriteSteps' = 0
    BY <2>1 DEF WriteSteps
  <2> QED BY <1>2, <2>2, <2>3, FewerSteps
<1>4. CASE VmLoad \/ VmSent \/ VmDropReader \/ VmDropWriter
  <2>1. /\ UNCHANGED client
        /\ \/ vm \in {"loading", "writing"} /\ vm' \in {"reading", "dropping"}
           \/ vm = "dropping" /\ vm' = "closing"
           \/ vm = "closing" /\ vm' = "ended"
    BY <1>4 DEF VmLoad, VmSent, VmDropReader, VmDropWriter
  <2>2. VmSteps \in Int /\ VmSteps' \in Int /\ VmSteps' < VmSteps
    BY <1>1, <2>1 DEF VmSteps
  <2>3. WriteSteps' = WriteSteps /\ WriteSteps \in Int
    BY <2>1 DEF WriteSteps
  <2> QED BY <1>2, <2>2, <2>3, FewerSteps
<1> QED BY <1>3, <1>4

\* Every step while a call waits is one of those that are left to it: a call takes
\* at most 2 * Size + 9 steps, however its packets are cut and whoever takes them.
THEOREM CallAdvances ==
  Spec => /\ [](Waiting => StepsOfCall \in 0 .. 2 * Size + 8)
          /\ [][Waiting /\ Waiting' => StepsOfCall' < StepsOfCall]_vars
<1>1. Inv => (Waiting => StepsOfCall \in 0 .. 2 * Size + 8)
  BY CountTypes
<1>2. ASSUME Inv, Inv', Next, Waiting, Waiting', vars' # vars
      PROVE  StepsOfCall' < StepsOfCall
  <2>1. client \notin {"new", "idle", "dropping", "ended"} /\ client' # "idle"
    BY <1>2 DEF Waiting
  <2>2. vm # "failing" /\ toVm.sender
    BY <2>1, <1>2 DEF Inv, Ends
  <2>3. \/ ClientSent \/ VmLoad \/ VmSent \/ VmDropReader \/ VmDropWriter
        \/ VmServe \/ VmRefuse
        \/ \E n \in ReadSizes : ClientRead(n)
        \/ \E n \in ReadSizes : VmRead(n)
    BY <1>2, <2>1, <2>2
    DEF Next, ClientStep, ClientWaits, VmStep, Terminated, SpawnServer, ClientCall,
        ClientReadEnd, Return, ClientDropReader, ClientDropWriter, VmReadEnd, AtEnd,
        VmNotify
  <2> QED BY <1>2, <2>3, ReadIsNearer, VmReadIsNearer, ServeIsNearer, MoveIsNearer
<1>3. Inv /\ Inv' /\ [Next]_vars => [Waiting /\ Waiting' => StepsOfCall' < StepsOfCall]_vars
  BY <1>2
<1> QED BY <1>1, <1>3, Invariance, PTL DEF Spec

\* Once both pipes of the client are dropped, the thread of the machine can always
\* take its next step, and ends after at most five (native.rs: spawn_server).
THEOREM VmWindsUp ==
  Spec => /\ [](client = "ended" => StepsToEnd \in 0 .. 5 /\ (vm = "ended" \/ VmMoves))
          /\ [][client = "ended" =>
                  client' = "ended" /\ StepsToEnd' < StepsToEnd]_vars
<1>1. ASSUME Inv, client = "ended"
      PROVE  /\ vm \notin {"new", "serving"}
             /\ Available(toVm) = <<>> /\ ~ toVm.sender
             /\ ~ toClient.receiver
  <2>1. ~ Waiting
    BY <1>1 DEF Waiting
  <2> QED BY <1>1, <2>1 DEF Inv, Ends, RequestInStep, RequestTaken, Available
<1>2. Inv => (client = "ended" => StepsToEnd \in 0 .. 5 /\ (vm = "ended" \/ VmMoves))
  <2> SUFFICES ASSUME Inv, client = "ended"
               PROVE  StepsToEnd \in 0 .. 5 /\ (vm = "ended" \/ VmMoves)
    OBVIOUS
  <2>1. StepsToEnd \in 0 .. 5
    BY DEF StepsToEnd
  <2>2. vm = "ended" \/ VmMoves
    BY <1>1 DEF VmMoves, AtEnd, Inv, TypeOK
  <2> QED BY <2>1, <2>2
<1>3. ASSUME Inv, Next, client = "ended", vars' # vars
      PROVE  client' = "ended" /\ StepsToEnd' < StepsToEnd
  <2>1. \/ VmLoad \/ VmReadEnd \/ VmNotify \/ VmSent \/ VmDropReader \/ VmDropWriter
    BY <1>1, <1>3
    DEF Next, ClientStep, ClientWaits, VmStep, Terminated, SpawnServer, ClientCall,
        ClientSent, ClientRead, ClientReadEnd, ClientDropReader, ClientDropWriter,
        VmRead, VmServe, VmRefuse
  <2>2. /\ UNCHANGED client
        /\ \/ vm \in {"loading", "writing"} /\ vm' \in {"reading", "dropping"}
           \/ vm = "reading" /\ vm' = "failing"
           \/ vm = "failing" /\ vm' = "dropping"
           \/ vm = "dropping" /\ vm' = "closing"
           \/ vm = "closing" /\ vm' = "ended"
    BY <1>1, <1>3, <2>1
    DEF VmLoad, VmReadEnd, VmNotify, VmSend, VmSent, VmDropReader, VmDropWriter
  <2> QED BY <1>3, <2>2 DEF StepsToEnd
<1>4. Inv /\ [Next]_vars =>
        [client = "ended" => client' = "ended" /\ StepsToEnd' < StepsToEnd]_vars
  BY <1>3
<1> QED BY <1>2, <1>4, Invariance, PTL DEF Spec
=============================================================================
