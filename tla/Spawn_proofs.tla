---------------------------- MODULE Spawn_proofs ----------------------------
(***************************************************************************)
(* Proofs about Spawn, for any number of attempts and of I/O blocks.       *)
(***************************************************************************)
EXTENDS Spawn, FiniteSetTheorems, TLAPS

\* Where an attempt has got a server.
Made == {"spawned", "reader", "open", "freed"}

\* The ends of an attempt's pipes that who has.
Has(a, who) == {e \in End : owner[a][e] = who}

\* Which ends each process has, at each point of an attempt.
Wiring(a) ==
  /\ server[a] # "none" <=> progress[a] \in Made
  /\ server[a] # "none" => inherited[a] = <<"r2", "w1">> /\ channel[a] = <<"r1", "w2">>
  /\ server[a] = "running" => Has(a, "server") = {"r2", "w1"}
  /\ client = "running" =>
       /\ progress[a] = "no" => Has(a, "client") = {}
       /\ progress[a] = "first" => Has(a, "client") = {"r1", "w1"}
       /\ progress[a] = "second" => Has(a, "client") = End
       /\ progress[a] = "failed" => Has(a, "client") \in {{}, {"r1", "w1"}, End}
       /\ progress[a] \in Made => Has(a, "client") = {"r1", "w2"}

WiringInv == TypeOK /\ \A a \in Attempt : Wiring(a)

-----------------------------------------------------------------------------
(* The descriptors *)

\* What a change of owners does to the ends that a process has.
LEMMA OwnsFacts ==
  ASSUME TypeOK, NEW a \in Attempt, NEW ends \in SUBSET End,
         NEW who \in {"client", "server"}, Owns(a, ends, who)
  PROVE  /\ owner' \in [Attempt -> [End -> {"none", "client", "server", "closed"}]]
         /\ Has(a, who)' = Has(a, who) \cup ends
         /\ \A other : other # who => Has(a, other)' = Has(a, other) \ ends
         /\ \A b \in Attempt : b # a => \A w : Has(b, w)' = Has(b, w)
<1>1. owner' = [owner EXCEPT ![a] =
                  [e \in End |-> IF e \in ends THEN who ELSE owner[a][e]]]
  BY DEF Owns
<1>2. /\ \A e \in End : owner'[a][e] = IF e \in ends THEN who ELSE owner[a][e]
      /\ \A b \in Attempt : b # a => owner'[b] = owner[b]
  BY <1>1 DEF TypeOK
<1>3. owner' \in [Attempt -> [End -> {"none", "client", "server", "closed"}]]
  BY <1>1 DEF TypeOK
<1> QED BY <1>2, <1>3 DEF Has

LEMMA ClosesFacts ==
  ASSUME TypeOK, NEW attempts \in SUBSET Attempt,
         NEW who \in {"client", "server"}, Closes(who, attempts)
  PROVE  /\ owner' \in [Attempt -> [End -> {"none", "client", "server", "closed"}]]
         /\ \A b \in Attempt \ attempts : \A w : Has(b, w)' = Has(b, w)
         /\ \A b \in Attempt : \A w \in {"client", "server"} :
               w # who => Has(b, w)' = Has(b, w)
<1>1. \A b \in Attempt : \A e \in End :
        owner'[b][e] = IF b \in attempts /\ owner[b][e] = who THEN "closed"
                                                             ELSE owner[b][e]
  BY DEF Closes
<1>2. owner' \in [Attempt -> [End -> {"none", "client", "server", "closed"}]]
  BY DEF Closes, TypeOK
<1> QED BY <1>1, <1>2 DEF Has

\* The sizes of the sets of ends that a failed attempt leaves.
LEMMA LeftOver ==
  Cardinality({}) = 0 /\ Cardinality({"r1", "w1"}) = 2 /\ Cardinality(End) = 4
<1>1. IsFiniteSet({}) /\ Cardinality({}) = 0
  BY FS_EmptySet
<1>2. IsFiniteSet({"r1"}) /\ Cardinality({"r1"}) = 1
  BY FS_Singleton
<1>3. IsFiniteSet({"r1"} \cup {"w1"}) /\ Cardinality({"r1"} \cup {"w1"}) = 2
  BY <1>2, FS_AddElement
<1>4. {"r1"} \cup {"w1"} = {"r1", "w1"}
  OBVIOUS
<1>5. /\ IsFiniteSet({"r1", "w1"} \cup {"r2"})
      /\ Cardinality({"r1", "w1"} \cup {"r2"}) = 3
  BY <1>3, <1>4, FS_AddElement
<1>6. {"r1", "w1"} \cup {"r2"} = {"r1", "w1", "r2"}
  OBVIOUS
<1>7. Cardinality({"r1", "w1", "r2"} \cup {"w2"}) = 4
  BY <1>5, <1>6, FS_AddElement
<1>8. {"r1", "w1", "r2"} \cup {"w2"} = End
  BY DEF End
<1> QED BY <1>1, <1>3, <1>4, <1>7, <1>8

LEMMA InitWiring == Init => WiringInv
<1> SUFFICES ASSUME Init PROVE WiringInv
  OBVIOUS
<1>1. TypeOK
  BY DEF Init, TypeOK
<1>2. ASSUME NEW a \in Attempt PROVE Wiring(a)
  BY DEF Init, Wiring, Has, Made
<1> QED BY <1>1, <1>2 DEF WiringInv

\* A block that is taken is one of the pool's, and so are its flags.
LEMMA MaskType ==
  \A b \in Pool!Blocks : Pool!Mask(b) \subseteq Pool!Bits
  BY WidthAssumption DEF Pool!Mask, Pool!Blocks, Pool!Bits

\* Every step keeps the types and the wiring.
LEMMA StepWiring == WiringInv /\ [Next]_vars => WiringInv'
<1> SUFFICES ASSUME WiringInv, [Next]_vars PROVE WiringInv'
  OBVIOUS
<1> USE DEF WiringInv
\* A step that leaves the pipes alone, and the client running if it was.
<1>1. ASSUME UNCHANGED <<server, owner, inherited, channel>>,
             client' = client, TypeOK', NEW a \in Attempt,
             \A b \in Attempt : b # a => progress'[b] = progress[b],
             progress[a] \in Made /\ progress'[a] \in Made
      PROVE  \A b \in Attempt : Wiring(b)'
  <2> SUFFICES ASSUME NEW b \in Attempt PROVE Wiring(b)'
    OBVIOUS
  <2>1. Wiring(b) /\ \A w : Has(b, w)' = Has(b, w)
    BY <1>1 DEF Has
  <2> QED BY <1>1, <2>1 DEF Wiring, Made
<1>2. ASSUME NEW a \in Attempt, FirstPipe(a)
      PROVE  WiringInv'
  <2>1. /\ client = "running" /\ progress[a] = "no"
        /\ UNCHANGED <<lang, client, server, inherited, channel, memory>>
    BY <1>2 DEF FirstPipe, Making
  <2>2. CASE Owns(a, {"r1", "w1"}, "client") /\ Goes(a, "first")
    <3>1. /\ owner' \in [Attempt -> [End -> {"none", "client", "server", "closed"}]]
          /\ Has(a, "client")' = Has(a, "client") \cup {"r1", "w1"}
          /\ \A b \in Attempt : b # a => \A w : Has(b, w)' = Has(b, w)
      BY <2>2, OwnsFacts DEF End
    <3>2. /\ progress'[a] = "first"
          /\ \A b \in Attempt : b # a => progress'[b] = progress[b]
      BY <2>2 DEF Goes, TypeOK
    <3>3. TypeOK'
      BY <2>1, <2>2, <3>1 DEF Goes, TypeOK, memory
    <3>4. ASSUME NEW b \in Attempt PROVE Wiring(b)'
      BY <2>1, <3>1, <3>2 DEF Wiring, Made
    <3> QED BY <3>3, <3>4
  <2>3. CASE Goes(a, "failed") /\ UNCHANGED owner
    <3>1. /\ progress'[a] = "failed"
          /\ \A b \in Attempt : b # a => progress'[b] = progress[b]
          /\ \A b \in Attempt : \A w : Has(b, w)' = Has(b, w)
      BY <2>3 DEF Goes, TypeOK, Has
    <3>2. TypeOK'
      BY <2>1, <2>3 DEF Goes, TypeOK, memory
    <3>3. ASSUME NEW b \in Attempt PROVE Wiring(b)'
      BY <2>1, <3>1 DEF Wiring, Made
    <3> QED BY <3>2, <3>3
  <2> QED BY <1>2, <2>2, <2>3 DEF FirstPipe
<1>3. ASSUME NEW a \in Attempt, SecondPipe(a)
      PROVE  WiringInv'
  <2>1. /\ client = "running" /\ progress[a] = "first"
        /\ UNCHANGED <<lang, client, server, inherited, channel, memory>>
    BY <1>3 DEF SecondPipe, Making
  <2>2. CASE Owns(a, {"r2", "w2"}, "client") /\ Goes(a, "second")
    <3>1. /\ owner' \in [Attempt -> [End -> {"none", "client", "server", "closed"}]]
          /\ Has(a, "client")' = Has(a, "client") \cup {"r2", "w2"}
          /\ \A b \in Attempt : b # a => \A w : Has(b, w)' = Has(b, w)
      BY <2>2, OwnsFacts DEF End
    <3>2. /\ progress'[a] = "second"
          /\ \A b \in Attempt : b # a => progress'[b] = progress[b]
      BY <2>2 DEF Goes, TypeOK
    <3>3. TypeOK'
      BY <2>1, <2>2, <3>1 DEF Goes, TypeOK, memory
    <3>4. ASSUME NEW b \in Attempt PROVE Wiring(b)'
      BY <2>1, <3>1, <3>2 DEF Wiring, Made, End
    <3> QED BY <3>3, <3>4
  <2>3. CASE Goes(a, "failed") /\ UNCHANGED owner
    <3>1. /\ progress'[a] = "failed"
          /\ \A b \in Attempt : b # a => progress'[b] = progress[b]
          /\ \A b \in Attempt : \A w : Has(b, w)' = Has(b, w)
      BY <2>3 DEF Goes, TypeOK, Has
    <3>2. TypeOK'
      BY <2>1, <2>3 DEF Goes, TypeOK, memory
    <3>3. ASSUME NEW b \in Attempt PROVE Wiring(b)'
      BY <2>1, <3>1 DEF Wiring, Made
    <3> QED BY <3>2, <3>3
  <2> QED BY <1>3, <2>2, <2>3 DEF SecondPipe
<1>4. ASSUME NEW a \in Attempt, SpawnProcess(a)
      PROVE  WiringInv'
  <2>1. /\ client = "running" /\ progress[a] = "second"
        /\ UNCHANGED <<lang, client, memory>>
    BY <1>4 DEF SpawnProcess, Making
  <2>2. CASE /\ server' = [server EXCEPT ![a] = "running"]
             /\ inherited' = [inherited EXCEPT ![a] = Handed]
             /\ Owns(a, {Handed[1], Handed[2]}, "server")
             /\ channel' = [channel EXCEPT ![a] = <<"r1", "w2">>]
             /\ Goes(a, IF lang = "rust" THEN "open" ELSE "spawned")
    <3>1. /\ owner' \in [Attempt -> [End -> {"none", "client", "server", "closed"}]]
          /\ Has(a, "server")' = Has(a, "server") \cup {"r2", "w1"}
          /\ Has(a, "client")' = Has(a, "client") \ {"r2", "w1"}
          /\ \A b \in Attempt : b # a => \A w : Has(b, w)' = Has(b, w)
      BY <2>2, OwnsFacts DEF End, Handed
    <3>2. /\ progress'[a] \in {"open", "spawned"} /\ server'[a] = "running"
          /\ inherited'[a] = <<"r2", "w1">> /\ channel'[a] = <<"r1", "w2">>
          /\ \A b \in Attempt : b # a =>
               /\ progress'[b] = progress[b] /\ server'[b] = server[b]
               /\ inherited'[b] = inherited[b] /\ channel'[b] = channel[b]
      BY <2>2 DEF Goes, TypeOK, Handed
    <3>3. TypeOK'
      BY <2>1, <2>2, <3>1 DEF Goes, TypeOK, memory, End, Handed
    <3>4. Has(a, "client") = End /\ Has(a, "server") = {}
      BY <2>1 DEF Wiring, Has
    <3>5. ASSUME NEW b \in Attempt PROVE Wiring(b)'
      <4>1. CASE b = a
        BY <2>1, <3>1, <3>2, <3>4, <4>1 DEF Wiring, Made, End
      <4>2. CASE b # a
        BY <2>1, <3>1, <3>2, <4>2 DEF Wiring
      <4> QED BY <4>1, <4>2
    <3> QED BY <3>3, <3>5
  <2>3. CASE Goes(a, "failed") /\ UNCHANGED <<server, inherited, owner, channel>>
    <3>1. /\ progress'[a] = "failed"
          /\ \A b \in Attempt : b # a => progress'[b] = progress[b]
          /\ \A b \in Attempt : \A w : Has(b, w)' = Has(b, w)
      BY <2>3 DEF Goes, TypeOK, Has
    <3>2. TypeOK'
      BY <2>1, <2>3 DEF Goes, TypeOK, memory
    <3>3. ASSUME NEW b \in Attempt PROVE Wiring(b)'
      BY <2>1, <2>3, <3>1 DEF Wiring, Made
    <3> QED BY <3>2, <3>3
  <2> QED BY <1>4, <2>2, <2>3 DEF SpawnProcess
<1>5. ASSUME NEW a \in Attempt, NewReader(a) \/ NewWriter(a) \/ FreeChannel(a)
      PROVE  WiringInv'
  <2>1. /\ UNCHANGED <<lang, client, server, owner, inherited, channel>>
        /\ progress[a] \in Made
        /\ \E to \in {"reader", "open", "freed"} :
              progress' = [progress EXCEPT ![a] = to]
    BY <1>5 DEF NewReader, NewWriter, FreeChannel, Goes, Made
  <2>2. /\ ioUsed' \subseteq Pool!Bits
        /\ rblock' \in [Attempt -> Pool!Blocks \cup {Null}]
        /\ wblock' \in [Attempt -> Pool!Blocks \cup {Null}]
    <3>1. CASE NewReader(a)
      BY <3>1, MaskType DEF NewReader, Gets, TypeOK
    <3>2. CASE NewWriter(a)
      BY <3>2, MaskType DEF NewWriter, Gets, TypeOK
    <3>3. CASE FreeChannel(a)
      BY <3>3 DEF FreeChannel, TypeOK
    <3> QED BY <1>5, <3>1, <3>2, <3>3
  <2>3. TypeOK'
    BY <2>1, <2>2 DEF TypeOK
  <2>4. \A b \in Attempt : b # a => progress'[b] = progress[b]
    BY <2>1 DEF TypeOK
  <2>5. progress'[a] \in Made
    BY <2>1 DEF TypeOK, Made
  <2> QED BY <1>1, <2>1, <2>3, <2>4, <2>5
<1>6. ASSUME (\E a \in Attempt : NewBufferPanics(a)) \/ ClientEnds
      PROVE  WiringInv'
  <2>1. /\ Closes("client", Attempt) /\ client' \in {"ended", "panicked"}
        /\ UNCHANGED <<lang, server, progress, inherited, channel, memory>>
    BY <1>6 DEF NewBufferPanics, ClientEnds
  <2>2. /\ owner' \in [Attempt -> [End -> {"none", "client", "server", "closed"}]]
        /\ \A b \in Attempt : Has(b, "server")' = Has(b, "server")
    BY <2>1, ClosesFacts
  <2>3. TypeOK'
    BY <2>1, <2>2 DEF TypeOK, memory
  <2>4. ASSUME NEW b \in Attempt PROVE Wiring(b)'
    BY <2>1, <2>2 DEF Wiring
  <2> QED BY <2>3, <2>4
<1>7. ASSUME NEW a \in Attempt, ServerFails(a) \/ ServerSeesEnd(a)
      PROVE  WiringInv'
  <2>1. /\ server[a] = "running" /\ server' = [server EXCEPT ![a] = "ended"]
        /\ Closes("server", {a})
        /\ UNCHANGED <<lang, client, progress, inherited, channel, memory>>
    BY <1>7 DEF ServerFails, ServerSeesEnd, ServerEnds
  <2>2. /\ owner' \in [Attempt -> [End -> {"none", "client", "server", "closed"}]]
        /\ \A b \in Attempt \ {a} : \A w : Has(b, w)' = Has(b, w)
        /\ \A b \in Attempt : Has(b, "client")' = Has(b, "client")
    BY <2>1, ClosesFacts
  <2>3. TypeOK'
    BY <2>1, <2>2 DEF TypeOK, memory
  <2>4. server'[a] = "ended" /\ \A b \in Attempt : b # a => server'[b] = server[b]
    BY <2>1 DEF TypeOK
  <2>5. ASSUME NEW b \in Attempt PROVE Wiring(b)'
    <3>1. CASE b = a
      BY <2>1, <2>2, <2>4, <3>1 DEF Wiring
    <3>2. CASE b # a
      BY <2>1, <2>2, <2>4, <3>2 DEF Wiring
    <3> QED BY <3>1, <3>2
  <2> QED BY <2>3, <2>5
<1>8. CASE Finished \/ UNCHANGED vars
  BY <1>8 DEF Finished, vars, wires, memory, TypeOK, Wiring, Has
<1> QED
  BY <1>2, <1>3, <1>4, <1>5, <1>6, <1>7, <1>8 DEF Next

LEMMA WiringInvariance == Spec => []WiringInv
  BY InitWiring, StepWiring, PTL DEF Spec

\* In every reachable state the descriptors, the channels and the I/O blocks are
\* well formed.
THEOREM TypeCorrect == Spec => []TypeOK
<1>1. WiringInv => TypeOK
  BY DEF WiringInv
<1> QED BY <1>1, WiringInvariance, PTL

\* Client and server always have the opposite ends of the same two pipes, and
\* no end is open in the client that its channels and its failed attempts do
\* not account for.
THEOREM AlwaysWired == Spec => []Wired
<1>1. WiringInv => Wired
  <2> SUFFICES ASSUME WiringInv, NEW a \in Attempt
               PROVE  /\ server[a] # "none" =>
                           /\ Peer[channel[a][1]] = inherited[a][2]
                           /\ Peer[inherited[a][1]] = channel[a][2]
                           /\ {channel[a][1], inherited[a][1]} = {"r1", "r2"}
                           /\ server[a] = "running" =>
                                Has(a, "server") = {inherited[a][1], inherited[a][2]}
                      /\ client = "running" =>
                           IF server[a] # "none"
                             THEN Has(a, "client") = {channel[a][1], channel[a][2]}
                             ELSE Cardinality(Has(a, "client")) \in {0, 2, 4}
    BY DEF Wired, Has
  <2>1. Wiring(a) /\ progress[a] \in {"no", "first", "second", "failed"} \cup Made
    BY DEF WiringInv, TypeOK, Made
  <2>2. CASE server[a] # "none"
    BY <2>1, <2>2 DEF Wiring, Peer
  <2>3. CASE server[a] = "none"
    <3>1. client = "running" => Has(a, "client") \in {{}, {"r1", "w1"}, End}
      BY <2>1, <2>3 DEF Wiring
    <3> QED BY <2>3, <3>1, LeftOver
  <2> QED BY <2>2, <2>3
<1> QED BY <1>1, WiringInvariance, PTL

\* Nobody but the client could write to what a server reads.
Deserted ==
  client # "running" =>
    \A a \in Attempt : server[a] = "running" => owner[a]["w2"] = "closed"

LEMMA StepDeserted == WiringInv /\ Deserted /\ [Next]_vars => Deserted'
<1> SUFFICES ASSUME WiringInv, Deserted, [Next]_vars PROVE Deserted'
  OBVIOUS
<1> USE DEF WiringInv
\* The client starts servers and gives ends away only while it runs on.
<1>1. CASE client' = "running"
  BY <1>1 DEF Deserted
<1>2. ASSUME (\E a \in Attempt : NewBufferPanics(a)) \/ ClientEnds
      PROVE  Deserted'
  <2>1. client = "running" /\ server' = server /\ Closes("client", Attempt)
    BY <1>2 DEF NewBufferPanics, ClientEnds, Making
  <2>2. ASSUME NEW a \in Attempt, server[a] = "running"
        PROVE  owner'[a]["w2"] = "closed"
    <3>1. Has(a, "client") = {"r1", "w2"}
      BY <2>1, <2>2 DEF Wiring
    <3>2. "w2" \in End /\ owner[a]["w2"] = "client"
      BY <3>1 DEF Has, End
    <3> QED BY <2>1, <3>2 DEF Closes
  <2> QED BY <2>1, <2>2 DEF Deserted
<1>3. ASSUME NEW a \in Attempt, ServerFails(a) \/ ServerSeesEnd(a)
      PROVE  Deserted'
  <2>1. /\ client' = client /\ Closes("server", {a})
        /\ server' = [server EXCEPT ![a] = "ended"]
    BY <1>3 DEF ServerFails, ServerSeesEnd, ServerEnds
  <2>2. ASSUME NEW b \in Attempt, client # "running", server'[b] = "running"
        PROVE  owner'[b]["w2"] = "closed"
    <3>1. server[b] = "running"
      BY <2>1, <2>2 DEF TypeOK
    <3>2. "w2" \in End /\ owner[b]["w2"] = "closed"
      BY <2>2, <3>1 DEF Deserted, End
    <3> QED BY <2>1, <3>2 DEF Closes
  <2> QED BY <2>1, <2>2 DEF Deserted
<1>4. ASSUME NEW a \in Attempt,
             \/ FirstPipe(a) \/ SecondPipe(a) \/ SpawnProcess(a)
             \/ NewReader(a) \/ NewWriter(a) \/ FreeChannel(a)
      PROVE  client' = "running"
  BY <1>4 DEF FirstPipe, SecondPipe, SpawnProcess, NewReader, NewWriter, FreeChannel, Making
<1>5. CASE Finished \/ UNCHANGED vars
  BY <1>5 DEF Finished, vars, wires, Deserted
<1> QED
  BY <1>1, <1>2, <1>3, <1>4, <1>5 DEF Next

\* Once the client has ended or panicked, every server that still runs can see it:
\* the other end of the pipe it reads from is closed, and the client has left no
\* copy of it open.  No further server starts, and one that has ended stays ended.
THEOREM ServersSeeTheEnd ==
  Spec => /\ [](client # "running" =>
                  \A a \in Attempt : server[a] = "running" =>
                    owner[a][Peer[inherited[a][1]]] = "closed")
          /\ [][client # "running" =>
                  /\ client' = client
                  /\ \A a \in Attempt : server[a] # "running" => server'[a] = server[a]]_vars
<1>1. Init => Deserted
  BY DEF Init, Deserted
<1>2. Spec => []Deserted
  BY <1>1, StepDeserted, WiringInvariance, PTL DEF Spec
<1>3. WiringInv /\ Deserted =>
        (client # "running" =>
           \A a \in Attempt : server[a] = "running" =>
             owner[a][Peer[inherited[a][1]]] = "closed")
  <2> SUFFICES ASSUME WiringInv, Deserted, client # "running",
                      NEW a \in Attempt, server[a] = "running"
               PROVE  owner[a][Peer[inherited[a][1]]] = "closed"
    OBVIOUS
  <2>1. inherited[a] = <<"r2", "w1">>
    BY DEF WiringInv, Wiring
  <2>2. Peer[inherited[a][1]] = "w2"
    BY <2>1 DEF Peer
  <2> QED BY <2>2 DEF Deserted
<1>4. WiringInv /\ [Next]_vars =>
        [client # "running" =>
           /\ client' = client
           /\ \A a \in Attempt : server[a] # "running" => server'[a] = server[a]]_vars
  <2> SUFFICES ASSUME WiringInv, Next, client # "running"
               PROVE  /\ client' = client
                      /\ \A a \in Attempt : server[a] # "running" => server'[a] = server[a]
    OBVIOUS
  <2>1. (\E b \in Attempt : ServerFails(b) \/ ServerSeesEnd(b)) \/ Finished
    BY DEF Next, FirstPipe, SecondPipe, SpawnProcess, NewReader, NewWriter,
           NewBufferPanics, FreeChannel, ClientEnds, Making
  <2>2. CASE Finished
    BY <2>2 DEF Finished, vars, wires
  <2>3. ASSUME NEW b \in Attempt, ServerFails(b) \/ ServerSeesEnd(b)
        PROVE  /\ client' = client
               /\ \A a \in Attempt : server[a] # "running" => server'[a] = server[a]
    BY <2>3 DEF ServerFails, ServerSeesEnd, ServerEnds, WiringInv, TypeOK
  <2> QED BY <2>1, <2>2, <2>3
<1> QED BY <1>2, <1>3, <1>4, WiringInvariance, PTL DEF Spec

-----------------------------------------------------------------------------
(* The I/O pool *)

\* Which attempts have a buffer.
Buffers ==
  \A a \in Attempt :
    /\ rblock[a] # Null => progress[a] \in {"reader", "open"}
    /\ wblock[a] # Null => progress[a] = "open"
    /\ progress[a] = "reader" => rblock[a] # Null
    /\ lang = "c" /\ progress[a] = "open" => rblock[a] # Null /\ wblock[a] # Null

\* No two buffers are the same block.
Apart ==
  \A a, b \in Attempt :
    /\ rblock[a] # Null => rblock[a] # wblock[b]
    /\ a # b /\ rblock[a] # Null => rblock[a] # rblock[b]
    /\ a # b /\ wblock[a] # Null => wblock[a] # wblock[b]

\* The flags of the blocks say which of them are buffers.
FlagsMatch == \A c \in Pool!Blocks : c \in ioUsed <=> c \in Held

\* One attempt after the other.
InOrder == \A a, b \in Attempt : a < b => Over(a) \/ progress[b] = "no"

IoInv ==
  /\ Buffers
  /\ Apart
  /\ FlagsMatch
  /\ InOrder
  /\ EnoughIoBlocks

LEMMA HeldFacts ==
  \A c : c \in Held <=> c # Null /\ \E a \in Attempt : rblock[a] = c \/ wblock[a] = c
  BY DEF Held

\* With no more blocks than an int has bits, a mask has one block's flag.
LEMMA MaskOfOne ==
  ASSUME BlockCount <= IntBits, NEW b \in Pool!Blocks, NEW c \in Pool!Blocks
  PROVE  c \in Pool!Mask(b) <=> c = b
<1>1. b \in 0 .. IntBits - 1 /\ c \in 0 .. IntBits - 1 /\ b % IntBits = b
  BY WidthAssumption DEF Pool!Blocks
<1>2. Pool!Mask(b) = IF b = IntBits - 1 THEN b .. FlagBits - 1 ELSE {b}
  BY <1>1 DEF Pool!Mask
<1> QED BY <1>1, <1>2, WidthAssumption

\* A channel that is open counts, also when it has no buffers.
LEMMA OpenFinite == IsFiniteSet(Attempt) /\ IsFiniteSet(Open)
<1>1. IsFiniteSet(Attempt)
  BY FS_Interval, SpawnAssumption DEF Attempt
<1>2. Open \in SUBSET Attempt
  BY DEF Open
<1> QED BY <1>1, <1>2, FS_Subset

\* The buffers of the open channels and of the attempt being made: two each, and
\* one.
LEMMA HeldBound ==
  ASSUME TypeOK, Buffers, NEW a \in Attempt,
         progress[a] # "open",
         \A b \in Attempt : progress[b] = "reader" => b = a
  PROVE  IsFiniteSet(Held) /\ Cardinality(Held) <= 2 * Cardinality(Open) + 1
<1> DEFINE R == {rblock[b] : b \in Open}
           W == {wblock[b] : b \in Open}
           All == R \cup W \cup {rblock[a]}
<1>1. IsFiniteSet(Open)
  BY OpenFinite
<1>2. IsFiniteSet(R) /\ Cardinality(R) <= Cardinality(Open)
  <2>1. [b \in Open |-> rblock[b]] \in Surjection(Open, R)
    BY DEF Surjection
  <2> HIDE DEF R
  <2> QED BY <1>1, <2>1, FS_Surjection
<1>3. IsFiniteSet(W) /\ Cardinality(W) <= Cardinality(Open)
  <2>1. [b \in Open |-> wblock[b]] \in Surjection(Open, W)
    BY DEF Surjection
  <2> HIDE DEF W
  <2> QED BY <1>1, <2>1, FS_Surjection
<1>4. Held \in SUBSET All
  <2> SUFFICES ASSUME NEW c, c \in Held PROVE c \in All
    OBVIOUS
  <2>1. PICK b \in Attempt : c # Null /\ (rblock[b] = c \/ wblock[b] = c)
    BY HeldFacts
  <2>2. CASE wblock[b] = c
    BY <2>1, <2>2 DEF Buffers, Open
  <2>3. CASE rblock[b] = c
    BY <2>1, <2>3 DEF Buffers, Open
  <2> QED BY <2>1, <2>2, <2>3
<1> HIDE DEF R, W
<1>5. /\ Cardinality(Open) \in Nat /\ Cardinality(R) \in Nat /\ Cardinality(W) \in Nat
      /\ IsFiniteSet(R \cap W) /\ Cardinality(R \cap W) \in Nat
  <2>1. R \cap W \in SUBSET R
    OBVIOUS
  <2> QED BY <1>1, <1>2, <1>3, <2>1, FS_Subset, FS_CardinalityType
<1>6. IsFiniteSet(R \cup W) /\ Cardinality(R \cup W) <= 2 * Cardinality(Open)
  <2>1. /\ IsFiniteSet(R \cup W)
        /\ Cardinality(R \cup W) = Cardinality(R) + Cardinality(W) - Cardinality(R \cap W)
    BY <1>2, <1>3, FS_Union
  <2> QED BY <1>2, <1>3, <1>5, <2>1
<1>7. IsFiniteSet(All) /\ Cardinality(All) <= 2 * Cardinality(Open) + 1
  <2>1. /\ IsFiniteSet(All)
        /\ Cardinality(All) = IF rblock[a] \in R \cup W THEN Cardinality(R \cup W)
                                                        ELSE Cardinality(R \cup W) + 1
    BY <1>6, FS_AddElement
  <2>2. Cardinality(R \cup W) \in Nat
    BY <1>6, FS_CardinalityType
  <2> QED BY <1>5, <1>6, <2>1, <2>2
<1> HIDE DEF All
<1>8. IsFiniteSet(Held) /\ Cardinality(Held) <= Cardinality(All)
  BY <1>4, <1>7, FS_Subset
<1>9. Cardinality(Held) \in Nat /\ Cardinality(All) \in Nat
  BY <1>7, <1>8, FS_CardinalityType
<1> QED BY <1>5, <1>7, <1>8, <1>9

LEMMA InitIo == Init => IoInv
<1> SUFFICES ASSUME Init PROVE IoInv
  OBVIOUS
<1>1. Held = {}
  BY HeldFacts DEF Init
<1>2. Buffers /\ Apart
  BY DEF Init, Buffers, Apart
<1>3. FlagsMatch
  BY <1>1 DEF Init, FlagsMatch
<1>4. InOrder /\ EnoughIoBlocks
  BY DEF Init, InOrder, EnoughIoBlocks
<1> QED BY <1>2, <1>3, <1>4 DEF IoInv

\* The order of the attempts survives a step of one of them.
LEMMA OrderKept ==
  ASSUME InOrder, NEW a \in Attempt,
         \A b \in Attempt : b # a => progress'[b] = progress[b],
         \/ Making(a) /\ ~ Over(a)
         \/ Over(a) /\ Over(a)'
  PROVE  InOrder'
<1> SUFFICES ASSUME NEW b \in Attempt, NEW c \in Attempt, b < c
             PROVE  Over(b)' \/ progress'[c] = "no"
  BY DEF InOrder
<1>0. b \in Int /\ c \in Int
  BY DEF Attempt
<1>1. Over(b) \/ progress[c] = "no"
  BY DEF InOrder
<1>2. CASE b # a /\ c # a
  BY <1>1, <1>2 DEF Over
<1>3. CASE b = a
  <2>1. c # a
    BY <1>0, <1>3
  <2> QED BY <1>1, <1>3, <2>1 DEF Over
<1>4. CASE c = a
  <2>1. Making(a) => Over(b)
    <3>1. b \in 1 .. c - 1
      BY <1>0 DEF Attempt
    <3> QED BY <1>4, <3>1 DEF Making
  <2>2. Over(b)
    BY <1>1, <1>4, <2>1 DEF Over
  <2> QED BY <1>4, <2>2 DEF Over
<1> QED BY <1>2, <1>3, <1>4

\* A step that leaves the pool alone.
LEMMA PoolKept ==
  ASSUME IoInv, UNCHANGED memory, UNCHANGED lang, NEW a \in Attempt,
         \A b \in Attempt : b # a => progress'[b] = progress[b],
         progress[a] \in {"no", "first", "second"},
         lang = "rust" \/ progress'[a] # "open",
         progress'[a] # "reader",
         Making(a), client' = "running"
  PROVE  IoInv'
<1> USE DEF IoInv
<1>1. UNCHANGED <<ioUsed, rblock, wblock>>
  BY DEF memory
<1>2. Buffers'
  <2> SUFFICES ASSUME NEW b \in Attempt
               PROVE  /\ rblock[b] # Null => progress'[b] \in {"reader", "open"}
                      /\ wblock[b] # Null => progress'[b] = "open"
                      /\ progress'[b] = "reader" => rblock[b] # Null
                      /\ lang = "c" /\ progress'[b] = "open" =>
                           rblock[b] # Null /\ wblock[b] # Null
    BY <1>1 DEF Buffers
  <2>1. CASE b = a
    BY <2>1 DEF Buffers
  <2>2. CASE b # a
    BY <2>2 DEF Buffers
  <2> QED BY <2>1, <2>2
<1>3. Apart'
  BY <1>1 DEF Apart
<1>4. FlagsMatch'
  BY <1>1 DEF FlagsMatch, Held
<1>5. InOrder'
  BY OrderKept DEF Over
<1>6. EnoughIoBlocks'
  BY DEF EnoughIoBlocks
<1> QED BY <1>2, <1>3, <1>4, <1>5, <1>6

\* What a new buffer does to the pool.
LEMMA GetsFacts ==
  ASSUME BlockCount <= IntBits, Setup = "iobuf", FlagsMatch,
         NEW block \in Pool!Blocks, Gets(block)
  PROVE  /\ block \notin Held /\ block # Null
         /\ \A c \in Pool!Blocks : c \in ioUsed' <=> c \in Held \/ c = block
<1>1. block \notin Held
  BY DEF Gets, Pool!FirstFree, FlagsMatch
<1>2. block # Null
  BY WidthAssumption DEF Pool!Blocks, Null
<1>3. ioUsed' = ioUsed \cup Pool!Mask(block)
  BY DEF Gets
<1> QED BY <1>1, <1>2, <1>3, MaskOfOne DEF FlagsMatch

LEMMA NewReaderIo ==
  ASSUME TypeOK, IoInv, BlockCount <= IntBits, Setup = "iobuf", NEW a \in Attempt,
         NewReader(a)
  PROVE  IoInv'
<1> USE DEF IoInv
<1>1. PICK block \in Pool!Blocks : Gets(block) /\ rblock' = [rblock EXCEPT ![a] = block]
  BY DEF NewReader
<1>2. /\ block \notin Held /\ block # Null
      /\ \A c \in Pool!Blocks : c \in ioUsed' <=> c \in Held \/ c = block
  BY <1>1, GetsFacts
<1>3. /\ rblock'[a] = block /\ \A b \in Attempt : b # a => rblock'[b] = rblock[b]
      /\ wblock' = wblock /\ lang' = lang /\ client' = client
      /\ progress'[a] = "reader"
      /\ \A b \in Attempt : b # a => progress'[b] = progress[b]
      /\ progress[a] = "spawned" /\ client = "running" /\ Making(a)
  BY <1>1 DEF NewReader, TypeOK, Goes, Making
<1>4. rblock[a] = Null /\ wblock[a] = Null
  BY <1>3 DEF Buffers
<1>5. \A b \in Attempt : rblock[b] # block /\ wblock[b] # block
  BY <1>2, HeldFacts
<1>6. Buffers'
  BY <1>2, <1>3, <1>4 DEF Buffers
<1>7. Apart'
  <2> SUFFICES ASSUME NEW b \in Attempt, NEW c \in Attempt
               PROVE  /\ rblock'[b] # Null => rblock'[b] # wblock'[c]
                      /\ b # c /\ rblock'[b] # Null => rblock'[b] # rblock'[c]
                      /\ b # c /\ wblock'[b] # Null => wblock'[b] # wblock'[c]
    BY DEF Apart
  <2> QED BY <1>3, <1>5 DEF Apart
<1>8. \A c : c \in Held' <=> c \in Held \/ c = block
  <2>1. \A c : c \in Held' <=>
           c # Null /\ \E b \in Attempt : rblock'[b] = c \/ wblock'[b] = c
    BY DEF Held
  <2> QED BY <1>2, <1>3, <1>4, <2>1, HeldFacts
<1>9. FlagsMatch'
  BY <1>2, <1>8 DEF FlagsMatch, Pool!Blocks
<1>10. InOrder'
  BY <1>3, OrderKept DEF Over
<1>11. EnoughIoBlocks'
  BY <1>3 DEF EnoughIoBlocks
<1> QED BY <1>6, <1>7, <1>9, <1>10, <1>11

LEMMA NewWriterIo ==
  ASSUME TypeOK, IoInv, BlockCount <= IntBits, Setup = "iobuf", NEW a \in Attempt,
         NewWriter(a)
  PROVE  IoInv'
<1> USE DEF IoInv
<1>1. PICK block \in Pool!Blocks : Gets(block) /\ wblock' = [wblock EXCEPT ![a] = block]
  BY DEF NewWriter
<1>2. /\ block \notin Held /\ block # Null
      /\ \A c \in Pool!Blocks : c \in ioUsed' <=> c \in Held \/ c = block
  BY <1>1, GetsFacts
<1>3. /\ wblock'[a] = block /\ \A b \in Attempt : b # a => wblock'[b] = wblock[b]
      /\ rblock' = rblock /\ lang' = lang /\ client' = client
      /\ progress'[a] = "open"
      /\ \A b \in Attempt : b # a => progress'[b] = progress[b]
      /\ progress[a] = "reader" /\ client = "running" /\ Making(a)
  BY <1>1 DEF NewWriter, TypeOK, Goes, Making
<1>4. wblock[a] = Null /\ rblock[a] # Null
  BY <1>3 DEF Buffers
<1>5. \A b \in Attempt : rblock[b] # block /\ wblock[b] # block
  BY <1>2, HeldFacts
<1>6. Buffers'
  BY <1>2, <1>3, <1>4 DEF Buffers
<1>7. Apart'
  <2> SUFFICES ASSUME NEW b \in Attempt, NEW c \in Attempt
               PROVE  /\ rblock'[b] # Null => rblock'[b] # wblock'[c]
                      /\ b # c /\ rblock'[b] # Null => rblock'[b] # rblock'[c]
                      /\ b # c /\ wblock'[b] # Null => wblock'[b] # wblock'[c]
    BY DEF Apart
  <2> QED BY <1>3, <1>5 DEF Apart
<1>8. \A c : c \in Held' <=> c \in Held \/ c = block
  <2>1. \A c : c \in Held' <=>
           c # Null /\ \E b \in Attempt : rblock'[b] = c \/ wblock'[b] = c
    BY DEF Held
  <2> QED BY <1>2, <1>3, <1>4, <2>1, HeldFacts
<1>9. FlagsMatch'
  BY <1>2, <1>8 DEF FlagsMatch, Pool!Blocks
<1>10. InOrder'
  BY <1>3, OrderKept DEF Over
<1>11. EnoughIoBlocks'
  BY <1>3 DEF EnoughIoBlocks
<1> QED BY <1>6, <1>7, <1>9, <1>10, <1>11

\* A channel's two blocks are its own.
LEMMA FreeChannelIo ==
  ASSUME TypeOK, IoInv, BlockCount <= IntBits, NEW a \in Attempt, FreeChannel(a)
  PROVE  IoInv'
<1> USE DEF IoInv
<1> DEFINE r == rblock[a]
           w == wblock[a]
<1>1. /\ lang = "c" /\ client = "running" /\ progress[a] = "open"
      /\ ioUsed' = ioUsed \ (Pool!Mask(r) \cup Pool!Mask(w))
      /\ rblock'[a] = Null /\ \A b \in Attempt : b # a => rblock'[b] = rblock[b]
      /\ wblock'[a] = Null /\ \A b \in Attempt : b # a => wblock'[b] = wblock[b]
      /\ lang' = lang /\ client' = client
      /\ progress'[a] = "freed"
      /\ \A b \in Attempt : b # a => progress'[b] = progress[b]
  BY DEF FreeChannel, TypeOK, Goes
<1>2. r # Null /\ w # Null
  BY <1>1 DEF Buffers
<1>3. r \in Pool!Blocks /\ w \in Pool!Blocks
  BY <1>2 DEF TypeOK
<1>4. \A b \in Attempt : b # a =>
        rblock[b] # r /\ rblock[b] # w /\ wblock[b] # r /\ wblock[b] # w
  BY <1>2 DEF Apart
<1> HIDE DEF r, w
<1>5. Buffers'
  BY <1>1 DEF Buffers
<1>6. Apart'
  <2> SUFFICES ASSUME NEW b \in Attempt, NEW c \in Attempt
               PROVE  /\ rblock'[b] # Null => rblock'[b] # wblock'[c]
                      /\ b # c /\ rblock'[b] # Null => rblock'[b] # rblock'[c]
                      /\ b # c /\ wblock'[b] # Null => wblock'[b] # wblock'[c]
    BY DEF Apart
  <2> QED BY <1>1 DEF Apart
<1>7. \A c : c \in Held' <=> c \in Held /\ c # r /\ c # w
  <2>1. \A c : c \in Held' <=>
           c # Null /\ \E b \in Attempt : rblock'[b] = c \/ wblock'[b] = c
    BY DEF Held
  <2> QED BY <1>1, <1>4, <2>1, HeldFacts DEF r, w
<1>8. FlagsMatch'
  <2>1. \A c \in Pool!Blocks : c \in ioUsed' <=> c \in ioUsed /\ c # r /\ c # w
    BY <1>1, <1>3, MaskOfOne
  <2> QED BY <1>7, <2>1 DEF FlagsMatch, Pool!Blocks
<1>9. InOrder'
  BY <1>1, OrderKept DEF Over
<1>10. EnoughIoBlocks'
  BY <1>1 DEF EnoughIoBlocks
<1> QED BY <1>5, <1>6, <1>8, <1>9, <1>10

\* A panic means that every block is a buffer.
LEMMA PanicIo ==
  ASSUME TypeOK, IoInv, BlockCount <= IntBits, Setup = "iobuf",
         NEW a \in Attempt, NewBufferPanics(a)
  PROVE  IoInv'
<1> USE DEF IoInv
<1>1. /\ UNCHANGED <<lang, progress, ioUsed, rblock, wblock>>
      /\ Making(a) /\ progress[a] \in {"spawned", "reader"}
      /\ Pool!NoneFree(ioUsed)
  BY DEF NewBufferPanics, GetsNone, memory
<1>2. Buffers' /\ Apart' /\ FlagsMatch' /\ InOrder'
  BY <1>1 DEF Buffers, Apart, FlagsMatch, Held, InOrder, Over
<1>3. \A b \in Attempt : progress[b] = "reader" => b = a
  <2> SUFFICES ASSUME NEW b \in Attempt, b # a PROVE progress[b] # "reader"
    OBVIOUS
  <2>1. b < a \/ a < b
    BY DEF Attempt
  <2>2. CASE b < a
    <3>1. b \in 1 .. a - 1
      BY <2>2 DEF Attempt
    <3> QED BY <1>1, <3>1 DEF Making, Over
  <2>3. CASE a < b
    BY <1>1, <2>3 DEF InOrder, Over
  <2> QED BY <2>1, <2>2, <2>3
<1>4. IsFiniteSet(Held) /\ Cardinality(Held) <= 2 * Cardinality(Open) + 1
  BY <1>1, <1>3, HeldBound
<1>5. Pool!Blocks \in SUBSET Held
  BY <1>1 DEF Pool!NoneFree, FlagsMatch
<1>6. Cardinality(Pool!Blocks) = BlockCount
  BY FS_Interval, WidthAssumption DEF Pool!Blocks
<1>7. BlockCount <= Cardinality(Held)
  BY <1>4, <1>5, <1>6, FS_Subset
<1>8. Cardinality(Held) \in Nat /\ Cardinality(Open) \in Nat /\ BlockCount \in Nat
  BY <1>4, OpenFinite, FS_CardinalityType, WidthAssumption
<1>9. 2 * (Cardinality(Open) + 1) > BlockCount
  BY <1>4, <1>7, <1>8
<1>10. EnoughIoBlocks'
  BY <1>1, <1>9 DEF EnoughIoBlocks, Open
<1> QED BY <1>2, <1>10

\* Every step keeps the pool's invariant.
LEMMA StepIo ==
  ASSUME TypeOK, IoInv, BlockCount <= IntBits, Setup = "iobuf", [Next]_vars
  PROVE  IoInv'
<1>1. ASSUME NEW a \in Attempt, FirstPipe(a) \/ SecondPipe(a)
      PROVE  IoInv'
  <2>1. /\ progress[a] \in {"no", "first"} /\ Making(a) /\ client' = "running"
        /\ UNCHANGED lang /\ UNCHANGED memory
        /\ progress'[a] \in {"first", "second", "failed"}
        /\ \A b \in Attempt : b # a => progress'[b] = progress[b]
    BY <1>1 DEF FirstPipe, SecondPipe, Goes, Making, TypeOK
  <2> QED BY <2>1, PoolKept
<1>2. ASSUME NEW a \in Attempt, SpawnProcess(a)
      PROVE  IoInv'
  <2>1. /\ progress[a] = "second" /\ Making(a) /\ client' = "running"
        /\ UNCHANGED lang /\ UNCHANGED memory
        /\ lang = "rust" \/ progress'[a] # "open"
        /\ progress'[a] # "reader"
        /\ \A b \in Attempt : b # a => progress'[b] = progress[b]
    BY <1>2 DEF SpawnProcess, Goes, Making, TypeOK
  <2> QED BY <2>1, PoolKept
<1>3. ASSUME \/ ClientEnds \/ Finished \/ UNCHANGED vars
             \/ \E a \in Attempt : ServerFails(a) \/ ServerSeesEnd(a)
      PROVE  IoInv'
  <2>1. /\ UNCHANGED <<lang, progress, ioUsed, rblock, wblock>>
        /\ client' = client \/ client' = "ended"
    BY <1>3 DEF ClientEnds, Finished, ServerFails, ServerSeesEnd, ServerEnds, vars, wires, memory
  <2>2. Buffers' /\ Apart' /\ FlagsMatch' /\ InOrder'
    BY <2>1 DEF IoInv, Buffers, Apart, FlagsMatch, Held, InOrder, Over
  <2>3. EnoughIoBlocks'
    BY <2>1 DEF IoInv, EnoughIoBlocks, Open
  <2> QED BY <2>2, <2>3 DEF IoInv
<1> QED
  BY <1>1, <1>2, <1>3, NewReaderIo, NewWriterIo, FreeChannelIo, PanicIo DEF Next

\* A C client that has initialised its I/O pool runs out of blocks only with
\* more channels than the README counts on, whatever it opened and freed before,
\* as long as an int has a bit for every block.
THEOREM EnoughBlocksForChannels ==
  BlockCount <= IntBits /\ Setup = "iobuf" => (Spec => []EnoughIoBlocks)
<1> SUFFICES ASSUME BlockCount <= IntBits, Setup = "iobuf"
             PROVE  Spec => []EnoughIoBlocks
  OBVIOUS
<1>1. WiringInv => TypeOK
  BY DEF WiringInv
<1>2. TypeOK /\ IoInv /\ [Next]_vars => IoInv'
  BY StepIo
<1>3. IoInv => EnoughIoBlocks
  BY DEF IoInv
<1> QED BY <1>1, <1>2, <1>3, InitIo, WiringInvariance, PTL DEF Spec
=============================================================================
