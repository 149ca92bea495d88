------------------------ MODULE CryptoService_proofs ------------------------
(***************************************************************************)
(* Proofs about CryptoService, for any number of calls and contexts, any   *)
(* hasher types and any data.                                              *)
(***************************************************************************)
EXTENDS CryptoService, TLAPS

\* The session's own variables, as far as the proofs need them.
SessionOK ==
  /\ issued \in 0 .. MaxCalls
  /\ ran \in [1 .. MaxCalls -> Nat]
  /\ answer \in [1 .. MaxCalls -> {"none", "ok", "err"}]
  /\ \A i \in 1 .. MaxCalls : i > issued => ran[i] = 0 /\ answer[i] = "none"

\* A call waits for the service, or its reply is on the way, or there is none
\* and the client may make one.
Waiting == Session!Open /\ ran[issued] = 0
Replied == Session!Open /\ ran[issued] # 0
Between == ~ Session!Open /\ ~ Gone

\* Contexts are numbered in the order in which they were made, and there are no
\* more of them than calls that ran.
Numbers ==
  /\ count \in 0 .. issued
  /\ Waiting => count < issued
  /\ DOMAIN hashers \subseteq 0 .. count - 1
  /\ DOMAIN view \subseteq 0 .. count - 1

ViewTyped(v) == \A id \in DOMAIN v : v[id] \in [hasher : Hasher, live : BOOLEAN]

Types ==
  /\ \A id \in DOMAIN hashers : hashers[id] \in Hasher
  /\ ViewTyped(view)
  /\ call \in Call \cup {NoReply}
  /\ Session!Open => call \in Call

\* The service's contexts are the live ones of the view v.
Agrees(v) ==
  /\ DOMAIN hashers = {id \in DOMAIN v : v[id].live}
  /\ \A id \in DOMAIN hashers : hashers[id] = v[id].hasher

\* While a reply is on the way, the service has already gone over to what the
\* client will know when it gets it.
Agreement ==
  /\ Between => Agrees(view)
  /\ Waiting => Agrees(view) /\ reply = NoReply
  /\ Replied => /\ Agrees(Known) /\ ViewTyped(Known)
                /\ DOMAIN Known \subseteq 0 .. count - 1

\* The inductive invariant.
Inv == SessionOK /\ Numbers /\ Types /\ Agreement /\ ReplyFitsView

-----------------------------------------------------------------------------
(* The maps and the calls *)

LEMMA HasherFacts ==
  /\ \A type \in HasherType : New(type) \in Hasher
  /\ \A h \in Hasher, data \in Data : Fed(h, data) \in Hasher
  BY DEF New, Fed, Hasher

\* The methods of the checks are none of the hashers'.
LEMMA MethodFacts ==
  DOMAIN Steps \cap {"hasher_new", "hasher_update", "hasher_finalize"} = {}
  BY DEF Steps

\* The arguments that a call has.
LEMMA CallFacts ==
  ASSUME NEW c \in Call
  PROVE  /\ c.method = "hasher_new" => c.type \in HasherType
         /\ c.method = "hasher_update" => c.ctx \in Context /\ c.data \in Data
         /\ c.method = "hasher_finalize" => c.ctx \in Context
<1>1. CASE c \in [method : {"hasher_new"}, type : HasherType]
  BY <1>1
<1>2. CASE c \in [method : {"hasher_update"}, ctx : Context, data : Data]
  BY <1>2
<1>3. CASE c \in [method : {"hasher_finalize"}, ctx : Context]
  BY <1>3
<1>4. CASE c \in UNION {[method : {m}, bad : SUBSET Faults(m)] : m \in DOMAIN Steps}
  <2>1. c.method \in DOMAIN Steps
    BY <1>4
  <2> QED BY <2>1, MethodFacts
<1> QED BY <1>1, <1>2, <1>3, <1>4 DEF Call

-----------------------------------------------------------------------------
(* The phases of a call *)

\* What each step of the session does to the phase.
LEMMA IssuePhase ==
  ASSUME SessionOK, ~ Gone, Session!Issue
  PROVE  /\ SessionOK' /\ Between /\ issued' = issued + 1
         /\ ~ Between' /\ ~ Replied'
<1>1. /\ ~ Session!Open /\ issued < MaxCalls /\ issued' = issued + 1 /\ ran' = ran
      /\ answer' = answer \/ answer' = [answer EXCEPT ![issued + 1] = "err"]
  BY DEF Session!Issue
<1>2. issued + 1 \in 1 .. MaxCalls /\ ran[issued + 1] = 0 /\ answer[issued + 1] = "none"
  BY <1>1, CallsAssumption DEF SessionOK
<1>3. answer'[issued'] \in {"none", "err"}
  BY <1>1, <1>2 DEF SessionOK
<1>4. SessionOK'
  BY <1>1, <1>2, CallsAssumption DEF SessionOK
<1>5. Between /\ ~ Between' /\ ~ Replied'
  BY <1>1, <1>2, <1>3 DEF Between, Replied, Gone, Session!Open, SessionOK
<1> QED BY <1>1, <1>4, <1>5

LEMMA RunPhase ==
  ASSUME SessionOK, Session!Run
  PROVE  /\ SessionOK' /\ Waiting /\ issued' = issued
         /\ Session!Open' /\ ~ Between' /\ ~ Waiting' /\ Replied'
<1>1. /\ Session!Open /\ ran[issued] = 0 /\ issued' = issued /\ answer' = answer
      /\ ran' = [ran EXCEPT ![issued] = 1]
  BY DEF Session!Run
<1>2. issued \in 1 .. MaxCalls
  BY <1>1 DEF Session!Open, SessionOK
<1>3. ran'[issued] = 1
  BY <1>1, <1>2 DEF SessionOK
<1>4. SessionOK'
  BY <1>1, <1>2 DEF SessionOK
<1> QED BY <1>1, <1>3, <1>4 DEF Waiting, Replied, Between, Session!Open

LEMMA OkPhase ==
  ASSUME SessionOK, Session!AnswerOk
  PROVE  /\ SessionOK' /\ Replied /\ issued' = issued
         /\ ~ Session!Open' /\ ~ Waiting' /\ ~ Replied'
<1>1. /\ Session!Open /\ ran[issued] = 1 /\ issued' = issued /\ ran' = ran
      /\ answer' = [answer EXCEPT ![issued] = "ok"]
  BY DEF Session!AnswerOk
<1>2. issued \in 1 .. MaxCalls
  BY <1>1 DEF Session!Open, SessionOK
<1>3. answer'[issued] = "ok"
  BY <1>1, <1>2 DEF SessionOK
<1>4. SessionOK'
  BY <1>1, <1>2 DEF SessionOK
<1> QED BY <1>1, <1>3, <1>4 DEF Waiting, Replied, Session!Open

LEMMA ErrPhase ==
  ASSUME SessionOK, Session!AnswerErr
  PROVE  /\ SessionOK' /\ issued' = issued
         /\ ~ Session!Open' /\ ~ Between' /\ ~ Waiting' /\ ~ Replied'
<1>1. /\ Session!Open /\ issued' = issued /\ ran' = ran
      /\ answer' = [answer EXCEPT ![issued] = "err"]
  BY DEF Session!AnswerErr
<1>2. issued \in 1 .. MaxCalls /\ issued > 0
  BY <1>1 DEF Session!Open, SessionOK
<1>3. answer'[issued] = "err"
  BY <1>1, <1>2 DEF SessionOK
<1>4. SessionOK'
  BY <1>1, <1>2 DEF SessionOK
<1> QED BY <1>1, <1>2, <1>3, <1>4 DEF Waiting, Replied, Between, Gone, Session!Open

LEMMA SamePhase ==
  ASSUME SessionOK, UNCHANGED <<issued, ran, answer>>
  PROVE  /\ SessionOK' /\ Session!Open' = Session!Open
         /\ Between' = Between /\ Waiting' = Waiting /\ Replied' = Replied
  BY DEF SessionOK, Between, Waiting, Replied, Gone, Session!Open

-----------------------------------------------------------------------------
(* The inductive step *)

LEMMA InitInv == Init => Inv
<1> SUFFICES ASSUME Init PROVE Inv
  OBVIOUS
<1>1. /\ DOMAIN hashers = {} /\ DOMAIN view = {} /\ count = 0 /\ issued = 0
      /\ call = NoReply /\ reply = NoReply
      /\ ran = [i \in 1 .. MaxCalls |-> 0] /\ answer = [i \in 1 .. MaxCalls |-> "none"]
  BY DEF Init, Session!Init, Session!Calls
<1>2. SessionOK /\ ~ Session!Open
  BY <1>1, CallsAssumption DEF SessionOK, Session!Open
<1>3. Numbers /\ Types /\ Agreement
  BY <1>1, <1>2 DEF Numbers, Types, ViewTyped, Agreement, Agrees, Waiting, Replied
<1> QED BY <1>1, <1>2, <1>3 DEF Inv, ReplyFitsView

\* hasher_new gives a number that no context has had.
LEMMA ServeNew ==
  ASSUME Inv, Serve, call.method = "hasher_new"
  PROVE  Inv'
<1>1. /\ SessionOK' /\ Waiting /\ issued' = issued /\ Session!Open /\ Session!Open'
      /\ ~ Between' /\ ~ Waiting' /\ Replied'
  BY RunPhase DEF Inv, Serve, Waiting
<1>2. UNCHANGED <<call, view>> /\ HasherNew(call.type)
  BY MethodFacts DEF Serve
<1>3. /\ hashers' = With(hashers, count, New(call.type))
      /\ count' = count + 1 /\ reply' = <<"ctx", count>>
  BY <1>2 DEF HasherNew
<1>4. /\ call \in Call /\ call.type \in HasherType
      /\ New(call.type) \in Hasher
  BY <1>1, CallFacts, HasherFacts DEF Inv, Types
<1>5. /\ count \in 0 .. issued /\ count < issued /\ issued \in 0 .. MaxCalls
      /\ DOMAIN hashers \subseteq 0 .. count - 1 /\ DOMAIN view \subseteq 0 .. count - 1
  BY <1>1, CallsAssumption DEF Inv, Numbers, SessionOK
<1>6. Agrees(view)
  BY <1>1 DEF Inv, Agreement
<1>7. DOMAIN hashers' = DOMAIN hashers \cup {count} /\ hashers'[count] = New(call.type)
  BY <1>3 DEF With
<1>8. \A id \in DOMAIN hashers : id # count /\ hashers'[id] = hashers[id]
  BY <1>3, <1>5 DEF With
<1> DEFINE known == [hasher |-> New(call.type), live |-> TRUE]
<1>9. Known' = With(view, count, known)
  BY <1>2, <1>3 DEF Known
<1>10. /\ DOMAIN Known' = DOMAIN view \cup {count} /\ Known'[count] = known
       /\ \A id \in DOMAIN view : id # count /\ Known'[id] = view[id]
  BY <1>5, <1>9 DEF With
<1>11. Numbers'
  BY <1>1, <1>2, <1>3, <1>5, <1>7, CallsAssumption DEF Numbers
<1>12. Types'
  BY <1>2, <1>4, <1>7, <1>8 DEF Inv, Types, ViewTyped
<1>13. ViewTyped(Known)' /\ DOMAIN Known' \subseteq 0 .. count' - 1
  <2>1. known \in [hasher : Hasher, live : BOOLEAN]
    BY <1>4
  <2> HIDE DEF known
  <2>2. \A id \in DOMAIN Known' : Known'[id] \in [hasher : Hasher, live : BOOLEAN]
    BY <1>10, <2>1 DEF Inv, Types, ViewTyped
  <2> QED BY <1>3, <1>5, <1>10, <2>2 DEF ViewTyped
<1>14. Agrees(Known)'
  BY <1>6, <1>7, <1>8, <1>10 DEF Agrees
<1>15. ReplyFitsView'
  BY <1>2, <1>3, <1>5, MethodFacts DEF ReplyFitsView
<1> QED BY <1>1, <1>11, <1>12, <1>13, <1>14, <1>15 DEF Inv, Agreement

\* hasher_update feeds the context that the client means, or refuses it.
LEMMA ServeUpdate ==
  ASSUME Inv, Serve, call.method = "hasher_update"
  PROVE  Inv'
<1> DEFINE ctx == call.ctx
<1>1. /\ SessionOK' /\ Waiting /\ issued' = issued /\ Session!Open /\ Session!Open'
      /\ ~ Between' /\ ~ Waiting' /\ Replied'
  BY RunPhase DEF Inv, Serve, Waiting
<1>2. UNCHANGED <<call, view>> /\ HasherUpdate(ctx, call.data)
  BY MethodFacts DEF Serve
<1>3. call \in Call /\ call.data \in Data
  BY <1>1, CallFacts DEF Inv, Types
<1>4. count' = count /\ count \in 0 .. issued /\ issued \in 0 .. MaxCalls
  BY <1>2 DEF HasherUpdate, InvalidContext, Inv, Numbers, SessionOK
<1>5. Agrees(view) /\ ViewTyped(view) /\ DOMAIN view \subseteq 0 .. count - 1
  BY <1>1 DEF Inv, Agreement, Types, Numbers
<1>6. CASE ctx \notin DOMAIN hashers
  <2>1. hashers' = hashers /\ reply' = <<"err", "InvalidContext">>
    BY <1>2, <1>6 DEF HasherUpdate, InvalidContext
  <2>2. Known' = view
    BY <1>2, <2>1 DEF Known
  <2>3. ctx \notin Live
    BY <1>5, <1>6 DEF Agrees, Live
  <2>4. Numbers' /\ Types'
    BY <1>1, <1>2, <1>3, <1>4, <2>1 DEF Inv, Numbers, Types, ViewTyped
  <2>5. Agreement'
    BY <1>1, <1>2, <1>4, <1>5, <2>1, <2>2 DEF Agreement, Agrees, ViewTyped
  <2>6. ReplyFitsView'
    BY <1>2, <2>1, <2>3, MethodFacts DEF ReplyFitsView, Live
  <2> QED BY <1>1, <2>4, <2>5, <2>6 DEF Inv
<1>7. CASE ctx \in DOMAIN hashers
  <2> DEFINE fed == Fed(hashers[ctx], call.data)
             known == [hasher |-> fed, live |-> TRUE]
  <2>1. hashers' = With(hashers, ctx, fed) /\ reply' = <<"unit">>
    BY <1>2, <1>7 DEF HasherUpdate, InvalidContext
  <2>2. ctx \in Live /\ ctx \in DOMAIN view /\ view[ctx].hasher = hashers[ctx]
    BY <1>5, <1>7 DEF Agrees, Live
  <2>3. Known' = With(view, ctx, known)
    BY <1>2, <2>1, <2>2 DEF Known
  <2>4. fed \in Hasher /\ known \in [hasher : Hasher, live : BOOLEAN]
    BY <1>3, <1>7, HasherFacts DEF Inv, Types
  <2>5. /\ DOMAIN hashers' = DOMAIN hashers /\ hashers'[ctx] = fed
        /\ \A id \in DOMAIN hashers : id # ctx => hashers'[id] = hashers[id]
    BY <1>7, <2>1 DEF With
  <2>6. /\ DOMAIN Known' = DOMAIN view /\ Known'[ctx] = known
        /\ \A id \in DOMAIN view : id # ctx => Known'[id] = view[id]
    BY <2>2, <2>3 DEF With
  <2>7. known.hasher = fed /\ known.live
    OBVIOUS
  <2> HIDE DEF fed, known
  <2>8. Numbers' /\ Types'
    BY <1>1, <1>2, <1>3, <1>4, <2>4, <2>5 DEF Inv, Numbers, Types, ViewTyped
  <2>9. Agrees(Known)'
    BY <1>5, <2>2, <2>5, <2>6, <2>7 DEF Agrees, Live
  <2>10. \A id \in DOMAIN Known' : Known'[id] \in [hasher : Hasher, live : BOOLEAN]
    BY <1>5, <2>4, <2>6 DEF ViewTyped
  <2>11. Agreement'
    BY <1>1, <1>4, <1>5, <2>6, <2>9, <2>10 DEF Agreement, ViewTyped
  <2>12. ReplyFitsView'
    BY <1>2, <2>1, <2>2, MethodFacts DEF ReplyFitsView, Live
  <2> QED BY <1>1, <2>8, <2>11, <2>12 DEF Inv
<1> QED BY <1>6, <1>7

\* hasher_finalize gives the digest of the context that the client means and
\* drops it, or refuses it.
LEMMA ServeFinalize ==
  ASSUME Inv, Serve, call.method = "hasher_finalize"
  PROVE  Inv'
<1> DEFINE ctx == call.ctx
<1>1. /\ SessionOK' /\ Waiting /\ issued' = issued /\ Session!Open /\ Session!Open'
      /\ ~ Between' /\ ~ Waiting' /\ Replied'
  BY RunPhase DEF Inv, Serve, Waiting
<1>2. UNCHANGED <<call, view>> /\ HasherFinalize(ctx)
  BY MethodFacts DEF Serve
<1>3. call \in Call
  BY <1>1 DEF Inv, Types
<1>4. count' = count /\ count \in 0 .. issued /\ issued \in 0 .. MaxCalls
  BY <1>2 DEF HasherFinalize, InvalidContext, Inv, Numbers, SessionOK
<1>5. Agrees(view) /\ ViewTyped(view) /\ DOMAIN view \subseteq 0 .. count - 1
  BY <1>1 DEF Inv, Agreement, Types, Numbers
<1>6. CASE ctx \notin DOMAIN hashers
  <2>1. hashers' = hashers /\ reply' = <<"err", "InvalidContext">>
    BY <1>2, <1>6 DEF HasherFinalize, InvalidContext
  <2>2. Known' = view
    BY <1>2, <2>1 DEF Known
  <2>3. ctx \notin Live
    BY <1>5, <1>6 DEF Agrees, Live
  <2>4. Numbers' /\ Types'
    BY <1>1, <1>2, <1>3, <1>4, <2>1 DEF Inv, Numbers, Types, ViewTyped
  <2>5. Agreement'
    BY <1>1, <1>2, <1>4, <1>5, <2>1, <2>2 DEF Agreement, Agrees, ViewTyped
  <2>6. ReplyFitsView'
    BY <1>2, <2>1, <2>3, MethodFacts DEF ReplyFitsView, Live
  <2> QED BY <1>1, <2>4, <2>5, <2>6 DEF Inv
<1>7. CASE ctx \in DOMAIN hashers
  <2> DEFINE known == [hasher |-> view[ctx].hasher, live |-> FALSE]
  <2>1. hashers' = Without(hashers, ctx) /\ reply' = <<"digest", hashers[ctx]>>
    BY <1>2, <1>7 DEF HasherFinalize, InvalidContext
  <2>2. ctx \in Live /\ ctx \in DOMAIN view /\ view[ctx].hasher = hashers[ctx]
    BY <1>5, <1>7 DEF Agrees, Live
  <2>3. Known' = With(view, ctx, known)
    BY <1>2, <2>1, <2>2 DEF Known
  <2>4. known \in [hasher : Hasher, live : BOOLEAN]
    BY <1>5, <2>2 DEF ViewTyped
  <2>5. /\ DOMAIN hashers' = DOMAIN hashers \ {ctx}
        /\ \A id \in DOMAIN hashers : id # ctx => hashers'[id] = hashers[id]
    BY <1>7, <2>1 DEF Without
  <2>6. /\ DOMAIN Known' = DOMAIN view /\ Known'[ctx] = known
        /\ \A id \in DOMAIN view : id # ctx => Known'[id] = view[id]
    BY <2>2, <2>3 DEF With
  <2>7. ~ known.live
    OBVIOUS
  <2> HIDE DEF known
  <2>8. Numbers' /\ Types'
    BY <1>1, <1>2, <1>3, <1>4, <2>5 DEF Inv, Numbers, Types, ViewTyped
  <2>9. Agrees(Known)'
    BY <1>5, <2>2, <2>5, <2>6, <2>7 DEF Agrees, Live
  <2>10. \A id \in DOMAIN Known' : Known'[id] \in [hasher : Hasher, live : BOOLEAN]
    BY <1>5, <2>4, <2>6 DEF ViewTyped
  <2>11. Agreement'
    BY <1>1, <1>4, <1>5, <2>6, <2>9, <2>10 DEF Agreement, ViewTyped
  <2>12. ReplyFitsView'
    BY <1>2, <2>1, <2>2, MethodFacts DEF ReplyFitsView, Live
  <2> QED BY <1>1, <2>8, <2>11, <2>12 DEF Inv
<1> QED BY <1>6, <1>7

\* A check changes nothing, and fails only for a reason.
LEMMA ServeCheck ==
  ASSUME Inv, Serve, call.method \in DOMAIN Steps
  PROVE  Inv'
<1> DEFINE steps == Steps[call.method]
<1>1. /\ SessionOK' /\ Waiting /\ issued' = issued /\ Session!Open /\ Session!Open'
      /\ ~ Between' /\ ~ Waiting' /\ Replied'
  BY RunPhase DEF Inv, Serve, Waiting
<1>2. UNCHANGED <<call, view>> /\ Check(steps, call.bad)
  BY MethodFacts DEF Serve
<1>3. UNCHANGED <<hashers, count>>
  BY <1>2 DEF Check
<1>4. Known' = view
  BY <1>2, MethodFacts DEF Known
<1>5. Agrees(view) /\ ViewTyped(view) /\ DOMAIN view \subseteq 0 .. count - 1
  BY <1>1 DEF Inv, Agreement, Types, Numbers
<1>6. Numbers' /\ Types'
  BY <1>1, <1>2, <1>3 DEF Inv, Numbers, Types, ViewTyped
<1>7. Agreement'
  BY <1>1, <1>3, <1>4, <1>5 DEF Agreement, Agrees, ViewTyped
<1>8. ReplyFitsView'
  <2>1. \/ /\ \A i \in DOMAIN steps : steps[i][1] \notin call.bad
           /\ reply' = <<"unit">>
        \/ \E i \in DOMAIN steps :
             steps[i][1] \in call.bad /\ reply' = <<"err", steps[i][2]>>
    BY <1>2 DEF Check
  <2> QED BY <1>2, <2>1, MethodFacts DEF ReplyFitsView
<1> QED BY <1>1, <1>6, <1>7, <1>8 DEF Inv

\* Every step keeps the invariant.
LEMMA StepInv == Inv /\ [Next]_vars => Inv'
<1> SUFFICES ASSUME Inv, [Next]_vars PROVE Inv'
  OBVIOUS
<1>1. ASSUME NEW c \in Call, ClientCalls(c)
      PROVE  Inv'
  <2>1. /\ SessionOK' /\ Between /\ issued' = issued + 1 /\ issued \in 0 .. MaxCalls
        /\ ~ Between' /\ ~ Replied'
    BY <1>1, IssuePhase DEF ClientCalls, Inv, SessionOK
  <2>2. call' = c /\ reply' = NoReply /\ UNCHANGED <<hashers, count, view>>
    BY <1>1 DEF ClientCalls
  <2>3. Numbers' /\ Types'
    BY <2>1, <2>2, CallsAssumption DEF Inv, Numbers, Types, ViewTyped
  <2>4. Agreement' /\ ReplyFitsView'
    BY <2>1, <2>2 DEF Inv, Agreement, Agrees, ReplyFitsView
  <2> QED BY <2>1, <2>3, <2>4 DEF Inv
<1>2. CASE Serve
  BY <1>2, ServeNew, ServeUpdate, ServeFinalize, ServeCheck DEF Serve
<1>3. CASE ClientGetsReply
  <2>1. /\ SessionOK' /\ Replied /\ issued' = issued
        /\ ~ Session!Open' /\ ~ Waiting' /\ ~ Replied'
    BY <1>3, OkPhase DEF ClientGetsReply, Inv
  <2>2. view' = Known /\ UNCHANGED <<hashers, count, call, reply>>
    BY <1>3 DEF ClientGetsReply
  <2>3. Agrees(Known) /\ ViewTyped(Known) /\ DOMAIN Known \subseteq 0 .. count - 1
    BY <2>1 DEF Inv, Agreement
  <2> HIDE DEF Known
  <2>4. Numbers' /\ Types'
    BY <2>1, <2>2, <2>3 DEF Inv, Numbers, Types, ViewTyped
  <2>5. Agreement' /\ ReplyFitsView'
    BY <2>1, <2>2, <2>3 DEF Agreement, Agrees, ReplyFitsView
  <2> QED BY <2>1, <2>4, <2>5 DEF Inv
<1>4. CASE ClientPanics
  <2>1. /\ SessionOK' /\ issued' = issued
        /\ ~ Session!Open' /\ ~ Between' /\ ~ Waiting' /\ ~ Replied'
    BY <1>4, ErrPhase DEF ClientPanics, Inv
  <2>2. UNCHANGED <<hashers, count, call, reply, view>>
    BY <1>4 DEF ClientPanics
  <2>3. Numbers' /\ Types' /\ Agreement' /\ ReplyFitsView'
    BY <2>1, <2>2 DEF Inv, Numbers, Types, ViewTyped, Agreement, ReplyFitsView
  <2> QED BY <2>1, <2>3 DEF Inv
<1>5. CASE ServerStops \/ Finished \/ UNCHANGED vars
  <2>1. UNCHANGED <<hashers, count, call, reply, view, issued, ran, answer>>
    BY <1>5 DEF ServerStops, Finished, vars, session, Session!Stop
  <2>2. /\ SessionOK' /\ Session!Open' = Session!Open
        /\ Between' = Between /\ Waiting' = Waiting /\ Replied' = Replied
    BY <2>1, SamePhase DEF Inv
  <2>3. Known' = Known
    BY <2>1 DEF Known
  <2>4. Numbers' /\ Types' /\ ReplyFitsView'
    BY <2>1, <2>2 DEF Inv, Numbers, Types, ViewTyped, ReplyFitsView, Live
  <2>5. Agreement'
    BY <2>1, <2>2, <2>3 DEF Inv, Agreement, Agrees, ViewTyped
  <2> QED BY <2>2, <2>4, <2>5 DEF Inv
<1> QED BY <1>1, <1>2, <1>3, <1>4, <1>5 DEF Next

\* Every reachable state satisfies it.
LEMMA Invariance == Spec => []Inv
  BY InitInv, StepInv, PTL DEF Spec

-----------------------------------------------------------------------------
(* What it gives *)

\* In every reachable state the contexts and what the client knows of them are
\* well formed, and every context has a number below the counter.
THEOREM TypeCorrect == Spec => []TypeOK
<1>1. Inv => TypeOK
  BY CallsAssumption DEF Inv, SessionOK, Numbers, Types, ViewTyped, TypeOK
<1> QED BY <1>1, Invariance, PTL

\* Every reply of the service is what its client must expect from the replies
\* it has had, whatever calls came in between.
THEOREM RepliesFit == Spec => []ReplyFitsView
<1>1. Inv => ReplyFitsView
  BY DEF Inv
<1> QED BY <1>1, Invariance, PTL

\* Between two calls the service has exactly the hashers that its client has
\* made and not finalized, each with what was fed to it.
THEOREM ServiceFits == Spec => []ServiceFitsView
<1>1. Inv => ServiceFitsView
  BY DEF Inv, Agreement, Between, Agrees, Live, ServiceFitsView
<1> QED BY <1>1, Invariance, PTL
=============================================================================
