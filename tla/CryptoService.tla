--------------------------- MODULE CryptoService ---------------------------
(***************************************************************************)
(* The cryptographic service: a server that keeps hashers between calls,   *)
(* named by numbers that it hands to its client, and four checks of        *)
(* signatures that keep nothing.                                           *)
(*                                                                         *)
(* Calls go through a session that promises what Rpc states, so a call may *)
(* run and its reply still be lost; the generated client then panics.  An  *)
(* error of the service itself is a reply like another.  Its replies are   *)
(* numbers, lists of bytes and plain enumerations, which always decode at  *)
(* their client, so the session's answer "unread" does not occur.          *)
(*                                                                         *)
(* A client may pass any number as a context (HasherCtx is a number that   *)
(* can be copied), as one it has finalized.  The data fed to a hasher is a *)
(* sequence of chunks, a digest the type and the chunks it was made from,  *)
(* and the argument of a check the set of what is wrong with it.           *)
(***************************************************************************)
EXTENDS Integers, Sequences, FiniteSets

CONSTANTS
  MaxCalls,    \* bound: the calls a client makes
  HasherType,  \* CkbBlake2b, Blake2b, Sha256, Ripemd160
  Data         \* chunks of data

ASSUME CallsAssumption == MaxCalls \in Nat

VARIABLES
  hashers,  \* the map of contexts
  count,    \* hasher_count
  call,     \* the call that the client has made last
  reply,    \* what the service's method has returned, NoReply before
  view,     \* what the client knows of each context it was given
  issued, ran, answer, up  \* the session, see Rpc

session == <<issued, ran, answer, up>>
vars == <<hashers, count, call, reply, view, session>>

Session == INSTANCE Rpc

NoReply == <<"none">>
Context == 0 .. MaxCalls

\* A hasher holds its state until finalize takes it, and is then dropped.
Hasher == [type : HasherType, fed : Seq(Data)]

\* What the four checks look at, in order: what may be wrong, and the error.
RecoverySteps ==
  << <<"signature", "InvalidSig">>, <<"prehash", "InvalidPrehash">>,
     <<"recovery_id", "InvalidRecoveryId">>, <<"reduced_x", "InvalidRecoveryId">>,
     <<"point", "RecoveryFailed">>, <<"key", "RecoveryFailed">> >>

VerifySteps ==
  << <<"signature", "InvalidSig">>, <<"public_key", "InvalidPubkey">>,
     <<"match", "VerifyFailed">> >>

SchnorrSteps == VerifySteps

Ed25519Steps ==
  << <<"signature", "InvalidSig">>, <<"key_length", "InvalidPubkey">>,
     <<"public_key", "InvalidPubkey">>, <<"match", "VerifyFailed">> >>

Steps == [secp256k1_recovery |-> RecoverySteps, secp256k1_verify |-> VerifySteps,
          schnorr_verify |-> SchnorrSteps, ed25519_verify |-> Ed25519Steps]

Faults(method) == {Steps[method][i][1] : i \in DOMAIN Steps[method]}

Call ==
  [method : {"hasher_new"}, type : HasherType]
    \cup [method : {"hasher_update"}, ctx : Context, data : Data]
    \cup [method : {"hasher_finalize"}, ctx : Context]
    \cup UNION {[method : {m}, bad : SUBSET Faults(m)] : m \in DOMAIN Steps}

TypeOK ==
  /\ DOMAIN hashers \subseteq 0 .. count - 1
  /\ \A id \in DOMAIN hashers : hashers[id] \in Hasher
  /\ count \in 0 .. MaxCalls
  /\ call \in Call \cup {NoReply}
  /\ \A id \in DOMAIN view : view[id] \in [hasher : Hasher, live : BOOLEAN]
  /\ issued \in 0 .. MaxCalls

Init ==
  /\ hashers = <<>> /\ count = 0
  /\ call = NoReply /\ reply = NoReply
  /\ view = <<>>
  /\ Session!Init

\* f with the value v at x.
With(f, x, v) == [y \in DOMAIN f \cup {x} |-> IF y = x THEN v ELSE f[y]]
Without(f, x) == [y \in DOMAIN f \ {x} |-> f[y]]

New(type) == [type |-> type, fed |-> <<>>]
Fed(hasher, data) == [type |-> hasher.type, fed |-> Append(hasher.fed, data)]

-----------------------------------------------------------------------------
(* The service's methods *)

\* Faulty variant: a context is named by how many there are.
HasherNewReuse(type) ==
  LET id == Cardinality(DOMAIN hashers) IN
  /\ hashers' = With(hashers, id, New(type))
  /\ count' = count + 1
  /\ reply' = <<"ctx", id>>

\* Faulty variant: the counter is read after it was incremented.
HasherNewLate(type) ==
  /\ count' = count + 1
  /\ hashers' = With(hashers, count + 1, New(type))
  /\ reply' = <<"ctx", count + 1>>

HasherNew(type) ==
  /\ hashers' = With(hashers, count, New(type))
  /\ count' = count + 1
  /\ reply' = <<"ctx", count>>

InvalidContext(ctx) ==
  /\ ctx \notin DOMAIN hashers
  /\ reply' = <<"err", "InvalidContext">>
  /\ UNCHANGED <<hashers, count>>

HasherUpdate(ctx, data) ==
  \/ InvalidContext(ctx)
  \/ /\ ctx \in DOMAIN hashers
     /\ hashers' = With(hashers, ctx, Fed(hashers[ctx], data))
     /\ reply' = <<"unit">>
     /\ UNCHANGED count

\* Faulty variant: the context is looked up and stays.
HasherFinalizeKeeps(ctx) ==
  \/ InvalidContext(ctx)
  \/ /\ ctx \in DOMAIN hashers
     /\ reply' = <<"digest", hashers[ctx]>>
     /\ UNCHANGED <<hashers, count>>

HasherFinalize(ctx) ==
  \/ InvalidContext(ctx)
  \/ /\ ctx \in DOMAIN hashers
     /\ hashers' = Without(hashers, ctx)
     /\ reply' = <<"digest", hashers[ctx]>>
     /\ UNCHANGED count

\* A check returns the error of the first thing that is wrong.
Check(steps, bad) ==
  /\ \/ /\ \A i \in DOMAIN steps : steps[i][1] \notin bad
        /\ reply' = <<"unit">>
     \/ \E i \in DOMAIN steps :
          /\ steps[i][1] \in bad
          /\ \A j \in 1 .. i - 1 : steps[j][1] \notin bad
          /\ reply' = <<"err", steps[i][2]>>
  /\ UNCHANGED <<hashers, count>>

-----------------------------------------------------------------------------
(* A session with the service *)

\* The client has panicked on a lost reply.
Gone == issued > 0 /\ answer[issued] = "err"

\* The client calls a method.
ClientCalls(c) ==
  /\ ~ Gone
  /\ Session!Issue
  /\ call' = c /\ reply' = NoReply
  /\ UNCHANGED <<hashers, count, view>>

\* The server runs the method.
Serve ==
  /\ Session!Run
  /\ \/ call.method = "hasher_new" /\ HasherNew(call.type)
     \/ call.method = "hasher_update" /\ HasherUpdate(call.ctx, call.data)
     \/ call.method = "hasher_finalize" /\ HasherFinalize(call.ctx)
     \/ call.method \in DOMAIN Steps /\ Check(Steps[call.method], call.bad)
  /\ UNCHANGED <<call, view>>

\* What the client knows once a call has returned.
Known ==
  CASE call.method = "hasher_new" ->
         With(view, reply[2], [hasher |-> New(call.type), live |-> TRUE])
    [] call.method = "hasher_update" /\ reply[1] = "unit" ->
         With(view, call.ctx,
              [hasher |-> Fed(view[call.ctx].hasher, call.data), live |-> TRUE])
    [] call.method = "hasher_finalize" /\ reply[1] = "digest" ->
         With(view, call.ctx, [hasher |-> view[call.ctx].hasher, live |-> FALSE])
    [] OTHER -> view

ClientGetsReply ==
  /\ Session!AnswerOk
  /\ view' = Known
  /\ UNCHANGED <<hashers, count, call, reply>>

\* The reply is lost, or there is no server any more.
ClientPanics ==
  /\ Session!AnswerErr
  /\ UNCHANGED <<hashers, count, call, reply, view>>

\* run_server returns an error.
ServerStops == Session!Stop /\ UNCHANGED <<hashers, count, call, reply, view>>

\* The client has ended and the server after it.
Finished ==
  /\ Gone \/ (issued = MaxCalls /\ ~ Session!Open)
  /\ ~ up
  /\ UNCHANGED vars

Next ==
  \/ \E c \in Call : ClientCalls(c)
  \/ Serve \/ ClientGetsReply \/ ClientPanics \/ ServerStops \/ Finished

Spec == Init /\ [][Next]_vars

-----------------------------------------------------------------------------

Live == {id \in DOMAIN view : view[id].live}

\* Every reply is what the client must expect from what it knows, whatever was
\* called in between: a new context has a number that no other ever had; another
\* is refused exactly when it is not live; a digest is of the type and of all
\* the data of its own context, in order; a check fails only for a reason.
ReplyFitsView ==
  reply # NoReply /\ Session!Open =>
    /\ call.method = "hasher_new" =>
         reply[1] = "ctx" /\ reply[2] \notin DOMAIN view
    /\ call.method = "hasher_update" =>
         reply = IF call.ctx \in Live THEN <<"unit">> ELSE <<"err", "InvalidContext">>
    /\ call.method = "hasher_finalize" =>
         reply = IF call.ctx \in Live THEN <<"digest", view[call.ctx].hasher>>
                                       ELSE <<"err", "InvalidContext">>
    /\ call.method \in DOMAIN Steps =>
         LET steps == Steps[call.method]
             reasons == {i \in DOMAIN steps : steps[i][1] \in call.bad}
         IN  \/ reasons = {} /\ reply = <<"unit">>
             \/ \E i \in reasons : reply = <<"err", steps[i][2]>>

\* Between two calls the service has exactly the hashers that its client still
\* has to finalize, each with what the client fed to it: none is left behind,
\* none is lost and none has what was fed to another.
ServiceFitsView ==
  ~ Session!Open /\ ~ Gone =>
    /\ DOMAIN hashers = Live
    /\ \A id \in Live : hashers[id] = view[id].hasher
=============================================================================
