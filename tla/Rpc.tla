-------------------------------- MODULE Rpc --------------------------------
(***************************************************************************)
(* What a session between one client and one spawned server promises,      *)
(* whatever carries the packets: a client that asks one thing at a time, a *)
(* server that runs a call at most once and only while it is up, and       *)
(* answers that say what happened.                                         *)
(*                                                                         *)
(* A failure is final for the server: it never serves again after the      *)
(* first error (channel.rs, execute).  A call that failed after its        *)
(* request was sent therefore has no server left, with one exception,      *)
(* which is an answer of its own: "unread", the error of a call that ran   *)
(* and whose value reached the client but could not be deserialized there. *)
(* The server knows nothing of it and serves the calls that follow.        *)
(***************************************************************************)
EXTENDS Naturals

CONSTANT MaxCalls

VARIABLES
  issued,  \* the number of calls the client has made
  ran,     \* how often the service has run each call
  answer,  \* what each call has returned
  up       \* the server may still run calls

abstractVars == <<issued, ran, answer, up>>

Calls == 1 .. MaxCalls

\* The last call has not returned.
Open == issued > 0 /\ answer[issued] = "none"

Init ==
  /\ issued = 0
  /\ ran = [i \in Calls |-> 0]
  /\ answer = [i \in Calls |-> "none"]
  /\ up = TRUE

\* The client makes its next call; it may fail on the spot, whether the server is
\* up or not (the request does not serialize).
Issue ==
  /\ ~ Open
  /\ issued < MaxCalls
  /\ issued' = issued + 1
  /\ \/ answer' = answer
     \/ answer' = [answer EXCEPT ![issued + 1] = "err"]
  /\ UNCHANGED <<ran, up>>

\* The service runs the open call, once; running it may bring the server down.
Run ==
  /\ Open
  /\ up
  /\ ran[issued] = 0
  /\ ran' = [ran EXCEPT ![issued] = 1]
  /\ up' \in BOOLEAN
  /\ UNCHANGED <<issued, answer>>

\* A call that ran returns its value.
AnswerOk ==
  /\ Open
  /\ ran[issued] = 1
  /\ answer' = [answer EXCEPT ![issued] = "ok"]
  /\ UNCHANGED <<issued, ran, up>>

\* A call that ran returns an error because its value cannot be read.
AnswerUnread ==
  /\ Open
  /\ ran[issued] = 1
  /\ answer' = [answer EXCEPT ![issued] = "unread"]
  /\ UNCHANGED <<issued, ran, up>>

\* Any other error of a call that was sent is returned only when no server is
\* left to run it.
AnswerErr ==
  /\ Open
  /\ ~ up
  /\ answer' = [answer EXCEPT ![issued] = "err"]
  /\ UNCHANGED <<issued, ran, up>>

Stop ==
  /\ up
  /\ up' = FALSE
  /\ UNCHANGED <<issued, ran, answer>>

Next == Issue \/ Run \/ AnswerOk \/ AnswerUnread \/ AnswerErr \/ Stop

Spec == Init /\ [][Next]_abstractVars
=============================================================================
