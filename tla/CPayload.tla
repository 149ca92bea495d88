------------------------------ MODULE CPayload ------------------------------
(***************************************************************************)
(* The payload blocks of a C program.  A server's loop (csi_run_server)    *)
(* allocates one for the payload of a request, its callback one for that   *)
(* of the response, and the loop gives both back.  A client's main, and a  *)
(* callback that is a client of other servers, passes CSIResponsePacket    *)
(* variables to csi_call, which allocates for each payload, and frees each *)
(* with csi_client_free_response_payload; a callback frees all before it   *)
(* returns ("Freeing any allocated memory for next loop").                 *)
(*                                                                         *)
(* csi_call writes the payload pointer only when there is a payload, so    *)
(* what the variable holds before the call matters: all zero when the      *)
(* caller clears it, its last contents when it does not (a variable        *)
(* declared without a value inside a loop keeps its place on the stack).   *)
(***************************************************************************)
EXTENDS PoolWidths

CONSTANTS
  Slot,    \* the response variables that the program passes to csi_call
  Clears   \* it clears a variable before each call

ASSUME ClearsAssumption == Clears \in BOOLEAN

VARIABLES
  used,      \* used_flags of g_payload_allocator
  ended,     \* why the process has panicked, "no" before
  at,        \* where the loop is; "client" in a program that only calls
  request,   \* the payload of the request, Null or a block
  response,  \* the payload of the response
  payload,   \* the payload pointer of each response variable
  state      \* of each variable: "ready" for a call, "full" when the last call
             \* allocated, "empty" when it did not; both still to be freed

vars == <<used, ended, at, request, response, payload, state>>

Null == -1

\* The block that a call allocated for the variable s and nobody has freed.
Block(s) == IF state[s] = "full" THEN payload[s] ELSE Null

\* What the program holds.
Held == ({request, response} \cup {Block(s) : s \in Slot}) \ {Null}

Pool == INSTANCE FixedAllocator WITH held <- Held

TypeOK ==
  /\ used \subseteq Pool!Bits
  /\ ended \in {"no", "full", "too_large"}
  /\ at \in {"client", "receive", "serve", "served", "send", "sent", "returned"}
  /\ request \in Pool!Blocks \cup {Null}
  /\ response \in Pool!Blocks \cup {Null}
  /\ payload \in [Slot -> Pool!Blocks \cup {Null}]
  /\ state \in [Slot -> {"ready", "full", "empty"}]

Init ==
  /\ used = {} /\ ended = "no"
  /\ at \in {"client", "receive"}
  /\ request = Null /\ response = Null
  /\ payload = [s \in Slot |-> Null]
  /\ state = [s \in Slot |-> "ready"]

\* The program's own code runs: main of a client, or a server's callback.
Calling == ended = "no" /\ at \in {"client", "serve"}

\* payload_malloc gives the block.
Gets(block) ==
  /\ Pool!FirstFree(used, block)
  /\ used' = used \cup Pool!Mask(block)
  /\ UNCHANGED ended

-----------------------------------------------------------------------------
(* A client's variables *)

\* Faulty variant: the library leaves the variable as it is.
BeforeStale(s) == payload[s]

\* Faulty variant: a variable without a payload gets a pointer to nowhere.
BeforeWild(s) == Null - 1

\* The payload pointer of s when csi_call starts.
Before(s) == IF Clears THEN Null ELSE payload[s]

\* csi_call without a payload: the response has none, or sending or receiving
\* fails before its length is known.
CallEmpty(s) ==
  /\ Calling
  /\ state[s] = "ready"
  /\ payload' = [payload EXCEPT ![s] = Before(s)]
  /\ state' = [state EXCEPT ![s] = "empty"]
  /\ UNCHANGED <<used, ended, at, request, response>>

\* csi_call with a payload, which keeps its block when reading it fails too.
CallPayload(s) ==
  /\ Calling
  /\ state[s] = "ready"
  /\ \E block \in Pool!Blocks :
        Gets(block) /\ payload' = [payload EXCEPT ![s] = block]
  /\ state' = [state EXCEPT ![s] = "full"]
  /\ UNCHANGED <<at, request, response>>

\* Faulty variant: the block of a full variable is kept.
FreeNothing(s) ==
  /\ Calling
  /\ state[s] # "ready"
  /\ state' = [state EXCEPT ![s] = "ready"]
  /\ UNCHANGED <<used, ended, at, request, response, payload>>

\* csi_client_free_response_payload: whatever the pointer says is freed, and
\* the pointer stays.
Free(s) ==
  /\ Calling
  /\ state[s] # "ready"
  /\ used' = IF payload[s] = Null THEN used ELSE used \ Pool!Mask(payload[s])
  /\ state' = [state EXCEPT ![s] = "ready"]
  /\ UNCHANGED <<ended, at, request, response, payload>>

-----------------------------------------------------------------------------
(* A server's loop *)

\* csi_receive_request, whose payload, if there is one, gets a block.
Receive ==
  /\ ended = "no" /\ at = "receive"
  /\ \/ UNCHANGED <<used, ended, request>>
     \/ \E block \in Pool!Blocks : Gets(block) /\ request' = block
  /\ at' = "serve"
  /\ UNCHANGED <<response, payload, state>>

\* csi_server_malloc_response_payload, called by the callback once.
MallocResponse ==
  /\ ended = "no" /\ at = "serve"
  /\ response = Null
  /\ \E block \in Pool!Blocks : Gets(block) /\ response' = block
  /\ UNCHANGED <<at, request, payload, state>>

\* The callback returns 0.
Served ==
  /\ ended = "no" /\ at = "serve"
  /\ \A s \in Slot : state[s] = "ready"
  /\ at' = "served"
  /\ UNCHANGED <<used, ended, request, response, payload, state>>

\* Faulty variant: the request's variable keeps the pointer.
FreeRequestKeeping ==
  /\ ended = "no" /\ at = "served"
  /\ used' = IF request = Null THEN used ELSE used \ Pool!Mask(request)
  /\ at' = "send"
  /\ UNCHANGED <<ended, request, response, payload, state>>

\* payload_free of the request, before the response is sent.
FreeRequest ==
  /\ ended = "no" /\ at = "served"
  /\ used' = IF request = Null THEN used ELSE used \ Pool!Mask(request)
  /\ request' = Null
  /\ at' = "send"
  /\ UNCHANGED <<ended, response, payload, state>>

\* csi_send_response returns 0.
Sent ==
  /\ ended = "no" /\ at = "send"
  /\ at' = "sent"
  /\ UNCHANGED <<used, ended, request, response, payload, state>>

\* Faulty variant: the response is freed on the way to an error only.
FreeResponseNot ==
  /\ ended = "no" /\ at = "sent"
  /\ response' = Null
  /\ at' = "receive"
  /\ UNCHANGED <<used, ended, request, payload, state>>

\* csi_client_free_response_payload of the response; the next round begins
\* with cleared packets.
FreeResponse ==
  /\ ended = "no" /\ at = "sent"
  /\ used' = IF response = Null THEN used ELSE used \ Pool!Mask(response)
  /\ response' = Null
  /\ at' = "receive"
  /\ UNCHANGED <<ended, request, payload, state>>

\* An error of receiving, of the callback or of sending ends the loop.
Fail ==
  /\ ended = "no" /\ at \in {"receive", "serve", "send"}
  /\ at' = "returned"
  /\ UNCHANGED <<used, ended, request, response, payload, state>>

-----------------------------------------------------------------------------

\* A payload_malloc is still to come at this point.
Allocates ==
  \/ at = "receive"
  \/ at = "serve" /\ response = Null
  \/ Calling /\ \E s \in Slot : state[s] = "ready"

\* payload_malloc gives nothing, as none is free or the size is more than that
\* of a block, and its caller panics.
MallocPanics ==
  /\ ended = "no"
  /\ Allocates
  /\ \/ /\ Pool!NoneFree(used)
        /\ ended' = "full"
        /\ UNCHANGED used
     \/ /\ ended' = "too_large"
        /\ \E block \in Pool!Blocks :
              Pool!FirstFree(used, block) /\ used' = used \cup Pool!Mask(block)
  /\ UNCHANGED <<at, request, response, payload, state>>

\* The process has panicked, or main has returned.
Over == (ended # "no" \/ at = "returned") /\ UNCHANGED vars

Next ==
  \/ \E s \in Slot : CallEmpty(s) \/ CallPayload(s) \/ Free(s)
  \/ Receive \/ MallocResponse \/ Served \/ FreeRequest \/ Sent \/ FreeResponse
  \/ MallocPanics \/ Fail \/ Over

Spec == Init /\ [][Next]_vars

-----------------------------------------------------------------------------

\* The request, the response and the responses of the program's own calls never
\* share a block, and each of their blocks is marked as used.
NoSharedBlock ==
  ended = "no" =>
    /\ Held \subseteq used
    /\ request # Null => request # response
    /\ \A s \in Slot : Block(s) # Null =>
          Block(s) \notin {request, response} \cup {Block(t) : t \in Slot \ {s}}

\* A round of the loop leaves no block behind, however it went.
NothingKept == ended = "no" /\ at = "receive" => used = {}

\* c/README.md, on block_count: no block is lost over any number of calls and
\* rounds.  The program runs out only when every block that an int can mask is
\* held by a packet that is in use.
NoBlockLost == Pool!FullOnlyWhenHeld

\* The program uses the allocator as it must be used: it frees only what it
\* holds, and every block it holds came from a malloc.
KeepsDiscipline == Pool!Spec
=============================================================================
