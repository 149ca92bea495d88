------------------------------- MODULE Spawn -------------------------------
(***************************************************************************)
(* How a client gets a server: spawn_server and spawn_cell_server of the   *)
(* Rust crate, csi_spawn_server and csi_spawn_cell_server of the C         *)
(* library, and run_server and csi_run_server up to their loop.            *)
(*                                                                         *)
(* Each attempt makes two pipes, (r1, w1) and (r2, w2), hands r2 and w1 to *)
(* the new process and keeps r1 and w2.  Any of the three system calls may *)
(* fail, and what was made by then stays open in the client.  The VM moves *)
(* the ends that are handed over and closes those of a process that ends.  *)
(*                                                                         *)
(* A C client then takes two blocks of its I/O pool, one for the reader    *)
(* and one for the writer, and csi_free_channel gives them back.           *)
(***************************************************************************)
EXTENDS PoolWidths, Sequences

CONSTANTS
  MaxAttempt,  \* bound: how often the client tries to get a server
  Setup,       \* what a C client called first: "iobuf" for csi_init_iobuf,
               \* "malloc" for csi_init_malloc
  Memory,      \* the largest length that a malloc of the caller's has room for
  AllOnes      \* the largest word, more than any memory

ASSUME SpawnAssumption == MaxAttempt \in Nat /\ Setup \in {"iobuf", "malloc"}
ASSUME LengthAssumption == Memory \in Nat /\ AllOnes \in Nat /\ Memory < AllOnes

Attempt == 1 .. MaxAttempt
End == {"r1", "w1", "r2", "w2"}
Peer == [r1 |-> "w1", w1 |-> "r1", r2 |-> "w2", w2 |-> "r2"]
Null == -1
NoEnds == <<>>

VARIABLES
  lang,       \* the client's language, "rust" or "c"
  client,     \* "running", "ended" or "panicked"
  server,     \* of each attempt: "none", "running" or "ended"
  progress,   \* how far the attempt is; "open" when the client has a channel,
              \* "freed" after csi_free_channel
  owner,      \* of each end of its pipes: the attempt's server, the client ...
  inherited,  \* the ends its server finds, reader and writer
  channel,    \* the ends of the client's channel, reader and writer
  ioUsed,     \* used_flags of g_iobuf_allocator
  rblock,     \* the block of the channel's reader, Null or a block
  wblock      \* the block of its writer

wires == <<server, progress, owner, inherited, channel>>
memory == <<ioUsed, rblock, wblock>>
vars == <<lang, client, wires, memory>>

\* The blocks of channels.
Held == ({rblock[a] : a \in Attempt} \cup {wblock[a] : a \in Attempt}) \ {Null}

Pool == INSTANCE FixedAllocator
          WITH used <- ioUsed, held <- Held,
               ended <- IF client = "panicked" THEN "full" ELSE "no"

TypeOK ==
  /\ lang \in {"rust", "c"}
  /\ client \in {"running", "ended", "panicked"}
  /\ server \in [Attempt -> {"none", "running", "ended"}]
  /\ progress \in [Attempt -> {"no", "first", "second", "spawned", "reader",
                               "open", "freed", "failed"}]
  /\ owner \in [Attempt -> [End -> {"none", "client", "server", "closed"}]]
  /\ inherited \in [Attempt -> {NoEnds} \cup (End \X End)]
  /\ channel \in [Attempt -> {NoEnds} \cup (End \X End)]
  /\ ioUsed \subseteq Pool!Bits
  /\ rblock \in [Attempt -> Pool!Blocks \cup {Null}]
  /\ wblock \in [Attempt -> Pool!Blocks \cup {Null}]

Init ==
  /\ lang \in {"rust", "c"}
  /\ client = "running"
  /\ server = [a \in Attempt |-> "none"]
  /\ progress = [a \in Attempt |-> "no"]
  /\ owner = [a \in Attempt |-> [e \in End |-> "none"]]
  /\ inherited = [a \in Attempt |-> NoEnds]
  /\ channel = [a \in Attempt |-> NoEnds]
  /\ ioUsed = {}
  /\ rblock = [a \in Attempt |-> Null]
  /\ wblock = [a \in Attempt |-> Null]

Over(a) == progress[a] \in {"open", "freed", "failed"}

\* The attempt that the client is making.
Making(a) == client = "running" /\ \A b \in 1 .. a - 1 : Over(b)

Goes(a, to) == progress' = [progress EXCEPT ![a] = to]
Owns(a, ends, who) ==
  owner' = [owner EXCEPT ![a] =
             [e \in End |-> IF e \in ends THEN who ELSE owner[a][e]]]

\* A process that ends closes the ends it has.
Closes(who, attempts) ==
  owner' = [a \in Attempt |->
             [e \in End |-> IF a \in attempts /\ owner[a][e] = who THEN "closed"
                                                                ELSE owner[a][e]]]

-----------------------------------------------------------------------------
(* The client *)

\* The first pipe; before it, a C client looks for the cell.
FirstPipe(a) ==
  /\ Making(a) /\ progress[a] = "no"
  /\ \/ Owns(a, {"r1", "w1"}, "client") /\ Goes(a, "first")
     \/ Goes(a, "failed") /\ UNCHANGED owner
  /\ UNCHANGED <<lang, client, server, inherited, channel, memory>>

SecondPipe(a) ==
  /\ Making(a) /\ progress[a] = "first"
  /\ \/ Owns(a, {"r2", "w2"}, "client") /\ Goes(a, "second")
     \/ Goes(a, "failed") /\ UNCHANGED owner
  /\ UNCHANGED <<lang, client, server, inherited, channel, memory>>

\* Faulty variant: the server gets both ends of the second pipe.
HandedSame == <<"r2", "w2">>

\* Faulty variant: the server gets the first pipe's reader.
HandedFirst == <<"r1", "w2">>

\* inherited_fds.  The VM reads the array up to a zero.  The C library ends its
\* array with one; that of spawn_server in Rust has none, and what follows it is
\* taken for a zero here.
Handed == <<"r2", "w1">>

\* The spawn, in Rust with the look for the cell; a Rust client has its channel.
SpawnProcess(a) ==
  /\ Making(a) /\ progress[a] = "second"
  /\ \/ /\ server' = [server EXCEPT ![a] = "running"]
        /\ inherited' = [inherited EXCEPT ![a] = Handed]
        /\ Owns(a, {Handed[1], Handed[2]}, "server")
        /\ channel' = [channel EXCEPT ![a] = <<"r1", "w2">>]
        /\ Goes(a, IF lang = "rust" THEN "open" ELSE "spawned")
     \/ /\ Goes(a, "failed")
        /\ UNCHANGED <<server, inherited, owner, channel>>
  /\ UNCHANGED <<lang, client, memory>>

\* block_count of g_iobuf_allocator, and its len counted in blocks: csi_init_iobuf
\* sets them, and they are zero before.
PoolLength == IF Setup = "iobuf" THEN BlockCount ELSE 0

\* A division by zero is undefined in C; the instruction of RISC-V gives all ones.
Divided(x, y) == IF y = 0 THEN AllOnes ELSE x \div y

\* The length that new_buffer asks for, whichever malloc it asks.
BufLen == Divided(PoolLength, PoolLength)

\* iobuf_malloc has a block: the first free one of the pool, or whatever the
\* caller's malloc gives, which has any number of blocks of a length it has room
\* for.
Gets(block) ==
  IF Setup = "iobuf"
  THEN Pool!FirstFree(ioUsed, block) /\ ioUsed' = ioUsed \cup Pool!Mask(block)
  ELSE BufLen <= Memory /\ block \notin Held /\ UNCHANGED ioUsed

\* It has none.
GetsNone == IF Setup = "iobuf" THEN Pool!NoneFree(ioUsed) ELSE BufLen > Memory

\* new_buffer panics, which ends the process.
NewBufferPanics(a) ==
  /\ Making(a) /\ progress[a] \in {"spawned", "reader"}
  /\ GetsNone
  /\ client' = "panicked"
  /\ Closes("client", Attempt)
  /\ UNCHANGED <<lang, server, progress, inherited, channel, memory>>

\* new_buf_reader, whose new_buffer gets a block.
NewReader(a) ==
  /\ Making(a) /\ progress[a] = "spawned"
  /\ \E block \in Pool!Blocks : Gets(block) /\ rblock' = [rblock EXCEPT ![a] = block]
  /\ Goes(a, "reader")
  /\ UNCHANGED <<lang, client, server, owner, inherited, channel, wblock>>

\* new_buf_writer; the client has its channel.
NewWriter(a) ==
  /\ Making(a) /\ progress[a] = "reader"
  /\ \E block \in Pool!Blocks : Gets(block) /\ wblock' = [wblock EXCEPT ![a] = block]
  /\ Goes(a, "open")
  /\ UNCHANGED <<lang, client, server, owner, inherited, channel, rblock>>

\* The attempt that is being made, if there is one, has not begun.
Idle == \A a \in Attempt : Over(a) \/ progress[a] = "no"

\* Faulty variant: the writer's buffer is forgotten.
FreeChannelReader(a) ==
  /\ lang = "c" /\ client = "running" /\ Idle
  /\ progress[a] = "open"
  /\ ioUsed' = ioUsed \ Pool!Mask(rblock[a])
  /\ rblock' = [rblock EXCEPT ![a] = Null]
  /\ wblock' = [wblock EXCEPT ![a] = Null]
  /\ Goes(a, "freed")
  /\ UNCHANGED <<lang, client, server, owner, inherited, channel>>

\* csi_free_channel: the two blocks; the ends of the pipes stay open.
FreeChannel(a) ==
  /\ lang = "c" /\ client = "running" /\ Idle
  /\ progress[a] = "open"
  /\ ioUsed' = ioUsed \ (Pool!Mask(rblock[a]) \cup Pool!Mask(wblock[a]))
  /\ rblock' = [rblock EXCEPT ![a] = Null]
  /\ wblock' = [wblock EXCEPT ![a] = Null]
  /\ Goes(a, "freed")
  /\ UNCHANGED <<lang, client, server, owner, inherited, channel>>

ClientEnds ==
  /\ client = "running" /\ Idle
  /\ client' = "ended"
  /\ Closes("client", Attempt)
  /\ UNCHANGED <<lang, server, progress, inherited, channel, memory>>

-----------------------------------------------------------------------------
(* A server *)

ServerEnds(a) ==
  /\ server' = [server EXCEPT ![a] = "ended"]
  /\ Closes("server", {a})
  /\ UNCHANGED <<lang, client, progress, inherited, channel, memory>>

\* Its loop ends at an error of its own.
ServerFails(a) == server[a] = "running" /\ ServerEnds(a)

\* It waits for a request when nobody can write one any more.
ServerSeesEnd(a) ==
  /\ server[a] = "running"
  /\ owner[a][Peer[inherited[a][1]]] = "closed"
  /\ ServerEnds(a)

Finished ==
  /\ client # "running" /\ \A a \in Attempt : server[a] # "running"
  /\ UNCHANGED vars

Next ==
  \/ \E a \in Attempt :
        \/ FirstPipe(a) \/ SecondPipe(a) \/ SpawnProcess(a)
        \/ NewReader(a) \/ NewWriter(a) \/ NewBufferPanics(a) \/ FreeChannel(a)
        \/ ServerFails(a) \/ ServerSeesEnd(a)
  \/ ClientEnds \/ Finished

Spec == Init /\ [][Next]_vars /\ \A a \in Attempt : WF_vars(ServerSeesEnd(a))

-----------------------------------------------------------------------------

\* The client reads from the pipe its server writes to and writes to the one it
\* reads from; while it runs, it has these two ends of each channel, freed or
\* not, all that its failed attempts made, and nothing of what it handed over.
Wired ==
  \A a \in Attempt :
    /\ server[a] # "none" =>
         /\ Peer[channel[a][1]] = inherited[a][2]
         /\ Peer[inherited[a][1]] = channel[a][2]
         /\ {channel[a][1], inherited[a][1]} = {"r1", "r2"}
         /\ server[a] = "running" =>
              {e \in End : owner[a][e] = "server"} = {inherited[a][1], inherited[a][2]}
    /\ client = "running" =>
         LET kept == {e \in End : owner[a][e] = "client"} IN
         IF server[a] # "none" THEN kept = {channel[a][1], channel[a][2]}
                               ELSE Cardinality(kept) \in {0, 2, 4}

Open == {a \in Attempt : progress[a] = "open"}

\* c/README.md on block_count: "at least 2 * number_of_concurrent_channels".  A
\* C client runs out of blocks only beyond that, whatever it opened and freed
\* before and however many attempts failed.
EnoughIoBlocks ==
  client = "panicked" => 2 * (Cardinality(Open) + 1) > BlockCount

\* Every server ends after its client, also one that was spawned just before
\* the client panicked, and one whose channel was freed.
ServersFollow ==
  (client # "running") ~> (\A a \in Attempt : server[a] # "running")

\* c/README.md: a program calls csi_init_payload and csi_init_iobuf or, "Option
\* B: Custom allocator", csi_init_malloc.  With the caller's own malloc, which
\* has room for any block, a client gets its channel.
MallocIsEnough == Setup = "malloc" => client # "panicked"
=============================================================================
