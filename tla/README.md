# A verification project for ckb-script-ipc

ckb-script-ipc lets one CKB script call another: the caller *spawns* the callee as a second
process of the VM, the two are joined by two pipes, and requests and responses go over the pipes
as packets. The repository holds a Rust crate (with a macro that generates a client and a server
from a trait), a C library for the same wire format, a native backend that runs a script in a
thread of an off-chain program, and a service built on the crate (hashers and signatures).

This directory holds TLA+ modules that model those parts, TLC configurations that check them on
small instances, and proofs that the TLA+ proof system checks for every instance.

## 1. Inventory

### The session (Rust): `channel.rs`, `packet.rs`, `error.rs`, `ipc.rs`, the macro's output
* *State.* Each end is a `Channel`: a `BufReader` and a `BufWriter` over its pipe ends. Neither end
  keeps anything else between calls; a packet carries no request number, so what a response answers
  is known only from the order.
* *Operations.* Client: `call` = `send_request` then `receive_response`; the macro's methods, which
  panic on any error; `send_json_request` / `receive_json_response`, called one by one. Server:
  `execute` = receive, serve, send, for ever; on the first error it sends the error's code and
  returns.
* *Interaction.* Blocking writes and reads of two pipes. A process that ends closes its ends.
* *Hard.* Either process can end at any point between two blocking operations; a read that is
  blocked when the other end closes returns 0 bytes, a later one fails; a packet larger than the
  `BufWriter` is written directly and the number of bytes written is not looked at; an error can
  come after the service has had its effect; both ends can block in a write at once;
  a response that cannot be deserialized is an error for its caller only, and the server serves on.
* *Correct when* a value returned by a call is the value of that call's request, which ran exactly
  once; requests run at most once and in order; an error code is the one of the error that ended
  the server; the server runs nothing after its first error; every call returns; the server ends
  when its client does.

### The bytes below it (C): the buffered reader and writer of `c/ckb_script_ipc.c`
* *State.* Per end of a pipe a `CSIBuffer`: an array, `filled_len` and, for readers, `pos`.
* *Operations.* `buf_write`, `buf_flush`, `buf_read`, `csi_read_exact`, `csi_read_vlq`, and the
  send and receive functions built on them.
* *Hard.* A piece that just fits the buffer, does not fit, or is larger than the whole buffer; a
  packet whose bytes arrive in several reads; reads that return nothing or fail because the other
  end has gone; an error that has to pass through four layers of functions.
* *Correct when* the packets received are the packets sent, whole and in order, the end of the
  stream is seen only when there is one, and success is reported only for what happened.

### Memory (C): the fixed allocators and the payloads
* *State.* `used_flags`, one bit per block; the `payload` pointers of response variables.
* *Operations.* `fixed_allocator_malloc` / `_free`, `csi_call` (allocates),
  `csi_client_free_response_payload` (frees), and in the server loop the payloads of the request
  and the response of each round.
* *Hard.* The width of `1 << index`; a pointer that is stale when it is freed; long runs of legal
  calls that lose a block or hand one out twice.
* *Correct when* no block is in two hands, none is lost, and `block_count` blocks can be held.

### The native backend (Rust, off-chain): `native.rs`
* *State.* Two rendezvous channels (`sync_channel(0)`), the unread rest of the last message on
  each reading side, and the thread that runs the VM.
* *Operations.* `Pipe::read`, `write`, `close`/drop; the system calls read, write, inherited_fd,
  close; `spawn_server`.
* *Hard.* Threads: a drop of one end races with a blocked operation on the other; the two pipes of
  the client are dropped one after the other; the VM can fail to start after `spawn_server` has
  returned `Ok`.
* *Correct when* bytes arrive in order and complete, an end whose peer has gone is told so, nobody
  waits for a peer that has gone, and the VM thread ends after both pipes of the client are dropped.

### Spawning: `spawn.rs`, `csi_spawn_server`, `csi_spawn_cell_server`, `csi_run_server`
* *State.* The ends of the two pipes of each server, and in C the two I/O blocks of a channel.
* *Operations.* Two `pipe` calls, a `spawn` that hands over the server's two ends, in C two buffers
  from the I/O pool; `csi_free_channel` gives these back.
* *Hard.* Each of the three system calls can fail after the earlier ones succeeded; which end goes
  where; a server that waits for a request learns of its client's end only when nobody holds the
  writing end any more.
* *Correct when* client and server hold opposite ends of the same two pipes and nothing of each
  other's, every server ends after its client, and `2 * channels` blocks are enough.

### Numbers on the wire: `vlq.rs`, `read_next_vlq`, `csi_vlq_encode`, `csi_vlq_decode`, `csi_read_vlq`
* *State.* The bytes of the number that is being read.
* *Hard.* The last group, in which fewer than seven bits are left; a sequence that is too long or
  ends too early; two readers, written separately, that must agree.
* *Correct when* reading what was encoded gives it back and consumes exactly its bytes, and when
  both languages take the same bytes for the same numbers and stop after the same ones.

### The crypto service: `contracts/ckb-crypto-service`, `crates/ckb-crypto-interface`
* *State.* A map of hasher contexts and a counter for their numbers.
* *Operations.* `hasher_new`, `hasher_update`, `hasher_finalize`, and four stateless checks.
* *Hard.* A context outlives the call that made it, its number is copied freely by the client, and
  a reply may be lost after the service has had its effect.
* *Correct when* every reply is what the client must expect from the replies before it: a number
  never names two hashers, one that is finalized is refused, a digest is of its own data.

### Left out
The parsing half of the macro (it runs in the compiler), the demo and unit-test contracts and the
test crates (they use the system, and are read as its tests), logging, build files and scripts.

## 2. Plan

The modules, in the order they are built. The session comes first, because everything else carries
it or is carried by it; then the memory and the bytes of the C library, where the pointers and the
buffers are; then the other two ways to run a session.

| module | models | state |
|---|---|---|
| `Rpc` | abstract: what a session promises to its caller | done |
| `IpcErrors` | `error.rs`: errors, codes, the conversion between them | done |
| `RpcSession` (implements `Rpc`) | the Rust client and server, packet by packet | done, proved |
| `FixedAllocator` | the C allocator; at the same time the abstract pool of `CPayload` | done, proved |
| `CPayload` (implements `FixedAllocator`'s specification) | the payload blocks of a C client or server | done, proved |
| `CStream` | C buffered input and output, byte by byte | done, proved |
| `CSession` | a C client and a C server, packet by packet | done, proved |
| `NativePipe` (implements `Rpc`) | the off-chain backend: threads, rendezvous channels, the VM | done, proved |
| `Spawn` (uses `FixedAllocator`'s operators) | how a client gets servers: who owns which end, the I/O pool | done, proved |
| `Vlq` | the encoders, decoders and readers of numbers, Rust and C on the same stream | done, proved |
| `CryptoService` (uses `Rpc` as its session) | the hashers of the service and what its client knows | done, proved |
| `PoolWidths` | the constants and the assumption that the modules of the C pools share | done |

Still to come: a JSON caller that sends twice before it receives (both ends then block in a write);
a Rust client of a C server, whose callback may answer with a code that is not defined; a document's
claim about `write_len` that `buf_write` breaks for large payloads (a direct write is reported as
complete whatever the reader took; `CStream`'s `DirectReturns`); a C program that uses its own
malloc and also initialises the I/O pool.

## 3. The modules

Every module has, next to its actions, operators marked *Faulty variant*. They are not used by the
specification: each is what a definition would be with one plausible mistake, and is what a
property of that module has been seen to catch.

### `RpcSession`, with `IpcErrors` and `Rpc`
One client, one server, two pipes. `client` and `server` say which blocking operation of `call` or
`execute` each process is in; `c2s` and `s2c` are the pipes.

* *A pipe* is a rendezvous, as the VM's are: `posted` from the moment a writer blocks, `taken` when
  the reader has all of it, `free` when the writer has gone on. This is external to the code and is
  modelled from how `pipe.rs` uses it. A packet is one step on the pipe, because `channel.rs`
  serializes it into one buffer, writes that once and flushes.
* *A client* is one of three: the macro's (`api = "macro"`, panics on an error and on a reply to
  another method), `Channel::call` (`"channel"`), and the JSON pair (`"json"`, whose two functions
  are called one by one, with anything as payload). The JSON caller is assumed to receive a response
  before it sends again; `AfterSendEager` is what happens otherwise.
* *A send* (`ClientSend`, `ClientSent`) can fail to serialize, find the server gone before the
  write, or lose it during the write. In the last case a small packet is noticed by the flush, a
  packet larger than the `BufWriter` ("big") is not.
* *A receive* either takes the packet (`ClientTake`: error code, decoding, method) or finds the
  other end closed (`ClientReadClosed`: 0 bytes or an error, depending on when). `Decoded` is the set
  of what may come out of a packet: a typed reply with the code Ok is its value or a
  `DeserializeError` (`channel.rs:227`; an f64 that is not a number is written as `null`, nesting has
  a limit, and `Channel::call` lets its caller choose the type), and an empty one is always the
  latter. In the same way any request may be one that the server cannot deserialize (`good`).
* *The server* takes a request, runs the method (`ServerServe`: it can return an error, panic, or
  give a value that does not serialize; the client may be gone), and replies. On its first error it
  notifies the client (`ServerNotify`) and returns; when that write fails, `unwrap` panics.
* `IpcErrors` is `From<IpcError> for ProtocolErrorCode` arm by arm. An `IpcError` is a pair of its
  variant and what it carries.
* `Rpc` is the same session with nothing but calls, runs and answers. `RpcSession!Promise` maps the
  detailed state to it: the server is `up` while it may still run a request. An answer is a value
  (`"ok"`), an error that leaves no server (`"err"`, `AnswerErr`; also that of a request that was
  never sent, `Issue`), or `"unread"`: the call ran and its reply arrived, but does not deserialize
  (`AnswerUnread`). Only the last is an error of a call that was sent and whose server may serve on.

### `PoolWidths`, `FixedAllocator`, `CPayload`
`used` is `used_flags` as the set of its one bits, `Mask(index)` is the value of `1 << index` after
its conversion to 64 bits: index 31 sets every higher bit as well, index 32 and above is undefined
and taken modulo the width by the machine. The widths are constants (`PoolWidths`) so that a run can
have blocks on both sides of the width of an int. A block that is too large for its caller keeps
its flag, and every caller panics then; panic handlers are taken not to return.

`CPayload` is a C program: a client (`at = "client"`), which passes `CSIResponsePacket` variables to
`csi_call` and frees them, or a server, whose loop is one action per statement of `csi_run_server`
that touches a block and whose callback may be a client as well. `csi_call` writes the payload
pointer only when there is a payload, so `Before` says what the variable holds before a call:
nothing, when the caller clears it (`Clears`), or what the last call left. The module names what the
program `Held` and shows that it uses the allocator as `FixedAllocator!Spec` demands
(`KeepsDiscipline`): it frees only what it holds.

### `CStream`
One direction of a C channel: `writer`, `todo` and `outBuffer` are `buf_write` in the middle of a
packet, `pipe` is what a blocked `ckb_write` has left, `reader`, `inBuffer`, `pos` and `filled` are
`buf_read`'s buffer, `field` and `packet` say how far a receive function has come. A packet is its
three numbers, one byte each, and its payload, whose every byte is the number of the packet, so
that a byte in the wrong packet shows. `ReadError` is what happens to a read after the other end
has closed: `filled_len` has been set before the read fails, and `csi_read_vlq` returns the outer
of its two variables `err`, which is 0.

### `CSession`
The same two processes as `RpcSession`, in C. What differs, and is modelled: the callback's error
ends the server without a response; a payload without a block panics at the receiver ("huge"); a
payload that is larger than the buffer ("big") counts as sent whatever was taken; and a receive
after the other end has closed may return a packet that nobody sent (`ClientTakeNothing`,
`ServerTakeNothing`: `of` or `request` is 0). `phantoms` counts how often the callback ran for such
a request. `CStream` is where that is derived byte by byte, this module is what follows from it.

### `NativePipe`
The client's thread, the machine's thread and two `Pipe`s. A `Pipe` is a `sync_channel(0)` and the
rest of the last message on the reading side: `offered` is the message of a blocked send, `rest`
what a read has left in `buf`. Reads ask for any of `ReadSizes` bytes. `ClientDropReader`,
`ClientDropWriter`, `VmDropReader`, `VmDropWriter` are the four drops, each a step of its own. A
failed send stops the machine (the system call returns an error of the VM), and the script's close
system call does nothing, so it is no step. `VmLoad` may fail; nobody looks at its result. A request
may fail to serialize (`ClientCall`) or to deserialize (`VmRefuse`, which ends the script with an
error), a reply may fail to deserialize (`Outcomes`, the answer `"unread"`), as in `RpcSession`.
`Promise` maps the threads to `Rpc`; a value that is not the one of the call's own request is mapped
to an answer that `Rpc` does not have.

### `Spawn`
A client, in Rust or C, that tries to get servers one after the other, and the servers it got.
`owner` says of each end of an attempt's two pipes which process has it; the VM moves the ends that
`Handed` names and closes those of a process that ends (external, from how `spawn.rs` uses it). The VM reads the array
of ends up to a zero; C writes one (`ckb_script_ipc.c:521`) and `spawn_server` in Rust does not (`&[r2, w1]`, `spawn.rs:53` and `:66`).
That the word after the array is a zero there, so that the server gets these two ends and no more
(`run_server` accepts exactly two, `spawn.rs:149`), is an assumption of the module. What a failed
attempt made stays with the client, as nothing in the code closes it. In C, `NewReader` and
`NewWriter` take a block of the I/O pool each, with `FixedAllocator`'s `Mask` and `FirstFree`, or
`NewBufferPanics`; `FreeChannel` gives the two back and leaves the ends open. `Setup` is which
initialisation the C program called. The length of a buffer (`BufLen`) is a quotient of two fields
that only `csi_init_iobuf` sets; without it both are zero, and the quotient, undefined in C, is the
all ones of RISC-V's instruction (`AllOnes`), for which no malloc has room (`Memory`).

### `Vlq`
One stream of bytes and two readers on it, each at its own pace. A byte is its seven bits and the
continuation bit. `Encode` and `Bits` are recursive functions: the loop of the encoder, and the sum
that the loop of either decoder makes; `Value` is that sum cut to the width of the variable that
holds it, and `Decodes` says when it is returned. `read_next_vlq` collects any number of bytes and decodes what it has
at the end of the stream; `csi_read_vlq` refuses an eleventh byte, and at the end of the stream
returns success without a value (`"untouched"`, the lost error of finding 3 below). `Agreement`
compares the numbers returned and how each reader stops, not the byte at which it does: of a sequence
that is too long, C reads eleven bytes and Rust all of them. The widths 64
and 7 are constants.

### `CryptoService`
The server's `hashers` and `count`, the last `call`, its `reply`, and `view`: what the client knows
of each context it was given, from the replies alone. The session between them is `Rpc` itself, so
`RpcSession`'s `KeepsPromise` says that a Rust session is at least as good: a call runs at most
once, a reply may be lost after it ran, and the generated client then panics (`Gone`). `Rpc`'s answer
`"unread"` has no step here: the replies are numbers, lists of bytes and plain enumerations, which
always decode, as `ckb-crypto-interface` gives both sides the same types. A check of a
signature is the list of what it looks at, in order, with the error of each; the argument of a call
is the set of what is wrong with it.

## 4. What the runs show

| run | module | instance | shows |
|---|---|---|---|
| `RpcSession` | `MCRpcSession` | 3 calls, 2 methods, 3 service errors; 46 202 states | a value is the one of its own call, which ran once (`ReplyAnswersCall`); order (`AtMostOnceInOrder`); error codes (`TruthfulError`); panics (`ClientPanicsOnlyOnError`); no mutual write (`NoMutualWrite`); implements `Rpc` (`KeepsPromise`); every call returns (`CallReturns`), the server ends after its client (`ServerFollowsClient`) |
| `FixedAllocator_capacity` | `FixedAllocator` | 10 blocks, 10 flags, int of 8 bits | *finding*: full before `block_count` blocks are held |
| `CPayload` | `MCCPayload` | 2 variables, 4 blocks, 5 flags, int of 3 bits, cleared; 1 082 states | no block is shared (`NoSharedBlock`), kept after a round (`NothingKept`) or lost (`NoBlockLost`); implements the allocator's specification (`KeepsDiscipline`) |
| `CPayload_reused` | `MCCPayload` | the variables are not cleared | *finding*: the README's example frees another response's block |
| `CStream` | `CStream` | buffers of 4, blocks of 5, lengths 0, 1, 2, 5, 9, 3 packets; 51 447 states | framing, no false end of the stream, what is sent arrives |
| `CStream_phantom` | `CStream` | 2 packets | *finding*: a packet that nobody sent is received |
| `CSession` | `CSession` | 3 calls; 1 808 states | answers, order, what a failure means, at most one phantom request and only at the end; calls return, the server follows its client |
| `NativePipe` | `NativePipe` | 3 calls, packets of 3 bytes, reads of 1, 2 or 5; 1 389 states | whole packets (`PacketsWhole`), implements `Rpc` with own values (`KeepsPromise`), calls return, the thread ends |
| `Spawn` | `Spawn` | 4 attempts, 4 blocks, 5 flags, int of 4 bits; 10 788 states | the ends (`Wired`), two blocks per channel are enough (`EnoughIoBlocks`), every server ends after its client (`ServersFollow`) |
| `Spawn_malloc` | `Spawn` | 1 attempt, only `csi_init_malloc`, memory for 6 and a word of 15 | *finding*: the first channel panics |
| `Vlq` | `Vlq` | numbers of 5 bits in groups of 2, all streams of up to 4 bytes; 157 004 states | numbers come back (`RoundTrip`), the two languages take the same numbers from any bytes (`Agreement`) |
| `CryptoService` | `CryptoService` | 5 calls, 2 types, 2 chunks; 341 390 states | replies (`ReplyFitsView`) and the hashers that are kept (`ServiceFitsView`) |

*Why the bounds are enough.* Calls do not overlap, so what one call can leave behind shows in the
next one; three let a call follow one that followed a failure. Two methods are the least that lets
a reply be for another one. The service errors are one that carries the code Ok, a system error
with a code and one without: the three ways an error gets its code. A buffer of 4 bytes meets a
header that fits (3), one that is split by the payload before it, a payload of exactly what is left
(1), more than that (2), more than the buffer (5) and more than two buffers (9, which also has no
block). Pools have blocks on both sides of the sign bit of an int (8 of 10, 3 of 4), and in `Spawn`,
whose claim is the README's, as many blocks as an int has bits. Four attempts open two channels, the
most that four blocks hold, after one that failed, and one more after a channel was freed. Reads of
1, 2 and 5 bytes of a packet of 3 are shorter, do not divide it, and ask for more than there is.
Groups of 2 do not divide numbers of 5 bits, as 7 does not divide 64, so the longest encoding (3
bytes) has a bit that does not fit; four bytes are one more than any encoding, or a number after
another. Five calls make two hashers, feed both, and finalize one, or use one again after that.

*Deadlock* is checked in every run: the steps `Terminated`, `Quiet`, `Panicked`, `Over`, `Stopped`
and `Finished` stand for the only states in which the programs may have nothing left to do.

*Fairness.* `FairSpec` (in `Spawn` `Spec`) asks for weak fairness of what the scheduler does: a
process or thread that can run does run, a callback or a service returns. It is asked separately of
each process, and on the client's side only of the operations that wait; whether a program calls
again, receives the JSON response or exits is its own decision, and no fairness is assumed for it.
In `NativePipe` a client whose drop has begun finishes it. In `Spawn` the only fair step is the one
of a server that waits for a request nobody can send any more: its read returns.

## 5. What the findings are

1. `ckb_script_ipc.c:80` — the mask is an int, so a pool has at most 32 usable blocks, where the
   README says `block_count` and a comment says 64. `FlagsMatchHolders` shows that nothing worse
   follows: bits 32 to 63 always follow bit 31, so no index above is ever shifted by.
2. `ckb_script_ipc.c:496` — a response without a payload leaves the pointer of the variable as it
   was; the README's example declares the variable without a value.
3. `ckb_script_ipc.c:412` — a shadowed `err` makes a failed read of a number a success.
   `PhantomOnlyAtEnd` shows how far that goes in a session: one request that nobody sent, after the
   client has gone; `Agreement` shows that it is the only difference between the two readers.
4. `ckb_script_ipc.c:198` — `new_buffer` takes the size of a buffer from the I/O pool also when the
   program has set its own malloc; the pool's block count is 0 then, the quotient all ones, and the
   first channel panics. The model has the division and not the panic: `BufLen` is what `Gets` and
   `GetsNone` ask for.

Two more that the modules show and no run is spent on. `channel.rs:77`: `execute` unwraps the result
of `send_error_code`; when the error was that the client has gone, this write fails as well, and a
server that outlives its client ends with a panic where the doc comment says it returns an error
(`ServerNotified` in `RpcSession`). `native.rs:469`: the errors of the VM's start are discarded and
`spawn_server` has returned `Ok`, where its doc comment promises a boxed error (`VmLoad` in
`NativePipe`); `CallReturns` shows that the caller still learns of it with its first call.

## 6. What is proved

`tlapm` checks each of the following for every value of the constants, from the named assumptions
of the modules and nothing else.

* `RpcSession_proofs`: `TypeOK`, the six safety properties, `FailStop` and `KeepsPromise`. The
  invariants are not inductive as they stand, because a packet says nothing about which call it
  belongs to: it is the positions of the two processes that do. `Inv` therefore relates them:
  `CallsInOrder` (calls before the open one have returned, calls after it have not begun),
  `PipesInStep` (a pipe is in use exactly while its writer is blocked, and its packet is the open
  request or its reply), `ServesOpenCall` (a server past its read works for the open call, which
  has run exactly when the server is past `serving`) and `ErrorInStep` (the error is set exactly
  when the loop is over, and what a call returned came from it). There is a lemma per action that
  preserves `Inv`; each step is then mapped to a step of `Rpc` or to a stutter.
* `CPayload_proofs`, first the allocator by itself (`Pool!Spec`, with any set of blocks held):
  `FlagsMatchHolders` and `NoUndefinedShift` together are inductive, because the bits above an int
  are set exactly when its sign bit is, so the first free bit is always below the width, and freeing
  the sign bit clears what setting it set. That malloc gives up only when every block that an int
  can mask is held follows (`PoolLosesNone`), and with at most as many blocks as an int has bits
  `FullAtBlockCount`. Then the program, from the assumption that it clears its variables (`Clears`;
  the run `CPayload_reused` shows that it is needed). `Ownership` (the blocks of all packets are
  different and marked) and which of them hold a block at which point of a round, with the two
  invariants of the allocator, are inductive, and every step of the program is a step of the
  allocator (`DisciplineKept`). `NothingIsKept` follows, as where a round begins nothing is held and
  flags that mirror what is held are then all clear; so does `NoneLost`, from `PoolLosesNone`.
* `CSession_proofs`: the five safety properties of the C session. Again the packets do not say which
  call they belong to, and a request may be one that nobody sent; `Inv` adds `CallsInOrder`,
  `PipesInStep`, `RunsAtMostOnce` and `ServesOpenCall`: the server has the open call exactly from
  its read until the client takes the response, and has a request that nobody sent (0) only after
  the client has gone. That is why a phantom can neither answer a call nor delay one.
* `CryptoService_proofs`: `ReplyFitsView` and `ServiceFitsView` are two sides of one invariant: while
  a call is open and has not run, the service's hashers are those of the view; once it has run, they
  are those of the view as the reply will change it. Numbers below the counter are the only ones
  ever given, so a new one is new to the view as well.
* `Spawn_proofs`: `Wired`, from an invariant that says for each stage of an attempt which ends the
  client has, which the server, and which are closed.
  `EnoughIoBlocks`, with no more blocks than an int has bits: the flags of the blocks are exactly
  those of the buffers, no two buffers are the same block, and only the attempt that is being made
  can have one buffer without the other, so the buffers are at most `2 * |Open| + 1`.
* `NativePipe_proofs`: `TypeOK`, `PacketsWhole` and `KeepsPromise`. `Inv` says which ends are left
  from where the two threads are (`Ends`), that a request is in exactly one place, offered or taken,
  until its call runs or the script refuses it (`RequestInStep`), and so is a response until the
  call returns (`ResponseInStep`: it is the value of a call that ran, or an error after which the
  script runs nothing); what is taken and what the pipe keeps make the packet, because a read leaves
  in front what it did not take (`ReadFacts`, `JoinFacts`).
* `CStream_proofs`: `TypeOK`, `Framing` and `NoFalseEnd`, for every size of the buffers and of a
  block and any lengths of payloads. The bytes of a packet are in three places: what the reader has
  of it (`Have`), what is in its buffer (`Buffered`) and what the writer and the pipe still keep
  (`Unsent`). `Stream` says that their concatenation is the packet being sent, or the end of one
  packet followed by all of the next, or nothing between two packets; beyond that the reader has
  gone past the end of a writer that has ended. Every step moves bytes from one place to the next
  (`UnsentKept`, `UnsentFilled`, `NumberConsumed`, `PayloadConsumed`), and what is left of a packet
  that is not complete is never empty (`HaveIsShort`), so a read that fails or finds the end does
  so between two packets.

* `Vlq_proofs`: `EncodingDecodes`, that decoding what was encoded gives the number back, for every
  width, every group of bits and every number, in at most `MAX_VLQ_LEN` bytes; and from an invariant
  of the two readers `TypeOK`, `Agreement` (on any bytes they return the same numbers and stop after the
  same ones) and `RoundTrip`. The first is an induction over the number, and the library's
  induction theorems cannot be used, as they take an operator as a parameter. So the module states
  induction over *sets*: a set of numbers that is not empty has a least element (`Least`), hence a
  set that contains 0 and every successor is all of `Nat` (`NatInduct`), and so for anything that has
  a size (`Induction`); from these a recursive function exists and obeys its equation
  (`Recursion`), which gives those of `TwoTo`, `Encode` and `Bits`. The readers are at their own pace,
  so `Agreement` is not inductive: `IInv` says that there is one list of places of the stream where
  its numbers end, and that what each reader has returned are the numbers between them (`Followed`);
  it is one list for both because at most one number stands at a place (`OneNumber`).

Liveness itself is out of the prover's reach, but its two halves are not, and they are proved at the
end of the modules of the sessions (*Progress*):

* *Somebody can always move* while a call waits: the disjunction of the guards of the steps that
  would help (`WriteReturns`, `ReadReturns`, and `ServerMoves` or `VmMoves`) is an invariant
  (`CallNeverStuck`). In `RpcSession` it needs one more inductive invariant, `InHand`: a request that
  was taken is in the server's hands until its answer is on the way, or the server has ended. In
  `CSession` and `NativePipe`, `Inv` already says where a request and its response are.
* *Every move brings the end nearer*: a count of steps goes down with every step that leaves the call
  waiting, whoever takes it (`CallAdvances`). A call takes at most 7 steps in `RpcSession`, 5 in
  `CSession` and `2 * Size + 9` in `NativePipe`, where each byte of a packet may be a read of its own.
  The count is not the same for a server that still writes the reply of the call before and for one
  that writes this call's: the first has a whole round ahead, the second none.
* After the client's end the same holds for the other side: it can always move and has at most 3
  steps left (`ServerWindsUp`, both sessions) or 5 (`VmWindsUp`). In `Spawn` the step is one, and
  what has to be shown is that the server can take it: the pipe's other end is closed, and no copy of
  it is left in the client (`ServersSeeTheEnd`).
* In `CStream` the two halves are `StreamNeverStuck` (from the invariant that `Framing` needed: a
  blocked reader and an idle writer have nothing between them, `IdleReceivedAll`) and
  `StreamAdvances`, whose count weighs a byte that is not read yet with three steps (two calls of
  `ckb_read` and the taking) and a piece of a packet with five.

Model-checked only: liveness as such, which is everything under fairness (`CallReturns` and what
follows an end, `ServerFollowsClient`, `VmFollowsClient`, `ServersFollow`, and `AllArrive` of
`CStream`). What the theorems above leave to TLC is the last step of the argument, that a process
that can move and is scheduled fairly does move, and that the guards they name are exactly when the
actions are enabled. Every invariant and every safety property of the runs that pass is proved.

## 7. What is not modelled

* The bytes of a Rust packet: each is one write, and `packet.rs` reads it through a `BufReader`;
  `NativePipe` has the parts in which they arrive, `Vlq` the numbers in them.
* The VM: its pipes block and end as described above, the scheduler runs what can run; its limits on
  processes and descriptors show as system calls that fail.
* The half of the macro that parses, logging, and what serialization does to a value. A value
  serializes or it does not, and what was written deserializes or it does not: requests at the
  server and replies at the client, in `RpcSession` and in `NativePipe`. That a value comes back as
  another one, without an error, is not modelled.
* What hashing and checking signatures compute; of the checks, only which fault gives which error.
* The programs and tests that only use the library.
