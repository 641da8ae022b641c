# A TLA+ verification of gws

gws (`src/`) is a WebSocket library in Go: a server side that upgrades HTTP
connections, a client side, and the connection (`Conn`) they both end in.  This
directory models its core in TLA+, checks the models with TLC and proves the
main results with TLAPS.

## 1. Inventory

| Component | State | Operations | Interacts with |
|---|---|---|---|
| Connection lifecycle (`conn.go`, `writer.go`) | `closed`, `ev`, `mu`, the network connection | `Write*`, `WriteClose`, `SetDeadline`, `ReadLoop`, `emitError`, `emitClose` | all goroutines of the application, the callbacks |
| Segmented writes (`writefile.go`) | segment index, the segments held back, `mu` held throughout | `WriteFile` | compressor, window, buffer pool |
| Async queue (`task.go`) | `q`, `curConcurrency` | `Push`, `getJob`, `do` | every async write and broadcast is a job |
| Parallel reads (`task.go`, `channel`) | slots of `readQueue` | `Go` | `ReadLoop` blocks when it is full |
| Frame reading (`reader.go`) | `continuationFrame`, `fh` | `readMessage`, `readControl`, `emitMessage` | callbacks, `dpsWindow` |
| Context takeover (`compress.go`) | `cpsWindow`, `dpsWindow` at both ends | `slideWindow.Write`, `Compress`, `Decompress` | writer and reader |
| Broadcaster (`writer.go`) | two shared frames, `state` | `Broadcast`, `Close` | the queues of many sockets, the buffer pool |
| Handshake (`upgrader.go`, `client.go`, `option.go`) | the options, the two headers, the goroutine that writes the request | `NewClient`, `UpgradeFromConn` | builds both `Conn`s |
| Deque (`internal/deque.go`) | links in a slice, a stack of free slots | push, pop, insert, move, remove | storage of the async queue |
| Frame header codec, masking (`types.go`, `internal/utils.go`) | the 14 bytes of `c.fh`, reused | `GenerateHeader`, `Parse`, `MaskXOR` | reader, writer |
| Deflaters (`compress.go`, `writefile.go`) | the destination, dictionary and pending bytes of a shared compressor, two locks | `Select`, `Compress`, `Decompress`, `getBigDeflater` | every connection of a server |
| Buffer pool (`internal/pool.go`) | buffers by size class | `Get`, `Put` | reader, writer, file writer, handshake |
| Session storage, listener, utilities | wrappers of library types | | |

What is hard in it: many goroutines race to write on and to close one
connection; the close must happen once, with one close frame, and be reported
once; writes fail half way; a blocked write holds the mutex that a close needs;
queued jobs move between goroutines; both ends of a connection keep a dictionary
that must stay equal without ever being compared; frames shared by many sockets
return to a pool exactly once; a compressor shared by all connections of a
server keeps state between its calls; a file of unknown size is compressed, cut
into segments and sent while its buffers travel through a pool that every other
connection uses.  `PROJECT.json` lists these hazards at their
lines, with the properties that cover them.

## 2. Modules

| Module | Models | Main properties |
|---|---|---|
| `WorkerQueue` | `workerQueue` | `NoStrandedJob`, `CounterExact`, `FIFO`, `ImplementsExecutor` |
| `AsyncExecutor` | abstract specification of it: jobs wait in order, at most n are active, each completes | |
| `Conn` | one connection with all its goroutines | `CloseIsLast`, `OneCloser`, `EvStoredOnce`, `GracefulClose`, `OnCloseError`, `SegmentsContiguous`, `TornIsClosed`, `CloseCompletes`, `CallsReturn` |
| `AsyncConn` | `WorkerQueue` and `Conn` composed: the jobs are what the connection's worker does | `AsyncPrefix`, `CallbackRuns` |
| `SlideWindow` | `slideWindow.Write` as an operator, with its reference `LastN` | |
| `ContextTakeover` | one direction of a compressed connection, both ends | `WindowIsTail`, `DictInSync`, `Decodable` |
| `FrameHeader` | the header codec, masking and `genFrame`, on bytes | theorems |
| `FrameReader` | `readMessage` and what it calls, on encoded frames | `Reassembly`, `InSync`, `TextIsValid`, `WithinLimit`, `CloseCodeSendable` |
| `BufferPool` | `internal.BufferPool` with size classes and double `Put`s | |
| `BinaryCeil` | `binaryCeil` bit by bit | checked against `BufferPool` by `MCFileWriter` |
| `FileWriter` | `WriteFile`: `splitReader`, `readerWrapper`, `flateWriter`, on the pool | `FileIntact`, `OneMessage`, `Exclusive`, `RoomToRead`, `TwoSegments` |
| `Deflater` | the deflaters of a server or a client and their locks | `OwnBytes`, `StallIsLocal` |
| `Deque` | `internal.Deque` | `LinksAgree`, `SlotsAccounted`, `ImplementsList` |
| `ElementList` | abstract specification of it: a list with stable addresses | |
| `Broadcaster` | reference counting of the shared frames | `FrameAlive`, `OneFrees`, `FramesFreed` |
| `Handshake` | a gws client and a gws server from the request to the two `Conn`s | `WindowsMatch`, `SubprotocolAgrees`, `HandshakeEnds` |
| `MC*` | values of the constants for TLC | |
| `*Proofs` | theorems | section 5 |

Operators with a suffix (`NextJob_NoLoop`) are faulty variants, used to show that
a property notices the fault; no specification uses them.

### How state and actions correspond to the code

**WorkerQueue.** `q` and `curConcurrency` are the fields.  `getJob` runs under the
mutex and is one step; `Push` is `getJob(job, 0)`, `NextJob` the return of a job
followed by `getJob(nil, -1)`.  A goroutine is identified with the job it holds:
`launched` before it is scheduled, `running` inside the job.

**Conn.** `pc[g]` is where goroutine `g` is inside the library: waiting for `mu`
(`lock`, `fileLock`, `bcastLock`, `closeLock`), inside it at a network write
(`write`, `segmentWrite`, ...), on the way to `emitError` (`emit`), or in
`writeClose` (`store`, `closeLock`, `closeWrite`, `netClose`).  `mu.Lock` and the
test of `isClosed` behind it are one step, as nothing between them is visible;
the test of `writeFrame` comes before its lock and is a step of its own.  A
write succeeds, or fails with nothing or a part of the frame (`"cut"`) on the
wire.  `rl` is the place of `ReadLoop`: callbacks, reading, waiting for a slot of
`readQueue`, loading `c.ev`, `OnClose`, the end.  In a callback `ReadLoop` may call
any operation.  `Worker` is the goroutine of `writeQueue` (one job at a time, by
`FIFO`).  Payloads do not matter here and are dropped, except for the length of a
close frame's: `writeClose` cuts the reason to 125 bytes, and `LockToClose` goes on to the
network write, or straight to `conn.Close` when `genFrame` rejects a reason longer than
`WriteMaxPayloadSize`.

**SlideWindow, ContextTakeover.** Writes are atomic, being under `mu`.  A frame
carries the dictionary it was compressed with; flate can decompress it when the
receiver's dictionary ends in that one.  Only compressed messages reach `dps`,
everything written reaches `cps`, as in the code.  `stray` counts the bytes that
reached `cps` alone.

**AsyncConn.** `Conn` is instanced beside the queue.  Its `Worker` moves only inside a
job: `StartJob` puts it at the entry of `WriteMessage` or `writeFrame`, `JobStep` takes
its steps, `EndJob` waits until it is back.  `written` records whose frame each one
on the wire is.

**FrameHeader, FrameReader.** A header is the array of 14 bytes.  The first byte has its
eight bits; `Byte`, the number of values of the others, is a constant from which 125,
126, 127 and 65535 are derived, so that with a small `Byte` all three forms of the
length occur in short frames (the theorems hold for every even `Byte` from 8, so for
256).  A frame is encoded by `GenFrame`, decoded by `Parse` into the `c.fh` that the
last frame left, and `unread` is what remains of it when the reader has taken as
many bytes as the header says.  One frame is one step, since only `ReadLoop` reads.
A payload is a sequence over the two bytes of a two-byte character, so that
cutting a text between them makes it invalid; "compression" doubles the data and
rejects what begins with a trail byte, which is enough to tell the check before
from the check after decompression and to exceed the limit.  The reader is taken
alone: no other goroutine closes the connection (that is `Conn`).

**BufferPool, FileWriter.** The heap gives each buffer its capacity, its contents and how
often the pool holds it.  `Get` rounds up to the least power of two, or to 0 where a
uint32 of `Width` bits wraps round.  `BinaryCeil` has the shifts the code does it with, and
`CeilAssumption` of `MCFileWriter` makes TLC compare the two for every uint32 of `Width` bits;
they are apart because the prover knows no bitwise operators.  The k-th byte of the
file, or of its compressed form, is the number k, so a lost, repeated or foreign
byte shows.  What the compressor writes, and in which pieces, is free; it ends
with the four bytes of the marker, cut anywhere.  A reader of another connection
takes and fills buffers of the same pool at any time.

**Deflater.** A flate writer keeps where it was last reset to, with which dictionary,
and what is pending; a call resets it, feeds it piece by piece and flushes it, each a
step.  `stalled` are the connections whose peer does not read.  A server has
`PoolSize` deflaters and a pool of big ones, a client one of its own, which
`WriteFile` uses without `cpsLocker`.

**Deque.** The record `d` has the fields of the struct.  Slot 0 of the slice, which
is never used, is left out.  `op` records the operation so that the abstract
list must take the same one.

**Broadcaster.** One call of `Broadcast` per socket, each at the grain of its atomic
operations; `sync.Once` makes the generation of a frame one step.

**Handshake.** A header is a record of its parameters.  The rest of the request is
always right for a gws client.  `sender` is the goroutine that writes the request and
offers its result on an unbuffered channel; `Expire` is the context, `ReadResponseFails`
the network or the deadline.  The server's goroutine is the one `RunListener` starts.

## 3. Runs

| Run | Shows | Bounds |
|---|---|---|
| `async` | order and completeness of async writes on the wire, callbacks, counter, no stranded job, refinement of `AsyncExecutor` | one slot, the value every `Conn` uses; two writes and a broadcast job against a caller that closes: a job running, one waiting, one pushed at any time; a reason of 200 bytes, which only fits after it is cut.  The proofs cover any number of jobs and slots |
| `conn_safety` | all safety properties of `Conn` | a caller, the worker, `ReadLoop`; all operations, broadcasts included; 3 calls, 1 frame from the peer, 3 segments: a file can have a first, a middle and a last frame, and every pair of operations meets; close reasons of 2 and 24 bytes with a `WriteMaxPayloadSize` of 16, as in `writer_test.go:58` |
| `conn_liveness` | closing completes, calls return | all operations, files and deadlines included; 2 calls, made by the worker, a parallel `OnMessage` and the callbacks of `ReadLoop` (the worker can call all that another goroutine can); 1 handler slot and 2 frames, so that `ReadLoop` waits for the slot while its holder waits for `mu`; 2 segments; the close frames of `WriteClose` and `emitError` are rejected (24 bytes, 16 allowed), those of `emitClose` written |
| `takeover` | windows right, windows equal | with and without takeover; window of 3, payloads of 0 to 4 bytes, 3 frames: below, at and beyond the window, from every fill level |
| `reader` | decoding, reassembly and the checks | 4 frames, `Byte` = 12 (thresholds 3 and 143), limit 144: all three lengths, a fragmented message with control frames in between, a frame after a longer one in the same `c.fh` |
| `file_writer` | the file, the frames, the buffers | segments of 8 bytes with a header of 2, at most 14 bytes of data in pieces of 3 and 4: up to three segments, the marker at every place across them; 6 buffers, four size classes and one beyond; one reader next to it |
| `deflater` | own bytes, no foreign stall | two connections on one pooled deflater, or two clients; a message, a file, a broadcast and two reads; one peer may stall |
| `deque` | the list | 4 elements, 2 values |
| `broadcaster` | the frames | 3 sockets, of either kind |
| `handshake` | agreement, and that it ends | 32 configurations on each side, 3 lists of subprotocols each |

The runs named below expect a violation; each checks what a comment of the
repository says.

| Run | Disagreement |
|---|---|
| `conn_dict` | `ReadLoop` recycles the window without `mu`, while a writer may use it |
| `takeover_ping` | a ping with a payload reaches the sender's window only |

Other oddities are in the models without a run of their own.

- `writeFrame` tests `isClosed` before it takes `mu`, so one broadcast frame can follow the
  close frame; `CloseIsLast` allows exactly that.
- A close reason longer than `WriteMaxPayloadSize` is rejected by `genFrame` like any payload
  (`writer.go:169-171`): `writeClose` then closes the network connection without a close
  frame.  `GracefulClose` names this as its only exception besides a failed write.
- After a write that failed in the middle of a frame, another goroutine may write behind
  it until `emitError` has run; `TornIsClosed` is about the connection's end.
- A handshake can end with one end open: the other has closed the network connection, so
  `ReadLoop` learns of it.  The handshake's agreement properties are about two open ends.
- A frame that a broadcast made for a socket without takeover goes uncompressed to a
  socket with takeover; `NothingStray`, the condition of `DictInSync`, excludes it
  together with pings that carry a payload.
- `OnClose` gets the error of whoever won the close, which need not be the
  `*CloseError` of a peer's close frame that was read as well.
- Without a write deadline `WriteClose` does not end a blocked write, which holds the
  mutex it needs; the `WriteWithTimeout` of the repository's README relies on it.
- With compression negotiated, a frame with RSV2 or RSV3 set is accepted.
- A client that broadcasts and writes a file at the same time uses one compressor
  under two different locks; `OwnBytes` excepts the two calls and no others.
- `BufferPool.Get` of more than half of the range of a uint32 returns the smallest
  buffer; `FileAssumption` stays below.
- After `Expire` nothing receives the result of the goroutine that writes the request,
  which blocks for ever; when only the last `SetDeadline` of the server's handshake
  fails, a 400 follows the 101.
- When `http.ReadRequest` fails `RunListener` calls `OnError` and leaves the connection open;
  when `Accept` fails it tries again without end.
- `Writev` checks the encoding of every slice on its own.
- The server answers with its own window bits, whatever the client offered.

CHECK_DEADLOCK is off where the bound on calls or frames, or the end of the
connection or the handshake, lets the system stop.

## 4. Fairness

`WorkerQueue`: a runnable goroutine is scheduled and a job returns (the comment on
`Conn.Async` asks for jobs that do not block).  `Conn`: goroutines are scheduled;
`sync.Mutex` hands over to a waiter that starves, hence strong fairness of the
steps that lock; callbacks return; a closed network connection fails pending
reads and writes; `WritesEnd`: a network write returns, because the peer reads or a
deadline is set.  The peer is never obliged to send.  `AsyncConn` has the fairness of
both: that a job returns is no assumption there, but that its callback does.
`Broadcaster`: jobs are run, which `CallbackRuns` of `AsyncConn` gives.  `Deflater`: every
goroutine that can go on does, except that nothing is assumed of a write to a
stalled connection.  `Handshake`: the client's goroutines run and its deadlines pass;
a read from a closed connection fails; the server may never answer.  `FileWriter`,
`FrameReader`, `Deque` and `ContextTakeover` state safety only.

## 5. Proofs

All proofs are for arbitrary constants (any number of goroutines, jobs, calls, any
window size and payloads).

- `ConnProofs`.  `Lifecycle` joins the types with: who is inside the mutex holds it;
  at most one goroutine is closing, exactly one if closed and the network
  connection is open; `c.ev` is stored from `closeLock` on; `ReadLoop` reaches
  `OnClose` only on a closed connection.  `OneCloser`, `OnCloseError` and
  `EvStoredOnce` follow.  `CloseIsLastTheorem` needs one more invariant (once the
  close frame is written nobody is between a test of `isClosed` under `mu` and its
  write, and once a broadcast frame is behind it the broadcast job is over).
  `GracefulCloseTheorem` adds that whoever is about to close the network connection
  has its close frame on the wire, unless a write failed or the stored reason is longer
  than `WriteMaxPayloadSize` (nobody stores `c.ev` again on the way there).  `SegmentsContiguousTheorem` and
  `TornIsClosedTheorem` share `MessageInv`: while a file is under way the wire ends in a
  frame of it and a goroutine is inside `doWriteFile`, which is alone there because it
  holds `mu`; and as long as nobody has closed or is on the way to `emitError` nothing
  on the wire is cut off.
- `AsyncConnProofs`, of the queue alone, for any set of jobs and any number of workers.
  `IndInv` joins the types, `CounterExact` (the counter equals the number of goroutines),
  `NoStrandedJob`, `QueueIsSuffix` (what waits is the end of what was pushed) and
  `TakenJobsAccounted`.  `NoStrandedJob` alone is not
  inductive: that a finishing goroutine finds room rests on the counter being
  exact, and that on no job being held twice.  `FIFOTheorem` adds that with one
  slot the jobs entered are the ones taken, but for the one launched.
  `ExecutorSteps` is the safety part of `ImplementsExecutor`: the initial states map to
  initial states and every step to a step or a stutter.  `PushIsSubmit` and
  `NextJobIsComplete` are its two steps with content; the first needs `NoStrandedJob`, since
  the executor takes a job at once when there is room, and `CounterExact`, since it
  counts its active jobs and the queue keeps a counter.
- `AsyncConnProofs`, of the composition.  It keeps what the queue and the connection promise on
  their own: every step is a step of the queue or leaves it alone (`QueueStep`), so
  `AsyncQueue` and `AsyncExecutorSteps` carry over.  `AsyncPrefixTheorem` needs `AsyncInv`: the
  worker is inside the library only for the job that runs, and on an open connection
  the frame of no job but that one is missing.  What makes it inductive is that a
  job whose frame is lost closes the connection before it returns, and that a job that
  has passed a test of `isClosed` did so when nothing was missing.  `AsyncAssumption`
  says that the goroutine of the queue is none of the others; that the connection's queue
  has one worker is in `AsyncInit`, as in the constructor, and not an assumption.
- `BinaryPoolProofs`, of `Broadcaster`.  `BInv`: `state` is `MaxInt32`, until `Close` takes it away,
  plus the number of jobs between their two `AddState`s, a cardinality; no call is under
  way after `Close`; and whoever is about to free does so with no job counted, alone
  and for the first time.  `FrameAliveTheorem` and `OneFreesTheorem` follow for any finite
  set of sockets.
- `BinaryPoolProofs`, of `FileWriter`, for a file of any length, read and compressed in pieces of any
  sizes.  All five invariants of the run come from `FileInv`.  `Owned` says whose the buffers
  are: the pool holds one at most once and none that is in use, no two of the file's
  reader, its frame, its segments and the other connection share one, a segment has
  room for `SegmentSize` bytes and the other connection for what it asked for; the lemmas
  `GetOwned`, `PutOwned` and `WriteOwned` carry it through the operations of the pool.  `Places` says
  which buffers there are at each place of `doWriteFile`.  `Progress(a)` says that the first a
  bytes were sent and that the segments, in order, hold the stream (the data, then the
  marker) from there on.  `FileIntact` alone says nothing of what is not yet sent; what
  makes `Progress` inductive is that a segment is sent only when four more bytes are held
  behind it (`ShouldCallSpec`), so that none of the marker can be in it and `Flush` finds all
  of it (`RunEnds`), and that `Owned` keeps all others from writing to a segment.  `FileAssumption` is
  about the sizes only: a segment has room for a header and four bytes and is at most
  half of the range of a uint32, as is what a reader asks for; a `Read` returns at most
  what it was given room for; and the compressor's pieces fit into a segment with a header
  (flate writes its small buffer, or a stored block of at most 64 KiB).
- `FrameReaderProofs`.  Of the header, `HeaderRoundTrip`: what `GenerateHeader` made, `Parse`
  reads back (length, flags, opcode, key) consuming exactly its bytes, whatever `c.fh`
  held before, for every length an int can hold.  The argument goes digit by digit: a
  division by `Byte` at a time, so that no step of it has more than one product.
  `MaskIsByByte` and `MaskUndoesItself`: the blockwise XOR is the bytewise one, and is
  its own inverse.  `FrameRoundTrip` extends that to whole frames, with the reserved
  bits gws never sets: `Decode` of a frame is the frame, whatever is in `c.fh`.  `ReaderInv`
  then needs only the shape of `c.fh`, of `continuationFrame` and of the messages, each a
  member of `Deliverable` (within the limit, valid if a text), and the bound on what is
  kept of an unfinished one.  `InSync`, `WithinLimit`, `TextIsValid` and `CloseCodeSendable` follow,
  for any frames, sizes, codes and configuration.  `ReassemblyTheorem` compares what
  was delivered and what is kept with the data frames as a whole, which the code sees one at a
  time: `Kept` says that `continuationFrame` holds the payloads since the last `FIN`, with the
  opcode and the compression of the first of them, and `Delivered` that every `FIN` so far has
  its message.  A message that has ended stays what it was when more frames follow
  (`EarlierMessages`), and one more payload is one more concatenation (`FlattenAppend`, by the
  least length at which it would fail).  `ReaderAssumption` says that the payload of a frame has
  a length an int holds, and that only close frames have a code.
- `DeflaterProofs`.  `OwnBytesTheorem`, for any connections, calls, deflaters and pieces.  `Locks`
  decides who has which compressor: `cpsLocker` for a message or a broadcast, membership
  in `bdPool` for a file of a server, `mu` alone for a file of a client.  So two calls
  share a compressor only if one is a client's file and the other a broadcast
  (`SharedEngine`), and whoever is past `ResetDict` has its compressor alone or its
  connection has clashed (`Clashing`; never on a server).  `Contents` relates what is
  pending in the compressor and what the call has got out of it to the pieces fed; it
  needs that a compressor always ends in a call of the same connection, so that a clash
  harms no other.  `Reads` does the same for `dpsBuffer` under `dpsLocker`.
- `HandshakeProofs`.  `WindowsAgree` and `SubprotocolsAgree`, for every configuration and
  lists of any length.  The invariants (`HInv`, `PInv`) say that the two messages carry
  the offer and the answer and that each `Conn` is built from its end's parameters, all
  functions of the configurations alone; `SameWindows` and `KeptIsChosen` then compare
  the two ends.  The first rests on `initServerOption` leaving bits in 8..15, which the
  client's parser reads back unchanged; the second on the least common index existing.
- `ContextTakeoverProofs`.  `WriteIsTail`: the in-place window update equals `LastN` of the
  concatenation, by cases on how full the window is; `TailOfTail` lets it be
  applied slice by slice.  `WindowIsTail` holds in every behaviour; `DictInSync` and
  `Decodable` come from the invariant `ChainInv`: while nothing stray was sent, the frames
  in flight lead from the receiver's window to the sender's, each starting from
  the window its predecessor left.  That slices at one end and whole messages at
  the other end in the same window is the lemma `WriteTwice`.  The only assumption
  is the typing of the constants.
- `DequeProofs`, for any number of elements.  `Rep(q, w, a)`: the deque `q` stands for the sequence
  of slots `w`, with slot `a` in hand.  The links lead through `w` both ways, no slot is twice in `w`,
  the stack and the hand together, none is missing, and those of the stack are cleared.  An
  operation is made of three steps, each with a lemma: a slot comes to hand (`GetRep` from the
  stack or the end of the slice, `UnlinkRep` out of the list), is linked in (`LinkRep`) or given
  back (`PutRep`); between operations nothing is in hand (`InvTheorem`).  `LinksAgree` and
  `SlotsAccounted` speak of `Walk`, which follows `next` from the head; that it finds `w` is `WalkIs`,
  by the least position where it would not, so that no induction over the list is needed.
  `ImplementsListTheorem` is the whole refinement of `ElementList`, which has no fairness: every
  operation has on `ListOf` the effect of the abstract one, with the same addresses.

Only model-checked: all liveness properties, with the fairness half of
`ImplementsExecutor`, since liveness is beyond the prover; and that the bits of `binaryCeil` are
the least power of two, since the prover does not support the bitwise operators.

## 6. Not modelled

- Deflate itself, UTF-8 validation and `encoding/binary`: libraries, modelled by what gws
  uses of them.
- The syntax of the HTTP headers, TLS, dialing, the accept key: they decide whether a
  handshake fails, and every failure is in `Handshake`.
- The loop of `RunListener`, `Run`, `RunTLS`: no state of their own.
- Session storage: `smap` is a map under one mutex and `ConcurrentMap` a `sync.Map`; each
  operation is one call.  `smap.Range` calls out with its mutex held, so a function
  that uses the same storage blocks for ever; the interface does not say whether it
  may.
- `Deque.Clone`, the random generator, logging, the panics of callbacks that `Recovery`
  catches, the examples.

## 7. What is left

All components but session storage and the listener's loop are modelled, the
composition of queue and connection as well, and every invariant that a passing run
checks is proved.  What could follow: the refinement of the file writer to a `Conn` whose
frames have contents, and the liveness properties, once the prover can do them.
