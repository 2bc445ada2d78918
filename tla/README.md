# TLA+ models of kanzi-cpp

kanzi is a lossless block compressor.  A stream is cut into blocks; each block
goes through a sequence of transforms and an entropy coder in a task of its
own; the tasks of one stream run concurrently and take turns on one shared
bitstream.  The models here are about two things: that machinery (who may touch
what and when, what is still true when a step fails, whether everybody gets to
the end), and what a task does to its block (whether the transforms and
the entropy coder, in any chain, give back what they were given).

## 1. The system

| Part | State it keeps | Operations | Hard because |
|---|---|---|---|
| Compressed output stream (`src/io/CompressedOutputStream`) | ring of `2*_jobs` buffers, futures, `_bufferId`, `_inputBlockId`, `_initialized`, `_closed`, `_blockId` | `write`, `put`, `close`, destructor; `EncodingTask::run` | tasks of one stream wait for each other through `_blockId`; a failing task cancels through the same variable; the ring comes back to buffers and futures of running tasks |
| Compressed input stream (`src/io/CompressedInputStream`) | ring of buffers, futures, `_bufferId`, `_available`, `_submitBlockId`, `_initialized`, `_closed`, `_blockId` | `read`, `get`, `peek`, `seek`, `close`, destructor; `DecodingTask::run` | as above, and the client cancels too: `seek` and `close` at any moment; end marker and cancellation give the same result |
| Thread pool (`src/concurrent.hpp`) | queue of tasks, `_stop` | `schedule`, worker loop, destructor | blocked tasks occupy workers; shutdown drains the queue |
| Bounded queue (`src/concurrent.hpp`) | `_index` | `get`, `clear` | `clear` races with `get` |
| File drivers (`src/app/Block(De)Compressor`) | tasks, workers, results | one worker per job takes file after file | early exit, error aggregation, exceptions while workers run |
| Bitstreams (`src/bitstream`) | 64-bit accumulator, byte buffer, counters | `writeBits`, `readBits`, `close`, `seek`, `tell` | boundaries of word and buffer, end of stream |
| Transform sequence (`src/transform/TransformSequence.hpp`) | skip flags, three buffers in rotation | `forward`, `inverse` | which buffer holds the result after some transforms were skipped |
| Transforms (`src/transform`) | tables per block | `forward`, `inverse`, `getMaxEncodedLength` | each may decline a block; decoder and encoder must rebuild the same tables from different data; sizes at the edge of arrays, chunks and number formats |
| Entropy coders (`src/entropy`) | frequencies, states and probabilities per chunk | `encode`, `decode` | tables written in a header and rebuilt from it; the last chunk; the number of bits read |
| C API (`src/api`) | one stream per context, a buffer in front of a file descriptor | init, (de)compress, dispose | error paths that must free everything once |
| CLI, printers, events | | | I/O, not modelled |

How they interact: the CLI's drivers (or the C API) open one stream per file
and call it from one thread.  A stream launches at most one task per slot of
its ring, on a thread of its own (`std::async`) or on a pool shared by all
streams of the process.  The client gets a task's result through the slot's
future.  Tasks share the bitstream and `_blockId`, with one mutex and one
condition variable; listeners are called from tasks and from the client.

What makes each part correct:

* output stream: blocks reach the bitstream in the order of submission, once
  each, one writer at a time; a close that reports success has lost nothing;
  buffers and futures are not reused under a running task; failures end every
  wait;
* input stream: the client gets the stream's bytes in order, is told of the end
  only at the end, and a seek starts cleanly; no task outlives the buffers it
  uses; every call returns;
* pool and queue: every task accepted is run once, in order; a file is handled
  by one worker; a driver that reports success has handled every file;
* bitstreams: the bits read are the bits written;
* transforms, their sequence and entropy coders: a block comes back byte for
  byte, whatever was skipped; what one side writes the other accepts; nothing is
  written behind an array; the decoder stops at the encoder's last bit, where the
  next block begins.

## 2. Modules

| Module | What it is |
|---|---|
| `BlockStream` | what an output stream promises, with no threads or buffers |
| `CompressedOutputStream` | the encoder: client thread, tasks, pool, shared bitstream; its properties; the refinement mapping to `BlockStream` |
| `CompressedOutputStreamProofs` | TLAPS proofs about it: types, futures, turns, what `close` leaves behind |
| `CompressedOutputStreamOrderProofs` | TLAPS proofs about it: what is in the bitstream, that nothing is lost, the refinement of `BlockStream` |
| `CompressedInputStream` | the decoder: client thread, tasks, pool, shared bitstream; its properties |
| `CompressedInputStreamProofs` | TLAPS proofs about it: types, who owns the buffers |
| `CompressedInputStreamOrderProofs` | TLAPS proofs about it: the order of what is delivered, its end, failures |
| `FileDecompression` | `BlockDecompressor` on several files: main thread, workers, the queue of files, the pool all streams share |
| `FileDecompressionProofs` | TLAPS proofs about it |
| `BitWords` | bits, bytes and words, as both bitstreams use them |
| `DefaultOutputBitStream` | bits gathered in a word, words in a buffer, buffers in a byte stream that may fail; its properties |
| `DefaultOutputBitStreamProofs` | TLAPS proofs about it: order, room, counter |
| `DefaultInputBitStream` | the way back, with `seek` and `tell`; its property |
| `BitStreams` | both: what the one has written the other reads |
| `BitStreamsProofs` | TLAPS proofs about the reading side and about both together |
| `BlockCoding` | one block through the middle of an encoding task and back through that of a decoding task; its properties |
| `BlockContracts` | what that way asks of the transforms and coders on it |
| `BlockCodingProofs` | TLAPS proofs about it: whatever keeps these contracts comes back |
| `TransformSequence` | the chain of transforms over arrays that change roles |
| `RLT`, `ZRLT`, `SBRT`, `SRT` | run lengths, move to front and its relatives |
| `FSDCodec`, `AliasCodec`, `UTFCodec`, `TextCodec`, `EXECodec` | transforms for multimedia, small alphabets and DNA, UTF-8, text (both codecs), X86 and ARM64 code |
| `DivSufSort`, `BWT`, `BWTBlockCodec`, `BWTS` | suffix sorting and the two Burrows-Wheeler transforms |
| `LZCodec`, `LZPCodec`, `ROLZCodec`, `ROLZXCodec` | the Lempel-Ziv family: LZ and LZX, LZP, ROLZ and ROLZX |
| `EntropyUtils`, `ExpGolombCodec` | what the entropy coders share: alphabets, integers, scaled frequencies, Exp-Golomb codes |
| `HuffmanCodec`, `ANSRangeCodec`, `RangeCodec`, `BinaryCodec` | the entropy coders: Huffman, ANS of order 0 and 1, Range, FPAQ and CM |
| `Blocks` | arrays from 0, bits and numerals, success and failure |
| `TransformFactory`, `EntropyFactory` | transforms and coders by name, with the sizes they are scaled to |
| `MCBlockCoding` | the blocks and chains TLC tries |

The operators whose name says what is wrong with them (`RoomOneTooMany`,
`WokenOne`, `DrainedAtOnce` ...) stand in front of the operator they distort.
No action uses them: they are the plausible mistakes the properties must catch,
tried by putting them in the place of the operator that follows.

### CompressedOutputStream

*State.*  The client's variables have the names of the class's members
(`bufferId`, `index`, `array`, `futures`, `initialized`, `closed`,
`inputBlockId`, `iostate`); `mpc` and `call` are its program counter and the
member function it is in.  Per block: `pc`, the `slot` and the `content` it was
launched with.  `blockId` is `_blockId`, `out` the shared bitstream as a
sequence of items (header, block size, block data, end marker).  `accepted`,
`cause` and `thrown` are history.

*Actions.*  A client call is a sequence of actions cut where another thread can
come between: `CallWrite`, `WriteChunk`, `WriteFull`, `WriteReturns` for
`write`; `CallPut`, `PutUnit` for `put`; `CallClose`, `Drain`, `Seal`, `Release`
for `close`; `CallDestroy`, `Free` for the destructor; `SubmitOnClosed`,
`SubmitNothing`, `Launch`, `Await` for the `submitBlock` and `processBuffer`
all of them share.  A task is `Start`, `Encode`, `CheckTurn` (the predicate of
`wait`, under the lock), `Recheck` (the second load of `_blockId`, without the
lock), `EmitSize`, `EmitData`, `Publish` (the store, under the lock), `Notify`
(outside the lock) and `Listen`; `Cancel` is the store of a failing task.  Each
`...Fails` action is an exception at that point, enabled by `FaultPoints`.
`SpuriousWake` is a return of the condition variable that nobody asked for.

*Data.*  The client's bytes are numbered units; a buffer is a sequence of them;
encoding leaves them as they are.  A block of the bitstream is the units it was
coded from, so order, loss and duplication show.

*Faults.*  An allocation, transform, coder or listener that throws before the
turn ("encode"), the bitstream throwing in the turn ("emit"), a listener
throwing behind it ("listen"), a thread that cannot be started ("launch"), the
end marker that cannot be written ("seal").

### CompressedInputStream

*State.*  The members again; per slot the task's `pc`, its number `id`, the
block it has read (`got`) and its `result`; `cursor` is what comes next in the
shared bitstream.  `array[s]` names the block whose decoded units the buffer
holds, 0 while a task may write there or none has.  History: `base`, the block
where reading started; `delivered`; `reported`, the calls that have failed.

*Actions.*  `read`, `get` and `peek` share `ReadHeader`, `Boot` (the first task
of every slot), the `Collect...` actions (one for each kind of result) and
`Resubmit`; they differ in `Copy`, `GetByte`, `PeekByte`, in what they do with a
skipped block and with a closed stream, and the model keeps those differences.
`seek` is `CallSeek`, `Drain`, `Reset`, `Boot`; `close` is `CallClose`,
`CloseNotifies`, `Drain`, `Release`; the destructor is `close` and then "dead".
A task is `Start` (on a pool, when a thread is free), `CheckTurn`, `Recheck`,
`ReadSize`, `ReadData`, `Publish`, `Notify`, `Decode`, with `ReadEnd` for the
end marker; a task that has read garbage may fail in `Decode` without a fault.
With one slot the data part is read from the shared bitstream inside `Decode`, as
in the code.

*Races.*  The code can let two tasks read the bitstream at once (section 5).
What such a read returns is undefined; `ReadAstray` and the second branch of
`ReadData` choose among a size, the end marker, an error and garbage.

*The condition `OnlyReadersCancel`.*  CANCEL and the numbers of the tasks share
`_blockId`.  While CANCEL is only stored by the task whose turn it is, nobody
stores over it.  Once a task fails behind its turn (`FailedBehind`), or `seek` or
`close` cuts in, the turn holder may.  `SequentialReads`, `ReadsOwnBlock` and
`TasksFinish` speak of the states before that; the other properties do not
need the condition.

### FileDecompression

*State.*  The main thread's place `mpc` in `decompress()`, the worker it starts
or waits for (`at`), the code it will return (`res`); per worker its place and
its file; `index` of `BoundedConcurrentQueue`; per file and slot of its stream
the task's place, number and result; the pool's `queue` of tasks.  `outcome` is
history.  The number of jobs, files and blocks is chosen by `Init`, so one run
covers every combination up to the bounds; `JobsPerTask` is
`computeJobsPerTask()` and decides the slots of each stream and, through
`readHeader()`, the jobs of each block.

*Actions.*  Main thread: `StartWorker`, `Collect...`, `Clear`, `Rescue`,
`WaitAll`, `Delete`, `Join`.  Worker: `TakeFile`, `Open`, `CollectBlock`,
`CollectEnd`, `CollectError`, `Drain`, `Abort`, `Finish`, and where it may fail.
Pool: `StartTask`, `CheckTurn` (the predicate of `wait`), `GiveUp` or `TakeTurn`
(the second load of the turn, without the lock), `Read`, `Decode`, and for a
block whose inverse BWT is split `DecodeShared`, `RunShare`, `Shared`: the shares
go to the same pool, and the task waits for them on the pool's thread.

*Abstractions.*  `CompressedInputStream` has the streams in detail; here a task
reads its block and passes the turn on in one step, sleeping is waiting, and a
stream remembers whether it has been read out of turn (`astray`): what it yields
from there on is anything (`WhatIsRead`).  That takes three slots in a stream,
which is five jobs on two files, more than the run has; the proofs cover it.  A share
waits for nothing and is one step.

### Bitstreams

*State.*  A bit is a number, its rank among the bits the client has written, or
0 for padding; so a bit lost, repeated or moved is seen, and the values written
do not matter.  Output: `current` is the bits in `_current`, `availBits` what is
left of it, `buffer` what `_buffer` holds up to `_position`, `sink` what the byte
stream has got, `written` the counter behind `written()`.  Input: `source` is the
byte stream, `fetched` what it has delivered, `chunk` and `position` the
buffer, `word` the bits of `_current` not consumed.  `count`, `failures`, `start`,
`asked` and `answer` are history.

*Actions.*  `WriteBits` and `ReadBits` are the calls with a value (one bit
included).  The calls with an array are sequences of loops, and each turn of a
loop is an action, named by the variable `loop` (`inLoop`): `Fill`,
`CopyAndFlush`, `CopyWords`, `FourWords`, `OneWord`, `WordsOver`, `Bytes`, and
the same on the way in.  Inside the loops that shift whole words `_availBits`
does not tell what is in `_current`; a local variable, `kept`, does.  A flush
that throws leaves its action halfway: `PutFails`, `FourWordsFail`,
`CopyAndFlush` and `OneWord` say what is changed by then.

*Abstractions.*  Words and buffers may have any size (8 bytes and at least 1024
in the code); an array is as long as the call says.  The client does not write
to a stream that is closed or has failed, but may close it again, and seeks
before it reads again after the end of the stream.  `seek` and `tell` of the
output, `close`, `read` and failures of the input are left out.

### Block coding

*State.*  `job` is the block, the names of its transforms and entropy coder and
what the context tells them; `phase` is how far the two tasks are; `bits` what
the encoding task has written, with `at` the decoder's place in it; `checksum`.
Of `TransformSequence`: `slices`, the arrays `input`, `output` and `buffer` with
contents and lengths; `in` and `out`, which of them is source and which
destination; `chain`, `next`, `skipFlags` and `swaps`.

*Actions.*  `Start`, `Transform` (one transform of the chain, skipped when it
fails), `Transformed`, `Emit` are the middle of `EncodingTask::run`; `Read`
(header, entropy decoder, the tests on lengths), `Skip` and `Undo` (one
transform), `Finish`, `Check` (the checksum) that of `DecodingTask::run`.  The
modules of transforms and coders have no state of their own: each has one
operator per function or loop of the code, with its tests in their order, and
returns success with what was written, or failure.

*Scale.*  The code's sizes are CONSTANTS of each module; `TransformFactory` and
`EntropyFactory` give them small values in the order they have there, so that a
block of a few dozen bytes has several chunks, fills a table or a dictionary,
and overflows the short form of a number.  Bytes have 8 or 16 values (256 in
`UTFCodec`, whose alphabet is the encoding's).  The hash functions, the bits of
match tokens and the codes that mark a file's kind are scaled or renamed with them.

*Inputs.*  What `Global` and `MagicUtils` detect in a block (its type, the step
of a sample, the sections a header of an executable names) is in `job.ctx`.  A
transform may also change the type the next one is told; `job.types` is what it
may have become, chosen at each `Transform`.  `job.heap` is what memory that was
never written holds, where a coder reads it.  `job.spare` is the length an
earlier block has given the output array.

*By result.*  The sorts inside `DivSufSort` (ssSort, trSort) order by comparison
of suffixes.  ROLZX's binary coder is not computed: a coded symbol carries the
history of its context, and decodes to itself only under the same history, so
that a decoder out of step is seen.  CM's predictor is computed, those of TPAQ are
not modelled.

## 3. Runs

| Run | Bounds | Shows |
|---|---|---|
| `EncoderOrder` | 4 slots, pool of 3, blocks of 2 units, 5 blocks, writes of 3; faults in the turn and at the end marker | types, one writer, well-formed bitstream, cancellation is final, refinement of `BlockStream`, every call returns, every task ends |
| `EncoderFaults` | 2 slots, a thread per task, blocks of 2, 4 blocks, writes of 1 and 3, `put`; headless; a fault anywhere | successful close means complete stream; buffers and futures are exclusive; nothing behind the end marker |
| `DecoderOrder` | 4 slots, pool of 3, 3 blocks of 2 (the last of 1), reads of 3, `get`; a fault anywhere but seek | units delivered in order, end only at the end, every call returns; until a task fails behind its turn: one reader at a time, each task its own block, every task ends |
| `DecoderSeek` | 3 slots, 4 blocks of 1, range 2..3, reads of 1 and 2, `seek`, `close`, destructor; read and seek faults | right units after any seek, no task behind a seek, a close or the destructor |
| `DecoderAlone` | 1 slot, 4 blocks of 2, range 2..3, `peek`, `seek`, `close`; no faults | no failure of a sound stream, every call returns |
| `FileDecompression` | 2 or 3 jobs, 2 files of 1 or 2 blocks; a fault anywhere, including `std::async` and an exception that leaves a worker | success means every file decoded to its end; one worker per file; the pool never runs out of threads; nothing runs when the streams are deleted; no file begun after a failure was seen; the program ends (these streams have at most two slots; section 5 for three) |
| `BitStreams` | words of 2 bytes of 2 bits, buffers of 5 words, up to 43 bits (two buffers and the rest of a word), up to 2 failures, seeks to 0..5 | bits in order and none lost; nothing written behind the buffer; `written()` exact; reads return the bits behind the cursor, and the end only where it is |
| `BlockCoding` | 8154 blocks with their chains, below | every block comes back (`LosslessBlock`); none is refused; nothing behind an array; the decoder stops at the encoder's last bit; the tasks of one inverse BWT agree on bytes that two of them write |
| `EncoderLostCancel`, `DecoderSeekHangs` | 2 slots, 3 or 4 blocks | a comment the code does not keep; section 5 |
| `NormalizeLoses`, `TextDictionary` | one block; 31 blocks | blocks that do not come back; section 5 |

Why these bounds are enough to be interesting: more blocks than slots, so that
every slot is reused and the ring turns; writes and reads that end before, at
and behind the end of a block; a last block shorter than the others; at least
three tasks, the smallest number with a turn holder, a task behind it and one
that must not go yet; a pool with fewer workers than slots.  Where cancellation
is concerned `DecoderOrder` has four: a task that fails behind its turn, the
turn holder, one that gives up or reads out of turn, and one that sleeps behind
it.  Without the condition `OnlyReadersCancel`, `SequentialReads`,
`ReadsOwnBlock` and `TasksFinish` are each violated at these very bounds.  The
decoder needs no bound beyond the length of its stream: its state space is
finite.  Two files and three jobs give a stream with one slot beside one with
two, more workers than files, and a block with one job beside one with two.
Words of 4 bits make every alignment of a call to byte, word and buffer happen
within two buffers; five words are the smallest buffer the loop of four words
allows.  `MaxBlocks` bounds the encoder through `RoomFor`, which only stops the
client from starting a call whose blocks would not fit.

`BlockCoding` is a sweep: `Init` chooses a job, and apart from `job.types` the
rest is determined.  `AllJobs` is put together per codec, so that each has blocks
that it takes and blocks that it declines, on either side of each threshold: all
words of a length over two or three symbols where that suffices (BWT, BWTS,
ANS), runs from one byte to the longest form of a run length, repeated phrases at
distances of each class, jumps of either direction and opcodes cut by the end
of the code, words known, in the other case, new and too many for the
dictionary, UTF-8 text cut inside a character at either end.  Chains go up to
six transforms (the long form of the header), with transforms that decline in
between, with one and two tasks, hashed or not.

Left out of `AllJobs` are blocks the code is known not to bring back or to
refuse, so that the run says something about all others (section 5): frequencies
that cannot be spread, dictionaries of two sizes (texts of 112 to 127 bytes),
a last chunk of one byte at order 1 of ANS (1 to 3 bytes are left out), ROLZX
blocks a few bytes longer than a chunk, ARM64 code that starts at an odd place,
damaged UTF-8, chains that expand a block more than once.

Deadlock is checked in `EncoderOrder`, `DecoderOrder`, `DecoderAlone` and
`FileDecompression` (`Terminated` is the only end).  It is off in `EncoderFaults` and `DecoderSeek`,
where the code really can wait forever (section 5), in
`BitStreams`, whose client may be done, and in the runs of block coding, where
a block ends as done or refused.

Fairness.  `FairSpec` gives weak fairness to the client's steps inside a call
and to `TaskRuns`, the steps of every task.  The code's threads are the
operating system's; a thread that can run does so eventually.  A task that
sleeps on the condition variable moves only through `Notify`, `CloseNotifies` or
`SpuriousWake`; C++ allows spurious wake-ups and does not promise them, so that
action has no fairness.  The client is not obliged to call anything.
`FileDecompression` gives weak fairness to the main thread, each worker and each
task of the pool.

## 4. Proofs

A theorem holds for every value of the constants: any number of slots, jobs,
files, blocks, any size of block, buffer and word, any set of calls, and, where
the table does not say otherwise, a fault at every point.  "Types" in the last
column are the assumptions on the types of the constants, which each run
evaluates.  Liveness is not among the theorems: tlapm 1.4.5 does not reason
about fairness and ENABLED.

### The encoder

| Theorem | States | Assumes |
|---|---|---|
| `TypeCorrect` | `Spec => []TypeOK` | types |
| `FutureOwnsLiveHolds` | `Spec => []FutureOwnsLive` | types |
| `SingleWriterHolds` | `Spec => []SingleWriter` | faults in the turn or at the end marker |
| `CancelIsFinalHolds` | `Spec => CancelIsFinal`, an action property | the same |
| `BufferExclusiveHolds` | `Spec => []BufferExclusive` | types |
| `SealedIsFinalHolds` | `Spec => SealedIsFinal`, an action property | types |
| `WellFormedOutputHolds` | `Spec => []WellFormedOutput` | types (the property itself is about streams whose tasks have failed in their turn only) |
| `LosslessCloseHolds` | `Spec => []LosslessClose` | types |
| `ImplementsBlockStreamHolds` | `Spec => ImplementsBlockStream`, a refinement | faults in the turn or at the end marker |

The first six are in `CompressedOutputStreamProofs`, the others in
`CompressedOutputStreamOrderProofs`.  The argument has layers; each uses those
above it.

* `Ownership` is about the ring: slots launch blocks in order, a live task's slot
  has that task's future, and the slot the client is about to submit from has
  none.  It is inductive with `TypeOK`, whatever steps fail; without it, that
  `futures` is never overwritten does not follow, since `Launch` alone has no
  such guard.
* `Turns` is about `_blockId`: a task that stands between `Recheck` and `Publish`
  has number `blockId + 1`, and the one that has just published equals `blockId`;
  once CANCEL is stored no task is left in between.  It needs the assumption on
  faults for the last part, and fails without it (`EncoderLostCancel` is a
  counterexample, the schedule of `OnlyNextUnblocked` in section 5 another).
  `SingleWriter` and `CancelIsFinal` follow.
* `Drainage` and `SealedForGood` are about `close`.  The loop of `close` has
  consumed the futures of the slots before `drain`, and all of them when the end
  marker is written or the buffers are freed without an error; with `Ownership`,
  no future means no task.  Once the end marker is written no task is left and
  the stream is closed or about to be, so that neither a task nor a later call of
  the client can write.  Both hold whatever fails: it is only a `close` that has
  met an error that leaves tasks behind.
* `Faults` is that no failure goes unnoticed: a CANCEL has a block that failed,
  and a block that failed is on the way to an exception in the client (its future
  still holds the error, or a call has thrown, or `close` is about to).
* `Output` is about the bitstream: it begins with the header, and its *last item*
  tells whose turn it is (`LastItem`: the data of block `blockId` between two
  turns, the size of the next block while the turn holder stands between
  `EmitSize` and `EmitData`, ...).  With `Turns`, what is appended follows what is
  there: `WellFormedOutput`.
* `Positions`, `Contents` and `InOrder` connect the items to the blocks.
  `Emitted` numbers the data items by counting; `RanksFilled` is the fact about
  finite sets that such a numbering has no gap.  A task's block is its slot's
  buffer, unchanged until the data is out (`KeptContents`; a block is taken whole or
  not at all, `AllOrNone`).  Hence the n-th block of the bitstream is the content
  of block n.
* The refinement maps every step of the encoder to a step of `BlockStream` or to
  a stutter: `EmitData` is its append, the end marker its close, everything else
  changes nothing.
* `Completeness` is for `LosslessClose`.  As long as nothing has failed, the
  blocks submitted are the units 1, 2, 3 ... one after the other, the buffer in
  use goes on from there and all other buffers are empty (`Units`).  A `close`
  that succeeds comes through the end marker (`MarkedAtRelease`), with every
  task done, so that every block is out (`EofMeansAll`).

### The decoder

| Theorem | States | Assumes |
|---|---|---|
| `TypeCorrect` | `Spec => []TypeOK` | `NoByteOfRange` |
| `BufferExclusiveHolds` | `Spec => []BufferExclusive` | `NoByteOfRange`, `NoTaskAfterClose` |
| `DeliveredInOrderHolds` | `Spec => []DeliveredInOrder` | `NoByteOfRange` |
| `EofMeansEndHolds` | `Spec => []EofMeansEnd` | `NoByteOfRange` |
| `FailsOnlyOnFaultHolds` | `Spec => []FailsOnlyOnFault` | `NoByteOfRange`, `HeaderInPlace` |
| `SequentialReadsHolds` | `Spec => []SequentialReads` | `NoByteOfRange` |
| `ReadsOwnBlockHolds` | `Spec => []ReadsOwnBlock` | `NoByteOfRange` |

The first two are in `CompressedInputStreamProofs`, the others in
`CompressedInputStreamOrderProofs`.  Each of the assumptions excludes a defect of
the code that section 5 names, and without it the theorem is false:
`NoByteOfRange`, a stream that skips its first blocks is not read with `get` or
`peek`; `NoTaskAfterClose`, a headless stream is not both closed and destroyed
(it would be read between the two); `HeaderInPlace`, a stream with a header is not
sought (the first `read` would look for the header elsewhere).  The last two
properties have their own condition, `OnlyReadersCancel` (section 2), on the
state and not on the constants: they are proved for streams with any faults and
any calls, in every state before CANCEL is stored out of turn.

* `Ownership`, inductive with the types: a slot without a future has no live task,
  the current slot's future has been consumed while bytes of it are left, the
  loops of `Boot` and `Drain` go through the slots in order, and outside a call
  nothing is half done.  `ClosedForGood`: a closed stream has no futures.
  `BufferExclusive` follows.
* `Ring` gives every slot its number: `Ahead` tasks are between the client and
  `submitBlockId`, the oldest of them, `Front`, in the slot the client will
  collect next, the others behind it in a circle.  This survives `seek`, where
  the numbers start again.
* `TurnOrder` is about a task in its turn: it has number `blockId + 1`, alone, and
  the cursor of the shared bitstream is where that block begins (`CursorAt`);
  between two turns the cursor is at the next block (`BetweenBlocks`).
* `TurnOrder` is *not* an invariant: a task that fails in `Decode` or a `seek` may
  let a later one read out of turn (section 5).  The invariant is `Progress`:
  as long as the client has not been told of a failure, *either* nothing has
  failed and `TurnOrder` holds, *or* there is a first failed task, everything
  before it is as if nothing had failed and its failure is what the client will
  collect before it sees anything else (`FailsFirst`).  Garbage read behind a
  failure never reaches the client.
* `Place`: what has been delivered since the last seek is the units from `base` up
  to the position of `_bufferId` and `_available`.  `DeliveredInOrder` is its
  first part.
* `Ended`: a slot answers "end" only if its task read the end marker or was
  canceled; by `Progress` the second means that a failure is reported first.  So
  the end is announced where the stream ends.
* `FailsOnlyOnFault` is `Progress` once more, without a fault: there is no first
  failed task.
* `Discipline` is for the last two, and stronger than `Progress` where CANCEL is
  only stored by a task at its turn: `TurnOrder` then holds until a task cancels,
  and from there on (`Halted`) CANCEL stays and nobody goes near the bitstream,
  whether the client has been told or not.  `Spent` is the exception: where the
  header could not be read, or the only slot's task has dropped a block behind
  `to` and left its data unread, the cursor is astray and nobody reads on.
  The invariant is `Disciplined`: unless the stream is closed or a seek is under
  way, `Discipline` holds or a task of this ring has failed behind its turn
  (`Late`).  Such a failure is not forgotten before the next seek, since the client
  never gives a failed slot a new task (`Served`); and the seek starts the ring
  afresh, with `Discipline`.

### The file drivers

`FileDecompressionProofs` proves, for any number of jobs, files and blocks and
any faults, with no assumption beyond the types of the constants:

| Theorem | States |
|---|---|
| `TypeCorrect` | `Spec => []TypeOK` |
| `OneWorkerPerFileHolds` | `Spec => []OneWorkerPerFile` |
| `TasksWithinJobsHolds` | `Spec => []TasksWithinJobs` |
| `NothingInFlightHolds` | `Spec => []NothingInFlight` |
| `SuccessMeansAllHolds` | `Spec => []SuccessMeansAll` |
| `NoFileAfterClearHolds` | `Spec => NoFileAfterClear`, an action property |

* `Waiting` (the main thread waits for the workers in order and has waited for all
  that were started before it deletes anything), `Verdict` (what it will return)
  and `Handout` (a file is in the hands of the worker that took it) are about the
  threads.  The counter of the queue of files runs past its end, by one for each
  worker that was sent home: `Overrun` bounds it.
* `Tasks` and `Queue`: a task on the pool's queue is there once, and is one that
  waits for a thread, or a share of a block whose task waits for it (`Times`
  counts an entry's places, `OnQueue` and `Owed` say what the count is).  So an
  empty ring means an empty queue: `NothingInFlight`.
* `Streams` repeats the decoder's numbering per file: the tasks of a stream are
  the last `JobsOf(f)` blocks submitted (`Ring`); while its client reads, *either*
  they have passed the bitstream on in order and nobody has been canceled
  (`Orderly`, `PassedUpTo`), *or* a task has broken the order, by an error or by the
  end marker behind the last block, and everything before it has been read
  (`Broken`, `Breaks`).  Tasks may read out of turn behind such a break; the client
  comes to it first.  `Account`: a file whose outcome is "ok" was read to its end.
  `SuccessMeansAll` follows with `Verdict`.
* `TasksWithinJobs` is a counting argument: `computeJobsPerTask()` deals jobs to
  files like cards, so `Deal(f, s) = s * nbFiles + f` sends slot s of file f
  into the jobs, one to one; when there are as many files as jobs, a stream has
  one slot and its task stands for the worker that reads it.  The tasks that run
  are therefore no more than the jobs.

### The bitstreams

`DefaultOutputBitStreamProofs` proves, for bytes, words and buffers of any size
(a buffer has five words or more), any sequence of calls and any number of
failures, `OutTypeCorrect`, `WritesInOrderHolds`, `NoOverrunHolds` and
`WrittenExactHolds`, each `OutSpec => []` the property of that name.
`BitStreamsProofs` goes on to the reader and to both together, for any bytes in the
byte stream and any sequence of calls:

| Theorem | States |
|---|---|
| `TypeCorrect` | `Spec => []TypeOK` |
| `ReadsExactHolds` | `Spec => []ReadsExact` |
| `ReadsWhatWasWrittenHolds` | every bit written is read at the place where it was written, however either side cuts the bits into calls |

The invariant of the output, `OutInv`, distinguishes three conditions of the
stream.  While it is `Sound`, sink, buffer and word together are the bits 1 to
`count` (`Ordered`), buffer and sink hold whole words and the buffer has room
for one more (`Roomy`), and what is in the word is told by `availBits` or,
inside the loops that shift words, by `kept` (`Filled`).  That the buffer holds
*whole* words is what makes the test before four words enough: below the mark,
there is room for four and one more (`FourFit`).  A stream that has failed is
`Wrecked`: what it holds, padded, still begins with the client's bits and fits
in the buffer, so that `close` may be tried again.  A closed stream is `Sealed`.

That of the input, `InInv`: the word holds the bits of the source at the cursor
(`Cursor`), what is left of the buffer is what follows in the source, in whole
words unless the source ends there (`Ahead`), and inside a call the bits
already got, those in the word and those still asked for add up (`Reading`).
`Sourced` joins the two: a source that is read was closed without a failure, and
is the sink, to which nothing is written any more.

### Block coding

`BlockCodingProofs` proves the five invariants of `BlockCoding` for any blocks,
any chains of up to eight transforms, any of them giving up, any entropy coder,
any lengths of the arrays and any width of the length field, from what
`BlockContracts` asks of the transforms and coders:

| Theorem | States | Assumes |
|---|---|---|
| `BlockInvariant` | `Spec => []Inv(D)`, the inductive invariant | `Contracts(D)` |
| `LosslessHolds` | `Spec => []LosslessBlock` | `Contracts(D)` |
| `ReadsAllHolds` | `Spec => []ReadsAllWritten` | `Contracts(D)` |
| `WithinArraysHolds` | `Spec => []WithinArrays` | `Contracts(D)` |
| `ChunksAgreeHolds` | `Spec => []ChunksAgree` | `Contracts(D)`, `TasksKept(D)` |
| `NothingRefusedHolds` | `Spec => []NothingRefused` | `Contracts(D)`, `AcceptanceKept(D)` |
| `CopiedBlocksReturn` | all five | `Copying`, `AllCopied`: the null transform and coder, blocks of a few bytes or left alone by `--skip` |

Here the codecs are parameters.  What each transform and coder computes is the
subject of its own module, and its round trip stays with TLC; what is proved is
that the two tasks put them together correctly, which is where the arrays change
roles, a transform may be skipped, and header and flags have two forms.

*The contracts* speak of single calls, as `Transform.hpp`, `EntropyEncoder.hpp`
and `EntropyDecoder.hpp` do.  `D[j][k][p]` is a set that holds whatever the first k
transforms of job j may have made of its block and left in the array p (that of
the result, or the one it takes turns with).

* `StagesKept`: at most eight transforms; what they make has a length of four
  bytes at most (`dataSize > 4` is refused).
* `ForwardKept`: `forward` writes no more than the array it is given holds, and
  what does not stand in the array of the result at the end fits there.
* `InverseKept`: where `inverse` succeeds, it brings back what `forward` was
  given, within its room.
* `EntropyKept`: so does `decode`, and it stops where `encode` did, whatever stands
  before.
* `TasksKept` and `AcceptanceKept` are asked by one theorem each: that the tasks
  of an inverse agree on what `forward` made; that no result is empty or longer
  than the decoder's block length and that the decoders do succeed.

No contract mentions a skip flag, a swap, a header or a chain as a whole.  They
can be kept: for blocks that are copied `CopiedContracts` proves it, with no more
about the codecs than what the null ones do.  For all others TLC has evaluated
them, with `D` computed by `WaysOf` (`MCBlockCoding`): all six are true of every
job of `AllJobs`, which takes some minutes and so is not part of a run.  They
are also where the defects of section 5 show: `EntropyKept` is false for
`NormalizeJobs`, `InverseKept` for `DictionaryJobs`, and `ForwardKept`
for a chain such as `MTFT+ZRLT` on blocks of all values, since its last result
is longer than the array of the result.

*The invariant* `Inv` says that there is a trail `w`: `w[0]` is the block, and
`w[k]` is `w[k - 1]` if the flags say that transform k was skipped, and otherwise
what transform k made of it (`Linked`).  It is needed because the decoding task only
sees flags and the last of the trail, and the state between remembers nothing
else.  On the way up (`Forwarding`) the array `in` holds the end of the trail; the
bits are the header and the code of the last (`Reading`); on the way down
(`Inverting`) `in` holds `w[next]`.  `Turns` and `Arrays` say which array that is:
the result's is always one of the two in use, it is the source after an odd number
of swaps, and nothing is longer than its array; `EncoderArrays` and
`DecoderArrays` add the lengths that the contracts speak of.

* `HeaderRead` is about the bits: kind of block, length and flags are read as they
  were written, with four flags or eight, for every number of bytes that
  the length takes (`NumeralOfBits`, `DataSizeEnough`).  The flags of
  transforms that the chain does not have are set, so four bits are enough.
* `TransformStep`: a transform that succeeds lengthens the trail by its result, one
  that fails by the same data again.  `TransformedStep` is where the number of
  swaps matters: the result is copied or stands there already, and
  `NothingAdded` is that nothing past its end is handed to the coder.
* `ReadStep`, `SkipStep` and `UndoStep` go back along the trail, `InverseKept`
  being what makes `Undo` arrive at `w[next - 1]`.
* Recursion: `Halves` and `Sizes` are recursive functions; that they exist is
  proved from `LeastNumber` (`FirstValues`, `SameValues`, `AllValues`).

### Only model-checked

The liveness properties (`CallsReturn`, `TasksFinish`, `RunReturns` and their
kin); and what the single transforms and entropy coders compute, which
`BlockCodingProofs` takes from their contracts: their modules use RECURSIVE
operators, which tlapm cannot reason about, and their round trips would need
induction over data besides.

## 5. Where the code and its comments part

Shown by a run:

* `EncoderLostCancel`: a block that fails before its turn stores CANCEL; the
  turn holder replaces it by its own number; tasks that look later wait for the
  failed block forever, and so does the client.
* `DecoderSeekHangs`: `seek()` stores CANCEL without the lock and without
  `notify_all`; a task that sleeps behind one that has given up is never woken.
* `NormalizeLoses`: when scaled frequencies sum to less than the scale,
  `normalizeFrequencies` (`EntropyUtils.cpp:243`) subtracts what is missing
  from the largest one instead of adding it.  Encoder and decoder disagree on the
  table; the block comes back changed, without an error (RANGE and ANS).
* `TextDictionary`: the encoder sizes its dictionary from the block and the
  decoder from the output array, which may fall into the next class; when only
  the encoder's grows, `TextCodec.cpp:771` enters the escapes in its map again and
  the two stop learning the same words.

Stated in the modules, and not kept by the model:

* `CloseWaitsForAll` (`CompressedOutputStream`): `close()` stops waiting at the
  first failed result and frees the buffers of tasks that may be running.
* `OnlyNextUnblocked` (`CompressedOutputStream`): a task woken by CANCEL looks a
  second time without the lock, sees the number of an earlier block instead, and
  writes out of turn.
* When the first block is skipped (option `from`), `get()` takes a byte from the
  next slot's buffer without waiting for its task.
* `SequentialReads`, `ReadsOwnBlock` and `TasksFinish` (`CompressedInputStream`)
  have the condition `OnlyReadersCancel`, which the code does not ensure
  (`CompressedInputStream.cpp:819` says "Read shared bitstream sequentially" without
  one).  With four slots, a task whose transform or coder fails stores CANCEL over
  the number of the turn holder, which stores its own number again.  A task woken
  by the CANCEL that looks a second time, without the lock, before that store gives
  up, and the task behind it sleeps for ever; one that looks after it meets the
  turn holder's number and reads out of turn.  With three slots, a `seek` does
  the same.
  `DeliveredInOrder`, `EofMeansEnd` and `CallsReturn` survive it: what such a
  task has read, or has not, stands behind the failure, and the client never
  gets there (section 4).
* `RunReturns` (`FileDecompression`) leaves out streams of three slots or more that
  an error closes before their end (`ClosedEarly`).  There the same happens to the
  CANCEL of `close()`: a task in between gives up, the turn holder stores its
  number, the task behind waits for ever, and so do `close()`, the worker and the
  program.  It takes five jobs on two files: computeJobsPerTask() gives the
  first three.
* A headless stream that is closed before its first `read` launches the tasks of
  the ring on a later `read`; the destructor's `close` returns at once since
  `_closed` is set, and nobody waits for them.

Seen while modelling the codecs, and confirmed on a build of the program:

* UTF: a block that ends in `E1 41 80` comes back with `E1 81 80`: the tail is
  packed without the test of continuation bytes (`UTFCodec.cpp:90`, `:111`).
* ROLZX: the encoder cuts chunks from `count - 4` bytes (`ROLZCodec.cpp:919`,
  `:959`), the decoder from `count` (`:1044`); blocks of a multiple of 16 MB and
  1 to 11 bytes fail.
* Some chains make a block longer than the decoder's arrays, and it is refused
  there: `SRT+SRT` on 1024 bytes of all values, `RANK+ZRLT` on 64 KB of all values
  (`ZRLT.hpp:43` promises not to grow, and takes the room it is given).
* So does `MTFT+ZRLT` on 10240 bytes, the values 0 to 255 forty times:
  compression succeeds and decompression ends with error 15, "expected 10240, got
  20226".  ZRLT writes into the block's own array, of 64 KB or more, what does not
  fit the result's.  `TransformSequence.hpp:151` then marks every transform as
  skipped, but the byte count stays that of ZRLT's result (line 159), so that bytes
  behind the result's array are coded.  In `BlockContracts` this is `ForwardKept`.
* ANS of order 1: a last chunk of one byte leaves three of the four states
  undefined (`ANSRangeEncoder.cpp:215`); 4194305 bytes in one block fail.
* EXE: an ARM64 code section at a place that is no multiple of four loses bits in
  `addr >> 2` (`EXECodec.cpp:266`); the block comes back changed.

By reading only: ARM64 targets beyond 2^28 in blocks of more than 128 MB; ROLZ's
token and index buffers have room for a quarter of a chunk
(`ROLZCodec.cpp:197`), LZX's token buffer for a fifth of the block
(`LZCodec.cpp:381`); the bound on SRT's header is two bytes short; ROLZ chooses
its delegate by the name of the whole chain (`ROLZCodec.cpp:47`), so that ROLZ
beside ROLZX is ROLZX too; the unsigned Exp-Golomb table cannot be inverted above
128.

Of the streams, without a run: a lost cancellation and a task out of turn exist
in the decoder too (`close()` with three slots can hang or let two tasks read at once);
`read()` after `close()` reports the end of the stream where
`API_REFERENCE.md:510` promises an exception; `seek()` before the first `read()`
of a stream with a header makes that read fail, since `readHeader()` then reads
at the new position.  `DefaultOutputBitStream::_close()` reverts its fields when
the buffer cannot be written, "to allow subsequent attempts in case of transient
failure" (`DefaultOutputBitStream.cpp:154`), but not `_written`, which has lost
the padding by then (line 149): after a second attempt `written()` is off
(`CloseFails`; `WrittenExact` is about streams that have not failed).  After
`close()` the first write throws, as its comment says, but resets `_availBits`
on the way, so that a second one does not.

## 6. Not modelled

Streams: the synchronous build without `CONCURRENCY_ENABLED`; two threads calling
one stream; the stream's header; listeners other than by their exceptions; memory
and file errors other than as exceptions at the points of `FaultPoints`.  The
modules of the streams treat a block's content as opaque and `BlockCoding` treats
one block alone; their composition is by that interface: a task encodes or
decodes its block, or fails.

Pool: the order of its queue and the number of its threads are modelled, its
mutex, condition variable and `schedule` on a stopped pool are not.

Drivers: `BlockCompressor` has the shape of `BlockDecompressor` without nested
tasks and has no module of its own; paths, overwriting and a single file are left
out.

Codecs: the inverses and `decodeV5` kept for older versions of the bitstream; the
inside of ssSort and trSort; the predictors of TPAQ and TPAQX (numeric tables
behind the binary coder that is modelled with CM); the detection of types of data
(an input of the blocks); the numeric accuracy of tables such as Global::LOG2.

Bitstreams: `seek` and `tell` of the output, `close` and `read` of the input.

Debug bitstreams, command line, printers, events and timing are I/O.  The C API
checks its parameters, owns one stream per context and buffers in front of a
file descriptor; every call of it is a call of the streams that are modelled.

## 7. Plan

1. Proofs: an abstract specification of what the input stream promises, as
   `BlockStream` is for the output stream, and its refinement; the contracts of
   `BlockContracts` for single transforms, in forms without RECURSIVE operators.
2. Models that may follow: `ThreadPool` with its mutex and `schedule` against
   the destructor; the contexts of the C API; the older bitstream versions.
