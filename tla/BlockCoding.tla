----------------------------- MODULE BlockCoding -----------------------------
(***************************************************************************)
(* The way of one block: an encoding task turns it into a header and       *)
(* entropy coded bits (the middle of EncodingTask::run), and a decoding    *)
(* task turns these back into a block (that of DecodingTask::run).         *)
(*                                                                         *)
(* The bits are a sequence of 0s and 1s; a byte that the null coder copies *)
(* stays whole in it.                                                      *)
(***************************************************************************)
EXTENDS TransformSequence, Blocks

CONSTANTS
  Chain(_),                   \* the transforms of a name
  InverseTasksAgree(_, _, _), \* whether the tasks of an inverse agree: token, bytes, context
  EntropyEncode(_, _, _),     \* an entropy coder: name, bytes, what memory holds
  EntropyDecode(_, _, _, _),  \* its inverse: name, bits, where they begin, number of bytes
  Jobs,          \* the blocks to code and what they are to be coded with
  SmallBlock,    \* SMALL_BLOCK_SIZE
  ExtraBuffer,   \* EXTRA_BUFFER_SIZE
  TransformFloor,\* the transformed size that is allowed to any block
  BufferFloor,   \* DEFAULT_BUFFER_SIZE
  ByteBits       \* bits in a byte of the length field

ASSUME SizesAssumption ==
  /\ {SmallBlock, ExtraBuffer, TransformFloor, BufferFloor} \subseteq Nat
  /\ ByteBits \in Nat \ {0}

VARIABLES
  job,       \* a member of Jobs: block, names, entropy, ctx, types (what the
             \* transforms before may have made of its type), skip, tasks, hashed,
             \* heap, spare (what an earlier block has made of the output array)
  phase,     \* how far the two tasks are
  bits,      \* what the encoding task wrote
  checksum,  \* the checksum in it: nothing but the block has the same
  at         \* how far the decoding task has read

vars == <<job, phase, bits, checksum, at, seqVars>>

blockSize == Len(job.block)

Larger(m, n) == IF m > n THEN m ELSE n

(***************************************************************************)
(* A block of a few bytes, and one that looks compressed when such blocks  *)
(* are to be left alone, is copied.                                        *)
(***************************************************************************)
Copied == Len(job.block) <= SmallBlock \/ job.skip

Tokens == IF Copied THEN Chain(<<>>) ELSE Chain(job.names)

EntropyOf(copy) == IF copy THEN "NONE" ELSE job.entropy

(***************************************************************************)
(* The header: what kind of block, the bytes of its length, the transforms *)
(* that were skipped, the length.                                          *)
(***************************************************************************)
FlagBits(flags) == [k \in 1..8 |-> IF k - 1 \in flags THEN 1 ELSE 0]

\* Mutant of DataSize: a length of 2 ^ ByteBits on one byte.
DataSizeOfPower(n) == IF Halves(n - 1)[ByteBits] = 0 THEN 1 ELSE (Log2(n) \div ByteBits) + 1

\* n is below 2 ^ ByteBits when no bit is left of it past its lowest byte.
DataSize(n) == IF Halves(n)[ByteBits] = 0 THEN 1 ELSE (Log2(n) \div ByteBits) + 1

Header(copy, tokens, flags, n) ==
  <<IF copy THEN 1 ELSE 0>> \o Bits(DataSize(n) - 1, 2)
    \o (IF copy \/ Len(tokens) <= 4
        THEN <<0>> \o Part(FlagBits(flags), 0, 4)
        ELSE <<1, 0, 0, 0, 0>> \o FlagBits(flags))
    \o Bits(n, ByteBits * DataSize(n))

(***************************************************************************)
(* The encoding task.  What it hands to the entropy coder is as long as    *)
(* what the last transform made, wherever the sequence left that: past the *)
(* end of the output array there is whatever memory holds.                 *)
(***************************************************************************)
Handed ==
  LET data == slices["output"].data
  IN  data \o Fill(job.heap, Len(slices[in].data) - Len(data))

Start ==
  /\ phase = "start"
  /\ phase' = "forward"
  /\ checksum' = IF job.hashed THEN job.block ELSE <<>>
  /\ ForwardBegin(Slice(job.block, Larger(blockSize + blockSize \div 8, BufferFloor)),
                  Slice(<<>>, Larger(job.spare, getMaxEncodedLength(Tokens, Len(job.block)))),
                  Tokens)
  /\ UNCHANGED <<job, bits, at>>

Transform ==
  /\ phase = "forward"
  /\ \E t \in job.types :
       ForwardStep(getMaxEncodedLength(chain, Len(job.block)), [job.ctx EXCEPT !.type = t])
  /\ UNCHANGED <<job, phase, bits, checksum, at>>

Transformed ==
  /\ phase = "forward"
  /\ ForwardEnd
  /\ phase' = "emit"
  /\ UNCHANGED <<job, bits, checksum, at>>

Emit ==
  /\ phase = "emit"
  /\ phase' = "read"
  /\ \E data \in {Handed} :
       bits' = Header(Copied, chain, skipFlags, Len(data))
                 \o EntropyEncode(EntropyOf(Copied), data, job.heap)
  /\ UNCHANGED <<job, checksum, at, seqVars>>

(***************************************************************************)
(* The decoding task.  A length out of range, an entropy coder or an       *)
(* inverse that fails and a checksum that differs make it refuse.          *)
(***************************************************************************)
blockLength == Larger(blockSize + ExtraBuffer, blockSize + blockSize \div 16)

maxTransformSize == Larger(blockLength + blockLength \div 2, TransformFloor)

Parsed ==
  LET copy == bits[1] = 1
      many == ~copy /\ bits[4] = 1
      flagAt == IF many THEN 8 ELSE 4
      dataSize == 1 + Numeral(Part(bits, 1, 2))
      start == IF many THEN 16 ELSE 8
  IN  [copy |-> copy,
       flags |-> IF copy THEN {}
                 ELSE {k \in 0..7 : IF many \/ k < 4 THEN bits[flagAt + k + 1] = 1 ELSE TRUE},
       length |-> Numeral(Part(bits, start, ByteBits * dataSize)),
       at |-> start + ByteBits * dataSize]

Refuse ==
  /\ phase' = "refused"
  /\ UNCHANGED <<job, bits, checksum, seqVars>>

Room == IF job.tasks > 1 THEN Larger(blockLength, Len(bits) \div ByteBits) ELSE blockLength

Unreadable(head, res) ==
  \/ head.length \notin 1..maxTransformSize
  \/ ~res.ok
  \/ res.at > Len(bits)
  \/ head.length > Room

Read ==
  /\ phase = "read"
  /\ \E head \in {Parsed} :
     \E res \in {EntropyDecode(EntropyOf(head.copy), bits, head.at, head.length)} :
       /\ at' = res.at
       /\ IF Unreadable(head, res) THEN Refuse
          ELSE /\ phase' = "inverse"
               /\ InverseBegin(Slice(res.out, Larger(blockLength, head.length + ExtraBuffer)),
                               Slice(<<>>, Room),
                               Chain(IF head.copy THEN <<>> ELSE job.names), head.flags)
               /\ UNCHANGED <<job, bits, checksum>>

Skip ==
  /\ phase = "inverse"
  /\ InverseSkip
  /\ UNCHANGED <<job, phase, bits, checksum, at>>

Undo ==
  /\ phase = "inverse" /\ next >= 1 /\ next - 1 \notin skipFlags
  /\ UNCHANGED at
  /\ \E res \in {Undone(job.ctx)} :
        IF res.ok THEN InverseStep(res) /\ UNCHANGED <<job, phase, bits, checksum>>
        ELSE Refuse

Finish ==
  /\ phase = "inverse" /\ next = 0
  /\ UNCHANGED at
  /\ IF swaps % 2 = 0 /\ skipFlags # SKIP_MASK /\ ~Fits THEN Refuse
     ELSE InverseEnd /\ phase' = "check" /\ UNCHANGED <<job, bits, checksum>>

Check ==
  /\ phase = "check"
  /\ phase' = IF job.hashed /\ slices["output"].data # checksum THEN "refused" ELSE "done"
  /\ UNCHANGED <<job, bits, checksum, at, seqVars>>

Init ==
  /\ job \in Jobs
  /\ phase = "start" /\ bits = <<>> /\ checksum = <<>> /\ at = 0
  /\ chain = <<>> /\ next = 0 /\ skipFlags = SKIP_MASK /\ swaps = 0
  /\ slices = [input |-> NoSlice, output |-> NoSlice, buffer |-> NoSlice]
  /\ in = "input" /\ out = "output"

Next ==
  \/ Start \/ Transform \/ Transformed \/ Emit
  \/ Read \/ Skip \/ Undo \/ Finish \/ Check

Spec == Init /\ [][Next]_vars

(***************************************************************************)
(* What was coded comes back byte for byte: transforms, skip flags, length *)
(* and entropy coder undo each other (EncodingTask::run and                *)
(* DecodingTask::run).                                                     *)
(***************************************************************************)
LosslessBlock == phase = "done" => slices["output"].data = job.block

(***************************************************************************)
(* The decoding task refuses nothing that the encoding task wrote.         *)
(***************************************************************************)
NothingRefused == phase # "refused"

(***************************************************************************)
(* Nothing is written past the end of an array, and the third array is     *)
(* never the one that is handed on.                                        *)
(***************************************************************************)
WithinArrays == \A a \in DOMAIN slices : Len(slices[a].data) <= slices[a].length

(***************************************************************************)
(* The decoding task leaves the bitstream where the encoding task did:     *)
(* with one task the next block is read from there.                        *)
(***************************************************************************)
ReadsAllWritten == phase \in {"inverse", "check", "done"} => at = Len(bits)

(***************************************************************************)
(* The tasks that invert the BWT of a block write two bytes at a time, and *)
(* past the end of a chunk of odd size: what one of them writes in the     *)
(* chunk of another is what that one writes there too                      *)
(* (InverseBiPSIv2Task::run).                                              *)
(***************************************************************************)
ChunksAgree ==
  phase = "inverse" /\ next >= 1 /\ next - 1 \notin skipFlags
    => InverseTasksAgree(chain[next], slices[in].data, job.ctx)
=============================================================================
