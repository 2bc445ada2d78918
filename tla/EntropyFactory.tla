--------------------------- MODULE EntropyFactory ---------------------------
(***************************************************************************)
(* The entropy coders by name, over bytes of 4 bits: a job that uses one   *)
(* has a block of such bytes.  The sizes of the code are scaled with it,   *)
(* and keep the order they have there (CONSTANTS of each coder).           *)
(*                                                                         *)
(* The predictors of TPAQ and TPAQX are not modelled: what codes their     *)
(* bits is the binary entropy coder of CM.                                 *)
(***************************************************************************)
EXTENDS Integers, Sequences, Blocks

LOCAL HuffmanC ==
  INSTANCE HuffmanCodec WITH
    SymBits <- 4, MaskBits <- 2, VarBits <- 3, IntBytes <- 4, UintBits <- 10,
    MaxSize <- 5, ChunkSize <- 64, RawSize <- 5

LOCAL ANSRange ==
  INSTANCE ANSRangeCodec WITH
    SymBits <- 4, MaskBits <- 2, VarBits <- 3, IntBytes <- 4, UintBits <- 10,
    TopBits <- 7, LogRange <- 6, MinLog <- 4, ChunkSize <- 20, MaxChunk <- 40, RawLimit <- 4

LOCAL Range ==
  INSTANCE RangeCodec WITH
    SymBits <- 4, MaskBits <- 2, VarBits <- 3, IntBytes <- 4, UintBits <- 10,
    TopBits <- 8, LowBits <- 12, BottomBits <- 8, LogRange <- 6, MinLog <- 4, ChunkSize <- 24

LOCAL BinaryEntropy ==
  INSTANCE BinaryCodec WITH
    SymBits <- 4, MaskBits <- 2, VarBits <- 3, IntBytes <- 4, UintBits <- 10,
    TopBits <- 12, LowBits <- 8, FPAQChunk <- 16, MaxChunk <- 40

(***************************************************************************)
(* newEncoder and newDecoder with what the coder then does.  heap is what  *)
(* memory that was never written holds.                                    *)
(***************************************************************************)
ANSOrder(type) == IF type = "ANS0" THEN 0 ELSE 1

encode(type, data, heap) ==
  CASE type = "NONE" -> data
    [] type = "HUFFMAN" -> HuffmanC!encode(data)
    [] type \in {"ANS0", "ANS1"} -> ANSRange!encode(data, ANSOrder(type), heap)
    [] type = "RANGE" -> Range!encode(data)
    [] type \in {"FPAQ", "CM"} -> BinaryEntropy!encode(data, type)

decode(type, bits, at, n) ==
  CASE type = "NONE" -> [ok |-> TRUE, out |-> Part(bits, at, n), at |-> at + n]
    [] type = "HUFFMAN" -> HuffmanC!decode(bits, at, n)
    [] type \in {"ANS0", "ANS1"} -> ANSRange!decode(bits, at, n, ANSOrder(type))
    [] type = "RANGE" -> Range!decode(bits, at, n)
    [] type \in {"FPAQ", "CM"} -> BinaryEntropy!decode(bits, at, n, type)
=============================================================================
