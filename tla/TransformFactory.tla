-------------------------- MODULE TransformFactory --------------------------
(***************************************************************************)
(* The transforms by the names of their tokens, each with the sizes of the *)
(* code scaled down so that small blocks reach every case.                 *)
(*                                                                         *)
(* ctx holds what the context tells a transform: the type of the data,     *)
(* what a histogram of the block detects, the entropy coder that follows   *)
(* and whether it is a fast one, the step a sample of the block asks for   *)
(* and whether it pays, the code that a header of the block names, whether *)
(* the block starts as a known kind of file does, and the jobs of the      *)
(* decoder's task.                                                         *)
(***************************************************************************)
EXTENDS Integers, Sequences, FiniteSets, Blocks

LOCAL R == INSTANCE RLT WITH Base <- 8, FirstCode <- 6, MinBlock <- 16, SmallBlock <- 24,
                             SmallPad <- 8, DefaultEscape <- 7

LOCAL Z == INSTANCE ZRLT WITH Base <- 8

LOCAL B == INSTANCE SBRT WITH Base <- 8

LOCAL S == INSTANCE SRT WITH Base <- 8, VarBase <- 4, MaxHeader <- 24

LOCAL F == INSTANCE FSDCodec WITH Base <- 8, Distances <- {1, 2, 3}, MinLength <- 10,
                                  SmallBlock <- 64, SmallPad <- 4, SampleShift <- 1

LOCAL A == INSTANCE AliasCodec WITH Base <- 16, Root <- 4, Quarter <- 2, MinBlock <- 8,
                                    MaxHeader <- 64, LengthBytes <- 4, WorthShare <- 20

LOCAL U == INSTANCE UTFCodec WITH Short <- 2, MaxSymbols <- 16, MinBlock <- 10, Slack <- 32

LOCAL W == INSTANCE BWTBlockCodec WITH Base <- 8, Chunks <- 2, Threshold1 <- 6, Threshold2 <- 7,
                                       FastBits <- 3, ByteBits <- 3, MaxIndexes <- 8

LOCAL V == INSTANCE BWTS WITH Base <- 8

LOCAL L == INSTANCE LZCodec WITH Radix <- 8, IntBytes <- 2, Word <- 2, Quick <- 2,
             HashBytes <- 3, HashSize <- 8, LastPart <- 8, MinBlock <- 12, SmallBlock <- 1024,
             MaxDistance1 <- 14, MaxDistance2 <- 40, SkipShift <- 2, Extra <- FALSE

LOCAL X == INSTANCE LZCodec WITH Radix <- 8, IntBytes <- 2, Word <- 2, Quick <- 2,
             HashBytes <- 3, HashSize <- 8, LastPart <- 8, MinBlock <- 12, SmallBlock <- 1024,
             MaxDistance1 <- 14, MaxDistance2 <- 40, SkipShift <- 2, Extra <- TRUE

LOCAL P == INSTANCE LZPCodec WITH Radix <- 8, Order <- 2, Word <- 2, Quick <- 2, MinMatch <- 4,
             MinBlock <- 8, MatchFlag <- 5, HashSize <- 8, SmallBlock <- 1024, WorthShift <- 3

LOCAL O == INSTANCE ROLZXCodec WITH VarBase <- 4, Word <- 2, First <- 3, LastPart <- 4,
             ChunkSize <- 16, MinBlock <- 10, SmallBlock <- 512, PosChecks <- 4, LongKey <- 3,
             KeySize <- 8, CheckSize <- 4, MinMatch <- 2, MinMatchLong <- 4, MaxMatch1 <- 60,
             MaxMatch2 <- 12, SkipShift <- 1, Byte <- 0..3

LOCAL E == INSTANCE EXECodec WITH Base <- 8, IntBytes <- 3, InstrBytes <- 2, AddrSpan <- 16,
             TwoByte <- 1, Jcc <- {2}, Jump <- {4, 5}, Escape <- 3, ThreeByte <- {6},
             Branch <- {1, 3}, CompareBranch <- {2}, MinBlock <- 12, MinMatches <- 2,
             GrowShare <- 1, CapShare <- 2, ZeroShare <- 10, OnesShare <- 15, JumpShare <- 10,
             Small <- {0}

LOCAL T == INSTANCE TextCodec WITH Letters <- {0, 1}, SP <- 2, CR <- 3, LF <- 4, Escape1 <- 5,
             Escape2 <- 6, NUL <- 7, High <- 8, Low <- 3, Base <- 4,
             StaticWords <- <<<<0, 0>>, <<0, 0, 0>>>>, MinLog <- 3, MaxLog <- 4, Share <- 8,
             MaxDict <- 16, MapSize <- 32, HashSize <- 128, Hash1 <- 37, Hash2 <- 75,
             MaxWord <- 5, MinBlock <- 12, MaxBlock <- 1024, NulShare <- 10, AsciiShare <- 9,
             SpaceShare <- 10

(***************************************************************************)
(* The chain a name asks for: NONE is left out of it, unless there is      *)
(* nothing else.  A ROLZ anywhere in a chain with ROLZX is ROLZX too: the  *)
(* codec looks for that name in the name of the chain.                     *)
(***************************************************************************)
getType(names) == SelectSeq(names, LAMBDA t : t # "NONE")

Delegate(token, tokens) ==
  IF token = "ROLZ" /\ \E k \in DOMAIN tokens : tokens[k] = "ROLZX" THEN "ROLZX" ELSE token

newTransform(names) ==
  LET tokens == getType(names)
  IN  IF tokens = <<>> THEN <<"NONE">>
      ELSE [k \in DOMAIN tokens |-> Delegate(tokens[k], tokens)]

doCopy(src, room) == IF Len(src) > room THEN Fail ELSE Done(src)

newTokenForward(token, src, room, ctx) ==
  CASE token = "NONE" -> doCopy(src, room)
    [] token = "RLT" -> R!forward(src, room, ctx.fast, ctx.type, ctx.detected)
    [] token = "ZRLT" -> Z!forward(src, room)
    [] token = "RANK" -> B!forward(src, room, "RANK")
    [] token = "MTFT" -> B!forward(src, room, "MTF")
    [] token = "SRT" -> S!forward(src, room)
    [] token = "MM" -> F!forward(src, room, ctx.type, ctx.dist, ctx.better)
    [] token = "PACK" -> A!forward(src, room, ctx.type, ctx.detected, FALSE)
    [] token = "DNA" -> A!forward(src, room, ctx.type, ctx.detected, TRUE)
    [] token = "UTF" -> U!forward(src, room, ctx.type)
    [] token = "EXE" -> E!forward(src, room, ctx.type, ctx.detected, ctx.header)
    [] token = "TEXT" -> T!forward(src, room, ctx.entropy, ctx.type, ctx.magic)
    [] token = "BWT" -> W!BlockForward(src, room)
    [] token = "BWTS" -> V!forward(src, room)
    [] token = "LZ" -> L!forward(src, room, ctx.type)
    [] token = "LZX" -> X!forward(src, room, ctx.type)
    [] token = "LZP" -> P!forward(src, room)
    [] token \in {"ROLZ", "ROLZX"} -> O!forward(src, room, ctx.type, token = "ROLZX")

newTokenInverse(token, src, slack, room, ctx) ==
  CASE token = "NONE" -> doCopy(src, room)
    [] token = "RLT" -> R!inverse(src, room)
    [] token = "ZRLT" -> Z!inverse(src, room)
    [] token = "RANK" -> B!inverse(src, room, "RANK")
    [] token = "MTFT" -> B!inverse(src, room, "MTF")
    [] token = "SRT" -> S!inverse(src, room)
    [] token = "MM" -> F!inverse(src, room)
    [] token \in {"PACK", "DNA"} -> A!inverse(src, room)
    [] token = "UTF" -> U!inverse(src, room)
    [] token = "EXE" -> E!inverse(src, room)
    [] token = "TEXT" -> T!inverse(src, room)
    [] token = "BWT" -> W!BlockInverse(src, room, ctx.jobs)
    [] token = "BWTS" -> V!inverse(src, room)
    [] token = "LZ" -> L!inverse(src, slack, room)
    [] token = "LZX" -> X!inverse(src, slack, room)
    [] token = "LZP" -> P!inverse(src, room)
    [] token \in {"ROLZ", "ROLZX"} -> O!inverse(src, room, token = "ROLZX")

tokenMaxEncodedLength(token, n) ==
  CASE token \in {"NONE", "ZRLT", "RANK", "MTFT", "BWTS", "TEXT"} -> n
    [] token = "RLT" -> R!getMaxEncodedLength(n)
    [] token = "SRT" -> S!getMaxEncodedLength(n)
    [] token = "MM" -> F!getMaxEncodedLength(n)
    [] token \in {"PACK", "DNA"} -> A!getMaxEncodedLength(n)
    [] token = "UTF" -> U!getMaxEncodedLength(n)
    [] token = "EXE" -> E!getMaxEncodedLength(n)
    [] token = "BWT" -> W!getMaxEncodedLength(n)
    [] token \in {"LZ", "LZX"} -> L!getMaxEncodedLength(n)
    [] token = "LZP" -> P!getMaxEncodedLength(n)
    [] token \in {"ROLZ", "ROLZX"} -> O!getMaxEncodedLength(n, token = "ROLZX")

(***************************************************************************)
(* The tasks that undo one block together agree on what they write.        *)
(***************************************************************************)
TokenTasksAgree(token, src, ctx) == token = "BWT" => W!TasksAgree(src, ctx.jobs)
=============================================================================
