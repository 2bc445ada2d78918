-------------------------------- MODULE RLT --------------------------------
(***************************************************************************)
(* Run length transform: a run of a byte becomes the byte, an escape and   *)
(* the length; an escape that is data is followed by a zero.               *)
(*                                                                         *)
(* Base is the number of byte values (256), SmallBlock and SmallPad bound  *)
(* the blocks that get room to grow (512, 32), MinBlock is the shortest    *)
(* block that is tried (16), FirstCode is RUN_LEN_ENCODE1 (224).           *)
(***************************************************************************)
EXTENDS Integers, Sequences, Blocks

CONSTANTS Base, FirstCode, MinBlock, SmallBlock, SmallPad, DefaultEscape

Byte == 0..Base - 1

RUN_LEN_ENCODE2 == (Base - 1 - FirstCode) * Base

RUN_THRESHOLD == 3

MAX_RUN == Base * Base - 1 + RUN_LEN_ENCODE2 + RUN_THRESHOLD - 1

MAX_RUN4 == MAX_RUN - 4

getMaxEncodedLength(n) == IF n <= SmallBlock THEN n + SmallPad ELSE n

(***************************************************************************)
(* The escape: the first absent byte, else the first of the rarest ones;   *)
(* a fixed byte when a fast entropy coder follows.                         *)
(***************************************************************************)
FindEscape(src, fast) ==
  LET freq == [b \in Byte |-> CountOf(src, b)]
  IN  IF fast THEN DefaultEscape
      ELSE CHOOSE b \in Byte : \A c \in Byte :
             freq[b] < freq[c] \/ (freq[b] = freq[c] /\ b <= c)

RunLength(run) ==
  LET n == run - RUN_THRESHOLD
      m == n - FirstCode
      l == n - RUN_LEN_ENCODE2
  IN  IF n < FirstCode THEN <<n>>
      ELSE IF n < RUN_LEN_ENCODE2 THEN <<FirstCode + m \div Base, m % Base>>
      ELSE <<Base - 1, (l \div Base) % Base, l % Base>>

emitRunLength(run, escape, val) ==
  (IF val = escape THEN <<val, 0>> ELSE <<val>>) \o <<escape>> \o RunLength(run)

Literals(val, n, escape) ==
  IF val # escape THEN Fill(val, n)
  ELSE [k \in 1..(2 * n) |-> IF k % 2 = 1 THEN escape ELSE 0]

(***************************************************************************)
(* How far a run of val goes from i on: four bytes at a time, which may    *)
(* stop the run at the longest one that can be written.                    *)
(***************************************************************************)
RECURSIVE Scan(_, _, _, _)
Scan(src, i, run, val) ==
  LET same == {n \in 0..4 : \A k \in 0..n - 1 : At(src, i + k) = val}
      n == CHOOSE m \in same : \A k \in same : k <= m
  IN  IF At(src, i) # val THEN [at |-> i, run |-> run]
      ELSE IF n = 4 /\ run + 4 < MAX_RUN4 /\ i + 4 < Len(src) - 4
           THEN Scan(src, i + 4, run + 4, val)
           ELSE [at |-> i + n, run |-> run + n]

RunFits(out, run, val, escape, room) ==
  Len(out) + (IF run > RUN_THRESHOLD THEN 6 ELSE IF val # escape THEN run ELSE 2 * run)
    < room

RunCode(run, val, escape) ==
  IF run > RUN_THRESHOLD THEN emitRunLength(run, escape, val)
  ELSE Literals(val, run, escape)

(***************************************************************************)
(* The last bytes, that no run reaches, one by one.                        *)
(***************************************************************************)
RECURSIVE LastBytes(_, _, _, _, _)
LastBytes(src, i, out, escape, room) ==
  IF i = Len(src) \/ Len(out) >= room
  THEN [ok |-> i = Len(src), out |-> out]
  ELSE IF At(src, i) # escape
       THEN LastBytes(src, i + 1, Append(out, At(src, i)), escape, room)
       ELSE IF Len(out) + 2 >= room THEN Fail
            ELSE LastBytes(src, i + 1, out \o <<escape, 0>>, escape, room)

RECURSIVE Encode(_, _, _, _, _, _, _)
Encode(src, i, val, run, out, escape, room) ==
  LET scan == Scan(src, i, run, val)
      coded == out \o RunCode(scan.run, val, escape)
      next == At(src, scan.at)
      last == IF RunFits(coded, 1, next, escape, room)
              THEN coded \o Literals(next, 1, escape) ELSE coded
  IN  IF ~RunFits(out, scan.run, val, escape, room) THEN Fail
      ELSE IF scan.at + 1 >= Len(src) - 4
           THEN LastBytes(src, scan.at + 1, last, escape, room)
           ELSE Encode(src, scan.at + 1, next, 1, coded, escape, room)

(***************************************************************************)
(* type is what is already known of the data, detected what the histogram  *)
(* says of it: RLT leaves text-like blocks alone.                          *)
(***************************************************************************)
RltSkips == {"DNA", "BASE64", "UTF8"}

Skipped(type, detected, fast) ==
  \/ type \in RltSkips
  \/ ~fast /\ type = "UNDEFINED" /\ detected \in RltSkips

forward(src, room, fast, type, detected) ==
  LET escape == FindEscape(src, fast)
      res == Encode(src, 1, At(src, 0), 0,
                    <<escape>> \o Literals(At(src, 0), 1, escape), escape, room)
  IN  IF src = <<>> THEN Done(<<>>)
      ELSE IF \/ Len(src) < MinBlock
              \/ room < getMaxEncodedLength(Len(src))
              \/ Skipped(type, detected, fast)
           THEN Fail
           ELSE [res EXCEPT !.ok = @ /\ Len(res.out) < Len(src)]

(***************************************************************************)
(* The inverse.                                                            *)
(***************************************************************************)
CodeSize(first) ==
  IF first = Base - 1 THEN 3 ELSE IF first >= FirstCode THEN 2 ELSE 1

CodedRun(src, i) ==
  LET first == At(src, i)
  IN  CASE CodeSize(first) = 3 ->
             At(src, i + 1) * Base + At(src, i + 2) + RUN_LEN_ENCODE2
        [] CodeSize(first) = 2 -> (first - FirstCode) * Base + At(src, i + 1) + FirstCode
        [] OTHER -> first

RECURSIVE Decode(_, _, _, _, _)
Decode(src, i, out, escape, room) ==
  LET run == CodedRun(src, i + 1) + RUN_THRESHOLD - 1
  IN  IF i = Len(src) THEN Done(out)
      ELSE IF At(src, i) # escape
           THEN IF Len(out) >= room THEN Fail
                ELSE Decode(src, i + 1, Append(out, At(src, i)), escape, room)
      ELSE IF i + 1 >= Len(src) THEN Fail
      ELSE IF At(src, i + 1) = 0
           THEN IF Len(out) >= room THEN Fail
                ELSE Decode(src, i + 2, Append(out, escape), escape, room)
      ELSE IF \/ i + 1 + CodeSize(At(src, i + 1)) > Len(src)
              \/ Len(out) + run > room \/ run > MAX_RUN \/ out = <<>>
           THEN Fail
           ELSE Decode(src, i + 1 + CodeSize(At(src, i + 1)),
                       out \o Fill(out[Len(out)], run), escape, room)

inverse(src, room) ==
  LET escape == At(src, 0)
      starts == Len(src) > 1 /\ At(src, 1) = escape
  IN  IF src = <<>> THEN Done(<<>>)
      ELSE IF ~starts THEN Decode(src, 1, <<>>, escape, room)
      ELSE IF (Len(src) > 2 /\ At(src, 2) # 0) \/ room = 0 THEN Fail
      ELSE Decode(src, 3, <<escape>>, escape, room)
=============================================================================
