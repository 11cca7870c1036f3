----------------------------- MODULE FrameReader -----------------------------
(***************************************************************************)
(* Frames of the serial line, as bitstream.inc takes them from what is     *)
(* read and hands them to the vehicle monitor in pieces of some bits.      *)
(*                                                                         *)
(* A frame is a start byte, bytes, and a newline.  Two bytes hold a word   *)
(* of 15 bits; the first word is the checksum, which is taken to fit just  *)
(* the bytes that were sent.  Bits are known by their place in the frame.  *)
(***************************************************************************)
EXTENDS Integers, Sequences

CONSTANTS
  WordBits,     \* 15
  MaxBuffer,    \* MAXBUFFER
  Lengths,      \* bytes in the frames that are sent
  Widths        \* bits that are read at once, up to 32

ASSUME ReaderAssumption ==
  /\ WordBits \in Nat \ {0} /\ MaxBuffer \in Nat
  /\ Lengths \cup Widths \subseteq Nat \ {0} /\ \A len \in Lengths : len % 2 = 0

VARIABLES
  frame, place,                 \* length of the frame that is sent; next byte of it
  in_frame, buffer_len,         \* buffer_t
  word_pos, bit_pos,
  stage,                        \* of run: "receive", "fits" or "differs", "parse"
  \* histories
  intact,                       \* the buffer has just what was sent of this frame
  taken,                        \* bits read of the frame
  gave, meant                   \* what the last read gave, and should give

line       == <<frame, place>>
received   == <<in_frame, buffer_len, intact>>
position   == <<word_pos, bit_pos, stage, taken, gave, meant>>
readerVars == <<line, received, position>>

ReaderInit ==
  /\ frame \in Lengths /\ place = 0
  /\ in_frame = FALSE /\ buffer_len = 0 /\ intact = FALSE
  /\ word_pos = 0 /\ bit_pos = 0 /\ stage = "receive"
  /\ taken = 0 /\ gave = {} /\ meant = {}

\* The line goes on to the next byte, or frame.
Proceed ==
  IF place <= frame THEN place' = place + 1 /\ UNCHANGED frame
                    ELSE place' = 0 /\ frame' \in Lengths

-----------------------------------------------------------------------------
(* parse_data, for each byte *)

StartByte ==
  /\ stage = "receive" /\ place = 0 /\ Proceed
  /\ in_frame' = TRUE /\ buffer_len' = 0 /\ intact' = TRUE
  /\ UNCHANGED position

DataByte ==
  LET kept == in_frame /\ buffer_len < MaxBuffer
  IN /\ stage = "receive" /\ place \in 1 .. frame /\ Proceed
     /\ buffer_len' = IF kept THEN buffer_len + 1 ELSE buffer_len
     /\ intact' = (intact /\ kept)
     /\ UNCHANGED <<in_frame, position>>

EndByte ==
  /\ stage = "receive" /\ place > frame /\ Proceed
  /\ in_frame' = FALSE
  /\ IF in_frame
     THEN /\ word_pos' = 0 /\ bit_pos' = 0
          /\ stage' = IF buffer_len < 2 THEN "receive"
                      ELSE IF intact THEN "fits" ELSE "differs"
          /\ taken' = 0 /\ gave' = {} /\ meant' = {}
     ELSE UNCHANGED position
  /\ UNCHANGED <<buffer_len, intact>>

\* Without its start, a frame goes on with what is in the buffer.
ByteLost ==
  /\ stage = "receive" /\ Proceed
  /\ intact' = (place = 0 /\ in_frame /\ buffer_len = 0)
  /\ UNCHANGED <<in_frame, buffer_len, position>>

-----------------------------------------------------------------------------
(* read_bits *)

\* CURWORD: which bit of the frame is at which place of the word.
Word(pos) ==
  IF pos >= buffer_len THEN {}
  ELSE {<<i, WordBits * (pos \div 2) + i>> : i \in 0 .. WordBits - 1}

Shift(bits, n) == {<<b[1] + n, b[2]>> : b \in {c \in bits : c[1] + n >= 0}}

\* Faulty variant: a word that is read to its end is not left.
NextWord_Kept(left) == 0

\* Bytes to go on when `left` bits more than the last word has are missing.
NextWord(left) == IF left = 0 THEN 2 ELSE 0

\* read_bits.  Words after the first are put beside what was copied.
ReadBits(n) ==
  LET copied == WordBits - bit_pos
      within == bit_pos + n < WordBits
      rounds == IF within THEN 0 ELSE ((n - copied) + WordBits - 1) \div WordBits
      left   == (n - copied) - WordBits * rounds
      rv     == Shift(Word(word_pos), -bit_pos)
                \cup UNION {Shift(Word(word_pos + 2 * k), copied + WordBits * (k - 1)) :
                              k \in 1 .. rounds}
  IN /\ gave' = {b \in rv : b[1] < n}
     /\ word_pos' = word_pos + 2 * rounds + NextWord(left)
     /\ bit_pos' = IF within THEN bit_pos + n ELSE IF left = 0 THEN 0 ELSE left + WordBits
     /\ taken' = taken + n
     /\ meant' = {<<i, taken + i>> :
                    i \in {j \in 0 .. n - 1 : taken + j < WordBits * (buffer_len \div 2)}}

\* run: the checksum is read first, ...
CheckCrc ==
  /\ stage \in {"fits", "differs"} /\ ReadBits(WordBits)
  /\ stage' = IF stage = "fits" THEN "parse" ELSE "receive"
  /\ UNCHANGED <<line, received>>

\* ... then parse_frame reads the rest, also beyond its end, ...
ParseBits ==
  /\ stage = "parse" /\ taken <= WordBits * (buffer_len \div 2)
  /\ \E n \in Widths : ReadBits(n)
  /\ UNCHANGED <<line, received, stage>>

\* ... until it has what it wants.
Parsed ==
  /\ stage = "parse" /\ stage' = "receive"
  /\ UNCHANGED <<line, received, word_pos, bit_pos, taken, gave, meant>>

ReaderNext == \/ StartByte \/ DataByte \/ EndByte \/ ByteLost
              \/ CheckCrc \/ ParseBits \/ Parsed

ReaderSpec == ReaderInit /\ [][ReaderNext]_readerVars

-----------------------------------------------------------------------------
(* Properties *)

\* Whatever was read of a frame before, across however many words and up to
\* or beyond the last: the next bits read are those that follow, in order,
\* and nought where the frame has ended.
BitsInOrder == stage = "parse" => gave = meant

=============================================================================
