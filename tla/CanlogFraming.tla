--------------------------- MODULE CanlogFraming ---------------------------
(***************************************************************************)
(* How run_source of canlog_shmem.c cuts the bytes of the serial device    *)
(* into CAN frames.  read() returns any part of the stream, the loop scans *)
(* the buffer for 0xF1, process_frame takes a frame off it or says that    *)
(* its end is missing, and a rest is moved to the front of the buffer for  *)
(* the next read.                                                          *)
(*                                                                         *)
(* A byte is <<f, k>>, the k-th byte of frame f.  A frame is shortened to  *)
(* the start byte, the length byte, its data and the final byte; Overhead  *)
(* is 12 in the code.                                                      *)
(***************************************************************************)
EXTENDS Integers, Sequences

CONSTANTS
  NumFrames,  \* bound: frames the device sends
  MaxLen,     \* longest data, 15 in the code
  BufLen      \* BUFLEN

Overhead == 3

ASSUME SizesAssumption ==
  /\ NumFrames \in Nat /\ MaxLen \in Nat
  /\ BufLen \in Nat /\ BufLen >= Overhead + MaxLen

Frames == 1 .. NumFrames
Junk   == <<0, 0>>

VARIABLES
  lens,     \* data length of each frame
  fake,     \* bytes that are no start bytes but have the value 0xF1
  sent,     \* bytes of the stream that were read
  buf, bufpos,   \* the buffer and where the next read goes
  nr, cpos,      \* the loop variables of the scan
  pc,       \* "read" in epoll_wait and read, "scan" in the inner loop
  decoded,  \* history: what process_frame took, as sequences of bytes
  split     \* history: a scan found the frame at the front incomplete

stream == <<lens, fake>>
framingVars == <<stream, sent, buf, bufpos, nr, cpos, pc, decoded, split>>

Size(f) == Overhead + lens[f]

\* Where frame f begins in the stream, from 0.
Offset[f \in 1 .. (NumFrames + 1)] ==
  IF f = 1 THEN 0 ELSE Offset[f - 1] + Size(f - 1)
Total == Offset[NumFrames + 1]

\* The i-th byte of the stream.
ByteAt(i) ==
  LET f == CHOOSE g \in Frames : Offset[g] < i /\ i <= Offset[g + 1]
  IN  <<f, i - Offset[f]>>

Bytes(f) == [k \in 1 .. Size(f) |-> <<f, k>>]

FramingInit ==
  /\ lens \in [Frames -> 0 .. MaxLen]
  /\ fake \in SUBSET {<<f, k>> : f \in Frames, k \in 3 .. (Overhead + MaxLen)}
  /\ sent = 0
  /\ buf = [i \in 0 .. (BufLen - 1) |-> Junk] /\ bufpos = 0
  /\ nr = 0 /\ cpos = 0 /\ pc = "read"
  /\ decoded = <<>> /\ split = FALSE

IsStart(b) == b[2] = 1 \/ b \in fake

\* The values the low four bits of b can have, read as a length.
LengthOf(b) == IF b[2] = 2 THEN {lens[b[1]]} ELSE 0 .. MaxLen

-----------------------------------------------------------------------------
Read ==
  /\ pc = "read" /\ sent < Total /\ bufpos < BufLen
  /\ \E n \in 1 .. (BufLen - bufpos) :
       /\ sent + n <= Total
       /\ buf' = [i \in DOMAIN buf |->
                    IF i \in bufpos .. (bufpos + n - 1)
                    THEN ByteAt(sent + (i - bufpos) + 1) ELSE buf[i]]
       /\ sent' = sent + n
       /\ nr' = bufpos + n
  /\ cpos' = 0 /\ pc' = "scan"
  /\ UNCHANGED <<stream, bufpos, decoded, split>>

\* The condition at the end of the do loop.
Continue(p) == IF p < nr THEN "scan" ELSE "read"

\* A byte outside a frame is skipped.
Skip ==
  /\ pc = "scan" /\ ~IsStart(buf[cpos])
  /\ bufpos' = 0 /\ cpos' = cpos + 1 /\ pc' = Continue(cpos + 1)
  /\ UNCHANGED <<stream, sent, buf, nr, decoded, split>>

\* Faulty variant: the length test forgets the final byte.
HasFrame_Short(len) == nr - cpos >= Overhead /\ nr - cpos >= Overhead + len - 1

\* The two tests of process_frame.
HasFrame(len) == nr - cpos >= Overhead /\ nr - cpos >= Overhead + len

\* What the code reads as the length where the header itself is incomplete
\* does not matter: the first test fails.
Lengths == IF nr - cpos >= Overhead THEN LengthOf(buf[cpos + 1]) ELSE {0}

TakeFrame ==
  /\ pc = "scan" /\ IsStart(buf[cpos])
  /\ \E len \in Lengths :
       /\ HasFrame(len)
       /\ decoded' = Append(decoded,
            [k \in 1 .. (Overhead + len) |-> buf[(cpos + k) - 1]])
       /\ bufpos' = 0 /\ cpos' = cpos + Overhead + len
       /\ pc' = Continue(cpos + Overhead + len)
  /\ UNCHANGED <<stream, sent, buf, nr, split>>

\* Faulty variant: the buffer is kept without moving the rest to its front.
Incomplete_NoMove ==
  /\ pc = "scan" /\ IsStart(buf[cpos])
  /\ \E len \in Lengths : ~HasFrame(len)
  /\ bufpos' = nr
  /\ split' = (split \/ cpos = 0)
  /\ pc' = "read"
  /\ UNCHANGED <<stream, sent, buf, nr, cpos, decoded>>

\* The rest is moved to the front, unless it is there already: then bufpos
\* is left as it was before the read.
Incomplete ==
  /\ pc = "scan" /\ IsStart(buf[cpos])
  /\ \E len \in Lengths : ~HasFrame(len)
  /\ IF cpos # 0
     THEN /\ buf' = [i \in DOMAIN buf |->
                       IF i < nr - cpos THEN buf[cpos + i] ELSE buf[i]]
          /\ bufpos' = nr - cpos
          /\ UNCHANGED split
     ELSE split' = TRUE /\ UNCHANGED <<buf, bufpos>>
  /\ pc' = "read"
  /\ UNCHANGED <<stream, sent, nr, cpos, decoded>>

\* The device has sent everything and the program waits.
Idle == pc = "read" /\ sent = Total /\ UNCHANGED framingVars

FramingNext == Read \/ Skip \/ TakeFrame \/ Incomplete \/ Idle

FramingSpec == FramingInit /\ [][FramingNext]_framingVars

-----------------------------------------------------------------------------
(* Properties *)

\* Whatever the device sends and however it is cut, there is room for the
\* next read (a read of no bytes would be repeated for ever) and the scan
\* stays inside what was read.
RoomToRead ==
  /\ bufpos < Overhead + MaxLen /\ bufpos < BufLen
  /\ pc = "scan" => cpos < nr

\* The number of frames that were read to their end.
Complete == LET c == {f \in Frames : Offset[f + 1] <= sent}
            IN  IF c = {} THEN 0 ELSE CHOOSE f \in c : \A g \in c : g <= f

\* Every frame that was read to its end has been taken, whole and in order,
\* and nothing else has.
Reassembled ==
  pc = "read" => decoded = [f \in 1 .. Complete |-> Bytes(f)]

\* So it is as long as no read ends inside the frame at the front of the
\* buffer, wherever else reads end and whatever the data bytes are.
ReassembledUnlessSplit == ~split => Reassembled

=============================================================================
