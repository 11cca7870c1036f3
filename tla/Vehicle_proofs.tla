---------------------------- MODULE Vehicle_proofs ----------------------------
(***************************************************************************)
(* Safety of the car's side of the vehicle monitor, for all constants:     *)
(* rounds of idle queries, data frames with changes, bits of frames, the   *)
(* supervisor of the CAN logger, and preconditioning.                      *)
(***************************************************************************)
EXTENDS VehiclePower, IdleQuery, CarDataLink, FrameReader, TLAPS

-----------------------------------------------------------------------------
(* Idle queries *)

Answers == (0 .. Queries - 1) \X Nat \X Nat

IdleTypes ==
  /\ iq_index \in -1 .. Queries - 1
  /\ iq_data_new \in Seq(Answers) /\ iq_data \in Seq(Answers)
  /\ asked \subseteq (0 .. Queries - 1) \X Nat
  /\ round \in Nat

\* Nothing was asked in a round to come.
AskedBefore == \A a \in asked : a[2] <= round

\* The answers taken so far: one to each query before this one, all of this
\* round.
RoundSoFar ==
  iq_index # Idle =>
    /\ Len(iq_data_new) = iq_index
    /\ \A i \in 1 .. Len(iq_data_new) : /\ iq_data_new[i][1] = i - 1
                                        /\ iq_data_new[i][3] = round
                                        /\ iq_data_new[i][2] <= round

RoundInv == IdleTypes /\ AskedBefore /\ RoundSoFar /\ ReportWhole

LEMMA InitRound == IdleInit => RoundInv
BY IdleAssumption DEF IdleInit, RoundInv, IdleTypes, AskedBefore, RoundSoFar, ReportWhole, Idle

\* What is asked is asked in the round that runs then.
LEMMA AskLemma ==
  ASSUME RoundInv, NEW i \in 0 .. Queries - 1, round' \in Nat, round' >= round, Ask(i)
  PROVE  asked' \subseteq (0 .. Queries - 1) \X Nat /\ AskedBefore'
<1>1. asked' \subseteq asked \cup {<<i, round'>>} BY DEF Ask
<1>2. \A a \in asked : a[2] \in Nat /\ a[2] <= round
  BY DEF RoundInv, IdleTypes, AskedBefore
<1>3. round \in Nat BY DEF RoundInv, IdleTypes
<1> QED BY <1>1, <1>2, <1>3 DEF RoundInv, IdleTypes, AskedBefore

\* An answer is added to those of the round.
LEMMA AnsweredLemma ==
  ASSUME RoundInv, Answered
  PROVE  /\ iq_data_new' \in Seq(Answers) /\ Len(iq_data_new') = iq_index + 1
         /\ \A i \in 1 .. Len(iq_data_new') : /\ iq_data_new'[i][1] = i - 1
                                              /\ iq_data_new'[i][3] = round
                                              /\ iq_data_new'[i][2] <= round
<1>1. PICK a \in asked : a[1] = iq_index
                         /\ iq_data_new' = Append(iq_data_new, <<a[1], a[2], round>>)
  BY DEF Answered
<1>2. a \in (0 .. Queries - 1) \X Nat /\ a[2] <= round /\ round \in Nat
  BY DEF RoundInv, IdleTypes, AskedBefore
<1>3. iq_data_new \in Seq(Answers) /\ Len(iq_data_new) = iq_index /\ iq_index \in Int
  BY DEF RoundInv, IdleTypes, RoundSoFar, Answered
<1>4. <<a[1], a[2], round>> \in Answers BY <1>2 DEF Answers
<1>5. iq_data_new' \in Seq(Answers) /\ Len(iq_data_new') = iq_index + 1
  BY <1>1, <1>3, <1>4
<1>6. ASSUME NEW i \in 1 .. Len(iq_data_new')
      PROVE  iq_data_new'[i][1] = i - 1 /\ iq_data_new'[i][3] = round /\ iq_data_new'[i][2] <= round
  <2>1. CASE i = Len(iq_data_new) + 1
    <3>1. iq_data_new'[i] = <<a[1], a[2], round>> BY <1>1, <1>3, <1>4, <2>1
    <3> QED BY <1>1, <1>2, <1>3, <2>1, <3>1
  <2>2. CASE i # Len(iq_data_new) + 1
    <3>1. i \in 1 .. Len(iq_data_new) BY <1>3, <1>5, <2>2
    <3>2. iq_data_new'[i] = iq_data_new[i] BY <1>1, <1>3, <1>4, <3>1
    <3> QED BY <3>1, <3>2 DEF RoundInv, RoundSoFar, Answered
  <2> QED BY <2>1, <2>2
<1> QED BY <1>5, <1>6

LEMMA NextRound == RoundInv /\ [IdleNext]_idleVars => RoundInv'
<1> SUFFICES ASSUME RoundInv, [IdleNext]_idleVars PROVE RoundInv' OBVIOUS
<1> USE IdleAssumption DEF Idle
<1>0. IdleTypes /\ AskedBefore /\ RoundSoFar /\ ReportWhole BY DEF RoundInv
<1>1. CASE StartRound
  <2>1. /\ iq_index' = 0 /\ iq_data_new' = <<>> /\ round' = round + 1 /\ Ask(0)
        /\ iq_data' = iq_data
    BY <1>1 DEF StartRound, Fresh
  <2>2. asked' \subseteq (0 .. Queries - 1) \X Nat /\ AskedBefore'
    BY <2>1, AskLemma DEF RoundInv, IdleTypes
  <2> QED BY <1>0, <2>1, <2>2 DEF RoundInv, IdleTypes, RoundSoFar, ReportWhole
<1>2. CASE AskAgain
  <2>1. /\ round' = round /\ Ask(iq_index) /\ iq_index \in 0 .. Queries - 1
        /\ UNCHANGED <<iq_index, iq_data_new, iq_data>>
    BY <1>0, <1>2 DEF AskAgain, IdleTypes
  <2>2. asked' \subseteq (0 .. Queries - 1) \X Nat /\ AskedBefore'
    BY <1>0, <2>1, AskLemma DEF IdleTypes
  <2> QED BY <1>0, <2>1, <2>2 DEF RoundInv, IdleTypes, RoundSoFar, ReportWhole
<1>3. CASE TimeOut
  BY <1>0, <1>3 DEF TimeOut, RoundInv, IdleTypes, AskedBefore, RoundSoFar, ReportWhole
<1>4. CASE NextQuery
  <2>1. /\ iq_index \in 0 .. Queries - 2 /\ Answered /\ UNCHANGED <<round, iq_data>>
        /\ iq_index' \in {Idle, iq_index + 1}
    BY <1>0, <1>4 DEF NextQuery, Answered, IdleTypes
  <2>2. asked' \subseteq (0 .. Queries - 1) \X Nat /\ AskedBefore'
    <3>1. CASE UNCHANGED asked BY <1>0, <2>1, <3>1 DEF IdleTypes, AskedBefore
    <3>2. CASE Ask(iq_index + 1)
      <4>1. iq_index + 1 \in 0 .. Queries - 1 BY <2>1
      <4> QED BY <1>0, <2>1, <3>2, <4>1, AskLemma DEF IdleTypes
    <3> QED BY <1>4, <3>1, <3>2 DEF NextQuery
  <2>3. IdleTypes' /\ RoundSoFar' 
    BY <1>0, <2>1, <2>2, AnsweredLemma DEF IdleTypes, RoundSoFar
  <2> QED BY <1>0, <2>1, <2>2, <2>3 DEF RoundInv, ReportWhole
<1>5. CASE LastQuery
  <2>1. /\ iq_index = Queries - 1 /\ Answered /\ UNCHANGED <<asked, round>>
        /\ iq_index' = Idle /\ iq_data' = iq_data_new'
    BY <1>5 DEF LastQuery, Answered
  <2>2. Len(iq_data') = Queries BY <2>1, AnsweredLemma
  <2>3. ReportWhole' BY <2>1, <2>2, AnsweredLemma DEF ReportWhole
  <2> QED BY <1>0, <2>1, <2>3, AnsweredLemma
          DEF RoundInv, IdleTypes, AskedBefore, RoundSoFar
<1>6. CASE Outside
  <2>1. UNCHANGED <<iq_index, iq_data_new, iq_data, round>> BY <1>6 DEF Outside
  <2>2. \A a \in asked' : a \in asked \/ \E i \in 0 .. Queries - 1 : a = <<i, 0>>
    BY <1>6 DEF Outside
  <2> QED BY <1>0, <2>1, <2>2 DEF RoundInv, IdleTypes, AskedBefore, RoundSoFar, ReportWhole
<1>7. CASE IdleReload
  BY <1>0, <1>7 DEF IdleReload, RoundInv, IdleTypes, AskedBefore, RoundSoFar, ReportWhole
<1>8. CASE UNCHANGED idleVars
  BY <1>0, <1>8 DEF idleVars, RoundInv, IdleTypes, AskedBefore, RoundSoFar, ReportWhole
<1> QED BY <1>1, <1>2, <1>3, <1>4, <1>5, <1>6, <1>7, <1>8 DEF IdleNext

\* Every report of the idle queries is of one round and whole, for any number
\* of queries and rounds and however late answers come.
THEOREM ReportsWhole == IdleSpec => []ReportWhole
<1>1. RoundInv => ReportWhole BY DEF RoundInv
<1> QED BY <1>1, InitRound, NextRound, PTL DEF IdleSpec

-----------------------------------------------------------------------------
(* Data frames *)

\* n numbers on from m, for m and n that are no more than Modulus.
Ahead(m, n) == IF m + n < Modulus THEN m + n ELSE m + n - Modulus

CarDataTypes ==
  /\ seq \in 0 .. Modulus - 1 /\ expect_seq \in -1 .. Modulus - 1
  /\ lost \in 0 .. Modulus
  /\ lost_full \in BOOLEAN /\ astray \in BOOLEAN
  /\ sent \in [Fields -> Values] /\ truth \in [Fields -> Values]
  /\ last_cardata \in [Fields -> Values]

\* The numbers tell how many frames were lost, if that is less than Modulus
\* and none of them had all fields; if there was none, what was accepted
\* last is what the car compares with.
Counted ==
  expect_seq # OutOfSequence /\ ~lost_full /\ lost < Modulus =>
    /\ seq = Ahead(expect_seq, lost)
    /\ lost = 0 => sent = truth

DecodedInv == CarDataTypes /\ Counted /\ DecodedTrue

\* The next sequence number, without remainder.
LEMMA NextSeqLemma ==
  ASSUME NEW n \in 0 .. Modulus - 1
  PROVE  (n + 1) % Modulus = Ahead(n, 1) /\ Ahead(n, 1) \in 0 .. Modulus - 1
<1>1. Modulus \in Nat \ {0} BY CarDataAssumption
<1>2. CASE n + 1 < Modulus BY <1>1, <1>2 DEF Ahead
<1>3. CASE n + 1 = Modulus BY <1>1, <1>3 DEF Ahead
<1> QED BY <1>1, <1>2, <1>3

LEMMA InitDecoded == CarDataInit => DecodedInv
<1> SUFFICES ASSUME CarDataInit PROVE DecodedInv OBVIOUS
<1> USE CarDataAssumption DEF CarDataInit, OutOfSequence
<1>1. sent \in [Fields -> Values] OBVIOUS
<1>2. seq \in 0 .. Modulus - 1 /\ expect_seq \in -1 .. Modulus - 1 /\ lost \in 0 .. Modulus
  OBVIOUS
<1>3. lost_full \in BOOLEAN /\ astray \in BOOLEAN OBVIOUS
<1>4. CarDataTypes BY <1>1, <1>2, <1>3 DEF CarDataTypes
<1> QED BY <1>4 DEF DecodedInv, Counted, DecodedTrue

\* One more frame is lost, or not accepted.
LEMMA LostLemma ==
  ASSUME DecodedInv, NEW full \in BOOLEAN, NEW v \in [Fields -> Values], Sends(v, full),
         expect_seq' \in {expect_seq, OutOfSequence},
         lost' = IF lost < Modulus THEN lost + 1 ELSE lost,
         lost_full' = (lost_full \/ full),
         UNCHANGED <<cardata, last_cardata, truth, astray>>
  PROVE  DecodedInv'
<1> USE CarDataAssumption DEF OutOfSequence
<1>1. CarDataTypes /\ Counted /\ DecodedTrue BY DEF DecodedInv
<1>2. seq' = (IF full THEN 0 ELSE Ahead(seq, 1)) /\ sent' = v /\ seq' \in 0 .. Modulus - 1
  BY <1>1, NextSeqLemma DEF Sends, CarDataTypes
<1>3. CarDataTypes' BY <1>1, <1>2 DEF CarDataTypes
<1>4. lost_full' \in BOOLEAN /\ (lost_full' <=> lost_full \/ full) BY <1>3 DEF CarDataTypes
<1>5. Counted'
  <2>1. SUFFICES ASSUME expect_seq' # OutOfSequence, ~lost_full', lost' < Modulus
                 PROVE  seq' = Ahead(expect_seq', lost') /\ lost' # 0
    BY DEF Counted
  <2>2. /\ expect_seq' = expect_seq /\ expect_seq # -1 /\ ~lost_full /\ ~full
        /\ lost' = lost + 1 /\ lost + 1 < Modulus
    BY <1>1, <1>4, <2>1 DEF CarDataTypes
  <2>3. seq = Ahead(expect_seq, lost) /\ seq' = Ahead(seq, 1)
    BY <1>1, <1>2, <2>2 DEF Counted
  <2> QED BY <1>1, <2>2, <2>3 DEF Ahead, CarDataTypes
<1>6. DecodedTrue' BY <1>1 DEF DecodedTrue
<1> QED BY <1>3, <1>5, <1>6 DEF DecodedInv

\* A frame is accepted, parsed to what was sent unless something went wrong.
LEMMA AcceptLemma ==
  ASSUME CarDataTypes, NEW v \in [Fields -> Values], NEW full \in BOOLEAN, Sends(v, full),
         NEW c \in [Fields -> Values], NEW next, NEW stray \in BOOLEAN,
         Accept(v, c, next, stray), next = seq', ~stray => c = v
  PROVE  DecodedInv'
<1> USE CarDataAssumption DEF OutOfSequence
<1>1. seq' \in 0 .. Modulus - 1 /\ sent' = v
  BY NextSeqLemma DEF Sends, CarDataTypes
<1>2. /\ expect_seq' = seq' /\ truth' = v /\ lost' = 0 /\ lost_full' = FALSE
      /\ cardata' = c
  BY Zenon DEF Accept
<1>3. \/ last_cardata' = c /\ astray' = stray
      \/ last_cardata' = last_cardata /\ astray' = TRUE
  BY Zenon DEF Accept
<1>4. CarDataTypes'
  <2>1. lost_full' \in BOOLEAN /\ astray' \in BOOLEAN BY <1>2, <1>3
  <2>2. last_cardata' \in [Fields -> Values] BY <1>3 DEF CarDataTypes
  <2> QED BY <1>1, <1>2, <2>1, <2>2 DEF CarDataTypes
<1>5. Counted'
  <2>1. \A n \in 0 .. Modulus - 1 : n = Ahead(n, 0) BY DEF Ahead
  <2> QED BY <1>1, <1>2, <2>1 DEF Counted
<1>6. DecodedTrue' BY <1>2, <1>3 DEF DecodedTrue
<1> QED BY <1>4, <1>5, <1>6 DEF DecodedInv

\* Changes are applied to the values they were made against.
LEMMA DecodedLemma ==
  ASSUME CarDataTypes, NEW v \in [Fields -> Values]
  PROVE  /\ Decoded(v) \in [Fields -> Values]
         /\ last_cardata = sent => Decoded(v) = v
BY DEF Decoded, CarDataTypes

LEMMA NextDecoded == DecodedInv /\ [CarDataNext]_cardataVars => DecodedInv'
<1> SUFFICES ASSUME DecodedInv, [CarDataNext]_cardataVars PROVE DecodedInv' OBVIOUS
<1> USE CarDataAssumption DEF OutOfSequence
<1>1. CarDataTypes /\ Counted /\ DecodedTrue BY DEF DecodedInv
<1>2. CASE Lost BY <1>2, LostLemma DEF Lost
<1>3. CASE Rejected
  <2>1. PICK v \in [Fields -> Values] : Sends(v, FALSE) BY <1>3 DEF Rejected
  <2>2. lost_full' = (lost_full \/ FALSE) BY <1>1, <1>3 DEF Rejected, CarDataTypes
  <2> QED BY <1>3, <2>1, <2>2, LostLemma DEF Rejected
<1>4. CASE FullFrame
  <2>1. PICK v \in [Fields -> Values] : Sends(v, TRUE) /\ Accept(v, v, 0, FALSE)
    BY <1>4 DEF FullFrame
  <2> QED BY <1>1, <2>1, AcceptLemma DEF Sends
<1>5. CASE DeltaFrame
  <2> DEFINE stray == astray \/ lost = Modulus \/ lost_full
  <2>1. PICK v \in [Fields -> Values] :
           Sends(v, FALSE) /\ seq = expect_seq /\ Accept(v, Decoded(v), (seq + 1) % Modulus, stray)
    BY <1>5 DEF DeltaFrame, InSequence
  <2>2. stray \in BOOLEAN BY <1>1 DEF CarDataTypes
  <2>3. ASSUME ~stray PROVE Decoded(v) = v
    <3>1. ~astray /\ ~lost_full /\ lost < Modulus /\ expect_seq # -1
      BY <1>1, <2>1, <2>3 DEF CarDataTypes
    <3>2. seq = Ahead(expect_seq, lost) BY <1>1, <3>1 DEF Counted
    <3>3. lost = 0 BY <1>1, <2>1, <3>1, <3>2 DEF Ahead, CarDataTypes
    <3>4. sent = truth /\ truth = last_cardata BY <1>1, <3>1, <3>3 DEF Counted, DecodedTrue
    <3> QED BY <1>1, <3>4, DecodedLemma
  <2>4. (seq + 1) % Modulus = seq' BY <2>1 DEF Sends
  <2> HIDE DEF stray
  <2> QED BY <1>1, <2>1, <2>2, <2>3, <2>4, AcceptLemma, DecodedLemma
<1>6. CASE CarDataReload
  <2>1. \E v \in Values : last_cardata' = [f \in Fields |-> v] BY <1>6 DEF CarDataReload
  <2> QED BY <1>1, <1>6, <2>1
          DEF CarDataReload, DecodedInv, CarDataTypes, Counted, DecodedTrue
<1>7. CASE UNCHANGED cardataVars
  BY <1>1, <1>7 DEF cardataVars, DecodedInv, CarDataTypes, Counted, DecodedTrue, Ahead
<1> QED BY <1>2, <1>3, <1>4, <1>5, <1>6, <1>7 DEF CarDataNext

\* What is decoded is what the car sent, for any fields, values and numbers
\* of lost frames below a full turn of sequence numbers.
THEOREM DecodingRight == CarDataSpec => []DecodedTrue
<1>1. DecodedInv => DecodedTrue BY DEF DecodedInv
<1> QED BY <1>1, InitDecoded, NextDecoded, PTL DEF CarDataSpec

-----------------------------------------------------------------------------
(* Bits of frames *)

\* A frame that was received whole has its bytes in the buffer.
BufferInv ==
  /\ frame \in Lengths /\ place \in 0 .. frame + 1 /\ buffer_len \in Nat
  /\ in_frame \in BOOLEAN /\ intact \in BOOLEAN
  /\ in_frame /\ intact => place >= 1 /\ buffer_len = place - 1

\* The reader is at a bit of word w, of as many as fit in the buffer, after
\* all bits that were taken.
AtBit(words, w) ==
  /\ words \in Nat /\ w \in Nat
  /\ buffer_len = 2 * words /\ word_pos = 2 * w
  /\ bit_pos \in 0 .. WordBits - 1
  /\ taken = WordBits * w + bit_pos

PositionInv == stage \in {"fits", "parse"} => \E words, w \in Nat : AtBit(words, w)

BitsInv == BufferInv /\ PositionInv /\ BitsInOrder

LEMMA ProductLemma ==
  ASSUME NEW a \in Int, NEW b \in Int, a < b
  PROVE  WordBits * a \in Int /\ WordBits * b \in Int /\ WordBits * a + WordBits <= WordBits * b
<1>1. WordBits \in Nat BY ReaderAssumption
<1>2. PICK d \in Nat : b = a + 1 + d BY b - a - 1 \in Nat
<1>3. WordBits * b = WordBits * a + WordBits + WordBits * d BY <1>1, <1>2
<1>4. WordBits * d >= 0 /\ WordBits * d \in Int BY <1>1
<1> QED BY <1>1, <1>3, <1>4

LEMMA QuotientLemma ==
  ASSUME NEW x \in Nat
  PROVE  /\ x \div WordBits \in Nat
         /\ WordBits * (x \div WordBits) <= x
         /\ x < WordBits * (x \div WordBits) + WordBits
BY ReaderAssumption

\* The bits of a word that are put at places from s on.
LEMMA ShiftLemma ==
  ASSUME NEW words \in Nat, buffer_len = 2 * words, NEW m \in Nat, NEW s \in Int, NEW b
  PROVE  b \in Shift(Word(2 * m), s) <=>
           /\ m < words
           /\ \E i \in 0 .. WordBits - 1 : i + s >= 0 /\ b = <<i + s, WordBits * m + i>>
<1>1. (2 * m) \div 2 = m /\ (2 * m >= buffer_len <=> ~(m < words)) OBVIOUS
<1>2. Word(2 * m) = IF m < words THEN {<<i, WordBits * m + i>> : i \in 0 .. WordBits - 1} ELSE {}
  BY <1>1 DEF Word
<1>3. WordBits \in Nat BY ReaderAssumption
<1>4. b \in Shift(Word(2 * m), s) <=>
        \E c \in Word(2 * m) : c[1] + s >= 0 /\ b = <<c[1] + s, c[2]>>
  BY DEF Shift
<1>5. \A c : c \in Word(2 * m) <=>
        m < words /\ \E i \in 0 .. WordBits - 1 : c = <<i, WordBits * m + i>>
  BY <1>2
<1>6. \A i \in 0 .. WordBits - 1 : <<i, WordBits * m + i>>[1] = i
                                   /\ <<i, WordBits * m + i>>[2] = WordBits * m + i
  OBVIOUS
<1> HIDE DEF Word
<1>7. ASSUME NEW c \in Word(2 * m), c[1] + s >= 0, b = <<c[1] + s, c[2]>>
      PROVE  m < words /\ \E i \in 0 .. WordBits - 1 : i + s >= 0 /\ b = <<i + s, WordBits * m + i>>
  <2>1. PICK i \in 0 .. WordBits - 1 : c = <<i, WordBits * m + i>> BY <1>5, <1>7
  <2>2. c[1] = i /\ c[2] = WordBits * m + i BY <2>1
  <2> QED BY <1>5, <1>7, <2>2
<1>8. ASSUME m < words, NEW i \in 0 .. WordBits - 1, i + s >= 0, b = <<i + s, WordBits * m + i>>
      PROVE  \E c \in Word(2 * m) : c[1] + s >= 0 /\ b = <<c[1] + s, c[2]>>
  <2>1. <<i, WordBits * m + i>> \in Word(2 * m) BY <1>5, <1>8
  <2> QED BY <1>6, <1>8, <2>1
<1> QED BY <1>4, <1>7, <1>8

\* A bit of a word that is there is put at its place.
LEMMA PlacedLemma ==
  ASSUME NEW words \in Nat, buffer_len = 2 * words, NEW m \in Nat, m < words,
         NEW s \in Int, NEW i \in 0 .. WordBits - 1, i + s >= 0
  PROVE  <<i + s, WordBits * m + i>> \in Shift(Word(2 * m), s)
BY ShiftLemma

\* What n bits are read from: the rest of this word, and `rounds` more.
Copied    == WordBits - bit_pos
Within(n) == bit_pos + n < WordBits
Rounds(n) == IF Within(n) THEN 0 ELSE ((n - Copied) + WordBits - 1) \div WordBits
Read(n)   == Shift(Word(word_pos), -bit_pos)
             \cup UNION {Shift(Word(word_pos + 2 * k), Copied + WordBits * (k - 1)) :
                           k \in 1 .. Rounds(n)}

LEMMA RoundsLemma ==
  ASSUME NEW words, NEW w, AtBit(words, w), NEW n \in Nat \ {0}
  PROVE  /\ Copied \in 1 .. WordBits /\ Rounds(n) \in Nat /\ WordBits * Rounds(n) \in Nat
         /\ Within(n) => Rounds(n) = 0 /\ n < Copied
         /\ ~Within(n) => /\ n - Copied <= WordBits * Rounds(n)
                          /\ WordBits * Rounds(n) < n - Copied + WordBits
<1> USE ReaderAssumption
<1>1. Copied \in 1 .. WordBits BY DEF AtBit, Copied
<1>2. CASE Within(n)
  <2>1. Rounds(n) = 0 /\ n < Copied BY <1>2 DEF Rounds, Within, Copied, AtBit
  <2>2. WordBits * 0 = 0 OBVIOUS
  <2> QED BY <1>1, <1>2, <2>1, <2>2
<1>3. CASE ~Within(n)
  <2> DEFINE x == (n - Copied) + WordBits - 1
  <2>1. x \in Nat /\ Rounds(n) = x \div WordBits
    BY <1>1, <1>3 DEF Rounds, Within, Copied, AtBit
  <2> HIDE DEF x
  <2>2. Rounds(n) \in Nat /\ WordBits * Rounds(n) <= x /\ x < WordBits * Rounds(n) + WordBits
    BY <2>1, QuotientLemma
  <2>3. WordBits * Rounds(n) \in Nat BY <2>2
  <2> QED BY <1>1, <1>3, <2>2, <2>3 DEF x
<1> QED BY <1>2, <1>3

\* What is read is bits that follow, ...
LEMMA ReadFollows ==
  ASSUME NEW words, NEW w, AtBit(words, w), NEW n \in Nat \ {0}, NEW b \in Read(n)
  PROVE  \E j \in Nat : b = <<j, taken + j>> /\ taken + j < WordBits * words
<1> USE ReaderAssumption
<1>1. WordBits * w \in Int /\ taken \in Int /\ bit_pos \in 0 .. WordBits - 1
      /\ words \in Nat /\ w \in Nat /\ Copied = WordBits - bit_pos
  BY DEF AtBit, Copied
<1>2. Rounds(n) \in Nat BY RoundsLemma
\* a bit of word m, put at place s
<1>3. ASSUME NEW m \in Nat, NEW s \in Int, s = WordBits * m - taken, b \in Shift(Word(2 * m), s)
      PROVE  \E j \in Nat : b = <<j, taken + j>> /\ taken + j < WordBits * words
  <2>1. PICK i \in 0 .. WordBits - 1 : i + s >= 0 /\ b = <<i + s, WordBits * m + i>> /\ m < words
    BY <1>1, <1>3, ShiftLemma DEF AtBit
  <2>2. WordBits * m \in Int /\ WordBits * words \in Int
        /\ WordBits * m + WordBits <= WordBits * words
    BY <1>1, <2>1, ProductLemma
  <2>3. i + s \in Nat /\ WordBits * m + i = taken + (i + s) BY <1>1, <1>3, <2>1, <2>2
  <2> QED BY <1>1, <2>1, <2>2, <2>3
<1>4. CASE b \in Shift(Word(word_pos), -bit_pos)
  <2>1. word_pos = 2 * w /\ -bit_pos = WordBits * w - taken BY <1>1 DEF AtBit
  <2> QED BY <1>1, <1>3, <1>4, <2>1
<1>5. ASSUME NEW k \in 1 .. Rounds(n),
             b \in Shift(Word(word_pos + 2 * k), Copied + WordBits * (k - 1))
      PROVE  \E j \in Nat : b = <<j, taken + j>> /\ taken + j < WordBits * words
  <2>1. k \in Nat /\ w + k \in Nat BY <1>1, <1>2
  <2>2. word_pos + 2 * k = 2 * (w + k) BY <1>1, <2>1 DEF AtBit
  <2>3. WordBits * (k - 1) = WordBits * k - WordBits /\ WordBits * k \in Int
        /\ WordBits * (w + k) = WordBits * w + WordBits * k
    BY <1>1, <2>1
  <2>4. Copied + WordBits * (k - 1) = WordBits * (w + k) - taken
        /\ Copied + WordBits * (k - 1) \in Int
    BY <1>1, <2>3 DEF AtBit
  <2> QED BY <1>3, <1>5, <2>1, <2>2, <2>4
<1> QED BY <1>4, <1>5 DEF Read

\* ... and all of them.
LEMMA ReadAll ==
  ASSUME NEW words, NEW w, AtBit(words, w), NEW n \in Nat \ {0},
         NEW j \in 0 .. n - 1, taken + j < WordBits * words
  PROVE  <<j, taken + j>> \in Read(n)
<1> USE ReaderAssumption
<1>1. WordBits * w \in Int /\ taken \in Int /\ bit_pos \in 0 .. WordBits - 1
      /\ words \in Nat /\ w \in Nat /\ Copied = WordBits - bit_pos /\ WordBits * words \in Int
  BY DEF AtBit, Copied
<1>2. ASSUME NEW m \in Nat, NEW i \in 0 .. WordBits - 1, WordBits * m + i = taken + j
      PROVE  <<j, taken + j>> \in Shift(Word(2 * m), WordBits * m - taken)
  <2>1. WordBits * m \in Int BY <1>2
  <2>2. m < words
    <3>1. SUFFICES ASSUME m >= words PROVE FALSE BY <1>1, <1>2
    <3>2. WordBits * m >= WordBits * words
      <4>1. CASE m = words BY <2>1, <4>1
      <4>2. CASE words < m BY <1>1, <4>2, ProductLemma
      <4> QED BY <1>1, <3>1, <4>1, <4>2
    <3> QED BY <1>1, <1>2, <2>1, <3>2
  <2>3. PICK s \in Int : s = WordBits * m - taken BY <1>1, <2>1
  <2>4. i + s = j /\ i + s >= 0 BY <1>1, <1>2, <2>1, <2>3
  <2>5. words \in Nat /\ buffer_len = 2 * words BY <1>1 DEF AtBit
  <2>6. <<i + s, WordBits * m + i>> \in Shift(Word(2 * m), s)
    BY <2>2, <2>4, <2>5, PlacedLemma
  <2> QED BY <1>2, <2>3, <2>4, <2>6
<1>3. CASE j < Copied
  <2>1. bit_pos + j \in 0 .. WordBits - 1 /\ WordBits * w + (bit_pos + j) = taken + j
        /\ WordBits * w - taken = -bit_pos /\ word_pos = 2 * w
    BY <1>1, <1>3 DEF AtBit
  <2> QED BY <1>1, <1>2, <2>1 DEF Read
<1>4. CASE j >= Copied
  <2> DEFINE x == j - Copied
             k == x \div WordBits + 1
  <2>1. x \in Nat BY <1>1, <1>4
  <2>2. k \in Nat /\ k - 1 \in Nat /\ WordBits * (k - 1) <= x /\ x < WordBits * (k - 1) + WordBits
    <3> HIDE DEF x
    <3> QED BY <2>1, QuotientLemma
  <2> HIDE DEF k
  <2>3. k \in Nat /\ w + k \in Nat /\ word_pos + 2 * k = 2 * (w + k)
    BY <1>1, <2>2 DEF AtBit
  <2>4. WordBits * (k - 1) = WordBits * k - WordBits /\ WordBits * k \in Int
        /\ WordBits * (w + k) = WordBits * w + WordBits * k
    BY <1>1, <2>3
  <2>5. k <= Rounds(n)
    <3>1. Rounds(n) \in Nat /\ ~Within(n) /\ x < WordBits * Rounds(n) /\ WordBits * Rounds(n) \in Nat
      BY <1>1, <1>4, RoundsLemma
    <3>2. SUFFICES ASSUME Rounds(n) <= k - 1 PROVE FALSE BY <2>3, <3>1
    <3>3. WordBits * Rounds(n) <= WordBits * (k - 1)
      <4>1. CASE Rounds(n) = k - 1 BY <3>1, <4>1
      <4>2. CASE Rounds(n) < k - 1
        <5>1. WordBits * Rounds(n) + WordBits <= WordBits * (k - 1)
          BY <2>3, <3>1, <4>2, ProductLemma
        <5> QED BY <2>3, <2>4, <3>1, <5>1
      <4> QED BY <2>3, <3>1, <3>2, <4>1, <4>2
    <3> QED BY <2>1, <2>2, <2>4, <3>1, <3>3
  <2>6. <<j, taken + j>> \in Shift(Word(2 * (w + k)), WordBits * (w + k) - taken)
    <3>1. x - WordBits * (k - 1) \in 0 .. WordBits - 1 BY <2>1, <2>2, <2>4
    <3>2. WordBits * (w + k) + (x - WordBits * (k - 1)) = taken + j
      BY <1>1, <2>1, <2>4 DEF AtBit
    <3> HIDE DEF x
    <3> QED BY <1>2, <2>3, <3>1, <3>2
  <2>7. WordBits * (w + k) - taken = Copied + WordBits * (k - 1)
    BY <1>1, <2>4 DEF AtBit
  <2>8. k \in 1 .. Rounds(n) BY <2>2, <2>3, <2>5, RoundsLemma
  <2> QED BY <2>3, <2>6, <2>7, <2>8 DEF Read
<1> QED BY <1>1, <1>3, <1>4

\* A read takes the bits it should and leaves the position after them.
LEMMA ReadBitsLemma ==
  ASSUME NEW words, NEW w, AtBit(words, w), NEW n \in Nat \ {0}, ReadBits(n)
  PROVE  gave' = meant' /\ \E v \in Nat : /\ word_pos' = 2 * v
                                          /\ bit_pos' \in 0 .. WordBits - 1
                                          /\ taken' = WordBits * v + bit_pos'
<1> USE ReaderAssumption
<1>1. /\ gave' = {b \in Read(n) : b[1] < n}
      /\ meant' = {<<i, taken + i>> :
                     i \in {j \in 0 .. n - 1 : taken + j < WordBits * (buffer_len \div 2)}}
  BY DEF ReadBits, Read, Rounds, Within, Copied
<1>2. LET left == (n - Copied) - WordBits * Rounds(n)
      IN /\ word_pos' = word_pos + 2 * Rounds(n) + (IF left = 0 THEN 2 ELSE 0)
         /\ bit_pos' = IF Within(n) THEN bit_pos + n
                       ELSE IF left = 0 THEN 0 ELSE left + WordBits
         /\ taken' = taken + n
  BY DEF ReadBits, NextWord, Rounds, Within, Copied
<1>3. words \in Nat /\ w \in Nat /\ buffer_len \div 2 = words /\ taken \in Nat
  <2>1. WordBits * w \in Nat BY DEF AtBit
  <2> QED BY <2>1 DEF AtBit
<1>4. gave' \subseteq meant'
  <2>1. SUFFICES ASSUME NEW b \in Read(n), b[1] < n PROVE b \in meant' BY <1>1
  <2>2. PICK j \in Nat : b = <<j, taken + j>> /\ taken + j < WordBits * words
    BY <2>1, ReadFollows
  <2>3. j \in 0 .. n - 1 BY <2>1, <2>2
  <2> QED BY <1>1, <1>3, <2>2, <2>3
<1>5. meant' \subseteq gave'
  <2>1. SUFFICES ASSUME NEW j \in 0 .. n - 1, taken + j < WordBits * words
                 PROVE  <<j, taken + j>> \in gave'
    BY <1>1, <1>3
  <2>2. <<j, taken + j>> \in Read(n) BY <2>1, ReadAll
  <2> QED BY <1>1, <2>1, <2>2
<1>6. \E v \in Nat : /\ word_pos' = 2 * v /\ bit_pos' \in 0 .. WordBits - 1
                     /\ taken' = WordBits * v + bit_pos'
  <2> DEFINE r == Rounds(n)
             left == (n - Copied) - WordBits * r
  <2>0. r \in Nat /\ WordBits * r \in Nat BY RoundsLemma
  <2> HIDE DEF r
  <2>1. /\ r \in Nat /\ WordBits * r \in Nat /\ Copied = WordBits - bit_pos
        /\ bit_pos \in 0 .. WordBits - 1 /\ WordBits * w \in Int
        /\ taken = WordBits * w + bit_pos /\ word_pos = 2 * w
    BY <1>3, <2>0 DEF AtBit, Copied
  <2>2. left \in Int BY <2>1
  <2>3. CASE Within(n)
    <3>1. r = 0 /\ n < Copied /\ left # 0 BY <2>1, <2>3, RoundsLemma DEF r
    <3>2. word_pos' = 2 * w /\ bit_pos' = bit_pos + n /\ taken' = taken + n
      BY <1>2, <2>1, <2>3, <3>1 DEF r
    <3> QED BY <1>3, <2>1, <3>1, <3>2
  <2>4. CASE ~Within(n) /\ left = 0
    <3>1. word_pos' = 2 * (w + r + 1) /\ bit_pos' = 0 /\ taken' = taken + n
      BY <1>2, <1>3, <2>1, <2>4 DEF r
    <3>2. WordBits * (w + r + 1) = WordBits * w + WordBits * r + WordBits BY <1>3, <2>1
    <3>3. n = Copied + WordBits * r BY <2>1, <2>4
    <3>4. taken' = WordBits * (w + r + 1) + bit_pos' BY <1>3, <2>1, <3>1, <3>2, <3>3
    <3>5. w + r + 1 \in Nat /\ bit_pos' \in 0 .. WordBits - 1 BY <1>3, <2>1, <3>1
    <3> QED BY <3>1, <3>4, <3>5
  <2>5. CASE ~Within(n) /\ left # 0
    <3>1. word_pos' = 2 * (w + r) /\ bit_pos' = left + WordBits /\ taken' = taken + n
      BY <1>2, <1>3, <2>1, <2>5 DEF r
    <3>2. left < 0 /\ left + WordBits > 0 BY <2>1, <2>2, <2>5, RoundsLemma DEF r
    <3>3. WordBits * (w + r) = WordBits * w + WordBits * r BY <1>3, <2>1
    <3>4. taken' = WordBits * (w + r) + bit_pos' BY <1>3, <2>1, <3>1, <3>3
    <3>5. bit_pos' \in 0 .. WordBits - 1 BY <2>2, <3>1, <3>2
    <3>6. w + r \in Nat BY <1>3, <2>1
    <3> QED BY <3>1, <3>4, <3>5, <3>6
  <2> QED BY <2>3, <2>4, <2>5
<1> QED BY <1>4, <1>5, <1>6

LEMMA InitBits == ReaderInit => BitsInv
<1> SUFFICES ASSUME ReaderInit PROVE BitsInv OBVIOUS
<1>1. frame \in Lengths /\ frame \in Nat /\ place = 0 /\ buffer_len = 0 /\ stage = "receive"
  BY ReaderAssumption DEF ReaderInit
<1>2. in_frame \in BOOLEAN /\ intact \in BOOLEAN /\ ~in_frame BY DEF ReaderInit
<1> QED BY <1>1, <1>2 DEF BitsInv, BufferInv, PositionInv, BitsInOrder

\* What the line delivers.
LEMMA LineLemma ==
  ASSUME BitsInv, stage = "receive", Proceed, place \in 0 .. frame + 1
  PROVE  /\ frame' \in Lengths /\ place' \in 0 .. frame' + 1
         /\ place <= frame => place' = place + 1 /\ frame' = frame
         /\ place > frame => place' = 0
<1>1. frame \in Nat /\ Lengths \subseteq Nat BY ReaderAssumption DEF BitsInv, BufferInv
<1>2. CASE place <= frame
  <2>1. place' = place + 1 /\ frame' = frame BY <1>2 DEF Proceed
  <2> QED BY <1>1, <1>2, <2>1 DEF BitsInv, BufferInv
<1>3. CASE ~(place <= frame)
  <2>1. place' = 0 /\ frame' \in Lengths BY <1>3 DEF Proceed
  <2>2. frame' \in Nat BY <1>1, <2>1
  <2>3. \A n \in Nat : 0 \in 0 .. n + 1 OBVIOUS
  <2>4. place' \in 0 .. frame' + 1 BY <2>1, <2>2, <2>3
  <2> QED BY <1>3, <2>1, <2>4
<1> QED BY <1>2, <1>3

LEMMA ReceiveBits == BitsInv /\ (StartByte \/ DataByte \/ ByteLost) => BitsInv'
<1> SUFFICES ASSUME BitsInv, StartByte \/ DataByte \/ ByteLost PROVE BitsInv' OBVIOUS
<1>1. /\ stage = "receive" /\ stage' = stage /\ Proceed
  BY DEF StartByte, DataByte, ByteLost, position
<1>2. PositionInv' /\ BitsInOrder' BY <1>1 DEF PositionInv, BitsInOrder
<1>3. /\ frame \in Lengths /\ frame \in Nat /\ place \in 0 .. frame + 1 /\ buffer_len \in Nat
      /\ in_frame \in BOOLEAN /\ intact \in BOOLEAN
      /\ in_frame /\ intact => place >= 1 /\ buffer_len = place - 1
  BY ReaderAssumption DEF BitsInv, BufferInv
<1>4. /\ frame' \in Lengths /\ place' \in 0 .. frame' + 1
      /\ place <= frame => place' = place + 1 /\ frame' = frame
      /\ place > frame => place' = 0
  BY <1>1, <1>3, LineLemma
<1>5. CASE StartByte
  <2>1. place' = 1 /\ buffer_len' = 0 /\ in_frame' = TRUE /\ intact' = TRUE
    BY <1>3, <1>4, <1>5 DEF StartByte
  <2> QED BY <1>2, <1>4, <2>1 DEF BitsInv, BufferInv
<1>6. CASE DataByte
  <2>1. place \in 1 .. frame /\ place' = place + 1 BY <1>3, <1>4, <1>6 DEF DataByte
  <2>2. /\ in_frame' = in_frame
        /\ buffer_len' = IF in_frame /\ buffer_len < MaxBuffer THEN buffer_len + 1 ELSE buffer_len
        /\ intact' = (intact /\ in_frame /\ buffer_len < MaxBuffer)
    BY <1>6 DEF DataByte
  <2>3. intact' \in BOOLEAN /\ (intact' => intact /\ in_frame /\ buffer_len < MaxBuffer)
    BY <1>3, <2>2
  <2>4. buffer_len' \in Nat BY <1>3, <2>2
  <2>5. in_frame' /\ intact' => place' >= 1 /\ buffer_len' = place' - 1
    BY <1>3, <2>1, <2>2, <2>3
  <2> QED BY <1>2, <1>3, <1>4, <2>2, <2>3, <2>4, <2>5 DEF BitsInv, BufferInv
<1>7. CASE ByteLost
  <2>1. in_frame' = in_frame /\ buffer_len' = buffer_len
        /\ intact' = (place = 0 /\ in_frame /\ buffer_len = 0)
    BY <1>7 DEF ByteLost
  <2>2. intact' \in BOOLEAN /\ (intact' => place = 0 /\ buffer_len = 0) BY <1>3, <2>1
  <2>3. ASSUME intact' PROVE place' = 1 /\ buffer_len' = 0
    <3>1. place = 0 /\ buffer_len = 0 BY <2>2, <2>3
    <3> QED BY <1>3, <1>4, <2>1, <3>1
  <2>4. in_frame' \in BOOLEAN /\ buffer_len' \in Nat BY <1>3, <2>1
  <2>5. intact' => place' >= 1 /\ buffer_len' = place' - 1 BY <2>3
  <2> QED BY <1>2, <1>4, <2>2, <2>4, <2>5 DEF BitsInv, BufferInv
<1> QED BY <1>5, <1>6, <1>7

LEMMA EndBits == BitsInv /\ EndByte => BitsInv'
<1> SUFFICES ASSUME BitsInv, EndByte PROVE BitsInv' OBVIOUS
<1>1. stage = "receive" /\ Proceed /\ place > frame /\ in_frame' = FALSE
      /\ UNCHANGED <<buffer_len, intact>>
  BY DEF EndByte
<1>2. /\ frame \in Lengths /\ frame \in Nat /\ frame % 2 = 0 /\ place \in 0 .. frame + 1
      /\ in_frame /\ intact => buffer_len = place - 1
      /\ buffer_len \in Nat /\ intact \in BOOLEAN /\ in_frame \in BOOLEAN
  BY ReaderAssumption DEF BitsInv, BufferInv
<1>3. BufferInv' BY <1>1, <1>2, LineLemma DEF BufferInv
<1>4. CASE ~in_frame
  <2>1. stage' = "receive" BY <1>1, <1>4 DEF EndByte, position
  <2> QED BY <1>3, <2>1 DEF BitsInv, PositionInv, BitsInOrder
<1>5. CASE in_frame /\ stage' # "fits"
  <2>1. stage' \in {"receive", "differs"} BY <1>5 DEF EndByte
  <2> QED BY <1>3, <2>1 DEF BitsInv, PositionInv, BitsInOrder
<1>6. CASE in_frame /\ stage' = "fits"
  <2>1. intact /\ word_pos' = 0 /\ bit_pos' = 0 /\ taken' = 0 BY <1>6 DEF EndByte
  <2>2. PICK words \in Nat : buffer_len' = 2 * words
    <3>1. buffer_len' = frame BY <1>1, <1>2, <1>6, <2>1
    <3>2. frame = 2 * (frame \div 2) /\ frame \div 2 \in Nat BY <1>2
    <3> QED BY <3>1, <3>2
  <2>3. AtBit(words, 0)'
    BY <2>1, <2>2, ReaderAssumption DEF AtBit
  <2> QED BY <1>3, <1>6, <2>3 DEF BitsInv, PositionInv, BitsInOrder
<1> QED BY <1>4, <1>5, <1>6

\* Reading changes nothing of the buffer.
LEMMA ParseBitsLemma == BitsInv /\ (CheckCrc \/ ParseBits \/ Parsed) => BitsInv'
<1> SUFFICES ASSUME BitsInv, CheckCrc \/ ParseBits \/ Parsed PROVE BitsInv' OBVIOUS
<1>1. UNCHANGED <<line, received>> BY DEF CheckCrc, ParseBits, Parsed
<1>2. BufferInv' BY <1>1 DEF line, received, BitsInv, BufferInv
<1>3. CASE stage' = "receive"
  BY <1>2, <1>3 DEF BitsInv, PositionInv, BitsInOrder
<1>4. CASE stage' # "receive"
  <2>1. PICK n \in Nat \ {0} : ReadBits(n) /\ stage \in {"fits", "parse"} /\ stage' = "parse"
    BY <1>4, ReaderAssumption DEF CheckCrc, ParseBits, Parsed
  <2>2. PICK words \in Nat, w \in Nat : AtBit(words, w) BY <2>1 DEF BitsInv, PositionInv
  <2>3. PICK v \in Nat : /\ word_pos' = 2 * v /\ bit_pos' \in 0 .. WordBits - 1
                         /\ taken' = WordBits * v + bit_pos'
    BY <2>1, <2>2, ReadBitsLemma
  <2>4. AtBit(words, v)' BY <1>1, <2>2, <2>3 DEF AtBit, received
  <2>5. gave' = meant' BY <2>1, <2>2, ReadBitsLemma
  <2> QED BY <1>2, <2>1, <2>4, <2>5 DEF BitsInv, PositionInv, BitsInOrder
<1> QED BY <1>3, <1>4

LEMMA NextBits == BitsInv /\ [ReaderNext]_readerVars => BitsInv'
<1>1. BitsInv /\ UNCHANGED readerVars => BitsInv'
  BY DEF readerVars, line, received, position, BitsInv, BufferInv, PositionInv, BitsInOrder, AtBit
<1> QED BY <1>1, ReceiveBits, EndBits, ParseBitsLemma DEF ReaderNext

\* Bits are read in order, for words, frames and reads of every size.
THEOREM BitsRight == ReaderSpec => []BitsInOrder
<1>1. BitsInv => BitsInOrder BY DEF BitsInv
<1> QED BY <1>1, InitBits, NextBits, PTL DEF ReaderSpec

-----------------------------------------------------------------------------
(* The CAN logger *)

\* A source is never terminated without the sink that runs for it.
ToldTogether == sink = "run" /\ "source" \in told => "sink" \in told

\* A sink without a running source.
Survivor == sink = "run" /\ source # "run" => "sink" \in told \/ unbidden

\* A sink that may be forgotten is one that nothing was heard of: one that
\* outlives its source was terminated with it, or the source went by itself.
SupervisorInv == SinksKnown /\ ToldTogether /\ Survivor

LEMMA InitSupervisor == PowerInit => SupervisorInv
BY DEF PowerInit, SupervisorInv, SinksKnown, ToldTogether, Survivor

\* Only what is none or dead is dropped when it is polled.
LEMMA PolledLemma ==
  /\ source \in {Polled(source), "dead"} /\ sink \in {Polled(sink), "dead"}
  /\ Polled(source) = "run" <=> source = "run"
  /\ Polled(sink) = "run" <=> sink = "run"
BY DEF Polled

\* update_active keeps the invariant, with handles as they are or as polled.
LEMMA SuperviseLemma ==
  ASSUME SupervisorInv, NEW s, NEW k,
         s = "run" <=> source = "run", k = "run" <=> sink = "run",
         SuperviseCanlog(s, k)
  PROVE  SupervisorInv'
<1> USE DEF SupervisorInv, SinksKnown, ToldTogether, Survivor
<1>1. CASE s = "none" /\ StartCanlog(k)
  <2>1. source # "run" BY <1>1
  <2>2. "lost" \notin Forgotten(k) BY <2>1 DEF Forgotten
  <2> QED BY <1>1, <2>2 DEF StartCanlog
<1>2. CASE KeepCanlog(s, k)
  BY <1>2 DEF KeepCanlog
<1>3. CASE StopCanlog(s, k)
  BY <1>3 DEF StopCanlog, Terminate
<1> QED BY <1>1, <1>2, <1>3 DEF SuperviseCanlog

LEMMA NextSupervisor == SupervisorInv /\ [PowerNext]_powerVars => SupervisorInv'
<1> SUFFICES ASSUME SupervisorInv, [PowerNext]_powerVars PROVE SupervisorInv' OBVIOUS
<1>1. ASSUME UpdateNow PROVE SupervisorInv'
  BY <1>1, SuperviseLemma DEF UpdateNow, UpdateActive
<1>2. CASE SetPower BY <1>1, <1>2 DEF SetPower
<1>3. CASE SetKey BY <1>1, <1>3 DEF SetKey
<1>4. CASE SetForce BY <1>1, <1>4 DEF SetForce
<1>5. CASE Tick
  <2>1. SuperviseCanlog(Polled(source), Polled(sink)) BY <1>5 DEF Tick, UpdateActive
  <2> QED BY <2>1, PolledLemma, SuperviseLemma
<1> USE DEF SupervisorInv, SinksKnown, ToldTogether, Survivor
<1>6. CASE SetCanlog BY <1>6 DEF SetCanlog, canlog
<1>7. CASE PowerReload BY <1>7 DEF PowerReload, canlog
<1>8. CASE SourceExits BY <1>8 DEF SourceExits
<1>9. CASE SinkExits BY <1>9 DEF SinkExits
<1>10. CASE UNCHANGED powerVars BY <1>10 DEF powerVars, canlog
<1> QED BY <1>2, <1>3, <1>4, <1>5, <1>6, <1>7, <1>8, <1>9, <1>10 DEF PowerNext

\* No sink of the CAN logger is lost track of, but one whose source had
\* exited by itself, for all times and timeouts.
THEOREM SinksNotLost == PowerSpec => []SinksKnown
<1>1. SupervisorInv => SinksKnown BY DEF SupervisorInv
<1> QED BY <1>1, InitSupervisor, NextSupervisor, PTL DEF PowerSpec

-----------------------------------------------------------------------------
(* Preconditioning *)

\* Preconditioning is waited for only with power and with the key off since.
WaitMeant ==
  /\ wait \in Nat \cup {NoWait}
  /\ wait # NoWait => vehicle_on /\ ~key_on /\ ~keyed

LEMMA InitWait == PowerInit => WaitMeant
BY DEF PowerInit, WaitMeant

LEMMA NextWait == WaitMeant /\ [PowerNext]_powerVars => WaitMeant'
<1> SUFFICES ASSUME WaitMeant, [PowerNext]_powerVars PROVE WaitMeant' OBVIOUS
<1> USE PowerAssumption DEF WaitMeant, NoWait
<1>1. CASE SetPower BY <1>1 DEF SetPower
<1>2. CASE SetKey BY <1>2 DEF SetKey, KeyWait
<1>3. CASE Tick
  <2>1. wait' = Less(wait) /\ UNCHANGED <<vehicle_on, key_on, keyed>>
    BY <1>3 DEF Tick, input
  <2> QED BY <2>1 DEF Less
<1>4. CASE SetForce BY <1>4 DEF SetForce, precond
<1>5. CASE SetCanlog BY <1>5 DEF SetCanlog, precond
<1>6. CASE PowerReload BY <1>6 DEF PowerReload, precond, input
<1>7. CASE SourceExits BY <1>7 DEF SourceExits, precond, input
<1>8. CASE SinkExits BY <1>8 DEF SinkExits, precond, input
<1>9. CASE UNCHANGED powerVars BY <1>9 DEF powerVars, precond, input
<1> QED BY <1>1, <1>2, <1>3, <1>4, <1>5, <1>6, <1>7, <1>8, <1>9 DEF PowerNext

\* The tick alone notices preconditioning, when the time it waits for is over.
LEMMA PreconditionStep ==
  ASSUME WaitMeant, [PowerNext]_powerVars, ~preconditioning, preconditioning'
  PROVE  ~keyed
<1>1. CASE Tick
  <2>1. wait' = 0 /\ wait' = Less(wait) BY <1>1 DEF Tick
  <2>2. wait # NoWait BY <2>1 DEF Less, NoWait
  <2> QED BY <2>2 DEF WaitMeant
<1>2. CASE PowerNext /\ ~Tick
  BY <1>2 DEF PowerNext, SetPower, SetKey, SetForce, SetCanlog, PowerReload,
              SourceExits, SinkExits, precond
<1>3. CASE UNCHANGED powerVars BY <1>3 DEF powerVars, precond
<1> QED BY <1>1, <1>2, <1>3

\* Preconditioning is not noticed after the key was turned, whatever the
\* order of key, power and ticks, and however long the wait is.
THEOREM PreconditionRight == PowerSpec => PreconditionMeant
<1>1. WaitMeant /\ [PowerNext]_powerVars => [~preconditioning /\ preconditioning' => ~keyed]_powerVars
  BY PreconditionStep
<1> QED BY <1>1, InitWait, NextWait, PTL DEF PowerSpec, PreconditionMeant

=============================================================================
