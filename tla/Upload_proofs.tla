---------------------------- MODULE Upload_proofs ----------------------------
(***************************************************************************)
(* Safety of the copy of one file, for files of every size, and of the     *)
(* file that tells uploads their address.  The proof for the copy follows  *)
(* the blocks: what main() has taken, what waits to be taken and what the  *)
(* thread has in hand are three neighbours.                                *)
(***************************************************************************)
EXTENDS BlockReader, WifiMonitor, TLAPS

\* The blocks main() has taken, while it is in its loop.
Taken == IF mpc = "put" THEN block ELSE Len(dst)

InLoop == mpc \notin {"stop", "done"}

\* Where the neighbours are.
HandedOver ==
  InLoop =>
    /\ data # None => data = Taken + 1
    /\ data # None /\ rpc # "done" => next = Taken + 2
    /\ data = None /\ rpc # "done" => next = Taken + 1

InHand == mpc = "put" => block \in 1 .. Blocks /\ block \in {Len(dst), Len(dst) + 1}

IInv == TypeOK /\ PrefixOnly /\ WholeOnSuccess /\ HandedOver /\ InHand
        /\ (mpc = "stop" /\ ~failed => Len(dst) = Blocks)

BlockValues == {Part} \cup 0 .. Blocks

\* A block stored at its place, whole or on a disk in part, makes the
\* destination longer by it, or leaves its length as it was; the other blocks
\* stay as they are.
LEMMA StoredLemma ==
  ASSUME IInv, mpc = "put", NEW v \in {block, Part}
  PROVE  /\ Stored(block, v) \in Seq(BlockValues)
         /\ Len(Stored(block, v)) = block
         /\ Stored(block, v)[block] = v
         /\ \A i \in 1 .. block : i # block => Stored(block, v)[i] = dst[i]
<1>1. dst \in Seq(BlockValues) /\ Len(dst) \in Nat /\ Blocks \in Nat
  BY BlocksAssumption DEF IInv, TypeOK, BlockValues
<1>2. block \in 1 .. Blocks /\ block \in {Len(dst), Len(dst) + 1}
  BY DEF IInv, InHand
<1>3. (IF block > Len(dst) THEN block ELSE Len(dst)) = block
  BY <1>1, <1>2
<1>4. Stored(block, v) = [i \in 1 .. block |->
        CASE i = block -> v
          [] i # block /\ i <= Len(dst) -> dst[i]
          [] OTHER -> None]
  BY <1>3 DEF Stored
<1>5. \A i \in 1 .. block : i # block => i \in 1 .. Len(dst)
  BY <1>1, <1>2
<1>6. Stored(block, v) = [i \in 1 .. block |-> IF i = block THEN v ELSE dst[i]]
  BY <1>4, <1>5
<1>7. \A i \in 1 .. block : (IF i = block THEN v ELSE dst[i]) \in BlockValues
  BY <1>1, <1>2, <1>5 DEF BlockValues
<1>8. Stored(block, v) \in [1 .. block -> BlockValues]
  BY <1>6, <1>7
<1> QED BY <1>1, <1>2, <1>6, <1>8

LEMMA InitInv == Init => IInv
<1> SUFFICES ASSUME Init PROVE IInv OBVIOUS
<1> USE DEF Init
<1>0. PICK n \in 0 .. Blocks : \E gaps \in SUBSET (1 .. n) :
        /\ local \/ gaps = {}
        /\ dst = [i \in 1 .. n |-> IF i \in gaps THEN Part ELSE i]
        /\ next = n + 1
  OBVIOUS
<1>1. PICK gaps \in SUBSET (1 .. n) :
        /\ local \/ gaps = {}
        /\ dst = [i \in 1 .. n |-> IF i \in gaps THEN Part ELSE i]
        /\ next = n + 1
  BY <1>0
<1>2. dst \in Seq(BlockValues) /\ Len(dst) = n
  BY <1>1, BlocksAssumption DEF BlockValues
<1>3. TypeOK
  <2>1. next \in 1 .. End /\ data \in 0 .. End /\ block \in 0 .. End
    BY <1>1, BlocksAssumption DEF None, End
  <2>2. /\ filename \in BOOLEAN /\ error \in BOOLEAN /\ failed \in BOOLEAN
        /\ local \in BOOLEAN
    OBVIOUS
  <2> QED BY <1>2, <2>1, <2>2 DEF TypeOK, BlockValues
<1>4. PrefixOnly
  <2>1. \A i \in 1 .. n : dst[i] = i \/ (local /\ dst[i] = Part)
    BY <1>1
  <2> QED BY <1>1, <1>2, <2>1, BlocksAssumption DEF PrefixOnly, InPlace
<1>5. HandedOver /\ InHand /\ WholeOnSuccess
  BY <1>1, <1>2 DEF HandedOver, InHand, InLoop, Taken, WholeOnSuccess, None
<1> QED BY <1>3, <1>4, <1>5 DEF IInv

\* The thread leaves the destination and what main() has in hand alone.
LEMMA ReaderInv == ASSUME IInv, ReaderStep PROVE IInv'
<1> USE BlocksAssumption DEF IInv, TypeOK, PrefixOnly, WholeOnSuccess, InPlace,
        HandedOver, InHand, InLoop, Taken, None, End, Notified
<1>1. CASE Open BY <1>1 DEF Open, main
<1>2. CASE Read BY <1>2 DEF Read, main
<1>3. CASE Offer
  <2>1. CASE data # None /\ filename /\ rpc' = "wait"
              /\ UNCHANGED <<data, next, mpc>>
    BY <1>3, <2>1 DEF Offer
  <2>2. CASE ~filename /\ rpc' = "done" /\ UNCHANGED <<data, next, mpc>>
    BY <1>3, <2>2 DEF Offer
  <2>3. CASE /\ data = None /\ filename /\ data' = next
             /\ mpc' = Notified(mpc)
             /\ rpc' = IF next = End THEN "done" ELSE "read"
             /\ next' = IF next = End THEN next ELSE next + 1
    BY <1>3, <2>3 DEF Offer
  <2> QED BY <1>3, <2>1, <2>2, <2>3 DEF Offer
<1>4. CASE Fail BY <1>4 DEF Fail
<1> QED BY <1>1, <1>2, <1>3, <1>4 DEF ReaderStep

LEMMA GetDataInv == ASSUME IInv, GetData PROVE IInv'
<1> USE BlocksAssumption DEF IInv, TypeOK, PrefixOnly, WholeOnSuccess, InPlace,
        HandedOver, InHand, InLoop, Taken, None, End, Notified
<1>1. CASE data = None /\ ~error /\ mpc' = "wait"
            /\ UNCHANGED <<data, rpc, block, failed>>
  BY <1>1 DEF GetData
<1>2. CASE error /\ mpc' = "stop" /\ failed' = TRUE
            /\ UNCHANGED <<data, rpc, block>>
  BY <1>2 DEF GetData
<1>3. CASE /\ data # None /\ ~error
           /\ block' = data /\ data' = None
           /\ rpc' = Notified(rpc)
           /\ mpc' = IF data = End THEN "stop" ELSE "put"
           /\ UNCHANGED failed
  <2>1. data = Len(dst) + 1 BY <1>3 DEF GetData
  <2>2. CASE data = End BY <1>3, <2>1, <2>2 DEF GetData
  <2>3. CASE data # End BY <1>3, <2>1, <2>3 DEF GetData
  <2> QED BY <2>2, <2>3
<1> QED BY <1>1, <1>2, <1>3 DEF GetData

LEMMA PutInv == ASSUME IInv, Put \/ PutUnanswered PROVE IInv'
<1>1. /\ mpc = "put" /\ mpc' \in {"put", "get"}
      /\ UNCHANGED <<local, filename, data, error, rpc, next, block, failed>>
  BY DEF Put, PutUnanswered, reader, main
<1>2. PICK v \in {block, Part} : dst' = Stored(block, v) /\ (v = block \/ local)
  BY DEF Put, PutUnanswered
<1>3. /\ dst' \in Seq(BlockValues) /\ Len(dst') = block
      /\ dst'[block] = v
      /\ \A i \in 1 .. block : i # block => dst'[i] = dst[i]
  BY <1>1, <1>2, StoredLemma
<1>4. block \in 1 .. Blocks /\ block \in {Len(dst), Len(dst) + 1} /\ Len(dst) \in Nat
  BY <1>1 DEF IInv, InHand, TypeOK
<1>5. TypeOK' BY <1>1, <1>3 DEF IInv, TypeOK, BlockValues
<1>6. \A i \in 1 .. block : InPlace(i)'
  <2> SUFFICES ASSUME NEW i \in 1 .. block PROVE InPlace(i)'
    OBVIOUS
  <2>1. CASE i = block
    BY <1>1, <1>2, <1>3, <2>1 DEF InPlace
  <2>2. CASE i # block
    <3>1. i \in 1 .. Len(dst)
      BY <1>4, <2>2
    <3>2. InPlace(i) /\ dst'[i] = dst[i]
      BY <1>3, <2>2, <3>1 DEF IInv, PrefixOnly
    <3> QED BY <1>1, <3>2 DEF InPlace
  <2> QED BY <2>1, <2>2
<1>7. PrefixOnly' BY <1>3, <1>4, <1>6, BlocksAssumption DEF PrefixOnly
<1>8. Taken' = Taken BY <1>1, <1>3 DEF Taken
<1>9. HandedOver' BY <1>1, <1>8 DEF IInv, HandedOver, InLoop
<1>10. InHand' /\ WholeOnSuccess' BY <1>1, <1>3, <1>4 DEF InHand, WholeOnSuccess
<1> QED BY <1>1, <1>5, <1>7, <1>9, <1>10 DEF IInv

LEMMA RestInv ==
  ASSUME IInv, PutFails \/ Stop \/ WaitTimesOut \/ UNCHANGED vars
  PROVE  IInv'
<1> USE BlocksAssumption DEF IInv, TypeOK, PrefixOnly, WholeOnSuccess, InPlace,
        HandedOver, InHand, InLoop, Taken, None, End, Notified
<1>1. CASE PutFails BY <1>1 DEF PutFails, reader
<1>2. CASE Stop BY <1>2 DEF Stop
<1>3. CASE WaitTimesOut BY <1>3 DEF WaitTimesOut
<1>4. CASE UNCHANGED vars BY <1>4 DEF vars, reader, main
<1> QED BY <1>1, <1>2, <1>3, <1>4

\* The invariant that the rest follows from holds in every reachable state.
THEOREM Inductive == Spec => []IInv
<1>1. Init => IInv BY InitInv
<1>2. IInv /\ [Next]_vars => IInv'
  BY ReaderInv, GetDataInv, PutInv, RestInv DEF Next, MainStep
<1> QED BY <1>1, <1>2, PTL DEF Spec

\* An upload is always a beginning of the file, and a copy on a disk one that
\* lacks nothing but what os.write left out, for files of any size.
THEOREM CopyIsPrefix == Spec => []PrefixOnly
<1>1. IInv => PrefixOnly BY DEF IInv
<1> QED BY <1>1, Inductive, PTL

\* A copy that ends well has stored every block at its place: an upload all of
\* the file, a copy on a disk all but what os.write left out.
THEOREM CopyIsWhole == Spec => []WholeOnSuccess
<1>1. IInv => WholeOnSuccess BY DEF IInv
<1> QED BY <1>1, Inductive, PTL

\* Every variable of the copy keeps its type.
THEOREM TypeCorrect == Spec => []TypeOK
<1>1. IInv => TypeOK BY DEF IInv
<1> QED BY <1>1, Inductive, PTL

-----------------------------------------------------------------------------
(* The copy ends: what of this is not liveness *)

\* Either side waits only while the other has something to do, which wakes it.
SomeoneRuns ==
  /\ rpc = "wait" => mpc \notin {"wait", "done"}
  /\ mpc = "wait" => rpc \notin {"wait", "done"}

\* Why: a side that waits would wait again if it were woken now; the name is
\* taken away by main() as the last thing it does; and the thread ends only
\* with an error, without the name, or with the empty block handed over.
WaitInv ==
  /\ rpc = "wait" => data # None /\ filename
  /\ mpc = "wait" => data = None /\ ~error
  /\ filename <=> mpc # "done"
  /\ rpc = "done" => \/ error \/ ~filename \/ data = End
                     \/ block = End /\ mpc \in {"stop", "done"}

LEMMA WaitStep ==
  ASSUME TypeOK, WaitInv, [Next]_vars PROVE WaitInv'
<1> USE BlocksAssumption DEF TypeOK, WaitInv, None, End, Notified
<1>1. CASE Open BY <1>1 DEF Open, main
<1>2. CASE Read BY <1>2 DEF Read, main
<1>3. CASE Offer BY <1>3 DEF Offer
<1>4. CASE Fail BY <1>4 DEF Fail
<1>5. CASE GetData BY <1>5 DEF GetData
<1>6. CASE Put \/ PutUnanswered BY <1>6 DEF Put, PutUnanswered, reader, main
<1>7. CASE PutFails BY <1>7 DEF PutFails, reader
<1>8. CASE Stop BY <1>8 DEF Stop
<1>9. CASE WaitTimesOut BY <1>9 DEF WaitTimesOut
<1>10. CASE UNCHANGED vars BY <1>10 DEF vars, reader, main
<1> QED BY <1>1, <1>2, <1>3, <1>4, <1>5, <1>6, <1>7, <1>8, <1>9, <1>10
        DEF Next, ReaderStep, MainStep

\* The thread and main() never wait for each other, nor one for the other
\* after its end: every wake-up that is needed was given, without the 1000
\* seconds of either wait.
THEOREM NoLostWakeUp == Spec => []SomeoneRuns
<1>1. Init => WaitInv BY DEF Init, WaitInv
<1>2. TypeOK /\ WaitInv /\ [Next]_vars => WaitInv' BY WaitStep
<1>3. TypeOK /\ WaitInv => SomeoneRuns
  BY BlocksAssumption DEF TypeOK, WaitInv, SomeoneRuns, None, End
<1> QED BY <1>1, <1>2, <1>3, TypeCorrect, PTL DEF Spec

\* What is left to do: the blocks the thread still has to hand over, the one
\* that waits, and where each side is with the block it is about.
ThreadLeft == IF rpc = "open" THEN 8
         ELSE IF rpc = "read" THEN 7
         ELSE IF rpc = "wait" THEN 5
         ELSE IF rpc = "done" THEN 0 ELSE 6
MainLeft == IF mpc = "put" THEN 4
       ELSE IF mpc \in {"get", "woken"} THEN 3
       ELSE IF mpc = "done" THEN 0 ELSE 2
Left == 10 * (End - next) + ThreadLeft + MainLeft + (IF data # None THEN 3 ELSE 0)

LeftNat   == Left \in Nat
Decreases == ReaderStep \/ MainStep => Left' < Left

LEMMA LeftLemma == ASSUME TypeOK PROVE Left \in Nat
BY BlocksAssumption DEF TypeOK, Left, ThreadLeft, MainLeft, End

LEMMA ThreadDecreases == ASSUME TypeOK, ReaderStep PROVE Left' < Left
<1> USE BlocksAssumption DEF TypeOK, Left, ThreadLeft, MainLeft, None, End, Notified
<1>1. CASE Open BY <1>1 DEF Open, main
<1>2. CASE Read BY <1>2 DEF Read, main
<1>3. CASE Offer
  <2>1. CASE data # None /\ filename /\ rpc' = "wait"
              /\ UNCHANGED <<data, next, mpc>>
    BY <1>3, <2>1 DEF Offer
  <2>2. CASE ~filename /\ rpc' = "done" /\ UNCHANGED <<data, next, mpc>>
    BY <1>3, <2>2 DEF Offer
  <2>3. CASE /\ data = None /\ filename /\ data' = next
             /\ mpc' = Notified(mpc)
             /\ rpc' = IF next = End THEN "done" ELSE "read"
             /\ next' = IF next = End THEN next ELSE next + 1
    <3>1. CASE next = End BY <1>3, <2>3, <3>1 DEF Offer
    <3>2. CASE next # End BY <1>3, <2>3, <3>2 DEF Offer
    <3> QED BY <3>1, <3>2
  <2> QED BY <1>3, <2>1, <2>2, <2>3 DEF Offer
<1>4. CASE Fail BY <1>4 DEF Fail
<1> QED BY <1>1, <1>2, <1>3, <1>4 DEF ReaderStep

LEMMA MainDecreases == ASSUME TypeOK, MainStep PROVE Left' < Left
<1> USE BlocksAssumption DEF TypeOK, Left, ThreadLeft, MainLeft, None, End, Notified
<1>1. CASE GetData BY <1>1 DEF GetData
<1>2. CASE Put BY <1>2 DEF Put, reader
<1>3. CASE PutFails BY <1>3 DEF PutFails, reader
<1>4. CASE Stop BY <1>4 DEF Stop
<1> QED BY <1>1, <1>2, <1>3, <1>4 DEF MainStep

\* Whatever fails and however the two sides alternate, each step of either
\* leaves less to do, so that the copy of a file of any size is over after a
\* number of steps that its size bounds; only the retries of a block and the
\* waits that give up are not counted.
THEOREM WorkRunsOut == Spec => []LeftNat /\ [][Decreases]_vars
<1>1. TypeOK => LeftNat BY LeftLemma DEF LeftNat
<1>2. TypeOK => Decreases BY ThreadDecreases, MainDecreases DEF Decreases
<1> QED BY <1>1, <1>2, TypeCorrect, PTL

-----------------------------------------------------------------------------
(* The address *)

\* The file and the memory of the wifi manager differ only after a start,
\* until an address was found: then the file has the one of the earlier run.
FileRemembered ==
  /\ addr_file = wifi_addr \/ leftover
  /\ leftover => wifi_addr = NoAddr /\ addr_file # NoAddr

\* However passes, answers and restarts follow each other, and whatever a cut
\* write left: what an upload is told is what the last pass found, or it is
\* the address of an earlier run of which the manager knows nothing.
THEOREM AddressRemembered == WifiSpec => []FileRemembered
<1>1. WifiInit => FileRemembered BY DEF WifiInit, FileRemembered
<1>2. FileRemembered /\ [WifiNext]_wifiVars => FileRemembered'
  <2> SUFFICES ASSUME FileRemembered, [WifiNext]_wifiVars PROVE FileRemembered'
    OBVIOUS
  <2> USE DEF FileRemembered
  <2>1. ASSUME NEW a, Found(a) PROVE FileRemembered'
    BY <2>1 DEF Found
  <2>2. CASE Pass
    BY <2>1, <2>2 DEF Pass, NotWanted, NoAddress, WrongLan, Ping, Ready, PingFails
  <2>3. CASE Restart BY <2>3 DEF Restart
  <2>4. CASE Outside \/ Joins \/ Renews \/ Hangs \/ TimePasses
    BY <2>4 DEF Outside, Joins, Renews, Hangs, TimePasses, manager
  <2>5. CASE UNCHANGED wifiVars BY <2>5 DEF wifiVars, manager
  <2> QED BY <2>2, <2>3, <2>4, <2>5 DEF WifiNext
<1> QED BY <1>1, <1>2, PTL DEF WifiSpec
=============================================================================
