---------------------------- MODULE Canlog_proofs ----------------------------
(***************************************************************************)
(* Proofs about CanlogRing, for every ring size and any number of frames,  *)
(* and about CanlogFraming, for any frames and however they are read.      *)
(***************************************************************************)
EXTENDS CanlogRing, CanlogFraming, SequenceTheorems, WellFoundedInduction, TLAPS

-----------------------------------------------------------------------------
(* The ring.  The argument measures positions from the read pointer: Dist  *)
(* turns the wrap-around of the ring into linear arithmetic.               *)

R == Norm(rp)
W == Norm(wp)

\* What each step of the source relies on.
SourceInv ==
  /\ (wp = 0) => (published = <<>> /\ wpc \in {"off", "init_wp"})
  /\ wpc = "cas_rp" => wold = 0
  /\ wpc \in {"idle", "fill", "check", "publish"} => rp # 0
  /\ wpc \in {"fill", "check", "publish"} => wl = wp /\ nrecv >= 1
  /\ wpc \in {"check", "publish"} => slot[wl] = nrecv
  /\ wpc = "publish" => Pending < N - 2

\* What each step of the sink relies on: its snapshot of the write pointer
\* lies in the window, its local read pointer is the shared one.
SinkInv ==
  /\ rpc = "store_rp" => rw \in Slots /\ Dist(R, rw) <= Pending
  /\ SinkJoined => rp # 0
  /\ rpc \in {"poll", "read", "copy", "advance"} => rl = rp
  /\ rpc \in {"read", "copy", "advance"} =>
       rw \in Slots /\ Dist(rp, rw) > 0 /\ Dist(rp, rw) <= Pending
  /\ rpc = "copy" => rbuf = slot[rl]

\* Where the sink's file stands in the history of published frames.
FileInv ==
  /\ rpc \in {"load_wp", "store_rp", "enter"} => out = <<>>
  /\ SinkJoined =>
       start + Len(out) = Consumed + (IF rpc = "advance" THEN 1 ELSE 0)
  /\ SinkJoined => \A i \in 1 .. Len(out) : out[i] = published[start + i]

PublishedInv == \A i \in 1 .. Len(published) : published[i] # Torn

IInv == TypeOK /\ SourceInv /\ SinkInv /\ WindowIntact /\ FileInv /\ PublishedInv

-----------------------------------------------------------------------------
(* Arithmetic of the ring *)

\* Distances between records of the ring stay below its length, and only a
\* record is at distance 0 from itself.
LEMMA DistRange ==
  ASSUME NEW a \in Slots, NEW b \in Slots
  PROVE  Dist(a, b) \in 0 .. (N - 2) /\ (Dist(a, b) = 0 <=> a = b)
BY NAssumption DEF Dist, Slots

\* Moving the far end one record forward adds one to the distance, unless it
\* meets the near end, which happens only from the largest distance.
LEMMA DistNext ==
  ASSUME NEW a \in Slots, NEW b \in Slots
  PROVE  /\ NextSlot(b) \in Slots
         /\ NextSlot(b) # a => Dist(a, NextSlot(b)) = Dist(a, b) + 1
         /\ NextSlot(b) = a => Dist(a, b) = N - 2
BY NAssumption DEF Dist, Slots, NextSlot

\* Moving the near end one record forward takes one off the distance.
LEMMA DistAdvance ==
  ASSUME NEW a \in Slots, NEW b \in Slots, a # b
  PROVE  Dist(NextSlot(a), b) = Dist(a, b) - 1
BY NAssumption DEF Dist, Slots, NextSlot

\* Distances add along the ring.
LEMMA DistSplit ==
  ASSUME NEW a \in Slots, NEW b \in Slots, NEW c \in Slots,
         Dist(a, c) <= Dist(a, b)
  PROVE  Dist(c, b) = Dist(a, b) - Dist(a, c)
BY NAssumption DEF Dist, Slots

\* A window that begins later lies inside the one that began earlier.
LEMMA WindowInside ==
  ASSUME NEW a \in Slots, NEW b \in Slots, NEW c \in Slots, NEW s \in Slots,
         Dist(a, c) <= Dist(a, b), Dist(c, s) < Dist(c, b)
  PROVE  Dist(a, s) < Dist(a, b)
BY NAssumption DEF Dist, Slots

\* A pointer that is in use is left alone by the init functions.
LEMMA NormRange ==
  ASSUME NEW p \in 0 .. (N - 1)
  PROVE  /\ Norm(p) \in Slots
         /\ p # 0 => Norm(p) = p
         /\ Norm(Norm(p)) = Norm(p)
BY NAssumption DEF Norm, Slots

-----------------------------------------------------------------------------
(* The invariant *)

LEMMA InitInv == Init => IInv
<1> SUFFICES ASSUME Init PROVE IInv
  OBVIOUS
<1>1. TypeOK
  BY NAssumption, MaxFramesAssumption DEF Init, TypeOK, Slots, Torn
<1>2. Pending = 0
  BY NAssumption DEF Init, Pending, Norm, Dist
<1>3. WindowIntact
  BY <1>2, DistRange, NAssumption DEF Init, WindowIntact, Norm, Slots
<1>4. SourceInv /\ SinkInv /\ FileInv /\ PublishedInv
  BY DEF Init, SourceInv, SinkInv, FileInv, PublishedInv, SinkJoined
<1> QED
  BY <1>1, <1>3, <1>4 DEF IInv

\* A step that touches neither the shared memory nor the history keeps the
\* window and the published frames as they are.
LEMMA LocalStep ==
  ASSUME IInv, UNCHANGED <<wp, rp, slot, published>>
  PROVE  /\ Pending' = Pending /\ Consumed' = Consumed /\ R' = R /\ W' = W
         /\ WindowIntact' /\ PublishedInv'
BY DEF IInv, Pending, Consumed, WindowIntact, PublishedInv, R, W

LEMMA SourceStepInv ==
  ASSUME IInv, StartSource \/ SourceStep \/ BeginFrame \/ CrashSource
  PROVE  IInv'
<1> USE NAssumption, MaxFramesAssumption
<1>1. TypeOK /\ SourceInv /\ SinkInv /\ WindowIntact /\ FileInv /\ PublishedInv
  BY DEF IInv
<1>2. R \in Slots /\ W \in Slots /\ Pending = Dist(R, W) /\ Pending \in 0 .. (N - 2)
  BY <1>1, NormRange, DistRange DEF TypeOK, R, W, Pending
<1>3. CASE StartSource
  <2>1. UNCHANGED <<wp, rp, slot, published>>
    BY <1>3 DEF StartSource, history
  <2>2. TypeOK' /\ SourceInv' /\ SinkInv' /\ FileInv'
    BY <1>1, <1>3, <2>1, LocalStep DEF StartSource, sinkVars, history, TypeOK, SourceInv, SinkInv, FileInv, SinkJoined
  <2> QED
    BY <2>1, <2>2, LocalStep DEF IInv
<1>4. CASE InitWritePointer
  <2>1. wp' \in Slots /\ W' = W /\ R' = R /\ Pending' = Pending /\ Consumed' = Consumed
    BY <1>1, <1>4, NormRange DEF InitWritePointer, TypeOK, R, W, Pending, Consumed, history
  <2>2. TypeOK'
    BY <1>1, <1>4, <2>1 DEF InitWritePointer, TypeOK, sinkVars, history, Slots
  <2>3. SourceInv'
    BY <1>1, <1>4, <2>1 DEF InitWritePointer, SourceInv, sinkVars, history, Slots
  <2>4. SinkInv' /\ FileInv'
    BY <1>1, <1>4, <2>1 DEF InitWritePointer, SinkInv, FileInv, SinkJoined, sinkVars, history
  <2>5. WindowIntact' /\ PublishedInv'
    BY <1>1, <1>4, <2>1 DEF InitWritePointer, WindowIntact, PublishedInv, R, W, history
  <2> QED
    BY <2>2, <2>3, <2>4, <2>5 DEF IInv
<1>5. CASE LoadReadPointer
  <2>1. UNCHANGED <<wp, rp, slot, published>>
    BY <1>5 DEF LoadReadPointer, history
  <2>2. TypeOK' /\ SinkInv' /\ FileInv'
    BY <1>1, <1>5, <2>1, LocalStep DEF LoadReadPointer, sinkVars, history, TypeOK, SinkInv, FileInv, SinkJoined
  <2>3. SourceInv'
    BY <1>1, <1>5, <2>1, LocalStep DEF LoadReadPointer, sinkVars, history, SourceInv, TypeOK, Norm
  <2> QED
    BY <2>1, <2>2, <2>3, LocalStep DEF IInv
<1>6. CASE CasReadPointer
  <2>1. R' = R /\ W' = W /\ Pending' = Pending /\ Consumed' = Consumed
    BY <1>1, <1>6 DEF CasReadPointer, SourceInv, R, W, Pending, Consumed, Norm, history
  <2>2. TypeOK'
    BY <1>1, <1>6 DEF CasReadPointer, TypeOK, sinkVars, history, Slots
  <2>3. SourceInv'
    BY <1>1, <1>6, <2>1 DEF CasReadPointer, SourceInv, sinkVars, history, TypeOK, Norm
  <2>4. SinkInv' /\ FileInv'
    BY <1>1, <1>6, <2>1 DEF CasReadPointer, SourceInv, SinkInv, FileInv, SinkJoined, sinkVars, history, TypeOK
  <2>5. WindowIntact' /\ PublishedInv'
    BY <1>1, <1>6, <2>1 DEF CasReadPointer, WindowIntact, PublishedInv, R, W, history
  <2> QED
    BY <2>2, <2>3, <2>4, <2>5 DEF IInv
<1>7. CASE BeginFrame
  <2>1. wp \in Slots /\ wp = W /\ rp = R /\ rp \in Slots
    BY <1>1, <1>7, NormRange DEF BeginFrame, SourceInv, TypeOK, R, W, Slots
  <2>2. R' = R /\ W' = W /\ Pending' = Pending /\ Consumed' = Consumed
    BY <1>7 DEF BeginFrame, R, W, Pending, Consumed, history
  <2>3. \A s \in Slots : s # wp => slot'[s] = slot[s]
    BY <1>1, <1>7 DEF BeginFrame, TypeOK
  <2>4. TypeOK'
    BY <1>1, <1>7, <2>1 DEF BeginFrame, TypeOK, sinkVars, history, Torn
  <2>5. SourceInv'
    BY <1>1, <1>7, <2>1, <2>2 DEF BeginFrame, SourceInv, sinkVars, history, TypeOK
  <2>6. WindowIntact'
    <3>1. \A s \in Slots : Dist(R, s) < Pending => s # wp
      BY <1>2, <2>1
    <3> QED
      BY <1>1, <1>7, <2>2, <2>3, <3>1 DEF BeginFrame, WindowIntact, R, W, history
  <2>7. SinkInv'
    <3>1. rpc = "copy" => rl # wp
      BY <1>1, <1>2, <2>1, DistRange DEF SinkInv, TypeOK
    <3> QED
      BY <1>1, <1>7, <2>2, <2>3, <3>1 DEF BeginFrame, SinkInv, SinkJoined, sinkVars, TypeOK
  <2>8. FileInv' /\ PublishedInv'
    BY <1>1, <1>7, <2>2 DEF BeginFrame, FileInv, PublishedInv, SinkJoined, sinkVars, history
  <2> QED
    BY <2>4, <2>5, <2>6, <2>7, <2>8 DEF IInv
<1>8. CASE EndFrame
  <2>1. wp \in Slots /\ wp = W /\ rp = R /\ rp \in Slots /\ wl = wp
    BY <1>1, <1>8, NormRange DEF EndFrame, SourceInv, TypeOK, R, W, Slots
  <2>2. R' = R /\ W' = W /\ Pending' = Pending /\ Consumed' = Consumed
    BY <1>8 DEF EndFrame, R, W, Pending, Consumed, history
  <2>3. (\A s \in Slots : s # wp => slot'[s] = slot[s]) /\ slot'[wl] = nrecv
    BY <1>1, <1>8, <2>1 DEF EndFrame, TypeOK
  <2>4. TypeOK'
    BY <1>1, <1>8, <2>1 DEF EndFrame, TypeOK, sinkVars, history
  <2>5. SourceInv'
    BY <1>1, <1>8, <2>1, <2>2, <2>3 DEF EndFrame, SourceInv, sinkVars, history, TypeOK
  <2>6. WindowIntact'
    <3>1. \A s \in Slots : Dist(R, s) < Pending => s # wp
      BY <1>2, <2>1
    <3> QED
      BY <1>1, <1>8, <2>2, <2>3, <3>1 DEF EndFrame, WindowIntact, R, W, history
  <2>7. SinkInv'
    <3>1. rpc = "copy" => rl # wp
      BY <1>1, <1>2, <2>1, DistRange DEF SinkInv, TypeOK
    <3> QED
      BY <1>1, <1>8, <2>2, <2>3, <3>1 DEF EndFrame, SinkInv, SinkJoined, sinkVars, TypeOK
  <2>8. FileInv' /\ PublishedInv'
    BY <1>1, <1>8, <2>2 DEF EndFrame, FileInv, PublishedInv, SinkJoined, sinkVars, history
  <2> QED
    BY <2>4, <2>5, <2>6, <2>7, <2>8 DEF IInv
<1>9. CASE CheckFull
  <2>1. UNCHANGED <<wp, rp, slot, published>>
    BY <1>9 DEF CheckFull, history
  <2>2. TypeOK' /\ SinkInv' /\ FileInv'
    BY <1>1, <1>9, <2>1, LocalStep DEF CheckFull, sinkVars, history, TypeOK, SinkInv, FileInv, SinkJoined
  <2>3. NextSlot(wl) # rp => Pending < N - 2
    <3>1. wl = W /\ rp = R
      BY <1>1, <1>9, NormRange DEF CheckFull, SourceInv, TypeOK, R, W, Slots
    <3>2. NextSlot(W) # R => Dist(R, NextSlot(W)) = Pending + 1
      BY <1>2, DistNext
    <3>3. Dist(R, NextSlot(W)) \in 0 .. (N - 2)
      BY <1>2, DistNext, DistRange
    <3> QED
      BY <1>2, <3>1, <3>2, <3>3
  <2>4. SourceInv'
    BY <1>1, <1>9, <2>1, <2>3, LocalStep DEF CheckFull, sinkVars, history, SourceInv
  <2> QED
    BY <2>1, <2>2, <2>4, LocalStep DEF IInv
<1>10. CASE Publish
  <2> DEFINE L == Len(published)
  <2>1. wp \in Slots /\ wp = W /\ rp = R /\ rp \in Slots /\ wl = wp /\ slot[W] = nrecv /\ nrecv >= 1
    BY <1>1, <1>10, NormRange DEF Publish, SourceInv, TypeOK, R, W, Slots
  <2>2. Pending < N - 2 /\ NextSlot(W) # R /\ NextSlot(W) \in Slots
    BY <1>1, <1>2, <1>10, DistNext DEF Publish, SourceInv
  <2>3. R' = R /\ wp' = NextSlot(W) /\ W' = NextSlot(W)
    BY <1>10, <2>1, <2>2, NormRange DEF Publish, R, W, Slots, Norm
  <2>4. Pending' = Pending + 1
    <3>1. Pending' = Dist(R', W')
      BY DEF Pending, R, W
    <3> QED
      BY <1>2, <2>2, <2>3, <3>1, DistNext
  <2>5. /\ L \in Nat /\ Len(published') = L + 1
        /\ published'[L + 1] = nrecv
        /\ \A i \in 1 .. L : published'[i] = published[i]
        /\ published' \in Seq(0 .. MaxFrames)
    BY <1>1, <1>10, <2>1 DEF Publish, TypeOK
  <2>6. Consumed' = Consumed
    BY <1>2, <2>4, <2>5 DEF Consumed
  <2>7. TypeOK'
    BY <1>1, <1>10, <2>1, <2>2, <2>3, <2>5 DEF Publish, TypeOK, sinkVars, Slots
  <2>8. SourceInv'
    BY <1>1, <1>10, <2>1, <2>2, <2>3 DEF Publish, SourceInv, sinkVars, Slots
  <2>9. PublishedInv'
    <3> SUFFICES ASSUME NEW i \in 1 .. (L + 1) PROVE published'[i] # Torn
      BY <2>5 DEF PublishedInv
    <3>1. CASE i = L + 1
      BY <2>1, <2>5, <3>1, <1>1 DEF Torn, TypeOK
    <3>2. CASE i \in 1 .. L
      BY <1>1, <2>5, <3>2 DEF PublishedInv
    <3> QED
      BY <2>5, <3>1, <3>2
  <2>10. WindowIntact'
    <3>1. slot' = slot
      BY <1>10 DEF Publish
    <3>2. Pending' <= Len(published)'
      BY <1>1, <1>2, <2>4, <2>5 DEF WindowIntact
    <3>3. ASSUME NEW s \in Slots, Dist(R, s) < Pending + 1
          PROVE  slot[s] = published'[(L + 2) - Dist(s, NextSlot(W))]
      <4>1. CASE s = W
        <5>1. Dist(s, NextSlot(W)) = 1
          BY <1>2, <2>2, <4>1, NAssumption DEF Dist, NextSlot, Slots
        <5> QED
          BY <2>1, <2>5, <4>1, <5>1
      <4>2. CASE s # W
        <5>1. Dist(R, s) \in 0 .. (N - 2) /\ Dist(R, s) < Pending
          BY <1>2, <3>3, <4>2, NAssumption DEF Dist, Slots
        <5>2. Dist(s, W) = Pending - Dist(R, s)
          BY <1>2, <5>1, DistSplit
        <5>3. slot[s] = published[(L + 1) - Dist(s, W)] /\ Pending <= L
          BY <1>1, <5>1 DEF WindowIntact, R, W
        <5>4. NextSlot(W) # s
          BY <1>2, <2>2, <4>2, <5>1, NAssumption DEF Dist, Slots, NextSlot
        <5>5. Dist(s, NextSlot(W)) = Dist(s, W) + 1
          BY <1>2, <5>4, DistNext
        <5>6. (L + 1) - Dist(s, W) \in 1 .. L
          BY <1>2, <2>5, <5>1, <5>2, <5>3
        <5>7. (L + 2) - Dist(s, NextSlot(W)) = (L + 1) - Dist(s, W)
          <6>1. Dist(s, W) \in 0 .. (N - 2) /\ L \in Nat
            BY <1>2, <2>5, DistRange
          <6> HIDE DEF L
          <6> QED
            BY <5>5, <6>1
        <5>8. published'[(L + 1) - Dist(s, W)] = published[(L + 1) - Dist(s, W)]
          BY <2>5, <5>6
        <5>9. published'[(L + 2) - Dist(s, NextSlot(W))]
                = published'[(L + 1) - Dist(s, W)]
          BY <5>7
        <5> HIDE DEF L
        <5> QED
          BY <5>3, <5>8, <5>9
      <4> QED
        BY <4>1, <4>2
    <3>4. Norm(rp)' = R /\ Norm(wp)' = NextSlot(W)
      BY <2>3 DEF R, W
    <3>5. Len(published)' + 1 = L + 2
      BY <2>5
    <3> QED
      BY <2>4, <3>1, <3>2, <3>3, <3>4, <3>5 DEF WindowIntact
  <2>11. SinkInv'
    <3>1. UNCHANGED <<rpc, rl, rw, rbuf, rp, slot>>
      BY <1>10 DEF Publish, sinkVars
    <3>2. (rpc = "store_rp" => rw \in Slots /\ Dist(R, rw) <= Pending') /\ R' = R
      BY <1>1, <1>2, <2>3, <2>4, <3>1, DistRange DEF SinkInv
    <3>3. rpc \in {"read", "copy", "advance"} =>
             rw \in Slots /\ Dist(rp, rw) > 0 /\ Dist(rp, rw) <= Pending'
      BY <1>1, <1>2, <2>1, <2>4, DistRange DEF SinkInv
    <3> QED
      BY <1>1, <3>1, <3>2, <3>3 DEF SinkInv, SinkJoined
  <2>12. FileInv'
    <3>1. UNCHANGED <<rpc, start, out>>
      BY <1>10 DEF Publish, sinkVars
    <3>2. rpc = "advance" => Pending >= 1
      <4> SUFFICES ASSUME rpc = "advance" PROVE Pending >= 1
        OBVIOUS
      <4>1. rp \in Slots /\ rw \in Slots /\ Dist(rp, rw) > 0 /\ Dist(rp, rw) <= Pending
        BY <1>1 DEF SinkInv, TypeOK
      <4>2. Dist(rp, rw) \in 0 .. (N - 2)
        BY <4>1, DistRange
      <4> QED
        BY <1>2, <4>1, <4>2
    <3>3. SinkJoined => start + Len(out) <= L
      BY <1>1, <1>2, <2>5, <3>2 DEF FileInv, Consumed
    <3>4. SinkJoined => \A i \in 1 .. Len(out) : start + i \in 1 .. L
      BY <1>1, <2>5, <3>3 DEF TypeOK
    <3> QED
      BY <1>1, <2>5, <2>6, <3>1, <3>4 DEF FileInv, SinkJoined
  <2> QED
    BY <2>7, <2>8, <2>9, <2>10, <2>11, <2>12 DEF IInv
<1>11. CASE CrashSource
  <2>1. UNCHANGED <<wp, rp, slot, published>>
    BY <1>11 DEF CrashSource, history
  <2>2. TypeOK' /\ SourceInv' /\ SinkInv' /\ FileInv'
    BY <1>1, <1>11, <2>1, LocalStep DEF CrashSource, sinkVars, history, TypeOK, SourceInv, SinkInv, FileInv, SinkJoined
  <2> QED
    BY <2>1, <2>2, LocalStep DEF IInv
<1> QED
  BY <1>3, <1>4, <1>5, <1>6, <1>7, <1>8, <1>9, <1>10, <1>11 DEF SourceStep

LEMMA SinkStepInv ==
  ASSUME IInv, StartSink \/ SinkStep \/ CrashSink
  PROVE  IInv'
<1> USE NAssumption, MaxFramesAssumption
<1>1. TypeOK /\ SourceInv /\ SinkInv /\ WindowIntact /\ FileInv /\ PublishedInv
  BY DEF IInv
<1>2. R \in Slots /\ W \in Slots /\ Pending = Dist(R, W) /\ Pending \in 0 .. (N - 2)
  BY <1>1, NormRange, DistRange DEF TypeOK, R, W, Pending
<1>3. CASE StartSink
  <2>1. UNCHANGED <<wp, rp, slot, published>>
    BY <1>3 DEF StartSink
  <2>2. TypeOK' /\ SourceInv' /\ SinkInv' /\ FileInv'
    BY <1>1, <1>3, <2>1, LocalStep DEF StartSink, sourceVars, TypeOK, SourceInv, SinkInv, FileInv, SinkJoined
  <2> QED
    BY <2>1, <2>2, LocalStep DEF IInv
<1>4. CASE LoadWritePointer
  <2>1. UNCHANGED <<wp, rp, slot, published>>
    BY <1>4 DEF LoadWritePointer, history
  <2>2. rw' = W /\ Dist(R, W) <= Pending
    BY <1>2, <1>4 DEF LoadWritePointer, W
  <2>3. TypeOK' /\ SourceInv' /\ FileInv'
    BY <1>1, <1>2, <1>4, <2>1, <2>2, LocalStep DEF LoadWritePointer, sourceVars, history, TypeOK, SourceInv, FileInv, SinkJoined, Slots
  <2>4. SinkInv'
    BY <1>2, <1>4, <2>1, <2>2, LocalStep DEF LoadWritePointer, SinkInv, SinkJoined
  <2> QED
    BY <2>1, <2>3, <2>4, LocalStep DEF IInv
<1>5. CASE StoreReadPointer
  <2>1. rw \in Slots /\ Dist(R, rw) <= Pending /\ Dist(R, rw) \in 0 .. (N - 2)
    BY <1>1, <1>2, <1>5, DistRange DEF StoreReadPointer, SinkInv
  <2>2. rp' = rw /\ R' = rw /\ W' = W
    BY <1>5, <2>1, NormRange DEF StoreReadPointer, R, W, Slots, Norm
  <2>3. Pending' = Pending - Dist(R, rw)
    <3>1. Pending' = Dist(R', W')
      BY DEF Pending, R, W
    <3> QED
      BY <1>2, <2>1, <2>2, <3>1, DistSplit
  <2>4. published' = published /\ Len(published) \in Nat
    BY <1>1, <1>5 DEF StoreReadPointer, TypeOK
  <2>5. Consumed' = Consumed + Dist(R, rw) /\ Consumed \in Nat
    BY <1>1, <1>2, <2>1, <2>3, <2>4 DEF Consumed, WindowIntact
  <2>6. start' = Consumed' /\ start' \in Nat
    BY <1>5, <2>1, <2>5 DEF StoreReadPointer, R
  <2>7. TypeOK'
    BY <1>1, <1>5, <2>1, <2>2, <2>6 DEF StoreReadPointer, TypeOK, sourceVars, Slots
  <2>8. SourceInv'
    BY <1>1, <1>2, <1>5, <2>1, <2>2, <2>3 DEF StoreReadPointer, SourceInv, sourceVars, Slots
  <2>9. SinkInv'
    BY <1>5, <2>1, <2>2 DEF StoreReadPointer, SinkInv, SinkJoined, Slots
  <2>10. WindowIntact'
    <3>1. slot' = slot /\ Norm(rp)' = rw /\ Norm(wp)' = W
      BY <1>5, <2>2 DEF StoreReadPointer, R, W
    <3>2. Pending' <= Len(published)'
      BY <1>1, <1>2, <2>1, <2>3, <2>4 DEF WindowIntact
    <3>3. Pending' = Dist(rw, W)
      BY <1>2, <2>1, <2>3, DistSplit
    <3>4. ASSUME NEW s \in Slots, Dist(rw, s) < Pending'
          PROVE  slot[s] = published[(Len(published) + 1) - Dist(s, W)]
      <4>1. Dist(R, s) < Pending
        BY <1>2, <2>1, <3>3, <3>4, WindowInside
      <4> QED
        BY <1>1, <4>1 DEF WindowIntact, R, W
    <3> QED
      BY <2>4, <3>1, <3>2, <3>4 DEF WindowIntact
  <2>11. PublishedInv'
    BY <1>1, <2>4 DEF PublishedInv
  <2>12. FileInv'
    BY <1>1, <1>5, <2>6, <2>5 DEF StoreReadPointer, FileInv, SinkJoined
  <2> QED
    BY <2>7, <2>8, <2>9, <2>10, <2>11, <2>12 DEF IInv
<1>6. CASE EnterLoop
  <2>1. UNCHANGED <<wp, rp, slot, published>>
    BY <1>6 DEF EnterLoop, history
  <2>2. TypeOK' /\ SourceInv' /\ SinkInv' /\ FileInv'
    BY <1>1, <1>6, <2>1, LocalStep DEF EnterLoop, sourceVars, history, TypeOK, SourceInv, SinkInv, FileInv, SinkJoined, Slots
  <2> QED
    BY <2>1, <2>2, LocalStep DEF IInv
<1>7. CASE Poll
  <2>1. UNCHANGED <<wp, rp, slot, published>>
    BY <1>7 DEF Poll, history
  <2>2. TypeOK' /\ SourceInv' /\ FileInv'
    BY <1>1, <1>7, <2>1, LocalStep DEF Poll, sourceVars, history, TypeOK, SourceInv, FileInv, SinkJoined
  <2>3. SinkInv'
    <3>1. rl = rp /\ rp = R /\ rp \in Slots
      BY <1>1, <1>7, NormRange DEF Poll, SinkInv, SinkJoined, TypeOK, R
    <3>2. wp # rl /\ wp >= 1 => wp = W /\ Dist(rp, wp) > 0 /\ Dist(rp, wp) <= Pending
      <4> SUFFICES ASSUME wp # rl, wp >= 1
                   PROVE  wp = W /\ Dist(rp, wp) > 0 /\ Dist(rp, wp) <= Pending
        OBVIOUS
      <4>1. wp = W
        BY <1>1, NormRange DEF TypeOK, W
      <4>2. Dist(rp, wp) \in 0 .. (N - 2) /\ Dist(rp, wp) # 0
        BY <1>2, <3>1, <4>1, DistRange
      <4> QED
        BY <1>2, <3>1, <4>1, <4>2
    <3> QED
      BY <1>1, <1>2, <1>7, <2>1, <3>1, <3>2, LocalStep DEF Poll, SinkInv, SinkJoined, TypeOK
  <2> QED
    BY <2>1, <2>2, <2>3, LocalStep DEF IInv
<1>8. CASE BeginRead
  <2>1. UNCHANGED <<wp, rp, slot, published>>
    BY <1>8 DEF BeginRead, history
  <2>2. TypeOK' /\ SourceInv' /\ SinkInv' /\ FileInv'
    BY <1>1, <1>8, <2>1, LocalStep DEF BeginRead, sourceVars, history, TypeOK, SourceInv, SinkInv, FileInv, SinkJoined
  <2> QED
    BY <2>1, <2>2, LocalStep DEF IInv
<1>9. CASE EndRead
  <2> DEFINE L == Len(published)
             M == Len(out)
  <2>1. UNCHANGED <<wp, rp, slot, published>>
    BY <1>9 DEF EndRead
  <2>2. rl = rp /\ rp = R /\ rp \in Slots /\ rbuf = slot[rl] /\ rw \in Slots
        /\ Dist(rp, rw) > 0 /\ Dist(rp, rw) <= Pending
    BY <1>1, <1>9, NormRange DEF EndRead, SinkInv, SinkJoined, TypeOK, R
  <2>3. Pending >= 1
    BY <1>2, <2>2, DistRange
  <2>4. slot[rl] = published[(L + 1) - Pending]
    <3>1. Dist(R, rl) = 0
      BY <2>2, DistRange
    <3>2. Dist(R, rl) < Pending
      BY <1>2, <2>3, <3>1
    <3>3. slot[rl] = published[(Len(published) + 1) - Dist(rl, W)]
      BY <1>1, <2>2, <3>2 DEF WindowIntact, R, W
    <3> QED
      BY <1>2, <2>2, <3>3
  <2>5. start + M = Consumed /\ L \in Nat /\ M \in Nat /\ start \in Nat
    <3>1. Consumed \in Int
      BY <1>1, <1>2 DEF Consumed, TypeOK
    <3> QED
      BY <1>1, <1>9, <3>1 DEF FileInv, EndRead, SinkJoined, TypeOK
  <2>6. slot[rl] = published[start + M + 1]
    BY <1>2, <2>4, <2>5 DEF Consumed
  <2>7. /\ out' = Append(out, slot[rl])
        /\ out' \in Seq(0 .. MaxFrames) /\ Len(out') = M + 1
        /\ out'[M + 1] = slot[rl]
        /\ \A i \in 1 .. M : out'[i] = out[i]
    BY <1>1, <1>9, <2>2 DEF EndRead, TypeOK
  <2>8. TypeOK' /\ SourceInv' /\ SinkInv'
    BY <1>1, <1>9, <2>1, <2>7, LocalStep DEF EndRead, sourceVars, TypeOK, SourceInv, SinkInv, SinkJoined
  <2>9. FileInv'
    <3>1. start' = start /\ rpc' = "advance" /\ rpc = "copy"
      BY <1>9 DEF EndRead
    <3>2. start' + Len(out') = Consumed' + 1
      BY <2>1, <2>5, <2>7, <3>1, LocalStep
    <3>3. ASSUME NEW i \in 1 .. (M + 1) PROVE out'[i] = published[start + i]
      <4>1. CASE i = M + 1
        <5>1. start + i = start + M + 1
          BY <2>5, <4>1
        <5> QED
          BY <2>6, <2>7, <4>1, <5>1
      <4>2. CASE i \in 1 .. M
        BY <1>1, <2>7, <3>1, <4>2 DEF FileInv, SinkJoined
      <4> QED
        BY <2>5, <4>1, <4>2
    <3> QED
      BY <2>1, <2>7, <3>1, <3>2, <3>3 DEF FileInv
  <2> QED
    BY <2>1, <2>8, <2>9, LocalStep DEF IInv
<1>10. CASE Advance
  <2>1. rl = rp /\ rp = R /\ rp \in Slots /\ rw \in Slots
        /\ Dist(rp, rw) > 0 /\ Dist(rp, rw) <= Pending
    BY <1>1, <1>10, NormRange DEF Advance, SinkInv, SinkJoined, TypeOK, R
  <2>2. Dist(rp, rw) \in 1 .. (N - 2) /\ Pending >= 1 /\ rw # rp /\ W # rp
    BY <1>2, <2>1, DistRange
  <2>3. NextSlot(rp) \in Slots /\ rp' = NextSlot(rp) /\ rl' = NextSlot(rp)
        /\ R' = NextSlot(rp) /\ W' = W
    BY <1>10, <2>1, DistNext, NormRange DEF Advance, R, W, Slots, Norm
  <2>4. Pending' = Pending - 1 /\ Pending' = Dist(NextSlot(rp), W)
    <3>1. Pending' = Dist(R', W')
      BY DEF Pending, R, W
    <3> QED
      BY <1>2, <2>1, <2>2, <2>3, <3>1, DistAdvance
  <2>5. published' = published /\ Len(published) \in Nat /\ slot' = slot
    BY <1>1, <1>10 DEF Advance, TypeOK, history
  <2>6. Consumed' = Consumed + 1
    BY <1>2, <2>4, <2>5 DEF Consumed
  <2>7. TypeOK'
    BY <1>1, <1>10, <2>3 DEF Advance, TypeOK, sourceVars, history, Slots
  <2>8. SourceInv'
    BY <1>1, <1>2, <1>10, <2>3, <2>4 DEF Advance, SourceInv, sourceVars, history, Slots
  <2>9. SinkInv'
    <3>1. Dist(NextSlot(rp), rw) = Dist(rp, rw) - 1
      BY <2>1, <2>2, DistAdvance
    <3>2. NextSlot(rp) # rw => Dist(NextSlot(rp), rw) > 0
      BY <2>1, <2>3, DistRange
    <3>3. rw' = rw
      BY <1>10 DEF Advance
    <3>4. rpc' = "read" => Dist(rp', rw') > 0 /\ Dist(rp', rw') <= Pending'
      BY <1>2, <1>10, <2>1, <2>2, <2>3, <2>4, <3>1, <3>2, <3>3 DEF Advance
    <3> QED
      BY <1>10, <2>1, <2>3, <3>3, <3>4 DEF Advance, SinkInv, SinkJoined, Slots
  <2>10. WindowIntact'
    <3>1. Norm(rp)' = NextSlot(rp) /\ Norm(wp)' = W
      BY <2>3 DEF R, W
    <3>2. Pending' <= Len(published)'
      BY <1>1, <1>2, <2>4, <2>5 DEF WindowIntact
    <3>3. Dist(R, NextSlot(rp)) <= Dist(R, W)
      BY <1>2, <2>1, <2>2, NAssumption DEF Dist, Slots, NextSlot
    <3>4. ASSUME NEW s \in Slots, Dist(NextSlot(rp), s) < Pending'
          PROVE  slot[s] = published[(Len(published) + 1) - Dist(s, W)]
      <4>1. Dist(R, s) < Pending
        BY <1>2, <2>3, <2>4, <3>3, <3>4, WindowInside
      <4> QED
        BY <1>1, <4>1 DEF WindowIntact, R, W
    <3> QED
      BY <2>5, <3>1, <3>2, <3>4 DEF WindowIntact
  <2>11. PublishedInv'
    BY <1>1, <2>5 DEF PublishedInv
  <2>12. FileInv'
    <3>1. Consumed \in Int
      BY <1>2, <2>5 DEF Consumed
    <3> QED
      BY <1>1, <1>10, <2>5, <2>6, <3>1 DEF Advance, FileInv, SinkJoined, history
  <2> QED
    BY <2>7, <2>8, <2>9, <2>10, <2>11, <2>12 DEF IInv
<1>11. CASE CrashSink
  <2>1. UNCHANGED <<wp, rp, slot, published>>
    BY <1>11 DEF CrashSink, history
  <2>2. TypeOK' /\ SourceInv' /\ SinkInv' /\ FileInv'
    BY <1>1, <1>11, <2>1, LocalStep DEF CrashSink, sourceVars, history, TypeOK, SourceInv, SinkInv, FileInv, SinkJoined
  <2> QED
    BY <2>1, <2>2, LocalStep DEF IInv
<1> QED
  BY <1>3, <1>4, <1>5, <1>6, <1>7, <1>8, <1>9, <1>10, <1>11 DEF SinkStep

LEMMA StutterInv == ASSUME IInv, UNCHANGED vars PROVE IInv'
<1>1. UNCHANGED <<wp, rp, slot, published>>
  BY DEF vars, history
<1>2. TypeOK' /\ SourceInv' /\ SinkInv' /\ FileInv'
  BY <1>1, LocalStep DEF IInv, vars, sourceVars, sinkVars, history, TypeOK, SourceInv, SinkInv, FileInv, SinkJoined
<1> QED
  BY <1>1, <1>2, LocalStep DEF IInv

\* The invariant is inductive.
THEOREM Inductive == Spec => []IInv
<1>1. IInv /\ [Next]_vars => IInv'
  BY SourceStepInv, SinkStepInv, StutterInv DEF Next
<1> QED
  BY InitInv, <1>1, PTL DEF Spec

-----------------------------------------------------------------------------
(* What follows from it *)

\* The pointers and program counters stay in range for every ring size.
THEOREM TypeCorrect == Spec => []TypeOK
BY Inductive, PTL DEF IInv

\* No record between the pointers is unset, half written or out of order.
THEOREM WindowCorrect == Spec => []WindowIntact
BY Inductive, PTL DEF IInv

\* The source never writes the record that the sink is copying.
THEOREM NoRace == Spec => []NoDataRace
<1>1. IInv => NoDataRace
  <2> SUFFICES ASSUME IInv, wpc = "fill", rpc \in {"read", "copy"}, wl = rl
               PROVE  FALSE
    BY DEF NoDataRace
  <2>1. wl = wp /\ rp = rl /\ wp \in Slots /\ rp \in Slots /\ rw \in Slots
        /\ Dist(rp, rw) > 0 /\ Dist(rp, rw) <= Pending
    BY DEF IInv, SourceInv, SinkInv, TypeOK
  <2>2. Pending = Dist(rp, wp)
    BY <2>1, NormRange, NAssumption DEF Pending, Norm, Slots
  <2>3. Dist(rp, rw) \in 0 .. (N - 2) /\ Dist(rp, wp) = 0
    BY <2>1, DistRange
  <2> QED
    BY <2>1, <2>2, <2>3, NAssumption
<1> QED
  BY <1>1, Inductive, PTL

\* The sink's file is a contiguous run of the published frames.
THEOREM FileCorrect == Spec => []FileIsPublished
<1>1. IInv => FileIsPublished
  <2> SUFFICES ASSUME IInv, SinkJoined
               PROVE  /\ start + Len(out) <= Len(published)
                      /\ \A i \in 1 .. Len(out) :
                           out[i] = published[start + i] /\ out[i] # Torn
    BY DEF FileIsPublished, SinkJoined
  <2>1. TypeOK /\ SinkInv /\ WindowIntact /\ FileInv /\ PublishedInv
    BY DEF IInv
  <2>2. Len(published) \in Nat /\ Len(out) \in Nat /\ start \in Nat
    BY <2>1 DEF TypeOK
  <2>3. R \in Slots /\ W \in Slots /\ Pending = Dist(R, W) /\ Pending \in 0 .. (N - 2)
    BY <2>1, NormRange, DistRange DEF TypeOK, R, W, Pending
  <2>4. rpc = "advance" => Pending >= 1
    <3> SUFFICES ASSUME rpc = "advance" PROVE Pending >= 1
      OBVIOUS
    <3>1. rp \in Slots /\ rw \in Slots /\ Dist(rp, rw) > 0 /\ Dist(rp, rw) <= Pending
      BY <2>1 DEF SinkInv, TypeOK
    <3>2. Dist(rp, rw) \in 0 .. (N - 2)
      BY <3>1, DistRange
    <3> QED
      BY <2>3, <3>1, <3>2, NAssumption
  <2>5. start + Len(out) <= Len(published)
    BY <2>1, <2>2, <2>3, <2>4, NAssumption DEF FileInv, Consumed
  <2>6. ASSUME NEW i \in 1 .. Len(out)
        PROVE  out[i] = published[start + i] /\ out[i] # Torn
    <3>1. start + i \in 1 .. Len(published)
      BY <2>2, <2>5
    <3> QED
      BY <2>1, <3>1 DEF FileInv, PublishedInv
  <2> QED
    BY <2>5, <2>6
<1> QED
  BY <1>1, Inductive, PTL

\* The source gives a frame up only when all N - 2 usable records are taken.
THEOREM DropCorrect == Spec => DropOnlyWhenFull
<1>1. IInv /\ [Next]_vars =>
        [(wpc = "check" /\ wpc' = "idle") => Pending = N - 2]_vars
  <2> SUFFICES ASSUME IInv, Next, wpc = "check", wpc' = "idle"
               PROVE  Pending = N - 2
    OBVIOUS
  <2>1. CheckFull
    BY DEF Next, SourceStep, SinkStep, StartSource, InitWritePointer, LoadReadPointer, CasReadPointer, EndFrame, Publish, BeginFrame, CrashSource, StartSink, LoadWritePointer, StoreReadPointer, EnterLoop, Poll, BeginRead, EndRead, Advance, CrashSink, sourceVars
  <2>2. wl = wp /\ wp \in Slots /\ rp \in Slots
    BY DEF IInv, SourceInv, TypeOK, Slots
  <2>3. Pending = Dist(rp, wp)
    BY <2>2, NormRange, NAssumption DEF Pending, Norm, Slots
  <2>4. NextSlot(wp) = rp
    BY <2>1, <2>2 DEF CheckFull
  <2> QED
    BY <2>2, <2>3, <2>4, DistNext
<1> QED
  BY <1>1, Inductive, PTL DEF Spec, DropOnlyWhenFull

-----------------------------------------------------------------------------
(* The ring implements the queue *)

\* A frame is in the file before the sink hands its record back.
WroteInv == rpc = "advance" => Len(out) >= 1

LEMMA NextWrote == IInv /\ WroteInv /\ [Next]_vars => WroteInv'
<1> SUFFICES ASSUME IInv, WroteInv, [Next]_vars PROVE WroteInv'
  OBVIOUS
<1>1. out \in Seq(0 .. MaxFrames)
  BY DEF IInv, TypeOK
<1>2. CASE EndRead
  <2> DEFINE e == IF slot[rl] = rbuf THEN rbuf ELSE Torn
  <2>1. out' = Append(out, e) /\ e \in 0 .. MaxFrames
    BY <1>2, MaxFramesAssumption DEF EndRead, IInv, TypeOK, Torn
  <2> HIDE DEF e
  <2>2. Len(out') = Len(out) + 1 /\ Len(out) \in Nat
    BY <1>1, <2>1, AppendProperties, LenProperties
  <2> QED
    BY <2>2 DEF WroteInv
<1>3. CASE rpc' # "advance"
  BY <1>3 DEF WroteInv
<1>4. CASE UNCHANGED <<rpc, out>>
  BY <1>4 DEF WroteInv
<1>5. EndRead \/ rpc' # "advance" \/ UNCHANGED <<rpc, out>>
  BY DEF Next, SourceStep, SinkStep, StartSource, InitWritePointer, LoadReadPointer,
         CasReadPointer, EndFrame, CheckFull, Publish, BeginFrame, CrashSource, StartSink,
         LoadWritePointer, StoreReadPointer, EnterLoop, Poll, BeginRead, Advance, CrashSink,
         vars, sourceVars, sinkVars, history
<1> QED
  BY <1>2, <1>3, <1>4, <1>5

\* Sequences: the end of a longer one, its first element, and a longer
\* beginning.
LEMMA SubSeqAt ==
  ASSUME NEW S, NEW s \in Seq(S), NEW m \in Nat, NEW n \in Nat, m <= n, n <= Len(s)
  PROVE  /\ SubSeq(s, m + 1, n) \in Seq(S) /\ Len(SubSeq(s, m + 1, n)) = n - m
         /\ \A i \in 1 .. (n - m) : SubSeq(s, m + 1, n)[i] = s[m + i]
<1>1. PICK v : v = SubSeq(s, m + 1, n)
  OBVIOUS
<1>2. \A i \in m + 1 .. n : s[i] \in S
  BY LenProperties, ElementOfSeq
<1>3. /\ v \in Seq(S) /\ Len(v) = IF m + 1 <= n THEN n - (m + 1) + 1 ELSE 0
      /\ \A i \in 1 .. n - (m + 1) + 1 : v[i] = s[(m + 1) + i - 1]
  BY <1>1, <1>2, SubSeqProperties
<1>4. Len(v) = n - m
  BY <1>3
<1>5. ASSUME NEW i \in 1 .. (n - m) PROVE v[i] = s[m + i]
  <2>1. i \in 1 .. n - (m + 1) + 1 /\ (m + 1) + i - 1 = m + i
    OBVIOUS
  <2> QED
    BY <1>3, <2>1
<1> QED
  BY <1>1, <1>3, <1>4, <1>5

LEMMA SubSeqAppend ==
  ASSUME NEW S, NEW s \in Seq(S), NEW e \in S, NEW m \in 0 .. Len(s)
  PROVE  SubSeq(Append(s, e), m + 1, Len(s) + 1) = Append(SubSeq(s, m + 1, Len(s)), e)
<1> DEFINE L == Len(s)
           t == Append(s, e)
           a == SubSeq(t, m + 1, L + 1)
           u == SubSeq(s, m + 1, L)
           b == Append(u, e)
<1>1. L \in Nat /\ t \in Seq(S) /\ Len(t) = L + 1 /\ t[L + 1] = e
      /\ \A i \in 1 .. L : t[i] = s[i] /\ s[i] \in S
  BY AppendProperties, LenProperties, ElementOfSeq
<1>2. m \in 0 .. L /\ s \in Seq(S) /\ L = Len(s)
  OBVIOUS
<1> HIDE DEF L, t
<1>3. a \in Seq(S) /\ Len(a) = (L + 1) - m
      /\ \A i \in 1 .. ((L + 1) - m) : a[i] = t[m + i]
  <2>1. m \in Nat /\ L + 1 \in Nat /\ m <= L + 1 /\ L + 1 <= Len(t)
    BY <1>1, <1>2
  <2> QED
    BY <1>1, <2>1, SubSeqAt
<1>4. u \in Seq(S) /\ Len(u) = L - m /\ \A i \in 1 .. (L - m) : u[i] = s[m + i]
  <2>1. m \in Nat /\ L \in Nat /\ m <= L /\ L <= Len(s)
    BY <1>1, <1>2
  <2> QED
    BY <1>2, <2>1, SubSeqAt
<1> HIDE DEF a, u
<1>5. b \in Seq(S) /\ Len(b) = (L - m) + 1 /\ b[(L - m) + 1] = e
      /\ \A i \in 1 .. (L - m) : b[i] = u[i]
  BY <1>4, AppendProperties
<1> HIDE DEF b
<1>6. ASSUME NEW i \in 1 .. Len(a) PROVE a[i] = b[i]
  <2>1. CASE i = (L - m) + 1
    <3>1. a[i] = t[m + i] /\ m + i = L + 1
      BY <1>1, <1>2, <1>3, <2>1
    <3> QED
      BY <1>1, <1>5, <2>1, <3>1
  <2>2. CASE i # (L - m) + 1
    <3>1. i \in 1 .. ((L + 1) - m)
      BY <1>3, <1>6
    <3>2. a[i] = t[m + i]
      BY <1>3, <3>1
    <3>3. i \in 1 .. (L - m) /\ m + i \in 1 .. L
      BY <1>1, <1>2, <2>2, <3>1
    <3> QED
      BY <1>1, <1>4, <1>5, <3>2, <3>3
  <2> QED
    BY <2>1, <2>2
<1>7. Len(a) = Len(b)
  BY <1>1, <1>2, <1>3, <1>5
<1>8. a = b
  BY <1>3, <1>5, <1>6, <1>7, SeqEqual
<1> QED
  BY <1>8 DEF a, b, t, u, L

LEMMA SubSeqGrow ==
  ASSUME NEW S, NEW s \in Seq(S), NEW m \in 0 .. Len(s), m < Len(s), NEW a \in 0 .. m
  PROVE  SubSeq(s, a + 1, m + 1) = Append(SubSeq(s, a + 1, m), s[m + 1])
<1>1. Len(s) \in Nat /\ a + 1 \in 1 .. Len(s) /\ m + 1 \in (a + 1) .. Len(s)
      /\ (m + 1) - 1 = m /\ m + 1 \in 1 .. Len(s)
  BY LenProperties
<1>2. SubSeq(s, a + 1, m + 1) = SubSeq(s, a + 1, m) \o <<s[m + 1]>>
  <2>1. SubSeq(s, a + 1, m + 1) = SubSeq(s, a + 1, (m + 1) - 1) \o <<s[m + 1]>>
    BY <1>1, SubSeqRecursiveSecond
  <2> QED
    BY <1>1, <2>1
<1>3. SubSeq(s, a + 1, m) \in Seq(S) /\ s[m + 1] \in S
  <2>1. \A i \in a + 1 .. m : s[i] \in S
    BY <1>1, ElementOfSeq
  <2> QED
    BY <1>1, <2>1, SubSeqProperties, ElementOfSeq
<1> QED
  BY <1>2, <1>3, AppendIsConcat

LEMMA SubSeqSkip ==
  ASSUME NEW S, NEW s \in Seq(S), NEW m \in 0 .. Len(s), NEW k \in 0 .. (Len(s) - m)
  PROVE  SubSeq(s, (m + k) + 1, Len(s))
           = SubSeq(SubSeq(s, m + 1, Len(s)), k + 1, Len(s) - m)
<1>1. Len(s) \in Nat
  BY LenProperties
<1>2. CASE k < Len(s) - m
  <2>1. /\ m + 1 \in 1 .. Len(s) /\ Len(s) \in 1 .. Len(s)
        /\ k + 1 \in 1 .. Len(s) - (m + 1) + 1
        /\ Len(s) - m \in 1 .. Len(s) - (m + 1) + 1
    BY <1>1, <1>2
  <2>2. SubSeq(SubSeq(s, m + 1, Len(s)), k + 1, Len(s) - m)
          = SubSeq(s, (m + 1) + (k + 1) - 1, (m + 1) + (Len(s) - m) - 1)
    BY <2>1, SubSeqOfSubSeq
  <2>3. (m + 1) + (k + 1) - 1 = (m + k) + 1 /\ (m + 1) + (Len(s) - m) - 1 = Len(s)
    BY <1>1
  <2> QED
    BY <2>2, <2>3
<1>3. CASE k = Len(s) - m
  <2>1. /\ (m + k) + 1 \in Int /\ Len(s) \in Int /\ k + 1 \in Int /\ Len(s) - m \in Int
        /\ Len(s) < (m + k) + 1 /\ Len(s) - m < k + 1
    BY <1>1, <1>3
  <2> QED
    BY <2>1, SubSeqEmpty
<1> QED
  BY <1>1, <1>2, <1>3

\* The queue of the refinement, and its file.
Q == SubSeq(published, Consumed + 1, Len(published))
F == IF SinkJoined THEN SubSeq(published, start + 1, Consumed) ELSE <<>>

LEMMA QueueFacts ==
  ASSUME IInv, WroteInv
  PROVE  /\ published \in Seq(0 .. MaxFrames) /\ Len(published) \in Nat
         /\ Consumed \in 0 .. Len(published) /\ Pending = Len(published) - Consumed
         /\ Pending \in 0 .. (N - 2) /\ R \in Slots /\ W \in Slots /\ Pending = Dist(R, W)
         /\ Q \in Seq(0 .. MaxFrames) /\ Len(Q) = Pending
         /\ SinkJoined => start \in 0 .. Consumed
<1>1. TypeOK /\ WindowIntact /\ FileInv
  BY DEF IInv
<1>2. /\ published \in Seq(0 .. MaxFrames) /\ Len(published) \in Nat
      /\ start \in Nat /\ Len(out) \in Nat
  BY <1>1 DEF TypeOK
<1>3. R \in Slots /\ W \in Slots /\ Pending = Dist(R, W) /\ Pending \in 0 .. (N - 2)
  BY <1>1, NormRange, DistRange DEF TypeOK, R, W, Pending
<1>4. Consumed \in 0 .. Len(published) /\ Pending = Len(published) - Consumed
  BY <1>1, <1>2, <1>3, NAssumption DEF WindowIntact, Consumed
<1>5. Q \in Seq(0 .. MaxFrames) /\ Len(Q) = Pending
  <2>1. Consumed \in Nat /\ Consumed <= Len(published) /\ Len(published) <= Len(published)
    BY <1>2, <1>4
  <2>2. published \in Seq(0 .. MaxFrames) /\ Len(published) \in Nat
    BY <1>2
  <2>3. /\ SubSeq(published, Consumed + 1, Len(published)) \in Seq(0 .. MaxFrames)
        /\ Len(SubSeq(published, Consumed + 1, Len(published))) = Len(published) - Consumed
    BY <2>1, <2>2, SubSeqAt
  <2> QED
    BY <1>4, <2>3 DEF Q
<1>6. SinkJoined => start \in 0 .. Consumed
  BY <1>1, <1>2, <1>4 DEF FileInv, WroteInv
<1> QED
  BY <1>2, <1>3, <1>4, <1>5, <1>6

\* A step that moves neither pointer and keeps the sink is none of the queue.
LEMMA QuietStep ==
  ASSUME UNCHANGED <<published, Consumed, start, SinkJoined>>
  PROVE  UNCHANGED <<Q, SinkJoined, F>>
BY DEF Q, F

LEMMA NextQueue ==
  ASSUME IInv, WroteInv, IInv', WroteInv', [Next]_vars
  PROVE  \/ UNCHANGED <<Q, SinkJoined, F>>
         \/ /\ \E f \in 1 .. MaxFrames : Len(Q) < N - 2 /\ Q' = Append(Q, f)
            /\ UNCHANGED <<SinkJoined, F>>
         \/ /\ SinkJoined /\ Q # <<>> /\ F' = Append(F, Head(Q)) /\ Q' = Tail(Q)
            /\ UNCHANGED SinkJoined
         \/ SinkJoined /\ ~SinkJoined' /\ F' = <<>> /\ UNCHANGED Q
         \/ /\ ~SinkJoined /\ SinkJoined' /\ UNCHANGED F
            /\ \E k \in 0 .. Len(Q) : Q' = SubSeq(Q, k + 1, Len(Q))
<1> USE NAssumption, MaxFramesAssumption
<1> DEFINE L == Len(published)
<1>1. TypeOK /\ SourceInv /\ SinkInv /\ WindowIntact /\ FileInv
  BY DEF IInv
<1>2. /\ published \in Seq(0 .. MaxFrames) /\ L \in Nat /\ Consumed \in 0 .. L
      /\ Pending = L - Consumed /\ Pending \in 0 .. (N - 2)
      /\ R \in Slots /\ W \in Slots /\ Pending = Dist(R, W)
      /\ Q \in Seq(0 .. MaxFrames) /\ Len(Q) = Pending
      /\ SinkJoined => start \in 0 .. Consumed
  BY QueueFacts
<1>3. ASSUME UNCHANGED <<wp, rp, published>> PROVE UNCHANGED <<published, Consumed>>
  BY <1>3 DEF Consumed, Pending
<1>4. CASE StartSource \/ LoadReadPointer \/ BeginFrame \/ EndFrame \/ CheckFull \/ CrashSource
  <2>1. UNCHANGED <<wp, rp, published, start, SinkJoined>>
    BY <1>4 DEF StartSource, LoadReadPointer, BeginFrame, EndFrame, CheckFull, CrashSource,
                sinkVars, history, SinkJoined
  <2> QED
    BY <1>3, <2>1, QuietStep
<1>5. CASE StartSink \/ LoadWritePointer \/ EnterLoop \/ Poll \/ BeginRead \/ EndRead
           \/ UNCHANGED vars
  <2>1. UNCHANGED <<wp, rp, published, start, SinkJoined>>
    BY <1>5 DEF StartSink, LoadWritePointer, EnterLoop, Poll, BeginRead, EndRead,
                sinkVars, history, SinkJoined, vars
  <2> QED
    BY <1>3, <2>1, QuietStep
<1>6. CASE InitWritePointer
  <2>1. W' = W /\ R' = R /\ UNCHANGED <<published, start, SinkJoined>>
    BY <1>1, <1>6, NormRange DEF InitWritePointer, TypeOK, R, W, history, sinkVars, SinkJoined
  <2>2. Consumed' = Consumed
    BY <2>1 DEF Consumed, Pending, R, W
  <2> QED
    BY <2>1, <2>2, QuietStep
<1>7. CASE CasReadPointer
  <2>1. W' = W /\ R' = R /\ UNCHANGED <<published, start, SinkJoined>>
    BY <1>1, <1>7 DEF CasReadPointer, SourceInv, R, W, Norm, history, sinkVars, SinkJoined
  <2>2. Consumed' = Consumed
    BY <2>1 DEF Consumed, Pending, R, W
  <2> QED
    BY <2>1, <2>2, QuietStep
<1>8. CASE Publish
  <2> DEFINE f == slot[wl]
  <2>1. wp = W /\ rp = R /\ wl = wp /\ f \in 1 .. MaxFrames
    BY <1>1, <1>8, NormRange DEF Publish, SourceInv, TypeOK, R, W, Slots
  <2>2. Pending < N - 2 /\ NextSlot(W) # R /\ NextSlot(W) \in Slots
    BY <1>1, <1>2, <1>8, DistNext DEF Publish, SourceInv
  <2>3. R' = R /\ W' = NextSlot(W)
    BY <1>8, <2>1, <2>2, NormRange DEF Publish, R, W, Slots, Norm
  <2>4. Pending' = Pending + 1
    <3>1. Pending' = Dist(R', W')
      BY DEF Pending, R, W
    <3> QED
      BY <1>2, <2>2, <2>3, <3>1, DistNext
  <2>5. published' = Append(published, f) /\ UNCHANGED <<start, SinkJoined>>
    BY <1>8 DEF Publish, sinkVars, SinkJoined
  <2> HIDE DEF f
  <2>6. f \in 0 .. MaxFrames
    BY <2>1
  <2>7. Len(published') = L + 1 /\ \A i \in 1 .. L : published'[i] = published[i]
    BY <1>2, <2>5, <2>6, AppendProperties
  <2>8. Consumed' = Consumed
    BY <1>2, <2>4, <2>7 DEF Consumed
  <2>9. Q' = Append(Q, f)
    <3>1. SubSeq(Append(published, f), Consumed + 1, L + 1)
            = Append(SubSeq(published, Consumed + 1, L), f)
      BY <1>2, <2>6, SubSeqAppend
    <3> QED
      BY <2>5, <2>7, <2>8, <3>1 DEF Q
  <2>10. F' = F
    <3>1. CASE SinkJoined
      <4>1. \A m \in 0 .. L, a \in 0 .. L : a <= m =>
              SubSeq(published', a + 1, m) = SubSeq(published, a + 1, m)
        <5> SUFFICES ASSUME NEW m \in 0 .. L, NEW a \in 0 .. L, a <= m
                     PROVE  SubSeq(published', a + 1, m) = SubSeq(published, a + 1, m)
          OBVIOUS
        <5>1. published' \in Seq(0 .. MaxFrames) /\ published \in Seq(0 .. MaxFrames)
          BY <1>2, <2>5, <2>6, AppendProperties
        <5>2. PICK u : u = SubSeq(published, a + 1, m)
          OBVIOUS
        <5>3. PICK v : v = SubSeq(published', a + 1, m)
          OBVIOUS
        <5>4. a \in Nat /\ m \in Nat /\ m <= Len(published) /\ m <= Len(published')
          BY <1>2, <2>7
        <5>5. u \in Seq(0 .. MaxFrames) /\ Len(u) = m - a
              /\ \A i \in 1 .. (m - a) : u[i] = published[a + i]
          BY <5>1, <5>2, <5>4, SubSeqAt
        <5>6. v \in Seq(0 .. MaxFrames) /\ Len(v) = m - a
              /\ \A i \in 1 .. (m - a) : v[i] = published'[a + i]
          BY <5>1, <5>3, <5>4, SubSeqAt
        <5>7. \A i \in 1 .. (m - a) : published'[a + i] = published[a + i]
          <6>1. \A i \in 1 .. (m - a) : a + i \in 1 .. L
            BY <1>2, <5>4
          <6> QED
            BY <2>7, <6>1
        <5>8. u = v
          BY <5>5, <5>6, <5>7, SeqEqual
        <5> QED
          BY <5>2, <5>3, <5>8
      <4>2. start \in 0 .. L /\ Consumed \in 0 .. L /\ start <= Consumed
        BY <1>2, <3>1
      <4>3. SubSeq(published', start + 1, Consumed) = SubSeq(published, start + 1, Consumed)
        BY <4>1, <4>2
      <4> QED
        BY <2>5, <2>8, <4>3 DEF F
    <3>2. CASE ~SinkJoined
      BY <2>5, <3>2 DEF F
    <3> QED
      BY <3>1, <3>2
  <2> QED
    BY <1>2, <2>1, <2>2, <2>5, <2>9, <2>10
<1>9. CASE StoreReadPointer
  <2> DEFINE k == Dist(R, rw)
  <2>1. rw \in Slots /\ k <= Pending /\ k \in 0 .. (N - 2)
    BY <1>1, <1>2, <1>9, DistRange DEF StoreReadPointer, SinkInv
  <2>2. rp' = rw /\ R' = rw /\ W' = W
    BY <1>9, <2>1, NormRange DEF StoreReadPointer, R, W, Slots, Norm
  <2>3. Pending' = Pending - k
    <3>1. Pending' = Dist(R', W')
      BY DEF Pending, R, W
    <3> QED
      BY <1>2, <2>1, <2>2, <3>1, DistSplit
  <2>4. published' = published /\ ~SinkJoined /\ SinkJoined' /\ start' = Consumed + k
    BY <1>9 DEF StoreReadPointer, SinkJoined, R
  <2> HIDE DEF k
  <2>5. Consumed' = Consumed + k
    BY <1>2, <2>1, <2>3, <2>4 DEF Consumed
  <2>6. k \in 0 .. (L - Consumed) /\ k \in 0 .. Len(Q)
    BY <1>2, <2>1
  <2>7. Q' = SubSeq(Q, k + 1, Len(Q))
    <3>1. SubSeq(published, (Consumed + k) + 1, L)
            = SubSeq(SubSeq(published, Consumed + 1, L), k + 1, L - Consumed)
      BY <1>2, <2>6, SubSeqSkip
    <3> QED
      BY <1>2, <2>4, <2>5, <3>1 DEF Q
  <2>8. F' = F
    <3>1. SubSeq(published, (Consumed + k) + 1, Consumed + k) = <<>>
      <4>1. (Consumed + k) + 1 \in Int /\ Consumed + k \in Int
            /\ Consumed + k < (Consumed + k) + 1
        BY <1>2, <2>6
      <4> QED
        BY <4>1, SubSeqEmpty
    <3> QED
      BY <2>4, <2>5, <3>1 DEF F
  <2> QED
    BY <2>4, <2>6, <2>7, <2>8
<1>10. CASE Advance
  <2>1. rl = rp /\ rp = R /\ rp \in Slots /\ rw \in Slots
        /\ Dist(rp, rw) > 0 /\ Dist(rp, rw) <= Pending
    BY <1>1, <1>10, NormRange DEF Advance, SinkInv, SinkJoined, TypeOK, R
  <2>2. Dist(rp, rw) \in 1 .. (N - 2) /\ Pending >= 1 /\ W # rp
    <3>1. Dist(rp, rw) \in 0 .. (N - 2) /\ Pending \in 0 .. (N - 2)
      BY <1>2, <2>1, DistRange
    <3>2. Dist(rp, rp) = 0 /\ Pending = Dist(rp, W)
      BY <1>2, <2>1, DistRange
    <3> QED
      BY <2>1, <3>1, <3>2
  <2>3. NextSlot(rp) \in Slots /\ R' = NextSlot(rp) /\ W' = W
    BY <1>10, <2>1, DistNext, NormRange DEF Advance, R, W, Slots, Norm
  <2>4. Pending' = Pending - 1
    <3>1. Pending' = Dist(R', W')
      BY DEF Pending, R, W
    <3> QED
      BY <1>2, <2>1, <2>2, <2>3, <3>1, DistAdvance
  <2>5. published' = published /\ start' = start /\ SinkJoined /\ SinkJoined'
    BY <1>10 DEF Advance, history, SinkJoined
  <2>6. Consumed' = Consumed + 1
    BY <1>2, <2>4, <2>5 DEF Consumed
  <2>7. Consumed + 1 \in 1 .. L /\ L \in (Consumed + 1) .. L /\ Consumed < L
        /\ Consumed \in 0 .. L /\ start \in 0 .. Consumed
    BY <1>2, <2>2, <2>5
  <2>8. Head(Q) = published[Consumed + 1]
        /\ Tail(Q) = SubSeq(published, (Consumed + 1) + 1, L)
    BY <1>2, <2>7, HeadTailOfSubSeq DEF Q
  <2>9. Q' = Tail(Q)
    BY <2>5, <2>6, <2>8 DEF Q
  <2>10. F' = Append(F, Head(Q))
    <3>1. SubSeq(published, start + 1, Consumed + 1)
            = Append(SubSeq(published, start + 1, Consumed), published[Consumed + 1])
      BY <1>2, <2>7, SubSeqGrow
    <3> QED
      BY <2>5, <2>6, <2>8, <3>1 DEF F
  <2>11. Q # <<>>
    BY <1>2, <2>2, EmptySeq
  <2> QED
    BY <2>5, <2>9, <2>10, <2>11
<1>11. CASE CrashSink
  <2>1. UNCHANGED <<wp, rp, published, start>> /\ ~SinkJoined'
    BY <1>11 DEF CrashSink, sourceVars, history, SinkJoined
  <2>2. Q' = Q
    BY <1>3, <2>1 DEF Q
  <2>3. F' = <<>>
    BY <2>1 DEF F
  <2>4. CASE SinkJoined
    BY <2>1, <2>2, <2>3, <2>4
  <2>5. CASE ~SinkJoined
    <3>1. F = <<>> /\ SinkJoined' = SinkJoined
      BY <2>1, <2>5 DEF F, SinkJoined
    <3> QED
      BY <2>2, <2>3, <3>1
  <2> QED
    BY <2>4, <2>5
<1> QED
  BY <1>4, <1>5, <1>6, <1>7, <1>8, <1>9, <1>10, <1>11 DEF Next, SourceStep, SinkStep

\* The ring with its two processes, however they interleave, die and come
\* back, is a bounded first-in first-out queue that loses only new frames.
THEOREM Refinement == Spec => QueueSpec
<1>1. Init => WroteInv
  BY DEF Init, WroteInv
<1>2. Init => Queue!Init
  <2> SUFFICES ASSUME Init PROVE Queue!Init
    OBVIOUS
  <2>1. Consumed = 0
    BY NAssumption DEF Init, Consumed, Pending, Norm, Dist
  <2>2. SubSeq(<<>>, 0 + 1, 0) = <<>>
    BY SubSeqEmpty
  <2>3. SubSeq(published, Consumed + 1, Len(published)) = <<>>
    BY <2>1, <2>2 DEF Init
  <2>4. SinkJoined = FALSE
    BY DEF Init, SinkJoined
  <2> QED
    BY <2>3, <2>4 DEF Queue!Init
<1>3. IInv /\ WroteInv /\ IInv' /\ WroteInv' /\ [Next]_vars => [Queue!Next]_(Queue!vars)
  <2> SUFFICES ASSUME IInv, WroteInv, IInv', WroteInv', [Next]_vars
               PROVE  [Queue!Next]_(Queue!vars)
    OBVIOUS
  <2>1. CASE UNCHANGED <<Q, SinkJoined, F>>
    BY <2>1 DEF Queue!vars, Q, F
  <2>2. CASE /\ \E f \in 1 .. MaxFrames : Len(Q) < N - 2 /\ Q' = Append(Q, f)
             /\ UNCHANGED <<SinkJoined, F>>
    BY <2>2 DEF Queue!Next, Queue!Put, Q, F
  <2>3. CASE /\ SinkJoined /\ Q # <<>> /\ F' = Append(F, Head(Q)) /\ Q' = Tail(Q)
             /\ UNCHANGED SinkJoined
    BY <2>3 DEF Queue!Next, Queue!Get, Q, F
  <2>4. CASE SinkJoined /\ ~SinkJoined' /\ F' = <<>> /\ UNCHANGED Q
    BY <2>4 DEF Queue!Next, Queue!Leave, Q, F, SinkJoined
  <2>5. CASE /\ ~SinkJoined /\ SinkJoined' /\ UNCHANGED F
             /\ \E k \in 0 .. Len(Q) : Q' = SubSeq(Q, k + 1, Len(Q))
    BY <2>5 DEF Queue!Next, Queue!Join, Q, F, SinkJoined
  <2> QED
    BY <2>1, <2>2, <2>3, <2>4, <2>5, NextQueue
<1> QED
  BY <1>1, <1>2, <1>3, Inductive, NextWrote, PTL DEF Spec, QueueSpec, Queue!Spec

-----------------------------------------------------------------------------
(* The framing.  As long as no scan found the frame at the front of the    *)
(* buffer incomplete, the buffer begins where the last frame taken ended.  *)

StreamByte == {b \in Frames \X (1 .. (Overhead + MaxLen)) : b[2] <= Size(b[1])}

FramingTypes ==
  /\ lens \in [Frames -> 0 .. MaxLen]
  /\ sent \in 0 .. Total
  /\ buf \in [0 .. (BufLen - 1) -> StreamByte \cup {Junk}]
  /\ bufpos \in 0 .. (Overhead + MaxLen - 1)
  /\ nr \in 0 .. BufLen /\ cpos \in Nat
  /\ pc \in {"read", "scan"} /\ split \in BOOLEAN
  /\ pc = "scan" => cpos < nr

\* What was taken are frames, whole and in order.
Taken ==
  /\ Len(decoded) \in 0 .. NumFrames
  /\ decoded = [f \in 1 .. Len(decoded) |-> Bytes(f)]

\* The buffer from lo to hi holds what was read after those frames.
Holds(lo, hi) ==
  /\ Offset[Len(decoded) + 1] + (hi - lo) = sent
  /\ \A i \in lo .. (hi - 1) :
       buf[i] = ByteAt(Offset[Len(decoded) + 1] + (i - lo) + 1)

InStep ==
  ~split =>
    /\ Taken
    /\ pc = "read" => /\ Holds(0, bufpos)
                      /\ Len(decoded) < NumFrames => bufpos < Size(Len(decoded) + 1)
    /\ pc = "scan" => Holds(cpos, nr)

FramingInv == FramingTypes /\ InStep

\* Every set of natural numbers has a least element.
LEMMA LeastNat ==
  ASSUME NEW T \in SUBSET Nat, T # {}
  PROVE  \E x \in T : \A y \in T : x <= y
<1> DEFINE L == OpToRel(<, Nat)
<1>1. IsWellFoundedOn(L, Nat) BY NatLessThanWellFounded, Zenon
<1>2. \A x, y \in Nat : y < x => <<y, x>> \in L BY DEF OpToRel
<1> HIDE DEF L
<1>3. PICK x \in T : \A y \in T : ~(<<y, x>> \in L) BY <1>1, WFMin, Zenon
<1>4. ASSUME NEW y \in T PROVE x <= y
  <2>1. x \in Nat /\ y \in Nat /\ ~(y < x) BY <1>2, <1>3
  <2> QED BY <2>1
<1> QED BY <1>4, Zenon

LEMMA SizeRange ==
  ASSUME lens \in [Frames -> 0 .. MaxLen], NEW f \in Frames
  PROVE  Size(f) \in Overhead .. (Overhead + MaxLen) /\ Size(f) = Overhead + lens[f]
BY SizesAssumption DEF Size, Overhead

\* The recursion that says where frames begin has a solution.
LEMMA OffsetLemma ==
  ASSUME lens \in [Frames -> 0 .. MaxLen]
  PROVE  /\ Offset \in [1 .. (NumFrames + 1) -> Nat]
         /\ Offset[1] = 0
         /\ \A f \in Frames : Offset[f + 1] = Offset[f] + Size(f)
<1> DEFINE Places == 1 .. (NumFrames + 1)
           Sums(n, g) == /\ g \in [1 .. n -> Nat]
                         /\ \A f \in 1 .. n :
                              g[f] = IF f = 1 THEN 0 ELSE g[f - 1] + Size(f - 1)
           Bad == {n \in Places : ~\E g : Sums(n, g)}
<1>1. Places \in SUBSET Nat /\ NumFrames + 1 \in Places /\ 1 \in Places
  BY SizesAssumption
<1>2. \A f \in Frames : Size(f) \in Nat
  <2>1. \A f \in Frames : Size(f) \in Overhead .. (Overhead + MaxLen) BY SizeRange
  <2> QED BY <2>1, SizesAssumption DEF Overhead
<1>3. Bad = {}
  <2> SUFFICES ASSUME Bad # {} PROVE FALSE OBVIOUS
  <2>1. PICK n \in Bad : \A m \in Bad : n <= m BY <1>1, LeastNat
  <2>2. n \in Places /\ n \in Nat BY <1>1, <2>1
  <2>3. CASE n = 1
    <3> DEFINE g == [f \in 1 .. 1 |-> 0]
    <3>1. Sums(1, g) OBVIOUS
    <3> QED BY <2>1, <2>3, <3>1
  <2>4. CASE n # 1
    <3>1. n - 1 \in Places /\ n - 1 \in Frames /\ ~(n <= n - 1)
      BY <2>2, <2>4, SizesAssumption DEF Frames
    <3>2. PICK g : Sums(n - 1, g) BY <2>1, <3>1
    <3> DEFINE h == [f \in 1 .. n |-> IF f = n THEN g[n - 1] + Size(n - 1) ELSE g[f]]
    <3>3. g[n - 1] \in Nat /\ Size(n - 1) \in Nat
      <4>1. n - 1 \in 1 .. (n - 1) BY <2>2, <2>4
      <4> QED BY <1>2, <3>1, <3>2, <4>1
    <3>4. \A f \in 1 .. n : f # n => f \in 1 .. (n - 1) BY <2>2
    <3>5. h \in [1 .. n -> Nat] BY <3>2, <3>3, <3>4
    <3>6. ASSUME NEW f \in 1 .. n
          PROVE  h[f] = IF f = 1 THEN 0 ELSE h[f - 1] + Size(f - 1)
      <4>1. CASE f = n
        <5>1. n - 1 \in 1 .. n /\ n - 1 # n BY <2>2, <2>4
        <5> QED BY <2>4, <4>1, <5>1
      <4>2. CASE f # n
        <5>1. f \in 1 .. (n - 1) BY <3>4, <4>2
        <5>2. f # 1 => f - 1 \in 1 .. n /\ f - 1 # n BY <2>2, <5>1
        <5> QED BY <3>2, <4>2, <5>1, <5>2
      <4> QED BY <4>1, <4>2
    <3>7. Sums(n, h) BY <3>5, <3>6
    <3> QED BY <2>1, <3>7
  <2> QED BY <2>3, <2>4
<1>4. PICK g : Sums(NumFrames + 1, g) BY <1>1, <1>3
<1>5. g = [f \in Places |-> IF f = 1 THEN 0 ELSE g[f - 1] + Size(f - 1)] BY <1>4
<1>6. Offset = [f \in Places |-> IF f = 1 THEN 0 ELSE Offset[f - 1] + Size(f - 1)]
  BY <1>5 DEF Offset
<1>7. \A f \in Frames : f + 1 \in Places /\ f + 1 # 1 /\ (f + 1) - 1 = f /\ f \in Places
  BY SizesAssumption DEF Frames
<1>8. Offset[1] = 0 /\ \A f \in Frames : Offset[f + 1] = Offset[f] + Size(f)
  BY <1>1, <1>6, <1>7
<1>9. \A f \in Places : Offset[f] \in Nat
  <2> DEFINE Odd == {f \in Places : Offset[f] \notin Nat}
  <2> SUFFICES ASSUME Odd # {} PROVE FALSE OBVIOUS
  <2>1. PICK n \in Odd : \A m \in Odd : n <= m BY <1>1, LeastNat
  <2>2. n \in Places /\ n \in Nat /\ n # 1 /\ Offset[n] \notin Nat BY <1>1, <1>8, <2>1
  <2>3. n - 1 \in Frames /\ n - 1 \in Places /\ ~(n <= n - 1) /\ (n - 1) + 1 = n
    BY <2>2, SizesAssumption DEF Frames
  <2>4. Offset[n - 1] \in Nat BY <2>1, <2>3
  <2> QED BY <1>2, <1>8, <2>2, <2>3, <2>4
<1> QED BY <1>6, <1>8, <1>9

LEMMA SameStream ==
  ASSUME UNCHANGED stream
  PROVE  /\ Offset' = Offset /\ Total' = Total /\ StreamByte' = StreamByte
         /\ \A f : Size(f)' = Size(f)
         /\ \A f : Bytes(f)' = Bytes(f)
         /\ \A i : ByteAt(i)' = ByteAt(i)
<1>1. lens' = lens BY DEF stream
<1>2. \A f : Size(f)' = Size(f) BY <1>1 DEF Size
<1>3. Offset' = Offset BY <1>1 DEF Offset, Size
<1>4. Total' = Total BY <1>3 DEF Total
<1>5. StreamByte' = StreamByte BY <1>1 DEF StreamByte, Size
<1>6. \A f : Bytes(f)' = Bytes(f) BY <1>1 DEF Bytes, Size
<1>7. \A i : ByteAt(i)' = ByteAt(i) BY <1>3 DEF ByteAt
<1> QED BY <1>2, <1>3, <1>4, <1>5, <1>6, <1>7

\* Frames follow one another.
LEMMA OffsetGrows ==
  ASSUME lens \in [Frames -> 0 .. MaxLen],
         NEW f \in 1 .. (NumFrames + 1), NEW g \in 1 .. (NumFrames + 1), f < g
  PROVE  Offset[f] < Offset[g]
<1> DEFINE Places == 1 .. (NumFrames + 1)
           Low == {h \in Places : f < h /\ ~(Offset[f] < Offset[h])}
<1>1. Low = {}
  <2> SUFFICES ASSUME Low # {} PROVE FALSE OBVIOUS
  <2>1. Low \in SUBSET Nat BY SizesAssumption
  <2>2. PICK h \in Low : \A k \in Low : h <= k BY <2>1, LeastNat
  <2>3. /\ h - 1 \in Frames /\ h - 1 \in Places /\ f <= h - 1 /\ ~(h <= h - 1)
        /\ (h - 1) + 1 = h
    BY <2>2, SizesAssumption DEF Frames
  <2>4. Offset[h] = Offset[h - 1] + Size(h - 1) BY <2>3, OffsetLemma
  <2>5. Size(h - 1) \in Overhead .. (Overhead + MaxLen) BY <2>3, SizeRange
  <2>6. Offset[f] <= Offset[h - 1]
    <3>1. CASE f = h - 1
      <4>1. Offset[f] \in Nat BY OffsetLemma
      <4> QED BY <3>1, <4>1
    <3>2. CASE f # h - 1
      <4>1. h - 1 \notin Low BY <2>2, <2>3
      <4>2. f < h - 1 BY <2>3, <3>2
      <4>3. Offset[f] < Offset[h - 1] BY <2>3, <4>1, <4>2
      <4>4. Offset[f] \in Nat /\ Offset[h - 1] \in Nat BY <2>3, OffsetLemma
      <4> QED BY <4>3, <4>4
    <3> QED BY <3>1, <3>2
  <2>7. Offset[f] \in Nat /\ Offset[h - 1] \in Nat BY <2>3, OffsetLemma
  <2>8. Offset[f] < Offset[h]
    BY <2>4, <2>5, <2>6, <2>7, SizesAssumption DEF Overhead
  <2> QED BY <2>2, <2>8
<1> QED BY <1>1

\* The k-th byte after the beginning of a frame is its k-th byte.
LEMMA ByteAtFrame ==
  ASSUME lens \in [Frames -> 0 .. MaxLen], NEW f \in Frames, NEW k \in 1 .. Size(f)
  PROVE  ByteAt(Offset[f] + k) = <<f, k>>
<1> DEFINE i == Offset[f] + k
           In(g) == Offset[g] < i /\ i <= Offset[g + 1]
<1>1. Size(f) \in Nat /\ k \in Nat /\ Offset[f] \in Nat
      /\ Offset[f + 1] = Offset[f] + Size(f)
  <2>1. Size(f) \in Overhead .. (Overhead + MaxLen) BY SizeRange
  <2>2. Offset[f] \in Nat BY OffsetLemma, SizesAssumption DEF Frames
  <2> QED BY <2>1, <2>2, OffsetLemma, SizesAssumption DEF Overhead
<1>2. In(f) BY <1>1
<1>3. ASSUME NEW g \in Frames, In(g) PROVE g = f
  <2>1. /\ f \in 1 .. (NumFrames + 1) /\ g \in 1 .. (NumFrames + 1)
        /\ f + 1 \in 1 .. (NumFrames + 1) /\ g + 1 \in 1 .. (NumFrames + 1)
        /\ f \in Int /\ g \in Int
    BY SizesAssumption DEF Frames
  <2>2. Offset[g] \in Nat /\ Offset[f + 1] \in Nat /\ Offset[g + 1] \in Nat
    BY <2>1, OffsetLemma
  <2>3. ASSUME g < f PROVE FALSE
    <3>1. g + 1 = f \/ g + 1 < f BY <2>1, <2>3
    <3>2. Offset[g + 1] <= Offset[f] BY <1>1, <2>1, <2>2, <3>1, OffsetGrows
    <3> QED BY <1>1, <1>3, <2>2, <3>2
  <2>4. ASSUME f < g PROVE FALSE
    <3>1. f + 1 = g \/ f + 1 < g BY <2>1, <2>4
    <3>2. Offset[f + 1] <= Offset[g] BY <1>1, <2>1, <2>2, <3>1, OffsetGrows
    <3> QED BY <1>1, <1>3, <2>2, <3>2
  <2> QED BY <2>1, <2>3, <2>4
<1>4. (CHOOSE g \in Frames : In(g)) = f BY <1>2, <1>3
<1>5. ByteAt(i) = <<f, i - Offset[f]>> BY <1>4 DEF ByteAt
<1> QED BY <1>1, <1>5

\* Every byte of the stream is in a frame.
LEMMA ByteAtType ==
  ASSUME lens \in [Frames -> 0 .. MaxLen], NEW i \in 1 .. Total
  PROVE  ByteAt(i) \in StreamByte
<1> DEFINE Places == 1 .. (NumFrames + 1)
           Past == {g \in Places : i <= Offset[g]}
<1>1. Places \in SUBSET Nat /\ 1 \in Places /\ NumFrames + 1 \in Places
  BY SizesAssumption
<1>2. Total \in Nat /\ i \in Nat /\ i >= 1 /\ i <= Total BY <1>1, OffsetLemma DEF Total
<1>3. NumFrames + 1 \in Past BY <1>1, <1>2 DEF Total
<1>4. PICK g \in Past : \A h \in Past : g <= h BY <1>1, <1>3, LeastNat
<1>5. g # 1 BY <1>2, <1>4, OffsetLemma
<1> DEFINE f == g - 1
           k == i - Offset[f]
<1>6. f \in Frames /\ f \in Places /\ f + 1 = g /\ ~(g <= f)
  BY <1>4, <1>5, SizesAssumption DEF Frames
<1>7. ~(i <= Offset[f]) BY <1>4, <1>6
<1>8. i <= Offset[f] + Size(f)
  <2>1. Offset[g] = Offset[f] + Size(f) BY <1>6, OffsetLemma
  <2>2. i <= Offset[g] BY <1>4
  <2> QED BY <2>1, <2>2
<1>9. Offset[f] \in Nat BY <1>6, OffsetLemma
<1>10. Size(f) \in Overhead .. (Overhead + MaxLen) BY <1>6, SizeRange
<1> HIDE DEF f
<1>11. k \in 1 .. Size(f) /\ k \in 1 .. (Overhead + MaxLen) /\ Offset[f] + k = i
  BY <1>2, <1>7, <1>8, <1>9, <1>10, SizesAssumption DEF Overhead
<1>12. ByteAt(i) = <<f, k>> BY <1>6, <1>11, ByteAtFrame
<1>13. k <= Size(f) BY <1>10, <1>11, SizesAssumption DEF Overhead
<1> QED BY <1>6, <1>11, <1>12, <1>13 DEF StreamByte

LEMMA TotalLemma ==
  ASSUME lens \in [Frames -> 0 .. MaxLen]
  PROVE  /\ Total \in Nat
         /\ \A f \in 1 .. (NumFrames + 1) : Offset[f] \in Nat /\ Offset[f] <= Total
<1>1. NumFrames + 1 \in 1 .. (NumFrames + 1) BY SizesAssumption
<1>2. ASSUME NEW f \in 1 .. (NumFrames + 1) PROVE Offset[f] \in Nat /\ Offset[f] <= Total
  <2>1. f = NumFrames + 1 \/ f < NumFrames + 1 BY SizesAssumption
  <2>2. Offset[f] \in Nat /\ Offset[NumFrames + 1] \in Nat BY <1>1, OffsetLemma
  <2> QED BY <1>1, <2>1, <2>2, OffsetGrows DEF Total
<1> QED BY <1>1, <1>2 DEF Total

LEMMA InitFraming == FramingInit => FramingInv
<1> SUFFICES ASSUME FramingInit PROVE FramingInv OBVIOUS
<1>1. lens \in [Frames -> 0 .. MaxLen] BY DEF FramingInit
<1>2. FramingTypes
  <2>1. sent \in 0 .. Total /\ nr \in 0 .. BufLen /\ cpos \in Nat
    BY <1>1, TotalLemma, SizesAssumption DEF FramingInit
  <2>2. bufpos \in 0 .. (Overhead + MaxLen - 1)
    BY SizesAssumption DEF FramingInit, Overhead
  <2>3. buf \in [0 .. (BufLen - 1) -> StreamByte \cup {Junk}] BY DEF FramingInit
  <2> QED BY <1>1, <2>1, <2>2, <2>3 DEF FramingInit, FramingTypes
<1>3. decoded = <<>> /\ Len(decoded) = 0 BY DEF FramingInit
<1>4. Taken
  <2>1. <<>> = [f \in 1 .. 0 |-> Bytes(f)] OBVIOUS
  <2> QED BY <1>3, <2>1, SizesAssumption DEF Taken
<1>5. Holds(0, bufpos) BY <1>1, <1>3, OffsetLemma DEF FramingInit, Holds
<1>6. Len(decoded) < NumFrames => bufpos < Size(Len(decoded) + 1)
  <2> SUFFICES ASSUME 0 < NumFrames PROVE 0 < Size(1) BY <1>3 DEF FramingInit
  <2>1. 1 \in Frames BY SizesAssumption DEF Frames
  <2> QED BY <1>1, <2>1, SizeRange, SizesAssumption DEF Overhead
<1>7. InStep BY <1>4, <1>5, <1>6 DEF InStep, FramingInit
<1> QED BY <1>2, <1>7 DEF FramingInv

LEMMA ReadFraming == FramingInv /\ Read => FramingInv'
<1> SUFFICES ASSUME FramingInv, Read PROVE FramingInv' OBVIOUS
<1> PICK n \in 1 .. (BufLen - bufpos) :
      /\ sent + n <= Total
      /\ buf' = [i \in DOMAIN buf |->
                   IF i \in bufpos .. (bufpos + n - 1)
                   THEN ByteAt(sent + (i - bufpos) + 1) ELSE buf[i]]
      /\ sent' = sent + n
      /\ nr' = bufpos + n
  BY DEF Read
<1>1. /\ UNCHANGED <<stream, lens, bufpos, decoded, split>>
      /\ pc = "read" /\ pc' = "scan" /\ cpos' = 0
  BY DEF Read, stream
<1>2. FramingTypes /\ InStep BY DEF FramingInv
<1>3. lens \in [Frames -> 0 .. MaxLen] BY <1>2 DEF FramingTypes
<1>4. /\ bufpos \in Nat /\ bufpos < BufLen /\ sent \in Nat /\ n \in Nat /\ n >= 1
      /\ bufpos + n <= BufLen /\ Total \in Nat
  BY <1>2, <1>3, TotalLemma, SizesAssumption DEF FramingTypes, Overhead
<1>5. /\ Offset' = Offset /\ Total' = Total /\ StreamByte' = StreamByte
      /\ (\A f : Size(f)' = Size(f)) /\ (\A f : Bytes(f)' = Bytes(f))
      /\ \A i : ByteAt(i)' = ByteAt(i)
  BY <1>1, SameStream
<1>6. DOMAIN buf = 0 .. (BufLen - 1) BY <1>2 DEF FramingTypes
<1>7. FramingTypes'
  <2>1. sent' \in 0 .. Total' /\ nr' \in 0 .. BufLen /\ cpos' < nr' /\ cpos' \in Nat
    BY <1>1, <1>4, <1>5
  <2>2. ASSUME NEW i \in bufpos .. (bufpos + n - 1)
        PROVE  ByteAt(sent + (i - bufpos) + 1) \in StreamByte
    <3>1. sent + (i - bufpos) + 1 \in 1 .. Total BY <1>4
    <3> QED BY <1>3, <3>1, ByteAtType
  <2>3. buf' \in [0 .. (BufLen - 1) -> StreamByte' \cup {Junk}]
    BY <1>2, <1>5, <1>6, <2>2 DEF FramingTypes
  <2> QED BY <1>1, <1>2, <2>1, <2>3 DEF FramingTypes
<1>8. InStep'
  <2> SUFFICES ASSUME ~split PROVE Taken' /\ Holds(cpos, nr)' BY <1>1 DEF InStep
  <2>1. Taken /\ Holds(0, bufpos) BY <1>1, <1>2 DEF InStep
  <2>2. Taken' BY <1>1, <1>5, <2>1 DEF Taken
  <2> DEFINE o == Offset[Len(decoded) + 1]
  <2>3. o \in Nat
    <3>1. Len(decoded) + 1 \in 1 .. (NumFrames + 1) BY <2>1, SizesAssumption DEF Taken
    <3> QED BY <1>3, <3>1, TotalLemma
  <2>4. o + bufpos = sent BY <1>4, <2>1, <2>3 DEF Holds
  <2>5. o + (nr' - 0) = sent' BY <1>4, <2>3, <2>4
  <2>6. ASSUME NEW i \in 0 .. (nr' - 1) PROVE buf'[i] = ByteAt(o + (i - 0) + 1)
    <3>1. i \in DOMAIN buf BY <1>4, <1>6, SizesAssumption
    <3>2. CASE i < bufpos
      <4>1. i \in 0 .. (bufpos - 1) /\ i \notin bufpos .. (bufpos + n - 1) BY <1>4, <3>2
      <4>2. buf[i] = ByteAt(o + (i - 0) + 1) BY <2>1, <4>1 DEF Holds
      <4> QED BY <3>1, <4>1, <4>2
    <3>3. CASE i >= bufpos
      <4>1. i \in bufpos .. (bufpos + n - 1) BY <1>4, <3>3
      <4>2. sent + (i - bufpos) + 1 = o + (i - 0) + 1 BY <1>4, <2>3, <2>4
      <4> QED BY <3>1, <4>1, <4>2
    <3> QED BY <1>4, <3>2, <3>3
  <2> HIDE DEF o
  <2>7. Offset'[Len(decoded') + 1] = o BY <1>1, <1>5 DEF o
  <2>8. Holds(cpos, nr)' BY <1>1, <1>5, <2>5, <2>6, <2>7 DEF Holds
  <2> QED BY <2>2, <2>8
<1> QED BY <1>7, <1>8 DEF FramingInv

\* In step, the scan stands on the first byte of the next frame, and the byte
\* after it is the length byte of that frame.
LEMMA AtFrame ==
  ASSUME FramingTypes, InStep, pc = "scan", ~split
  PROVE  /\ Len(decoded) + 1 \in Frames
         /\ IsStart(buf[cpos])
         /\ nr - cpos >= Overhead => Lengths = {lens[Len(decoded) + 1]}
         /\ \A k \in 1 .. Size(Len(decoded) + 1) :
              cpos + k <= nr => buf[(cpos + k) - 1] = <<Len(decoded) + 1, k>>
<1> DEFINE c == Len(decoded)
           f == c + 1
<1>1. lens \in [Frames -> 0 .. MaxLen] BY DEF FramingTypes
<1>2. Taken /\ Holds(cpos, nr) BY DEF InStep
<1>3. c \in Nat /\ c <= NumFrames /\ cpos \in Nat /\ nr \in Nat /\ cpos < nr /\ sent <= Total
      /\ sent \in Nat
  BY <1>1, <1>2, TotalLemma, SizesAssumption DEF Taken, FramingTypes
<1>4. f \in 1 .. (NumFrames + 1) BY <1>3, SizesAssumption
<1>5. Offset[f] \in Nat /\ Offset[f] + (nr - cpos) = sent
  BY <1>1, <1>2, <1>4, TotalLemma DEF Holds
<1>6. f \in Frames
  <2>1. f # NumFrames + 1
    <3> SUFFICES ASSUME f = NumFrames + 1 PROVE FALSE OBVIOUS
    <3>1. Offset[f] = Total BY DEF Total
    <3> QED BY <1>1, <1>3, <1>5, <3>1, TotalLemma
  <2> QED BY <1>4, <2>1, SizesAssumption DEF Frames
<1>7. Size(f) \in Nat /\ Size(f) >= Overhead
  BY <1>1, <1>6, SizeRange, SizesAssumption DEF Overhead
<1>8. ASSUME NEW k \in 1 .. Size(f), cpos + k <= nr
      PROVE  buf[(cpos + k) - 1] = <<f, k>>
  <2>1. (cpos + k) - 1 \in cpos .. (nr - 1) BY <1>3, <1>7, <1>8
  <2>2. buf[(cpos + k) - 1] = ByteAt(Offset[f] + (((cpos + k) - 1) - cpos) + 1)
    BY <1>2, <2>1 DEF Holds
  <2>3. Offset[f] + (((cpos + k) - 1) - cpos) + 1 = Offset[f] + k BY <1>3, <1>5, <1>7
  <2> QED BY <1>1, <1>6, <2>2, <2>3, ByteAtFrame
<1> HIDE DEF f
<1>9. IsStart(buf[cpos])
  <2>1. 1 \in 1 .. Size(f) /\ cpos + 1 <= nr /\ (cpos + 1) - 1 = cpos
    BY <1>3, <1>7 DEF Overhead
  <2>2. buf[cpos] = <<f, 1>> BY <1>8, <2>1
  <2> QED BY <2>2 DEF IsStart
<1>10. ASSUME nr - cpos >= Overhead PROVE Lengths = {lens[f]}
  <2>1. 2 \in 1 .. Size(f) /\ cpos + 2 <= nr /\ (cpos + 2) - 1 = cpos + 1
    BY <1>3, <1>7, <1>10 DEF Overhead
  <2>2. buf[cpos + 1] = <<f, 2>> BY <1>8, <2>1
  <2> QED BY <1>10, <2>2 DEF Lengths, LengthOf
<1> QED BY <1>6, <1>8, <1>9, <1>10 DEF f

\* The lengths that can be read are those of frames.
LEMMA LengthsRange ==
  ASSUME FramingTypes, pc = "scan", NEW len \in Lengths
  PROVE  len \in 0 .. MaxLen
<1>1. CASE nr - cpos >= Overhead
  <2>1. cpos + 1 \in 0 .. (BufLen - 1)
    BY <1>1, SizesAssumption DEF FramingTypes, Overhead
  <2>2. buf[cpos + 1] \in StreamByte \cup {Junk} BY <2>1 DEF FramingTypes
  <2>3. CASE buf[cpos + 1][2] = 2
    <3>1. buf[cpos + 1] # Junk BY <2>3 DEF Junk
    <3>2. buf[cpos + 1][1] \in Frames BY <2>2, <3>1 DEF StreamByte
    <3> QED BY <1>1, <2>3, <3>2 DEF Lengths, LengthOf, FramingTypes
  <2>4. CASE buf[cpos + 1][2] # 2 BY <1>1, <2>4 DEF Lengths, LengthOf
  <2> QED BY <2>3, <2>4
<1>2. CASE ~(nr - cpos >= Overhead) BY <1>2, SizesAssumption DEF Lengths
<1> QED BY <1>1, <1>2

LEMMA SkipFraming == FramingInv /\ Skip => FramingInv'
<1> SUFFICES ASSUME FramingInv, Skip PROVE FramingInv' OBVIOUS
<1>1. /\ UNCHANGED <<stream, lens, sent, buf, nr, decoded, split>>
      /\ pc = "scan" /\ bufpos' = 0 /\ cpos' = cpos + 1 /\ pc' = Continue(cpos + 1)
      /\ ~IsStart(buf[cpos])
  BY DEF Skip, stream
<1>2. FramingTypes /\ InStep BY DEF FramingInv
<1>3. Total' = Total /\ StreamByte' = StreamByte BY <1>1, SameStream
<1>4. FramingTypes'
  <2>1. bufpos' \in 0 .. (Overhead + MaxLen - 1) BY <1>1, SizesAssumption DEF Overhead
  <2>2. cpos' \in Nat /\ pc' \in {"read", "scan"} /\ (pc' = "scan" => cpos' < nr')
    BY <1>1, <1>2 DEF FramingTypes, Continue
  <2> QED BY <1>1, <1>2, <1>3, <2>1, <2>2 DEF FramingTypes
<1>5. split' BY <1>1, <1>2, AtFrame DEF FramingTypes
<1> QED BY <1>4, <1>5 DEF FramingInv, InStep

LEMMA TakeFraming == FramingInv /\ TakeFrame => FramingInv'
<1> SUFFICES ASSUME FramingInv, TakeFrame PROVE FramingInv' OBVIOUS
<1> PICK len \in Lengths :
      /\ HasFrame(len)
      /\ decoded' = Append(decoded, [k \in 1 .. (Overhead + len) |-> buf[(cpos + k) - 1]])
      /\ bufpos' = 0 /\ cpos' = cpos + Overhead + len
      /\ pc' = Continue(cpos + Overhead + len)
  BY DEF TakeFrame
<1>1. UNCHANGED <<stream, lens, sent, buf, nr, split>> /\ pc = "scan"
  BY DEF TakeFrame, stream
<1>2. FramingTypes /\ InStep BY DEF FramingInv
<1>3. lens \in [Frames -> 0 .. MaxLen] BY <1>2 DEF FramingTypes
<1>4. len \in Nat /\ cpos \in Nat /\ nr \in Nat BY <1>1, <1>2, LengthsRange DEF FramingTypes
<1>5. nr - cpos >= Overhead /\ cpos + Overhead + len <= nr
  BY <1>4 DEF HasFrame, Overhead
<1>6. /\ Offset' = Offset /\ Total' = Total /\ StreamByte' = StreamByte
      /\ (\A f : Size(f)' = Size(f)) /\ (\A f : Bytes(f)' = Bytes(f))
      /\ \A i : ByteAt(i)' = ByteAt(i)
  BY <1>1, SameStream
<1>7. cpos' \in Nat /\ cpos' > cpos /\ cpos' <= nr /\ pc' = Continue(cpos')
  BY <1>4, <1>5 DEF Overhead
<1>8. FramingTypes'
  <2>1. bufpos' \in 0 .. (Overhead + MaxLen - 1) BY SizesAssumption DEF Overhead
  <2>2. pc' \in {"read", "scan"} /\ (pc' = "scan" => cpos' < nr')
    BY <1>1, <1>7 DEF Continue
  <2> QED BY <1>1, <1>2, <1>6, <1>7, <2>1, <2>2 DEF FramingTypes
<1>9. InStep'
  <2> SUFFICES ASSUME ~split
               PROVE  /\ Taken'
                      /\ pc' = "read" => /\ Holds(0, bufpos)'
                                         /\ Len(decoded') < NumFrames =>
                                              bufpos' < Size(Len(decoded') + 1)
                      /\ pc' = "scan" => Holds(cpos, nr)'
    BY <1>1 DEF InStep, Size
  <2> DEFINE c == Len(decoded)
             f == c + 1
  <2>1. Taken /\ Holds(cpos, nr) BY <1>1, <1>2 DEF InStep
  <2>2. /\ f \in Frames /\ len = lens[f]
        /\ \A k \in 1 .. Size(f) : cpos + k <= nr => buf[(cpos + k) - 1] = <<f, k>>
    BY <1>1, <1>2, <1>5, AtFrame
  <2>3. Size(f) = Overhead + len BY <2>2 DEF Size
  <2>4. [k \in 1 .. (Overhead + len) |-> buf[(cpos + k) - 1]] = Bytes(f)
    <3>1. \A k \in 1 .. Size(f) : cpos + k <= nr BY <1>4, <1>5, <2>3 DEF Overhead
    <3> QED BY <2>2, <2>3, <3>1 DEF Bytes
  <2>5. c \in Nat /\ c < NumFrames /\ f = c + 1
    BY <2>1, <2>2, SizesAssumption DEF Taken, Frames
  <2>6. decoded = [g \in 1 .. c |-> Bytes(g)] BY <2>1 DEF Taken
  <2> HIDE DEF c, f
  <2>7. decoded' = [g \in 1 .. (c + 1) |-> Bytes(g)]
    <3> DEFINE s == [g \in 1 .. c |-> Bytes(g)]
               t == [g \in 1 .. (c + 1) |-> Bytes(g)]
    <3>1. decoded' = Append(s, Bytes(f)) BY <2>4, <2>6
    <3>2. Len(s) = c /\ DOMAIN s = 1 .. c BY <2>5
    <3>3. Append(s, Bytes(f)) = [i \in 1 .. (Len(s) + 1) |->
                                   IF i = Len(s) + 1 THEN Bytes(f) ELSE s[i]]
      BY <2>5, <3>2
    <3>4. Append(s, Bytes(f)) = t
      <4>1. \A i \in 1 .. (c + 1) : i # c + 1 => i \in 1 .. c BY <2>5
      <4> QED BY <2>5, <3>2, <3>3, <4>1
    <3> QED BY <3>1, <3>4
  <2>8. Len(decoded') = c + 1 BY <2>5, <2>7
  <2>9. Taken' BY <1>6, <2>5, <2>7, <2>8, SizesAssumption DEF Taken
  <2> DEFINE o == Offset[f]
             p == Offset[f + 1]
  <2>10. p = o + Overhead + len /\ o \in Nat /\ p \in Nat /\ p <= Total
    <3>1. f \in 1 .. (NumFrames + 1) /\ f + 1 \in 1 .. (NumFrames + 1)
      BY <2>2, SizesAssumption DEF Frames
    <3>2. o \in Nat /\ p \in Nat /\ p <= Total BY <1>3, <3>1, TotalLemma
    <3>3. p = o + Size(f) BY <1>3, <2>2, OffsetLemma
    <3> HIDE DEF o, p
    <3>4. \A x \in Nat : x + (Overhead + len) = x + Overhead + len BY <1>4 DEF Overhead
    <3>5. p = o + Overhead + len BY <2>3, <3>2, <3>3, <3>4
    <3> QED BY <3>2, <3>5
  <2>11. o + (nr - cpos) = sent
         /\ \A i \in cpos .. (nr - 1) : buf[i] = ByteAt(o + (i - cpos) + 1)
    BY <2>1, <2>5 DEF Holds, c
  <2>12. Offset'[Len(decoded') + 1] = p BY <1>6, <2>5, <2>8
  <2> HIDE DEF o, p
  <2>13. p + (nr - cpos') = sent BY <1>4, <1>5, <2>10, <2>11 DEF Overhead
  <2>14. CASE cpos' < nr
    <3>1. ASSUME NEW i \in cpos' .. (nr - 1) PROVE buf[i] = ByteAt(p + (i - cpos') + 1)
      <4>1. i \in cpos .. (nr - 1) BY <1>4, <1>7
      <4>2. o + (i - cpos) + 1 = p + (i - cpos') + 1 BY <1>4, <2>10 DEF Overhead
      <4> QED BY <2>11, <4>1, <4>2
    <3>2. Holds(cpos, nr)' BY <1>1, <1>6, <2>12, <2>13, <3>1 DEF Holds
    <3>3. pc' # "read" BY <1>7, <2>14 DEF Continue
    <3> QED BY <2>9, <3>2, <3>3
  <2>15. CASE ~(cpos' < nr)
    <3>1. p = sent BY <1>4, <1>7, <2>10, <2>13, <2>15
    <3>2. Holds(0, bufpos)' BY <1>1, <1>6, <2>10, <2>12, <3>1 DEF Holds
    <3>3. Len(decoded') < NumFrames => bufpos' < Size(Len(decoded') + 1)
      <4> SUFFICES ASSUME c + 1 < NumFrames PROVE 0 < Size(c + 1 + 1) BY <2>8
      <4>1. c + 1 + 1 \in Frames BY <2>5, SizesAssumption DEF Frames
      <4> QED BY <1>3, <4>1, SizeRange, SizesAssumption DEF Overhead
    <3>4. pc' # "scan" BY <1>7, <2>15 DEF Continue
    <3> QED BY <1>6, <2>9, <3>2, <3>3, <3>4
  <2> QED BY <2>14, <2>15
<1> QED BY <1>8, <1>9 DEF FramingInv

LEMMA IncompleteFraming == FramingInv /\ Incomplete => FramingInv'
<1> SUFFICES ASSUME FramingInv, Incomplete PROVE FramingInv' OBVIOUS
<1> PICK len \in Lengths : ~HasFrame(len) BY DEF Incomplete
<1>1. UNCHANGED <<stream, lens, sent, nr, cpos, decoded>> /\ pc = "scan" /\ pc' = "read"
  BY DEF Incomplete, stream
<1>2. FramingTypes /\ InStep BY DEF FramingInv
<1>3. lens \in [Frames -> 0 .. MaxLen] BY <1>2 DEF FramingTypes
<1>4. /\ len \in 0 .. MaxLen /\ cpos \in Nat /\ nr \in Nat /\ cpos < nr /\ nr <= BufLen
      /\ BufLen \in Nat /\ MaxLen \in Nat
  BY <1>1, <1>2, LengthsRange, SizesAssumption DEF FramingTypes
<1>5. nr - cpos < Overhead + len BY <1>4 DEF HasFrame, Overhead
<1>6. /\ Offset' = Offset /\ Total' = Total /\ StreamByte' = StreamByte
      /\ (\A f : Size(f)' = Size(f)) /\ (\A f : Bytes(f)' = Bytes(f))
      /\ \A i : ByteAt(i)' = ByteAt(i)
  BY <1>1, SameStream
<1>7. CASE cpos = 0
  <2>1. split' = TRUE /\ UNCHANGED <<buf, bufpos>> BY <1>7 DEF Incomplete
  <2>2. FramingTypes' BY <1>1, <1>2, <1>6, <2>1 DEF FramingTypes
  <2> QED BY <2>1, <2>2 DEF FramingInv, InStep
<1>8. CASE cpos # 0
  <2>1. /\ buf' = [i \in DOMAIN buf |-> IF i < nr - cpos THEN buf[cpos + i] ELSE buf[i]]
        /\ bufpos' = nr - cpos /\ split' = split
    BY <1>8 DEF Incomplete
  <2>2. DOMAIN buf = 0 .. (BufLen - 1) BY <1>2 DEF FramingTypes
  <2>3. \A i \in DOMAIN buf : i < nr - cpos => cpos + i \in DOMAIN buf
    BY <1>4, <2>2
  <2>4. FramingTypes'
    <3>1. bufpos' \in 0 .. (Overhead + MaxLen - 1) BY <1>4, <1>5, <2>1 DEF Overhead
    <3>2. buf' \in [0 .. (BufLen - 1) -> StreamByte' \cup {Junk}]
      BY <1>2, <1>6, <2>1, <2>2, <2>3 DEF FramingTypes
    <3> QED BY <1>1, <1>2, <1>6, <2>1, <3>1, <3>2 DEF FramingTypes
  <2>5. InStep'
    <3> DEFINE f == Len(decoded) + 1
    <3> SUFFICES ASSUME ~split
                 PROVE  Taken' /\ Holds(0, bufpos)' /\ bufpos' < Size(f)
      BY <1>1, <1>6, <2>1 DEF InStep
    <3>1. Taken /\ Holds(cpos, nr) BY <1>1, <1>2 DEF InStep
    <3>2. f \in Frames /\ (nr - cpos >= Overhead => Lengths = {lens[f]})
      BY <1>1, <1>2, AtFrame
    <3>3. bufpos' < Size(f)
      <4>1. Size(f) = Overhead + lens[f] /\ lens[f] \in Nat
        BY <1>3, <3>2, SizesAssumption DEF Size
      <4>2. CASE nr - cpos >= Overhead BY <1>5, <2>1, <3>2, <4>1, <4>2
      <4>3. CASE nr - cpos < Overhead BY <1>4, <2>1, <4>1, <4>3 DEF Overhead
      <4> QED BY <1>4, <4>2, <4>3 DEF Overhead
    <3>4. Taken' BY <1>1, <1>6, <3>1 DEF Taken
    <3> DEFINE o == Offset[f]
    <3>5. o \in Nat
      <4>1. f \in 1 .. (NumFrames + 1) BY <3>2, SizesAssumption DEF Frames
      <4> QED BY <1>3, <4>1, TotalLemma
    <3>6. o + (nr - cpos) = sent
          /\ \A i \in cpos .. (nr - 1) : buf[i] = ByteAt(o + (i - cpos) + 1)
      BY <3>1 DEF Holds
    <3>7. Offset'[Len(decoded') + 1] = o BY <1>1, <1>6
    <3> HIDE DEF o, f
    <3>8. ASSUME NEW i \in 0 .. (bufpos' - 1) PROVE buf'[i] = ByteAt(o + (i - 0) + 1)
      <4>1. i \in DOMAIN buf /\ i < nr - cpos BY <1>4, <2>1, <2>2
      <4>2. cpos + i \in cpos .. (nr - 1) /\ o + ((cpos + i) - cpos) + 1 = o + (i - 0) + 1
        BY <1>4, <2>1, <3>5
      <4> QED BY <2>1, <3>6, <4>1, <4>2
    <3>9. o + (bufpos' - 0) = sent BY <1>4, <2>1, <3>5, <3>6
    <3>10. Holds(0, bufpos)' BY <1>1, <1>6, <3>7, <3>8, <3>9 DEF Holds
    <3> QED BY <3>3, <3>4, <3>10
  <2> QED BY <2>4, <2>5 DEF FramingInv
<1> QED BY <1>7, <1>8

LEMMA NextFraming == FramingInv /\ [FramingNext]_framingVars => FramingInv'
<1> SUFFICES ASSUME FramingInv, [FramingNext]_framingVars PROVE FramingInv' OBVIOUS
<1>1. CASE UNCHANGED framingVars \/ Idle
  <2>1. UNCHANGED <<stream, lens, sent, buf, bufpos, nr, cpos, pc, decoded, split>>
    BY <1>1 DEF Idle, framingVars, stream
  <2>2. /\ Offset' = Offset /\ Total' = Total /\ StreamByte' = StreamByte
        /\ (\A f : Size(f)' = Size(f)) /\ (\A f : Bytes(f)' = Bytes(f))
        /\ \A i : ByteAt(i)' = ByteAt(i)
    BY <2>1, SameStream
  <2>3. FramingTypes' BY <2>1, <2>2 DEF FramingInv, FramingTypes
  <2>4. InStep' BY <2>1, <2>2 DEF FramingInv, InStep, Taken, Holds
  <2> QED BY <2>3, <2>4 DEF FramingInv
<1> QED
  BY <1>1, ReadFraming, SkipFraming, TakeFraming, IncompleteFraming DEF FramingNext

\* The loop never reads into a full buffer, and never scans past what it read,
\* whatever the device sends.
THEOREM RoomForRead == FramingSpec => []RoomToRead
<1>1. ASSUME FramingInv PROVE RoomToRead
  BY <1>1, SizesAssumption DEF FramingInv, FramingTypes, RoomToRead, Overhead
<1> QED BY <1>1, InitFraming, NextFraming, PTL DEF FramingSpec

\* Frames of any number and lengths, with data that look like start bytes or
\* not, are taken whole and in order, as long as no read ended inside the frame
\* at the front of the buffer.
THEOREM FramesReassembled == FramingSpec => []ReassembledUnlessSplit
<1>1. ASSUME FramingInv PROVE ReassembledUnlessSplit
  <2> SUFFICES ASSUME ~split, pc = "read"
               PROVE  decoded = [f \in 1 .. Complete |-> Bytes(f)]
    BY DEF ReassembledUnlessSplit, Reassembled
  <2> DEFINE c == Len(decoded)
             Done == {f \in Frames : Offset[f + 1] <= sent}
  <2>1. lens \in [Frames -> 0 .. MaxLen] BY <1>1 DEF FramingInv, FramingTypes
  <2>2. /\ Taken /\ Holds(0, bufpos) /\ (c < NumFrames => bufpos < Size(c + 1))
        /\ bufpos \in Nat
    BY <1>1, SizesAssumption DEF FramingInv, InStep, FramingTypes, Overhead
  <2>3. c \in Nat /\ c <= NumFrames /\ decoded = [f \in 1 .. c |-> Bytes(f)]
    BY <2>2, SizesAssumption DEF Taken
  <2> HIDE DEF c
  <2>4. \A f \in Frames : /\ f \in Nat /\ f >= 1 /\ f <= NumFrames /\ f \in 1 .. (NumFrames + 1)
                          /\ f + 1 \in 1 .. (NumFrames + 1)
    BY SizesAssumption DEF Frames
  <2>5. c + 1 \in 1 .. (NumFrames + 1) BY <2>3, SizesAssumption
  <2>6. Offset[c + 1] \in Nat /\ Offset[c + 1] + bufpos = sent
    BY <2>1, <2>2, <2>5, TotalLemma DEF Holds, c
  <2>7. ASSUME NEW f \in Frames, f <= c PROVE f \in Done
    <3>1. f + 1 = c + 1 \/ f + 1 < c + 1 BY <2>3, <2>4, <2>7
    <3>2. Offset[f + 1] \in Nat BY <2>1, <2>4, TotalLemma
    <3>3. Offset[f + 1] <= Offset[c + 1] BY <2>1, <2>4, <2>5, <2>6, <3>1, <3>2, OffsetGrows
    <3> QED BY <2>2, <2>6, <3>2, <3>3
  <2>8. ASSUME NEW f \in Done PROVE f <= c
    <3> SUFFICES ASSUME c < f PROVE FALSE BY <2>3, <2>4
    <3>1. c + 1 \in Frames /\ c < NumFrames BY <2>3, <2>4, SizesAssumption DEF Frames
    <3>2. Offset[c + 2] = Offset[c + 1] + Size(c + 1) /\ c + 2 = (c + 1) + 1
      <4>1. c + 2 = (c + 1) + 1 BY <2>3
      <4> QED BY <2>1, <3>1, <4>1, OffsetLemma
    <3>3. c + 2 = f + 1 \/ c + 2 < f + 1 BY <2>3, <2>4
    <3>4. Offset[c + 2] \in Nat /\ Offset[f + 1] \in Nat /\ c + 2 \in 1 .. (NumFrames + 1)
      BY <2>1, <2>4, <3>1, <3>2, TotalLemma
    <3>5. Offset[c + 2] <= Offset[f + 1] BY <2>1, <2>4, <3>3, <3>4, OffsetGrows
    <3>6. Size(c + 1) \in Nat BY <2>1, <3>1, SizeRange, SizesAssumption DEF Overhead
    <3>7. sent < Offset[c + 2] BY <2>2, <2>6, <3>1, <3>2, <3>6
    <3> QED BY <2>2, <2>6, <3>4, <3>5, <3>7
  <2>9. Complete = c
    <3>1. CASE c = 0
      <4>1. Done = {} BY <2>4, <2>8, <3>1
      <4> QED BY <3>1, <4>1 DEF Complete
    <3>2. CASE c # 0
      <4>1. c \in Frames BY <2>3, <3>2 DEF Frames
      <4>2. c \in Done /\ \A g \in Done : g <= c BY <2>3, <2>7, <2>8, <4>1
      <4>3. \A f \in Done : (\A g \in Done : g <= f) => f = c BY <2>3, <2>4, <4>2
      <4>4. (CHOOSE f \in Done : \A g \in Done : g <= f) = c BY <4>2, <4>3
      <4> QED BY <4>2, <4>4 DEF Complete
    <3> QED BY <3>1, <3>2
  <2> QED BY <2>3, <2>9
<1> QED BY <1>1, InitFraming, NextFraming, PTL DEF FramingSpec

=============================================================================
