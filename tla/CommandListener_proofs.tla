------------------------ MODULE CommandListener_proofs ------------------------
(***************************************************************************)
(* Proofs about CommandListener for any commands, any window and any       *)
(* network, clock and restarts.                                            *)
(***************************************************************************)
EXTENDS CommandListener, WellFoundedInduction, TLAPS

Sorted(s) == \A i, j \in 1 .. Len(s) : i < j => s[i] < s[j]

\* A command that was forwarded stays recognizable until its time stamp is
\* too old to be valid, unless it is excused.
Remembered ==
  \A m \in Msg : forwarded[m] > 0 /\ m \notin excused =>
     sent[m] \in Entries(seen) \/ sent[m] < clock - Window

ForwardedTimes == {sent[m] : m \in WereForwarded}

\* The time stamp of the command in hand is on the list already, and it is
\* there for the first time unless it is excused.
InHand ==
  cmd # NoCommand =>
    /\ sent[cmd] \in Entries(seen) /\ sent[cmd] \in Time
    /\ forwarded[cmd] < MaxCopies
    /\ forwarded[cmd] > 0 => cmd \in excused

\* Commands that the list can have an entry for.
Accepted == WereForwarded \cup (Msg \cap {cmd}) \cup unforwarded

IInv ==
  /\ TypeOK
  /\ Sorted(seen)
  /\ Remembered
  /\ InHand
  /\ AtMostOnce
  /\ \A m \in Msg : forwarded[m] > 0 => sent[m] \in Time
  /\ \A m \in unforwarded : sent[m] \in Time
  /\ Entries(seen) \subseteq {sent[m] : m \in Accepted}
  /\ pend # None => pend \in ForwardedTimes
  /\ acks \subseteq ForwardedTimes
  /\ \A m \in done : sent[m] \in acks

-----------------------------------------------------------------------------
(* The list operations *)

\* Every set of natural numbers has a least element.
LEMMA Least ==
  ASSUME NEW T \in SUBSET Nat, T # {}
  PROVE  \E x \in T : \A y \in T : x <= y
<1> DEFINE R == OpToRel(<, Nat)
<1>1. IsWellFoundedOn(R, Nat)
  BY NatLessThanWellFounded, Zenon
<1>2. \A x, y \in Nat : y < x => <<y, x>> \in R
  BY DEF OpToRel
<1> HIDE DEF R
<1>3. PICK x \in T : \A y \in T : ~ (<<y, x>> \in R)
  BY <1>1, WFMin, Zenon
<1>4. ASSUME NEW y \in T PROVE x <= y
  <2>1. ~ (<<y, x>> \in R)
    BY <1>3, Zenon
  <2>2. x \in Nat /\ y \in Nat
    OBVIOUS
  <2>3. ~ (y < x)
    BY <1>2, <2>1, <2>2, Zenon
  <2> QED
    BY <2>2, <2>3
<1> QED
  BY <1>4, Zenon

\* Pruning a sorted list keeps it sorted and removes what is too old only.
LEMMA PruneLemma ==
  ASSUME NEW s \in Seq(Time), Sorted(s), NEW t \in Int
  PROVE  /\ Prune(s, t) \in Seq(Time) /\ Sorted(Prune(s, t))
         /\ Entries(Prune(s, t)) \subseteq Entries(s)
         /\ \A e \in Entries(s) : e >= t => e \in Entries(Prune(s, t))
<1> DEFINE d == CHOOSE x \in Stops(s, t) : \A y \in Stops(s, t) : x <= y
<1>1. Len(s) \in Nat /\ Len(s) \in Stops(s, t) /\ Stops(s, t) \in SUBSET Nat
  BY DEF Stops
<1>2. \E x \in Stops(s, t) : \A y \in Stops(s, t) : x <= y
  BY <1>1, Least
<1>3. d \in Stops(s, t) /\ \A y \in Stops(s, t) : d <= y
  BY <1>2
<1>4. d \in 0 .. Len(s) /\ \A i \in 1 .. d : s[i] < t
  <2>1. d \in 0 .. Len(s)
    BY <1>3 DEF Stops
  <2>2. ASSUME NEW i \in 1 .. d PROVE s[i] < t
    <3>1. i - 1 \in 0 .. Len(s) /\ i - 1 < Len(s) /\ (i - 1) + 1 = i /\ ~ (d <= i - 1)
      BY <1>1, <2>1
    <3>2. i - 1 \notin Stops(s, t)
      BY <1>3, <3>1
    <3>3. s[i] \in Int
      <4>1. i \in 1 .. Len(s)
        BY <1>1, <2>1
      <4> HIDE DEF d
      <4>2. s[i] \in Time
        BY <4>1
      <4> QED
        BY <4>2, WindowAssumption DEF Time
    <3>4. ~ (s[(i - 1) + 1] >= t)
      BY <3>1, <3>2 DEF Stops
    <3>5. ~ (s[i] >= t)
      BY <3>1, <3>4
    <3> HIDE DEF d
    <3> QED
      BY <3>3, <3>5
  <2> QED
    BY <2>1, <2>2
<1>5. Prune(s, t) = [i \in 1 .. (Len(s) - d) |-> s[i + d]]
  BY DEF Prune
<1> HIDE DEF d
<1>6. Prune(s, t) \in Seq(Time) /\ Len(Prune(s, t)) = Len(s) - d
  BY <1>1, <1>4, <1>5
<1>7. \A i \in 1 .. (Len(s) - d) : Prune(s, t)[i] = s[i + d] /\ i + d \in 1 .. Len(s)
  BY <1>1, <1>4, <1>5
<1>8. Sorted(Prune(s, t))
  BY <1>1, <1>4, <1>6, <1>7 DEF Sorted
<1>9. Entries(Prune(s, t)) \subseteq Entries(s)
  BY <1>6, <1>7 DEF Entries
<1>10. ASSUME NEW e \in Entries(s), e >= t PROVE e \in Entries(Prune(s, t))
  <2>1. PICK i \in 1 .. Len(s) : e = s[i]
    BY DEF Entries
  <2>2. s[i] \in Time /\ s[i] \in Int
    BY <1>1, WindowAssumption DEF Time
  <2>3. i - d \in 1 .. (Len(s) - d) /\ (i - d) + d = i
    BY <1>1, <1>4, <1>10, <2>1, <2>2
  <2>4. Prune(s, t)[i - d] = e
    BY <1>7, <2>1, <2>3
  <2>5. i - d \in 1 .. Len(Prune(s, t))
    BY <1>6, <2>3
  <2> QED
    BY <2>4, <2>5 DEF Entries
<1> QED
  BY <1>6, <1>8, <1>9, <1>10

\* Inserting a new time stamp keeps a list sorted and adds only that entry.
LEMMA InsertLemma ==
  ASSUME NEW s \in Seq(Time), Sorted(s), NEW t \in Time, t \notin Entries(s)
  PROVE  /\ Insert(s, t) \in Seq(Time) /\ Sorted(Insert(s, t))
         /\ Entries(Insert(s, t)) = Entries(s) \cup {t}
<1> DEFINE n == Len(s)
           Q == {n - p : p \in Places(s, t)}
           d == CHOOSE p \in Places(s, t) : \A q \in Places(s, t) : q <= p
<1>1. n \in Nat /\ 0 \in Places(s, t) /\ \A p \in Places(s, t) : p \in 0 .. n
  BY DEF Places
<1>2. Q \in SUBSET Nat /\ Q # {}
  BY <1>1
<1>3. PICK x \in Q : \A y \in Q : x <= y
  BY <1>2, Least
<1>4. \E p \in Places(s, t) : \A q \in Places(s, t) : q <= p
  <2>1. PICK p \in Places(s, t) : x = n - p
    BY <1>3
  <2>2. \A q \in Places(s, t) : n - p <= n - q
    BY <1>3, <2>1
  <2> QED
    BY <1>1, <2>2
<1>5. d \in Places(s, t) /\ \A q \in Places(s, t) : q <= d
  BY <1>4
<1>6. \A i \in 1 .. n : s[i] \in Time /\ s[i] # t
  BY DEF Entries
<1>7. Insert(s, t) = [i \in 1 .. (n + 1) |->
         IF i <= d THEN s[i] ELSE IF i = d + 1 THEN t ELSE s[i - 1]]
  BY DEF Insert
<1> HIDE DEF d, n, Q
<1>8. d \in 0 .. n
  BY <1>1, <1>5
<1>9. \A i \in 1 .. n : i > d => t < s[i]
  <2> SUFFICES ASSUME NEW i \in 1 .. n, i > d PROVE t < s[i]
    OBVIOUS
  <2>1. i \notin Places(s, t)
    BY <1>5, <1>8, <1>1
  <2> QED
    BY <1>1, <1>6, <2>1 DEF Places, Time, n
<1>10. \A i \in 1 .. n : i <= d => s[i] < t
  <2> SUFFICES ASSUME NEW i \in 1 .. n, i <= d PROVE s[i] < t
    OBVIOUS
  <2>1. d \in 1 .. n /\ s[d] <= t
    BY <1>1, <1>5, <1>8 DEF Places
  <2>2. s[d] < t
    BY <1>6, <2>1 DEF Time
  <2>3. i < d => s[i] < s[d]
    BY <2>1 DEF Sorted, n
  <2> QED
    BY <1>1, <1>6, <2>1, <2>2, <2>3 DEF Time
<1>11. Insert(s, t) \in Seq(Time) /\ Len(Insert(s, t)) = n + 1
  BY <1>1, <1>6, <1>7, <1>8
<1>12. /\ \A i \in 1 .. d : Insert(s, t)[i] = s[i]
       /\ Insert(s, t)[d + 1] = t
       /\ \A i \in (d + 2) .. (n + 1) : Insert(s, t)[i] = s[i - 1]
  BY <1>1, <1>7, <1>8
<1>13. Sorted(Insert(s, t))
  <2> SUFFICES ASSUME NEW i \in 1 .. (n + 1), NEW j \in 1 .. (n + 1), i < j
               PROVE  Insert(s, t)[i] < Insert(s, t)[j]
    BY <1>11 DEF Sorted
  <2>1. CASE j <= d
    BY <1>1, <1>8, <1>12, <2>1 DEF Sorted, n
  <2>2. CASE j = d + 1
    BY <1>1, <1>8, <1>10, <1>12, <2>2
  <2>3. CASE j > d + 1 /\ i <= d
    <3>1. Insert(s, t)[j] = s[j - 1] /\ Insert(s, t)[i] = s[i] /\ i < j - 1
          /\ i \in 1 .. n /\ j - 1 \in 1 .. n
      BY <1>1, <1>8, <1>12, <2>3
    <3> QED
      BY <3>1 DEF Sorted, n
  <2>4. CASE j > d + 1 /\ i = d + 1
    BY <1>1, <1>8, <1>9, <1>12, <2>4
  <2>5. CASE j > d + 1 /\ i > d + 1
    <3>1. Insert(s, t)[j] = s[j - 1] /\ Insert(s, t)[i] = s[i - 1] /\ i - 1 < j - 1
          /\ i - 1 \in 1 .. n /\ j - 1 \in 1 .. n
      BY <1>1, <1>8, <1>12, <2>5
    <3> QED
      BY <3>1 DEF Sorted, n
  <2> QED
    BY <1>1, <1>8, <2>1, <2>2, <2>3, <2>4, <2>5
<1>14. Entries(Insert(s, t)) \subseteq Entries(s) \cup {t}
  <2> SUFFICES ASSUME NEW i \in 1 .. (n + 1)
               PROVE  Insert(s, t)[i] \in Entries(s) \cup {t}
    BY <1>11 DEF Entries
  <2>1. i \in 1 .. d \/ i = d + 1 \/ i \in (d + 2) .. (n + 1)
    BY <1>1, <1>8
  <2>2. i \in 1 .. d => i \in 1 .. n
    BY <1>1, <1>8
  <2>3. i \in (d + 2) .. (n + 1) => i - 1 \in 1 .. n
    BY <1>1, <1>8
  <2> QED
    BY <1>12, <2>1, <2>2, <2>3 DEF Entries, n
<1>15. Entries(s) \cup {t} \subseteq Entries(Insert(s, t))
  <2>1. t \in Entries(Insert(s, t))
    <3>1. d + 1 \in 1 .. Len(Insert(s, t))
      BY <1>1, <1>8, <1>11
    <3> QED
      BY <1>12, <3>1 DEF Entries
  <2>2. ASSUME NEW i \in 1 .. n PROVE s[i] \in Entries(Insert(s, t))
    <3>1. CASE i <= d
      <4>1. i \in 1 .. d /\ i \in 1 .. Len(Insert(s, t))
        BY <1>1, <1>8, <1>11, <3>1
      <4> QED
        BY <1>12, <4>1 DEF Entries
    <3>2. CASE i > d
      <4>1. i + 1 \in (d + 2) .. (n + 1) /\ i + 1 \in 1 .. Len(Insert(s, t)) /\ (i + 1) - 1 = i
        BY <1>1, <1>8, <1>11, <3>2
      <4> QED
        BY <1>12, <4>1 DEF Entries
    <3> QED
      BY <1>1, <1>8, <3>1, <3>2
  <2> QED
    BY <2>1, <2>2 DEF Entries, n
<1> QED
  BY <1>11, <1>13, <1>14, <1>15

-----------------------------------------------------------------------------
(* The invariant *)

LEMMA InitInv == Init => IInv
<1> SUFFICES ASSUME Init PROVE IInv
  OBVIOUS
<1>1. TypeOK
  BY WindowAssumption, MaxCopiesAssumption DEF Init, TypeOK, Time, None
<1>2. Sorted(seen) /\ Entries(seen) = {}
  BY DEF Init, Sorted, Entries
<1>3. \A m \in Msg : ~ (forwarded[m] > 0)
  <2>1. \A m \in Msg : forwarded[m] = 0
    BY DEF Init
  <2>2. ~ (0 > 0)
    OBVIOUS
  <2> QED
    BY <2>1, <2>2, Zenon
<1> QED
  BY <1>1, <1>2, <1>3 DEF Init, IInv, Remembered, InHand, AtMostOnce

\* What is sent for the first time was neither forwarded nor in hand.
LEMMA SendInv == ASSUME IInv, NEW m \in Msg, Send(m) PROVE IInv'
<1>1. TypeOK /\ sent[m] \notin Time
  BY DEF IInv, Send, Time, None
<1>2. PICK ts \in Time : sent' = [sent EXCEPT ![m] = ts]
  BY DEF Send
<1>3. UNCHANGED <<clock, seen, cmd, pend, forwarded, acks, done, excused, unforwarded>>
  BY DEF Send, listener, history
<1>4. TypeOK'
  BY <1>1, <1>2, <1>3 DEF TypeOK
<1>5. \A k \in Msg : sent[k] \in Time => sent'[k] = sent[k]
  BY <1>1, <1>2 DEF TypeOK
<1>6. \A k \in Accepted : sent'[k] = sent[k] /\ k \in Msg
  <2>1. ASSUME NEW k \in Msg, cmd = k PROVE sent[k] \in Time
    BY <2>1, NoCommandAssumption DEF IInv, InHand
  <2> QED
    BY <1>1, <1>5, <2>1 DEF Accepted, IInv, WereForwarded, TypeOK
<1>7. WereForwarded' = WereForwarded /\ ForwardedTimes' = ForwardedTimes
  BY <1>3, <1>6 DEF WereForwarded, ForwardedTimes, Accepted
<1>8. {sent[k] : k \in Accepted}' = {sent[k] : k \in Accepted}
  BY <1>3, <1>6, <1>7 DEF Accepted
<1>9. \A k \in done : sent'[k] = sent[k]
  BY <1>1, <1>5 DEF TypeOK, IInv
<1>10. InHand'
  BY <1>1, <1>3, <1>5 DEF IInv, InHand, TypeOK, Entries
<1>11. Remembered' /\ AtMostOnce'
  BY <1>1, <1>3, <1>5 DEF IInv, Remembered, AtMostOnce, Entries
<1> QED
  BY <1>3, <1>4, <1>5, <1>6, <1>7, <1>8, <1>9, <1>10, <1>11
     DEF IInv, Entries, Accepted, WereForwarded

LEMMA ReceiveInv == ASSUME IInv, NEW m \in Msg, Receive(m) PROVE IInv'
<1> DEFINE kept == Prune(seen, clock - Window)
<1>1. TypeOK /\ Window \in Nat /\ Sorted(seen) /\ clock - Window \in Int /\ sent[m] \in Time
  BY WindowAssumption DEF IInv, TypeOK, Receive, Time
<1>2. /\ kept \in Seq(Time) /\ Sorted(kept) /\ Entries(kept) \subseteq Entries(seen)
      /\ \A e \in Entries(seen) : e >= clock - Window => e \in Entries(kept)
  BY <1>1, PruneLemma DEF TypeOK
<1>3. /\ UNCHANGED <<clock, pend, sent, forwarded, acks, done, excused, unforwarded>>
      /\ cmd = NoCommand /\ forwarded[m] < MaxCopies
  BY DEF Receive, history
<1>4. \A k \in Msg : forwarded[k] > 0 /\ k \notin excused =>
        sent[k] \in Entries(kept) \/ sent[k] < clock - Window
  <2> SUFFICES ASSUME NEW k \in Msg, forwarded[k] > 0, k \notin excused,
                      sent[k] \notin Entries(kept)
               PROVE  sent[k] < clock - Window
    OBVIOUS
  <2>1. sent[k] \in Int
    BY <1>1 DEF IInv, Time
  <2>2. sent[k] \in Entries(seen) => sent[k] < clock - Window
    BY <1>1, <1>2, <2>1
  <2> QED
    BY <2>2 DEF IInv, Remembered
<1>5. ForwardedTimes' = ForwardedTimes /\ WereForwarded' = WereForwarded
  BY <1>3 DEF ForwardedTimes, WereForwarded
<1>6. Accepted = WereForwarded \cup unforwarded
  BY <1>3, NoCommandAssumption DEF Accepted
<1> HIDE DEF kept
<1>7. CASE Valid(sent[m], kept)
  <2>1. seen' = Insert(kept, sent[m]) /\ cmd' = m
    BY <1>7 DEF Receive, kept
  <2>2. /\ seen' \in Seq(Time) /\ Sorted(seen')
        /\ Entries(seen') = Entries(kept) \cup {sent[m]}
    BY <1>1, <1>2, <1>7, <2>1, InsertLemma DEF Valid
  <2>3. TypeOK'
    BY <1>1, <1>3, <2>1, <2>2 DEF TypeOK
  <2>4. forwarded[m] > 0 => m \in excused
    BY <1>1, <1>4, <1>7 DEF Valid, Time
  <2>5. InHand'
    BY <1>1, <1>3, <2>1, <2>2, <2>4 DEF InHand, Entries
  <2>6. Remembered'
    BY <1>3, <1>4, <2>2 DEF Remembered, Entries
  <2>7. Accepted' = Accepted \cup {m}
    BY <1>3, <1>5, <1>6, <2>1 DEF Accepted
  <2>8. Entries(seen') \subseteq {sent'[k] : k \in Accepted'}
    BY <1>2, <1>3, <2>2, <2>7 DEF IInv
  <2> QED
    BY <1>3, <1>5, <2>2, <2>3, <2>5, <2>6, <2>8 DEF IInv, AtMostOnce, Entries
<1>8. CASE ~ Valid(sent[m], kept)
  <2>1. seen' = kept /\ cmd' = cmd
    BY <1>8 DEF Receive, kept
  <2>2. TypeOK'
    BY <1>1, <1>2, <1>3, <2>1 DEF TypeOK
  <2>3. Accepted' = Accepted
    BY <1>3, <1>5, <2>1 DEF Accepted
  <2>4. Entries(seen') \subseteq {sent'[k] : k \in Accepted'}
    BY <1>2, <1>3, <2>1, <2>3 DEF IInv
  <2>5. Remembered' /\ InHand'
    BY <1>3, <1>4, <2>1 DEF Remembered, InHand
  <2> QED
    BY <1>2, <1>3, <1>5, <2>1, <2>2, <2>4, <2>5 DEF IInv, AtMostOnce
<1> QED
  BY <1>7, <1>8

\* Either way the time stamp stays on the list, with a command to show for it.
LEMMA ForwardInv == ASSUME IInv, Forward PROVE IInv'
<1>1. /\ TypeOK /\ cmd \in Msg /\ InHand /\ cmd # NoCommand
      /\ sent[cmd] \in Time /\ sent[cmd] \in Entries(seen)
  BY DEF IInv, Forward, TypeOK, InHand
<1>2. cmd' = NoCommand /\ UNCHANGED <<clock, seen, sent, acks, done, excused>>
  BY DEF Forward
<1>3. InHand'
  BY <1>2 DEF InHand
<1>4. CASE /\ forwarded' = [forwarded EXCEPT ![cmd] = @ + 1]
           /\ pend' = sent[cmd] /\ unforwarded' = unforwarded
  <2>1. /\ forwarded' \in [Msg -> 0 .. MaxCopies] /\ forwarded'[cmd] = forwarded[cmd] + 1
        /\ forwarded[cmd] \in Nat
        /\ \A k \in Msg : k # cmd => forwarded'[k] = forwarded[k]
    BY <1>1, <1>4, MaxCopiesAssumption DEF TypeOK, InHand
  <2>2. TypeOK'
    BY <1>1, <1>2, <1>4, <2>1 DEF TypeOK
  <2>3. AtMostOnce'
    BY <1>1, <1>2, <2>1 DEF AtMostOnce, IInv, InHand
  <2>4. WereForwarded' = WereForwarded \cup {cmd}
    BY <1>1, <2>1 DEF WereForwarded
  <2>5. ForwardedTimes' = ForwardedTimes \cup {sent[cmd]}
    BY <1>2, <2>4 DEF ForwardedTimes
  <2>6. Remembered'
    BY <1>1, <1>2, <2>1 DEF IInv, Remembered, Entries
  <2>7. Accepted \subseteq Accepted'
    BY <1>4, <2>4 DEF Accepted
  <2>8. \A k \in Msg : forwarded'[k] > 0 => sent'[k] \in Time
    BY <1>1, <1>2, <2>1 DEF IInv
  <2>9. {sent[k] : k \in Accepted} \subseteq {sent'[k] : k \in Accepted'}
    BY <1>2, <2>7
  <2> QED
    BY <1>2, <1>3, <1>4, <2>2, <2>3, <2>5, <2>6, <2>8, <2>9 DEF IInv, Entries
<1>5. CASE /\ unforwarded' = unforwarded \cup {cmd}
           /\ forwarded' = forwarded /\ pend' = pend
  <2>1. TypeOK'
    BY <1>1, <1>2, <1>5 DEF TypeOK
  <2>2. WereForwarded' = WereForwarded /\ ForwardedTimes' = ForwardedTimes
    BY <1>2, <1>5 DEF WereForwarded, ForwardedTimes
  <2>3. Accepted \subseteq Accepted'
    BY <1>5, <2>2 DEF Accepted
  <2>4. {sent[k] : k \in Accepted} \subseteq {sent'[k] : k \in Accepted'}
    BY <1>2, <2>3
  <2>5. Remembered' /\ AtMostOnce'
    BY <1>2, <1>5 DEF IInv, Remembered, AtMostOnce, Entries
  <2>6. \A k \in unforwarded' : sent'[k] \in Time
    BY <1>1, <1>2, <1>5 DEF IInv
  <2> QED
    BY <1>2, <1>3, <1>5, <2>1, <2>2, <2>4, <2>5, <2>6 DEF IInv, Entries
<1> QED
  BY <1>4, <1>5 DEF Forward

\* Answers and senders touch neither the list nor what was forwarded.
LEMMA AnswerInv == ASSUME IInv, Answer PROVE IInv'
<1>1. pend' = None /\ acks' \in {acks, acks \cup {pend}} /\ pend # None
      /\ UNCHANGED <<clock, seen, cmd, sent, forwarded, done, excused, unforwarded>>
  BY DEF Answer, history
<1>2. TypeOK'
  BY <1>1 DEF IInv, TypeOK
<1>3. ForwardedTimes' = ForwardedTimes /\ Accepted' = Accepted
  BY <1>1 DEF ForwardedTimes, WereForwarded, Accepted
<1> QED
  BY <1>1, <1>2, <1>3 DEF IInv, Remembered, InHand, AtMostOnce

LEMMA PollInv == ASSUME IInv, NEW m \in Msg, Poll(m) PROVE IInv'
<1>1. done' = done \cup {m} /\ sent[m] \in acks
      /\ UNCHANGED <<clock, seen, cmd, pend, sent, forwarded, acks, excused, unforwarded>>
  BY DEF Poll, listener, history
<1>2. TypeOK'
  BY <1>1 DEF IInv, TypeOK
<1>3. ForwardedTimes' = ForwardedTimes /\ Accepted' = Accepted
  BY <1>1 DEF ForwardedTimes, WereForwarded, Accepted
<1> QED
  BY <1>1, <1>2, <1>3 DEF IInv, Remembered, InHand, AtMostOnce

\* Time going forward only makes more time stamps too old.
LEMMA TickInv == ASSUME IInv, Tick PROVE IInv'
<1>1. clock' = clock + 1 /\ clock < MaxTime
      /\ UNCHANGED <<seen, cmd, pend, sent, forwarded, acks, done, excused, unforwarded>>
  BY DEF Tick, listener, history
<1>2. TypeOK'
  BY <1>1, WindowAssumption DEF IInv, TypeOK, Time
<1>3. ForwardedTimes' = ForwardedTimes /\ Accepted' = Accepted
  BY <1>1 DEF ForwardedTimes, WereForwarded, Accepted
<1>4. Remembered'
  <2> SUFFICES ASSUME NEW m \in Msg, forwarded[m] > 0, m \notin excused,
                      sent[m] \notin Entries(seen)
               PROVE  sent[m] < (clock + 1) - Window
    BY <1>1 DEF Remembered
  <2>1. sent[m] < clock - Window
    BY DEF IInv, Remembered
  <2>2. sent[m] \in Int /\ clock \in Int /\ Window \in Int
    BY WindowAssumption DEF IInv, TypeOK, Time
  <2> QED
    BY <2>1, <2>2
<1> QED
  BY <1>1, <1>2, <1>3, <1>4 DEF IInv, InHand, AtMostOnce

\* Both steps excuse every command that was forwarded so far.
LEMMA ForgetInv == ASSUME IInv, SetBack \/ Restart PROVE IInv'
<1>1. /\ excused' = excused \cup WereForwarded
      /\ sent' = sent /\ forwarded' = forwarded /\ acks' = acks /\ done' = done
      /\ unforwarded' = unforwarded
  BY DEF SetBack, Restart, listener
<1>2. /\ clock' \in Time /\ pend' \in {pend, None}
      /\ \/ seen' = seen /\ cmd' = cmd
         \/ seen' = <<>> /\ cmd' = NoCommand
  BY DEF IInv, TypeOK, SetBack, Restart, listener
<1>3. TypeOK'
  <2>1. seen' \in Seq(Time) /\ WereForwarded \subseteq Msg
    <3>1. seen \in Seq(Time) /\ <<>> \in Seq(Time)
      BY DEF IInv, TypeOK
    <3> QED
      BY <1>2, <3>1 DEF WereForwarded
  <2> QED
    BY <1>1, <1>2, <2>1 DEF IInv, TypeOK
<1>4. ForwardedTimes' = ForwardedTimes /\ WereForwarded' = WereForwarded
  BY <1>1 DEF ForwardedTimes, WereForwarded
<1>5. Remembered' /\ AtMostOnce'
  BY <1>1 DEF IInv, Remembered, AtMostOnce, WereForwarded
<1>6. /\ Sorted(seen') /\ InHand'
      /\ Entries(seen') \subseteq {sent'[m] : m \in Accepted'}
  <2>1. CASE seen' = seen /\ cmd' = cmd
    <3>1. Accepted' = Accepted
      BY <1>1, <1>4, <2>1 DEF Accepted
    <3> QED
      BY <1>1, <2>1, <3>1 DEF IInv, InHand
  <2>2. CASE seen' = <<>> /\ cmd' = NoCommand
    BY <2>2 DEF Sorted, Entries, InHand
  <2> QED
    BY <1>2, <2>1, <2>2
<1> QED
  BY <1>1, <1>2, <1>3, <1>4, <1>5, <1>6 DEF IInv, Entries

LEMMA StutterInv == ASSUME IInv, UNCHANGED vars PROVE IInv'
<1>1. TypeOK'
  BY DEF IInv, TypeOK, vars, listener, history
<1>2. ForwardedTimes' = ForwardedTimes /\ Accepted' = Accepted
  BY DEF ForwardedTimes, WereForwarded, Accepted, vars, listener, history
<1> QED
  BY <1>1, <1>2 DEF IInv, Remembered, InHand, AtMostOnce, vars, listener, history

\* The invariant is inductive: besides what was forwarded it has to follow a
\* command from its verification to the sendto that may raise.
THEOREM Inductive == Spec => []IInv
<1>1. IInv /\ [Next]_vars => IInv'
  BY SendInv, ReceiveInv, ForwardInv, AnswerInv, PollInv, TickInv, ForgetInv, StutterInv
     DEF Next
<1> QED
  BY InitInv, <1>1, PTL DEF Spec

-----------------------------------------------------------------------------
(* What follows from it *)

\* A command is forwarded a second time only after the clock was set back or
\* the listener restarted, for any window and any number of copies of it.
THEOREM ForwardedOnce == Spec => []AtMostOnce
BY Inductive, PTL DEF IInv

\* The list that the pruning loop and the search for duplicates rely on is
\* strictly increasing.
THEOREM ListSorted == Spec => []SortedSeen
<1>1. IInv => SortedSeen
  BY DEF IInv, Sorted, SortedSeen
<1> QED
  BY <1>1, Inductive, PTL

\* Every entry of the list, which makes a resend be refused, belongs to a
\* command that was forwarded, is about to be or met a sendto that raised.
THEOREM OnlyAcceptedRefused == Spec => []RefusedForCause
<1>1. IInv => RefusedForCause
  <2> SUFFICES ASSUME IInv, NEW i \in 1 .. Len(seen)
               PROVE  \E m \in Msg : /\ sent[m] = seen[i]
                                     /\ forwarded[m] > 0 \/ m = cmd \/ m \in unforwarded
    BY DEF RefusedForCause
  <2>1. seen[i] \in Entries(seen)
    BY DEF Entries
  <2>2. PICK m \in Accepted : sent[m] = seen[i]
    BY <2>1 DEF IInv
  <2>3. m \in Msg
    BY DEF IInv, TypeOK, Accepted, WereForwarded
  <2> QED
    BY <2>2, <2>3 DEF Accepted, WereForwarded
<1> QED
  BY <1>1, Inductive, PTL

\* A sender never returns before a command with its time stamp was forwarded,
\* whichever sendto raised before.
THEOREM AnswersHonest == Spec => []AckHonest
<1>1. IInv => AckHonest
  BY DEF IInv, AckHonest, ForwardedTimes, WereForwarded
<1> QED
  BY <1>1, Inductive, PTL

\* The variables keep their ranges.
THEOREM TypeCorrect == Spec => []TypeOK
BY Inductive, PTL DEF IInv

=============================================================================
