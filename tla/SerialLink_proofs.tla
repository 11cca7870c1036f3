-------------------------- MODULE SerialLink_proofs --------------------------
(***************************************************************************)
(* Safety of the bluetooth half of serial_monitor.py, for any number of    *)
(* connection processes and queries of any length.                         *)
(***************************************************************************)
EXTENDS SerialLink, TLAPS

\* A process that runs is in the list and in the poller: what was terminated
\* is not forgotten before it is dead.
Kept == live \subseteq listed \cap watched

ProcsInv == NoStray /\ Kept

\* The parser is where the unit is, unless a read ended inside of it.
InStep ==
  /\ {in_query, telesc, cut} \subseteq BOOLEAN
  /\ unit \in {"none", "query", "escape"}
  /\ unit = "none"   => ~in_query /\ ~telesc
  /\ unit = "query"  => ~telesc /\ (~cut => in_query /\ qbuf = body)
  /\ unit = "escape" => ~in_query /\ (~cut => telesc)

ParserInv == WholeUnitsArrive /\ InStep

-----------------------------------------------------------------------------
(* Processes *)

\* Whatever process is followed next, nothing that runs is forgotten; no
\* process ends its pipe before it is dead.
LEMMA FollowLemma ==
  ASSUME ProcsInv, NEW p, NEW ended, ended \subseteq watched \ live, NEW reap \in BOOLEAN,
         Follow(p, ended, reap)
  PROVE  ProcsInv'
<1> DEFINE new   == {p} \ (watched \cup {None})
           runs  == live \cup new
           all   == (listed \cup new) \ ended
           procs == IF reap THEN Reaped(all, runs) ELSE all
<1>1. /\ cur' = p /\ live' = runs /\ listed' = procs
      /\ watched' = ((watched \ ended) \cup new) \cap (procs \cup {p})
      /\ told' = (IF p = cur THEN told ELSE told \cup ({cur} \cap live)) \cap watched'
  BY DEF Follow, Terminated
<1>2. new \cap ended = {} /\ ended \cap live = {} /\ live \subseteq listed /\ live \subseteq watched
  BY DEF ProcsInv, Kept
<1>3. runs \subseteq all BY <1>2
<1>4. runs \subseteq procs BY <1>3 DEF Reaped
<1>5. Kept' BY <1>1, <1>2, <1>4 DEF Kept
<1>6. NoStray'
  <2>1. SUFFICES ASSUME NEW x \in live', x \notin told' PROVE x = p
    BY <1>1 DEF NoStray
  <2>2. x \in watched' BY <1>5, <2>1 DEF Kept
  <2>3. CASE x \in new BY <2>3
  <2>4. CASE x \in live
    <3>1. x \notin told /\ (p # cur => x # cur) BY <1>1, <2>1, <2>2, <2>4
    <3>2. x = cur BY <2>4, <3>1 DEF ProcsInv, NoStray
    <3> QED BY <3>1, <3>2
  <2> QED BY <1>1, <2>1, <2>3, <2>4
<1> QED BY <1>5, <1>6 DEF ProcsInv

LEMMA InitProcs == Init => ProcsInv
BY DEF Init, ProcsInv, NoStray, Kept

LEMMA NextProcs == ProcsInv /\ [Next]_vars => ProcsInv'
<1> SUFFICES ASSUME ProcsInv, [Next]_vars PROVE ProcsInv' OBVIOUS
<1>1. ASSUME NEW ended, ended \subseteq watched \ live, Reconnect(ended) PROVE ProcsInv'
  BY <1>1, FollowLemma DEF Reconnect
<1>2. CASE Tick
  <2>1. PICK p : Follow(p, {}, TRUE) BY <1>2 DEF Tick, TickWith
  <2> QED BY <2>1, FollowLemma
<1>3. CASE ReadEnd
  <2>1. PICK p \in watched \ (live \cup unread) : Reconnect({p}) BY <1>3 DEF ReadEnd
  <2> QED BY <2>1, <1>1
<1>4. CASE LinkLost BY <1>1, <1>4 DEF LinkLost
<1> USE DEF ProcsInv, NoStray, Kept
<1>5. CASE ReadLine BY <1>5 DEF ReadLine
<1>6. CASE DeviceFails BY <1>6 DEF DeviceFails
<1>7. CASE Says BY <1>7 DEF Says
<1>8. CASE Dies BY <1>8 DEF Dies
<1>9. CASE GivesUp BY <1>9 DEF GivesUp
<1>10. CASE StreamNext
  BY <1>10 DEF StreamNext, BeginQuery, QueryByte, EndQuery, Text, BeginEscape, EndEscape,
               EndRead, Byte, link
<1>11. CASE UNCHANGED vars BY <1>11 DEF vars, link
<1> QED BY <1>2, <1>3, <1>4, <1>5, <1>6, <1>7, <1>8, <1>9, <1>10, <1>11 DEF Next, LinkNext

\* No order of ends, losses and ticks leaves a connection process behind that
\* is neither current nor terminated, however many there are.
THEOREM NoProcessLeft == Spec => []NoStray
<1>1. ProcsInv => NoStray BY DEF ProcsInv
<1> QED BY <1>1, InitProcs, NextProcs, PTL DEF Spec

\* While bluetooth is wanted there is a current process, which was not
\* terminated and whose line and end will be read.
Tended ==
  /\ want => cur # None
  /\ cur # None => cur \in watched \ told
  /\ None \notin watched /\ told \subseteq watched

LEMMA FollowTended ==
  ASSUME Tended, NEW p, NEW ended, NEW reap \in BOOLEAN, Follow(p, ended, reap),
         p \in {cur} \ ended \/ p \in Procs \ watched \/ p = None,
         want' => p # None
  PROVE  Tended'
<1> DEFINE new   == {p} \ (watched \cup {None})
           procs == IF reap THEN Reaped((listed \cup new) \ ended, live \cup new)
                            ELSE (listed \cup new) \ ended
<1>1. /\ cur' = p
      /\ watched' = ((watched \ ended) \cup new) \cap (procs \cup {p})
      /\ told' = (IF p = cur THEN told ELSE told \cup ({cur} \cap live)) \cap watched'
  BY DEF Follow, Terminated
<1>2. None \notin watched' BY <1>1 DEF Tended
<1>3. p # None => p \in watched'
  <2>1. CASE p \in {cur} \ ended BY <1>1, <2>1 DEF Tended
  <2>2. CASE p \in Procs \ watched BY <1>1, <2>2
  <2> QED BY <2>1, <2>2
<1>4. p # None => p \notin told'
  <2>1. CASE p = cur BY <1>1, <2>1 DEF Tended
  <2>2. CASE p # cur BY <1>1, <2>2 DEF Tended
  <2> QED BY <2>1, <2>2
<1> QED BY <1>1, <1>2, <1>3, <1>4 DEF Tended

LEMMA NextTended == Tended /\ [Next]_vars => Tended'
<1> SUFFICES ASSUME Tended, [Next]_vars PROVE Tended' OBVIOUS
<1>1. None \notin Procs BY SerialAssumption DEF None
<1>2. ASSUME NEW ended, Reconnect(ended) PROVE Tended'
  <2>1. PICK p \in Connected(want, None) : Follow(p, ended, FALSE)
    BY <1>2 DEF Reconnect
  <2>2. want' = want BY <1>2 DEF Reconnect
  <2>3. IF want THEN p \in Procs \ watched ELSE p = None BY <2>1 DEF Connected
  <2> QED BY <1>1, <2>1, <2>2, <2>3, FollowTended
<1>3. CASE Tick
  <2>1. PICK w \in BOOLEAN : TickWith(w) BY <1>3 DEF Tick
  <2>2. CASE w
    <3>1. PICK p \in Connected(TRUE, cur) : Follow(p, {}, TRUE)
      BY <2>1, <2>2 DEF TickWith
    <3>2. (p \in {cur} /\ p # None) \/ p \in Procs \ watched
      BY <3>1 DEF Connected
    <3> QED BY <1>1, <3>1, <3>2, FollowTended
  <2>3. CASE ~w
    <3>1. want' = FALSE /\ Follow(None, {}, TRUE) BY <2>1, <2>3 DEF TickWith
    <3> QED BY <3>1, FollowTended
  <2> QED BY <2>2, <2>3
<1>4. CASE ReadEnd BY <1>2, <1>4 DEF ReadEnd
<1>5. CASE LinkLost BY <1>2, <1>5 DEF LinkLost
<1> USE DEF Tended
<1>6. CASE DeviceFails BY <1>6 DEF DeviceFails
<1>7. CASE ReadLine \/ Says \/ Dies \/ GivesUp
  BY <1>7 DEF ReadLine, Says, Dies, GivesUp
<1>8. CASE StreamNext
  BY <1>8 DEF StreamNext, BeginQuery, QueryByte, EndQuery, Text, BeginEscape, EndEscape,
              EndRead, Byte, link
<1>9. CASE UNCHANGED vars BY <1>9 DEF vars, link
<1> QED BY <1>3, <1>4, <1>5, <1>6, <1>7, <1>8, <1>9 DEF Next, LinkNext

\* Bluetooth that is wanted is never left without a process that connects
\* it: whatever ends, is lost or is terminated, in any order, the end of the
\* current one is noticed.
THEOREM ConnectionTended == Spec => []Tended
<1>1. Init => Tended BY DEF Init, Tended
<1> QED BY <1>1, NextTended, PTL DEF Spec

-----------------------------------------------------------------------------
(* The stream *)

LEMMA InitParser == Init => ParserInv
BY DEF Init, ParserInv, WholeUnitsArrive, InStep

\* On a new connection parser and phone begin anew.
LEMMA AnewLemma ==
  ASSUME NewStream PROVE ParserInv'
BY DEF NewStream, ParserInv, WholeUnitsArrive, InStep

LEMMA LinkParser == ParserInv /\ LinkNext => ParserInv'
<1> SUFFICES ASSUME ParserInv, LinkNext PROVE ParserInv' OBVIOUS
<1>1. ASSUME UNCHANGED stream PROVE ParserInv'
  BY <1>1 DEF ParserInv, WholeUnitsArrive, InStep, stream
<1>2. CASE Tick BY <1>1, <1>2, AnewLemma DEF Tick, TickWith
<1>3. CASE ReadEnd \/ LinkLost BY <1>3, AnewLemma DEF ReadEnd, LinkLost, Reconnect
<1>4. CASE DeviceFails BY <1>4 DEF DeviceFails, ParserInv, WholeUnitsArrive, InStep
<1>5. CASE ReadLine \/ Says \/ Dies \/ GivesUp
  BY <1>1, <1>5 DEF ReadLine, Says, Dies, GivesUp
<1> QED BY <1>2, <1>3, <1>4, <1>5 DEF LinkNext

\* What the parser does with a byte outside of a query, and inside.
LEMMA ReceiveLemma ==
  ASSUME NEW b, Receive(b), {in_query, telesc} \subseteq BOOLEAN
  PROVE  /\ {in_query', telesc'} \subseteq BOOLEAN
         /\ b = SOH => in_query' /\ (telesc' <=> telesc) /\ qbuf' = <<>>
         /\ b = ETX => ~in_query' /\ (telesc' <=> telesc)
         /\ b = EOT => (in_query' <=> in_query) /\ telesc'
         /\ b \in {SOH, EOT} => got' = Nothing
         /\ b = ETX => got' = IF in_query /\ qbuf # <<>> THEN <<"query", qbuf>> ELSE Nothing
         /\ b \in Letters => /\ in_query' <=> in_query
                             /\ telesc' <=> telesc /\ in_query
                             /\ in_query => qbuf' = Append(qbuf, b) /\ got' = Nothing
                             /\ ~in_query => got' = <<"shell", <<IF telesc THEN b - 64 ELSE b>>>>
<1>1. SOH # ETX /\ SOH # EOT /\ ETX # EOT BY DEF SOH, ETX, EOT
<1>2. b \in Letters => b \notin {SOH, ETX, EOT} /\ b > 64 BY DEF Letters, SOH, ETX, EOT
<1>3. /\ in_query' \in BOOLEAN /\ telesc' \in BOOLEAN
      /\ in_query' <=> b = SOH \/ (b # ETX /\ in_query)
      /\ telesc' <=> b = EOT \/ (telesc /\ (b \in {SOH, ETX, EOT} \/ in_query))
  BY Zenon DEF Receive
<1>4. /\ b = SOH => qbuf' = <<>>
      /\ b \in Letters /\ in_query => qbuf' = Append(qbuf, b)
  BY <1>2 DEF Receive, NewQuery
<1>5. /\ b \in {SOH, EOT} => got' = Nothing
      /\ b = ETX => got' = IF in_query /\ qbuf # <<>> THEN <<"query", qbuf>> ELSE Nothing
      /\ b \in Letters /\ in_query => got' = Nothing
      /\ b \in Letters /\ ~in_query => got' = <<"shell", <<IF telesc THEN b - 64 ELSE b>>>>
  BY <1>1, <1>2 DEF Receive
<1> QED BY <1>1, <1>2, <1>3, <1>4, <1>5

\* Every byte takes the parser to where the phone is in what it sends.
LEMMA StreamParser == ParserInv /\ StreamNext => ParserInv'
<1> SUFFICES ASSUME ParserInv, StreamNext PROVE ParserInv' OBVIOUS
<1>1. CASE EndRead
  BY <1>1 DEF EndRead, ParserInv, WholeUnitsArrive, InStep
<1>2. ASSUME NEW b, NEW m, Byte(b, m) PROVE Receive(b) /\ meant' = m
  BY <1>2 DEF Byte
<1>3. {in_query, telesc} \subseteq BOOLEAN BY DEF ParserInv, InStep
<1> USE DEF ParserInv, WholeUnitsArrive, InStep, Begins
<1>4. CASE BeginQuery BY <1>2, <1>3, <1>4, ReceiveLemma DEF BeginQuery
<1>5. CASE QueryByte
  <2>1. PICK b \in Letters : body' = Append(body, b) /\ Byte(b, Nothing)
    BY <1>5 DEF QueryByte
  <2>2. unit = "query" /\ unit' = unit /\ cut' = cut BY <1>5 DEF QueryByte
  <2> QED BY <1>2, <1>3, <2>1, <2>2, ReceiveLemma
<1>6. CASE EndQuery
  <2>1. Byte(ETX, IF body = <<>> THEN Nothing ELSE <<"query", body>>)
    BY <1>6 DEF EndQuery
  <2>2. unit = "query" /\ unit' = "none" /\ cut' = cut BY <1>6 DEF EndQuery
  <2> QED BY <1>2, <1>3, <2>1, <2>2, ReceiveLemma
<1>7. CASE Text
  <2>1. PICK b \in Letters : Begins("none") /\ Byte(b, <<"shell", <<b>>>>)
    BY <1>7 DEF Text
  <2>2. ~in_query /\ ~telesc /\ unit' = "none" /\ cut' = FALSE BY <2>1
  <2>3. ~in_query' /\ ~telesc' /\ {in_query', telesc'} \subseteq BOOLEAN
    BY <1>2, <1>3, <2>1, <2>2, ReceiveLemma
  <2>4. got' = meant' BY <1>2, <1>3, <2>1, <2>2, ReceiveLemma
  <2> QED BY <2>2, <2>3, <2>4
<1>8. CASE BeginEscape BY <1>2, <1>3, <1>8, ReceiveLemma DEF BeginEscape
<1>9. CASE EndEscape
  <2>1. PICK b \in Letters : Byte(b, <<"shell", <<b - 64>>>>) BY <1>9 DEF EndEscape
  <2>2. unit = "escape" /\ unit' = "none" /\ cut' = cut BY <1>9 DEF EndEscape
  <2>3. ~in_query' /\ ~telesc' /\ {in_query', telesc'} \subseteq BOOLEAN
    BY <1>2, <1>3, <2>1, <2>2, ReceiveLemma
  <2>4. telesc => got' = meant' BY <1>2, <1>3, <2>1, <2>2, ReceiveLemma
  <2> QED BY <2>2, <2>3, <2>4
<1> QED BY <1>1, <1>4, <1>5, <1>6, <1>7, <1>8, <1>9 DEF StreamNext

LEMMA NextParser == ParserInv /\ [Next]_vars => ParserInv'
<1>1. ParserInv /\ UNCHANGED vars => ParserInv'
  BY DEF vars, stream, ParserInv, WholeUnitsArrive, InStep
<1> QED BY <1>1, LinkParser, StreamParser DEF Next

\* A query or escape that is read at once arrives as it was sent, for
\* queries of every length and whatever was cut before it.
THEOREM UnitsArrive == Spec => []WholeUnitsArrive
<1>1. ParserInv => WholeUnitsArrive BY DEF ParserInv
<1> QED BY <1>1, InitParser, NextParser, PTL DEF Spec

=============================================================================
