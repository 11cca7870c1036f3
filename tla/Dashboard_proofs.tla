--------------------------- MODULE Dashboard_proofs ---------------------------
(***************************************************************************)
(* Safety of the button poller, the button panel and the widget table, for *)
(* all constants.                                                          *)
(***************************************************************************)
EXTENDS GpioPoll, ButtonPanel, HudTable, SequenceTheorems, TLAPS

-----------------------------------------------------------------------------
(* The poller: edges *)

\* An expander whose edge nobody has to look at any more was read since.
ReadSince ==
  \A e \in Expanders \ deaf :
    /\ val[e] = latched[e]
    /\ e \notin pending \cup batch => latched[e] = Pins(e, knob, down)

EdgesInv ==
  /\ val \in [Expanders -> BOOLEAN \X BOOLEAN]
  /\ latched \in [Expanders -> BOOLEAN \X BOOLEAN]
  /\ down \in BOOLEAN
  /\ polling => batch = {}
  /\ ReadSince
  /\ polling => blast = val[0][2] /\ rlast = Code(val[1][1], val[0][1])

LEMMA PinsLemma ==
  ASSUME NEW e, NEW k, NEW d \in BOOLEAN
  PROVE  Pins(e, k, d) \in BOOLEAN \X BOOLEAN
<1>1. Pin1(k) \in BOOLEAN /\ Pin2(k) \in BOOLEAN BY DEF Pin1, Pin2
<1> QED BY <1>1 DEF Pins

LEMMA InitEdges == PollInit => EdgesInv
<1> SUFFICES ASSUME PollInit PROVE EdgesInv OBVIOUS
<1>1. val[1] = <<FALSE, FALSE>> /\ val[0] = <<FALSE, FALSE>>
  <2>1. 0 \in Expanders /\ 1 \in Expanders BY DEF Expanders
  <2> QED BY <2>1 DEF PollInit, Open
<1>2. blast = val[0][2] /\ rlast = Code(val[1][1], val[0][1])
  <2>1. ~val[1][1] /\ ~val[0][1] /\ val[0][2] = FALSE BY <1>1
  <2>2. Code(val[1][1], val[0][1]) = 0 BY <2>1 DEF Code
  <2> QED BY <2>1, <2>2 DEF PollInit
<1>3. /\ val \in [Expanders -> BOOLEAN \X BOOLEAN]
      /\ latched \in [Expanders -> BOOLEAN \X BOOLEAN]
      /\ down \in BOOLEAN
  BY DEF PollInit, Open
<1> QED BY <1>2, <1>3 DEF PollInit, EdgesInv, ReadSince

LEMMA NextEdges == EdgesInv /\ [PollNext]_pollVars => EdgesInv'
<1> SUFFICES ASSUME EdgesInv, [PollNext]_pollVars PROVE EdgesInv' OBVIOUS
<1> USE DEF EdgesInv
<1>0. ASSUME NEW k, NEW d \in BOOLEAN, Change(k, d) PROVE EdgesInv'
  <2>1. UNCHANGED <<val, latched, deaf, batch, polling, blast, rlast>> /\ knob' = k /\ down' = d
    BY <1>0 DEF Change, button, rotor
  <2>2. \A e \in Expanders : e \notin pending' =>
          e \notin pending /\ ~Falls(e, k, d)
    BY <1>0 DEF Change
  <2>3. ReadSince' BY <2>1, <2>2 DEF ReadSince, Falls
  <2> QED BY <2>1, <2>3
<1>1. CASE Turn \/ Press
  <2>1. (~down) \in BOOLEAN OBVIOUS
  <2> QED BY <1>0, <1>1, <2>1 DEF Turn, Press
<1>2. CASE Wait BY <1>2 DEF Wait, ReadSince, outside, rotor, button
<1>3. CASE Read
  <2>1. PICK e \in batch : /\ val' = [val EXCEPT ![e] = Pins(e, knob, down)]
                           /\ latched' = [latched EXCEPT ![e] = Pins(e, knob, down)]
                           /\ batch' = batch \ {e} /\ deaf' = deaf \ {e}
    BY <1>3 DEF Read
  <2>2. UNCHANGED <<knob, down, pending, polling>> /\ ~polling
    BY <1>3 DEF Read, outside
  <2>3. Pins(e, knob, down) \in BOOLEAN \X BOOLEAN BY PinsLemma
  <2>4. ReadSince' BY <2>1, <2>2 DEF ReadSince
  <2> QED BY <2>1, <2>2, <2>3, <2>4
<1>4. CASE ReadFails
  <2>1. PICK e \in batch : /\ \E pins \in {Open, val[e]} : val' = [val EXCEPT ![e] = pins]
                           /\ batch' = batch \ {e} /\ deaf' = deaf \cup {e}
    BY <1>4 DEF ReadFails
  <2>2. UNCHANGED <<knob, down, latched, pending, polling>> /\ ~polling
    BY <1>4 DEF ReadFails, outside
  <2>3. val' \in [Expanders -> BOOLEAN \X BOOLEAN]
    <3>1. PICK pins \in {Open, val[e]} : val' = [val EXCEPT ![e] = pins] BY <2>1
    <3>2. Open \in BOOLEAN \X BOOLEAN BY DEF Open
    <3>3. pins = Open \/ pins = val[e] BY <3>1
    <3> QED BY <3>1, <3>2, <3>3
  <2>4. ReadSince' BY <2>1, <2>2 DEF ReadSince
  <2> QED BY <2>1, <2>2, <2>3, <2>4
<1>5. CASE EndRound
  <2>1. UNCHANGED <<knob, down, latched, pending, batch, val, deaf>> /\ batch = {}
    BY <1>5 DEF EndRound, outside
  <2>2. blast' = val[0][2] /\ rlast' = Code(val[1][1], val[0][1])
    BY <1>5 DEF EndRound, Rotor, Button
  <2> QED BY <2>1, <2>2 DEF ReadSince
<1>6. CASE Tick
  <2>1. UNCHANGED <<knob, down, latched, pending, batch, polling, val, deaf, blast, rlast>>
    BY <1>6 DEF Tick, outside, rotor
  <2> QED BY <2>1 DEF ReadSince
<1>7. CASE UNCHANGED pollVars
  <2>1. UNCHANGED <<knob, down, latched, pending, batch, polling, val, deaf, blast, rlast>>
    BY <1>7 DEF pollVars, outside, rotor, button
  <2> QED BY <2>1 DEF ReadSince
<1> QED BY <1>1, <1>2, <1>3, <1>4, <1>5, <1>6, <1>7 DEF PollNext

\* No change of a contact is missed, whenever it comes between the reads of
\* a round, unless a read fails.
THEOREM EdgesSeen == PollSpec => []NothingMissed
<1>1. EdgesInv => NothingMissed BY DEF EdgesInv, NothingMissed, ReadSince
<1> QED BY <1>1, InitEdges, NextEdges, PTL DEF PollSpec

-----------------------------------------------------------------------------
(* The poller: turns *)

\* Rounds that may end before the contacts move again: the one that runs, and
\* one for the edges that wait.
Rounds == (IF polling THEN 0 ELSE 1) + (IF pending = {} THEN 0 ELSE 1)

\* The count goes from the last detent to the position seen last, and each
\* round that may end can take that position one step further away.
TurnsInv ==
  /\ knob \in Int
  /\ ~late => /\ turns \in Int /\ known \in Int /\ count \in -3 .. 3
              /\ rlast = known % 4 /\ known = 4 * turns + count
              /\ Rounds + knob - known <= 3 /\ Rounds + known - knob <= 3
  /\ TurnsTrue

LEMMA InitTurns == PollInit => TurnsInv
<1> SUFFICES ASSUME PollInit PROVE TurnsInv OBVIOUS
<1>1. Rounds = 1 BY DEF PollInit, Rounds, Expanders
<1> QED BY <1>1 DEF PollInit, TurnsInv, TurnsTrue

\* A code that is not two away is that of one position next to the last, and
\* the difference in eight bits is the step to it.
LEMMA StepLemma ==
  ASSUME NEW k \in Int, NEW new \in 0 .. 3, new # (k + 2) % 4
  PROVE  /\ (CHOOSE p \in k - 1 .. k + 1 : p % 4 = new) = k + Step(new, k % 4)
         /\ Step(new, k % 4) \in -1 .. 1
         /\ (k + Step(new, k % 4)) % 4 = new
<1>1. PICK q \in Int, r \in 0 .. 3 : k = 4 * q + r /\ k % 4 = r
  <2>1. k = 4 * (k \div 4) + (k % 4) /\ k % 4 \in 0 .. 3 /\ k \div 4 \in Int
    OBVIOUS
  <2> QED BY <2>1
<1>2. \A p \in k - 1 .. k + 1 : p % 4 = new <=> p = k + Step(new, r)
  BY <1>1 DEF Step
<1>3. Step(new, r) \in -1 .. 1
  BY <1>1 DEF Step
<1>4. k + Step(new, r) \in k - 1 .. k + 1
  BY <1>3
<1> QED
  BY <1>1, <1>2, <1>3, <1>4

LEMMA RotorTurns == TurnsInv /\ EndRound => TurnsInv'
<1> SUFFICES ASSUME TurnsInv, EndRound PROVE TurnsInv' OBVIOUS
<1> DEFINE new == Code(val[1][1], val[0][1])
           ofs == Step(new, rlast)
           sum == count + ofs
           clicked == ofs # 0 /\ new = 0
           event == IF clicked /\ sum \in {-4, 4} THEN sum \div 4 ELSE 0
           missed == late \/ new = (known + 2) % 4
<1>1. /\ ~polling /\ polling' /\ UNCHANGED <<knob, pending>>
      /\ rlast' = new
      /\ count' = IF clicked THEN 0 ELSE sum
      /\ late' = missed
      /\ turns' = IF missed THEN 0 ELSE turns + event
      /\ known' = IF missed THEN 0
                  ELSE CHOOSE p \in known - 1 .. known + 1 : p % 4 = new
  BY DEF EndRound, Rotor, outside
<1>2. new \in 0 .. 3 BY DEF Code
<1>3. CASE missed
  BY <1>1, <1>3 DEF TurnsInv, TurnsTrue
<1>4. CASE ~missed
  <2> HIDE DEF new
  <2>1. /\ known \in Int /\ rlast = known % 4 /\ turns \in Int /\ count \in -3 .. 3
        /\ known = 4 * turns + count
        /\ knob \in Int /\ Rounds + knob - known <= 3 /\ Rounds + known - knob <= 3
        /\ (4 * turns) - knob \in -4 .. 4
    BY <1>4 DEF TurnsInv, TurnsTrue
  <2>2. known' = known + ofs /\ ofs \in -1 .. 1 /\ (known + ofs) % 4 = new
    BY <1>1, <1>2, <1>4, <2>1, StepLemma
  <2> HIDE DEF ofs
  <2>3. Rounds = Rounds' + 1 /\ Rounds' \in 0 .. 1
    BY <1>1 DEF Rounds
  <2>4. sum % 4 = new /\ sum \in -4 .. 4 /\ known + ofs = 4 * turns + sum
    BY <2>1, <2>2
  <2>5. /\ count' \in -3 .. 3 /\ turns' \in Int /\ known' = 4 * turns' + count'
        /\ turns' = turns \/ 4 * turns' = known'
    <3>1. CASE clicked
      <4>1. sum \in {-4, 0, 4} BY <2>4, <3>1
      <4> QED BY <1>1, <1>4, <2>1, <2>2, <2>4, <3>1, <4>1
    <3>2. CASE ~clicked
      <4>1. sum \in -3 .. 3 BY <2>1, <2>2, <2>4, <3>2
      <4> QED BY <1>1, <1>4, <2>1, <2>2, <2>4, <3>2, <4>1
    <3> QED BY <3>1, <3>2
  <2>6. /\ known' \in Int /\ knob' \in Int
        /\ Rounds' + knob' - known' <= 3 /\ Rounds' + known' - knob' <= 3
    <3>1. knob' = knob BY <1>1
    <3>2. ASSUME NEW n \in 0 .. 1, NEW p \in Int, p = known + ofs, Rounds = n + 1
          PROVE  n + knob - p <= 3 /\ n + p - knob <= 3
      BY <2>1, <2>2, <3>2
    <3>3. known' \in Int BY <2>1, <2>2
    <3> QED BY <2>1, <2>2, <2>3, <3>1, <3>2, <3>3
  <2>7. (4 * turns') - knob' \in -4 .. 4
    <3>1. knob' = knob BY <1>1
    <3>2. CASE turns' = turns BY <2>1, <3>1, <3>2
    <3>3. CASE 4 * turns' = known'
      <4>1. ASSUME NEW n \in 0 .. 1, NEW p \in Int, NEW k \in Int,
                   n + k - p <= 3, n + p - k <= 3
            PROVE  p - k \in -4 .. 4
        BY <4>1
      <4>2. known' - knob' \in -4 .. 4 BY <2>3, <2>6, <4>1
      <4> QED BY <3>3, <4>2
    <3> QED BY <2>5, <3>2, <3>3
  <2>8. rlast' = known' % 4
    BY <1>1, <2>2
  <2> QED
    BY <2>5, <2>6, <2>7, <2>8 DEF TurnsInv, TurnsTrue
<1> QED BY <1>3, <1>4

LEMMA NextTurns == TurnsInv /\ [PollNext]_pollVars => TurnsInv'
<1> SUFFICES ASSUME TurnsInv, [PollNext]_pollVars PROVE TurnsInv' OBVIOUS
<1>0. ASSUME NEW k \in Int, NEW d, Change(k, d) PROVE TurnsInv'
  <2>1. /\ UNCHANGED <<polling, turns, known, count, rlast>> /\ knob' = k
        /\ late' = (late \/ k - known \notin -1 .. 1)
    BY <1>0 DEF Change, rotor
  <2>2. Rounds' \in 0 .. 2 BY DEF Rounds
  <2>3. CASE late BY <1>0, <2>1, <2>3 DEF TurnsInv, TurnsTrue
  <2>4. CASE ~late /\ k - known \notin -1 .. 1
    BY <1>0, <2>1, <2>4 DEF TurnsInv, TurnsTrue
  <2>5. CASE ~late /\ k - known \in -1 .. 1
    BY <1>0, <2>1, <2>2, <2>5 DEF TurnsInv, TurnsTrue
  <2> QED BY <2>3, <2>4, <2>5
<1>1. CASE Turn
  <2>1. PICK k \in {knob - 1, knob + 1} : Change(k, down) BY <1>1 DEF Turn
  <2>2. k \in Int BY <2>1 DEF TurnsInv
  <2> QED BY <1>0, <2>1, <2>2
<1>2. CASE Press
  <2>1. knob \in Int BY DEF TurnsInv
  <2> QED BY <1>0, <1>2, <2>1 DEF Press
<1>3. CASE Wait
  <2>1. UNCHANGED <<knob, rlast, count, turns, known, late>> BY <1>3 DEF Wait, outside, rotor
  <2>2. Rounds' = Rounds BY <1>3 DEF Wait, Rounds
  <2> QED BY <2>1, <2>2 DEF TurnsInv, TurnsTrue
<1>4. CASE Read \/ ReadFails \/ Tick \/ UNCHANGED pollVars
  <2>1. UNCHANGED <<knob, rlast, count, turns, known, late, polling, pending>>
    BY <1>4 DEF Read, ReadFails, Tick, pollVars, outside, rotor
  <2>2. Rounds' = Rounds BY <2>1 DEF Rounds
  <2> QED BY <2>1, <2>2 DEF TurnsInv, TurnsTrue
<1>5. CASE EndRound BY <1>5, RotorTurns
<1> QED BY <1>1, <1>2, <1>3, <1>4, <1>5 DEF PollNext

\* The events of the switch add up to the detents it was turned, however far
\* it is turned and whenever its contacts are read or cannot be read, as long
\* as the poller is never two quarter steps behind.
THEOREM TurnsRight == PollSpec => []TurnsTrue
<1>1. TurnsInv => TurnsTrue BY DEF TurnsInv
<1> QED BY <1>1, InitTurns, NextTurns, PTL DEF PollSpec

-----------------------------------------------------------------------------
(* The poller: actions *)

\* A press that is held runs down to its long action, and has had an action
\* when it has run down.
HoldInv ==
  /\ debounce \in 0 .. DebounceTicks /\ long_press \in 0 .. LongTime /\ acts \in 0 .. 2
  /\ hold \in {"none", "held", "over"} /\ blast \in BOOLEAN /\ again \in BOOLEAN
  /\ hold # "held" => long_press = 0
  /\ hold = "none" => acts = 0
  /\ hold = "over" => acts >= 1
  /\ hold = "held" /\ long_press = 0 => acts >= 1
  /\ ~again => /\ acts <= 1
               /\ hold = "held" /\ long_press # 0 => acts = 0

LEMMA InitHold == PollInit => HoldInv
<1> SUFFICES ASSUME PollInit PROVE HoldInv OBVIOUS
<1>1. /\ hold = "none" /\ acts = 0 /\ debounce = 0 /\ long_press = 0
      /\ blast = FALSE /\ again = FALSE
  BY DEF PollInit
<1>2. blast \in BOOLEAN /\ again \in BOOLEAN BY <1>1
<1> QED BY <1>1, <1>2, PollAssumption DEF HoldInv

\* What a tick does to the actions of a hold.
LEMMA TickHold == HoldInv /\ Tick => HoldInv'
<1> SUFFICES ASSUME HoldInv, Tick PROVE HoldInv' OBVIOUS
<1> USE PollAssumption
<1>1. /\ debounce \in 0 .. DebounceTicks /\ long_press \in 0 .. LongTime /\ acts \in 0 .. 2
      /\ hold \in {"none", "held", "over"} /\ blast \in BOOLEAN /\ again \in BOOLEAN
  BY DEF HoldInv
<1>2. blast' = blast /\ debounce' = IF debounce > 0 THEN debounce - 1 ELSE 0
  BY DEF Tick
<1>3. debounce' \in 0 .. DebounceTicks /\ blast' \in BOOLEAN BY <1>1, <1>2
<1>4. CASE debounce = 1 /\ blast
  <2>1. /\ long_press' = LongTime - 1 /\ hold' = "held"
        /\ acts' = Upto2((IF hold # "held" THEN 0 ELSE acts) + 0 + LongAct(LongTime))
    BY <1>1, <1>4 DEF Tick, ShortAct
  <2>2. again' = IF hold # "held" THEN FALSE ELSE again \/ acts > 0
    BY <1>4 DEF Tick
  <2>3. again' \in BOOLEAN /\ (again' <=> hold = "held" /\ (again \/ acts > 0))
    BY <1>1, <2>2
  <2>4. acts' = IF hold # "held" \/ acts = 0 THEN (IF LongTime = 1 THEN 1 ELSE 0)
                ELSE IF LongTime = 1 /\ acts = 1 THEN 2 ELSE acts
    BY <1>1, <2>1 DEF Upto2, LongAct
  <2> QED BY <1>1, <1>3, <2>1, <2>3, <2>4 DEF HoldInv
<1>5. CASE debounce = 1 /\ ~blast
  <2>1. /\ long_press' = 0
        /\ hold' = IF hold = "held" THEN "over" ELSE hold
        /\ acts' = Upto2(acts + (IF long_press = 0 THEN 0 ELSE 1) + 0)
    BY <1>1, <1>5 DEF Tick, ShortAct, LongMark, LongAct
  <2>2. again' = (again \/ FALSE) BY <1>5 DEF Tick
  <2>3. again' \in BOOLEAN /\ (again' <=> again) BY <1>1, <2>2
  <2>4. acts' = IF acts + (IF long_press = 0 THEN 0 ELSE 1) > 2 THEN 2
                ELSE acts + (IF long_press = 0 THEN 0 ELSE 1)
    BY <1>1, <2>1 DEF Upto2
  <2> QED BY <1>1, <1>3, <2>1, <2>3, <2>4 DEF HoldInv
<1>6. CASE debounce # 1
  <2>1. /\ long_press' = (IF long_press > 0 THEN long_press - 1 ELSE 0) /\ hold' = hold
        /\ acts' = Upto2(acts + 0 + LongAct(long_press))
    BY <1>1, <1>6 DEF Tick, ShortAct
  <2>2. again' = (again \/ FALSE) BY <1>6 DEF Tick
  <2>3. again' \in BOOLEAN /\ (again' <=> again) BY <1>1, <2>2
  <2>4. acts' = IF long_press = 1 THEN (IF acts = 2 THEN 2 ELSE acts + 1) ELSE acts
    BY <1>1, <2>1 DEF Upto2, LongAct
  <2> QED BY <1>1, <1>3, <2>1, <2>3, <2>4 DEF HoldInv
<1> QED BY <1>1, <1>4, <1>5, <1>6

LEMMA NextHold == EdgesInv /\ HoldInv /\ [PollNext]_pollVars => HoldInv'
<1> SUFFICES ASSUME EdgesInv, HoldInv, [PollNext]_pollVars PROVE HoldInv' OBVIOUS
<1>1. ASSUME UNCHANGED button PROVE HoldInv'
  BY <1>1 DEF button, HoldInv
<1>2. CASE Turn \/ Press \/ Wait \/ Read \/ ReadFails \/ UNCHANGED pollVars
  BY <1>1, <1>2 DEF Turn, Press, Change, Wait, Read, ReadFails, pollVars
<1>3. CASE EndRound
  <2>1. val[0][2] \in BOOLEAN BY DEF EdgesInv, Expanders
  <2>2. /\ blast' = val[0][2] /\ UNCHANGED <<long_press, hold, acts, again>>
        /\ debounce' \in {debounce, DebounceTicks}
    BY <1>3 DEF EndRound, Button
  <2>3. debounce' \in 0 .. DebounceTicks BY <2>2, PollAssumption DEF HoldInv
  <2> QED BY <2>1, <2>2, <2>3 DEF HoldInv
<1>4. CASE Tick BY <1>4, TickHold
<1> QED BY <1>2, <1>3, <1>4 DEF PollNext

\* Every press that is reported leads to one action, the long or the short
\* one, and to a second only if it was reported again after the first, for
\* every LONG_PRESS_TIME and every length of the debounce.
THEOREM OneAction == PollSpec => []OneActionPerHold
<1>1. HoldInv => OneActionPerHold BY DEF HoldInv, OneActionPerHold
<1> QED BY <1>1, InitEdges, NextEdges, InitHold, NextHold, PTL DEF PollSpec

-----------------------------------------------------------------------------
(* The panel: positions *)

MenuColumns == {4 * c : c \in 0 .. (Items - 1) \div 4}

PositionsInv ==
  /\ length \in Nat /\ menu_pos \in Int
  /\ PositionsInRange

LEMMA InitPositions == PanelInit => PositionsInv
BY PanelAssumption DEF PanelInit, PositionsInv, PositionsInRange

\* The column the menu begins with has items.
LEMMA MenuStart ==
  4 * ((((Items + 3) \div 4) - 1) \div 2) \in MenuColumns
<1> DEFINE c == (((Items + 3) \div 4) - 1) \div 2
<1>1. c \in 0 .. (Items - 1) \div 4 BY PanelAssumption
<1> HIDE DEF c
<1>2. 4 * c \in MenuColumns BY <1>1 DEF MenuColumns
<1> QED BY <1>2 DEF c

\* ... and so has the next, as far as the menu is turned.
LEMMA MenuTurn ==
  ASSUME menu_pos \in MenuColumns, NEW d \in Rotors, NEW p \in MenuTurned(d)
  PROVE  p \in MenuColumns
<1>1. PICK c \in 0 .. (Items - 1) \div 4 : menu_pos = 4 * c BY DEF MenuColumns
<1>2. p = 4 * (c + d) /\ (IF d = 1 THEN menu_pos < Items - 4 ELSE menu_pos > 3)
  BY <1>1 DEF MenuTurned, Rotors
<1>3. c + d \in 0 .. (Items - 1) \div 4 BY <1>1, <1>2, PanelAssumption DEF Rotors
<1> QED BY <1>2, <1>3 DEF MenuColumns

LEMMA NextPositions == PositionsInv /\ [PanelNext]_panelVars => PositionsInv'
<1> SUFFICES ASSUME PositionsInv, [PanelNext]_panelVars PROVE PositionsInv' OBVIOUS
<1> USE PanelAssumption DEF PositionsInv, PositionsInRange
<1>1. CASE EnterTextEntry BY <1>1 DEF EnterTextEntry
<1>2. CASE EnterMenu
  <2>1. menu_pos' \in MenuColumns BY <1>2, MenuStart DEF EnterMenu
  <2>2. UNCHANGED entry BY <1>2 DEF EnterMenu
  <2> QED BY <2>1, <2>2 DEF entry, MenuColumns
<1>3. CASE EnterMedia \/ Exit BY <1>3 DEF EnterMedia, Exit, Enter, entry
<1>4. CASE EndText BY <1>4 DEF EndText, Enter
<1>5. CASE TurnMenu
  <2>1. mode = "menu" /\ UNCHANGED <<mode, entry>> BY <1>5 DEF TurnMenu
  <2>2. menu_pos \in MenuColumns BY <2>1 DEF MenuColumns
  <2>3. menu_pos' \in MenuColumns BY <1>5, <2>2, MenuTurn DEF TurnMenu
  <2> QED BY <2>1, <2>3 DEF entry, MenuColumns
<1>6. CASE Select
  <2>1. mode = "menu" /\ UNCHANGED <<menu_pos, entry>> BY <1>6 DEF Select
  <2> QED BY <2>1 DEF entry
<1>7. CASE TurnColumn BY <1>7 DEF TurnColumn
<1>8. CASE TurnCursor BY <1>8 DEF TurnCursor
<1>9. CASE Insert BY <1>9 DEF Insert
<1>10. CASE Backspace BY <1>10 DEF Backspace
<1>11. CASE PanelReload BY <1>11 DEF PanelReload
<1>12. CASE PlayPause \/ Report \/ SetAutoPause \/ Obey \/ PhoneUser \/ UNCHANGED panelVars
  <2>1. UNCHANGED <<mode, menu_pos, entry>>
    BY <1>12 DEF PlayPause, Report, SetAutoPause, Obey, PhoneUser, panelVars
  <2> QED BY <2>1 DEF entry
<1> QED BY <1>1, <1>2, <1>3, <1>4, <1>5, <1>6, <1>7, <1>8, <1>9, <1>10, <1>11, <1>12
        DEF PanelNext

\* No sequence of buttons takes the menu, the columns or the cursor out of
\* their ranges, for menus and texts of any size.
THEOREM PositionsRight == PanelSpec => []PositionsInRange
<1>1. PositionsInv => PositionsInRange BY DEF PositionsInv
<1> QED BY <1>1, InitPositions, NextPositions, PTL DEF PanelSpec

-----------------------------------------------------------------------------
(* The panel: music *)

Messages == {"play", "pause", "playpause"}

MusicTypes ==
  /\ commands \in Seq(Messages) /\ reports \in Seq(BOOLEAN)
  /\ playing \in BOOLEAN /\ music \in BOOLEAN /\ owed \in BOOLEAN
  /\ autopause \in BOOLEAN /\ auto_resume \in BOOLEAN

\* Once all commands have been obeyed, the music plays.
WillPlay ==
  IF commands = <<>> THEN music = TRUE ELSE commands[Len(commands)] = "play"

\* Leaving text entry will resume the music, or it needs nothing more.
MusicInv ==
  /\ MusicTypes
  /\ mode # "textent" => auto_resume = FALSE
  /\ owed => (autopause /\ auto_resume) \/ WillPlay

LEMMA InitMusic == PanelInit => MusicInv
<1> SUFFICES ASSUME PanelInit PROVE MusicInv OBVIOUS
<1>1. commands \in Seq(Messages) /\ reports \in Seq(BOOLEAN)
  BY EmptySeq DEF PanelInit
<1> QED BY <1>1 DEF PanelInit, MusicInv, MusicTypes

LEMMA ResumeLemma ==
  ASSUME MusicTypes
  PROVE  /\ Resume = (IF autopause /\ auto_resume THEN <<"play">> ELSE <<>>)
         /\ (commands \o Resume) \in Seq(Messages)
         /\ autopause /\ auto_resume =>
              commands \o Resume # <<>> /\ (commands \o Resume)[Len(commands \o Resume)] = "play"
         /\ ~(autopause /\ auto_resume) => commands \o Resume = commands
<1> USE DEF MusicTypes
<1>1. CASE autopause /\ auto_resume
  <2>1. Resume = <<"play">> /\ <<"play">> \in Seq(Messages)
    BY <1>1 DEF Resume, Messages
  <2>2. Len(<<"play">>) = 1 /\ <<"play">>[1] = "play" OBVIOUS
  <2> DEFINE both == commands \o <<"play">>
  <2>3. /\ both \in Seq(Messages) /\ Len(both) = Len(commands) + 1
        /\ both[Len(commands) + 1] = "play"
    <3>1. Len(commands) \in Nat BY LenProperties
    <3> QED BY <2>1, <2>2, <3>1, ConcatProperties
  <2>4. both # <<>>
    <3>1. Len(commands) \in Nat BY LenProperties
    <3> QED BY <2>3, <3>1, EmptySeq
  <2> QED BY <1>1, <2>1, <2>3, <2>4
<1>2. CASE ~(autopause /\ auto_resume)
  <2>1. Resume = <<>> BY <1>2 DEF Resume
  <2> QED BY <1>2, <2>1, ConcatEmptySeq
<1> QED BY <1>1, <1>2

\* Leaving text entry sends the command the music waits for.
LEMMA EnterMusic ==
  ASSUME MusicInv, NEW next, next # "textent", Enter(next, <<>>), owed' = owed
  PROVE  MusicInv'
<1> USE DEF MusicInv
<1>1. /\ mode' = next /\ auto_resume' = FALSE /\ commands' = commands \o Resume
      /\ UNCHANGED <<autopause, playing, music, reports>>
  <2>1. commands' = (commands \o Resume) \o <<>> BY DEF Enter
  <2>2. (commands \o Resume) \o <<>> = commands \o Resume BY ResumeLemma, ConcatEmptySeq
  <2> QED BY <2>1, <2>2 DEF Enter
<1>2. MusicTypes' BY <1>1, ResumeLemma DEF MusicTypes
<1>3. ASSUME owed PROVE WillPlay'
  <2>1. CASE autopause /\ auto_resume BY <1>1, <2>1, ResumeLemma DEF WillPlay
  <2>2. CASE ~(autopause /\ auto_resume) BY <1>1, <1>3, <2>2, ResumeLemma DEF WillPlay
  <2> QED BY <2>1, <2>2
<1> QED BY <1>1, <1>2, <1>3

LEMMA ObeyMusic == MusicInv /\ Obey => MusicInv'
<1> SUFFICES ASSUME MusicInv, Obey PROVE MusicInv' OBVIOUS
<1> USE DEF MusicInv
<1> DEFINE on == CASE Head(commands) = "play" -> TRUE
                   [] Head(commands) = "pause" -> FALSE
                   [] OTHER -> ~music
<1>1. /\ commands # <<>> /\ commands' = Tail(commands) /\ music' = on
      /\ reports' = IF on = music THEN reports ELSE Append(reports, on)
      /\ UNCHANGED <<mode, autopause, auto_resume, playing, owed>>
  BY DEF Obey, Play
<1>2. on \in BOOLEAN BY DEF MusicTypes
<1>3. Head(commands) = "play" => on = TRUE OBVIOUS
<1> HIDE DEF on
<1>4. MusicTypes'
  <2>1. commands' \in Seq(Messages) BY <1>1 DEF MusicTypes
  <2>2. reports' \in Seq(BOOLEAN) BY <1>1, <1>2, AppendProperties DEF MusicTypes
  <2> QED BY <1>1, <1>2, <2>1, <2>2 DEF MusicTypes
<1>5. ASSUME WillPlay PROVE WillPlay'
  <2>1. /\ Len(commands) \in Nat \ {0} /\ Len(commands') = Len(commands) - 1
        /\ \A i \in 1 .. Len(commands') : commands'[i] = commands[i + 1]
        /\ Head(commands) = commands[1]
    BY <1>1, HeadTailProperties, EmptySeq DEF MusicTypes
  <2>2. commands[Len(commands)] = "play" BY <1>1, <1>5 DEF WillPlay
  <2>3. CASE Len(commands) = 1
    <3>1. commands' = <<>> BY <1>4, <2>1, <2>3, EmptySeq DEF MusicTypes
    <3> QED BY <1>1, <1>3, <2>1, <2>2, <2>3, <3>1 DEF WillPlay
  <2>4. CASE Len(commands) # 1
    <3>1. commands'[Len(commands')] = "play" BY <2>1, <2>2, <2>4
    <3>2. commands' # <<>> BY <2>1, <2>4, EmptySeq
    <3> QED BY <3>1, <3>2 DEF WillPlay
  <2> QED BY <2>3, <2>4
<1> QED BY <1>1, <1>4, <1>5

\* A report takes the resume back only with what is owed.
LEMMA ReportMusic == MusicInv /\ Report => MusicInv'
<1> SUFFICES ASSUME MusicInv, Report PROVE MusicInv' OBVIOUS
<1> USE DEF MusicInv
<1>1. /\ reports # <<>> /\ playing' = Head(reports) /\ reports' = Tail(reports)
      /\ auto_resume' = (auto_resume /\ ~(~playing /\ Head(reports)))
      /\ owed' = (owed /\ ~(mode = "textent" /\ ~playing /\ Head(reports)))
      /\ UNCHANGED <<mode, autopause, commands, music>>
  BY DEF Report
<1>2. Head(reports) \in BOOLEAN /\ reports' \in Seq(BOOLEAN)
  BY <1>1, HeadTailProperties DEF MusicTypes
<1>3. /\ auto_resume' \in BOOLEAN /\ owed' \in BOOLEAN
      /\ auto_resume = FALSE => auto_resume' = FALSE
  BY <1>1 DEF MusicTypes
<1>4. MusicTypes' BY <1>1, <1>2, <1>3 DEF MusicTypes
<1>5. WillPlay' = WillPlay BY <1>1 DEF WillPlay
<1>6. owed' => owed /\ (auto_resume => auto_resume' = TRUE)
  BY <1>1, <1>2 DEF MusicTypes
<1> QED BY <1>1, <1>3, <1>4, <1>5, <1>6

LEMMA NextMusic == MusicInv /\ [PanelNext]_panelVars => MusicInv'
<1> SUFFICES ASSUME MusicInv, [PanelNext]_panelVars PROVE MusicInv' OBVIOUS
<1>1. CASE EnterTextEntry
  <2> USE DEF MusicInv
  <2>1. /\ mode # "textent" /\ mode' = "textent" /\ owed' = (owed \/ (autopause /\ playing))
        /\ auto_resume' = (autopause /\ playing)
        /\ UNCHANGED <<autopause, playing, music, reports>>
    BY <1>1 DEF EnterTextEntry, Paused
  <2>2. auto_resume = FALSE /\ Resume = <<>> BY <2>1 DEF Resume, MusicTypes
  <2> DEFINE more == IF autopause /\ playing THEN <<"pause">> ELSE <<>>
  <2>3. commands' = (commands \o <<>>) \o more BY <1>1, <2>2 DEF EnterTextEntry
  <2>4. more \in Seq(Messages) /\ commands \o <<>> = commands
    <3>1. <<"pause">> \in Seq(Messages) BY DEF Messages
    <3> QED BY <3>1, EmptySeq, ConcatEmptySeq DEF MusicTypes
  <2>5. MusicTypes'
    <3>1. commands' \in Seq(Messages) BY <2>3, <2>4, ConcatProperties DEF MusicTypes
    <3> QED BY <2>1, <3>1 DEF MusicTypes
  <2>6. CASE autopause /\ playing BY <2>1, <2>5, <2>6
  <2>7. CASE ~(autopause /\ playing)
    <3>1. commands' = commands BY <2>3, <2>4, <2>7
    <3>2. WillPlay' = WillPlay BY <2>1, <3>1 DEF WillPlay
    <3> QED BY <2>1, <2>2, <2>5, <2>7, <3>2
  <2> QED BY <2>6, <2>7
<1>2. CASE EnterMenu \/ EnterMedia \/ Exit \/ EndText
  BY <1>2, EnterMusic DEF EnterMenu, EnterMedia, Exit, EndText
<1>3. CASE Select
  <2>1. CASE Enter("default", <<>>) BY <1>3, <2>1, EnterMusic DEF Select
  <2>2. CASE ~Enter("default", <<>>)
    <3>1. /\ mode = "menu" /\ UNCHANGED <<mode, auto_resume, playing, phone, owed>>
          /\ autopause' \in BOOLEAN
      BY <1>3, <2>2 DEF Select
    <3> QED BY <3>1 DEF MusicInv, MusicTypes, WillPlay, phone
  <2> QED BY <2>1, <2>2
<1>4. CASE TurnMenu \/ TurnColumn \/ TurnCursor \/ Insert \/ Backspace \/ UNCHANGED panelVars
  <2>1. UNCHANGED <<mode, quiet>>
    BY <1>4 DEF TurnMenu, TurnColumn, TurnCursor, Insert, Backspace, panelVars, quiet
  <2> QED BY <2>1 DEF quiet, phone, MusicInv, MusicTypes, WillPlay
<1>5. CASE PlayPause
  <2>1. Append(commands, "playpause") \in Seq(Messages)
    BY DEF MusicInv, MusicTypes, Messages
  <2> QED BY <1>5, <2>1 DEF PlayPause, MusicInv, MusicTypes
<1>6. CASE SetAutoPause \/ PanelReload
  BY <1>6 DEF SetAutoPause, PanelReload, phone, MusicInv, MusicTypes
<1>7. CASE PhoneUser
  <2>1. /\ music' = ~music /\ reports' = Append(reports, ~music) /\ owed' = FALSE
        /\ UNCHANGED <<mode, autopause, auto_resume, playing, commands>>
    BY <1>7 DEF PhoneUser, Play, MusicInv, MusicTypes
  <2>2. reports' \in Seq(BOOLEAN) BY <2>1 DEF MusicInv, MusicTypes
  <2> QED BY <2>1, <2>2 DEF MusicInv, MusicTypes
<1>8. CASE Report BY <1>8, ReportMusic
<1>9. CASE Obey BY <1>9, ObeyMusic
<1> QED BY <1>1, <1>2, <1>3, <1>4, <1>5, <1>6, <1>7, <1>8, <1>9 DEF PanelNext

\* Music that text entry paused plays again when text entry was left and the
\* phone has obeyed, whatever commands and reports were under way when it was
\* entered, unless a report that the music has started comes in meanwhile.
THEOREM MusicGoesOn == PanelSpec => []MusicResumes
<1>1. MusicInv => MusicResumes BY DEF MusicInv, MusicResumes, WillPlay
<1> QED BY <1>1, InitMusic, NextMusic, PTL DEF PanelSpec

-----------------------------------------------------------------------------
(* The widget table *)

HudTypes ==
  /\ hversion \in Int /\ vers \in Int /\ cversion \in Int
  /\ overlay \in BOOLEAN /\ coverlay \in BOOLEAN /\ newoverlay \in BOOLEAN
  /\ full \in BOOLEAN /\ nonempty \in BOOLEAN /\ cfull \in BOOLEAN
  /\ member \in [Slots -> BOOLEAN] /\ visible \in [Slots -> BOOLEAN]
  /\ version \in [Slots -> Int] /\ last \in [Slots -> Int]
  /\ text \in [Slots -> Int] /\ screen \in [Slots -> Int]
  /\ dirty \subseteq Slots /\ dirtytext \subseteq Slots /\ left \subseteq Slots
  /\ unfilled \subseteq Slots

\* A table was built and is in use.
InUseNow == wpc \in {"run", "text", "bump"}

\* ... and is the one that hud.c has loaded.
Loaded == InUseNow /\ hpc \in {"scan", "scanning", "idle"} /\ cversion = hversion

\* A widget is drawn as it is marked, or something says that it is not; o is
\* the visibility its mark is about.
Marked(i, o) ==
  /\ visible[i] => IsVisible(i, o)
  /\ IsVisible(i, o) /\ ~visible[i] => last[i] < version[i]
  /\ \/ i \in dirty
     \/ visible[i] /\ (screen[i] = text[i] \/ i \in dirtytext \/ last[i] < version[i])
     \/ ~visible[i] /\ screen[i] = Blank

HudInv ==
  /\ HudTypes
  /\ vers <= hversion /\ cversion <= hversion
  /\ \A i \in Slots : last[i] <= version[i]
  /\ InUseNow \/ wpc = "release" => full
  /\ wpc \notin {"text", "bump"} => dirtytext = {}
  /\ hpc = "idle" => dirty = {}
  /\ hpc = "loading" /\ InUseNow /\ vers = hversion =>
       nonempty /\ \A i \in Slots \ left : last[i] < version[i]
  /\ Loaded => cfull
  /\ Loaded => \A i \in Slots \ ghosts :
       Marked(i, IF hpc = "scanning" /\ i \notin left THEN newoverlay ELSE coverlay)

LEMMA InitHud == HudInit => HudInv
<1> SUFFICES ASSUME HudInit PROVE HudInv
  OBVIOUS
<1>1. HudTypes
  <2>1. member \in [Slots -> BOOLEAN] /\ visible \in [Slots -> BOOLEAN]
    BY DEF HudInit
  <2>2. version \in [Slots -> Int] /\ last \in [Slots -> Int]
    BY DEF HudInit
  <2>3. text \in [Slots -> Int] /\ screen \in [Slots -> Int]
    BY DEF HudInit, Empty, Blank
  <2>4. /\ overlay \in BOOLEAN /\ coverlay \in BOOLEAN /\ newoverlay \in BOOLEAN
        /\ full \in BOOLEAN /\ nonempty \in BOOLEAN /\ cfull \in BOOLEAN
    <3>1. /\ overlay = FALSE /\ coverlay = FALSE /\ newoverlay = FALSE
          /\ full = FALSE /\ nonempty = FALSE /\ cfull = FALSE
      BY Zenon DEF HudInit
    <3> QED
      BY <3>1
  <2>5. /\ hversion = 0 /\ vers = 0 /\ cversion = 0
        /\ dirty = {} /\ dirtytext = {} /\ left = {} /\ unfilled = {}
    BY Zenon DEF HudInit
  <2> QED
    BY <2>1, <2>2, <2>3, <2>4, <2>5 DEF HudTypes
<1>2. ~InUseNow /\ ~Loaded
  BY DEF HudInit, InUseNow, Loaded
<1>3. \A i \in Slots : last[i] <= version[i]
  BY DEF HudInit
<1> QED
  BY <1>1, <1>2, <1>3 DEF HudInit, HudInv

LEMMA WriterHud == HudInv /\ WriterNext => HudInv'
<1> SUFFICES ASSUME HudInv, WriterNext PROVE HudInv'
  OBVIOUS
<1>1. HudTypes
  BY DEF HudInv
<1>2. ASSUME wpc' \notin {"run", "text", "bump", "release"}, HudTypes',
             UNCHANGED <<reader, version>>, hversion' >= hversion, dirtytext' = {}
      PROVE  HudInv'
  <2>1. ~InUseNow' /\ ~Loaded'
    BY <1>2 DEF InUseNow, Loaded
  <2> QED
    BY <1>1, <1>2, <2>1 DEF HudInv, HudTypes, reader
<1>3. CASE BuildBegin
  <2>1. HudTypes'
    BY <1>1, <1>3 DEF BuildBegin, HudTypes, slots, reader
  <2> QED
    BY <1>2, <1>3, <2>1 DEF BuildBegin, slots, HudTypes, HudInv
<1>4. CASE Retire
  <2>1. HudTypes'
    BY <1>1, <1>4 DEF Retire, HudTypes, slots, reader
  <2> QED
    BY <1>1, <1>2, <1>4, <2>1 DEF Retire, slots, HudTypes, HudInv
<1>5. CASE Fill
  <2>1. PICK i \in unfilled, m \in BOOLEAN :
          /\ member' = [member EXCEPT ![i] = m] /\ text' = [text EXCEPT ![i] = Empty]
          /\ unfilled' = unfilled \ {i}
    BY <1>5 DEF Fill
  <2>2. UNCHANGED <<hversion, full, overlay, version, wpc, dirtytext, reader>> /\ wpc = "fill"
    BY <1>5 DEF Fill, header
  <2>3. member' \in [Slots -> BOOLEAN] /\ text' \in [Slots -> Int]
    BY <1>1, <2>1 DEF HudTypes, Empty
  <2>4. HudTypes'
    BY <1>1, <2>1, <2>2, <2>3 DEF HudTypes, reader
  <2> QED
    BY <1>1, <1>2, <2>2, <2>4 DEF HudInv, HudTypes
<1>6. CASE Count
  <2>1. HudTypes'
    BY <1>1, <1>6 DEF Count, HudTypes, slots, reader
  <2>2. ~InUseNow' /\ ~Loaded' /\ full' /\ wpc' = "release"
    BY <1>6 DEF Count, InUseNow, Loaded
  <2> QED
    BY <1>6, <2>1, <2>2 DEF Count, HudInv, slots, reader
<1>7. CASE Release
  <2>1. HudTypes'
    BY <1>1, <1>7 DEF Release, HudTypes, slots, reader
  <2>2. hversion' = hversion + 1 /\ UNCHANGED <<full, slots, dirtytext, reader>> /\ wpc = "release"
        /\ wpc' = "run"
    BY <1>7 DEF Release
  <2>3. vers' # hversion' /\ cversion' # hversion' /\ vers' <= hversion' /\ cversion' <= hversion'
    BY <1>1, <2>2 DEF HudInv, HudTypes, reader
  <2>4. ~Loaded'
    BY <2>3 DEF Loaded
  <2>5. dirtytext' = {}
    BY <2>2 DEF HudInv
  <2> QED
    BY <2>1, <2>2, <2>3, <2>4, <2>5 DEF HudInv, slots, reader
<1>8. CASE SetOverlay
  <2>1. HudTypes'
    BY <1>1, <1>8 DEF SetOverlay, HudTypes, slots, reader, writer
  <2>2. UNCHANGED <<hversion, full, slots, writer, reader>>
    BY <1>8 DEF SetOverlay
  <2> QED
    BY <2>1, <2>2 DEF HudInv, slots, reader, writer, InUseNow, Loaded, Marked, IsVisible
<1>9. CASE WriteText
  <2>1. /\ UNCHANGED <<hversion, full, overlay, member, version, unfilled, reader>>
        /\ wpc = "run" /\ wpc' = "text"
    BY <1>9 DEF WriteText, header
  <2>2. PICK j \in Slots : dirtytext' = {j} /\ text' = [text EXCEPT ![j] = Torn]
    BY <1>9 DEF WriteText
  <2>3. HudTypes'
    BY <1>1, <2>1, <2>2 DEF HudTypes, Torn, reader
  <2>4. InUseNow /\ InUseNow' /\ Loaded' = Loaded
    BY <2>1 DEF InUseNow, Loaded, reader
  <2>5. \A i \in Slots : i \in dirtytext' \/ (text'[i] = text[i] /\ i \notin dirtytext)
    BY <1>1, <2>1, <2>2 DEF HudInv, HudTypes
  <2>6. ASSUME NEW i \in Slots, NEW o, Marked(i, o) PROVE Marked(i, o)'
    BY <2>1, <2>5, <2>6 DEF Marked, IsVisible, reader
  <2> QED
    BY <2>1, <2>3, <2>4, <2>6 DEF HudInv, reader
<1>10. CASE TextWritten
  <2>1. /\ UNCHANGED <<hversion, full, overlay, member, version, unfilled, dirtytext, reader>>
        /\ wpc = "text" /\ wpc' = "bump"
        /\ text' = [i \in Slots |-> IF i \in dirtytext THEN version[i] + 1 ELSE text[i]]
    BY <1>10 DEF TextWritten, header
  <2>2. HudTypes'
    BY <1>1, <2>1 DEF HudTypes, reader
  <2>3. InUseNow /\ InUseNow' /\ Loaded' = Loaded
    BY <2>1 DEF InUseNow, Loaded, reader
  <2>4. \A i \in Slots : i \in dirtytext \/ text'[i] = text[i]
    BY <2>1
  <2>5. ASSUME NEW i \in Slots, NEW o, Marked(i, o) PROVE Marked(i, o)'
    BY <2>1, <2>4, <2>5 DEF Marked, IsVisible, reader
  <2> QED
    BY <2>1, <2>2, <2>3, <2>5 DEF HudInv, reader
<1>11. CASE BumpVersion
  <2>1. /\ UNCHANGED <<hversion, full, overlay, member, text, unfilled, reader>>
        /\ wpc = "bump" /\ wpc' = "run" /\ dirtytext' = {}
        /\ version' = [i \in Slots |-> IF i \in dirtytext THEN version[i] + 1 ELSE version[i]]
    BY <1>11 DEF BumpVersion, header
  <2>2. HudTypes'
    BY <1>1, <2>1 DEF HudTypes, reader
  <2>3. InUseNow /\ InUseNow' /\ Loaded' = Loaded
    BY <2>1 DEF InUseNow, Loaded, reader
  <2>4. \A i \in Slots : /\ last[i] \in Int /\ version[i] \in Int /\ last[i] <= version[i]
                         /\ version'[i] >= version[i] /\ version'[i] \in Int
                         /\ i \in dirtytext => last[i] < version'[i]
    BY <1>1, <2>1 DEF HudInv, HudTypes
  <2>5. ASSUME NEW i \in Slots, NEW o, Marked(i, o) PROVE Marked(i, o)'
    BY <2>1, <2>4, <2>5 DEF Marked, IsVisible, reader
  <2>6. \A i \in Slots : last'[i] <= version'[i]
    BY <2>1, <2>4 DEF reader
  <2>7. hpc' = "loading" /\ InUseNow' /\ vers' = hversion' =>
          nonempty' /\ \A i \in Slots \ left' : last'[i] < version'[i]
    BY <2>1, <2>3, <2>4 DEF HudInv, reader
  <2> QED
    BY <2>1, <2>2, <2>3, <2>5, <2>6, <2>7 DEF HudInv, reader
<1>12. CASE Rebuild
  <2>1. HudTypes'
    BY <1>1, <1>12 DEF Rebuild, HudTypes, slots, header, reader
  <2> QED
    BY <1>1, <1>2, <1>12, <2>1 DEF Rebuild, slots, header, HudTypes
<1> QED
  BY <1>3, <1>4, <1>5, <1>6, <1>7, <1>8, <1>9, <1>10, <1>11, <1>12 DEF WriterNext

LEMMA ReaderHud == HudInv /\ ReaderNext => HudInv'
<1> SUFFICES ASSUME HudInv, ReaderNext PROVE HudInv'
  OBVIOUS
<1>1. HudTypes
  BY DEF HudInv
<1>2. UNCHANGED <<header, slots, writer>>
  BY DEF ReaderNext, LoadBegin, LoadWidget, LoadEnd, Frame, ScanBegin, Scan, Draw, EndFrame
<1>3. InUseNow' = InUseNow /\ hversion' = hversion /\ full' = full /\ wpc' = wpc
      /\ dirtytext' = dirtytext /\ version' = version /\ text' = text /\ member' = member
      /\ overlay' = overlay /\ unfilled' = unfilled
  BY <1>2 DEF InUseNow, header, slots, writer
<1>4. CASE LoadBegin
  <2>1. /\ hpc' = "loading" /\ vers' = hversion /\ nonempty' = full /\ left' = InUse(full)
        /\ UNCHANGED <<cversion, cfull, coverlay, newoverlay, last, visible, dirty, screen, ghosts>>
    BY <1>4 DEF LoadBegin
  <2>2. HudTypes'
    BY <1>1, <1>3, <2>1 DEF HudTypes, InUse
  <2>3. ~Loaded'
    BY <2>1 DEF Loaded
  <2>4. InUseNow => nonempty' /\ left' = Slots
    BY <2>1 DEF HudInv, InUse
  <2> QED
    BY <1>1, <1>3, <2>1, <2>2, <2>3, <2>4 DEF HudInv, HudTypes
<1>5. CASE LoadWidget
  <2>1. /\ hpc = "loading"
        /\ UNCHANGED <<hpc, vers, nonempty, cversion, cfull, coverlay, newoverlay,
                       visible, dirty, screen, ghosts>>
    BY <1>5 DEF LoadWidget
  <2>2. PICK j \in left : last' = [last EXCEPT ![j] = version[j] - 1] /\ left' = left \ {j}
    BY <1>5 DEF LoadWidget
  <2>3. HudTypes'
    <3>1. last' \in [Slots -> Int]
      BY <1>1, <2>2 DEF HudTypes
    <3> QED
      BY <1>1, <1>3, <2>1, <2>2, <3>1 DEF HudTypes
  <2>4. ~Loaded'
    BY <2>1 DEF Loaded
  <2>5. \A i \in Slots : last'[i] = IF i = j THEN version[i] - 1 ELSE last[i]
    BY <1>1, <2>2 DEF HudTypes
  <2>6. \A i \in Slots : last'[i] <= version[i] /\ (i = j => last'[i] < version[i])
    BY <1>1, <2>5 DEF HudInv, HudTypes
  <2>7. InUseNow /\ vers = hversion =>
          nonempty /\ \A i \in Slots \ left' : last'[i] < version[i]
    BY <2>1, <2>2, <2>5, <2>6 DEF HudInv
  <2> QED
    BY <1>3, <2>1, <2>3, <2>4, <2>6, <2>7 DEF HudInv
<1>6. CASE LoadEnd
  <2>1. hpc = "loading" /\ left = {} /\ UNCHANGED <<left, vers, nonempty, newoverlay, last, visible>>
    BY <1>6 DEF LoadEnd
  <2>2. CASE vers = hversion
    <3>1. /\ cversion' = vers /\ cfull' = nonempty /\ coverlay' = FALSE /\ dirty' = Slots
          /\ ghosts' = {i \in Slots : visible[i]} /\ hpc' = "scan"
          /\ screen' = [i \in Slots |-> Blank]
      BY <1>6, <2>2 DEF LoadEnd
    <3>2. HudTypes'
      <4>1. screen' \in [Slots -> Int]
        BY <3>1 DEF Blank
      <4> QED
        BY <1>1, <1>3, <2>1, <3>1, <4>1 DEF HudTypes
    <3>3. InUseNow => nonempty /\ \A i \in Slots : last[i] < version[i]
      BY <2>1, <2>2 DEF HudInv
    <3>4. ASSUME NEW i \in Slots \ ghosts', InUseNow PROVE Marked(i, coverlay)'
      <4>1. visible'[i] = FALSE
        BY <1>1, <2>1, <3>1, <3>4 DEF HudTypes
      <4>2. last'[i] < version'[i] /\ i \in dirty'
        BY <1>3, <2>1, <3>1, <3>3, <3>4
      <4> QED
        BY <4>1, <4>2 DEF Marked
    <3> QED
      BY <1>3, <2>1, <3>1, <3>2, <3>3, <3>4 DEF HudInv, Loaded
  <2>3. CASE vers # hversion
    <3>1. hpc' = "load" /\ UNCHANGED <<cversion, cfull, coverlay, dirty, ghosts, screen>>
      BY <1>6, <2>3 DEF LoadEnd
    <3>2. HudTypes'
      BY <1>1, <1>3, <2>1, <3>1 DEF HudTypes
    <3> QED
      BY <1>3, <2>1, <3>1, <3>2 DEF HudInv, Loaded
  <2> QED
    BY <2>2, <2>3
<1>7. CASE Frame
  <2>1. /\ hpc = "idle" /\ dirty \subseteq dirty' /\ dirty' \subseteq Slots
        /\ hpc' \in {"load", "scan"}
        /\ UNCHANGED <<left, vers, nonempty, cversion, cfull, coverlay, newoverlay, last,
                       visible, screen, ghosts>>
    BY <1>1, <1>7 DEF Frame, HudTypes
  <2>2. HudTypes'
    BY <1>1, <1>3, <2>1 DEF HudTypes
  <2>3. Loaded' => Loaded
    BY <1>3, <2>1 DEF Loaded
  <2>4. ASSUME NEW i \in Slots, NEW o, Marked(i, o) PROVE Marked(i, o)'
    BY <1>3, <2>1, <2>4 DEF Marked, IsVisible
  <2>5. Loaded => \A i \in Slots \ ghosts : Marked(i, coverlay)
    BY <2>1 DEF HudInv
  <2>6. Loaded' => \A i \in Slots \ ghosts : Marked(i, coverlay)'
    <3> SUFFICES ASSUME Loaded', NEW i \in Slots \ ghosts PROVE Marked(i, coverlay)'
      OBVIOUS
    <3>1. Marked(i, coverlay)
      BY <2>3, <2>5
    <3>2. coverlay' = coverlay
      BY <2>1
    <3> QED
      BY <1>3, <2>1, <3>1, <3>2 DEF Marked, IsVisible
  <2> QED
    BY <1>3, <2>1, <2>2, <2>3, <2>6 DEF HudInv
<1>8. CASE ScanBegin
  <2>1. /\ hpc = "scan" /\ hpc' = "scanning" /\ newoverlay' = overlay /\ left' = InUse(cfull)
        /\ UNCHANGED <<vers, nonempty, cversion, cfull, coverlay, last, visible, dirty,
                       screen, ghosts>>
    BY <1>8 DEF ScanBegin
  <2>2. HudTypes'
    BY <1>1, <1>3, <2>1 DEF HudTypes, InUse
  <2>3. Loaded' = Loaded
    BY <1>3, <2>1 DEF Loaded
  <2>4. Loaded => left' = Slots
    BY <2>1 DEF HudInv, InUse
  <2>5. ASSUME Loaded, NEW i \in Slots \ ghosts PROVE Marked(i, coverlay)'
    <3>1. Marked(i, coverlay)
      BY <2>1, <2>5 DEF HudInv
    <3> QED
      BY <1>3, <2>1, <3>1 DEF Marked, IsVisible
  <2> QED
    BY <1>3, <2>1, <2>2, <2>3, <2>4, <2>5 DEF HudInv
<1>9. CASE Scan
  <2>1. /\ hpc = "scanning"
        /\ UNCHANGED <<hpc, vers, nonempty, cversion, cfull, coverlay, newoverlay, screen>>
    BY <1>9 DEF Scan
  <2>2. PICK j \in left :
          /\ left' = left \ {j}
          /\ IF \/ IsVisible(j, newoverlay) /\ version[j] # last[j]
                \/ IsVisible(j, coverlay) # IsVisible(j, newoverlay)
             THEN /\ visible' = [visible EXCEPT ![j] = IsVisible(j, newoverlay)]
                  /\ dirty' = dirty \cup {j}
                  /\ last' = [last EXCEPT ![j] = version[j]]
                  /\ ghosts' = ghosts \ {j}
             ELSE UNCHANGED <<visible, dirty, last, ghosts>>
    BY <1>9 DEF Scan
  <2>3. left' \subseteq Slots
    BY <1>1, <2>2 DEF HudTypes
  <2> DEFINE hit == \/ IsVisible(j, newoverlay) /\ version[j] # last[j]
                    \/ IsVisible(j, coverlay) # IsVisible(j, newoverlay)
             now == IsVisible(j, newoverlay)
  <2>4. now \in BOOLEAN /\ IsVisible(j, coverlay) \in BOOLEAN
    BY <1>1 DEF IsVisible, HudTypes
  <2>5. CASE hit
    <3>1. /\ visible' = [visible EXCEPT ![j] = now] /\ dirty' = dirty \cup {j}
          /\ last' = [last EXCEPT ![j] = version[j]] /\ ghosts' = ghosts \ {j}
      BY <2>2, <2>5
    <3> HIDE DEF hit, now
    <3>2. j \in Slots
      BY <1>1, <2>2 DEF HudTypes
    <3>3. HudTypes'
      <4>1. visible' \in [Slots -> BOOLEAN] /\ last' \in [Slots -> Int]
        BY <1>1, <2>4, <3>1, <3>2 DEF HudTypes
      <4> QED
        BY <1>1, <1>3, <2>1, <2>3, <3>1, <3>2, <4>1 DEF HudTypes
    <3>4. \A i \in Slots : last'[i] <= version'[i]
      BY <1>1, <1>3, <3>1, <3>2 DEF HudInv, HudTypes
    <3>5. Loaded' = Loaded
      BY <1>3, <2>1 DEF Loaded
    <3>6. Marked(j, newoverlay)'
      <4>1. visible'[j] = now /\ j \in dirty'
        BY <1>1, <3>1, <3>2 DEF HudTypes
      <4>2. IsVisible(j, newoverlay)' <=> now
        BY <1>3, <2>1 DEF now, IsVisible
      <4> QED
        BY <2>4, <4>1, <4>2 DEF Marked
    <3>7. ASSUME Loaded, NEW i \in Slots \ ghosts', i # j
          PROVE  Marked(i, IF hpc = "scanning" /\ i \notin left THEN newoverlay ELSE coverlay)'
      <4>1. Marked(i, IF hpc = "scanning" /\ i \notin left THEN newoverlay ELSE coverlay)
        BY <3>1, <3>7 DEF HudInv
      <4>2. i \in left' <=> i \in left
        BY <2>2, <3>7
      <4>3. visible'[i] = visible[i] /\ last'[i] = last[i] /\ (i \in dirty' <=> i \in dirty)
        BY <1>1, <3>1, <3>7 DEF HudTypes
      <4> QED
        BY <1>3, <2>1, <4>1, <4>2, <4>3 DEF Marked, IsVisible
    <3>8. j \notin left'
      BY <2>2
    <3> QED
      BY <1>3, <2>1, <3>3, <3>4, <3>5, <3>6, <3>7, <3>8 DEF HudInv
  <2>6. CASE ~hit
    <3>1. UNCHANGED <<visible, dirty, last, ghosts>>
      BY <2>2, <2>6
    <3>2. HudTypes'
      BY <1>1, <1>3, <2>1, <2>3, <3>1 DEF HudTypes
    <3>3. Loaded' = Loaded
      BY <1>3, <2>1 DEF Loaded
    <3>4. ASSUME Loaded, NEW i \in Slots \ ghosts
          PROVE  Marked(i, IF hpc = "scanning" /\ i \notin left THEN newoverlay ELSE coverlay)'
      <4>1. Marked(i, IF hpc = "scanning" /\ i \notin left THEN newoverlay ELSE coverlay)
        BY <3>4 DEF HudInv
      <4>2. CASE i # j
        <5>1. i \in left' <=> i \in left
          BY <2>2, <4>2
        <5> QED
          BY <1>3, <2>1, <3>1, <4>1, <5>1 DEF Marked, IsVisible
      <4>3. CASE i = j
        <5>1. Marked(i, coverlay) /\ i \notin left' /\ (IsVisible(i, coverlay) <=> IsVisible(i, newoverlay))
          BY <2>1, <2>2, <2>4, <2>6, <4>1, <4>3
        <5>2. Marked(i, newoverlay)
          BY <5>1 DEF Marked
        <5> QED
          BY <1>3, <2>1, <3>1, <5>1, <5>2 DEF Marked, IsVisible
      <4> QED
        BY <4>2, <4>3
    <3> QED
      BY <1>3, <2>1, <3>1, <3>2, <3>3, <3>4 DEF HudInv
  <2> QED
    BY <2>5, <2>6
<1>10. CASE Draw
  <2>1. /\ hpc = "scanning" /\ left = {}
        /\ UNCHANGED <<hpc, left, vers, nonempty, cversion, cfull, coverlay, newoverlay, last,
                       visible, ghosts>>
    BY <1>10 DEF Draw
  <2>2. PICK j \in dirty :
          /\ screen' = [screen EXCEPT ![j] = IF visible[j] /\ cfull THEN text[j] ELSE Blank]
          /\ dirty' = dirty \ {j}
    BY <1>10 DEF Draw
  <2>3. HudTypes'
    <3>1. screen' \in [Slots -> Int]
      BY <1>1, <2>2 DEF HudTypes, Blank
    <3> QED
      BY <1>1, <1>3, <2>1, <2>2, <3>1 DEF HudTypes
  <2>4. Loaded' = Loaded
    BY <1>3, <2>1 DEF Loaded
  <2>5. ASSUME Loaded, NEW i \in Slots \ ghosts
        PROVE  Marked(i, newoverlay)'
    <3>1. Marked(i, newoverlay) /\ cfull
      BY <2>1, <2>5 DEF HudInv
    <3>2. CASE i = j
      <4>1. screen'[i] = IF visible[i] THEN text[i] ELSE Blank
        BY <1>1, <2>2, <3>1, <3>2 DEF HudTypes
      <4> QED
        BY <1>3, <2>1, <3>1, <4>1 DEF Marked, IsVisible
    <3>3. CASE i # j
      <4>1. screen'[i] = screen[i] /\ (i \in dirty' <=> i \in dirty)
        BY <1>1, <2>2, <3>3 DEF HudTypes
      <4> QED
        BY <1>3, <2>1, <3>1, <4>1 DEF Marked, IsVisible
    <3> QED
      BY <3>2, <3>3
  <2> QED
    BY <1>3, <2>1, <2>3, <2>4, <2>5 DEF HudInv
<1>11. CASE EndFrame
  <2>1. /\ hpc = "scanning" /\ left = {} /\ dirty = {} /\ hpc' = "idle" /\ coverlay' = newoverlay
        /\ UNCHANGED <<left, vers, nonempty, cversion, cfull, newoverlay, last, visible, dirty,
                       screen, ghosts>>
    BY <1>11 DEF EndFrame
  <2>2. HudTypes'
    BY <1>1, <1>3, <2>1 DEF HudTypes
  <2>3. Loaded' = Loaded
    BY <1>3, <2>1 DEF Loaded
  <2>4. ASSUME Loaded, NEW i \in Slots \ ghosts PROVE Marked(i, coverlay)'
    <3>1. Marked(i, newoverlay)
      BY <2>1, <2>4 DEF HudInv
    <3> QED
      BY <1>3, <2>1, <3>1 DEF Marked, IsVisible
  <2> QED
    BY <1>3, <2>1, <2>2, <2>3, <2>4 DEF HudInv
<1> QED
  BY <1>4, <1>5, <1>6, <1>7, <1>8, <1>9, <1>10, <1>11 DEF ReaderNext

\* What is on the screen between two frames is what was written last, or the
\* table says that it is not, for tables of any size, any number of texts and
\* rebuilds, and every order of their accesses.
THEOREM ScreenSettles == HudSpec => []ShownOrNoticed
<1>1. HudInv => ShownOrNoticed
  <2> SUFFICES ASSUME HudInv, hpc = "idle", wpc = "run", NEW i \in Slots \ ghosts,
                      cversion = hversion, coverlay = overlay,
                      IsVisible(i, overlay) => version[i] = last[i]
               PROVE  screen[i] = Wanted(i)
    BY DEF ShownOrNoticed
  <2>1. Loaded /\ InUseNow
    BY DEF Loaded, InUseNow
  <2>2. Marked(i, overlay) /\ full /\ dirty = {} /\ dirtytext = {}
    BY <2>1 DEF HudInv
  <2>3. version[i] \in Int /\ last[i] \in Int
    BY DEF HudInv, HudTypes
  <2> QED
    BY <2>2, <2>3 DEF Marked, Wanted
<1>2. HudInv /\ [HudNext]_hudVars => HudInv'
  <2>1. HudInv /\ UNCHANGED hudVars => HudInv'
    BY DEF hudVars, header, slots, writer, reader, HudInv, HudTypes, InUseNow, Loaded,
           Marked, IsVisible
  <2> QED
    BY <2>1, WriterHud, ReaderHud DEF HudNext
<1> QED
  BY <1>1, <1>2, InitHud, PTL DEF HudSpec

=============================================================================
