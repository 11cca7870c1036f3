------------------------------ MODULE GpioPoll ------------------------------
(***************************************************************************)
(* gpio_poll.c with a button and a rotary switch whose two contacts are on *)
(* different I2C expanders, as in gpio_poll.conf, up to the actions that   *)
(* gpio_event of the vehicle monitor takes for its events.                 *)
(*                                                                         *)
(* An expander holds its interrupt line low while its pins differ from     *)
(* what was read of them last; the poller is told of falling edges only.   *)
(* A contact that is closed pulls its pin low, and PIN() is then set.      *)
(***************************************************************************)
EXTENDS Integers

CONSTANTS
  LongTime,       \* LONG_PRESS_TIME, in ticks
  DebounceTicks,  \* ticks a contact has to keep still
  MaxTurn         \* bound: how far the knob is turned, and the poller may be wrong

ASSUME PollAssumption ==
  LongTime \in Nat \ {0} /\ DebounceTicks \in Nat \ {0} /\ MaxTurn \in Nat

Expanders == 0 .. 1

VARIABLES
  knob, down,          \* the switch in quarter steps, the button
  latched,             \* what each expander delivered last
  pending,             \* expanders whose edge epoll has not reported yet
  batch,               \* events of this round still to be read
  polling,             \* in epoll_wait
  val,                 \* exp->val
  rlast, count,        \* rotor: lastval in units of 0x40, count
  blast, debounce, long_press,   \* button
  \* histories
  deaf,                \* expanders whose last read failed
  turns,               \* events of the switch, up less down
  known, late,         \* position seen last, until it was two steps behind
  hold, acts,          \* a press was reported; actions taken for it
  again                \* ... and it was reported again after the first of them

outside == <<knob, down>>
rotor   == <<rlast, count, turns, known>>
button  == <<blast, debounce, long_press, hold, acts, again>>
pollVars == <<outside, latched, pending, batch, polling, val, rotor, button, deaf, late>>

\* Closed contacts of the switch at a position: pin1, pin2.
Pin1(k) == k % 4 \in {2, 3}
Pin2(k) == k % 4 \in {1, 2}

\* The button shares expander 0 with the second contact.
Pins(e, k, d) == IF e = 0 THEN <<Pin2(k), d>> ELSE <<Pin1(k), FALSE>>
Open == <<FALSE, FALSE>>

PollInit ==
  /\ knob = 0 /\ down \in BOOLEAN
  /\ latched = [e \in Expanders |-> Open]
  /\ pending = Expanders        \* EPOLLIN of a file that is always ready
  /\ batch = {} /\ polling = TRUE
  /\ val = [e \in Expanders |-> Open]
  /\ rlast = 0 /\ count = 0
  /\ blast = FALSE /\ debounce = 0 /\ long_press = 0
  /\ deaf = {} /\ turns = 0 /\ known = 0 /\ late = FALSE
  /\ hold = "none" /\ acts = 0 /\ again = FALSE

-----------------------------------------------------------------------------
(* Contacts and interrupt lines *)

\* The line of expander e falls when its pins become (k, d).
Falls(e, k, d) == Pins(e, knob, down) = latched[e] /\ Pins(e, k, d) # latched[e]

Change(k, d) ==
  /\ knob' = k /\ down' = d
  /\ pending' = pending \cup {e \in Expanders : Falls(e, k, d)}
  /\ late' = (late \/ k - known \notin -1 .. 1)
  /\ UNCHANGED <<latched, batch, polling, val, rotor, button, deaf>>

Turn ==
  /\ count \in -MaxTurn .. MaxTurn   \* bound
  /\ \E k \in {knob - 1, knob + 1} : k \in -MaxTurn .. MaxTurn /\ Change(k, down)

Press == Change(knob, ~down)

-----------------------------------------------------------------------------
(* A round of the loop: epoll_wait, one read per event, then all pins *)

Wait ==
  /\ polling /\ pending # {}
  /\ polling' = FALSE /\ batch' = pending /\ pending' = {}
  /\ UNCHANGED <<outside, latched, val, rotor, button, deaf, late>>

\* Faulty variant: the bytes of a round are read from one expander only.
Read_One ==
  /\ ~polling
  /\ \E e \in batch :
       /\ val' = [val EXCEPT ![e] = Pins(e, knob, down)]
       /\ latched' = [latched EXCEPT ![e] = Pins(e, knob, down)]
       /\ batch' = {}
       /\ deaf' = deaf \ {e}
  /\ UNCHANGED <<outside, pending, polling, rotor, button, late>>

Read ==
  /\ ~polling
  /\ \E e \in batch :
       /\ val' = [val EXCEPT ![e] = Pins(e, knob, down)]
       /\ latched' = [latched EXCEPT ![e] = Pins(e, knob, down)]
       /\ batch' = batch \ {e}
       /\ deaf' = deaf \ {e}
  /\ UNCHANGED <<outside, pending, polling, rotor, button, late>>

\* Nothing is read and the line stays low.  Every contact is taken for open if
\* the read failed, and for what it was if the address could not be set.
ReadFails ==
  /\ ~polling
  /\ \E e \in batch :
       /\ \E pins \in {Open, val[e]} : val' = [val EXCEPT ![e] = pins]
       /\ batch' = batch \ {e}
       /\ deaf' = deaf \cup {e}
  /\ UNCHANGED <<outside, latched, pending, polling, rotor, button, late>>

\* PIN(pin1, 0xC0) ^ PIN(pin2, 0x40), in units of 0x40.
Code(p1, p2) == IF p1 THEN (IF p2 THEN 2 ELSE 3) ELSE (IF p2 THEN 1 ELSE 0)

\* Faulty variant: the difference is not kept in eight bits.
Step_Wide(new, old) == new - old

\* ofs >> 6, where ofs is the difference in eight bits: a step of two is -2.
Step(new, old) == (((((new - old) * 64) + 128) % 256) - 128) \div 64

\* The loop over the rotors.
Rotor ==
  LET new == Code(val[1][1], val[0][1])
      ofs == Step(new, rlast)
      sum == count + ofs
      clicked == ofs # 0 /\ new = 0
      event == IF clicked /\ sum \in {-4, 4} THEN sum \div 4 ELSE 0
      missed == late \/ new = (known + 2) % 4
  IN /\ rlast' = new
     /\ count' = IF clicked THEN 0 ELSE sum
     /\ late' = missed
     /\ turns' = IF missed THEN 0 ELSE turns + event
     /\ known' = IF missed THEN 0
                 ELSE CHOOSE p \in known - 1 .. known + 1 : p % 4 = new

\* The loop over the buttons.
Button ==
  /\ blast' = val[0][2]
  /\ debounce' = IF val[0][2] # blast THEN DebounceTicks ELSE debounce
  /\ UNCHANGED <<long_press, hold, acts, again>>

EndRound ==
  /\ ~polling /\ batch = {}
  /\ polling' = TRUE
  /\ Rotor /\ Button
  /\ UNCHANGED <<outside, latched, pending, batch, val, deaf>>

-----------------------------------------------------------------------------
(* The tick of 5 ms, and gpio_event *)

\* Faulty variant: a release is never marked as that of a long press.
LongMark_Lost(l) == FALSE

\* EVT_LONG of a release: the press was reported as long, or not at all.
LongMark(l) == l = 0

\* gpio_event: a release that is not marked is a short press.
ShortAct(released, mark) == IF released /\ ~mark THEN 1 ELSE 0

\* One action, or more than one.
Upto2(n) == IF n > 2 THEN 2 ELSE n

\* ... and a press that is marked is a long one.
LongAct(l) == IF l = 1 THEN 1 ELSE 0

Tick ==
  LET settled  == debounce = 1
      pressed  == settled /\ blast
      released == settled /\ ~blast
      running  == IF pressed THEN LongTime ELSE IF released THEN 0 ELSE long_press
      fresh    == pressed /\ hold # "held"
  IN /\ polling /\ debounce + long_press > 0
     /\ debounce' = IF debounce > 0 THEN debounce - 1 ELSE 0
     /\ long_press' = IF running > 0 THEN running - 1 ELSE 0
     /\ acts' = Upto2((IF fresh THEN 0 ELSE acts)
                       + ShortAct(released, LongMark(long_press)) + LongAct(running))
     /\ hold' = IF pressed THEN "held"
                ELSE IF released /\ hold = "held" THEN "over" ELSE hold
     /\ again' = (IF fresh THEN FALSE ELSE again \/ (pressed /\ acts > 0))
  /\ UNCHANGED <<outside, latched, pending, batch, polling, val, rotor, blast, deaf, late>>

PollNext == Turn \/ Press \/ Wait \/ Read \/ ReadFails \/ EndRound \/ Tick

PollSpec == PollInit /\ [][PollNext]_pollVars

-----------------------------------------------------------------------------
(* Properties *)

\* When the poller sleeps and no edge is waiting, what it knows of an
\* expander is what its pins are, and the button and the switch agree with
\* it: no change between a read and the next edge is missed.  Only a read
\* that failed makes it deaf, until the pins have changed back and again.
NothingMissed ==
  polling =>
    /\ \A e \in Expanders \ (pending \cup deaf) : val[e] = Pins(e, knob, down)
    /\ blast = val[0][2] /\ rlast = Code(val[1][1], val[0][1])

\* A press that is reported leads to an action by its end, the long one or the
\* short one, and one too quick to be reported to none.  It leads to no second
\* action, however its contact bounces and whatever reads fail, unless that
\* makes it be reported again after the first.
OneActionPerHold ==
  /\ hold = "none" => acts = 0
  /\ hold = "over" => acts >= 1
  /\ hold # "none" /\ ~again => acts <= 1

\* The events of the switch add up to the detents it was turned, however it
\* is turned back and forth and whenever its contacts are read, as long as it
\* is never two quarter steps ahead of what the poller has seen.
TurnsTrue == ~late => (4 * turns) - knob \in -4 .. 4

=============================================================================
