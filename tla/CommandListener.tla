-------------------------- MODULE CommandListener --------------------------
(***************************************************************************)
(* Commands sent to the car: send_command.py signs a command with the time *)
(* of its clock, hologram_command_listener.py verifies it with             *)
(* utils.HMACHelper, hands it to the monitor over UDP and answers with the *)
(* time stamp, and the sender polls for that answer.  log_receiver.py      *)
(* verifies its packets with the same class.                               *)
(*                                                                         *)
(* A datagram may be lost, delayed and delivered again; the clock of the   *)
(* receiver may be set back; the listener may be restarted.  Either sendto *)
(* of the listener may raise, which its loop survives.  The signature      *)
(* itself is outside the model: every packet is one that was built.        *)
(***************************************************************************)
EXTENDS Integers, Sequences

CONSTANTS
  Msg,       \* the commands sent during a behaviour
  NoCommand, \* no command
  Window,    \* HMACHelper.window
  MaxTime,   \* bound: clocks run from 0 to MaxTime
  MaxCopies  \* bound: times one command may be forwarded

ASSUME NoCommandAssumption == NoCommand \notin Msg
ASSUME WindowAssumption == Window \in Nat /\ MaxTime \in Nat
ASSUME MaxCopiesAssumption == MaxCopies \in Nat

Time == 0 .. MaxTime
None == -1      \* no time stamp

VARIABLES
  clock,      \* realtime clock of the receiver
  seen,       \* timestamps_seen
  cmd,        \* the command that is verified but not handed on yet
  pend,       \* time stamp of the command that is forwarded but not answered
  sent,       \* per command: its time stamp once it was sent
  forwarded,  \* per command: how often it was handed to the monitor
  acks,       \* the answers that reached the sender's side
  done,       \* commands whose sender has returned
  excused,    \* history: commands forwarded before the clock was set back
              \* or the listener restarted
  unforwarded \* history: commands whose handing on raised

listener == <<seen, cmd, pend>>
history  == <<excused, unforwarded>>
vars == <<clock, listener, sent, forwarded, acks, done, history>>

Init ==
  /\ clock = 0 /\ seen = <<>> /\ cmd = NoCommand /\ pend = None
  /\ sent = [m \in Msg |-> None] /\ forwarded = [m \in Msg |-> 0]
  /\ acks = {} /\ done = {} /\ excused = {} /\ unforwarded = {}

-----------------------------------------------------------------------------
(* HMACHelper.verify_message *)

\* del seen[:delcnt], where the loop stops at the first entry that is young
\* enough.
Stops(s, mintime) == {d \in 0 .. Len(s) : d < Len(s) => s[d + 1] >= mintime}
Prune(s, mintime) ==
  LET delcnt == CHOOSE d \in Stops(s, mintime) :
                  \A e \in Stops(s, mintime) : d <= e
  IN  [i \in 1 .. (Len(s) - delcnt) |-> s[i + delcnt]]

\* Faulty variant: the time stamp is put at the end, where it mostly belongs.
Insert_AtEnd(s, ts) == Append(s, ts)

\* The place for ts is looked for from the end of the list.
Places(s, ts) == {p \in 0 .. Len(s) : p > 0 => s[p] <= ts}
Insert(s, ts) ==
  LET ipnt == CHOOSE p \in Places(s, ts) : \A q \in Places(s, ts) : q <= p
  IN  [i \in 1 .. (Len(s) + 1) |->
         IF i <= ipnt THEN s[i] ELSE IF i = ipnt + 1 THEN ts ELSE s[i - 1]]

Entries(s) == {s[i] : i \in 1 .. Len(s)}

\* Faulty variant: the list is not asked about time stamps in the past.
Valid_OldUnchecked(ts, s) ==
  /\ clock - Window <= ts /\ ts <= clock + Window
  /\ ts >= clock => ts \notin Entries(s)

\* s is the list after the old entries are gone.
Valid(ts, s) ==
  /\ clock - Window <= ts /\ ts <= clock + Window
  /\ ts \notin Entries(s)

-----------------------------------------------------------------------------
(* The two programs *)

Send(m) ==
  /\ sent[m] = None
  /\ \E ts \in Time : sent' = [sent EXCEPT ![m] = ts]
  /\ UNCHANGED <<clock, listener, forwarded, acks, done, history>>

\* Faulty variant: the time stamp is recorded before the window is checked.
Receive_RecordFirst(m) ==
  LET kept == Prune(seen, clock - Window) IN
  /\ cmd = NoCommand /\ pend = None
  /\ sent[m] # None /\ forwarded[m] < MaxCopies
  /\ seen' = IF sent[m] \in Entries(kept) THEN kept ELSE Insert(kept, sent[m])
  /\ cmd' = IF Valid(sent[m], kept) THEN m ELSE cmd
  /\ UNCHANGED <<clock, pend, sent, forwarded, acks, done, history>>

\* The main loop takes a packet from the socket and verifies it: the time
\* stamp of a valid one is recorded at once, any other packet is dropped, and
\* the list of time stamps is pruned anyway.
Receive(m) ==
  LET kept == Prune(seen, clock - Window) IN
  /\ cmd = NoCommand /\ pend = None
  /\ sent[m] # None /\ forwarded[m] < MaxCopies
  /\ IF Valid(sent[m], kept)
     THEN seen' = Insert(kept, sent[m]) /\ cmd' = m
     ELSE seen' = kept /\ UNCHANGED cmd
  /\ UNCHANGED <<clock, pend, sent, forwarded, acks, done, history>>

\* Faulty variant: a command is answered even if handing it on raised.
Forward_Anyhow ==
  /\ cmd # NoCommand
  /\ cmd' = NoCommand /\ pend' = sent[cmd]
  /\ \/ /\ forwarded' = [forwarded EXCEPT ![cmd] = @ + 1]
        /\ UNCHANGED unforwarded
     \/ /\ unforwarded' = unforwarded \cup {cmd}
        /\ UNCHANGED forwarded
  /\ UNCHANGED <<clock, seen, sent, acks, done, excused>>

\* localsock.sendto to the monitor.  If it raises, the loop goes on without
\* an answer, but the time stamp stays recorded.
Forward ==
  /\ cmd # NoCommand
  /\ cmd' = NoCommand
  /\ \/ /\ forwarded' = [forwarded EXCEPT ![cmd] = @ + 1]
        /\ pend' = sent[cmd]
        /\ UNCHANGED unforwarded
     \/ /\ unforwarded' = unforwarded \cup {cmd}
        /\ UNCHANGED <<forwarded, pend>>
  /\ UNCHANGED <<clock, seen, sent, acks, done, excused>>

\* The answer may be lost, and its sendto may fail.
Answer ==
  /\ pend # None
  /\ pend' = None
  /\ acks' \in {acks, acks \cup {pend}}
  /\ UNCHANGED <<clock, seen, cmd, sent, forwarded, done, history>>

\* send_hologram_command looks for an answer with its own time stamp.
Poll(m) ==
  /\ m \notin done /\ sent[m] # None /\ sent[m] \in acks
  /\ done' = done \cup {m}
  /\ UNCHANGED <<clock, listener, sent, forwarded, acks, history>>

-----------------------------------------------------------------------------
(* The environment *)

WereForwarded == {m \in Msg : forwarded[m] > 0}

Tick ==
  /\ clock < MaxTime
  /\ clock' = clock + 1
  /\ UNCHANGED <<listener, sent, forwarded, acks, done, history>>

SetBack ==
  /\ clock' \in {t \in Time : t < clock}
  /\ excused' = excused \cup WereForwarded
  /\ UNCHANGED <<listener, sent, forwarded, acks, done, unforwarded>>

Restart ==
  /\ seen' = <<>> /\ cmd' = NoCommand /\ pend' = None
  /\ excused' = excused \cup WereForwarded
  /\ UNCHANGED <<clock, sent, forwarded, acks, done, unforwarded>>

Next == \/ \E m \in Msg : Send(m) \/ Receive(m) \/ Poll(m)
        \/ Forward \/ Answer \/ Tick \/ SetBack \/ Restart

Spec == Init /\ [][Next]_vars

-----------------------------------------------------------------------------
(* Properties *)

\* The variables keep their ranges; cmd is what main() holds before its first
\* sendto and pend what it holds between the two.
TypeOK ==
  /\ clock \in Time /\ seen \in Seq(Time)
  /\ cmd \in Msg \cup {NoCommand} /\ pend \in Time \cup {None}
  /\ sent \in [Msg -> Time \cup {None}]
  /\ forwarded \in [Msg -> 0 .. MaxCopies]
  /\ acks \subseteq Time /\ done \subseteq Msg
  /\ excused \subseteq Msg /\ unforwarded \subseteq Msg

\* timestamps_seen is strictly increasing, which the pruning loop of
\* verify_message takes for granted.
SortedSeen ==
  \A i, j \in 1 .. Len(seen) : i < j => seen[i] < seen[j]

\* However often and late a datagram is delivered, a command is forwarded a
\* second time only if it had been forwarded before the clock was set back or
\* the listener restarted: pruning forgets no time stamp that is still valid.
AtMostOnce ==
  \A m \in Msg : forwarded[m] > 1 => m \in excused

\* A time stamp is refused as a duplicate only if a command with it was
\* forwarded, is about to be, or could not be because sendto raised: a packet
\* that was refused itself leaves no trace, whenever the clock is set.
RefusedForCause ==
  \A i \in 1 .. Len(seen) :
    \E m \in Msg : /\ sent[m] = seen[i]
                   /\ forwarded[m] > 0 \/ m = cmd \/ m \in unforwarded

\* A sender that returns knows that a command with its time stamp was sent to
\* the monitor: one that was verified and recorded, but could not be handed
\* on, is never acknowledged, whatever is sent again.
AckHonest ==
  \A m \in done : \E k \in Msg : sent[k] = sent[m] /\ forwarded[k] > 0

=============================================================================
