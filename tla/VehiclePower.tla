---------------------------- MODULE VehiclePower ----------------------------
(***************************************************************************)
(* Power and key of the car in the vehicle monitor, and what update_active *)
(* makes of them: the display and its power, bluetooth, the two processes  *)
(* of the CAN logger, the log of car data; and preconditioning, which is   *)
(* noticed when the car has power for a while and its key was not turned.  *)
(*                                                                         *)
(* Times are counted in ticks, down to 0.                                  *)
(***************************************************************************)
EXTENDS Integers

CONSTANTS
  DisplayTime, ForceTime, BlueTime,   \* how long display and bluetooth stay on
  LockTime, WaitTime                  \* between switches; before preconditioning

ASSUME PowerAssumption ==
  {DisplayTime, ForceTime, BlueTime, LockTime, WaitTime} \subseteq Nat \ {0}

NoWait == -1

VARIABLES
  vehicle_on, key_on, force_connect,
  enable_canlog, force_canlog,
  wait, preconditioning,         \* precondition_wait_time
  display_timeout, bluetooth_timeout, lockout,
  display_power, bluetooth,      \* "on", "off", or "unknown" after a reload
  logging,                       \* logger is not None
  source, sink,                  \* process handles: "none", "run" or "dead"
  canlog_sent_kill,
  \* histories
  keyed,                         \* the key was on since the power came
  told,                          \* of source and sink: were terminated
  unbidden,                      \* the last source ended though it was not told
  others                         \* kinds of running sinks that no handle names

input    == <<vehicle_on, key_on, force_connect, enable_canlog, force_canlog>>
timers   == <<display_timeout, bluetooth_timeout, lockout>>
display  == <<timers, display_power, bluetooth>>
canlog   == <<source, sink, canlog_sent_kill, told, unbidden, others>>
precond  == <<wait, preconditioning, keyed>>
powerVars == <<input, display, logging, canlog, precond>>

PowerInit ==
  /\ vehicle_on = FALSE /\ key_on = FALSE /\ force_connect = FALSE
  /\ enable_canlog = FALSE /\ force_canlog = FALSE
  /\ wait = NoWait /\ preconditioning = FALSE /\ keyed = FALSE
  /\ display_timeout = 0 /\ bluetooth_timeout = 0 /\ lockout = 0
  /\ display_power = "unknown" /\ bluetooth = FALSE /\ logging = FALSE
  /\ source = "none" /\ sink = "none" /\ canlog_sent_kill = FALSE
  /\ told = {} /\ unbidden = FALSE /\ others = {}

-----------------------------------------------------------------------------
(* update_active *)

\* With d, b and l left of the timers.
ShowActive(d, b, l) ==
  LET driving == vehicle_on' /\ key_on'
      shown   == IF force_connect' \/ display_timeout' > 0 THEN "on" ELSE "off"
      switch  == l = 0 /\ display_power # shown
  IN /\ display_timeout' = IF driving THEN DisplayTime
                           ELSE IF force_connect' THEN ForceTime ELSE d
     /\ bluetooth_timeout' = IF driving THEN BlueTime ELSE b
     /\ display_power' = IF switch THEN shown ELSE display_power
     /\ lockout' = IF switch THEN LockTime ELSE l
     /\ bluetooth' = (force_connect' \/ bluetooth_timeout' > 0)

WantCanlog == (vehicle_on' \/ force_canlog') /\ enable_canlog'

\* What becomes of a sink whose handle is overwritten.
Forgotten(k) ==
  IF k # "run" THEN {}
  ELSE {IF "sink" \in told THEN "told" ELSE IF unbidden THEN "stray" ELSE "lost"}

\* Faulty variant: only the source is terminated.
Terminate_Source(k) == {"source"}

\* The processes terminate() is called for.
Terminate(k) == {"source"} \cup (IF k = "none" THEN {} ELSE {"sink"})

\* There is no sink to terminate: update_active ends with an exception.
Raises(s, k) == ~WantCanlog /\ s # "none" /\ ~canlog_sent_kill /\ k = "none"

\* Faulty variant: the mark that the old source was terminated stays.
StartCanlog_KillKept(k) ==
  /\ source' = "run" /\ sink' = "run" /\ UNCHANGED canlog_sent_kill
  /\ told' = {} /\ unbidden' = FALSE
  /\ others' = others \cup Forgotten(k)

\* A device is there: source and sink are started.
StartCanlog(k) ==
  /\ source' = "run" /\ sink' = "run" /\ canlog_sent_kill' = FALSE
  /\ told' = {} /\ unbidden' = FALSE
  /\ others' = others \cup Forgotten(k)

StopCanlog(s, k) ==
  /\ told' = told \cup Terminate(k)
  /\ canlog_sent_kill' = (k # "none")
  /\ source' = s /\ sink' = k
  /\ UNCHANGED <<unbidden, others>>

KeepCanlog(s, k) ==
  source' = s /\ sink' = k /\ UNCHANGED <<canlog_sent_kill, told, unbidden, others>>

\* With s and k the handles.
SuperviseCanlog(s, k) ==
  \/ WantCanlog /\ s = "none" /\ StartCanlog(k)
  \/ (WantCanlog \/ s = "none" \/ canlog_sent_kill) /\ KeepCanlog(s, k)
  \/ ~WantCanlog /\ s # "none" /\ ~canlog_sent_kill /\ StopCanlog(s, k)

UpdateActive(d, b, l, s, k) ==
  /\ ShowActive(d, b, l)
  /\ SuperviseCanlog(s, k)
  /\ logging' = IF Raises(s, k) THEN logging ELSE vehicle_on'

UpdateNow == UpdateActive(display_timeout, bluetooth_timeout, lockout, source, sink)

-----------------------------------------------------------------------------
(* Events, messages and the tick *)

\* set_power_on
SetPower ==
  /\ vehicle_on' = ~vehicle_on
  /\ UNCHANGED <<key_on, force_connect, enable_canlog, force_canlog>>
  /\ wait' = IF vehicle_on THEN NoWait ELSE IF key_on THEN wait ELSE WaitTime
  /\ keyed' = (~vehicle_on /\ key_on)
  /\ UpdateNow /\ UNCHANGED preconditioning

\* Faulty variant: set_key_on leaves the time of preconditioning.
KeyWait_Kept == wait

\* set_key_on: precondition_wait_time after it.
KeyWait == NoWait

SetKey ==
  /\ key_on' = ~key_on
  /\ UNCHANGED <<vehicle_on, force_connect, enable_canlog, force_canlog>>
  /\ wait' = KeyWait
  /\ keyed' = (keyed \/ (vehicle_on /\ ~key_on))
  /\ UpdateNow /\ UNCHANGED preconditioning

\* force_connect, by button or message
SetForce ==
  /\ force_connect' = ~force_connect
  /\ UNCHANGED <<vehicle_on, key_on, enable_canlog, force_canlog>>
  /\ UpdateNow /\ UNCHANGED precond

\* enable_canlog, disable_canlog and the menu
SetCanlog ==
  /\ \/ enable_canlog' = TRUE /\ force_canlog' \in {force_canlog, TRUE}
     \/ enable_canlog' = FALSE /\ force_canlog' \in {force_canlog, FALSE}
  /\ UNCHANGED <<vehicle_on, key_on, force_connect, display, logging, canlog, precond>>

Less(t) == IF t > 0 THEN t - 1 ELSE t

\* A handle whose process has exited is dropped.
Polled(h) == IF h = "dead" THEN "none" ELSE h

\* tick: what follows update_active is skipped when that raises.
Tick ==
  /\ UNCHANGED input
  /\ UpdateActive(Less(display_timeout), Less(bluetooth_timeout), Less(lockout),
                  Polled(source), Polled(sink))
  /\ wait' = Less(wait)
  /\ preconditioning' = IF Raises(Polled(source), Polled(sink)) THEN preconditioning
                        ELSE wait' = 0 /\ vehicle_on /\ ~key_on
  /\ UNCHANGED keyed

\* init, after a reload; field_def keeps the rest.
PowerReload ==
  /\ display_timeout' = 0 /\ bluetooth_timeout' = 0 /\ lockout' = 0
  /\ display_power' = "unknown" /\ logging' = FALSE
  /\ UNCHANGED <<input, bluetooth, canlog, precond>>

SourceExits ==
  /\ source = "run" /\ source' = "dead"
  /\ unbidden' = ("source" \notin told)
  /\ UNCHANGED <<input, display, logging, sink, canlog_sent_kill, told, others, precond>>

SinkExits ==
  /\ \/ sink = "run" /\ sink' = "dead" /\ UNCHANGED others
     \/ \E o \in others : others' = others \ {o} /\ UNCHANGED sink
  /\ UNCHANGED <<input, display, logging, source, canlog_sent_kill, told, unbidden, precond>>

PowerNext == \/ SetPower \/ SetKey \/ SetForce \/ SetCanlog \/ Tick \/ PowerReload
             \/ SourceExits \/ SinkExits

PowerSpec == PowerInit /\ [][PowerNext]_powerVars

\* The tick comes every 250 ms, and a source that is terminated exits.
SourceObeys == "source" \in told /\ SourceExits

-----------------------------------------------------------------------------
(* Properties *)

\* A running sink of the CAN logger is the one the handle names, or was
\* terminated, or is one whose source had exited by itself: whatever comes
\* between starts, stops, exits and ticks, no other pair is forgotten.
SinksKnown == "lost" \notin others

\* Preconditioning is only noticed while the key was not turned since the car
\* got its power, in whatever order and how often key and power change.
PreconditionMeant == [][~preconditioning /\ preconditioning' => ~keyed]_powerVars

Driving == vehicle_on /\ key_on
Parked  == ~vehicle_on /\ ~force_connect /\ ~(force_canlog /\ enable_canlog)

\* When the car stays on, display, bluetooth and log come on and stay; when
\* it stays off and nothing is forced, they go off and the CAN source ends.
\* A sink that exited by itself makes update_active raise in every tick, but
\* only until its source has ended.
PowerSettles ==
  <>[][~PowerReload]_powerVars =>
    /\ <>[]Driving => <>[](display_power = "on" /\ bluetooth /\ logging)
    /\ <>[]Parked  => <>[](display_power = "off" /\ ~bluetooth /\ ~logging /\ source = "none")

=============================================================================
