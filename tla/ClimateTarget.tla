---------------------------- MODULE ClimateTarget ----------------------------
(***************************************************************************)
(* ValueTarget of the vehicle monitor: fan speed or temperature is moved   *)
(* to a target by presses of an up or a down button.  A press may be lost, *)
(* and what it did is reported later with the data frames.                 *)
(***************************************************************************)
EXTENDS Integers, Sequences

CONSTANTS
  Highest,     \* values are 0 to Highest
  Retries,     \* retry_count of a new target
  MaxPresses   \* bound: presses and reports on their way

ASSUME ClimateAssumption == Highest \in Nat /\ Retries \in Nat /\ MaxPresses \in Nat

NoTarget == -1

VARIABLES
  target, retry_count,
  due,                \* half a second has passed since last_send
  shown,              \* the value in last_cardata
  value,              \* the value in the car
  presses, values     \* on their way to the car, and back

climateVars == <<target, retry_count, due, shown, value, presses, values>>

ClimateInit ==
  /\ target = NoTarget /\ retry_count = 0 /\ due = TRUE
  /\ shown = 0 /\ value = 0 /\ presses = <<>> /\ values = <<>>

\* move_to_target for target t, when the value became v by a change of delta.
Move(t, v, delta) ==
  LET diff == t - v
  IN IF t = NoTarget
     THEN UNCHANGED <<target, due, presses>>
     ELSE /\ due' = FALSE
          /\ IF diff = 0 \/ diff * delta < 0
             THEN target' = NoTarget /\ UNCHANGED presses
             ELSE /\ target' = t
                  /\ presses' = Append(presses, IF diff > 0 THEN 1 ELSE -1)
                  /\ Len(presses') <= MaxPresses   \* bound

\* set_target, by a rotor, or when the mode of the fan changes.
SetTarget ==
  \E new \in -1 .. Highest + 1 :
    LET fits == new \in 0 .. Highest
    IN /\ retry_count' = Retries
       /\ IF fits /\ target = NoTarget
          THEN Move(new, shown, 0)
          ELSE /\ target' = IF fits THEN new ELSE target
               /\ due' = FALSE /\ UNCHANGED presses
       /\ UNCHANGED <<shown, value, values>>

\* Faulty variant: retries are not counted.
Retried_Free == retry_count

\* check_time: retries left after one.
Retried == retry_count - 1

CheckTime ==
  /\ target # NoTarget /\ due
  /\ IF retry_count > 0
     THEN retry_count' = Retried /\ Move(target, shown, 0)
     ELSE target' = NoTarget /\ UNCHANGED <<retry_count, due, presses>>
  /\ UNCHANGED <<shown, value, values>>

Wait == due' = TRUE /\ UNCHANGED <<target, retry_count, shown, value, presses, values>>

\* handle_data_frame: frames may have been lost before this one.
Frame ==
  /\ \E i \in 1 .. Len(values) :
       /\ shown' = values[i]
       /\ values' = SubSeq(values, i + 1, Len(values))
  /\ IF shown' # shown THEN Move(target, shown', shown' - shown)
                       ELSE UNCHANGED <<target, due, presses>>
  /\ UNCHANGED <<retry_count, value>>

Reported(v) ==
  /\ value' = v
  /\ values' = IF v = value THEN values ELSE Append(values, v)
  /\ Len(values') <= MaxPresses   \* bound

\* The car takes a press, or it is lost.
Press ==
  /\ presses # <<>> /\ presses' = Tail(presses)
  /\ LET v == value + Head(presses)
     IN \E w \in {value} \cup ({v} \cap 0 .. Highest) : Reported(w)
  /\ UNCHANGED <<target, retry_count, due, shown>>

\* Somebody uses the buttons of the car.
Driver ==
  /\ \E d \in {-1, 1} : value + d \in 0 .. Highest /\ Reported(value + d)
  /\ UNCHANGED <<target, retry_count, due, shown, presses>>

ClimateNext == SetTarget \/ CheckTime \/ Wait \/ Frame \/ Press \/ Driver

ClimateSpec == ClimateInit /\ [][ClimateNext]_climateVars

-----------------------------------------------------------------------------
(* Properties *)

\* A target is reached or given up, whatever presses are lost and however
\* late their reports are: after the last wish nothing presses buttons for
\* ever.
TargetEnds ==
  <>[][~(SetTarget \/ Driver)]_climateVars => <>[](target = NoTarget)

=============================================================================
