----------------------------- MODULE MCVehicle -----------------------------
(***************************************************************************)
(* The car's side of the vehicle monitor: power states and CAN logger,     *)
(* idle queries, climate targets, frames and the data in them.  They share *)
(* little enough to be looked at one at a time: a behaviour is one of the  *)
(* part that `part` names, while the others stay as they began.            *)
(***************************************************************************)
EXTENDS VehiclePower, IdleQuery, ClimateTarget, CarDataLink, FrameReader

VARIABLE part

allVars == <<powerVars, idleVars, climateVars, cardataVars, readerVars, part>>

Init ==
  /\ PowerInit /\ IdleInit /\ ClimateInit /\ CarDataInit /\ ReaderInit
  /\ part \in {"power", "queries", "climate", "cardata", "frames"}
  /\ \A f \in Fields : sent[f] = 0
  /\ part # "frames" => frame = 2

PowerStep   == PowerNext   /\ UNCHANGED <<idleVars, climateVars, cardataVars, readerVars>>
IdleStep    == IdleNext    /\ UNCHANGED <<powerVars, climateVars, cardataVars, readerVars>>
ClimateStep == ClimateNext /\ UNCHANGED <<powerVars, idleVars, cardataVars, readerVars>>
CarDataStep == CarDataNext /\ UNCHANGED <<powerVars, idleVars, climateVars, readerVars>>
ReaderStep  == ReaderNext  /\ UNCHANGED <<powerVars, idleVars, climateVars, cardataVars>>

Next == \/ part = "power"   /\ PowerStep   /\ UNCHANGED part
        \/ part = "queries" /\ IdleStep    /\ UNCHANGED part
        \/ part = "climate" /\ ClimateStep /\ UNCHANGED part
        \/ part = "cardata" /\ CarDataStep /\ UNCHANGED part
        \/ part = "frames"  /\ ReaderStep  /\ UNCHANGED part

\* The tick comes every 250 ms, a source that is terminated exits, half
\* seconds pass, presses and data frames arrive or are lost.
Fairness ==
  /\ WF_allVars(part = "power" /\ Tick /\ UNCHANGED <<idleVars, climateVars, cardataVars, readerVars, part>>)
  /\ WF_allVars(part = "power" /\ SourceObeys /\ UNCHANGED <<idleVars, climateVars, cardataVars, readerVars, part>>)
  /\ WF_allVars(part = "climate" /\ CheckTime /\ UNCHANGED <<powerVars, idleVars, cardataVars, readerVars, part>>)
  /\ WF_allVars(part = "climate" /\ Wait /\ UNCHANGED <<powerVars, idleVars, cardataVars, readerVars, part>>)
  /\ WF_allVars(part = "climate" /\ Press /\ UNCHANGED <<powerVars, idleVars, cardataVars, readerVars, part>>)
  /\ WF_allVars(part = "climate" /\ Frame /\ UNCHANGED <<powerVars, idleVars, cardataVars, readerVars, part>>)

Spec == Init /\ [][Next]_allVars /\ Fairness

\* When the car stays on, display, bluetooth and log come on and stay; when
\* it stays off and nothing is forced, they go off and the CAN source ends.
\* A sink that exited by itself makes update_active raise in every tick, but
\* only until its source has ended.
Settles == part = "power" => PowerSettles

=============================================================================
