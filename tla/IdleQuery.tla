------------------------------ MODULE IdleQuery ------------------------------
(***************************************************************************)
(* Idle queries of the vehicle monitor: a round asks one query after the   *)
(* other, each again with every tick until it is answered, and gives up    *)
(* after 20 seconds.  An answer is known by its pid alone, and may come    *)
(* late, again, or never.                                                  *)
(***************************************************************************)
EXTENDS Integers, Sequences

CONSTANTS
  Queries,     \* how many there are
  MaxRounds    \* bound

ASSUME IdleAssumption == Queries \in Nat \ {0} /\ MaxRounds \in Nat

Idle == -1

VARIABLES
  bus_active,
  iq_index,       \* the query that is asked, Idle between rounds
  iq_late,        \* 20 seconds have passed since iq_last_start
  iq_data_new,    \* answers of this round: <<query, round asked, round taken>>
  iq_data,        \* the round that was reported last
  asked,          \* <<query, round>>: what may be answered at any time
  round           \* history: number of rounds begun

idleVars == <<bus_active, iq_index, iq_late, iq_data_new, iq_data, asked, round>>

IdleInit ==
  /\ bus_active = FALSE /\ iq_index = Idle /\ iq_late = FALSE
  /\ iq_data_new = <<>> /\ iq_data = <<>>
  /\ asked = {} /\ round = 0

\* Sends the query, which a car that is awake will answer.
Ask(i) == asked' = IF bus_active THEN asked \cup {<<i, round'>>} ELSE asked

\* Faulty variant: a round goes on with the answers of the last one.
Fresh_Kept == iq_data_new

\* What a round begins with.
Fresh == <<>>

\* start_idle_query, from a tick while the car is off
StartRound ==
  /\ iq_index = Idle /\ round < MaxRounds   \* bound
  /\ iq_index' = 0 /\ iq_late' = FALSE /\ iq_data_new' = Fresh
  /\ round' = round + 1 /\ Ask(0)
  /\ UNCHANGED <<bus_active, iq_data>>

\* check_idle_query, in a tick in time ...
AskAgain ==
  /\ iq_index # Idle /\ ~iq_late
  /\ UNCHANGED round /\ Ask(iq_index)
  /\ UNCHANGED <<bus_active, iq_index, iq_late, iq_data_new, iq_data>>

\* ... and too late.  If the packet cannot be sent the tick ends there.
TimeOut ==
  /\ iq_index # Idle /\ iq_late
  /\ iq_index' = Idle
  /\ UNCHANGED <<bus_active, iq_late, iq_data_new, iq_data, asked, round>>

\* idle_query_result: the report is what was taken, once all are answered.
Answered ==
  /\ iq_index # Idle
  /\ \E a \in asked : a[1] = iq_index
                      /\ iq_data_new' = Append(iq_data_new, <<a[1], a[2], round>>)
  /\ UNCHANGED <<bus_active, iq_late, round>>

NextQuery ==
  /\ iq_index < Queries - 1 /\ Answered
  /\ \/ iq_late /\ iq_index' = Idle /\ UNCHANGED asked       \* check_idle_query
     \/ iq_late /\ iq_index' = iq_index + 1 /\ UNCHANGED asked   \* ... cannot send
     \/ ~iq_late /\ iq_index' = iq_index + 1 /\ Ask(iq_index + 1)
  /\ UNCHANGED iq_data

LastQuery ==
  /\ iq_index = Queries - 1 /\ Answered
  /\ iq_index' = Idle /\ iq_data' = iq_data_new'
  /\ UNCHANGED asked

\* Time passes, the bus wakes and sleeps, another program asks the same.
Outside ==
  /\ \/ iq_late' = TRUE /\ UNCHANGED <<bus_active, asked>>
     \/ bus_active' = ~bus_active /\ UNCHANGED <<iq_late, asked>>
     \/ \E i \in 0 .. Queries - 1 : asked' = asked \cup {<<i, 0>>}
                                    /\ UNCHANGED <<bus_active, iq_late>>
  /\ UNCHANGED <<iq_index, iq_data_new, iq_data, round>>

\* init, after a reload
IdleReload ==
  /\ iq_index' = Idle /\ iq_data' = <<>>
  /\ UNCHANGED <<bus_active, iq_late, iq_data_new, asked, round>>

IdleNext == \/ StartRound \/ AskAgain \/ TimeOut \/ NextQuery \/ LastQuery
            \/ Outside \/ IdleReload

IdleSpec == IdleInit /\ [][IdleNext]_idleVars

-----------------------------------------------------------------------------
(* Properties *)

\* A report has one answer to each query, in order, all taken in one round,
\* however late or often answers come and wherever rounds are cut off: it
\* never mixes two rounds, though an answer in it may be one that an earlier
\* round, or another program, had asked for.
ReportWhole ==
  iq_data # <<>> =>
    /\ Len(iq_data) = Queries
    /\ \A i \in 1 .. Queries : /\ iq_data[i][1] = i - 1
                               /\ iq_data[i][3] = iq_data[1][3]
                               /\ iq_data[i][2] <= iq_data[i][3]

=============================================================================
