----------------------------- MODULE CarDataLink -----------------------------
(***************************************************************************)
(* Data frames: the car sends all fields now and then, and otherwise the   *)
(* fields that changed since the frame before, with a sequence number.     *)
(* parse_cardata and handle_data_frame of the vehicle monitor.             *)
(***************************************************************************)
EXTENDS Integers

CONSTANTS
  Fields, Values,
  Modulus       \* of the sequence numbers: 16

ASSUME CarDataAssumption == Modulus \in Nat \ {0}

OutOfSequence == -1

VARIABLES
  seq, sent,        \* the car: next sequence number, fields in its last frame
  expect_seq,
  cardata, last_cardata,
  \* histories
  lost,             \* frames lost since the last one accepted, up to Modulus
  lost_full,        \* one of them had all fields
  truth,            \* the fields as they were when that one was sent
  astray            \* a frame that does not follow was accepted, or not handled

cardataVars == <<seq, sent, expect_seq, cardata, last_cardata, lost, lost_full, truth, astray>>

CarDataInit ==
  /\ seq = 0 /\ expect_seq = OutOfSequence
  /\ \E v \in Values : sent = [f \in Fields |-> v]
  /\ cardata = sent /\ last_cardata = sent /\ truth = sent
  /\ lost = 0 /\ lost_full = FALSE /\ astray = FALSE

\* The car sends new values.
Sends(v, full) ==
  sent' = v /\ seq' = IF full THEN 0 ELSE (seq + 1) % Modulus

Lost ==
  /\ \E full \in BOOLEAN, v \in [Fields -> Values] :
       /\ Sends(v, full)
       /\ lost_full' = (lost_full \/ full)
  /\ lost' = IF lost < Modulus THEN lost + 1 ELSE lost
  /\ UNCHANGED <<expect_seq, cardata, last_cardata, truth, astray>>

\* update_cd for all fields of a frame with changes only.
Decoded(v) == [f \in Fields |-> IF v[f] # sent[f] THEN v[f] ELSE last_cardata[f]]

\* Faulty variant: any number is taken after one that was out of sequence.
InSequence_Lax == expect_seq \in {seq, OutOfSequence}

InSequence == seq = expect_seq

\* The frame of values v is parsed into c; an exception may keep the rest of
\* handle_data_frame from running.
Accept(v, c, next, stray) ==
  /\ cardata' = c /\ expect_seq' = next /\ truth' = v
  /\ lost' = 0 /\ lost_full' = FALSE
  /\ \/ last_cardata' = c /\ astray' = stray
     \/ last_cardata' = last_cardata /\ astray' = TRUE

FullFrame ==
  \E v \in [Fields -> Values] : Sends(v, TRUE) /\ Accept(v, v, 0, FALSE)

DeltaFrame ==
  \E v \in [Fields -> Values] :
    /\ Sends(v, FALSE) /\ InSequence
    /\ Accept(v, Decoded(v), (seq + 1) % Modulus,
              astray \/ lost = Modulus \/ lost_full)

\* The monitor asks for a full frame.
Rejected ==
  /\ ~InSequence
  /\ \E v \in [Fields -> Values] : Sends(v, FALSE)
  /\ expect_seq' = OutOfSequence
  /\ lost' = IF lost < Modulus THEN lost + 1 ELSE lost
  /\ UNCHANGED <<cardata, last_cardata, lost_full, truth, astray>>

\* init, after a reload: the copy in shared memory stays.
CarDataReload ==
  /\ expect_seq' = OutOfSequence
  /\ \E v \in Values : last_cardata' = [f \in Fields |-> v]
  /\ UNCHANGED <<seq, sent, cardata, lost, lost_full, truth, astray>>

CarDataNext == Lost \/ FullFrame \/ DeltaFrame \/ Rejected \/ CarDataReload

CarDataSpec == CarDataInit /\ [][CarDataNext]_cardataVars

-----------------------------------------------------------------------------
(* Properties *)

\* What is decoded is what the car sent, whichever frames are lost: a gap is
\* noticed and nothing is taken until all fields come.  It is not noticed if
\* a full turn of sequence numbers is lost or a frame with all fields, and
\* after an exception changes are applied to old values, both until all
\* fields come again.
DecodedTrue ==
  expect_seq # OutOfSequence /\ ~astray => cardata = truth /\ last_cardata = truth

=============================================================================
