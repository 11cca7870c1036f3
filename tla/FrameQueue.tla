----------------------------- MODULE FrameQueue -----------------------------
(***************************************************************************)
(* What the CAN log ring promises: a bounded first-in first-out queue that *)
(* never blocks its writer, and a reader that may leave at any time and be *)
(* replaced by one that begins a new file at some later frame.             *)
(***************************************************************************)
EXTENDS Integers, Sequences

CONSTANTS Frame, Capacity

VARIABLES queue, reader, file

vars == <<queue, reader, file>>

Init == queue = <<>> /\ reader = FALSE /\ file = <<>>

\* A frame is taken in while there is room; a full queue loses the new frame
\* and nothing else, which is no step of this specification.
Put(f) ==
  /\ Len(queue) < Capacity
  /\ queue' = Append(queue, f)
  /\ UNCHANGED <<reader, file>>

Get ==
  /\ reader /\ queue # <<>>
  /\ file' = Append(file, Head(queue))
  /\ queue' = Tail(queue)
  /\ UNCHANGED reader

Leave ==
  /\ reader
  /\ reader' = FALSE
  /\ file' = <<>>
  /\ UNCHANGED queue

\* A new reader skips frames that were queued before it came.
Join ==
  /\ ~reader
  /\ reader' = TRUE
  /\ \E k \in 0 .. Len(queue) : queue' = SubSeq(queue, k + 1, Len(queue))
  /\ UNCHANGED file

Next == (\E f \in Frame : Put(f)) \/ Get \/ Leave \/ Join

Spec == Init /\ [][Next]_vars

=============================================================================
