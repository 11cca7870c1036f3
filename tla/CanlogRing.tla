----------------------------- MODULE CanlogRing -----------------------------
(***************************************************************************)
(* The shared-memory ring between the two processes of canlog_shmem.c: the *)
(* source decodes CAN frames from the serial device and publishes them,    *)
(* the sink copies them to a compressed log file.  Slot 0 of the mapping   *)
(* is the header (read_pointer, write_pointer); the records are in slots   *)
(* 1 .. N-1.  Each process may die between any two steps and be started    *)
(* again on the same mapping, which is what the two init functions are     *)
(* written for.                                                            *)
(*                                                                         *)
(* A frame is the number frame_count had when it was received; 0 stands    *)
(* for the contents of a record that is unset or half written.             *)
(***************************************************************************)
EXTENDS Integers, Sequences

CONSTANTS N,          \* CANLOG_NUMRECORDS, 65536 in the code
          MaxFrames   \* bound: frames received during a behaviour

ASSUME NAssumption == N \in Nat /\ N >= 3
ASSUME MaxFramesAssumption == MaxFrames \in Nat

VARIABLES
  wp, rp,        \* write_pointer and read_pointer of the shared header
  slot,          \* the records of the shared mapping
  wpc, wl,       \* source: next step, local copy of the write pointer
  wold,          \* source: old_read_pointer of init_write_pointer
  nrecv,         \* source: frames received so far
  rpc, rl, rw,   \* sink: next step, local read_pointer and write_pointer
  rbuf,          \* sink: the part of the record that is already copied
  published,     \* history: the frames made visible, in order
  start, out     \* history: index in published at which the sink's file
                 \* begins, and the frames in that file

sourceVars == <<wpc, wl, wold, nrecv>>
sinkVars   == <<rpc, rl, rw, rbuf>>
history    == <<published, start, out>>
vars == <<wp, rp, slot, sourceVars, sinkVars, history>>

Torn  == 0
Slots == 1 .. (N - 1)

\* What both init functions make of a pointer: 0 (a fresh mapping) and
\* anything past the last record become 1.
Norm(p) == IF p = 0 \/ p >= N THEN 1 ELSE p

\* The slot after p; slot 0 is never a record.
NextSlot(p) == IF p + 1 >= N THEN 1 ELSE p + 1

\* Steps from slot a forward to slot b.
Dist(a, b) == IF b >= a THEN b - a ELSE (b - a) + (N - 1)

\* Frames published that the sink has not advanced past.
Pending  == Dist(Norm(rp), Norm(wp))
Consumed == Len(published) - Pending

Init ==
  /\ wp = 0 /\ rp = 0
  /\ slot = [s \in Slots |-> Torn]
  /\ wpc = "off" /\ wl = 1 /\ wold = 0 /\ nrecv = 0
  /\ rpc = "off" /\ rl = 1 /\ rw = 1 /\ rbuf = Torn
  /\ published = <<>> /\ start = 0 /\ out = <<>>

-----------------------------------------------------------------------------
(* The source *)

StartSource ==
  /\ wpc = "off"
  /\ wpc' = "init_wp"
  /\ UNCHANGED <<wp, rp, slot, wl, wold, nrecv, sinkVars, history>>

InitWritePointer ==
  /\ wpc = "init_wp"
  /\ wp' = Norm(wp)
  /\ wpc' = "load_rp"
  /\ UNCHANGED <<rp, slot, wl, wold, nrecv, sinkVars, history>>

LoadReadPointer ==
  /\ wpc = "load_rp"
  /\ wold' = rp
  /\ wpc' = IF rp = Norm(rp) THEN "idle" ELSE "cas_rp"
  /\ UNCHANGED <<wp, rp, slot, wl, nrecv, sinkVars, history>>

\* The compare-and-exchange: a failed one reloads old_read_pointer and the
\* loop tests it again.
CasReadPointer ==
  /\ wpc = "cas_rp"
  /\ \/ /\ rp = wold
        /\ rp' = 1
        /\ wpc' = "idle"
        /\ wold' = wold
     \/ /\ rp # wold
        /\ wold' = rp
        /\ wpc' = IF rp = Norm(rp) THEN "idle" ELSE "cas_rp"
        /\ rp' = rp
  /\ UNCHANGED <<wp, slot, wl, nrecv, sinkVars, history>>

\* process_frame: the record at the write pointer is filled in place.
BeginFrame ==
  /\ wpc = "idle"
  /\ nrecv < MaxFrames
  /\ nrecv' = nrecv + 1
  /\ wl' = wp
  /\ slot' = [slot EXCEPT ![wp] = Torn]
  /\ wpc' = "fill"
  /\ UNCHANGED <<wp, rp, wold, sinkVars, history>>

EndFrame ==
  /\ wpc = "fill"
  /\ slot' = [slot EXCEPT ![wl] = nrecv]
  /\ wpc' = "check"
  /\ UNCHANGED <<wp, rp, wl, wold, nrecv, sinkVars, history>>

\* Faulty variant: the test for a full ring forgets that the ring wraps.
CheckFull_NoWrap ==
  /\ wpc = "check"
  /\ wpc' = IF wl + 1 = rp THEN "idle" ELSE "publish"
  /\ UNCHANGED <<wp, rp, slot, wl, wold, nrecv, sinkVars, history>>

\* Faulty variant: one record too many is kept free.
CheckFull_EarlyFull ==
  /\ wpc = "check"
  /\ wpc' = IF rp \in {NextSlot(wl), NextSlot(NextSlot(wl))}
            THEN "idle" ELSE "publish"
  /\ UNCHANGED <<wp, rp, slot, wl, wold, nrecv, sinkVars, history>>

\* advance_write_pointer, up to the load of the read pointer: a full ring
\* drops the frame.
CheckFull ==
  /\ wpc = "check"
  /\ wpc' = IF NextSlot(wl) = rp THEN "idle" ELSE "publish"
  /\ UNCHANGED <<wp, rp, slot, wl, wold, nrecv, sinkVars, history>>

Publish ==
  /\ wpc = "publish"
  /\ wp' = NextSlot(wl)
  /\ published' = Append(published, slot[wl])
  /\ wpc' = "idle"
  /\ UNCHANGED <<rp, slot, wl, wold, nrecv, sinkVars, start, out>>

CrashSource ==
  /\ wpc # "off"
  /\ wpc' = "off"
  /\ UNCHANGED <<wp, rp, slot, wl, wold, nrecv, sinkVars, history>>

-----------------------------------------------------------------------------
(* The sink *)

\* A new sink opens a new log file before it touches the pointers.
StartSink ==
  /\ rpc = "off"
  /\ out' = <<>>
  /\ rpc' = "load_wp"
  /\ UNCHANGED <<wp, rp, slot, sourceVars, rl, rw, rbuf, published, start>>

\* init_read_pointer is a load and a store: the source may run in between.
LoadWritePointer ==
  /\ rpc = "load_wp"
  /\ rw' = Norm(wp)
  /\ rpc' = "store_rp"
  /\ UNCHANGED <<wp, rp, slot, sourceVars, rl, rbuf, history>>

\* Faulty variant: a new sink begins at the first record.
StoreReadPointer_First ==
  /\ rpc = "store_rp"
  /\ rp' = 1
  /\ start' = Consumed + Dist(Norm(rp), rw)
  /\ rpc' = "enter"
  /\ UNCHANGED <<wp, slot, sourceVars, rl, rw, rbuf, published, out>>


StoreReadPointer ==
  /\ rpc = "store_rp"
  /\ rp' = rw
  /\ start' = Consumed + Dist(Norm(rp), rw)
  /\ rpc' = "enter"
  /\ UNCHANGED <<wp, slot, sourceVars, rl, rw, rbuf, published, out>>

EnterLoop ==
  /\ rpc = "enter"
  /\ rl' = rp
  /\ rpc' = "poll"
  /\ UNCHANGED <<wp, rp, slot, sourceVars, rw, rbuf, history>>

\* Faulty variant: the range test of run_sink takes slot 1 for the header.
Poll_SkipFirst ==
  /\ rpc = "poll"
  /\ rw' = wp
  /\ rpc' = IF wp = rl \/ wp <= 1 \/ wp > N THEN "poll" ELSE "read"
  /\ UNCHANGED <<wp, rp, slot, sourceVars, rl, rbuf, history>>


Poll ==
  /\ rpc = "poll"
  /\ rw' = wp
  /\ rpc' = IF wp = rl \/ wp < 1 \/ wp > N THEN "poll" ELSE "read"
  /\ UNCHANGED <<wp, rp, slot, sourceVars, rl, rbuf, history>>

\* Faulty variant: the record is handed back before it is copied.
BeginRead_AdvanceFirst ==
  /\ rpc = "read"
  /\ rbuf' = slot[rl]
  /\ rp' = NextSlot(rl)
  /\ rpc' = "copy"
  /\ UNCHANGED <<wp, slot, sourceVars, rl, rw, history>>


BeginRead ==
  /\ rpc = "read"
  /\ rbuf' = slot[rl]
  /\ rpc' = "copy"
  /\ UNCHANGED <<wp, rp, slot, sourceVars, rl, rw, history>>

\* What is written is the record only if it was the same at both ends of
\* the copy.
EndRead ==
  /\ rpc = "copy"
  /\ out' = Append(out, IF slot[rl] = rbuf THEN rbuf ELSE Torn)
  /\ rpc' = "advance"
  /\ UNCHANGED <<wp, rp, slot, sourceVars, rl, rw, rbuf, published, start>>

\* Faulty variant: the read pointer runs past the last record.
Advance_NoWrap ==
  /\ rpc = "advance"
  /\ rl' = rl + 1
  /\ rp' = rl + 1
  /\ rpc' = IF rl + 1 = rw THEN "poll" ELSE "read"
  /\ UNCHANGED <<wp, slot, sourceVars, rw, rbuf, history>>


Advance ==
  /\ rpc = "advance"
  /\ rl' = NextSlot(rl)
  /\ rp' = NextSlot(rl)
  /\ rpc' = IF NextSlot(rl) = rw THEN "poll" ELSE "read"
  /\ UNCHANGED <<wp, slot, sourceVars, rw, rbuf, history>>

CrashSink ==
  /\ rpc # "off"
  /\ rpc' = "off"
  /\ UNCHANGED <<wp, rp, slot, sourceVars, rl, rw, rbuf, history>>

-----------------------------------------------------------------------------
SourceStep == \/ InitWritePointer \/ LoadReadPointer \/ CasReadPointer
              \/ EndFrame \/ CheckFull \/ Publish
SinkStep   == \/ LoadWritePointer \/ StoreReadPointer \/ EnterLoop
              \/ Poll \/ BeginRead \/ EndRead \/ Advance

Next == \/ StartSource \/ SourceStep \/ BeginFrame \/ CrashSource
        \/ StartSink \/ SinkStep \/ CrashSink

Spec == Init /\ [][Next]_vars

\* Both loops run while their process lives; frames, starts and deaths are
\* the environment's.
FairSpec == Spec /\ WF_vars(SourceStep) /\ WF_vars(SinkStep)

-----------------------------------------------------------------------------
(* Properties *)

\* The ranges of the pointers and the program counters of run_source and
\* run_sink.
TypeOK ==
  /\ wp \in 0 .. (N - 1) /\ rp \in 0 .. (N - 1)
  /\ slot \in [Slots -> 0 .. MaxFrames]
  /\ wpc \in {"off", "init_wp", "load_rp", "cas_rp", "idle", "fill",
              "check", "publish"}
  /\ wl \in Slots /\ wold \in 0 .. (N - 1) /\ nrecv \in 0 .. MaxFrames
  /\ rpc \in {"off", "load_wp", "store_rp", "enter", "poll", "read",
              "copy", "advance"}
  /\ rl \in Slots /\ rw \in 0 .. (N - 1) /\ rbuf \in 0 .. MaxFrames
  /\ published \in Seq(0 .. MaxFrames) /\ start \in Nat
  /\ out \in Seq(0 .. MaxFrames)

\* The source never fills the record the sink is copying, although neither
\* takes a lock (process_frame writes before it looks at read_pointer).
NoDataRace ==
  ~ (wpc = "fill" /\ rpc \in {"read", "copy"} /\ wl = rl)

\* The sink's file holds the published frames from the point where that sink
\* joined, whole, in order, without a gap or a repetition, whatever died and
\* was restarted in between.
FileIsPublished ==
  rpc \notin {"off", "load_wp", "store_rp"} =>
    /\ start + Len(out) <= Len(published)
    /\ \A i \in 1 .. Len(out) : /\ out[i] = published[start + i]
                                /\ out[i] # Torn

\* The records between the two pointers are complete and are the last frames
\* published: a source killed inside process_frame leaves nothing visible.
WindowIntact ==
  /\ Pending <= Len(published)
  /\ \A s \in Slots :
       (Dist(Norm(rp), s) < Pending) =>
          slot[s] = published[(Len(published) + 1) - Dist(s, Norm(wp))]

\* advance_write_pointer gives a frame up only when all N - 2 usable records
\* hold frames the sink has not advanced past.
DropOnlyWhenFull ==
  [][(wpc = "check" /\ wpc' = "idle") => Pending = N - 2]_vars

\* A sink that keeps running writes out every frame that is published after
\* it joined.
EveryFrameWritten ==
  \A k \in 1 .. MaxFrames :
    (rpc \in {"poll", "read", "copy", "advance"} /\ Len(published) >= k)
      ~> (start + Len(out) >= k \/ rpc = "off")

-----------------------------------------------------------------------------
(* The ring implements a bounded queue.  The queue's reader is the sink once *)
(* it has stored its read pointer; a frame leaves the queue when the sink    *)
(* advances past it, so a frame written just before a crash is still queued. *)
SinkJoined == rpc \notin {"off", "load_wp", "store_rp"}

Queue == INSTANCE FrameQueue WITH
  Frame    <- 1 .. MaxFrames,
  Capacity <- N - 2,
  queue    <- SubSeq(published, Consumed + 1, Len(published)),
  reader   <- SinkJoined,
  file     <- IF SinkJoined THEN SubSeq(published, start + 1, Consumed)
                            ELSE <<>>

QueueSpec == Queue!Spec

=============================================================================
