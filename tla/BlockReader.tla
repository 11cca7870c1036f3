---------------------------- MODULE BlockReader ----------------------------
(***************************************************************************)
(* How do_copy.py copies one file: the thread FileReader reads blocks      *)
(* ahead and hands them over one at a time, under a lock with a condition  *)
(* for each side, and main() stores each at its position.  An upload sends *)
(* a block again and again until it has an answer or the time is up; with  *)
(* --localpath a block is written once, and os.write may store it in part, *)
(* which main() does not notice.  The process ends when both have ended:   *)
(* the thread is no daemon.                                                *)
(*                                                                         *)
(* What runs under the lock is one step.  Block b of the file is the       *)
(* number b, or Part where only a part of it was stored; the empty block   *)
(* at the end of the file is Blocks + 1.                                   *)
(***************************************************************************)
EXTENDS Integers, Sequences

CONSTANT Blocks     \* blocks in the file

ASSUME BlocksAssumption == Blocks \in Nat

None == 0
Part == -1
End  == Blocks + 1

VARIABLES
  local,       \* --localpath: the destination is a directory
  filename,    \* FileReader.filename is set
  data, error, \* its data and error
  rpc, next,   \* the thread: next step, block in hand
  mpc, block,  \* main: next step, block in hand
  dst,         \* the destination file
  failed       \* main() left the loop by an exception

reader == <<rpc, next>>
main   == <<mpc, block, failed>>
vars   == <<local, filename, data, error, reader, main, dst>>

\* The copy goes on where the destination ends; an earlier copy to a disk may
\* have left gaps.
Init ==
  /\ local \in BOOLEAN
  /\ filename = TRUE /\ data = None /\ error = FALSE
  /\ \E n \in 0 .. Blocks :
       \E gaps \in SUBSET (1 .. n) :
         /\ local \/ gaps = {}
         /\ dst = [i \in 1 .. n |-> IF i \in gaps THEN Part ELSE i]
         /\ next = n + 1
  /\ rpc = "open"
  /\ mpc = "get" /\ block = None /\ failed = FALSE

\* Condition.notify: it wakes who waits and is forgotten if nobody does.
Notified(pc) == IF pc = "wait" THEN "woken" ELSE pc

-----------------------------------------------------------------------------
(* The thread *)

\* The name may be gone before the file is opened, or opening may fail.
Open ==
  /\ rpc = "open"
  /\ rpc' \in (IF filename THEN {"read", "fail"} ELSE {"fail"})
  /\ UNCHANGED <<local, filename, data, error, next, main, dst>>

Read ==
  /\ rpc = "read"
  /\ rpc' \in {"offer", "fail"}
  /\ UNCHANGED <<local, filename, data, error, next, main, dst>>

\* Faulty variant: the block before is not waited for.
Offer_NoWait ==
  /\ rpc \in {"offer", "woken"}
  /\ IF filename
     THEN /\ data' = next
          /\ mpc' = Notified(mpc)
          /\ rpc' = IF next = End THEN "done" ELSE "read"
          /\ next' = IF next = End THEN next ELSE next + 1
     ELSE rpc' = "done" /\ UNCHANGED <<data, next, mpc>>
  /\ UNCHANGED <<local, filename, error, block, failed, dst>>

\* Waiting for room comes first, then the look at the name.
Offer ==
  /\ rpc \in {"offer", "woken"}
  /\ \/ /\ data # None /\ filename
        /\ rpc' = "wait"
        /\ UNCHANGED <<data, next, mpc>>
     \/ /\ ~filename
        /\ rpc' = "done"
        /\ UNCHANGED <<data, next, mpc>>
     \/ /\ data = None /\ filename
        /\ data' = next
        /\ mpc' = Notified(mpc)
        /\ rpc' = IF next = End THEN "done" ELSE "read"
        /\ next' = IF next = End THEN next ELSE next + 1
  /\ UNCHANGED <<local, filename, error, block, failed, dst>>

Fail ==
  /\ rpc = "fail"
  /\ error' = TRUE
  /\ mpc' = Notified(mpc)
  /\ rpc' = "done"
  /\ UNCHANGED <<local, filename, data, next, block, failed, dst>>

ReaderStep == Open \/ Read \/ Offer \/ Fail

-----------------------------------------------------------------------------
(* main *)

\* get_data: an error comes before a block that is waiting.
GetData ==
  /\ mpc \in {"get", "woken"}
  /\ \/ /\ data = None /\ ~error
        /\ mpc' = "wait"
        /\ UNCHANGED <<data, rpc, block, failed>>
     \/ /\ error
        /\ mpc' = "stop" /\ failed' = TRUE
        /\ UNCHANGED <<data, rpc, block>>
     \/ /\ data # None /\ ~error
        /\ block' = data /\ data' = None
        /\ rpc' = Notified(rpc)
        /\ mpc' = IF data = End THEN "stop" ELSE "put"
        /\ UNCHANGED failed
  /\ UNCHANGED <<local, filename, error, next, dst>>

\* v stored at the position of block b; storing it again changes nothing.
Stored(b, v) == [i \in 1 .. (IF b > Len(dst) THEN b ELSE Len(dst)) |->
                   CASE i = b -> v
                     [] i # b /\ i <= Len(dst) -> dst[i]
                     [] OTHER -> None]

\* An upload has its answer; what os.write returns is not looked at.
Put ==
  /\ mpc = "put"
  /\ \/ dst' = Stored(block, block)
     \/ local /\ dst' = Stored(block, Part)
  /\ mpc' = "get"
  /\ UNCHANGED <<local, filename, data, error, reader, block, failed>>

\* The block arrived but its answer did not: it will be sent again.
PutUnanswered ==
  /\ mpc = "put" /\ ~local
  /\ dst' = Stored(block, block)
  /\ UNCHANGED <<local, filename, data, error, reader, main>>

\* Faulty variant: the loop goes on after a block that could not be stored.
PutFails_GoOn ==
  /\ mpc = "put"
  /\ mpc' = "get"
  /\ UNCHANGED <<local, filename, data, error, reader, block, failed, dst>>

\* The time for retries is up, or the server refused, or os.write raised.
PutFails ==
  /\ mpc = "put"
  /\ mpc' = "stop" /\ failed' = TRUE
  /\ UNCHANGED <<local, filename, data, error, reader, block, dst>>

\* Faulty variant: the thread is not told.
Stop_Silent ==
  /\ mpc = "stop"
  /\ filename' = FALSE
  /\ mpc' = "done"
  /\ UNCHANGED <<local, data, error, reader, block, failed, dst>>

Stop ==
  /\ mpc = "stop"
  /\ filename' = FALSE
  /\ rpc' = Notified(rpc)
  /\ mpc' = "done"
  /\ UNCHANGED <<local, data, error, next, block, failed, dst>>

MainStep == GetData \/ Put \/ PutFails \/ Stop

-----------------------------------------------------------------------------
\* Either wait gives up after 1000 s and looks again.
WaitTimesOut ==
  /\ \/ rpc = "wait" /\ rpc' = "woken" /\ mpc' = mpc
     \/ mpc = "wait" /\ mpc' = "woken" /\ rpc' = rpc
  /\ UNCHANGED <<local, filename, data, error, next, block, failed, dst>>

Finished == rpc = "done" /\ mpc = "done"

Next == ReaderStep \/ MainStep \/ PutUnanswered \/ WaitTimesOut
        \/ (Finished /\ UNCHANGED vars)

Spec == Init /\ [][Next]_vars

\* Both threads are scheduled, files can be read and the retries of a block
\* come to an end.  No wait is assumed to time out.
FairSpec == Spec /\ WF_vars(ReaderStep) /\ WF_vars(MainStep)

-----------------------------------------------------------------------------
(* Properties *)

TypeOK ==
  /\ local \in BOOLEAN
  /\ filename \in BOOLEAN /\ data \in 0 .. End /\ error \in BOOLEAN
  /\ rpc \in {"open", "read", "offer", "wait", "woken", "fail", "done"}
  /\ next \in 1 .. End
  /\ mpc \in {"get", "wait", "woken", "put", "stop", "done"}
  /\ block \in 0 .. End /\ failed \in BOOLEAN
  /\ dst \in Seq({Part} \cup 0 .. Blocks)

\* Block i is at its place, whole or, on a disk, as far as os.write stored it.
InPlace(i) == dst[i] = i \/ (local /\ dst[i] = Part)

\* However far the thread reads ahead, and whatever fails or is sent twice, an
\* upload is a beginning of the file, so that its size is all the next run has
\* to know.  A copy on a disk is one too but for what a short write left out:
\* no block is skipped, and none is out of its place.
PrefixOnly == Len(dst) <= Blocks /\ \A i \in 1 .. Len(dst) : InPlace(i)

\* main() goes on to the next file only when this one is whole; on a disk it
\* may lack what a short write left out, which nobody noticed.
WholeOnSuccess ==
  mpc = "done" /\ ~failed =>
    Len(dst) = Blocks /\ \A i \in 1 .. Blocks : InPlace(i)

\* The process ends, and no wake-up it needs is lost: the manager waits for
\* it, and a thread that waits on would keep the process alive.
Ends == <>Finished

=============================================================================
