---------------------------- MODULE MCCopyGroups ----------------------------
(***************************************************************************)
(* CopyGroups for TLC.  With a server, which stores blocks whole, every    *)
(* choice of recordings is checked.  With a disk it is two recordings of   *)
(* two files each, as far as they are recorded between two runs: what a    *)
(* short write leaves behind does not depend on where recordings begin.    *)
(***************************************************************************)
EXTENDS CopyGroups

MCInit == Init /\ (local => close = {2, 4})

MCSpec == MCInit /\ [][Next]_vars

=============================================================================
