------------------------- MODULE MCCommandListener -------------------------
(***************************************************************************)
(* CommandListener for TLC.  Nothing in it tells one command from another. *)
(***************************************************************************)
EXTENDS CommandListener, TLC

Symmetric == Permutations(Msg)

=============================================================================
