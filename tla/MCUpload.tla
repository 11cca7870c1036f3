------------------------------ MODULE MCUpload ------------------------------
(***************************************************************************)
(* What an upload needs: the address of the wifi manager, which do_copy.py *)
(* binds its socket to, and the copying of a file.  do_copy.py reads the   *)
(* address once and fails without it, so that a behaviour is one of the    *)
(* part that `part` names, while the other stays as it began.              *)
(***************************************************************************)
EXTENDS BlockReader, WifiMonitor

VARIABLE part

uploadVars == <<vars, wifiVars, part>>

UploadInit == /\ Init /\ WifiInit /\ part \in {"copy", "wifi"}
              /\ part = "copy" \/ (dst = <<>> /\ ~local)
              /\ part = "wifi" \/ addr_file = NoAddr

UploadNext == \/ part = "copy" /\ Next     /\ UNCHANGED <<wifiVars, part>>
              \/ part = "wifi" /\ WifiNext /\ UNCHANGED <<vars, part>>

\* Both threads are scheduled; a pass comes every second, time passes, and a
\* driver that works finds the network.
Fairness ==
  /\ WF_uploadVars(part = "copy" /\ ReaderStep /\ UNCHANGED <<wifiVars, part>>)
  /\ WF_uploadVars(part = "copy" /\ MainStep /\ UNCHANGED <<wifiVars, part>>)
  /\ WF_uploadVars(part = "wifi" /\ Pass /\ UNCHANGED <<vars, part>>)
  /\ WF_uploadVars(part = "wifi" /\ Joins /\ UNCHANGED <<vars, part>>)
  /\ WF_uploadVars(part = "wifi" /\ TimePasses /\ UNCHANGED <<vars, part>>)

UploadSpec == UploadInit /\ [][UploadNext]_uploadVars /\ Fairness

\* The copying process ends, and no wake-up it needs is lost: the manager
\* waits for it, and a thread that waits on would keep the process alive.
CopyEnds == part = "copy" => Ends

\* The file wifi-addr ends up with the address of an interface that works,
\* and empty when wifi is not wanted.
AddressKept == part = "wifi" => AddressSettles

=============================================================================
