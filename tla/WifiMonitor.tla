----------------------------- MODULE WifiMonitor -----------------------------
(***************************************************************************)
(* wifi_monitor.py: while the dashcam manager wants wifi, a pass every     *)
(* second looks at the interface, reloads its driver when it seems to      *)
(* hang, and keeps in the file wifi-addr the address that uploads use.     *)
(*                                                                         *)
(* A pass waits for the answer of arping only; the rest of it takes no     *)
(* time.  A driver that hangs keeps its address or loses it.               *)
(***************************************************************************)
EXTENDS Integers

CONSTANT Home     \* addresses in the network of the upload host

NoAddr == "none"
Other  == "other"     \* any address in another network

ASSUME WifiAssumption == NoAddr \notin Home /\ Other \notin Home

\* Tests are for 4; more is all the same.
MaxFails == 5

VARIABLES
  wanted,            \* want-wifi is there and disable-wlan0 is not
  lan, host,         \* the network in reach; the upload host is up
  address, hung,     \* of the interface; its driver hangs
  poke_due,          \* 30 s have passed since last_poke
  ping_fail_count,
  seen,              \* self.addr, while arping waits for an answer
  wifi_addr,         \* Manager.wifi_addr
  addr_file,         \* the file wifi-addr
  \* histories
  leftover,          \* the file is from before the last start
  unnoticed          \* the driver began to hang after four failed pings

outside  == <<wanted, lan, host>>
iface    == <<address, hung, poke_due, unnoticed>>
manager  == <<ping_fail_count, seen, wifi_addr, addr_file, leftover>>
wifiVars == <<outside, iface, manager>>

Offered(l) == CASE l = "home" -> Home [] l = "other" -> {Other} [] l = "none" -> {NoAddr}

WifiInit ==
  /\ wanted = FALSE /\ lan = "none" /\ host = FALSE
  /\ address = NoAddr /\ hung = FALSE /\ poke_due = TRUE
  /\ ping_fail_count = 0 /\ seen = NoAddr /\ wifi_addr = NoAddr
  /\ addr_file \in Home \cup {NoAddr} /\ leftover = (addr_file # NoAddr)
  /\ unnoticed = FALSE

-----------------------------------------------------------------------------
(* A pass *)

\* The file is written when what was found differs from the memory.
Found(a) ==
  /\ seen' = NoAddr /\ wifi_addr' = a
  /\ IF a = wifi_addr THEN UNCHANGED <<addr_file, leftover>>
                      ELSE addr_file' = a /\ leftover' = FALSE

\* rmmod and modprobe.
Poke == address' = NoAddr /\ hung' = FALSE /\ poke_due' = FALSE /\ unnoticed' = FALSE

NotWanted ==
  /\ seen = NoAddr /\ ~wanted
  /\ Found(NoAddr)
  /\ UNCHANGED <<outside, iface, ping_fail_count>>

\* Faulty variant: only a driver that does not answer is reloaded.
NoAddress_Kept ==
  /\ seen = NoAddr /\ wanted /\ address = NoAddr
  /\ ping_fail_count' = 0 /\ Found(NoAddr)
  /\ UNCHANGED <<outside, iface>>

NoAddress ==
  /\ seen = NoAddr /\ wanted /\ address = NoAddr
  /\ ping_fail_count' = 0 /\ Found(NoAddr)
  /\ IF poke_due THEN Poke ELSE UNCHANGED iface
  /\ UNCHANGED outside

WrongLan ==
  /\ seen = NoAddr /\ wanted /\ address = Other
  /\ ping_fail_count' = 0 /\ Found(NoAddr)
  /\ UNCHANGED <<outside, iface>>

Ping ==
  /\ seen = NoAddr /\ wanted /\ address \in Home
  /\ seen' = address
  /\ UNCHANGED <<outside, iface, ping_fail_count, wifi_addr, addr_file, leftover>>

Answers == lan = "home" /\ host /\ ~hung

Ready ==
  /\ seen # NoAddr /\ Answers
  /\ ping_fail_count' = 0 /\ Found(seen)
  /\ UNCHANGED <<outside, iface>>

PingFails ==
  /\ seen # NoAddr /\ ~Answers
  /\ ping_fail_count' = IF ping_fail_count < MaxFails THEN ping_fail_count + 1 ELSE MaxFails
  /\ Found(NoAddr)
  /\ IF ping_fail_count' = 4 THEN Poke ELSE UNCHANGED iface
  /\ UNCHANGED outside

Pass == NotWanted \/ NoAddress \/ WrongLan \/ Ping \/ Ready \/ PingFails

-----------------------------------------------------------------------------
(* The outside *)

Outside ==
  /\ \/ wanted' = ~wanted /\ UNCHANGED <<lan, host>>
     \/ lan' \in {"home", "other", "none"} \ {lan} /\ UNCHANGED <<wanted, host>>
     \/ host' = ~host /\ UNCHANGED <<wanted, lan>>
  /\ UNCHANGED <<iface, manager>>

\* wpa_supplicant and the DHCP client, while the driver works.
Joins ==
  /\ ~hung /\ address \notin Offered(lan)
  /\ address' \in Offered(lan)
  /\ UNCHANGED <<outside, hung, poke_due, unnoticed, manager>>

Renews ==
  /\ ~hung /\ address \in Home
  /\ address' \in Home \ {address}
  /\ UNCHANGED <<outside, hung, poke_due, unnoticed, manager>>

Hangs ==
  /\ ~hung /\ hung' = TRUE /\ address' \in {address, NoAddr}
  /\ unnoticed' = (ping_fail_count >= 4)
  /\ UNCHANGED <<outside, poke_due, manager>>

TimePasses == poke_due' = TRUE /\ UNCHANGED <<outside, address, hung, unnoticed, manager>>

\* systemd starts it again; a write that was cut leaves the file empty.
Restart ==
  /\ seen' = NoAddr /\ ping_fail_count' = 0 /\ wifi_addr' = NoAddr
  /\ poke_due' = TRUE /\ unnoticed' = FALSE
  /\ addr_file' \in {addr_file, NoAddr} /\ leftover' = (addr_file' # NoAddr)
  /\ UNCHANGED <<outside, address, hung>>

WifiNext == Pass \/ Outside \/ Joins \/ Renews \/ Hangs \/ TimePasses \/ Restart

WifiSpec == WifiInit /\ [][WifiNext]_wifiVars

-----------------------------------------------------------------------------
(* Properties *)

Disturbed == Renews \/ Hangs \/ Restart

\* When nothing is renewed, hangs or dies any more: if wifi stays wanted, the
\* network in reach and the host up, the file ends up with the address of the
\* interface; and if wifi stays unwanted, it ends up empty.  It is not so for
\* a driver that hangs with the address of another network, or that began to
\* hang when pings had failed four times, which is never reloaded; and for the
\* address of an earlier start, which stays until another was found.
AddressSettles ==
  <>[][~Disturbed]_wifiVars =>
    /\ <>[](wanted /\ lan = "home" /\ host) =>
         \/ <>[](addr_file = address /\ address \in Home)
         \/ <>[](hung /\ (unnoticed \/ address = Other))
    /\ <>[]~wanted => <>[](addr_file = NoAddr \/ leftover)

=============================================================================
