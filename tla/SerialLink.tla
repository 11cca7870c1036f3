----------------------------- MODULE SerialLink -----------------------------
(***************************************************************************)
(* The bluetooth half of serial_monitor.py: the connect_spp.sh processes,  *)
(* the device they connect, and the parser of what is read from it.        *)
(*                                                                         *)
(* The loop handles one event at a time, in any order; the tick comes      *)
(* every 250 ms between two of them.  A Popen that nothing refers to       *)
(* closes its pipe, and the end of that pipe is never seen.                *)
(***************************************************************************)
EXTENDS Naturals, Sequences

CONSTANTS
  Procs,      \* places for connection processes
  MaxBody     \* bound: bytes in a query

ASSUME SerialAssumption == 0 \notin Procs /\ MaxBody \in Nat

None == 0

VARIABLES
  want, cur, fd,     \* want_bluetooth, bluetooth_process, bluetooth_fd is open
  watched,           \* processes whose pipe is in the poller
  live, listed,      \* ... that run, that are in all_subprocesses,
  unread,            \* ... whose line was not read yet
  said,              \* history: ... that wrote it
  told,              \* history: ... that were sent SIGTERM
  \* the stream: what the phone is sending, and the parser
  unit, body,        \* "none", "query" or "escape"; bytes sent of a query
  cut,               \* history: a read ended inside the unit
  in_query, telesc, qbuf,
  got, meant         \* histories: what the last byte led to, and should lead to

link   == <<want, cur, fd, watched, live, listed, unread, said, told>>
stream == <<unit, body, cut, in_query, telesc, qbuf, got, meant>>
vars   == <<link, stream>>

Nothing == <<"none", <<>>>>

Init ==
  /\ want = FALSE /\ cur = None /\ fd = FALSE
  /\ watched = {} /\ live = {} /\ listed = {}
  /\ unread = {} /\ said = {} /\ told = {}
  /\ unit = "none" /\ body = <<>> /\ cut = FALSE
  /\ in_query = FALSE /\ telesc = FALSE /\ qbuf = <<>>
  /\ got = Nothing /\ meant = Nothing

-----------------------------------------------------------------------------
(* Connecting *)

\* Faulty variant: disconnect_bluetooth forgets the process.
Terminated_None == {}

\* disconnect_bluetooth: what is sent SIGTERM.
Terminated == {cur} \cap live

\* Faulty variant: check_subprocesses never drops a process.
Reaped_Never(procs, alive) == procs

\* check_subprocesses.
Reaped(procs, alive) == procs \cap alive

\* connect_bluetooth with bluetooth_process = c: which process is current then.
Connected(wanted, c) ==
  IF c # None THEN {c} ELSE IF wanted THEN Procs \ watched ELSE {None}

\* p becomes the current process, after the pipe of `ended` has ended; with
\* reap, check_subprocesses follows.  What is neither current nor listed goes.
Follow(p, ended, reap) ==
  LET new   == {p} \ (watched \cup {None})
      runs  == live \cup new
      all   == (listed \cup new) \ ended
      procs == IF reap THEN Reaped(all, runs) ELSE all
  IN /\ cur' = p
     /\ live' = runs /\ listed' = procs
     /\ watched' = ((watched \ ended) \cup new) \cap (procs \cup {p})
     /\ unread' = unread \cap watched' /\ said' = said \cap watched'
     /\ told' = (IF p = cur THEN told ELSE told \cup Terminated) \cap watched'

\* The phone starts anew on a new connection; qbuf stays.
NewStream ==
  /\ unit' = "none" /\ body' = <<>> /\ cut' = FALSE
  /\ in_query' = FALSE /\ telesc' = FALSE
  /\ got' = Nothing /\ meant' = Nothing
  /\ UNCHANGED qbuf

\* disconnect_bluetooth and connect_bluetooth.
Reconnect(ended) ==
  /\ \E p \in Connected(want, None) : Follow(p, ended, FALSE)
  /\ fd' = FALSE /\ NewStream /\ UNCHANGED want

\* tick of the vehicle monitor calls set_bluetooth; then check_subprocesses.
TickWith(w) ==
  /\ want' = w
  /\ IF w THEN /\ \E p \in Connected(TRUE, cur) : Follow(p, {}, TRUE)
               /\ UNCHANGED <<fd, stream>>
          ELSE /\ Follow(None, {}, TRUE)
               /\ fd' = FALSE /\ NewStream

Tick == \E w \in BOOLEAN : TickWith(w)

\* read_bt_process: the line with "hangup", of whatever process ...
ReadLine ==
  /\ \E p \in unread : unread' = unread \ {p}
  /\ fd' = TRUE
  /\ UNCHANGED <<want, cur, watched, live, listed, said, told, stream>>

\* ... and the end of its pipe.
ReadEnd == \E p \in watched \ (live \cup unread) : Reconnect({p})

\* bluetooth_read finds the end of the device, or bluetooth_push fails.
LinkLost == fd /\ Reconnect({})

\* The device cannot be opened or read, or is read after a push that failed
\* has closed it: the program ends, with all its processes.
DeviceFails ==
  /\ unread # {} \/ fd
  /\ want' = FALSE /\ cur' = None /\ fd' = FALSE
  /\ watched' = {} /\ live' = {} /\ listed' = {}
  /\ unread' = {} /\ said' = {} /\ told' = {}
  /\ in_query' = FALSE /\ telesc' = FALSE /\ qbuf' = <<>>
  /\ unit' = "none" /\ body' = <<>> /\ cut' = FALSE
  /\ got' = Nothing /\ meant' = Nothing

\* connect_spp.sh: the phone answers, ...
Says ==
  /\ \E p \in live \ said : said' = said \cup {p} /\ unread' = unread \cup {p}
  /\ UNCHANGED <<want, cur, fd, watched, live, listed, told, stream>>

\* ... it was terminated, ...
Dies ==
  /\ \E p \in live \cap told : live' = live \ {p}
  /\ UNCHANGED <<want, cur, fd, watched, listed, unread, said, told, stream>>

\* ... or it gives up.
GivesUp ==
  /\ \E p \in live \ told : live' = live \ {p}
  /\ UNCHANGED <<want, cur, fd, watched, listed, unread, said, told, stream>>

LinkNext == \/ Tick \/ ReadLine \/ ReadEnd \/ LinkLost \/ DeviceFails
            \/ Says \/ Dies \/ GivesUp

-----------------------------------------------------------------------------
(* The stream *)

SOH == 1
ETX == 3
EOT == 4
Letters == 65 .. 66

\* Faulty variant: what an earlier query left is kept.
NewQuery_Kept == qbuf

NewQuery == <<>>

\* The loop over the bytes in bluetooth_read.
Receive(b) ==
  LET plain == b \notin {SOH, ETX, EOT} IN
  /\ in_query' = (b = SOH \/ (b # ETX /\ in_query))
  /\ qbuf' = IF b = SOH THEN NewQuery
             ELSE IF plain /\ in_query THEN Append(qbuf, b) ELSE qbuf
  /\ telesc' = (b = EOT \/ (telesc /\ (~plain \/ in_query)))
  /\ got' = IF b = ETX /\ in_query /\ qbuf # <<>> THEN <<"query", qbuf>>
            ELSE IF plain /\ ~in_query
            THEN <<"shell", <<IF telesc /\ b > 64 THEN b - 64 ELSE b>>>>
            ELSE Nothing

\* The phone sends b, and what it means by it.
Byte(b, m) == fd /\ Receive(b) /\ meant' = m /\ UNCHANGED link

Begins(u) == unit = "none" /\ unit' = u /\ body' = <<>> /\ cut' = FALSE

BeginQuery == Begins("query") /\ Byte(SOH, Nothing)

QueryByte ==
  /\ unit = "query" /\ Len(body) < MaxBody   \* bound
  /\ \E b \in Letters : body' = Append(body, b) /\ Byte(b, Nothing)
  /\ UNCHANGED <<unit, cut>>

EndQuery ==
  /\ unit = "query" /\ unit' = "none"
  /\ Byte(ETX, IF body = <<>> THEN Nothing ELSE <<"query", body>>)
  /\ UNCHANGED <<body, cut>>

Text == \E b \in Letters : Begins("none") /\ Byte(b, <<"shell", <<b>>>>)

BeginEscape == Begins("escape") /\ Byte(EOT, Nothing)

\* A control byte is sent as the letter 64 above it.
EndEscape ==
  /\ unit = "escape" /\ unit' = "none"
  /\ \E b \in Letters : Byte(b, <<"shell", <<b - 64>>>>)
  /\ UNCHANGED <<body, cut>>

\* bluetooth_read returns: bt_in_query and bt_telesc never change, so the
\* next read begins outside of any query and escape.
EndRead ==
  /\ fd
  /\ in_query' = FALSE /\ telesc' = FALSE
  /\ cut' = (cut \/ unit # "none")
  /\ got' = Nothing /\ meant' = Nothing
  /\ UNCHANGED <<link, unit, body, qbuf>>

StreamNext == \/ BeginQuery \/ QueryByte \/ EndQuery
              \/ Text \/ BeginEscape \/ EndEscape \/ EndRead

Next == LinkNext \/ StreamNext

Spec == Init /\ [][Next]_vars

\* A tick that changes no wish and finds dead what was terminated.
LateTick == told \cap live = {} /\ TickWith(want)

\* The loop runs, a process that is left alone says its line or gives up, one that
\* was terminated dies, and does so before the tick again and again.
LinkFair ==
  /\ WF_vars(ReadLine) /\ WF_vars(ReadEnd)
  /\ WF_vars(Says \/ (GivesUp /\ live \ live' \subseteq live \ said)) /\ WF_vars(Dies)
  /\ SF_vars(LateTick)

FairSpec == Spec /\ LinkFair

-----------------------------------------------------------------------------
(* Properties *)

\* Every connection process that runs is the current one or was sent SIGTERM:
\* no order of ends, losses and ticks leaves a process that holds the device
\* and that nobody will stop.
NoStray == live \ told \subseteq {cur}

\* The end of a process that was terminated disconnects its successor, whose
\* end disconnects the next: only a tick that drops a process before its end
\* is read stops this.  If bluetooth stays wanted and neither the device nor a
\* process fails by itself any more, the device is open in the end for good.
Reconnects ==
  <>[]want /\ <>[][~(LinkLost \/ GivesUp \/ DeviceFails)]_vars => <>[]fd

\* A query or a byte that lies within one read gets where it was meant to,
\* unchanged, whatever reads ended inside of queries and escapes before it,
\* on this connection or an earlier one.
WholeUnitsArrive == ~cut => got = meant

=============================================================================
