# A TLA+ verification of car_monitor

car_monitor runs on a Raspberry Pi in a car: it records CAN traffic, powers
dash cameras and uploads their recordings, talks to the car over a serial
adapter, takes commands over a mobile modem and drives a head-up display. It is
a set of small programs started by systemd (`src/etc/*.service`, all with
`Restart=always`) that share flag files in one directory, memory-mapped files
under `/dev/shm`, pipes and UDP packets on the loopback interface. Each program
is simple. What is hard is between them: two processes on one ring without a
lock, flag files changed while a poll looks at them, scripts that outlive the
state that started them, datagrams that come twice, clocks that are set.

## The system

| part | state it keeps | operations | talks to | what is hard |
|---|---|---|---|---|
| dashcam manager, `dashcam_monitor.py`, `do_mount.sh`, `do_unmount.sh` | one of thirteen states with a timer, a mount state per camera, child processes | a poll at least every 200 ms: check the cameras, ask the state for a transition | flag files, `i2c_shmem`, `wifi-addr`, mount scripts, `do_copy.py` | timeouts of scripts that go on running, flags that change at any time, crashes |
| CAN log ring, `canlog_shmem.c` | two pointers and 65536 records in shared memory | source: fill, publish; sink: copy, hand back | serial adapter, gzip file, started by the vehicle monitor | no lock, either process may be killed and restarted |
| CAN framing, `canlog_shmem.c` | receive buffer and its fill | read, scan, take a frame, keep a rest | serial adapter | frames cut anywhere by reads |
| command channel, `utils.py`, `hologram_command_listener.py`, `send_command.py` | time stamps seen in the window | verify, forward, acknowledge; send, poll for the answer | modem network, UDP port 9900 | loss, duplicates, order, clocks that go back, a failure after the time stamp is recorded |
| wifi manager, `wifi_monitor.py` | last address, ping failures | one check per second, reload of the driver | `want-wifi`, `wifi-addr` | stale file after a restart |
| video copy, `do_copy.py` | metadata files, a reader thread | group and name recordings, query, upload by blocks with retries | upload server or local disk | interruption between writes, retried uploads, short writes, thread handover |
| button poller, `gpio_poll.c` | debounce and long-press counters, quadrature counts | tick, edge | pipe to the serial monitor | bounces, missed edges |
| serial monitor, `serial_monitor.py` | bluetooth connection, parser state, file descriptors | epoll handlers, a tick every 250 ms | serial adapter, bluetooth, shell, poller | callbacks of connections that are gone |
| vehicle monitor, `monitor_hotload.py` | vehicle, display and climate state, idle queries, queues, menus, loggers | frames, events, messages, buttons, tick | everything | timeouts racing answers, reloading while running |
| frame decoding, `bitstream/` | receive buffer, last data frame | feed bytes, read bits, decode deltas | serial monitor | lost frames and delta coding |
| head-up display, `hud.c`, `hud_shm.py` | shared widget table with a version | rebuild, update, draw | vehicle monitor | table rebuilt while it is read |
| clock, `clock_monitor.py` | ten samples | query, set the clock | remote log receiver | everything else reads that clock |
| log receiver, `log_receiver.py`, `log_hotload.py` | last known car state | verify, log, notify | command channel's verifier | order of packets |
| expander, `i2c_monitor.py` | outputs last written, power button times | poll every 100 ms | `i2c_shmem` | wall clock used for durations |
| modem, `hologram_monitor.py`; logs, `logmgr.py`; `hotload.py`; build files | little | start pppd, write lines, reload | | almost pure input and output |

`PROJECT.json` lists all of them with their files and says which are modelled,
and lists the hazards of the code, each at its line with the properties that
cover it, and what they leave out.

What makes each part correct:

- *Ring*: the log file is exactly the published frames from where its sink
  joined; no record is touched by both processes; frames are lost only when the
  ring is full; a running sink gets everything written.
- *Framing*: every frame that was read is passed on, whole, once, in order.
- *Dashcam*: no power is cut under a camera that may be mounted; copies run from
  mounted cameras; a requested copy is not forgotten; a recording that is asked
  for starts, whatever hangs; an abort is served.
- *Command channel*: a command is carried out at most once, a time stamp is
  refused for a command that was accepted only, a sender told of success was
  successful.
- *Wifi*: the address in the file settles to that of an interface that works.
- *Copy*: the destination ends up with the bytes of the source under names that
  all files of a group agree on.
- *Buttons*: no change of a contact is missed, holding a button is one action,
  turns add up; the panel stays in range and gives the music back.
- *Serial monitor*: no process is left over, the connection comes back, a query
  is answered as that query.
- *Vehicle monitor*: a report holds answers of one round, decoded fields are
  those sent, processes are not forgotten, targets end, power states settle.
- *Display*: what is drawn settles to what was written last.

## Modules

**FrameQueue** says what the ring promises: a bounded queue that never blocks
its writer, with a reader that may leave and be replaced by one that begins at
some later frame.

**CanlogRing** is `canlog_shmem.c` access by access. The variables `wp`, `rp` and
`slot` are the mapping; `wpc` and `rpc` say where the two processes are.
`InitWritePointer`, `LoadReadPointer` and `CasReadPointer` are the steps of
`init_write_pointer`; `BeginFrame`, `EndFrame`, `CheckFull` and `Publish` are
`process_frame` and `advance_write_pointer`; `LoadWritePointer` and
`StoreReadPointer` are `init_read_pointer`; `EnterLoop`, `Poll`, `BeginRead`,
`EndRead` and `Advance` are `run_sink`. A record that is being filled or that
changes while it is copied is `Torn`. `CrashSource` and `CrashSink` may come
between any two steps. Loads and stores are sequentially consistent: the code's
release stores with its loads order the record against the pointer, which is
all the model uses. `CanlogRing` is shown to implement `FrameQueue` by the
instance `Queue` at its end, with the records between the pointers as the queue.

**CanlogFraming** is the loop of `run_source` with `process_frame`: `Read` takes
any number of bytes, `Skip`, `TakeFrame` and `Incomplete` are the branches of the
scan. A byte is its frame and place; data bytes may have the value of the start
byte, and a length read from a byte that is no length may be any.

**DashcamMonitor** is `Manager.check_state` with the classes of its states, one
action per class (`IdleTick`, `RecordTick`, `WaitMountTick`, ...). A pass checks
every camera (`Check` is `Camera.check`), asks the state for a transition, and
goes to the next state (`GotoIndex` is `set_state` with the exit and enter
methods) or looks at the state's timer (`Stay`). Time is a flag per timer that
says it ran out. `MountCommand`, `MountExit`, `MountInterrupted`, `UnmountExit`
and `LateUnmount` are the two scripts, `CopyExit` and `StrayExit` are
`do_copy.py` with and without a state that waits for it. `UserFlag`,
`WifiChanges`, `DiskChanges` and `Crash` are the outside; `Restart` is systemd
and `Manager.__init__`.

**CommandListener** is `HMACHelper.verify_message` (`Prune`, `Valid`, `Insert`),
the loop of `hologram_command_listener.py` and `send_hologram_command` (`Send`,
`Poll`). The loop takes three steps for a command: `Receive` verifies it and
records its time stamp, `Forward` is the `sendto` to the monitor and `Answer` the
one to the sender; either may raise, and a restart may come between them. A packet that was sent may be received
any number of times in any order or never, so the network needs no state.
`Tick` and `SetBack` are the clock, which `clock_monitor.py` and the vehicle
monitor set; `Restart` loses the list.

**BlockReader** is the copy of one file by `do_copy.py`: the thread `FileReader`
(`Open`, `Read`, `Offer`, `Fail`), the loop of `main` (`GetData`, `Put`,
`PutUnanswered`, `PutFails`, `Stop`), and the two conditions between them, whose
notifications are lost if nobody waits. What runs under the lock is one step.
The destination is the server, or a disk (`local`) on which `Put` may store a part
of a block (`Part`), as `os.write` may, and go on.

**CopyGroups** is whole runs of `do_copy.py`, with a copy as its size and whether it
has gaps:
`Start` is `generate_meta` up to the first save, `SaveMeta` saves the metadata of
one member, `Query` is the question to the destination with its answer
(`Lacking` is `local_query`), `CopyBlock` and `Finish` are the loop of `main`.
`Exit` may come at any step; `Record` and `DropOldest` are the camera between
runs. A block begins where the one before it ends in the source (`Position`), and on
a disk less of it may be stored, so that the next one leaves a gap or the copy
ends short. `BlockReader` is the reason why nothing else is missing.

**WifiMonitor** is `wifi_monitor.py`. The six disjuncts of `Pass` are the ways
through `get_status`, `check` and one round of `run`; `Ping` and what follows it
are two steps, because the answer of arping takes time. `Found` writes the file
`wifi-addr` when the address differs from the one in memory, `Poke` reloads the
driver. The address goes, in the other direction, to the dashcam manager, where
`WifiChanges` lets it change at any time, which is more than this module does.

**GpioPoll** is the loop of `gpio_poll.c` with a button and a rotary switch on two
expanders: `Wait`, `Read` or `ReadFails` per event (whose address is not taken, or
whose read fails) and `EndRound` (`Rotor` and `Button`) are a round of epoll,
`Tick` the 5 ms tick with what `gpio_event` of the vehicle monitor makes of the
events. `Turn` and `Press` move the contacts
between any two steps; an expander's line falls when its pins come to differ from
what was read last.

**ButtonPanel** is the button modes of `monitor_hotload.py`: `EnterMenu`,
`EnterTextEntry`, `EnterMedia` and `Exit` with `exit_button_mode`, the rotors and
buttons of menu and text entry, `Report` (`music_message`), and the phone, which
takes commands and sends reports over queues.

**HudTable** is the widget table access by access. `BuildBegin`, `Retire`, `Fill`,
`Count` and `Release` are `WidgetConfig.build`; `WriteText`, `TextWritten` and
`BumpVersion` are `set_text` and `bump_version`; `LoadBegin`, `LoadWidget` and
`LoadEnd` are `load_widgets` of `hud.c`; `Frame`, `ScanBegin`, `Scan`, `Draw` and
`EndFrame` are a round of its loop. The writer may die or reload at any step.

**SerialLink** is the bluetooth half of `serial_monitor.py`. `Follow` is what all
ways to connect and disconnect have in common; `Tick`, `ReadLine`, `ReadEnd`,
`LinkLost` and `DeviceFails` are the handlers, `Says`, `Dies` and `GivesUp` the
processes. `Receive` is the loop of `bluetooth_read` over the bytes, and
`EndRead` the end of one read, which may come between any two bytes.

**VehiclePower** is `update_active` and what sets its inputs: `ShowActive` for
display and bluetooth, `SuperviseCanlog` for the two processes of the ring (the
actions `StartSource` and `StartSink` of `CanlogRing` are its starts),
`SetPower`, `SetKey`, `SetForce`, `SetCanlog` and `Tick`, which notices
preconditioning. A step in which `update_active` raises leaves out what follows
in the code.

**IdleQuery**, **ClimateTarget** and **CarDataLink** are three more parts of the vehicle
monitor: rounds of idle queries (`StartRound`, `AskAgain`, `TimeOut`,
`NextQuery`, `LastQuery`); `ValueTarget` (`SetTarget`, `CheckTime`, and
`Move`, which is `move_to_target`) with a car that takes presses or loses them;
and the data frames with sequence numbers and changes (`FullFrame`,
`DeltaFrame`, `Rejected`). **FrameReader** is `bitstream.inc` with the calls of
`serial_monitor.py`: `StartByte`, `DataByte` and `EndByte` are `parse_data`,
`ReadBits` is `read_bits`, `CheckCrc`, `ParseBits` and `Parsed` are who calls it.

Parts that share no state are checked in one run, one at a time: **MCDashboard**
(`GpioPoll`, `ButtonPanel`, `HudTable`), **MCVehicle** (`VehiclePower`, `IdleQuery`,
`ClimateTarget`, `CarDataLink`, `FrameReader`) and **MCUpload** (`BlockReader`,
`WifiMonitor`) have a variable `part` that says whose steps a behaviour takes.
Steps of one part do not change what another reads, so a run of all together
would show nothing more, and would be the product in size. **MCCommandListener**
says that commands may be exchanged (symmetry), and **MCCopyGroups** which
recordings are checked for a copy to a disk: two of two files.

The modules whose names end in **_proofs** hold the theorems. Operators named `X_Something` with the comment "Faulty
variant" are mistakes the definition `X` could have had. Nothing uses them: each
is there to see that a property fails when it takes the place of `X`
(`PROJECT.json`, "mutants").

## Runs

| run | shows | bounds | distinct states |
|---|---|---|---|
| `canlog_ring` | no shared slot, file correct, drops only when full, refinement of `FrameQueue`, liveness | `N = 4`, `MaxFrames = 5` | 175 thousand |
| `canlog_framing` | room for the next read; frames reassembled unless a read ended in the frame at the front | 3 frames, data of 0 or 1 byte, buffer of 6 | 0.9 million |
| `canlog_split` | without that exception it fails (see Findings) | the same | |
| `dashcam_timely` | no mounted disk loses power, `want-wifi` agrees with the state, when scripts keep to their timeouts and the service stays up | a camera and a storage disk, 4 flags | 206 thousand |
| `dashcam_hang` | power under mounted cameras, copies, requests, with hanging scripts and crashes | a camera and a storage disk, 2 flags | 2.7 million |
| `dashcam_live` | a recording starts, an abort is served, with hanging scripts and crashes | one camera, 4 flags | 224 thousand |
| `command_listener` | at most once, refused for an accepted command only, honest answers | 3 commands, window 1, clock 0 to 3, 2 deliveries that count; symmetry of the commands | 2.5 million |
| `copy_groups` | recordings stay whole, names are kept, a good run leaves everything at the destination but for short writes | 4 files of size 3, blocks of 2; for a disk two recordings of two | 1.1 million |
| `upload` | a copy has no block skipped or out of place and is whole on success, but for short writes, and the process ends; the address settles | 4 blocks, a start at any of them, gaps left anywhere before it; 2 addresses at home | 14 thousand |
| `dashboard` | no change of a contact missed, one action for a hold, turns add up; music resumes, positions in range; the display settles | long press of 3 ticks, debounce of 2, 5 quarter steps either way, until the poller is two behind; the menu of 20 items, texts of 2, queues of 2; 2 widgets, 2 builds, 1 text each | 6.3 million |
| `serial_link` | no process left over, whole queries arrive, the connection comes back | 3 processes, queries of 2 bytes | 281 thousand |
| `vehicle` | sinks known, preconditioning meant, power states settle; reports whole; targets end; fields as sent; bits in order | timers of 1 and 2 ticks; 3 queries, 2 rounds; values 0 to 3, 2 retries, 2 presses or reports under way; 2 fields of 2 values, numbers modulo 3; frames of 2, 6 and 8 bytes, buffer of 6, widths 1 to 32 | 200 thousand |

Why the bounds are enough. Four slots give two records in use, so the ring fills,
wraps and empties, and five frames go round it more than once. Six bytes of
buffer hold a frame and the start of the next in every alignment. The dashcam
manager treats cameras alike but for storage, and an index runs past its list
with two as with ten; the flags of each run are those its properties are about,
and transitions that no flag of one run reaches are reached in another. A clock
of four values lets a window of one pass and come back; two commands may share a
time stamp while a third moves the list. A file of size three has a whole and a
short block, and each may be stored in part. Four blocks let
the thread be two ahead of the destination in the middle of a file; four files
make two recordings of two, or one of three with a file before or after it, in
every order of recording, dropping and interruption.

Five quarter steps pass a detent on both sides of the one the switch begins at,
and in the three ticks of a long press a contact can be lost, found and reported
again before the first action or, with a little delay, after it. Once the poller
is two steps behind, the turns are lost for it, and the knob rests: what it knows
of its pins does not depend on how often they change. The panel has the columns, the sticky items and the button positions of the
code, so that only texts are short; two commands and two reports are enough for
them to cross. Two widgets are one that is drawn while the other is written, and
two builds are one that begins while the table of the other is loaded; a
version that came round in 32 bits is out of reach of both. Of the connection
processes one is current, one is terminated and not yet dead, and one is dead
and not yet noticed. Two rounds of three queries have a first, a middle and a
last answer that may be late into the other round; numbers modulo three can be
turned once without notice, which is what sixteen lost frames do. A word has the
15 bits of the code, the frames one, three and four words, one more than the
buffer holds, and the widths lie on both sides of each multiple of a word that a
read can reach.

Switches. `Timely` says that scripts, and copies that were interrupted, end
before a timeout does; `Crashes` that the service may die. `MountedDiskPowered`
needs both in the good position, and this is a statement about the code: an
unmount that times out is taken for done, and the power is then cut.
`WifiFlagAgrees` needs a service that stays up, for a restart goes around the
code that writes the flag.

Fairness.

- *Ring.* Its two loops run while their processes live (`WF` on `SourceStep` and
  `SinkStep`); frames, starts and deaths are free.
- *Dashcam.* The poll runs for ever, timers run out, systemd restarts (`WF` on
  `Tick`, `StateExpires`, `CamExpires`, `Restart`). Nothing is assumed of users,
  wifi, disks, mount scripts or copies: they may hang, which is what the timeouts
  are for. `RecordingStarts` therefore says that a recording whose flag stays
  set, with nothing of a higher priority set, begins and goes on even if every
  script hangs.
- *Upload.* Both threads are scheduled, files can be read or fail, and the
  retries of a block end, as `timeout_retry` sees to (`WF` on `ReaderStep` and
  `MainStep`); that a wait gives up after 1000 seconds is possible but not
  needed, so `CopyEnds` shows that no notification is lost. The wifi manager
  passes every second, half a minute goes by, and an interface whose driver
  works finds the network (`WF` on `Pass`, `TimePasses`, `Joins`); networks, the
  host and the driver do as they like.
- *Serial link.* The loop handles what is ready, a connection process says its
  line or gives up, and dies when it is terminated (`WF`). The tick of 250 ms
  finds dead what was terminated again and again (`SF` on `LateTick`): a script
  that was sent SIGTERM ends within milliseconds, so some tick comes between its
  death and the next connection's. Without this the chain that `Reconnects`
  describes, in which each end disconnects the next connection, could go on for
  ever.
- *Vehicle.* The tick runs, a source that is terminated exits (`WF` on `Tick`
  and `SourceObeys`); half seconds pass, and presses and frames arrive or are
  lost (`WF` on `Wait`, `CheckTime`, `Press`, `Frame`).

Deadlock is checked in every run. `CanlogFraming` has an explicit `Idle` for a
device that has nothing more to send, `BlockReader` one for a process that has
ended, `CopyGroups` one for a camera that has reached the bound and is empty; no
other module stops.

## Proofs

For every value of the constants allowed by their assumptions:

- *CanlogRing.* `IInv` joins the type invariant, the window (the slots from `rp`
  to `wp` are the last `Pending` published frames), what each process knows at
  each step, and how `out` lies in `published`. The window alone is not
  inductive: the source fills the slot at `wp` before it knows whether there is
  room, so one needs that this slot is never in the window, and at `publish` that
  the window still has a place, which only the source can take; the sink's local
  pointer must be the shared one while it copies. The lemmas `DistRange` to
  `WindowInside` do the arithmetic of the ring once. From `IInv` follow
  `TypeCorrect`, `WindowCorrect`, `NoRace`, `FileCorrect`, and the action property
  `DropCorrect`. `Refinement` shows that the ring implements `FrameQueue`: with
  `WroteInv`, a frame is in the file before its record is handed back, every
  step is a step of the queue or changes nothing it sees.
- *CanlogFraming.* As long as no read was cut at the front of the buffer, what was
  taken are the first frames, and what lies in the buffer from `cpos` on (from its
  front, between scans) is the stream from where they end to where the last read
  did (`InStep`); so a scan stands on the first byte of the next frame
  (`AtFrame`), and `FramesReassembled` follows. Frames have any length, so where
  one begins is a recursive function; that the recursion has a solution at all
  (`OffsetLemma`) is shown with a least counterexample, since induction is not at
  hand. `RoomForRead` follows from the types alone (`FramingTypes`), and so holds
  for data that look like start bytes and lengths and after frames were lost.
- *DashcamMonitor.* `PowerWhileMounted` is not inductive because the power belongs
  to the state and the mount states belong to the cameras. `CamsOk` says what
  each state knows of the cameras: in states without power every camera is quiet
  and not wanted, in states without camera power every camera that is no storage
  is, in the copying states every camera is wanted or given up. `CheckLemma`
  does `Camera.check` once, `GotoLemma` and `StayLemma` the transitions;
  `PowerSafe` and `CopySafe` follow, with crashes and hanging scripts.
  `RequestsKept` adds `RoundInv`, which cameras of a round are done.
  `WifiAgrees` assumes that the service stays up and that no user sets the flag;
  `MountedPowered` assumes `Timely` and no crashes, and rests on `TruthInv`: what
  the manager believes of a disk is true, or a script for it runs.
- *CommandListener.* `AtMostOnce` needs `Remembered`: a command that was forwarded
  and is not excused is in the list, or is too old for the window of a clock that
  has not gone back. `PruneLemma` and `InsertLemma` are about the two list
  operations on sorted lists; the `CHOOSE`s they hide rest on `Least`, the least
  element of a set of naturals. `ForwardedOnce`, `ListSorted`,
  `OnlyAcceptedRefused` and `AnswersHonest` follow. Between verifying and handing on,
  the command in hand is not yet forwarded, but its time stamp is in the list
  (`InHand`), and every time stamp in the list was accepted (`Accepted`): that a
  `sendto` raises leaves both true.
- *BlockReader.* `PrefixOnly` needs to know which block is stored next. `HandedOver`
  says that the block `main` has taken, the one that waits and the one the thread
  has in hand are neighbours, and `InHand` that the block to be stored is the next
  one or, after a lost answer, the last one again. `CopyIsPrefix` and
  `CopyIsWhole` follow for files of every size: what a short write leaves out
  changes a block, not how many there are (`StoredLemma`). Two theorems are what there is
  to prove of the liveness property `CopyEnds`: a side waits only while the
  other has something to do (`NoLostWakeUp`), because whoever waits would wait
  again if it were woken now (`WaitInv`); and each step of either side leaves
  less to do (`WorkRunsOut`), by a measure of the blocks and of where the sides
  are. That the steps are taken is the fairness.
- *WifiMonitor.* `AddressRemembered`: the file and the memory differ only after a
  start, until an address was found.
- *CopyGroups.* A name tells which file it is of (`NameOf`), whatever recording it
  was put in: `FirstLemma` and `LastLemma` show that the first and the last file
  of a recording exist, with `Least`, and `NewfnLemma` that a new name is one of
  its file. So no two files share a name, and with `Copied`, which says that the
  files that are done have their size or a short write of this run, and where
  the one in hand stands, `CopyComplete` follows;
  `NamesKept` from `BySaved`. `RecordingsStayWhole` rests on the order in which a
  run saves: least file first. While it does, the recordings of the files that
  remain are whole on the camera and named alike, and if the first file of one
  is saved already, no file of another remains before it (`InTodo`); so a run
  that is killed leaves at most one recording half saved, the one `halved` names.
  A recording that is saved was recorded to its end, and its first file, if the
  camera has it, was saved before the others (`Known`); `Agree` is
  `RecordingsWhole` made true in the middle of saving, too.
- *Dashboard.* `EdgesSeen` needs `ReadSince`: in the middle of a round an expander
  is read, or will be, or has an edge waiting. `OneAction` rests on `HoldInv`,
  which ties the counter of a long press to the actions a hold has had: while it
  runs there was none, unless the hold was reported again. `TurnsRight` needs a bound
  on how far the poller may be behind without having noticed: the contacts moved
  at most one step from what it knew, and each round that may end before they
  move again (`Rounds`, at most two) can take it one step the wrong way.
  `PositionsRight` keeps the menu on columns that have items (`MenuColumns`).
  `MusicGoesOn`: while music is owed, leaving text entry will resume it, or the
  last command on its way is the resume, or it plays and no command is on its
  way (`WillPlay`), for queues of any length. That suffices because a report
  takes the resume back only when it takes back what is owed.
  `ScreenSettles` has, for a table that was loaded whole and not changed since
  (`Loaded`), for each widget a reason why the next scan or draw will find what
  is not shown (`Marked`).
- *SerialLink.* `NoProcessLeft` needs `Kept`: a process that runs is in the list
  and in the poller, so that its place is not taken again. `ConnectionTended` is
  what `Reconnects` has of safety: while bluetooth is wanted there is a current
  process that was not terminated and whose end will be noticed. `UnitsArrive` rests
  on `InStep`: within a unit that no read has cut, the parser's locals are the
  sender's.
- *Vehicle.* `ReportsWhole` from the answers of the round so far
  (`RoundSoFar`) and that none was asked in the future (`AskedBefore`).
  `DecodingRight` from `Counted`: the frames lost are the distance of the
  sequence numbers, up to a turn. `BitsRight` from the position in whole words
  and bits (`AtBit`); `ReadAll` adds up the words of a read, with the products
  and quotients in lemmas of their own. The theorem holds for words and reads of
  every width.
  A sink is not lost because the two processes are terminated
  together (`ToldTogether`) and a sink that runs without its source was told or
  has lost it unbidden (`Survivor`). `PreconditionRight` is an action property
  from `WaitMeant`: while time runs, the key was not turned.

Theorems about a part of a union run are about that part's own specification
(`PollSpec`, `PanelSpec`, `HudSpec`, `PowerSpec`, `IdleSpec`, `CarDataSpec`,
`ReaderSpec`), whose steps are the ones the run takes.

Checked by TLC only: the liveness properties (`EveryFrameWritten`,
`RecordingStarts`, `AbortServed`, `CopyEnds`, `AddressKept`, `Reconnects`, `Settles`,
`TargetEnds`), which are beyond the prover. Every safety property and action
property of the runs is a theorem.

## Findings

`canlog_shmem.c:288-297`. When a read ends inside a frame, the rest of the buffer
is kept for the next read, but only if the frame did not begin at the front of
the buffer. If it did, `bufpos` stays as it was and the next read overwrites the
part that had come: the frame is lost, though the debug message says that it is
moved. `canlog_split` shows it in a few steps; `ReassembledUnlessSplit` in
`canlog_framing` shows that it is the only way to lose a frame.

Worth knowing, though no comment or test says otherwise. Where a property would
fail on one of these, it names the case and excuses it.

- *Dashcam.* A failed mount ends a local copy with its request still set, so
  that it is tried again at once and for ever.
- *Commands.* A second command sent in the same millisecond is refused and yet
  both senders take the one answer for theirs (`AckHonest` is as weak as that);
  after a step back of the clock, a time stamp that was forgotten is valid again
  (`AtMostOnce`). A command whose `sendto` to the monitor raises is lost: its time
  stamp stays recorded, so that it is refused as a duplicate whenever it is sent
  again (`RefusedForCause`), though its sender is not told that it was forwarded.
- *Copy.* With `--localpath` the result of `os.write` is not looked at: on a disk that
  is full a run may end well with a file that is short, or that has a gap
  (`PrefixOnly`, `WholeOnSuccess`, `CompleteOnSuccess`). The next run stores a
  missing end; a gap is never found, for copies are compared by size. A
  recording whose metadata were saved in part stays apart for ever, its
  rest under a name of its own (`RecordingsWhole`); a file copied alone is copied
  again under another name when the file that continues it appears; `merge_from`
  lists the last file's record once for each member (`do_copy.py:345`); metadata
  are found by the name of the file, so that a camera that starts its numbers
  again gets the times of the old files (`do_copy.py:256`).
- *Wifi.* For failed pings the driver is reloaded once, at the fourth, and for an
  address of another network never; the file of an earlier start stays until an
  address is found (`AddressSettles`).
- *Poller.* A failed read leaves the interrupt line low, and the poller deaf for
  that expander until its pins are back where they were (`NothingMissed`); a
  press that is reported again after its long press, because the contact was lost
  and found within the debounce or a read failed, makes a second action
  (`OneActionPerHold`); two missed edges of a rotor count as two steps
  back (`TurnsTrue`).
- *Panel.* A change of autopause or a reload during text entry can leave the music
  paused, and so can a report that the music has started which was made before
  the pause and comes in after it: it is taken for somebody who started the
  music (`MusicResumes`). A chord of buttons acts
  in the mode at its release. `sim_input` uses a name that is not defined (`btn`).
- *Display.* `load_widgets` does not reset whether a widget was visible, so that
  a hidden widget may be drawn where a visible one was (`ShownOrNoticed`).
- *Serial monitor.* The end of a process that was terminated disconnects its
  successor, whose end disconnects the next (`Reconnects`); the line of an old
  process opens the device for the new one; the rest of a query that a read cuts
  goes to the shell (`WholeUnitsArrive`); within one batch of epoll a handler may
  be given an event of a closed file whose number was used again.
- *Vehicle monitor.* A sink that exits by itself is not started again, and makes
  `update_active` raise at the stop (`monitor_hotload.py:1429`), which skips the
  rest of each tick until the source has ended (`Settles`); a source that exits by
  itself gets a successor while its sink still runs (`SinksKnown`). Answers to
  idle queries are accepted by pid from any module and any round (`ReportWhole`);
  a packet that cannot be sent ends the tick, with its low-voltage counter, and
  keeps a round open that has timed out; a wall clock set back delays rounds.
- *Data frames.* An exception after parsing leaves the old values for the next
  change to build on, and sixteen lost frames, or a lost full frame at the turn,
  are not noticed (`DecodedTrue`). A restart of the interface, whose clock begins
  at 0, counts as a wrap of that clock. Frames longer than the buffer are cut and
  fail their checksum.

## Abstractions

- *Dashcam.* The flags are read once in a pass; the code reads them one by one
  within a millisecond. Outputs take effect when they are set; the expander
  applies them within 100 ms. `nocopy-N` files do not change. The read-write
  mount, notifications, LEDs, beeps, the upload of car data logs and
  `record_start_time` are left out; so are the retries inside `do_unmount.sh`,
  which end in one of two statuses. Script and copy are killed with the service.
- *Ring.* A record is copied between two looks at it, so that a change during the
  copy is seen. Numbers stand for frames, and the encoding of a frame in the file
  is left out.
- *Framing.* Overhead of 3 bytes instead of 12: start, length and end.
- *Command channel.* The digest is outside: packets that are not signed are
  dropped before anything modelled happens. Time is in units of the window.
- *Copy.* A file belongs to a recording if it begins where the one before it ends,
  which is fixed at the start; times are otherwise left out, and so are headers
  that cannot be decoded. File names are unique, the camera drops its oldest
  file, and neither happens during a run. The server stores a
  block whole or not at all; a write to a disk may store it in part or raise.
- *Upload.* A driver that hangs keeps its address or loses it, and is cured by a
  reload; the scan for networks is left out.
- *Poller.* One button and one switch; GPIO pins without an expander are not
  there. The tick happens only while a counter runs, as it changes nothing else.
- *Panel.* The text is its length, what a button only sends to the car is left
  out. Queues between the panel and the phone are in order and lose nothing.
- *Display.* Each widget has tiles of its own and is always visible or in the
  overlay. Accesses to memory are sequentially consistent. A text is a number,
  the one of its version.
- *Serial link.* A connection that is opened anew begins with a new unit. Process
  ids and file descriptors are not used again while anything remembers them.
- *Power.* Times count in ticks; display power that the expander does not switch,
  beeps and messages about a change are left out. Processes exit when they like.
- *Queries.* Any answer once asked for may come at any time and again.
- *Climate.* Fan speed and temperature alike are a number from 0; a press is taken
  or lost; reports are in order, and frames may be lost.
- *Data frames.* A change is seen as the field's new value, which stands for the
  bits of the difference. The checksum fits just what was sent: a frame with a
  lost or foreign byte fails it.

## Not modelled

- *CAN log file encoding*: the bytes a frame becomes. Its one state is the time of
  the frame before, and a frame that seems older, after the clock was set back,
  is given that time (`canlog_shmem.c:348`), so that the unsigned difference
  cannot wrap.
- *Clock synchronisation*: the median of ten samples. Its effect, a wall clock that
  is set either way, is in `CommandListener`.
- *Log receiver*: runs on the server; its verifier is the one of the command channel,
  and what it adds are notifications and lines in a log.
- *Expander* (`i2c_monitor.py`): outputs take effect at once in `DashcamMonitor`; it
  keeps what it wrote last and the time of a button press.
- *Modem link, log manager, hot loading, command line, build tools*: external
  programs, input and output. That a reload may come between any two messages is
  in the modules of the vehicle monitor (`PowerReload`, `IdleReload`,
  `CarDataReload`, `PanelReload`, `Rebuild`) but `ClimateTarget`, whose target would
  only end with it.
- Of the vehicle monitor: what widgets show, warnings and beeps, charge, trip and
  odometer computations, diagnostic codes, the low-voltage shutdown, and the
  parsing of most messages. They are many small functions of the last data frame
  with little state of their own, where a model would only repeat the code.
- Of the serial monitor: what goes back to shell and bluetooth, and the list of who
  asked what. The C implementation of `parse_cardata` is modelled; the one in Python
  (`monitor_hotload.py:2464`) is no longer called.

What would come next: `WifiMonitor` composed with `DashcamMonitor` in place of
`WifiChanges`; the routing of answers between shell, bluetooth and the vehicle
monitor.
