--------------------------- MODULE DashcamMonitor ---------------------------
(***************************************************************************)
(* dashcam_monitor.py: a polling state machine that powers the cameras and *)
(* the USB hub, mounts their disks with shell scripts, runs do_copy on     *)
(* them one after the other, and takes its orders from flag files that     *)
(* other services create and remove at any time.                           *)
(*                                                                         *)
(* A pass of Manager.check_state is one action.  Time is a flag per timer  *)
(* that says the timer has run out; the scripts and the copies are         *)
(* processes with steps of their own.                                      *)
(***************************************************************************)
EXTENDS Integers, FiniteSets

CONSTANTS
  NumCams,     \* cameras in the configuration, numbered from 1
  Storage,     \* those that are the extra storage, not a camera
  NoCopy,      \* those with a nocopy-N flag file
  UserFlags,   \* the flag files the other services set and remove here
  Timely,      \* TRUE: scripts and interrupted copies end before timeouts
  Crashes      \* TRUE: the service may die and be restarted by systemd

Cams == 1 .. NumCams

ASSUME CamsAssumption == NumCams \in Nat /\ Storage \subseteq Cams /\ NoCopy \subseteq Cams
ASSUME SwitchAssumption == Timely \in BOOLEAN /\ Crashes \in BOOLEAN

Flags == {"want-record", "want-mount", "want-mount-cam", "want-mount-ext",
          "want-lcopy", "want-wifi", "need-check", "copy-restart",
          "abort-all", "reset-hub"}

ASSUME FlagsAssumption == UserFlags \subseteq Flags

VARIABLES
  alive,     \* the manager process runs
  st,        \* class of curstate
  idx,       \* its camera_index
  local,     \* its opts.local
  expired,   \* timeout_time has passed
  copy,      \* its external_process: none, running, or how it ended
  cam,       \* the Camera objects
  flags,     \* the flag files that exist
  addr,      \* wifi-addr holds an address
  power,     \* outputs set over i2c
  disk,      \* per camera: visible device, mounted file system
  stray,     \* cameras that an interrupted do_copy is still reading
  copied     \* history: cameras copied in the current round

vars == <<alive, st, idx, local, expired, copy, cam, flags, addr, power,
          disk, stray, copied>>

World   == <<addr, disk>>
Machine == <<st, idx, local, expired, copy, flags, power, copied>>

IdleStates    == {"IdleFlash", "Idle"}
UnmountStates == {"WaitUnmount", "WaitUnmountExt"}
States == IdleStates \cup UnmountStates \cup
          {"ResetHub", "Record", "PoweroffWait", "PoweroffWaitInhibit",
           "WifiWait", "WaitMount", "RunCopy",
           "ManualMountExt", "ManualMountCam"}

\* The class attributes of the states.
HubPower(s) == s \notin {"ResetHub", "Record", "PoweroffWait"}
\* Faulty variant: the unmount state does without DC power.
DcPower_NotForUnmount(s) ==
  s \in {"Record", "WaitMount", "RunCopy", "ManualMountCam"}

DcPower(s)  == s \in {"Record", "WaitMount", "RunCopy", "ManualMountCam",
                      "WaitUnmount"}
WantWifi(s) == s \notin IdleStates \cup {"ResetHub", "Record", "PoweroffWait"}
TimeoutState ==
  [s \in {"IdleFlash", "ResetHub", "PoweroffWait", "PoweroffWaitInhibit",
          "WifiWait"} |->
     IF s \in {"IdleFlash", "ResetHub"} THEN "Idle" ELSE "IdleFlash"]

WantMount(fl)    == fl \cap {"want-mount", "want-mount-cam", "want-mount-ext"} # {}
WantMountCam(fl) == fl \cap {"want-mount", "want-mount-cam"} # {}
WantMountExt(fl) == fl \cap {"want-mount", "want-mount-ext"} # {}

\* A camera's disk needs the hub, and the camera itself needs DC power.
Powered(c) == power.hub /\ (c \in Storage \/ power.dc)

NewCam == [mst |-> "NotMounted", want |-> FALSE, expired |-> FALSE,
           mount |-> "none", unmount |-> "none", late |-> FALSE]

Init ==
  /\ alive = TRUE /\ st = "IdleFlash" /\ idx = 1 /\ local = FALSE
  /\ expired = FALSE /\ copy = "none"
  /\ cam = [c \in Cams |-> NewCam]
  /\ flags = {} /\ addr = FALSE
  /\ power = [hub |-> HubPower("IdleFlash"), dc |-> DcPower("IdleFlash")]
  /\ disk = [c \in Cams |-> [there |-> FALSE, mounted |-> FALSE]]
  /\ stray = {} /\ copied = {}

-----------------------------------------------------------------------------
(* Camera.check *)

\* The first half: a wish that differs from the state starts a new attempt.
Begin(k) ==
  CASE k.mst = "NotMounted" /\ k.want ->
         [k EXCEPT !.mst = "Mounting", !.expired = FALSE]
    [] k.mst = "Mounted" /\ ~k.want ->
         [k EXCEPT !.mst = "Unmounting", !.expired = FALSE]
    [] OTHER -> k

\* Where a signal finds do_mount.sh: in the mount command or after it.  The
\* shell dies of it only when the command it waits for has ended.
Signalled(m) == CASE m = "run" -> "int" [] m = "fix" -> "intfix" [] OTHER -> m

\* On a timeout the script is interrupted but mount_process is kept, so the
\* next attempt waits for the old script before it starts its own.
Mounting(k, there) ==
  CASE k.expired ->
         [k EXCEPT !.mst = "NotMounted", !.want = FALSE,
                   !.mount = Signalled(@)]
    [] ~k.expired /\ k.mount = "none" /\ there ->
         [k EXCEPT !.mount = "run", !.expired = FALSE]
    [] ~k.expired /\ k.mount = "none" /\ ~there ->
         IF k.want THEN k ELSE [k EXCEPT !.mst = "NotMounted"]
    [] ~k.expired /\ k.mount = "ok" ->
         [k EXCEPT !.mount = "none", !.mst = "Mounted"]
    [] ~k.expired /\ k.mount = "fail" ->
         [k EXCEPT !.mount = "none", !.mst = "NotMounted", !.want = FALSE]
    [] OTHER -> k

\* Faulty variant: the manager does not wait for the script.
Unmounting_NoWait(k) ==
  IF k.expired THEN [k EXCEPT !.mst = "NotMounted", !.unmount = "none"]
  ELSE [k EXCEPT !.mst = "NotMounted", !.unmount = "run"]

\* Faulty variant: a failed script is started again without a time limit.
Unmounting_NoTimeout(k) ==
  CASE k.unmount = "ok" ->
         [k EXCEPT !.unmount = "none", !.mst = "NotMounted"]
    [] k.unmount \in {"none", "fail"} ->
         [k EXCEPT !.unmount = "run"]
    [] OTHER -> k


Unmounting(k) ==
  CASE k.expired ->
         [k EXCEPT !.mst = "NotMounted", !.unmount = "none",
                   !.late = @ \/ k.unmount = "run"]
    [] ~k.expired /\ k.unmount = "ok" ->
         [k EXCEPT !.unmount = "none", !.mst = "NotMounted"]
    [] ~k.expired /\ k.unmount \in {"none", "fail"} ->
         [k EXCEPT !.unmount = "run"]
    [] OTHER -> k

Check(c) ==
  LET k == Begin(cam[c])
  IN  CASE k.mst = "Mounting"   -> Mounting(k, disk[c].there)
        [] k.mst = "Unmounting" -> Unmounting(k)
        [] OTHER -> k

Checked == [c \in Cams |-> Check(c)]

-----------------------------------------------------------------------------
(* Manager.set_state *)

\* What the enter methods do to the cameras.
Entered(s, cs) ==
  [c \in Cams |->
     IF s = "ManualMountExt" /\ c \in Storage THEN [cs[c] EXCEPT !.want = TRUE]
     ELSE IF s \in UnmountStates \cup {"ManualMountExt"}
     THEN [cs[c] EXCEPT !.want = FALSE] ELSE cs[c]]

\* Faulty variant: nothing removes the flag file.
WifiFlag_NeverOff(s, fl) ==
  IF WantWifi(s) # WantWifi(st) /\ WantWifi(s) THEN fl \cup {"want-wifi"} ELSE fl

\* want-wifi is written only when the two states differ about it.
WifiFlag(s, fl) ==
  IF WantWifi(s) = WantWifi(st) THEN fl
  ELSE IF WantWifi(s) THEN fl \cup {"want-wifi"} ELSE fl \ {"want-wifi"}

\* A state that is left with its process running has interrupted it first.
GotoIndex(s, i, l, cs, fl) ==
  /\ st' = s /\ idx' = i /\ local' = l
  /\ expired' = FALSE
  /\ copy' = IF s = "RunCopy" THEN "run" ELSE "none"
  /\ stray' = IF copy = "run" THEN stray \cup {idx} ELSE stray
  /\ power' = [hub |-> HubPower(s), dc |-> DcPower(s)]
  /\ flags' = WifiFlag(s, fl) \cup (IF s = "Record" THEN {"need-check"} ELSE {})
  /\ cam' = Entered(s, cs)
  /\ UNCHANGED <<alive, World>>

Goto(s, cs, fl) == GotoIndex(s, idx, local, cs, fl) /\ UNCHANGED copied

\* No transition: the state's timer is looked at last.
Stay(cs, fl) ==
  \/ /\ expired /\ st \in DOMAIN TimeoutState
     /\ Goto(TimeoutState[st], cs,
             IF st = "WifiWait" THEN fl \ {"need-check"} ELSE fl)
  \/ /\ ~(expired /\ st \in DOMAIN TimeoutState)
     /\ cam' = cs /\ flags' = fl
     /\ UNCHANGED <<alive, st, idx, local, expired, copy, power, stray,
                    copied, World>>

-----------------------------------------------------------------------------
(* Manager.check_state, by current state *)

\* The flags IdleState.check_transition leaves when it finds abort-all.
AfterAbort(fl) ==
  IF "abort-all" \in fl
  THEN fl \ {"need-check", "want-mount", "want-mount-cam", "want-mount-ext",
             "abort-all", "want-lcopy"}
  ELSE fl

IdleTick ==
  LET fl == AfterAbort(flags)
      cs == Checked
      all == [c \in Cams |-> [cs[c] EXCEPT !.want = TRUE]]
  IN
  /\ alive /\ st \in IdleStates
  /\ \/ /\ "reset-hub" \in fl
        /\ Goto("ResetHub", cs, fl \ {"reset-hub"})
     \/ /\ "reset-hub" \notin fl
        /\ \/ /\ WantMount(fl)
              /\ Goto("ManualMountExt", cs, fl)
           \/ /\ ~WantMount(fl) /\ "want-record" \in fl
              /\ Goto("Record", cs, fl)
           \/ /\ ~WantMount(fl) /\ "want-record" \notin fl
              /\ "need-check" \in fl
              /\ Goto("WifiWait", cs, fl)
           \/ /\ ~WantMount(fl)
              /\ fl \cap {"want-record", "need-check"} = {}
              /\ "want-lcopy" \in fl
              /\ GotoIndex("WaitMount", 1, TRUE, all, fl)
              /\ copied' = {}
           \/ /\ ~WantMount(fl)
              /\ fl \cap {"want-record", "need-check", "want-lcopy"} = {}
              /\ Stay(cs, fl)

\* ResetHub and the two power-off waits have only a timeout.
TimedTick ==
  /\ alive /\ st \in {"ResetHub", "PoweroffWait", "PoweroffWaitInhibit"}
  /\ Stay(Checked, flags)

RecordTick ==
  /\ alive /\ st = "Record"
  /\ \/ /\ "abort-all" \in flags \/ WantMount(flags) \/ "want-record" \notin flags
        /\ Goto("PoweroffWaitInhibit", Checked, flags)
     \/ /\ "abort-all" \notin flags /\ ~WantMount(flags) /\ "want-record" \in flags
        /\ Stay(Checked, flags)

WifiWaitTick ==
  LET cs == Checked
      cameras == [c \in Cams |-> IF c \in Storage THEN cs[c]
                                 ELSE [cs[c] EXCEPT !.want = TRUE]]
      stop == flags \cap {"abort-all", "want-record"} # {} \/ WantMount(flags)
  IN
  /\ alive /\ st = "WifiWait"
  /\ \/ stop /\ Goto("IdleFlash", cs, flags)
     \/ /\ ~stop /\ addr
        /\ GotoIndex("WaitMount", 1, FALSE, cameras, flags)
        /\ copied' = {}
     \/ ~stop /\ ~addr /\ Stay(cs, flags)

\* Faulty variant: the end of the camera list is not looked for.
WaitMountTick_PastEnd ==
  /\ alive /\ st = "WaitMount"
  /\ flags \cap {"want-record", "abort-all"} = {}
  /\ \/ /\ idx \notin Cams \ (Storage \cup NoCopy)
        /\ GotoIndex("WaitMount", idx + 1, local, Checked, flags)
        /\ UNCHANGED copied
     \/ /\ idx \in Cams \ (Storage \cup NoCopy)
        /\ IF Checked[idx].mst = "Mounted"
           THEN Goto("RunCopy", Checked, flags) ELSE Stay(Checked, flags)

\* Faulty variant: the copy is started as soon as the mount is.
WaitMountTick_NotMounted ==
  /\ alive /\ st = "WaitMount" /\ idx \in Cams
  /\ Checked[idx].mst \in {"Mounting", "Mounted"}
  /\ Goto("RunCopy", Checked, flags)


WaitMountTick ==
  LET cs == Checked IN
  /\ alive /\ st = "WaitMount"
  /\ \/ /\ flags \cap {"want-record", "abort-all"} # {}
        /\ Goto("WaitUnmount", cs, flags)
     \/ /\ flags \cap {"want-record", "abort-all"} = {}
        /\ \/ /\ idx > NumCams
              /\ Goto("WaitUnmount", cs,
                      flags \ {IF local THEN "want-lcopy" ELSE "need-check"})
           \/ /\ idx \in Storage \cup NoCopy
              /\ GotoIndex("WaitMount", idx + 1, local, cs, flags)
              /\ UNCHANGED copied
           \/ /\ idx \in Cams \ (Storage \cup NoCopy)
              /\ \/ cs[idx].mst = "Mounted" /\ Goto("RunCopy", cs, flags)
                 \/ /\ cs[idx].mst = "NotMounted"
                    /\ Goto("WaitUnmount", cs, flags \ {"need-check"})
                 \/ /\ cs[idx].mst \notin {"Mounted", "NotMounted"}
                    /\ Stay(cs, flags)

\* Faulty variant: the exit status of do_copy is ignored.
CopyComplete_AnyStatus ==
  /\ alive /\ st = "RunCopy" /\ copy \in {"ok", "fail"}
  /\ GotoIndex("WaitMount", idx + 1, local, cam, flags)
  /\ copied' = copied \cup (IF copy = "ok" THEN {idx} ELSE {})

\* The process of the state has ended: no camera is checked in this pass.
CopyComplete ==
  /\ alive /\ st = "RunCopy" /\ copy \in {"ok", "fail"}
  /\ \/ /\ copy = "ok"
        /\ GotoIndex("WaitMount", idx + 1, local, cam, flags)
        /\ copied' = copied \cup {idx}
     \/ /\ copy = "fail"
        /\ Goto("WaitUnmount", cam, flags)

\* Faulty variant: only a recording stops a copy.
RunCopyTick_NoAbort ==
  /\ alive /\ st = "RunCopy" /\ copy = "run"
  /\ \/ /\ "want-record" \in flags
        /\ Goto("WaitUnmount", Checked, flags)
     \/ /\ "want-record" \notin flags
        /\ Stay(Checked, flags)


RunCopyTick ==
  /\ alive /\ st = "RunCopy" /\ copy = "run"
  /\ \/ /\ flags \cap {"want-record", "abort-all"} # {}
        /\ Goto("WaitUnmount", Checked, flags)
     \/ /\ flags \cap {"want-record", "abort-all"} = {}
        /\ "copy-restart" \in flags
        /\ Goto("RunCopy", Checked, flags \ {"copy-restart"})
     \/ /\ flags \cap {"want-record", "abort-all", "copy-restart"} = {}
        /\ Stay(Checked, flags)

ManualMountExtTick ==
  /\ alive /\ st = "ManualMountExt"
  /\ \/ /\ ~WantMount(flags) \/ "abort-all" \in flags
        /\ Goto("WaitUnmountExt", Checked, flags)
     \/ /\ WantMount(flags) /\ "abort-all" \notin flags
        /\ \/ WantMountCam(flags) /\ Goto("ManualMountCam", Checked, flags)
           \/ ~WantMountCam(flags) /\ Stay(Checked, flags)

ManualMountCamTick ==
  LET cs == Checked
      wished == [c \in Cams |->
                   [cs[c] EXCEPT !.want = IF c \in Storage
                                          THEN WantMountExt(flags)
                                          ELSE WantMountCam(flags)]]
  IN
  /\ alive /\ st = "ManualMountCam"
  /\ \/ /\ ~WantMount(flags) \/ "abort-all" \in flags
        /\ Goto("WaitUnmount", cs, flags)
     \/ /\ WantMount(flags) /\ "abort-all" \notin flags
        /\ Stay(wished, flags)

WaitUnmountTick ==
  LET cs == Checked
      done == \A c \in Cams : cs[c].mst = "NotMounted"
  IN
  /\ alive /\ st \in UnmountStates
  /\ \/ /\ done
        /\ Goto(IF st = "WaitUnmount" THEN "PoweroffWait" ELSE "IdleFlash",
                cs, flags)
     \/ ~done /\ Stay(cs, flags)

Tick == \/ IdleTick \/ TimedTick \/ RecordTick \/ WifiWaitTick
        \/ WaitMountTick \/ CopyComplete \/ RunCopyTick
        \/ ManualMountExtTick \/ ManualMountCamTick \/ WaitUnmountTick

-----------------------------------------------------------------------------
(* The passing of time *)

StateExpires ==
  /\ alive /\ ~expired /\ st \in DOMAIN TimeoutState
  /\ expired' = TRUE
  /\ UNCHANGED <<alive, st, idx, local, copy, cam, flags, power, stray,
                 copied, World>>

\* The 40 s wait for a device can always run out; the 15 s of a script only
\* where scripts may hang.
CamExpires(c) ==
  /\ alive /\ ~cam[c].expired
  /\ \/ cam[c].mst = "Mounting" /\ (Timely => cam[c].mount = "none")
     \/ cam[c].mst = "Unmounting" /\ ~Timely
  /\ cam' = [cam EXCEPT ![c].expired = TRUE]
  /\ UNCHANGED <<alive, Machine, stray, World>>

-----------------------------------------------------------------------------
(* The processes the manager starts *)

\* The mount command of a device that is there may succeed.
DiskAfterMount(c) ==
  {disk} \cup (IF disk[c].there THEN {[disk EXCEPT ![c].mounted = TRUE]} ELSE {})

\* do_mount.sh goes on after a failed mount command, and ends with status 0.
MountCommand(c) ==
  /\ cam[c].mount = "run"
  /\ cam' = [cam EXCEPT ![c].mount = "fix"]
  /\ disk' \in DiskAfterMount(c)
  /\ UNCHANGED <<alive, Machine, stray, addr>>

MountExit(c) ==
  /\ cam[c].mount = "fix"
  /\ cam' = [cam EXCEPT ![c].mount = "ok"]
  /\ UNCHANGED <<alive, Machine, stray, World>>

\* A mount command that was going on when the signal came may still succeed.
MountInterrupted(c) ==
  /\ cam[c].mount \in {"int", "intfix"}
  /\ cam' = [cam EXCEPT ![c].mount = "fail"]
  /\ IF cam[c].mount = "int" THEN disk' \in DiskAfterMount(c) ELSE disk' = disk
  /\ UNCHANGED <<alive, Machine, stray, addr>>

Busy(c) == \/ c \in stray \/ (copy = "run" /\ idx = c)
           \/ cam[c].mount \in {"fix", "intfix"}

UnmountExit(c) ==
  /\ cam[c].unmount = "run"
  /\ \/ /\ ~Busy(c)
        /\ cam' = [cam EXCEPT ![c].unmount = "ok"]
        /\ disk' = [disk EXCEPT ![c].mounted = FALSE]
     \/ /\ Busy(c) /\ ~Timely
        /\ cam' = [cam EXCEPT ![c].unmount = "fail"]
        /\ UNCHANGED disk
  /\ UNCHANGED <<alive, Machine, stray, addr>>

\* A do_unmount.sh that was given up may still succeed.
LateUnmount(c) ==
  /\ cam[c].late
  /\ cam' = [cam EXCEPT ![c].late = FALSE]
  /\ disk' \in {disk, [disk EXCEPT ![c].mounted = FALSE]}
  /\ UNCHANGED <<alive, Machine, stray, addr>>

\* do_copy fails at once when its source directory is missing.
CopyExit ==
  /\ copy = "run"
  /\ copy' \in (IF disk[idx].mounted THEN {"ok", "fail"} ELSE {"fail"})
  /\ UNCHANGED <<alive, st, idx, local, expired, cam, flags, power, stray,
                 copied, World>>

StrayExit(c) ==
  /\ c \in stray
  /\ stray' = stray \ {c}
  /\ UNCHANGED <<alive, Machine, cam, World>>

-----------------------------------------------------------------------------
(* The outside *)

UserFlag(f) ==
  /\ flags' = IF f \in flags THEN flags \ {f} ELSE flags \cup {f}
  /\ UNCHANGED <<alive, st, idx, local, expired, copy, cam, power, stray,
                 copied, World>>

WifiChanges ==
  /\ addr' = ~addr
  /\ UNCHANGED <<alive, Machine, cam, disk, stray>>

DiskChanges(c) ==
  /\ disk[c].there # Powered(c)
  /\ disk' = [disk EXCEPT ![c].there = Powered(c)]
  /\ UNCHANGED <<alive, Machine, cam, addr, stray>>

\* systemd kills what is left of the service; the outputs, the flag files
\* and the mounted file systems stay as they are.
Crash ==
  /\ Crashes /\ alive
  /\ alive' = FALSE
  /\ copy' = "none" /\ stray' = {}
  /\ cam' = [c \in Cams |-> NewCam]
  /\ UNCHANGED <<st, idx, local, expired, flags, power, copied, World>>

\* Manager() goes from IdleStateFlash to itself: want-wifi is not written.
Restart ==
  /\ ~alive
  /\ alive' = TRUE /\ st' = "IdleFlash" /\ expired' = FALSE
  /\ idx' = 1 /\ local' = FALSE /\ copied' = {}
  /\ power' = [hub |-> HubPower("IdleFlash"), dc |-> DcPower("IdleFlash")]
  /\ UNCHANGED <<copy, cam, flags, stray, World>>

Scripts == \E c \in Cams :
  \/ MountCommand(c) \/ MountExit(c) \/ MountInterrupted(c)
  \/ UnmountExit(c) \/ LateUnmount(c) \/ StrayExit(c)

Outside == \/ \E f \in UserFlags : UserFlag(f)
           \/ WifiChanges
           \/ \E c \in Cams : DiskChanges(c)
           \/ Crash

Next == \/ Tick \/ StateExpires \/ (\E c \in Cams : CamExpires(c))
        \/ Scripts \/ CopyExit \/ Outside \/ Restart

Spec == Init /\ [][Next]_vars

\* The polling loop never stops, timers run out and systemd restarts the
\* service.  Nothing is assumed of users, disks, wifi, or of the scripts and
\* copies, which may hang for ever.
Fairness ==
  /\ WF_vars(Tick) /\ WF_vars(StateExpires) /\ WF_vars(Restart)
  /\ \A c \in Cams : WF_vars(CamExpires(c))

FairSpec == Spec /\ Fairness

-----------------------------------------------------------------------------
(* Properties *)

MountStates == {"NotMounted", "Mounting", "Mounted", "Unmounting"}

TypeOK ==
  /\ alive \in BOOLEAN /\ st \in States /\ idx \in 1 .. (NumCams + 1)
  /\ local \in BOOLEAN /\ expired \in BOOLEAN
  /\ copy \in {"none", "run", "ok", "fail"}
  /\ cam \in [Cams -> [mst : MountStates, want : BOOLEAN, expired : BOOLEAN,
                       mount : {"none", "run", "fix", "int", "intfix", "ok",
                                 "fail"},
                       unmount : {"none", "run", "ok", "fail"},
                       late : BOOLEAN]]
  /\ flags \subseteq Flags /\ addr \in BOOLEAN
  /\ power \in [hub : BOOLEAN, dc : BOOLEAN]
  /\ disk \in [Cams -> [there : BOOLEAN, mounted : BOOLEAN]]
  /\ stray \subseteq Cams /\ copied \subseteq Cams

\* The manager never cuts the power of a camera it believes to be mounted or
\* to have a mount or unmount under way, in whatever order users set flags,
\* scripts end and timers run out.
PowerWhileMounted ==
  alive => \A c \in Cams : cam[c].mst # "NotMounted" => Powered(c)

\* A copy runs only from a camera that is mounted, is meant to stay mounted
\* and is one to be copied.
CopyFromMounted ==
  copy # "none" =>
    /\ st = "RunCopy" /\ idx \in Cams \ (Storage \cup NoCopy)
    /\ cam[idx].mst = "Mounted" /\ cam[idx].want

\* A file system that is really mounted has its disk powered.  It needs the
\* scripts to keep to their timeouts and the service to stay up.
MountedDiskPowered == \A c \in Cams : disk[c].mounted => Powered(c)

\* The flag file that switches the wifi interface agrees with the state.
WifiFlagAgrees == alive => ("want-wifi" \in flags <=> WantWifi(st))

\* A round of copies gives up its request only when every camera it had to
\* copy was copied in this round, or one could not be mounted.
RequestKept ==
  [][\A f \in {"need-check", "want-lcopy"} :
       (st = "WaitMount" /\ st' # "Record" /\ f \in flags \ flags' /\ Tick) =>
         \/ Cams \ (Storage \cup NoCopy) \subseteq copied
         \/ idx \in Cams /\ cam'[idx].mst = "NotMounted"]_vars

\* A recording that is asked for begins, from any state, once nothing of a
\* higher priority is asked for: cameras that hang are given up.
RecordingStarts ==
  <>[](alive /\ "want-record" \in flags /\ ~WantMount(flags)
        /\ flags \cap {"abort-all", "reset-hub"} = {})
    => <>[](st = "Record")

\* abort-all is taken note of and removed, whatever goes on, unless the
\* service keeps dying.
AbortServed ==
  <>[]alive => ("abort-all" \in flags ~> "abort-all" \notin flags)

=============================================================================
