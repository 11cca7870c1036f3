------------------------ MODULE DashcamMonitor_proofs ------------------------
(***************************************************************************)
(* Proofs about DashcamMonitor for any number of cameras, any storage      *)
(* disks, users that set any flags, scripts that hang and a service that   *)
(* dies at any point.                                                      *)
(***************************************************************************)
EXTENDS DashcamMonitor, TLAPS

CamRec == [mst : MountStates, want : BOOLEAN, expired : BOOLEAN,
           mount : {"none", "run", "fix", "int", "intfix", "ok", "fail"},
           unmount : {"none", "run", "ok", "fail"}, late : BOOLEAN]

Quiet(k)  == k.mst = "NotMounted" /\ ~k.want
Wanted(k) == k.mst = "NotMounted" \/ k.want

QuietStates == IdleStates \cup {"ResetHub", "Record", "PoweroffWait",
                                "PoweroffWaitInhibit", "WifiWait"}
ExtStates   == {"ManualMountExt", "WaitUnmountExt"}
CopyStates  == {"WaitMount", "RunCopy"}

PowerOf(s) == [hub |-> HubPower(s), dc |-> DcPower(s)]

\* What a state lets the cameras be when cs are their records.
CamsOk(s, cs) ==
  /\ s \in QuietStates   => \A c \in Cams : Quiet(cs[c])
  /\ s \in ExtStates     => \A c \in Cams \ Storage : Quiet(cs[c])
  /\ s \in UnmountStates => \A c \in Cams : ~cs[c].want
  /\ s \in CopyStates    => \A c \in Cams \ Storage : Wanted(cs[c])

CopyInv ==
  copy # "none" =>
    /\ alive /\ st = "RunCopy" /\ idx \in Cams \ (Storage \cup NoCopy)
    /\ cam[idx].mst = "Mounted" /\ cam[idx].want

IInv ==
  /\ TypeOK
  /\ alive => power = PowerOf(st) /\ CamsOk(st, cam)
  /\ ~alive => cam = [c \in Cams |-> NewCam]
  /\ st = "RunCopy" /\ alive => copy # "none"
  /\ CopyInv

-----------------------------------------------------------------------------
(* Camera.check *)

\* One check of a camera: a quiet one stays quiet, a wish is never invented,
\* a wanted camera is given up only by going back to NotMounted, and one
\* that is mounted and wanted is left alone.
LEMMA CheckLemma ==
  ASSUME TypeOK, NEW c \in Cams
  PROVE  /\ Check(c) \in CamRec
         /\ Quiet(cam[c])   => Quiet(Check(c))
         /\ ~cam[c].want    => ~Check(c).want
         /\ Wanted(cam[c])  => Wanted(Check(c))
         /\ cam[c].mst = "Mounted" /\ cam[c].want =>
              Check(c).mst = "Mounted" /\ Check(c).want
<1> DEFINE k == Begin(cam[c])
<1>1. cam[c] \in CamRec /\ disk[c].there \in BOOLEAN
  BY DEF TypeOK, CamRec
<1>2. /\ k \in CamRec /\ k.want = cam[c].want
      /\ k.mst = "NotMounted" <=> Quiet(cam[c])
      /\ cam[c].mst = "Mounted" /\ cam[c].want => k.mst = "Mounted"
  BY <1>1 DEF Begin, CamRec, MountStates, Quiet
<1>3. ASSUME k.mst = "Mounting", NEW t \in BOOLEAN
      PROVE  /\ Mounting(k, t) \in CamRec
             /\ ~k.want => ~Mounting(k, t).want
             /\ k.want  => Wanted(Mounting(k, t))
  BY <1>2, <1>3 DEF Mounting, Signalled, CamRec, MountStates, Wanted
<1>4. ASSUME k.mst = "Unmounting"
      PROVE  /\ Unmounting(k) \in CamRec
             /\ Unmounting(k).want = k.want
  BY <1>2, <1>4 DEF Unmounting, CamRec, MountStates
<1>5. Check(c) = IF k.mst = "Mounting" THEN Mounting(k, disk[c].there)
                 ELSE IF k.mst = "Unmounting" THEN Unmounting(k) ELSE k
  BY DEF Check
<1>6. CASE k.mst = "Mounting"
  <2>1. Check(c) = Mounting(k, disk[c].there) /\ k.mst # "NotMounted"
    BY <1>5, <1>6
  <2> HIDE DEF k
  <2> QED
    BY <1>1, <1>2, <1>3, <1>6, <2>1 DEF Quiet, Wanted
<1>7. CASE k.mst = "Unmounting"
  <2>1. Check(c) = Unmounting(k) /\ k.mst # "NotMounted"
    BY <1>5, <1>7
  <2> HIDE DEF k
  <2> QED
    BY <1>1, <1>2, <1>4, <1>7, <2>1 DEF Quiet, Wanted
<1>8. CASE k.mst \notin {"Mounting", "Unmounting"}
  <2>1. Check(c) = k
    BY <1>5, <1>8
  <2> HIDE DEF k
  <2> QED
    BY <1>1, <1>2, <1>8, <2>1 DEF Quiet, Wanted
<1> QED
  BY <1>6, <1>7, <1>8

\* The cameras after a pass over all of them are fit for the same state.
LEMMA CheckedLemma ==
  ASSUME IInv, alive
  PROVE  /\ Checked \in [Cams -> CamRec]
         /\ CamsOk(st, Checked)
         /\ st = "RunCopy" =>
              /\ idx \in Cams \ (Storage \cup NoCopy)
              /\ Checked[idx].mst = "Mounted" /\ Checked[idx].want
<1>1. TypeOK /\ CamsOk(st, cam)
  BY DEF IInv
<1>2. Checked \in [Cams -> CamRec] /\ \A c \in Cams : Checked[c] = Check(c)
  BY <1>1, CheckLemma DEF Checked
<1>3. CamsOk(st, Checked)
  BY <1>1, <1>2, CheckLemma DEF CamsOk
<1>4. st = "RunCopy" =>
              /\ idx \in Cams \ (Storage \cup NoCopy)
              /\ Checked[idx].mst = "Mounted" /\ Checked[idx].want
  BY <1>1, <1>2, CheckLemma DEF IInv, CopyInv
<1> QED
  BY <1>2, <1>3, <1>4

-----------------------------------------------------------------------------
(* Manager.set_state *)

LEMMA GotoLemma ==
  ASSUME IInv, alive,
         NEW s \in States, NEW i \in 1 .. (NumCams + 1), NEW l \in BOOLEAN,
         NEW cs \in [Cams -> CamRec], NEW fl \in SUBSET Flags,
         GotoIndex(s, i, l, cs, fl), copied' \subseteq Cams,
         CamsOk(s, Entered(s, cs)),
         s = "RunCopy" => /\ i \in Cams \ (Storage \cup NoCopy)
                          /\ cs[i].mst = "Mounted" /\ cs[i].want
  PROVE  IInv'
<1>1. TypeOK
  BY DEF IInv
<1>2. st' = s /\ idx' = i /\ local' = l /\ alive' = alive
      /\ power' = PowerOf(s) /\ cam' = Entered(s, cs)
      /\ copy' = (IF s = "RunCopy" THEN "run" ELSE "none")
  BY DEF GotoIndex, PowerOf
<1>3. Entered(s, cs) \in [Cams -> CamRec]
  <2>1. ASSUME NEW c \in Cams, NEW b \in BOOLEAN
        PROVE  [cs[c] EXCEPT !.want = b] \in CamRec
    BY DEF CamRec
  <2> QED
    BY <2>1 DEF Entered
<1>4. stray' \subseteq Cams
  <2>1. copy = "run" => idx \in Cams
    BY DEF IInv, CopyInv
  <2> QED
    BY <1>1, <2>1 DEF GotoIndex, TypeOK
<1>5. flags' \subseteq Flags
  BY DEF GotoIndex, WifiFlag, Flags
<1>6. power' \in [hub : BOOLEAN, dc : BOOLEAN]
  BY <1>2 DEF PowerOf, HubPower, DcPower
<1>7. TypeOK'
  <2>1. addr' = addr /\ disk' = disk /\ expired' = FALSE
    BY DEF GotoIndex, World
  <2>2. copy' \in {"none", "run", "ok", "fail"} /\ cam' \in [Cams -> CamRec]
    BY <1>2, <1>3
  <2> QED
    BY <1>1, <1>2, <1>4, <1>5, <1>6, <2>1, <2>2 DEF TypeOK, CamRec
<1>8. CopyInv'
  <2>1. s = "RunCopy" => \A c \in Cams : Entered(s, cs)[c] = cs[c]
    BY DEF Entered, UnmountStates
  <2>2. alive'
    BY DEF GotoIndex
  <2>3. CASE s = "RunCopy"
    BY <1>2, <2>1, <2>2, <2>3 DEF CopyInv
  <2>4. CASE s # "RunCopy"
    BY <1>2, <2>4 DEF CopyInv
  <2> QED
    BY <2>3, <2>4
<1> QED
  BY <1>2, <1>7, <1>8 DEF IInv

LEMMA StayLemma ==
  ASSUME IInv, alive,
         NEW cs \in [Cams -> CamRec], NEW fl \in SUBSET Flags,
         Stay(cs, fl), CamsOk(st, cs),
         st = "RunCopy" => cs[idx].mst = "Mounted" /\ cs[idx].want
  PROVE  IInv'
<1>1. TypeOK
  BY DEF IInv
<1>2. CASE expired /\ st \in DOMAIN TimeoutState
  <2> DEFINE s == TimeoutState[st]
             gl == IF st = "WifiWait" THEN fl \ {"need-check"} ELSE fl
  <2>1. s \in IdleStates /\ s \in States /\ s # "RunCopy" /\ st \in QuietStates
    BY <1>2 DEF TimeoutState, IdleStates, States, QuietStates
  <2>2. GotoIndex(s, idx, local, cs, gl) /\ copied' = copied
    BY <1>2 DEF Stay, Goto
  <2>3. CamsOk(s, Entered(s, cs))
    BY <2>1 DEF CamsOk, Entered, QuietStates, ExtStates, UnmountStates, CopyStates, IdleStates
  <2>4. gl \in SUBSET Flags /\ copied' \subseteq Cams
        /\ idx \in 1 .. (NumCams + 1) /\ local \in BOOLEAN
    BY <1>1, <2>2 DEF TypeOK
  <2> HIDE DEF s, gl
  <2> QED
    BY <2>1, <2>2, <2>3, <2>4, GotoLemma
<1>3. CASE ~(expired /\ st \in DOMAIN TimeoutState)
  <2>1. cam' = cs /\ flags' = fl
        /\ UNCHANGED <<alive, st, idx, local, expired, copy, power, stray, copied, addr, disk>>
    BY <1>3 DEF Stay, Goto, GotoIndex, World
  <2>2. TypeOK'
    BY <1>1, <2>1 DEF TypeOK, CamRec
  <2> QED
    BY <2>1, <2>2 DEF IInv, CopyInv
<1> QED
  BY <1>2, <1>3

-----------------------------------------------------------------------------
(* Manager.check_state *)

LEMMA InitInv == Init => IInv
<1> SUFFICES ASSUME Init PROVE IInv
  OBVIOUS
<1>1. TypeOK
  <2>1. NewCam \in CamRec
    BY DEF NewCam, CamRec, MountStates
  <2>2. cam \in [Cams -> CamRec] /\ disk \in [Cams -> [there : BOOLEAN, mounted : BOOLEAN]]
    BY <2>1 DEF Init
  <2>3. power \in [hub : BOOLEAN, dc : BOOLEAN]
    BY DEF Init, HubPower, DcPower
  <2>4. st \in States /\ idx \in 1 .. (NumCams + 1)
    BY CamsAssumption DEF Init, States, IdleStates
  <2> QED
    BY <2>2, <2>3, <2>4 DEF Init, TypeOK, CamRec
<1>2. power = PowerOf(st) /\ CamsOk(st, cam)
  BY DEF Init, PowerOf, CamsOk, Quiet, NewCam, QuietStates, IdleStates, ExtStates, UnmountStates, CopyStates
<1> QED
  BY <1>1, <1>2 DEF Init, IInv, CopyInv

LEMMA TickInv == ASSUME IInv, Tick PROVE IInv'
<1> USE DEF IdleStates, QuietStates, ExtStates, UnmountStates, CopyStates
<1>1. TypeOK /\ alive
  BY DEF IInv, Tick, IdleTick, TimedTick, RecordTick, WifiWaitTick, WaitMountTick, CopyComplete, RunCopyTick, ManualMountExtTick, ManualMountCamTick, WaitUnmountTick
<1>2. /\ idx \in 1 .. (NumCams + 1) /\ local \in BOOLEAN /\ copied \subseteq Cams
      /\ flags \in SUBSET Flags /\ NumCams \in Nat
  BY <1>1, CamsAssumption DEF TypeOK
<1>3. /\ Checked \in [Cams -> CamRec] /\ CamsOk(st, Checked)
      /\ st = "RunCopy" =>
              /\ idx \in Cams \ (Storage \cup NoCopy)
              /\ Checked[idx].mst = "Mounted" /\ Checked[idx].want
  BY <1>1, CheckedLemma
<1>4. ASSUME NEW s \in States, s # "RunCopy", NEW cs \in [Cams -> CamRec],
             NEW fl \in SUBSET Flags, Goto(s, cs, fl), CamsOk(s, Entered(s, cs))
      PROVE  IInv'
  BY <1>1, <1>2, <1>4, GotoLemma DEF Goto
<1>5. CASE IdleTick
  <2> DEFINE fl == AfterAbort(flags)
             cs == Checked
             all == [c \in Cams |-> [cs[c] EXCEPT !.want = TRUE]]
  <2>1. fl \in SUBSET Flags /\ fl \ {"reset-hub"} \in SUBSET Flags
    BY <1>2 DEF AfterAbort
  <2>2. \A c \in Cams : Quiet(cs[c])
    BY <1>3, <1>5 DEF IdleTick, CamsOk
  <2>3. \A s \in QuietStates : CamsOk(s, Entered(s, cs))
    BY <2>2 DEF CamsOk, Entered
  <2>4. CamsOk("ManualMountExt", Entered("ManualMountExt", cs))
    BY <1>3, <2>2 DEF CamsOk, Entered, Quiet, CamRec
  <2>5. all \in [Cams -> CamRec] /\ CamsOk("WaitMount", Entered("WaitMount", all))
    BY <1>3 DEF CamsOk, Entered, Wanted, CamRec
  <2>6. CASE Goto("ResetHub", cs, fl \ {"reset-hub"})
    BY <1>3, <1>4, <2>1, <2>3, <2>6 DEF States
  <2>7. CASE Goto("ManualMountExt", cs, fl)
    BY <1>3, <1>4, <2>1, <2>4, <2>7 DEF States
  <2>8. CASE Goto("Record", cs, fl)
    BY <1>3, <1>4, <2>1, <2>3, <2>8 DEF States
  <2>9. CASE Goto("WifiWait", cs, fl)
    BY <1>3, <1>4, <2>1, <2>3, <2>9 DEF States
  <2>10. CASE GotoIndex("WaitMount", 1, TRUE, all, fl) /\ copied' = {}
    <3>1. 1 \in 1 .. (NumCams + 1) /\ "WaitMount" \in States /\ copied' \subseteq Cams
      BY <1>2, <2>10 DEF States
    <3> HIDE DEF all, fl
    <3> QED
      BY <1>1, <2>1, <2>5, <2>10, <3>1, GotoLemma
  <2>11. CASE Stay(cs, fl)
    BY <1>1, <1>3, <1>5, <2>1, <2>11, StayLemma DEF IdleTick
  <2> QED
    BY <1>5, <2>6, <2>7, <2>8, <2>9, <2>10, <2>11 DEF IdleTick
<1>6. CASE TimedTick
  BY <1>1, <1>2, <1>3, <1>6, StayLemma DEF TimedTick
<1>7. CASE RecordTick
  <2>1. CASE Goto("PoweroffWaitInhibit", Checked, flags)
    <3>1. CamsOk("PoweroffWaitInhibit", Entered("PoweroffWaitInhibit", Checked))
      BY <1>3, <1>7 DEF RecordTick, CamsOk, Entered
    <3> QED
      BY <1>2, <1>3, <1>4, <2>1, <3>1 DEF States
  <2>2. CASE Stay(Checked, flags)
    BY <1>1, <1>2, <1>3, <1>7, <2>2, StayLemma DEF RecordTick
  <2> QED
    BY <1>7, <2>1, <2>2 DEF RecordTick
<1>8. CASE WifiWaitTick
  <2> DEFINE cs == Checked
             cameras == [c \in Cams |-> IF c \in Storage THEN cs[c]
                                        ELSE [cs[c] EXCEPT !.want = TRUE]]
  <2>1. CASE Goto("IdleFlash", cs, flags)
    <3>1. CamsOk("IdleFlash", Entered("IdleFlash", cs))
      BY <1>3, <1>8 DEF WifiWaitTick, CamsOk, Entered
    <3> QED
      BY <1>2, <1>3, <1>4, <2>1, <3>1 DEF States
  <2>2. CASE GotoIndex("WaitMount", 1, FALSE, cameras, flags) /\ copied' = {}
    <3>1. cameras \in [Cams -> CamRec] /\ CamsOk("WaitMount", Entered("WaitMount", cameras))
      BY <1>3 DEF CamsOk, Entered, Wanted, CamRec
    <3>2. 1 \in 1 .. (NumCams + 1) /\ "WaitMount" \in States /\ copied' \subseteq Cams
      BY <1>2, <2>2 DEF States
    <3> HIDE DEF cameras
    <3> QED
      BY <1>1, <1>2, <2>2, <3>1, <3>2, GotoLemma
  <2>3. CASE Stay(cs, flags)
    BY <1>1, <1>2, <1>3, <1>8, <2>3, StayLemma DEF WifiWaitTick
  <2> QED
    BY <1>8, <2>1, <2>2, <2>3 DEF WifiWaitTick
<1>9. ASSUME Goto("WaitUnmount", Checked, flags)
               \/ Goto("WaitUnmount", Checked, flags \ {"need-check"})
               \/ Goto("WaitUnmount", Checked, flags \ {"want-lcopy"})
      PROVE  IInv'
  <2>1. CamsOk("WaitUnmount", Entered("WaitUnmount", Checked))
    BY <1>3 DEF CamsOk, Entered, CamRec
  <2>2. flags \ {"need-check"} \in SUBSET Flags /\ flags \ {"want-lcopy"} \in SUBSET Flags
    BY <1>2
  <2> QED
    BY <1>2, <1>3, <1>4, <1>9, <2>1, <2>2 DEF States
<1>10. ASSUME st \in CopyStates, NEW cs \in [Cams -> CamRec], CamsOk(st, cs)
       PROVE  CamsOk("WaitMount", Entered("WaitMount", cs))
              /\ CamsOk("RunCopy", Entered("RunCopy", cs))
  BY <1>10 DEF CamsOk, Entered
<1>11. CASE WaitMountTick
  <2>1. CASE Goto("WaitUnmount", Checked, flags)
    BY <1>9, <2>1
  <2>2. CASE Goto("WaitUnmount", Checked,
                  flags \ {IF local THEN "want-lcopy" ELSE "need-check"})
    BY <1>9, <2>2
  <2>3. CASE /\ idx \in Storage \cup NoCopy
             /\ GotoIndex("WaitMount", idx + 1, local, Checked, flags)
             /\ UNCHANGED copied
    <3>1. idx + 1 \in 1 .. (NumCams + 1) /\ "WaitMount" \in States /\ copied' \subseteq Cams
      BY <1>2, <2>3, CamsAssumption DEF States, Cams
    <3>2. CamsOk("WaitMount", Entered("WaitMount", Checked))
      BY <1>3, <1>10, <1>11 DEF WaitMountTick
    <3> QED
      BY <1>1, <1>2, <1>3, <2>3, <3>1, <3>2, GotoLemma
  <2>4. CASE /\ idx \in Cams \ (Storage \cup NoCopy)
             /\ Checked[idx].mst = "Mounted" /\ Goto("RunCopy", Checked, flags)
    <3>1. CamsOk("RunCopy", Entered("RunCopy", Checked))
      BY <1>3, <1>10, <1>11 DEF WaitMountTick
    <3>2. Checked[idx].want
      BY <1>3, <1>11, <2>4 DEF WaitMountTick, CamsOk, Wanted
    <3> QED
      BY <1>1, <1>2, <1>3, <2>4, <3>1, <3>2, GotoLemma DEF Goto, States
  <2>5. CASE Goto("WaitUnmount", Checked, flags \ {"need-check"})
    BY <1>9, <2>5
  <2>6. CASE Stay(Checked, flags)
    BY <1>1, <1>2, <1>3, <1>11, <2>6, StayLemma DEF WaitMountTick
  <2> QED
    BY <1>11, <2>1, <2>2, <2>3, <2>4, <2>5, <2>6 DEF WaitMountTick
<1>12. CASE CopyComplete
  <2>1. cam \in [Cams -> CamRec] /\ CamsOk(st, cam)
    BY <1>1 DEF IInv, TypeOK, CamRec
  <2>2. idx \in Cams
    BY <1>3, <1>12 DEF CopyComplete
  <2>3. CASE /\ GotoIndex("WaitMount", idx + 1, local, cam, flags)
             /\ copied' = copied \cup {idx}
    <3>1. idx + 1 \in 1 .. (NumCams + 1) /\ "WaitMount" \in States /\ copied' \subseteq Cams
      BY <1>2, <2>2, <2>3 DEF States, Cams
    <3>2. CamsOk("WaitMount", Entered("WaitMount", cam))
      BY <1>10, <1>12, <2>1 DEF CopyComplete
    <3> QED
      BY <1>1, <1>2, <2>1, <2>3, <3>1, <3>2, GotoLemma
  <2>4. CASE Goto("WaitUnmount", cam, flags)
    <3>1. CamsOk("WaitUnmount", Entered("WaitUnmount", cam))
      BY <2>1 DEF CamsOk, Entered, CamRec
    <3> QED
      BY <1>2, <1>4, <2>1, <2>4, <3>1 DEF States
  <2> QED
    BY <1>12, <2>3, <2>4 DEF CopyComplete
<1>13. CASE RunCopyTick
  <2>1. CASE Goto("WaitUnmount", Checked, flags)
    BY <1>9, <2>1
  <2>2. CASE Goto("RunCopy", Checked, flags \ {"copy-restart"})
    <3>1. CamsOk("RunCopy", Entered("RunCopy", Checked))
      BY <1>3, <1>10, <1>13 DEF RunCopyTick
    <3>2. flags \ {"copy-restart"} \in SUBSET Flags
      BY <1>2
    <3> QED
      BY <1>1, <1>2, <1>3, <1>13, <2>2, <3>1, <3>2, GotoLemma DEF Goto, States, RunCopyTick
  <2>3. CASE Stay(Checked, flags)
    BY <1>1, <1>2, <1>3, <2>3, StayLemma
  <2> QED
    BY <1>13, <2>1, <2>2, <2>3 DEF RunCopyTick
<1>14. CASE ManualMountExtTick
  <2>1. CASE Goto("WaitUnmountExt", Checked, flags)
    <3>1. CamsOk("WaitUnmountExt", Entered("WaitUnmountExt", Checked))
      BY <1>3, <1>14 DEF ManualMountExtTick, CamsOk, Entered, Quiet, CamRec
    <3> QED
      BY <1>2, <1>3, <1>4, <2>1, <3>1 DEF States
  <2>2. CASE Goto("ManualMountCam", Checked, flags)
    <3>1. CamsOk("ManualMountCam", Entered("ManualMountCam", Checked))
      BY DEF CamsOk
    <3> QED
      BY <1>2, <1>3, <1>4, <2>2, <3>1 DEF States
  <2>3. CASE Stay(Checked, flags)
    BY <1>1, <1>2, <1>3, <1>14, <2>3, StayLemma DEF ManualMountExtTick
  <2> QED
    BY <1>14, <2>1, <2>2, <2>3 DEF ManualMountExtTick
<1>15. CASE ManualMountCamTick
  <2> DEFINE wished == [c \in Cams |->
                   [Checked[c] EXCEPT !.want = IF c \in Storage
                                          THEN WantMountExt(flags)
                                          ELSE WantMountCam(flags)]]
  <2>1. wished \in [Cams -> CamRec]
    BY <1>3 DEF CamRec, WantMountExt, WantMountCam
  <2>2. CASE Goto("WaitUnmount", Checked, flags)
    BY <1>9, <2>2
  <2>3. CASE Stay(wished, flags)
    <3>1. CamsOk(st, wished)
      BY <1>15 DEF ManualMountCamTick, CamsOk
    <3>2. st # "RunCopy"
      BY <1>15 DEF ManualMountCamTick
    <3> HIDE DEF wished
    <3> QED
      BY <1>1, <1>2, <2>1, <2>3, <3>1, <3>2, StayLemma
  <2> QED
    BY <1>15, <2>2, <2>3 DEF ManualMountCamTick
<1>16. CASE WaitUnmountTick
  <2>1. CASE /\ \A c \in Cams : Checked[c].mst = "NotMounted"
             /\ Goto(IF st = "WaitUnmount" THEN "PoweroffWait" ELSE "IdleFlash",
                     Checked, flags)
    <3>1. \A c \in Cams : Quiet(Checked[c])
      BY <1>3, <1>16, <2>1 DEF WaitUnmountTick, CamsOk, Quiet
    <3>2. CamsOk("PoweroffWait", Entered("PoweroffWait", Checked))
          /\ CamsOk("IdleFlash", Entered("IdleFlash", Checked))
      BY <3>1 DEF CamsOk, Entered
    <3> QED
      BY <1>2, <1>3, <1>4, <2>1, <3>2 DEF States
  <2>2. CASE Stay(Checked, flags)
    BY <1>1, <1>2, <1>3, <1>16, <2>2, StayLemma DEF WaitUnmountTick
  <2> QED
    BY <1>16, <2>1, <2>2 DEF WaitUnmountTick
<1> QED
  BY <1>5, <1>6, <1>7, <1>8, <1>11, <1>12, <1>13, <1>14, <1>15, <1>16 DEF Tick

-----------------------------------------------------------------------------
(* The rest of the system *)

\* A step that changes of a camera only what CamsOk does not look at.
LEMMA CamStepLemma ==
  ASSUME IInv, alive, NEW c \in Cams, NEW k \in CamRec,
         k.mst = cam[c].mst, k.want = cam[c].want,
         cam' = [cam EXCEPT ![c] = k],
         UNCHANGED <<alive, Machine, stray, addr>>,
         disk' \in [Cams -> [there : BOOLEAN, mounted : BOOLEAN]]
  PROVE  IInv'
<1>1. TypeOK /\ CamsOk(st, cam) /\ CopyInv /\ cam \in [Cams -> CamRec]
  BY DEF IInv, TypeOK, CamRec
<1>2. /\ cam' \in [Cams -> CamRec]
      /\ \A d \in Cams : cam'[d].mst = cam[d].mst /\ cam'[d].want = cam[d].want
  BY <1>1
<1>3. TypeOK'
  BY <1>1, <1>2 DEF TypeOK, CamRec, Machine
<1>4. CamsOk(st, cam)'
  BY <1>1, <1>2 DEF CamsOk, Quiet, Wanted, Machine
<1>5. CopyInv'
  BY <1>1, <1>2 DEF CopyInv, Machine
<1> QED
  BY <1>3, <1>4, <1>5 DEF IInv, Machine

\* Fields that CamsOk does not look at can be set without harm.
LEMMA FieldLemma ==
  ASSUME NEW k \in CamRec
  PROVE  /\ \A e \in {"none", "run", "fix", "int", "intfix", "ok", "fail"} :
              LET j == [k EXCEPT !.mount = e]
              IN  j \in CamRec /\ j.mst = k.mst /\ j.want = k.want
         /\ \A e \in {"none", "run", "ok", "fail"} :
              LET j == [k EXCEPT !.unmount = e]
              IN  j \in CamRec /\ j.mst = k.mst /\ j.want = k.want
         /\ LET j == [k EXCEPT !.late = FALSE]
            IN  j \in CamRec /\ j.mst = k.mst /\ j.want = k.want
         /\ LET j == [k EXCEPT !.expired = TRUE]
            IN  j \in CamRec /\ j.mst = k.mst /\ j.want = k.want
<1>1. ASSUME NEW e \in {"none", "run", "fix", "int", "intfix", "ok", "fail"}
      PROVE  LET j == [k EXCEPT !.mount = e]
             IN  j \in CamRec /\ j.mst = k.mst /\ j.want = k.want
  BY DEF CamRec
<1>2. ASSUME NEW e \in {"none", "run", "ok", "fail"}
      PROVE  LET j == [k EXCEPT !.unmount = e]
             IN  j \in CamRec /\ j.mst = k.mst /\ j.want = k.want
  BY DEF CamRec
<1>3. LET j == [k EXCEPT !.late = FALSE]
      IN  j \in CamRec /\ j.mst = k.mst /\ j.want = k.want
  BY DEF CamRec
<1>4. LET j == [k EXCEPT !.expired = TRUE]
      IN  j \in CamRec /\ j.mst = k.mst /\ j.want = k.want
  BY DEF CamRec
<1> QED
  BY <1>1, <1>2, <1>3, <1>4

\* No script belongs to a service that is down.
LEMMA DeadLemma ==
  ASSUME IInv, NEW c \in Cams,
         cam[c].mount # "none" \/ cam[c].unmount # "none" \/ cam[c].late
  PROVE  alive
<1> SUFFICES ASSUME ~alive PROVE FALSE
  OBVIOUS
<1>1. cam[c] = NewCam
  BY DEF IInv
<1> QED
  BY <1>1 DEF NewCam

\* Time, scripts and copies leave what the manager believes alone.
LEMMA WorldInv ==
  ASSUME IInv,
         StateExpires \/ (\E c \in Cams : CamExpires(c)) \/ Scripts \/ CopyExit
  PROVE  IInv'
<1> DEFINE Disks == [Cams -> [there : BOOLEAN, mounted : BOOLEAN]]
<1>1. TypeOK /\ cam \in [Cams -> CamRec] /\ disk \in Disks
  BY DEF IInv, TypeOK, CamRec
<1>2. ASSUME NEW c \in Cams
      PROVE  [disk EXCEPT ![c].mounted = TRUE] \in Disks
             /\ [disk EXCEPT ![c].mounted = FALSE] \in Disks
  BY <1>1
<1>3. ASSUME NEW c \in Cams, NEW k \in CamRec,
             k.mst = cam[c].mst, k.want = cam[c].want, alive,
             cam' = [cam EXCEPT ![c] = k],
             UNCHANGED <<alive, Machine, stray, addr>>, disk' \in Disks
      PROVE  IInv'
  BY <1>3, CamStepLemma
<1>4. CASE StateExpires
  <2>1. TypeOK'
    BY <1>1, <1>4 DEF StateExpires, TypeOK, World
  <2> QED
    BY <1>4, <2>1 DEF StateExpires, World, IInv, CopyInv
<1>5. CASE CopyExit
  <2>1. TypeOK'
    BY <1>1, <1>5 DEF CopyExit, TypeOK, World
  <2> QED
    BY <1>5, <2>1 DEF CopyExit, World, IInv, CopyInv
<1>6. ASSUME NEW c \in Cams, CamExpires(c) PROVE IInv'
  <2> DEFINE k == [cam[c] EXCEPT !.expired = TRUE]
  <2>1. k \in CamRec /\ k.mst = cam[c].mst /\ k.want = cam[c].want
    BY <1>1, FieldLemma
  <2>2. cam' = [cam EXCEPT ![c] = k]
    BY <1>6 DEF CamExpires
  <2>3. alive
    BY <1>6 DEF CamExpires
  <2>4. UNCHANGED <<alive, Machine, stray, addr>>
    BY <1>6 DEF CamExpires, World
  <2>5. disk' \in Disks
    BY <1>1, <1>6 DEF CamExpires, World
  <2> HIDE DEF k, Disks
  <2> QED
    BY <1>3, <2>1, <2>2, <2>3, <2>4, <2>5
<1>7. ASSUME NEW c \in Cams, MountCommand(c) PROVE IInv'
  <2> DEFINE k == [cam[c] EXCEPT !.mount = "fix"]
  <2>1. k \in CamRec /\ k.mst = cam[c].mst /\ k.want = cam[c].want
    BY <1>1, FieldLemma
  <2>2. cam' = [cam EXCEPT ![c] = k]
    BY <1>7 DEF MountCommand
  <2>3. alive
    BY <1>7, DeadLemma DEF MountCommand
  <2>4. UNCHANGED <<alive, Machine, stray, addr>>
    BY <1>7 DEF MountCommand, World
  <2>5. disk' \in Disks
    BY <1>1, <1>7, <1>2 DEF MountCommand, DiskAfterMount
  <2> HIDE DEF k, Disks
  <2> QED
    BY <1>3, <2>1, <2>2, <2>3, <2>4, <2>5
<1>8. ASSUME NEW c \in Cams, MountInterrupted(c) PROVE IInv'
  <2> DEFINE k == [cam[c] EXCEPT !.mount = "fail"]
  <2>1. k \in CamRec /\ k.mst = cam[c].mst /\ k.want = cam[c].want
    BY <1>1, FieldLemma
  <2>2. cam' = [cam EXCEPT ![c] = k]
    BY <1>8 DEF MountInterrupted
  <2>3. alive
    BY <1>8, DeadLemma DEF MountInterrupted
  <2>4. UNCHANGED <<alive, Machine, stray, addr>>
    BY <1>8 DEF MountInterrupted, World
  <2>5. disk' \in Disks
    BY <1>1, <1>8, <1>2 DEF MountInterrupted, DiskAfterMount
  <2> HIDE DEF k, Disks
  <2> QED
    BY <1>3, <2>1, <2>2, <2>3, <2>4, <2>5
<1>9. ASSUME NEW c \in Cams, MountExit(c) PROVE IInv'
  <2> DEFINE k == [cam[c] EXCEPT !.mount = "ok"]
  <2>1. k \in CamRec /\ k.mst = cam[c].mst /\ k.want = cam[c].want
    BY <1>1, FieldLemma
  <2>2. cam' = [cam EXCEPT ![c] = k]
    BY <1>9 DEF MountExit
  <2>3. alive
    BY <1>9, DeadLemma DEF MountExit
  <2>4. UNCHANGED <<alive, Machine, stray, addr>>
    BY <1>9 DEF MountExit, World
  <2>5. disk' \in Disks
    BY <1>1, <1>9 DEF MountExit, World
  <2> HIDE DEF k, Disks
  <2> QED
    BY <1>3, <2>1, <2>2, <2>3, <2>4, <2>5
<1>10. ASSUME NEW c \in Cams, UnmountExit(c) PROVE IInv'
  <2>1. alive
    BY <1>10, DeadLemma DEF UnmountExit
  <2>2. UNCHANGED <<alive, Machine, stray, addr>>
    BY <1>10 DEF UnmountExit
  <2>3. disk' \in Disks
    BY <1>1, <1>2, <1>10 DEF UnmountExit
  <2>4. CASE cam' = [cam EXCEPT ![c].unmount = "ok"]
    <3> DEFINE k == [cam[c] EXCEPT !.unmount = "ok"]
    <3>1. k \in CamRec /\ k.mst = cam[c].mst /\ k.want = cam[c].want
      BY <1>1, FieldLemma
    <3>2. cam' = [cam EXCEPT ![c] = k]
      BY <2>4
    <3> HIDE DEF k, Disks
    <3> QED
      BY <1>3, <2>1, <2>2, <2>3, <3>1, <3>2
  <2>5. CASE cam' = [cam EXCEPT ![c].unmount = "fail"]
    <3> DEFINE k == [cam[c] EXCEPT !.unmount = "fail"]
    <3>1. k \in CamRec /\ k.mst = cam[c].mst /\ k.want = cam[c].want
      BY <1>1, FieldLemma
    <3>2. cam' = [cam EXCEPT ![c] = k]
      BY <2>5
    <3> HIDE DEF k, Disks
    <3> QED
      BY <1>3, <2>1, <2>2, <2>3, <3>1, <3>2
  <2> QED
    BY <1>10, <2>4, <2>5 DEF UnmountExit
<1>11. ASSUME NEW c \in Cams, LateUnmount(c) PROVE IInv'
  <2> DEFINE k == [cam[c] EXCEPT !.late = FALSE]
  <2>1. k \in CamRec /\ k.mst = cam[c].mst /\ k.want = cam[c].want
    BY <1>1, FieldLemma
  <2>2. cam' = [cam EXCEPT ![c] = k]
    BY <1>11 DEF LateUnmount
  <2>3. alive
    BY <1>11, DeadLemma DEF LateUnmount
  <2>4. UNCHANGED <<alive, Machine, stray, addr>>
    BY <1>11 DEF LateUnmount, World
  <2>5. disk' \in Disks
    BY <1>1, <1>11, <1>2 DEF LateUnmount
  <2> HIDE DEF k, Disks
  <2> QED
    BY <1>3, <2>1, <2>2, <2>3, <2>4, <2>5
<1>12. ASSUME NEW c \in Cams, StrayExit(c) PROVE IInv'
  <2>1. TypeOK'
    BY <1>1, <1>12 DEF StrayExit, TypeOK, World, Machine
  <2> QED
    BY <1>12, <2>1 DEF StrayExit, World, Machine, IInv, CopyInv
<1> QED
  BY <1>4, <1>5, <1>6, <1>7, <1>8, <1>9, <1>10, <1>11, <1>12 DEF Scripts

\* Users, the network and the disks touch nothing the invariant is about; a
\* crash and a restart leave it with fresh cameras.
LEMMA OutsideInv ==
  ASSUME IInv, Outside \/ Restart
  PROVE  IInv'
<1>1. TypeOK
  BY DEF IInv
<1>2. ASSUME NEW f \in UserFlags, UserFlag(f) PROVE IInv'
  <2>1. TypeOK'
    BY <1>1, <1>2, FlagsAssumption DEF UserFlag, TypeOK, World
  <2> QED
    BY <1>2, <2>1 DEF UserFlag, World, IInv, CopyInv
<1>3. CASE WifiChanges
  <2>1. TypeOK'
    BY <1>1, <1>3 DEF WifiChanges, TypeOK, Machine
  <2> QED
    BY <1>3, <2>1 DEF WifiChanges, Machine, IInv, CopyInv
<1>4. ASSUME NEW c \in Cams, DiskChanges(c) PROVE IInv'
  <2>1. disk' \in [Cams -> [there : BOOLEAN, mounted : BOOLEAN]]
    BY <1>1, <1>4 DEF DiskChanges, Powered, TypeOK
  <2>2. TypeOK'
    BY <1>1, <1>4, <2>1 DEF DiskChanges, TypeOK, Machine
  <2> QED
    BY <1>4, <2>2 DEF DiskChanges, Machine, IInv, CopyInv
<1>5. NewCam \in CamRec
  BY DEF NewCam, CamRec, MountStates
<1>6. CASE Crash
  <2>1. cam' \in [Cams -> CamRec]
    BY <1>5, <1>6 DEF Crash
  <2>2. TypeOK'
    BY <1>1, <1>6, <2>1 DEF Crash, TypeOK, World, CamRec
  <2> QED
    BY <1>6, <2>2 DEF Crash, IInv, CopyInv
<1>7. CASE Restart
  <2>1. cam = [c \in Cams |-> NewCam] /\ copy = "none" /\ cam' = cam /\ copy' = copy
    BY <1>7 DEF Restart, IInv, CopyInv, TypeOK
  <2>2. CamsOk("IdleFlash", cam)
    BY <2>1 DEF CamsOk, NewCam, Quiet, QuietStates, IdleStates, ExtStates, UnmountStates, CopyStates
  <2>3. power' = PowerOf("IdleFlash") /\ st' = "IdleFlash"
    BY <1>7 DEF Restart, PowerOf
  <2>4. power' \in [hub : BOOLEAN, dc : BOOLEAN]
    BY <2>3 DEF PowerOf, HubPower, DcPower
  <2>5. TypeOK'
    <3>1. /\ st' \in States /\ idx' \in 1 .. (NumCams + 1)
          /\ copied' \subseteq Cams /\ flags' = flags /\ stray' = stray
          /\ addr' = addr /\ disk' = disk
      BY <1>7, CamsAssumption DEF Restart, World, States, IdleStates
    <3>2. alive' \in BOOLEAN /\ local' \in BOOLEAN /\ expired' \in BOOLEAN
      BY <1>7 DEF Restart
    <3> QED
      BY <1>1, <2>1, <2>4, <3>1, <3>2 DEF TypeOK
  <2> QED
    BY <1>7, <2>1, <2>2, <2>3, <2>5 DEF Restart, IInv, CopyInv
<1> QED
  BY <1>2, <1>3, <1>4, <1>6, <1>7 DEF Outside

LEMMA StutterInv == ASSUME IInv, UNCHANGED vars PROVE IInv'
<1>1. TypeOK'
  BY DEF IInv, TypeOK, vars
<1> QED
  BY <1>1 DEF IInv, CopyInv, vars

\* The invariant is inductive.
THEOREM Inductive == Spec => []IInv
<1>1. IInv /\ [Next]_vars => IInv'
  BY TickInv, WorldInv, OutsideInv, StutterInv DEF Next
<1> QED
  BY InitInv, <1>1, PTL DEF Spec

-----------------------------------------------------------------------------
(* What follows from it *)

\* Every field keeps its range, for any number of cameras.
THEOREM TypeCorrect == Spec => []TypeOK
BY Inductive, PTL DEF IInv

\* The power of a camera is on as long as the manager believes it mounted or
\* has a mount or unmount of it under way.
THEOREM PowerSafe == Spec => []PowerWhileMounted
<1>1. IInv => PowerWhileMounted
  <2> SUFFICES ASSUME IInv, alive, NEW c \in Cams, cam[c].mst # "NotMounted"
               PROVE  Powered(c)
    BY DEF PowerWhileMounted
  <2>1. /\ power.hub = HubPower(st) /\ power.dc = DcPower(st)
        /\ CamsOk(st, cam) /\ st \in States
    BY DEF IInv, PowerOf, TypeOK
  <2>2. st \notin QuietStates /\ (st \in ExtStates => c \in Storage)
    BY <2>1 DEF CamsOk, Quiet
  <2> QED
    BY <2>1, <2>2 DEF Powered, HubPower, DcPower, States, QuietStates, ExtStates, IdleStates, UnmountStates
<1> QED
  BY <1>1, Inductive, PTL

\* A copy runs only from a mounted camera that is to be copied.
THEOREM CopySafe == Spec => []CopyFromMounted
<1>1. IInv => CopyFromMounted
  BY DEF IInv, CopyInv, CopyFromMounted
<1> QED
  BY <1>1, Inductive, PTL

-----------------------------------------------------------------------------
(* The wifi flag, of a service that stays up *)

WifiInv == alive /\ WifiFlagAgrees

\* The flag agrees after a transition if nothing else writes it.
LEMMA GotoWifi ==
  ASSUME WifiInv, NEW s, NEW i, NEW l, NEW cs, NEW fl,
         GotoIndex(s, i, l, cs, fl), "want-wifi" \in fl <=> "want-wifi" \in flags
  PROVE  WifiInv'
<1>1. st' = s /\ alive' = alive
      /\ flags' = WifiFlag(s, fl) \cup (IF s = "Record" THEN {"need-check"} ELSE {})
  BY DEF GotoIndex
<1>2. "want-wifi" \in flags' <=> "want-wifi" \in WifiFlag(s, fl)
  BY <1>1
<1>3. "want-wifi" \in WifiFlag(s, fl) <=> WantWifi(s)
  <2>1. "want-wifi" \in fl <=> WantWifi(st)
    BY DEF WifiInv, WifiFlagAgrees
  <2>2. WantWifi(s) \in BOOLEAN /\ WantWifi(st) \in BOOLEAN
    BY DEF WantWifi
  <2> QED
    BY <2>1, <2>2 DEF WifiFlag
<1> QED
  BY <1>1, <1>2, <1>3 DEF WifiInv, WifiFlagAgrees

LEMMA StayWifi ==
  ASSUME WifiInv, NEW cs, NEW fl, Stay(cs, fl),
         "want-wifi" \in fl <=> "want-wifi" \in flags
  PROVE  WifiInv'
<1>1. CASE expired /\ st \in DOMAIN TimeoutState
  <2> DEFINE gl == IF st = "WifiWait" THEN fl \ {"need-check"} ELSE fl
  <2>1. GotoIndex(TimeoutState[st], idx, local, cs, gl)
    BY <1>1 DEF Stay, Goto
  <2>2. "want-wifi" \in gl <=> "want-wifi" \in flags
    OBVIOUS
  <2> HIDE DEF gl
  <2> QED
    BY <2>1, <2>2, GotoWifi
<1>2. CASE ~(expired /\ st \in DOMAIN TimeoutState)
  <2>1. alive' = alive /\ st' = st /\ flags' = fl
    BY <1>2 DEF Stay
  <2> QED
    BY <2>1 DEF WifiInv, WifiFlagAgrees
<1> QED
  BY <1>1, <1>2

LEMMA TickWifi == WifiInv /\ Tick => WifiInv'
<1> SUFFICES ASSUME WifiInv, Tick PROVE WifiInv'
  OBVIOUS
<1>1. ASSUME NEW s, NEW cs, NEW fl, Goto(s, cs, fl),
             "want-wifi" \in fl <=> "want-wifi" \in flags
      PROVE  WifiInv'
  BY <1>1, GotoWifi DEF Goto
<1>2. CASE IdleTick
  <2> DEFINE fl == AfterAbort(flags)
             all == [c \in Cams |-> [Checked[c] EXCEPT !.want = TRUE]]
  <2>1. /\ "want-wifi" \in fl <=> "want-wifi" \in flags
        /\ "want-wifi" \in fl \ {"reset-hub"} <=> "want-wifi" \in flags
    BY DEF AfterAbort
  <2>2. \/ \E s : Goto(s, Checked, fl)
        \/ Goto("ResetHub", Checked, fl \ {"reset-hub"})
        \/ GotoIndex("WaitMount", 1, TRUE, all, fl)
        \/ Stay(Checked, fl)
    BY <1>2 DEF IdleTick
  <2> HIDE DEF fl, all
  <2> QED
    BY <1>1, <2>1, <2>2, GotoWifi, StayWifi
<1>3. CASE TimedTick
  BY <1>3, StayWifi DEF TimedTick
<1>4. CASE RecordTick
  BY <1>1, <1>4, StayWifi DEF RecordTick
<1>5. CASE WifiWaitTick
  BY <1>1, <1>5, GotoWifi, StayWifi DEF WifiWaitTick
<1>6. CASE WaitMountTick
  <2>1. \/ \E s : Goto(s, Checked, flags)
        \/ \E f \in {"want-lcopy", "need-check"} : Goto("WaitUnmount", Checked, flags \ {f})
        \/ GotoIndex("WaitMount", idx + 1, local, Checked, flags)
        \/ Stay(Checked, flags)
    BY <1>6 DEF WaitMountTick
  <2> QED
    BY <1>1, <2>1, GotoWifi, StayWifi
<1>7. CASE CopyComplete
  BY <1>1, <1>7, GotoWifi DEF CopyComplete
<1>8. CASE RunCopyTick
  BY <1>1, <1>8, StayWifi DEF RunCopyTick
<1>9. CASE ManualMountExtTick \/ ManualMountCamTick \/ WaitUnmountTick
  BY <1>1, <1>9, StayWifi DEF ManualMountExtTick, ManualMountCamTick, WaitUnmountTick
<1> QED
  BY <1>2, <1>3, <1>4, <1>5, <1>6, <1>7, <1>8, <1>9 DEF Tick

\* want-wifi agrees with the state as long as the service stays up and nobody
\* else writes the file, for any number of cameras and all other flags.
THEOREM WifiAgrees ==
  ASSUME ~Crashes, "want-wifi" \notin UserFlags
  PROVE  Spec => []WifiFlagAgrees
<1>1. Init => WifiInv
  BY DEF Init, WifiInv, WifiFlagAgrees, WantWifi, IdleStates
<1>2. WifiInv /\ [Next]_vars => WifiInv'
  <2> SUFFICES ASSUME WifiInv, [Next]_vars PROVE WifiInv'
    OBVIOUS
  <2>1. CASE Tick
    BY <2>1, TickWifi
  <2>2. ASSUME NEW f \in UserFlags, UserFlag(f) PROVE WifiInv'
    BY <2>2 DEF UserFlag, WifiInv, WifiFlagAgrees
  <2>3. CASE StateExpires \/ (\E c \in Cams : CamExpires(c)) \/ Scripts \/ CopyExit
             \/ WifiChanges \/ (\E c \in Cams : DiskChanges(c)) \/ UNCHANGED vars
    <3>1. UNCHANGED <<alive, st, flags>>
      BY <2>3 DEF StateExpires, CamExpires, Scripts, MountCommand, MountExit,
                  MountInterrupted, UnmountExit, LateUnmount, StrayExit, CopyExit,
                  WifiChanges, DiskChanges, Machine, vars
    <3> QED
      BY <3>1 DEF WifiInv, WifiFlagAgrees
  <2>4. ~Crash /\ ~Restart
    BY DEF Crash, Restart, WifiInv
  <2> QED
    BY <2>1, <2>2, <2>3, <2>4 DEF Next, Outside
<1>3. WifiInv => WifiFlagAgrees
  BY DEF WifiInv
<1> QED
  BY <1>1, <1>2, <1>3, PTL DEF Spec

-----------------------------------------------------------------------------
(* Rounds of copies *)

\* The cameras that the round has passed were copied.
RoundInv ==
  alive /\ st \in CopyStates =>
    \A c \in Cams \ (Storage \cup NoCopy) : c < idx => c \in copied

\* Only these two transitions go on with a round or begin one.
LEMMA TickRound == IInv /\ RoundInv /\ Tick => RoundInv'
<1> SUFFICES ASSUME IInv, RoundInv, Tick PROVE RoundInv'
  OBVIOUS
<1> USE DEF CopyStates
<1>1. alive /\ idx \in 1 .. (NumCams + 1) /\ NumCams \in Nat
  BY CamsAssumption DEF IInv, TypeOK, Tick, IdleTick, TimedTick, RecordTick, WifiWaitTick,
     WaitMountTick, CopyComplete, RunCopyTick, ManualMountExtTick, ManualMountCamTick,
     WaitUnmountTick
<1>2. ASSUME st' \notin CopyStates PROVE RoundInv'
  BY <1>2 DEF RoundInv
<1>3. ASSUME UNCHANGED <<idx, copied>>, st \in CopyStates PROVE RoundInv'
  BY <1>1, <1>3 DEF RoundInv
<1>4. ASSUME NEW s, s \notin CopyStates, NEW i, NEW l, NEW cs, NEW fl, GotoIndex(s, i, l, cs, fl)
      PROVE  RoundInv'
  BY <1>2, <1>4 DEF GotoIndex
<1>5. ASSUME NEW cs, NEW fl, Stay(cs, fl) PROVE RoundInv'
  <2>1. CASE expired /\ st \in DOMAIN TimeoutState
    <3>1. TimeoutState[st] \notin CopyStates
      BY <2>1 DEF TimeoutState
    <3> QED
      BY <1>4, <1>5, <2>1, <3>1 DEF Stay, Goto
  <2>2. CASE ~(expired /\ st \in DOMAIN TimeoutState)
    <3>1. UNCHANGED <<alive, st, idx, copied>>
      BY <1>5, <2>2 DEF Stay
    <3> QED
      BY <3>1 DEF RoundInv
  <2> QED
    BY <2>1, <2>2
<1>6. ASSUME NEW l, NEW cs, NEW fl, GotoIndex("WaitMount", 1, l, cs, fl) PROVE RoundInv'
  <2>1. idx' = 1 /\ \A c \in Cams : ~(c < 1)
    BY <1>6 DEF GotoIndex, Cams
  <2> QED
    BY <2>1 DEF RoundInv
<1>7. ASSUME st \in CopyStates, NEW l, NEW cs, NEW fl,
             GotoIndex("WaitMount", idx + 1, l, cs, fl),
             copied \subseteq copied',
             idx \in Storage \cup NoCopy \cup copied'
      PROVE  RoundInv'
  <2>1. idx' = idx + 1
    BY <1>7 DEF GotoIndex
  <2>2. ASSUME NEW c \in Cams \ (Storage \cup NoCopy), c < idx + 1 PROVE c \in copied'
    <3>1. c < idx \/ c = idx
      BY <1>1, <2>2 DEF Cams
    <3> QED
      BY <1>1, <1>7, <3>1 DEF RoundInv
  <2> QED
    BY <2>1, <2>2 DEF RoundInv
<1>8. CASE IdleTick
  <2> DEFINE fl == AfterAbort(flags)
             all == [c \in Cams |-> [Checked[c] EXCEPT !.want = TRUE]]
  <2>1. \/ \E s \in {"ManualMountExt", "Record", "WifiWait"} : Goto(s, Checked, fl)
        \/ Goto("ResetHub", Checked, fl \ {"reset-hub"})
        \/ GotoIndex("WaitMount", 1, TRUE, all, fl)
        \/ Stay(Checked, fl)
    BY <1>8 DEF IdleTick
  <2> HIDE DEF fl, all
  <2> QED
    BY <1>4, <1>5, <1>6, <2>1 DEF Goto
<1>9. CASE TimedTick \/ RecordTick
  BY <1>4, <1>5, <1>9 DEF TimedTick, RecordTick, Goto
<1>10. CASE WifiWaitTick
  BY <1>4, <1>5, <1>6, <1>10 DEF WifiWaitTick, Goto
<1>11. CASE WaitMountTick
  <2>1. st = "WaitMount"
    BY <1>11 DEF WaitMountTick
  <2>2. \/ \E gl : Goto("WaitUnmount", Checked, gl)
        \/ /\ idx \in Storage \cup NoCopy /\ UNCHANGED copied
           /\ GotoIndex("WaitMount", idx + 1, local, Checked, flags)
        \/ Goto("RunCopy", Checked, flags)
        \/ Stay(Checked, flags)
    BY <1>11 DEF WaitMountTick
  <2>3. CASE Goto("RunCopy", Checked, flags)
    BY <1>3, <2>1, <2>3 DEF Goto, GotoIndex
  <2> QED
    BY <1>4, <1>5, <1>7, <2>1, <2>2, <2>3 DEF Goto
<1>12. CASE CopyComplete
  BY <1>4, <1>7, <1>12 DEF CopyComplete, Goto
<1>13. CASE RunCopyTick
  <2>1. CASE \E gl : Goto("RunCopy", Checked, gl)
    BY <1>3, <1>13, <2>1 DEF Goto, GotoIndex, RunCopyTick
  <2> QED
    BY <1>4, <1>5, <1>13, <2>1 DEF RunCopyTick, Goto
<1>14. CASE ManualMountExtTick \/ ManualMountCamTick \/ WaitUnmountTick
  BY <1>4, <1>5, <1>14 DEF ManualMountExtTick, ManualMountCamTick, WaitUnmountTick, Goto
<1> QED
  BY <1>8, <1>9, <1>10, <1>11, <1>12, <1>13, <1>14 DEF Tick

LEMMA NextRound == IInv /\ RoundInv /\ [Next]_vars => RoundInv'
<1> SUFFICES ASSUME IInv, RoundInv, [Next]_vars PROVE RoundInv'
  OBVIOUS
<1>1. CASE Tick
  BY <1>1, TickRound
<1>2. CASE StateExpires \/ (\E c \in Cams : CamExpires(c)) \/ Scripts \/ CopyExit
           \/ (\E f \in UserFlags : UserFlag(f)) \/ WifiChanges
           \/ (\E c \in Cams : DiskChanges(c)) \/ UNCHANGED vars
  <2>1. UNCHANGED <<alive, st, idx, copied>>
    BY <1>2 DEF StateExpires, CamExpires, Scripts, MountCommand, MountExit,
                MountInterrupted, UnmountExit, LateUnmount, StrayExit, CopyExit,
                UserFlag, WifiChanges, DiskChanges, Machine, vars
  <2> QED
    BY <2>1 DEF RoundInv
<1>3. CASE Crash
  BY <1>3 DEF Crash, RoundInv
<1>4. CASE Restart
  BY <1>4 DEF Restart, RoundInv, CopyStates
<1> QED
  BY <1>1, <1>2, <1>3, <1>4 DEF Next, Outside

\* A round gives up its request only when all is copied or a camera could not
\* be mounted.
THEOREM RequestsKept == Spec => RequestKept
<1> DEFINE Kept == \A f \in {"need-check", "want-lcopy"} :
       (st = "WaitMount" /\ st' # "Record" /\ f \in flags \ flags' /\ Tick) =>
         \/ Cams \ (Storage \cup NoCopy) \subseteq copied
         \/ idx \in Cams /\ cam'[idx].mst = "NotMounted"
<1>1. Init => RoundInv
  BY DEF Init, RoundInv, CopyStates
<1>2. IInv /\ RoundInv /\ [Next]_vars => [Kept]_vars
  <2> SUFFICES ASSUME IInv, RoundInv, st = "WaitMount", Tick,
                      NEW f \in {"need-check", "want-lcopy"}, f \in flags \ flags'
               PROVE  \/ Cams \ (Storage \cup NoCopy) \subseteq copied
                      \/ idx \in Cams /\ cam'[idx].mst = "NotMounted"
    OBVIOUS
  <2>1. WaitMountTick
    BY DEF Tick, IdleTick, TimedTick, RecordTick, WifiWaitTick, CopyComplete, RunCopyTick,
           ManualMountExtTick, ManualMountCamTick, WaitUnmountTick, IdleStates, UnmountStates
  <2>2. alive /\ Checked \in [Cams -> CamRec] /\ idx \in 1 .. (NumCams + 1) /\ NumCams \in Nat
    BY <2>1, CheckedLemma, CamsAssumption DEF IInv, TypeOK, WaitMountTick
  <2>3. ASSUME NEW s, NEW i, NEW l, GotoIndex(s, i, l, Checked, flags) PROVE FALSE
    BY <2>3 DEF GotoIndex, WifiFlag
  <2>4. ~Stay(Checked, flags)
    BY DEF Stay, TimeoutState
  <2>5. CASE idx > NumCams
    BY <2>2, <2>5 DEF RoundInv, CopyStates, Cams
  <2>6. CASE /\ idx \in Cams \ (Storage \cup NoCopy) /\ Checked[idx].mst = "NotMounted"
             /\ Goto("WaitUnmount", Checked, flags \ {"need-check"})
    <3>1. cam'[idx].mst = Checked[idx].mst
      BY <2>2, <2>6 DEF Goto, GotoIndex, Entered, UnmountStates, CamRec
    <3> QED
      BY <2>6, <3>1
  <2> QED
    BY <2>1, <2>3, <2>4, <2>5, <2>6 DEF WaitMountTick, Goto
<1> QED
  BY <1>1, <1>2, Inductive, NextRound, PTL DEF Spec, RequestKept

-----------------------------------------------------------------------------
(* Mounted file systems, when scripts keep to their timeouts *)

\* What a camera's record says of its disk: m is whether it is mounted.
Truthful(k, m) ==
  /\ ~k.late
  /\ k.mst # "Mounting"   => k.mount = "none"
  /\ k.mst # "Unmounting" => k.unmount = "none"
  /\ k.mst = "NotMounted" => ~m
  /\ k.mst = "Mounting" =>
       /\ k.mount \in {"none", "run", "fix", "ok"}
       /\ k.mount \in {"none", "run"} => ~m
       /\ k.expired => k.mount = "none"
  /\ k.mst = "Unmounting" =>
       /\ ~k.expired /\ k.unmount \in {"none", "run", "ok"}
       /\ k.unmount = "ok" => ~m

TruthInv ==
  /\ alive
  /\ \A c \in Cams : Truthful(cam[c], disk[c].mounted)

\* Records that agree but for what is wanted.
Alike(j, k) ==
  /\ j.mst = k.mst /\ j.expired = k.expired /\ j.mount = k.mount
  /\ j.unmount = k.unmount /\ j.late = k.late

LEMMA AlikeTruth ==
  ASSUME NEW j, NEW k, NEW m, Alike(j, k), Truthful(k, m)
  PROVE  Truthful(j, m)
BY DEF Alike, Truthful

LEMMA CheckTruth ==
  ASSUME TypeOK, NEW c \in Cams, Truthful(cam[c], disk[c].mounted)
  PROVE  Truthful(Check(c), disk[c].mounted)
<1> DEFINE k == Begin(cam[c])
           m == disk[c].mounted
<1>1. cam[c] \in CamRec /\ disk[c].there \in BOOLEAN /\ m \in BOOLEAN
  BY DEF TypeOK, CamRec
<1>2. k \in CamRec /\ Truthful(k, m)
  BY <1>1 DEF Begin, CamRec, MountStates, Truthful
<1>3. Check(c) = IF k.mst = "Mounting" THEN Mounting(k, disk[c].there)
                 ELSE IF k.mst = "Unmounting" THEN Unmounting(k) ELSE k
  BY DEF Check
<1> HIDE DEF k, m
<1>4. CASE k.mst = "Mounting"
  <2>1. \A t \in BOOLEAN : Truthful(Mounting(k, t), m)
    BY <1>2, <1>4 DEF Mounting, Signalled, CamRec, MountStates, Truthful
  <2> QED
    BY <1>1, <1>3, <1>4, <2>1 DEF m
<1>5. CASE k.mst = "Unmounting"
  <2>1. Truthful(Unmounting(k), m)
    BY <1>2, <1>5 DEF Unmounting, CamRec, MountStates, Truthful
  <2> QED
    BY <1>3, <1>5, <2>1 DEF m
<1>6. CASE k.mst \notin {"Mounting", "Unmounting"}
  BY <1>2, <1>3, <1>6 DEF m
<1> QED
  BY <1>4, <1>5, <1>6

\* A pass over the cameras, whatever transition follows, leaves the records
\* as Camera.check leaves them but for what is wanted.
LEMMA TickTruth == IInv /\ TruthInv /\ Tick => TruthInv'
<1> SUFFICES ASSUME IInv, TruthInv, Tick PROVE TruthInv'
  OBVIOUS
<1>1. TypeOK /\ alive /\ cam \in [Cams -> CamRec]
  BY DEF IInv, TypeOK, TruthInv, CamRec
<1>2. Checked \in [Cams -> CamRec] /\ \A c \in Cams : Truthful(Checked[c], disk[c].mounted)
  BY <1>1, CheckedLemma, CheckTruth DEF Checked, TruthInv
<1> DEFINE True(cs) == /\ cs \in [Cams -> CamRec]
                       /\ \A c \in Cams : Truthful(cs[c], disk[c].mounted)
<1>3. True(Checked) /\ True(cam)
  BY <1>1, <1>2 DEF TruthInv
<1>4. ASSUME NEW cs, True(cs), NEW w \in [Cams -> BOOLEAN]
      PROVE  True([c \in Cams |-> [cs[c] EXCEPT !.want = w[c]]])
  <2>1. ASSUME NEW c \in Cams
        PROVE  /\ [cs[c] EXCEPT !.want = w[c]] \in CamRec
               /\ Alike([cs[c] EXCEPT !.want = w[c]], cs[c])
    BY <1>4 DEF CamRec, Alike
  <2> QED
    BY <1>4, <2>1, AlikeTruth
<1>5. ASSUME NEW s, NEW cs, True(cs) PROVE True(Entered(s, cs))
  <2>1. ASSUME NEW c \in Cams
        PROVE  Entered(s, cs)[c] \in CamRec /\ Alike(Entered(s, cs)[c], cs[c])
    BY <1>5 DEF Entered, CamRec, Alike
  <2>2. Entered(s, cs) \in [Cams -> CamRec]
    BY <2>1 DEF Entered
  <2> QED
    BY <1>5, <2>1, <2>2, AlikeTruth
<1>6. ASSUME NEW s, NEW i, NEW l, NEW cs, True(cs), NEW fl, GotoIndex(s, i, l, cs, fl)
      PROVE  TruthInv'
  <2>1. alive' /\ disk' = disk /\ cam' = Entered(s, cs)
    BY <1>1, <1>6 DEF GotoIndex, World
  <2>2. True(Entered(s, cs))
    BY <1>5, <1>6
  <2> QED
    BY <2>1, <2>2 DEF TruthInv
<1>7. ASSUME NEW cs, True(cs), NEW fl, Stay(cs, fl) PROVE TruthInv'
  <2>1. CASE expired /\ st \in DOMAIN TimeoutState
    BY <1>6, <1>7, <2>1 DEF Stay, Goto
  <2>2. CASE ~(expired /\ st \in DOMAIN TimeoutState)
    <3>1. alive' /\ disk' = disk /\ cam' = cs
      BY <1>1, <1>7, <2>2 DEF Stay, World
    <3> QED
      BY <1>7, <3>1 DEF TruthInv
  <2> QED
    BY <2>1, <2>2
<1> HIDE DEF True
<1> DEFINE all      == [c \in Cams |-> [Checked[c] EXCEPT !.want = TRUE]]
           cameras  == [c \in Cams |-> IF c \in Storage THEN Checked[c]
                                       ELSE [Checked[c] EXCEPT !.want = TRUE]]
           wished   == [c \in Cams |-> [Checked[c] EXCEPT !.want =
                          IF c \in Storage THEN WantMountExt(flags) ELSE WantMountCam(flags)]]
<1>8. True(all)
  <2>1. [c \in Cams |-> TRUE] \in [Cams -> BOOLEAN]
    OBVIOUS
  <2>2. all = [c \in Cams |-> [Checked[c] EXCEPT !.want = [d \in Cams |-> TRUE][c]]]
    OBVIOUS
  <2> QED
    BY <1>3, <1>4, <2>1, <2>2
<1>9. True(cameras)
  <2> DEFINE w == [c \in Cams |-> IF c \in Storage THEN Checked[c].want ELSE TRUE]
  <2>1. w \in [Cams -> BOOLEAN]
    BY <1>2 DEF CamRec
  <2>2. cameras = [c \in Cams |-> [Checked[c] EXCEPT !.want = w[c]]]
    BY <1>2 DEF CamRec
  <2> HIDE DEF w
  <2> QED
    BY <1>3, <1>4, <2>1, <2>2
<1>10. True(wished)
  <2> DEFINE w == [c \in Cams |-> IF c \in Storage THEN WantMountExt(flags)
                                  ELSE WantMountCam(flags)]
  <2>1. w \in [Cams -> BOOLEAN]
    BY DEF WantMountExt, WantMountCam
  <2>2. wished = [c \in Cams |-> [Checked[c] EXCEPT !.want = w[c]]]
    OBVIOUS
  <2> HIDE DEF w
  <2>3. True([c \in Cams |-> [Checked[c] EXCEPT !.want = w[c]]])
    BY <1>3, <1>4, <2>1
  <2> HIDE DEF wished
  <2> QED
    BY <2>2, <2>3
<1>11. \/ \E cs \in {Checked, all, cameras, cam} : \E s, i, l, fl : GotoIndex(s, i, l, cs, fl)
       \/ \E cs \in {Checked, wished} : \E fl : Stay(cs, fl)
  <2>1. CASE IdleTick
    BY <2>1 DEF IdleTick, Goto
  <2>2. CASE TimedTick \/ RecordTick
    BY <2>2 DEF TimedTick, RecordTick, Goto
  <2>3. CASE WifiWaitTick
    BY <2>3 DEF WifiWaitTick, Goto
  <2>4. CASE WaitMountTick
    BY <2>4 DEF WaitMountTick, Goto
  <2>5. CASE CopyComplete \/ RunCopyTick
    BY <2>5 DEF CopyComplete, RunCopyTick, Goto
  <2>6. CASE ManualMountExtTick \/ ManualMountCamTick
    BY <2>6 DEF ManualMountExtTick, ManualMountCamTick, Goto
  <2>7. CASE WaitUnmountTick
    BY <2>7 DEF WaitUnmountTick, Goto
  <2> QED
    BY <2>1, <2>2, <2>3, <2>4, <2>5, <2>6, <2>7 DEF Tick
<1> HIDE DEF all, cameras, wished
<1> QED
  BY <1>3, <1>6, <1>7, <1>8, <1>9, <1>10, <1>11

\* Without a timeout, a script tells the truth of the disk it leaves.
LEMMA ScriptTruth ==
  ASSUME Timely, ~Crashes, IInv, TruthInv,
         (\E c \in Cams : CamExpires(c)) \/ Scripts
  PROVE  TruthInv'
<1>1. /\ cam \in [Cams -> CamRec] /\ disk \in [Cams -> [there : BOOLEAN, mounted : BOOLEAN]]
      /\ alive
  BY DEF IInv, TypeOK, TruthInv, CamRec
<1>2. ASSUME NEW c \in Cams, NEW k, NEW d, alive' = alive,
             cam' = [cam EXCEPT ![c] = k],
             disk' = disk \/ disk' = [disk EXCEPT ![c] = d],
             Truthful(k, disk'[c].mounted)
      PROVE  TruthInv'
  <2>1. ASSUME NEW e \in Cams PROVE Truthful(cam'[e], disk'[e].mounted)
    <3>1. CASE e = c
      BY <1>1, <1>2, <3>1
    <3>2. CASE e # c
      <4>1. cam'[e] = cam[e] /\ disk'[e] = disk[e]
        BY <1>1, <1>2, <3>2
      <4> QED
        BY <4>1 DEF TruthInv
    <3> QED
      BY <3>1, <3>2
  <2> QED
    BY <1>1, <1>2, <2>1 DEF TruthInv
<1>3. ASSUME NEW c \in Cams
      PROVE  Truthful(cam[c], disk[c].mounted) /\ cam[c] \in CamRec
             /\ disk[c].mounted \in BOOLEAN
  BY <1>1 DEF TruthInv
<1>4. ASSUME NEW c \in Cams, CamExpires(c) PROVE TruthInv'
  <2> DEFINE k == [cam[c] EXCEPT !.expired = TRUE]
  <2>1. cam[c].mst = "Mounting" /\ cam[c].mount = "none"
    BY <1>4 DEF CamExpires
  <2>2. alive' = alive /\ disk' = disk /\ cam' = [cam EXCEPT ![c] = k]
    BY <1>4 DEF CamExpires, World
  <2>3. Truthful(k, disk[c].mounted)
    BY <1>3, <2>1 DEF Truthful, CamRec
  <2> HIDE DEF k
  <2> QED
    BY <1>2, <2>2, <2>3
<1>5. ASSUME NEW c \in Cams, MountCommand(c) PROVE TruthInv'
  <2> DEFINE k == [cam[c] EXCEPT !.mount = "fix"]
             d == [disk[c] EXCEPT !.mounted = TRUE]
  <2>1. cam[c].mount = "run" /\ cam[c].mst = "Mounting"
    BY <1>3, <1>5 DEF MountCommand, Truthful
  <2>2. /\ alive' = alive /\ cam' = [cam EXCEPT ![c] = k]
        /\ disk' = disk \/ disk' = [disk EXCEPT ![c] = d]
    BY <1>5 DEF MountCommand, DiskAfterMount
  <2>3. \A m : Truthful(k, m)
    BY <1>3, <2>1 DEF Truthful, CamRec
  <2> HIDE DEF k, d
  <2> QED
    BY <1>2, <2>2, <2>3
<1>6. ASSUME NEW c \in Cams, MountExit(c) PROVE TruthInv'
  <2> DEFINE k == [cam[c] EXCEPT !.mount = "ok"]
  <2>1. cam[c].mount = "fix" /\ cam[c].mst = "Mounting"
    BY <1>3, <1>6 DEF MountExit, Truthful
  <2>2. alive' = alive /\ cam' = [cam EXCEPT ![c] = k] /\ disk' = disk
    BY <1>6 DEF MountExit, World
  <2>3. \A m : Truthful(k, m)
    BY <1>3, <2>1 DEF Truthful, CamRec
  <2> HIDE DEF k
  <2> QED
    BY <1>2, <2>2, <2>3
<1>7. ASSUME NEW c \in Cams, MountInterrupted(c) PROVE FALSE
  BY <1>3, <1>7 DEF MountInterrupted, Truthful
<1>8. ASSUME NEW c \in Cams, UnmountExit(c) PROVE TruthInv'
  <2> DEFINE k == [cam[c] EXCEPT !.unmount = "ok"]
             d == [disk[c] EXCEPT !.mounted = FALSE]
  <2>1. cam[c].unmount = "run" /\ cam[c].mst = "Unmounting"
    BY <1>3, <1>8 DEF UnmountExit, Truthful
  <2>2. /\ alive' = alive /\ cam' = [cam EXCEPT ![c] = k]
        /\ disk' = [disk EXCEPT ![c] = d]
    BY <1>8 DEF UnmountExit
  <2>3. ~disk'[c].mounted
    BY <1>1, <2>2
  <2>4. Truthful(k, disk'[c].mounted)
    BY <1>3, <2>1, <2>3 DEF Truthful, CamRec
  <2> HIDE DEF k, d
  <2> QED
    BY <1>2, <2>2, <2>4
<1>9. ASSUME NEW c \in Cams, LateUnmount(c) PROVE FALSE
  BY <1>3, <1>9 DEF LateUnmount, Truthful
<1>10. ASSUME NEW c \in Cams, StrayExit(c) PROVE TruthInv'
  BY <1>10 DEF StrayExit, World, TruthInv
<1> QED
  BY <1>4, <1>5, <1>6, <1>7, <1>8, <1>9, <1>10 DEF Scripts

\* A file system that is mounted has its disk powered, for any number of
\* cameras, when scripts keep to their timeouts and the service stays up.
THEOREM MountedPowered ==
  ASSUME Timely, ~Crashes
  PROVE  Spec => []MountedDiskPowered
<1>1. Init => TruthInv
  <2> SUFFICES ASSUME Init PROVE TruthInv
    OBVIOUS
  <2>1. \A c \in Cams : cam[c] = NewCam /\ disk[c].mounted = FALSE
    BY DEF Init
  <2>2. Truthful(NewCam, FALSE)
    BY DEF Truthful, NewCam
  <2> QED
    BY <2>1, <2>2 DEF Init, TruthInv
<1>2. IInv /\ TruthInv /\ [Next]_vars => TruthInv'
  <2> SUFFICES ASSUME IInv, TruthInv, [Next]_vars PROVE TruthInv'
    OBVIOUS
  <2>1. CASE Tick
    BY <2>1, TickTruth
  <2>2. CASE (\E c \in Cams : CamExpires(c)) \/ Scripts
    BY <2>2, ScriptTruth
  <2>3. CASE StateExpires \/ CopyExit \/ (\E f \in UserFlags : UserFlag(f))
             \/ WifiChanges \/ UNCHANGED vars
    <3>1. UNCHANGED <<alive, cam, disk>>
      BY <2>3 DEF StateExpires, CopyExit, UserFlag, WifiChanges, World, vars
    <3> QED
      BY <3>1 DEF TruthInv
  <2>4. ASSUME NEW c \in Cams, DiskChanges(c) PROVE TruthInv'
    <3>1. /\ alive' = alive /\ cam' = cam
          /\ \A e \in Cams : disk'[e].mounted = disk[e].mounted
      BY <2>4 DEF DiskChanges, IInv, TypeOK
    <3> QED
      BY <3>1 DEF TruthInv
  <2>5. ~Crash /\ ~Restart
    BY DEF Crash, Restart, TruthInv
  <2> QED
    BY <2>1, <2>2, <2>3, <2>4, <2>5 DEF Next, Outside
<1>3. PowerWhileMounted /\ TruthInv => MountedDiskPowered
  BY DEF PowerWhileMounted, TruthInv, Truthful, MountedDiskPowered
<1> QED
  BY <1>1, <1>2, <1>3, Inductive, PowerSafe, PTL DEF Spec

=============================================================================
