------------------------------ MODULE HudTable ------------------------------
(***************************************************************************)
(* The widget table in shared memory.  The vehicle monitor builds it       *)
(* (WidgetConfig.build of hud_shm.py, on every start and reload), writes   *)
(* texts and visibility; hud.c loads it and draws what changed, every      *)
(* 50 ms, with no lock between them.                                       *)
(*                                                                         *)
(* A widget is always visible or belongs to the overlay; each has a tile   *)
(* of its own.  A text is a number, Empty after a build.                   *)
(***************************************************************************)
EXTENDS Integers

CONSTANTS
  Slots,                \* places in the table
  MaxBuilds, MaxTexts   \* bounds

ASSUME TableAssumption == MaxBuilds \in Nat /\ MaxTexts \in Nat

Empty == 0
Torn  == -1     \* a text that is being written
Blank == -2     \* nothing of the widget on the screen

VARIABLES
  \* shared memory
  hversion, full, overlay,      \* header: version, numwidgets is not 0, visibility
  member, version, text,        \* of each widget: visgroup, version, text
  \* the vehicle monitor
  wpc, unfilled, dirtytext,     \* next step, slots to fill, slot of a new text
  \* hud.c
  hpc, left,                    \* next step, widgets still to look at in it
  vers, nonempty,               \* load_widgets: cvers, nw
  cversion, cfull, coverlay,    \* cur_header
  newoverlay,                   \* new_visibility
  last, visible, dirty,         \* widget_ldata, tiles to draw
  screen,
  ghosts                        \* history: marked visible by an older table

header  == <<hversion, full, overlay>>
slots   == <<member, version, text>>
writer  == <<wpc, unfilled, dirtytext>>
reader  == <<hpc, left, vers, nonempty, cversion, cfull, coverlay, newoverlay,
             last, visible, dirty, screen, ghosts>>
hudVars == <<header, slots, writer, reader>>

\* An empty file: the table is built by the first init().
HudInit ==
  /\ hversion = 0 /\ full = FALSE /\ overlay = FALSE
  /\ member = [i \in Slots |-> FALSE] /\ version = [i \in Slots |-> 0]
  /\ text = [i \in Slots |-> Empty]
  /\ wpc = "clear" /\ unfilled = {} /\ dirtytext = {}
  /\ hpc = "load" /\ left = {} /\ vers = 0 /\ nonempty = FALSE
  /\ cversion = 0 /\ cfull = FALSE /\ coverlay = FALSE /\ newoverlay = FALSE
  /\ last = [i \in Slots |-> 0] /\ visible = [i \in Slots |-> FALSE]
  /\ dirty = {} /\ screen = [i \in Slots |-> Blank] /\ ghosts = {}

-----------------------------------------------------------------------------
(* The vehicle monitor *)

\* build: visibility, numwidgets and version of the header, one by one.
BuildBegin ==
  /\ wpc = "clear"
  /\ overlay' = FALSE /\ full' = FALSE /\ wpc' = "retire"
  /\ UNCHANGED <<hversion, slots, unfilled, dirtytext, reader>>

Retire ==
  /\ wpc = "retire" /\ hversion < 2 * MaxBuilds   \* bound
  /\ hversion' = hversion + 1 /\ wpc' = "fill" /\ unfilled' = Slots
  /\ UNCHANGED <<full, overlay, slots, dirtytext, reader>>

\* Any widget may take a place; the version there is left as it is.
Fill ==
  /\ wpc = "fill"
  /\ \E i \in unfilled, m \in BOOLEAN :
       /\ member' = [member EXCEPT ![i] = m]
       /\ text' = [text EXCEPT ![i] = Empty]
       /\ unfilled' = unfilled \ {i}
  /\ UNCHANGED <<header, version, wpc, dirtytext, reader>>

Count ==
  /\ wpc = "fill" /\ unfilled = {}
  /\ full' = TRUE /\ wpc' = "release"
  /\ UNCHANGED <<hversion, overlay, slots, unfilled, dirtytext, reader>>

\* Faulty variant: the version changes once in a build.
Release_Same ==
  /\ wpc = "release"
  /\ wpc' = "run"
  /\ UNCHANGED <<header, slots, unfilled, dirtytext, reader>>

Release ==
  /\ wpc = "release" /\ hversion < 2 * MaxBuilds   \* bound
  /\ hversion' = hversion + 1 /\ wpc' = "run"
  /\ UNCHANGED <<full, overlay, slots, unfilled, dirtytext, reader>>

\* set_visgroup.
SetOverlay ==
  /\ wpc = "run"
  /\ overlay' = ~overlay
  /\ UNCHANGED <<hversion, full, slots, writer, reader>>

\* set_text, while it writes.
WriteText ==
  /\ wpc = "run" /\ dirtytext = {}
  /\ \E i \in Slots : version[i] < MaxTexts   \* bound
                      /\ dirtytext' = {i} /\ text' = [text EXCEPT ![i] = Torn]
  /\ wpc' = "text"
  /\ UNCHANGED <<header, member, version, unfilled, reader>>

TextWritten ==
  /\ wpc = "text"
  /\ text' = [i \in Slots |-> IF i \in dirtytext THEN version[i] + 1 ELSE text[i]]
  /\ wpc' = "bump"
  /\ UNCHANGED <<header, member, version, unfilled, dirtytext, reader>>

BumpVersion ==
  /\ wpc = "bump"
  /\ version' = [i \in Slots |-> IF i \in dirtytext THEN version[i] + 1 ELSE version[i]]
  /\ wpc' = "run" /\ dirtytext' = {}
  /\ UNCHANGED <<header, member, text, unfilled, reader>>

\* The monitor dies or reloads: init() builds the table anew.
Rebuild ==
  /\ wpc # "clear" /\ hversion < 2 * MaxBuilds   \* bound
  /\ wpc' = "clear" /\ unfilled' = {} /\ dirtytext' = {}
  /\ UNCHANGED <<header, slots, reader>>

WriterNext == \/ BuildBegin \/ Retire \/ Fill \/ Count \/ Release
              \/ SetOverlay \/ WriteText \/ TextWritten \/ BumpVersion \/ Rebuild

-----------------------------------------------------------------------------
(* hud.c *)

InUse(yes) == IF yes THEN Slots ELSE {}

\* load_widgets: the header, ...
LoadBegin ==
  /\ hpc = "load"
  /\ vers' = hversion /\ nonempty' = full /\ left' = InUse(full)
  /\ hpc' = "loading"
  /\ UNCHANGED <<header, slots, writer, cversion, cfull, coverlay, newoverlay,
                 last, visible, dirty, screen, ghosts>>

\* ... each widget, ...
LoadWidget ==
  /\ hpc = "loading"
  /\ \E i \in left : last' = [last EXCEPT ![i] = version[i] - 1] /\ left' = left \ {i}
  /\ UNCHANGED <<header, slots, writer, hpc, vers, nonempty, cversion, cfull, coverlay,
                 newoverlay, visible, dirty, screen, ghosts>>

\* Faulty variant: the table is taken though it changed meanwhile.
LoadEnd_Unchecked ==
  /\ hpc = "loading" /\ left = {}
  /\ cversion' = hversion /\ cfull' = nonempty /\ coverlay' = FALSE
  /\ dirty' = Slots /\ ghosts' = {i \in Slots : visible[i]}
  /\ hpc' = "scan" /\ left' = {}
  /\ screen' = [i \in Slots |-> Blank]
  /\ UNCHANGED <<header, slots, writer, vers, nonempty, newoverlay, last, visible>>

\* ... and the version again: if it changed, from the beginning.
LoadEnd ==
  /\ hpc = "loading" /\ left = {}
  /\ IF vers = hversion
     THEN /\ cversion' = vers /\ cfull' = nonempty /\ coverlay' = FALSE
          /\ dirty' = Slots /\ ghosts' = {i \in Slots : visible[i]}
          /\ hpc' = "scan"
          /\ screen' = [i \in Slots |-> Blank]
     ELSE /\ hpc' = "load"
          /\ UNCHANGED <<cversion, cfull, coverlay, dirty, ghosts, screen>>
  /\ UNCHANGED <<header, slots, writer, left, vers, nonempty, newoverlay, last, visible>>

\* The loop of main: every 20 s the whole screen is drawn again.
Frame ==
  /\ hpc = "idle"
  /\ dirty' \in {dirty, Slots}
  /\ hpc' = IF cversion # hversion THEN "load" ELSE "scan"
  /\ UNCHANGED <<header, slots, writer, left, vers, nonempty, cversion, cfull, coverlay,
                 newoverlay, last, visible, screen, ghosts>>

\* draw_widgets: what changed is marked, ...
ScanBegin ==
  /\ hpc = "scan"
  /\ newoverlay' = overlay /\ left' = InUse(cfull)
  /\ hpc' = "scanning"
  /\ UNCHANGED <<header, slots, writer, vers, nonempty, cversion, cfull, coverlay,
                 last, visible, dirty, screen, ghosts>>

IsVisible(i, o) == member[i] => o

Scan ==
  /\ hpc = "scanning"
  /\ \E i \in left :
       LET was == IsVisible(i, coverlay)
           now == IsVisible(i, newoverlay)
       IN /\ left' = left \ {i}
          /\ IF (now /\ version[i] # last[i]) \/ was # now
             THEN /\ visible' = [visible EXCEPT ![i] = now]
                  /\ dirty' = dirty \cup {i}
                  /\ last' = [last EXCEPT ![i] = version[i]]
                  /\ ghosts' = ghosts \ {i}
             ELSE UNCHANGED <<visible, dirty, last, ghosts>>
  /\ UNCHANGED <<header, slots, writer, hpc, vers, nonempty, cversion, cfull, coverlay,
                 newoverlay, screen>>

\* ... then the tiles are drawn, ...
Draw ==
  /\ hpc = "scanning" /\ left = {}
  /\ \E i \in dirty :
       /\ screen' = [screen EXCEPT ![i] = IF visible[i] /\ cfull THEN text[i] ELSE Blank]
       /\ dirty' = dirty \ {i}
  /\ UNCHANGED <<header, slots, writer, hpc, left, vers, nonempty, cversion, cfull,
                 coverlay, newoverlay, last, visible, ghosts>>

\* ... and the visibility is remembered.
EndFrame ==
  /\ hpc = "scanning" /\ left = {} /\ dirty = {}
  /\ coverlay' = newoverlay /\ hpc' = "idle"
  /\ UNCHANGED <<header, slots, writer, left, vers, nonempty, cversion, cfull,
                 newoverlay, last, visible, dirty, screen, ghosts>>

ReaderNext == \/ LoadBegin \/ LoadWidget \/ LoadEnd \/ Frame
              \/ ScanBegin \/ Scan \/ Draw \/ EndFrame

HudNext == WriterNext \/ ReaderNext

HudSpec == HudInit /\ [][HudNext]_hudVars

-----------------------------------------------------------------------------
(* Properties *)

\* What a widget should look like.
Wanted(i) == IF full /\ IsVisible(i, overlay) THEN text[i] ELSE Blank

\* Between two frames, a widget is on the screen as the monitor last wrote
\* it, or something in the table says that it is not and the next frames will
\* look: the version of the table or of the widget, or the visibility.  No
\* order of building, writing and drawing leaves an old text for good.  A
\* widget that a new table hides may be drawn if it has the place of one
\* that was visible before.
ShownOrNoticed ==
  hpc = "idle" /\ wpc = "run" =>
    \A i \in Slots \ ghosts :
      \/ screen[i] = Wanted(i)
      \/ cversion # hversion \/ coverlay # overlay
      \/ IsVisible(i, overlay) /\ version[i] # last[i]

=============================================================================
