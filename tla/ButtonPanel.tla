----------------------------- MODULE ButtonPanel -----------------------------
(***************************************************************************)
(* The buttons of the vehicle monitor: menu, text entry and media screen,  *)
(* and the music on the phone, which text entry pauses and leaving it      *)
(* resumes.  Commands to the phone and reports of its music take time.     *)
(*                                                                         *)
(* Of a text its length is kept.  What a button only sends to the car or   *)
(* shows is left out.                                                      *)
(***************************************************************************)
EXTENDS Integers, Sequences

CONSTANTS
  Items,        \* menu items, in columns of four
  Sticky,       \* items that leave the menu open
  AutoPause,    \* the item that switches autopause
  LastColumn, FirstColumn,   \* of text entry; the one it begins with
  MaxText, MaxQueue          \* bounds

ASSUME PanelAssumption ==
  /\ Items \in Nat \ {0} /\ MaxText \in Nat /\ MaxQueue \in Nat
  /\ LastColumn \in Nat /\ FirstColumn \in 0 .. LastColumn
  /\ AutoPause \in Sticky

VARIABLES
  mode, menu_pos,           \* cur_button_mode; -1 before the menu is used
  column, length, text_pos, \* textent_column, of cur_text
  autopause, auto_resume,   \* configuration; text entry paused the music
  playing,                  \* music_data[-1], as reported last
  commands, music, reports, \* on their way to the phone; it plays; on their way back
  owed                      \* history: music that text entry paused has to go on

entry     == <<column, length, text_pos>>
phone     == <<commands, music, reports>>
panelVars == <<mode, menu_pos, entry, autopause, auto_resume, playing, phone, owed>>

PanelInit ==
  /\ mode = "default" /\ menu_pos = -1
  /\ column = 0 /\ length = 0 /\ text_pos = 0
  /\ autopause \in BOOLEAN /\ auto_resume = FALSE /\ playing = FALSE
  /\ commands = <<>> /\ music = FALSE /\ reports = <<>>
  /\ owed = FALSE

-----------------------------------------------------------------------------
(* Changing the mode *)

\* exit_button_mode: what it sends.
Resume == IF autopause /\ auto_resume THEN <<"play">> ELSE <<>>

\* exit_button_mode, and the mode that follows; more is sent after it.
Enter(next, more) ==
  /\ mode' = next
  /\ commands' = commands \o Resume \o more
  /\ Len(commands') <= MaxQueue   \* bound
  /\ auto_resume' = FALSE
  /\ UNCHANGED <<autopause, playing, music, reports>>

\* Faulty variant: it is noted before exit_button_mode, which clears it.
Paused_Early == FALSE

\* enter_text_entry: auto_resume after it.
Paused == autopause /\ playing

EnterTextEntry ==
  /\ mode = "default" /\ mode' = "textent"
  /\ auto_resume' = Paused
  /\ commands' = commands \o Resume \o (IF autopause /\ playing THEN <<"pause">> ELSE <<>>)
  /\ Len(commands') <= MaxQueue   \* bound
  /\ column' = FirstColumn
  /\ owed' = (owed \/ (autopause /\ playing))
  /\ UNCHANGED <<menu_pos, length, text_pos, autopause, playing, music, reports>>

EnterMenu ==
  /\ mode = "default" /\ Enter("menu", <<>>)
  /\ menu_pos' = 4 * ((((Items + 3) \div 4) - 1) \div 2)
  /\ UNCHANGED <<entry, owed>>

EnterMedia ==
  /\ mode = "default" /\ Enter("media", <<>>)
  /\ UNCHANGED <<menu_pos, entry, owed>>

\* The buttons that end a mode; what was typed stays.
Exit ==
  /\ mode # "default" /\ Enter("default", <<>>)
  /\ UNCHANGED <<menu_pos, entry, owed>>

\* accept_text and cancel_text.
EndText ==
  /\ mode = "textent" /\ Enter("default", <<>>)
  /\ length' = 0 /\ text_pos' = 0
  /\ UNCHANGED <<menu_pos, column, owed>>

-----------------------------------------------------------------------------
(* Buttons and rotors within a mode *)

quiet == <<autopause, auto_resume, playing, phone, owed>>

Rotors == {-1, 1}

\* Faulty variant: the last column may be left.
MenuTurned_Past(d) == {p \in {menu_pos + 4 * d} : d = 1 \/ menu_pos > 3}

\* rotor_menu
MenuTurned(d) ==
  {p \in {menu_pos + 4 * d} : IF d = 1 THEN menu_pos < Items - 4 ELSE menu_pos > 3}

TurnMenu ==
  /\ mode = "menu"
  /\ \E d \in Rotors : menu_pos' \in MenuTurned(d)
  /\ UNCHANGED <<mode, entry, quiet>>

\* do_menu_select
Select ==
  /\ mode = "menu"
  /\ \E i \in menu_pos .. menu_pos + 3 :
       IF i \in Sticky \/ i >= Items
       THEN /\ autopause' = (autopause # (i = AutoPause))
            /\ UNCHANGED <<mode, auto_resume, playing, phone>>
       ELSE Enter("default", <<>>)
  /\ UNCHANGED <<menu_pos, entry, owed>>

\* rotate_textent_column
TurnColumn ==
  /\ mode = "textent"
  /\ \E d \in Rotors : column + d \in 0 .. LastColumn /\ column' = column + d
  /\ UNCHANGED <<mode, menu_pos, length, text_pos, quiet>>

\* rotate_textent_cursor
TurnCursor ==
  /\ mode = "textent"
  /\ \E d \in Rotors : text_pos + d \in 0 .. length /\ text_pos' = text_pos + d
  /\ UNCHANGED <<mode, menu_pos, column, length, quiet>>

\* insert_text
Insert ==
  /\ mode = "textent" /\ length < MaxText   \* bound
  /\ length' = length + 1 /\ text_pos' = text_pos + 1
  /\ UNCHANGED <<mode, menu_pos, column, quiet>>

Backspace ==
  /\ mode = "textent" /\ text_pos > 0
  /\ length' = length - 1 /\ text_pos' = text_pos - 1
  /\ UNCHANGED <<mode, menu_pos, column, quiet>>

\* A global button that text entry and the menu use otherwise.
PlayPause ==
  /\ mode \in {"default", "media"} /\ Len(commands) < MaxQueue   \* bound
  /\ commands' = Append(commands, "playpause")
  /\ owed' = FALSE
  /\ UNCHANGED <<mode, menu_pos, entry, autopause, auto_resume, playing, music, reports>>

-----------------------------------------------------------------------------
(* Messages, and the phone *)

\* music_message.  That the music has started while text is entered takes back
\* what was owed: somebody started it, for all the panel can tell.
Report ==
  /\ reports # <<>>
  /\ playing' = Head(reports) /\ reports' = Tail(reports)
  /\ auto_resume' = (auto_resume /\ ~(~playing /\ Head(reports)))
  /\ owed' = (owed /\ ~(mode = "textent" /\ ~playing /\ Head(reports)))
  /\ UNCHANGED <<mode, menu_pos, entry, autopause, commands, music>>

\* set_config_msg
SetAutoPause ==
  /\ autopause' = ~autopause /\ owed' = FALSE
  /\ UNCHANGED <<mode, menu_pos, entry, auto_resume, playing, phone>>

\* init, after a reload
PanelReload ==
  /\ mode' = "default" /\ menu_pos' = -1
  /\ column' = 0 /\ length' = 0 /\ text_pos' = 0
  /\ auto_resume' = FALSE /\ owed' = FALSE
  /\ UNCHANGED <<autopause, playing, phone>>

\* The phone plays or not, and reports a change.
Play(on) ==
  /\ music' = on
  /\ reports' = IF on = music THEN reports ELSE Append(reports, on)
  /\ Len(reports') <= MaxQueue   \* bound

Obey ==
  /\ commands # <<>>
  /\ Play(CASE Head(commands) = "play" -> TRUE
            [] Head(commands) = "pause" -> FALSE
            [] OTHER -> ~music)
  /\ commands' = Tail(commands)
  /\ UNCHANGED <<mode, menu_pos, entry, autopause, auto_resume, playing, owed>>

\* Somebody uses the phone.
PhoneUser ==
  /\ Play(~music) /\ owed' = FALSE
  /\ UNCHANGED <<mode, menu_pos, entry, autopause, auto_resume, playing, commands>>

PanelNext ==
  \/ EnterTextEntry \/ EnterMenu \/ EnterMedia \/ Exit \/ EndText
  \/ TurnMenu \/ Select \/ TurnColumn \/ TurnCursor \/ Insert \/ Backspace
  \/ PlayPause \/ Report \/ SetAutoPause \/ PanelReload \/ Obey \/ PhoneUser

PanelSpec == PanelInit /\ [][PanelNext]_panelVars

-----------------------------------------------------------------------------
(* Properties *)

\* Music that text entry paused plays again when text entry was left and the
\* phone has obeyed all commands, by whatever buttons, whatever commands and
\* reports were under way when it was entered and however they cross.  Who
\* changes the music or the configuration meanwhile decides otherwise, and so
\* does a report, true or out of date, that comes in during text entry and
\* says that the music has started.
MusicResumes == owed /\ mode # "textent" /\ commands = <<>> => music

\* The cursor stays in the text and the menu on a column that has items,
\* whatever was typed, deleted and turned, across modes and reloads.
PositionsInRange ==
  /\ text_pos \in 0 .. length /\ column \in 0 .. LastColumn
  /\ mode = "menu" => menu_pos \in {4 * c : c \in 0 .. (Items - 1) \div 4}

=============================================================================
