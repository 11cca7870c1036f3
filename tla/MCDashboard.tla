---------------------------- MODULE MCDashboard ----------------------------
(***************************************************************************)
(* The driver's side: the button poller, the button panel and the display. *)
(* They share no state, so a behaviour is one of the part that `part`      *)
(* names, while the others stay as they began.                             *)
(***************************************************************************)
EXTENDS GpioPoll, ButtonPanel, HudTable

VARIABLE part

MCSticky == {0, 1, 2, 3, 13, 14, 15, 18, 19}

Init == /\ PollInit /\ PanelInit /\ HudInit
        /\ part \in {"poller", "panel", "display"}
        /\ part = "poller" \/ ~down
        /\ part = "panel" \/ ~autopause

\* Bound: the knob rests once the poller was two steps behind it.
Next == \/ part = "poller"  /\ PollNext  /\ UNCHANGED <<panelVars, hudVars, part>>
                            /\ (late => knob' = knob)
        \/ part = "panel"   /\ PanelNext /\ UNCHANGED <<pollVars, hudVars, part>>
        \/ part = "display" /\ HudNext   /\ UNCHANGED <<pollVars, panelVars, part>>

Spec == Init /\ [][Next]_<<pollVars, panelVars, hudVars, part>>

=============================================================================
