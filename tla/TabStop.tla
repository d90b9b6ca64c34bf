------------------------------- MODULE TabStop --------------------------------
(***************************************************************************)
(* The keyboard focus of one window: osgui/ostabstop.c with its callers in   *)
(* the GTK back end (osgui/gtk/oswindow.c, osbutton.c).                       *)
(*                                                                         *)
(* i_try_change_focus is cut where it calls the application: to ask the      *)
(* focused control to resign, to ask the next one to accept, and to tell     *)
(* both.  There the application may enable or hide controls, update the      *)
(* window (which rebuilds the tab list) or show a modal window (after which   *)
(* the focus is restored).  It does not move the focus itself there (the     *)
(* code asserts that), but it may in the OnClick of a button, which is the    *)
(* other place where the application runs.                                   *)
(***************************************************************************)
EXTENDS Naturals, Sequences

CONSTANTS
  Buttons, Entries, Views, (* the controls of the program: buttons; controls *)
                           (* that may refuse to resign (edit boxes, combos); *)
                           (* views, that may refuse to resign and to accept  *)
  NULL,
  Layouts,   (* the layouts of the window: [all: its controls, list: those in *)
             (* the tab list, in order]                                     *)
  Steady     (* the application keeps the controls of a change, and the       *)
             (* button whose OnClick it is in, while that runs; and a view    *)
             (* that is asked to accept the first focus shows no modal window *)

Controls == Buttons \cup Entries \cup Views

ASSUME TabStopAssumption ==
  /\ NULL \notin Controls /\ Steady \in BOOLEAN
  /\ Buttons \cap (Entries \cup Views) = {}
  /\ \A l \in Layouts : l.all \subseteq Controls /\ l.list \in Seq(l.all)

VARIABLES
  controls, tablist, tabindex, cycle,
  motion, next,        (* of the change under way, "none" and NULL otherwise *)
  current, transient,
  usable,              (* the controls that are visible and enabled         *)
  can_focus,           (* those that the system would give the focus        *)
  pressed,             (* the button the mouse went down on                 *)
  clicked,             (* the button whose OnClick runs                     *)
  pc,                  (* where i_try_change_focus is: "idle", or in a call  *)
                       (* of the application                                *)
  focus, control,      (* its locals: the focus at its start, and who is to  *)
                       (* get it                                            *)
  told                 (* the controls whose last focus event was "focused"  *)

list == <<controls, tablist, cycle>>
change == <<motion, next, focus, control, pc>>
mouse == <<pressed, clicked>>
vars == <<list, tabindex, change, current, transient, usable, can_focus, mouse, told>>

Motions == {"key", "backkey", "next", "prev", "move", "click"}
InCall == {"resign", "accept", "leave", "arrive", "closing"}
Maybe == Controls \cup {NULL}

(* tabindex counts from 1; 0 stands for UINT32_MAX. *)
IndexOf(c) ==
  IF \E i \in DOMAIN tablist : tablist[i] = c
  THEN CHOOSE i \in DOMAIN tablist : tablist[i] = c ELSE 0

Size == Len(tablist)

(* The types, and the remembered position is one of the tab list, whatever  *)
(* list replaced the one it was taken from.                                  *)
TypeOK ==
  /\ controls \subseteq Controls /\ tablist \in Seq(controls) /\ cycle \in BOOLEAN
  /\ tabindex \in 0 .. Size
  /\ motion \in Motions \cup {"none"} /\ next \in Maybe
  /\ current \in Maybe /\ transient \in Maybe /\ pressed \in Maybe /\ clicked \in Maybe
  /\ usable \subseteq Controls /\ can_focus \subseteq Controls /\ told \subseteq Controls
  /\ pc \in InCall \cup {"idle"} /\ focus \in Maybe /\ control \in Maybe

(* _ostabstop_init, and the first layout of the window. *)
Init ==
  /\ \E l \in Layouts : controls = l.all /\ tablist = l.list
  /\ tabindex = 0 /\ cycle \in BOOLEAN
  /\ motion = "none" /\ next = NULL /\ current = NULL /\ transient = NULL
  /\ usable = Controls /\ can_focus = Controls /\ pressed = NULL /\ clicked = NULL
  /\ pc = "idle" /\ focus = NULL /\ control = NULL
  /\ told = {}

-----------------------------------------------------------------------------
(* The native focus                                                         *)

(* _ostabstop_release_transient, when there is a transient button. *)
Released == IF transient = NULL THEN can_focus ELSE can_focus \cup {transient}

(* i_set_focus: the panel's scrolling is left out. *)
SetFocus(c) ==
  /\ can_focus' = Released /\ transient' = NULL
  /\ current' = c
  /\ tabindex' = IF IndexOf(c) = 0 THEN tabindex ELSE IndexOf(c)

KeepFocus == UNCHANGED <<can_focus, transient, current, tabindex>>

-----------------------------------------------------------------------------
(* i_try_change_focus                                                       *)

(* The tab list from the one after (or before) position start, and round.   *)
Candidates(start, forward) ==
  [k \in 1 .. Size |-> IF forward THEN tablist[((start - 1 + k) % Size) + 1]
                       ELSE tablist[((start - 1 + Size - k) % Size) + 1]]

(* i_effective_focus: who is to get the focus in the place of c.             *)
Effective(c, forward) ==
  IF c \in usable THEN c
  ELSE LET from == Candidates(IF IndexOf(c) = 0 THEN 1 ELSE IndexOf(c), forward)
       IN IF \E k \in DOMAIN from : from[k] \in usable
          THEN from[CHOOSE k \in DOMAIN from :
                      from[k] \in usable /\ \A j \in 1 .. k - 1 : from[j] \notin usable]
          ELSE NULL

(* i_is_next_transient: a button outside the tab list is not to get the focus. *)
NextTransient(c) == c # NULL /\ c # current /\ c \in Buttons /\ IndexOf(c) = 0

(* The end of a change, with the rest of _ostabstop_mouse_down: the button    *)
(* that the focus is not left for becomes the transient one.                 *)
Finish(m, c) ==
  /\ pc' = "idle" /\ motion' = "none" /\ next' = NULL
  /\ focus' = NULL /\ control' = NULL
  /\ pressed' = IF m = "click" /\ c \in Buttons THEN c ELSE pressed

Begin(c, m, forward) ==
  LET n == Effective(c, forward) IN
  /\ pc = "idle"
  /\ IF NextTransient(n)
     THEN /\ Finish(m, c)
          /\ can_focus' = can_focus \ {n}
          /\ transient' = IF m = "click" /\ c \in Buttons THEN c ELSE transient
          /\ UNCHANGED <<current, tabindex>>
     ELSE IF current = NULL /\ n = NULL
     THEN Finish(m, c) /\ KeepFocus
     ELSE /\ pc' = IF current = NULL THEN "accept" ELSE "resign"
          /\ motion' = m /\ next' = n /\ focus' = current /\ control' = c
          /\ KeepFocus
          /\ UNCHANGED <<pressed>>
  /\ UNCHANGED <<list, usable, told, clicked>>

(* The focused control does not resign. *)
Refuse ==
  /\ pc = "resign" /\ focus \notin Buttons
  /\ Finish(motion, control)
  /\ transient' = IF motion = "click" /\ control \in Buttons THEN control ELSE transient
  /\ UNCHANGED <<list, usable, told, clicked, can_focus, current, tabindex>>

(* Mutant: the focus is moved before the next one is asked to accept it. *)
ResignEarly ==
  /\ pc = "resign" /\ next # NULL /\ next # focus
  /\ SetFocus(next) /\ pc' = "accept"
  /\ UNCHANGED <<list, motion, next, focus, control, usable, mouse, told>>

(* It does: the next one is asked, unless there is none, or none other. *)
Resign ==
  /\ pc = "resign"
  /\ IF next \in {NULL, focus} THEN Finish(motion, control)
     ELSE pc' = "accept" /\ UNCHANGED <<motion, next, focus, control, pressed>>
  /\ KeepFocus /\ UNCHANGED <<list, usable, told, clicked>>

Reject ==
  /\ pc = "accept" /\ next \in Views
  /\ Finish(motion, control)
  /\ KeepFocus /\ UNCHANGED <<list, usable, told, clicked>>

(* Mutant: who loses the focus is not told. *)
AcceptQuiet ==
  /\ pc = "accept"
  /\ SetFocus(next)
  /\ pc' = "arrive"
  /\ UNCHANGED <<list, motion, next, focus, control, usable, mouse, told>>

Accept ==
  /\ pc = "accept"
  /\ SetFocus(next)
  /\ pc' = IF focus = NULL THEN "arrive" ELSE "leave"
  /\ UNCHANGED <<list, motion, next, focus, control, usable, mouse, told>>

(* i_on_focus, for the one that had the focus and for the one that has it. *)
Leave ==
  /\ pc = "leave"
  /\ told' = told \ {focus} /\ pc' = "arrive"
  /\ KeepFocus
  /\ UNCHANGED <<list, motion, next, focus, control, usable, mouse>>

Arrive ==
  /\ pc = "arrive"
  /\ told' = told \cup {next}
  /\ Finish(motion, control)
  /\ KeepFocus /\ UNCHANGED <<list, usable, clicked>>

-----------------------------------------------------------------------------
(* What starts a change: keys and the mouse, but not while OnClick runs, and *)
(* calls of the application.                                                 *)

(* _ostabstop_next. *)
Next_(from_key) ==
  LET i == IndexOf(current)
      target == IF current # NULL /\ i # 0
                THEN IF i # Size THEN i + 1 ELSE IF cycle THEN 1 ELSE i
                ELSE IF tabindex # 0 THEN tabindex ELSE IF Size > 0 THEN 1 ELSE 0
  IN /\ target # 0 /\ (from_key => clicked = NULL)
     /\ Begin(tablist[target], IF from_key THEN "key" ELSE "next", TRUE)

(* _ostabstop_prev. *)
Prev_(from_key) ==
  LET i == IndexOf(current)
      target == IF current # NULL /\ i # 0
                THEN IF i # 1 THEN i - 1 ELSE IF cycle THEN Size ELSE i
                ELSE IF tabindex # 0 THEN tabindex ELSE Size
  IN /\ target # 0 /\ (from_key => clicked = NULL)
     /\ Begin(tablist[target], IF from_key THEN "backkey" ELSE "prev", FALSE)

(* _ostabstop_move. *)
Move(c) == c \in controls /\ Begin(c, "move", TRUE)

(* Half a click: the system tells only controls that are usable.             *)
MouseDown(c) ==
  /\ pc = "idle" /\ mouse = <<NULL, NULL>> /\ c \in controls \cap usable
  /\ IF current # c THEN Begin(c, "click", TRUE)
     ELSE /\ c \in Buttons /\ pressed' = c
          /\ KeepFocus /\ UNCHANGED <<list, change, usable, told, clicked>>

(* The other half: when the mouse is still on the button, i_OnClick calls the *)
(* application ...                                                           *)
Click ==
  /\ pc = "idle" /\ pressed # NULL
  /\ pressed' = NULL /\ clicked' = pressed
  /\ KeepFocus /\ UNCHANGED <<list, change, usable, told>>

(* ... and, when that returns, releases the transient button, if there still  *)
(* is one.                                                                   *)
ClickReturns ==
  /\ pc = "idle" /\ clicked # NULL /\ clicked' = NULL
  /\ can_focus' = Released /\ transient' = NULL
  /\ UNCHANGED <<list, tabindex, change, current, usable, told, pressed>>

ReleaseElsewhere ==
  /\ pc = "idle" /\ pressed # NULL /\ pressed' = NULL
  /\ KeepFocus /\ UNCHANGED <<list, change, usable, told, clicked>>

(* _ostabstop_can_close_window: only the question to resign. *)
AskClose ==
  /\ pc = "idle" /\ current # NULL /\ clicked = NULL
  /\ pc' = "closing" /\ focus' = current
  /\ KeepFocus /\ UNCHANGED <<list, motion, next, control, usable, mouse, told>>

AnswerClose ==
  /\ pc = "closing"
  /\ pc' = "idle" /\ focus' = NULL
  /\ KeepFocus /\ UNCHANGED <<list, motion, next, control, usable, mouse, told>>

-----------------------------------------------------------------------------
(* What the application does, in the calls and elsewhere                     *)

(* A control is enabled or disabled, shown or hidden. *)
SetUsable(c) ==
  /\ usable' = IF c \in usable THEN usable \ {c} ELSE usable \cup {c}
  /\ KeepFocus /\ UNCHANGED <<list, change, mouse, told>>

(* Mutant: the position in the old list is kept. *)
ResetIndexKept == UNCHANGED tabindex /\ transient' = NULL

ResetIndex == tabindex' = 0 /\ transient' = NULL

StillPresent(l) == IF current \in l.all THEN current ELSE NULL

(* oswindow_taborder for the whole window: the layout may have changed.      *)
(* Controls that leave the window are destroyed.  Nothing in the code keeps   *)
(* those of the change under way, whose locals would then name freed memory; *)
(* the steps that follow read the control that was there.                    *)
UpdateWindow(l) ==
  /\ Steady => {focus, next, control, clicked} \ {NULL} \subseteq l.all
  /\ controls' = l.all /\ tablist' = l.list
  /\ ResetIndex
  /\ current' = StillPresent(l)
  /\ told' = told \cap l.all
  /\ can_focus' = can_focus \cup (Controls \ l.all)
  /\ pressed' = IF pressed \in l.all THEN pressed ELSE NULL
  /\ UNCHANGED <<cycle, change, usable, clicked>>

SetCycle == cycle' = ~cycle /\ KeepFocus
            /\ UNCHANGED <<controls, tablist, change, usable, mouse, told>>

(* _ostabstop_restore: the window is activated, moved, or a modal one over it *)
(* is closed.                                                               *)
Restore ==
  /\ Steady /\ pc = "accept" => focus # NULL
  /\ LET c == IF current # NULL THEN current ELSE IF Size > 0 THEN tablist[1] ELSE NULL IN
     /\ c # NULL
     /\ SetFocus(c) /\ told' = told \cup {c}
  /\ UNCHANGED <<list, change, usable, mouse>>

-----------------------------------------------------------------------------
Answer == Refuse \/ Resign \/ Reject \/ Accept \/ Leave \/ Arrive \/ AnswerClose

Input ==
  \/ \E from_key \in BOOLEAN : Next_(from_key) \/ Prev_(from_key)
  \/ \E c \in Controls : Move(c) \/ MouseDown(c)
  \/ Click \/ ClickReturns \/ ReleaseElsewhere \/ AskClose

Application ==
  \/ \E c \in Controls : SetUsable(c)
  \/ \E l \in Layouts : UpdateWindow(l)
  \/ SetCycle \/ Restore

Next == Answer \/ Input \/ Application

Spec == Init /\ [][Next]_vars

-----------------------------------------------------------------------------
(* Properties                                                               *)

(* The focus events come in pairs: outside a change the focused control, and *)
(* no other one, was last told that it is.                                   *)
FocusEvents == pc = "idle" => told = {current} \ {NULL}

(* Changelog.md:1025: a control that does not resign keeps the focus,        *)
(* whatever its handler did before it refused; so does one when the next      *)
(* control does not accept.                                                  *)
FocusRemains ==
  [][(pc = "resign" \/ pc = "accept") /\ pc' = "idle"
       => current' = focus /\ transient' \in {NULL, transient, control}]_vars

(* The assertion at ostabstop.c:588: a press that the focus is not left for   *)
(* finds no other button that waits for the end of a press.                  *)
OneTransient ==
  [][transient # NULL => transient' \in {NULL, transient}]_vars

-----------------------------------------------------------------------------
(* The inductive invariant.                                                 *)

(* Who has the focus, and who was told so, at each call of the application.  *)
FocusInv ==
  /\ pc \in {"resign", "accept", "closing"} => current = focus
  /\ pc = "resign" => focus # NULL
  /\ pc = "closing" => focus # NULL
  /\ pc = "accept" => next # focus
  /\ pc \in {"leave", "arrive"} => current = next
  /\ pc \notin {"leave", "arrive"} => told = {current} \ {NULL}
  /\ pc = "leave" => told \subseteq {focus, next}
  /\ pc = "arrive" => told \subseteq {next}

(* There is a control to accept the focus, where it was chosen.              *)
NextInv == pc \in {"accept", "leave", "arrive"} => next # NULL

IInv == TypeOK /\ NextInv /\ (Steady => FocusInv)
=============================================================================
