---------------------------- MODULE TabStopProofs -----------------------------
(***************************************************************************)
(* The keyboard focus of a window, for any set of controls and any layouts.   *)
(* The types hold whatever the application does in the calls that are made   *)
(* to it; that focus events come in pairs and refusals are obeyed is proved   *)
(* for an application that is Steady.                                        *)
(***************************************************************************)
EXTENDS TabStop, TLAPS, WellFoundedInduction

(* Every set of positions that is not empty has a first one.                 *)
LEMMA FirstPosition ==
  ASSUME NEW P \in SUBSET Nat, P # {}
  PROVE  \E k \in P : \A j \in P : k <= j
<1> DEFINE Less == OpToRel(<, Nat)
<1>1. IsWellFoundedOn(Less, Nat)
  BY NatLessThanWellFounded
<1>2. \A x, y \in Nat : <<x, y>> \in Less <=> x < y
  BY DEF OpToRel
<1> HIDE DEF Less
<1>3. PICK k \in P : \A j \in P : ~(<<j, k>> \in Less)
  BY <1>1, WFMin
<1>4. \A j \in P : ~(j < k)
  BY <1>2, <1>3
<1> QED BY <1>3, <1>4

(* A position in the tab list, and none only for what is not in it.          *)
LEMMA IndexRange ==
  ASSUME tablist \in Seq(Controls), NEW c
  PROVE  /\ IndexOf(c) \in 0 .. Size
         /\ IndexOf(c) # 0 => tablist[IndexOf(c)] = c
         /\ (\E i \in 1 .. Size : tablist[i] = c) => IndexOf(c) # 0
<1>1. DOMAIN tablist = 1 .. Size /\ Size \in Nat
  BY DEF Size
<1>2. CASE \E i \in DOMAIN tablist : tablist[i] = c
  <2>1. IndexOf(c) = CHOOSE i \in DOMAIN tablist : tablist[i] = c
    BY <1>2, Zenon DEF IndexOf
  <2>2. IndexOf(c) \in DOMAIN tablist /\ tablist[IndexOf(c)] = c
    BY <1>2, <2>1, Zenon
  <2> QED BY <1>1, <2>2
<1>3. CASE ~ \E i \in DOMAIN tablist : tablist[i] = c
  BY <1>1, <1>3 DEF IndexOf
<1> QED BY <1>2, <1>3

(* The search goes round the tab list.                                       *)
LEMMA CandidatesInList ==
  ASSUME tablist \in Seq(Controls), NEW start \in 1 .. Size, NEW forward \in BOOLEAN,
         NEW k \in 1 .. Size
  PROVE  \E i \in 1 .. Size : Candidates(start, forward)[k] = tablist[i]
<1>1. Size \in Nat /\ Size > 0
  BY DEF Size
<1> DEFINE up == ((start - 1 + k) % Size) + 1
           down == ((start - 1 + Size - k) % Size) + 1
<1>2. up \in 1 .. Size /\ down \in 1 .. Size
  <2> DEFINE n == Size
  <2>1. n \in Nat /\ n > 0 /\ start \in 1 .. n /\ k \in 1 .. n
    BY <1>1
  <2> HIDE DEF n
  <2>2. (start - 1 + k) % n \in 0 .. n - 1 /\ (start - 1 + n - k) % n \in 0 .. n - 1
    BY <2>1
  <2>3. ((start - 1 + k) % n) + 1 \in 1 .. n /\ ((start - 1 + n - k) % n) + 1 \in 1 .. n
    BY <2>1, <2>2
  <2> QED BY <2>3 DEF n
<1>3. Candidates(start, forward)[k] = IF forward THEN tablist[up] ELSE tablist[down]
  BY Zenon DEF Candidates
<1> QED BY <1>2, <1>3, Zenon

(* Who is to get the focus: the control proposed, one of the tab list, none.  *)
LEMMA EffectiveRange ==
  ASSUME tablist \in Seq(Controls), NEW c, NEW forward \in BOOLEAN
  PROVE  \/ Effective(c, forward) \in {c, NULL}
         \/ \E i \in 1 .. Size : Effective(c, forward) = tablist[i]
<1> DEFINE start == IF IndexOf(c) = 0 THEN 1 ELSE IndexOf(c)
           from == Candidates(start, forward)
           First(k) == from[k] \in usable /\ \A j \in 1 .. k - 1 : from[j] \notin usable
<1>1. CASE c \in usable
  BY <1>1, Zenon DEF Effective
<1>2. CASE c \notin usable /\ ~ \E k \in DOMAIN from : from[k] \in usable
  BY <1>2, Zenon DEF Effective
<1>3. CASE c \notin usable /\ \E k \in DOMAIN from : from[k] \in usable
  <2>1. DOMAIN from = 1 .. Size /\ Size \in Nat
    <3>1. DOMAIN from = 1 .. Size
      BY Zenon DEF Candidates
    <3>2. Size \in Nat
      BY DEF Size
    <3> QED BY <3>1, <3>2, Zenon
  <2>2. start \in 1 .. Size
    <3>1. IndexOf(c) \in 0 .. Size
      BY IndexRange
    <3>2. Size # 0
      <4> HIDE DEF from
      <4> QED BY <1>3, <2>1
    <3> HIDE DEF from
    <3> QED BY <2>1, <3>1, <3>2
  <2>3. \E k \in DOMAIN from : First(k)
    <3> DEFINE P == {k \in DOMAIN from : from[k] \in usable}
    <3>1. P \in SUBSET Nat /\ P # {}
      <4> HIDE DEF from
      <4> QED BY <1>3, <2>1
    <3>2. PICK k \in P : \A j \in P : k <= j
      <4> HIDE DEF P
      <4> QED BY <3>1, FirstPosition
    <3> HIDE DEF from
    <3>3. \A j \in 1 .. k - 1 : j \in DOMAIN from /\ ~(k <= j)
      BY <2>1, <3>2
    <3>4. \A j \in 1 .. k - 1 : from[j] \notin usable
      BY <3>2, <3>3
    <3> QED BY <3>2, <3>4
  <2>4. Effective(c, forward) = from[CHOOSE k \in DOMAIN from : First(k)]
    BY <1>3, Zenon DEF Effective
  <2>5. PICK k \in 1 .. Size : Effective(c, forward) = from[k]
    BY <2>1, <2>3, <2>4, Zenon
  <2> HIDE DEF start
  <2>6. \E i \in 1 .. Size : from[k] = tablist[i]
    BY <2>2, CandidatesInList
  <2> QED BY <2>5, <2>6, Zenon
<1> QED BY <1>1, <1>2, <1>3, Zenon

(* The tab list holds controls of the window.                                *)
LEMMA ListFacts ==
  ASSUME TypeOK
  PROVE  /\ Size \in Nat /\ tablist \in Seq(Controls) /\ controls \subseteq Controls
         /\ \A i \in 1 .. Size : tablist[i] \in controls
<1>1. tablist \in Seq(controls) /\ controls \subseteq Controls
  BY DEF TypeOK
<1> QED BY <1>1 DEF Size

(* So it is a control.                                                       *)
LEMMA EffectiveIsControl ==
  ASSUME TypeOK, NEW c \in controls, NEW forward \in BOOLEAN
  PROVE  Effective(c, forward) \in Maybe
<1>1. tablist \in Seq(Controls) /\ c \in Controls /\ Size \in Nat
  BY DEF TypeOK, Size
<1>2. \A i \in 1 .. Size : tablist[i] \in Controls
  BY <1>1 DEF Size
<1>3. \/ Effective(c, forward) \in {c, NULL}
      \/ \E i \in 1 .. Size : Effective(c, forward) = tablist[i]
  BY <1>1, EffectiveRange
<1> QED BY <1>1, <1>2, <1>3, Zenon DEF Maybe

-----------------------------------------------------------------------------
(* Initially nothing is focused, and nobody told.                            *)
LEMMA InitIInv == Init => IInv
<1> SUFFICES ASSUME Init PROVE IInv
  OBVIOUS
<1>1. cycle \in BOOLEAN
  BY Zenon DEF Init
<1>2. PICK l \in Layouts : controls = l.all /\ tablist = l.list
  BY Zenon DEF Init
<1>3. controls \subseteq Controls /\ tablist \in Seq(controls)
  BY <1>2, TabStopAssumption DEF TabStopAssumption
<1>4. Size \in Nat
  BY <1>3 DEF Size
<1>5. TypeOK
  BY <1>1, <1>3, <1>4 DEF Init, TypeOK, Maybe
<1>6. NextInv /\ FocusInv
  BY DEF Init, NextInv, FocusInv
<1> QED BY <1>5, <1>6 DEF IInv

(* The focus is set: to a control.                                           *)
LEMMA SetFocusTypes ==
  ASSUME TypeOK, NEW c, SetFocus(c)
  PROVE  /\ can_focus' \subseteq Controls /\ transient' = NULL /\ current' = c
         /\ tabindex' \in 0 .. Size
<1>1. IndexOf(c) \in 0 .. Size
  BY ListFacts, IndexRange
<1>2. transient \in Controls \cup {NULL} /\ can_focus \subseteq Controls /\ tabindex \in 0 .. Size
  BY DEF TypeOK, Maybe
<1>3. can_focus' \subseteq Controls
  BY <1>2 DEF SetFocus, Released
<1> QED BY <1>1, <1>2, <1>3, Zenon DEF SetFocus

(* What the steps within a change have in common: the window stays.          *)
LEMMA WithinWindow ==
  ASSUME TypeOK, UNCHANGED <<list, usable>>
  PROVE  /\ controls' = controls /\ tablist' = tablist /\ cycle' = cycle /\ usable' = usable
         /\ Size' = Size /\ cycle' \in BOOLEAN
<1>1. controls' = controls /\ tablist' = tablist /\ cycle' = cycle /\ usable' = usable
  BY Zenon DEF list
<1>2. cycle' \in BOOLEAN
  BY <1>1, Zenon DEF TypeOK
<1> QED BY <1>1, <1>2, Zenon DEF Size

(* A change begins with a control of the window.                             *)
LEMMA BeginStep ==
  ASSUME IInv, NEW c \in controls, NEW m \in Motions, NEW forward \in BOOLEAN,
         Begin(c, m, forward), clicked' = clicked
  PROVE  IInv'
<1> DEFINE n == Effective(c, forward)
<1>1. n \in Controls \cup {NULL} /\ c \in Controls
  BY EffectiveIsControl, ListFacts DEF IInv, Maybe
<1>2. /\ UNCHANGED <<list, usable>> /\ told' = told /\ pc = "idle"
  BY Zenon DEF Begin
<1>3. /\ controls' = controls /\ tablist' = tablist /\ usable' = usable
      /\ Size' = Size /\ cycle' \in BOOLEAN
  BY <1>2, WithinWindow DEF IInv
<1>4. \/ /\ pc' = "idle" /\ motion' = "none" /\ next' = NULL /\ focus' = NULL /\ control' = NULL
         /\ pressed' \in {c, pressed}
         /\ can_focus' \subseteq can_focus /\ transient' \in {c, transient}
         /\ current' = current /\ tabindex' = tabindex
      \/ /\ pc' = (IF current = NULL THEN "accept" ELSE "resign") /\ ~(current = NULL /\ n = NULL)
         /\ motion' = m /\ next' = n /\ focus' = current /\ control' = c
         /\ can_focus' = can_focus /\ transient' = transient
         /\ current' = current /\ tabindex' = tabindex /\ pressed' = pressed
  <2>1. CASE NextTransient(n)
    BY <2>1 DEF Begin, Finish
  <2>2. CASE ~NextTransient(n) /\ current = NULL /\ n = NULL
    BY <2>2 DEF Begin, Finish, KeepFocus
  <2>3. CASE ~NextTransient(n) /\ ~(current = NULL /\ n = NULL)
    BY <2>3 DEF Begin, KeepFocus
  <2> QED BY <2>1, <2>2, <2>3, Zenon
<1> HIDE DEF n
<1>5. TypeOK'
  BY <1>1, <1>2, <1>3, <1>4 DEF IInv, TypeOK, Maybe, Motions, InCall
<1>6. NextInv'
  BY <1>4 DEF NextInv
<1>7. ASSUME Steady PROVE FocusInv'
  BY <1>2, <1>4, <1>7 DEF IInv, FocusInv
<1> QED BY <1>5, <1>6, <1>7 DEF IInv

(* The keys begin one with a control of the tab list.                        *)
LEMMA KeyStep ==
  ASSUME IInv, NEW from_key \in BOOLEAN, Next_(from_key) \/ Prev_(from_key)
  PROVE  \E i \in 1 .. Size : \E m \in Motions \ {"click", "move"}, forward \in BOOLEAN :
            Begin(tablist[i], m, forward)
<1>1. Size \in Nat /\ tabindex \in 0 .. Size
  BY ListFacts DEF IInv, TypeOK
<1> DEFINE i == IndexOf(current)
<1>2. i \in 0 .. Size
  BY ListFacts, IndexRange DEF IInv
<1>3. CASE Next_(from_key)
  <2> DEFINE target == IF current # NULL /\ i # 0
                       THEN IF i # Size THEN i + 1 ELSE IF cycle THEN 1 ELSE i
                       ELSE IF tabindex # 0 THEN tabindex ELSE IF Size > 0 THEN 1 ELSE 0
           m == IF from_key THEN "key" ELSE "next"
  <2>1. target # 0 /\ Begin(tablist[target], m, TRUE)
    BY <1>3, Zenon DEF Next_
  <2>2. target \in 0 .. Size
    <3> HIDE DEF i
    <3>1. CASE cycle BY <1>1, <1>2, <3>1
    <3>2. CASE ~cycle BY <1>1, <1>2, <3>2
    <3> QED BY <3>1, <3>2
  <2>3. m \in Motions \ {"click", "move"}
    BY DEF Motions
  <2> HIDE DEF target, m
  <2>4. target \in 1 .. Size
    BY <1>1, <2>1, <2>2
  <2> QED BY <2>1, <2>3, <2>4, Zenon
<1>4. CASE Prev_(from_key)
  <2> DEFINE target == IF current # NULL /\ i # 0
                       THEN IF i # 1 THEN i - 1 ELSE IF cycle THEN Size ELSE i
                       ELSE IF tabindex # 0 THEN tabindex ELSE Size
           m == IF from_key THEN "backkey" ELSE "prev"
  <2>1. target # 0 /\ Begin(tablist[target], m, FALSE)
    BY <1>4, Zenon DEF Prev_
  <2>2. target \in 0 .. Size
    <3> HIDE DEF i
    <3>1. CASE cycle BY <1>1, <1>2, <3>1
    <3>2. CASE ~cycle BY <1>1, <1>2, <3>2
    <3> QED BY <3>1, <3>2
  <2>3. m \in Motions \ {"click", "move"}
    BY DEF Motions
  <2> HIDE DEF target, m
  <2>4. target \in 1 .. Size
    BY <1>1, <2>1, <2>2
  <2> QED BY <2>1, <2>3, <2>4, Zenon
<1> QED BY <1>3, <1>4

(* A change that ends without moving the focus, or goes on to the next one.   *)
LEMMA EndStep ==
  ASSUME IInv, Refuse \/ Resign \/ Reject
  PROVE  IInv'
<1>1. /\ UNCHANGED <<list, usable>> /\ told' = told /\ clicked' = clicked
      /\ can_focus' = can_focus /\ current' = current /\ tabindex' = tabindex
      /\ transient' \in {control, transient} /\ pc \in {"resign", "accept"}
  <2>1. CASE Refuse BY <2>1 DEF Refuse
  <2>2. CASE Resign BY <2>2 DEF Resign, KeepFocus
  <2>3. CASE Reject BY <2>3 DEF Reject, KeepFocus
  <2> QED BY <2>1, <2>2, <2>3, Zenon
<1>2. \/ Finish(motion, control)
      \/ /\ pc' = "accept" /\ pc = "resign" /\ next # NULL /\ next # focus
         /\ UNCHANGED <<motion, next, focus, control, pressed>>
  <2>1. CASE Refuse BY <2>1 DEF Refuse
  <2>2. CASE Resign BY <2>2 DEF Resign
  <2>3. CASE Reject BY <2>3 DEF Reject
  <2> QED BY <2>1, <2>2, <2>3, Zenon
<1>3. \/ /\ pc' = "idle" /\ motion' = "none" /\ next' = NULL /\ focus' = NULL /\ control' = NULL
         /\ pressed' \in {control, pressed}
      \/ /\ pc' = "accept" /\ pc = "resign" /\ next # NULL /\ next # focus
         /\ UNCHANGED <<motion, next, focus, control, pressed>>
  BY <1>2 DEF Finish
<1>4. /\ controls' = controls /\ tablist' = tablist /\ usable' = usable
      /\ Size' = Size /\ cycle' \in BOOLEAN
  BY <1>1, WithinWindow DEF IInv
<1>5. TypeOK'
  BY <1>1, <1>3, <1>4 DEF IInv, TypeOK, Maybe, InCall
<1>6. NextInv'
  BY <1>3 DEF NextInv
<1>7. ASSUME Steady PROVE FocusInv'
  BY <1>1, <1>3, <1>7 DEF IInv, FocusInv
<1> QED BY <1>5, <1>6, <1>7 DEF IInv

(* The focus moves.                                                          *)
LEMMA AcceptStep == ASSUME IInv, Accept PROVE IInv'
<1>1. /\ controls' = controls /\ tablist' = tablist /\ usable' = usable
      /\ Size' = Size /\ cycle' \in BOOLEAN
  BY WithinWindow, Zenon DEF Accept, IInv
<1>2. pc = "accept" /\ next # NULL
  BY DEF Accept, IInv, NextInv
<1>3. /\ can_focus' \subseteq Controls /\ transient' = NULL /\ current' = next
      /\ tabindex' \in 0 .. Size
  BY SetFocusTypes, Zenon DEF Accept, IInv
<1>4. /\ pc' = IF focus = NULL THEN "arrive" ELSE "leave"
      /\ UNCHANGED <<motion, next, focus, control, pressed, clicked, told>>
  BY Zenon DEF Accept, mouse
<1>5. TypeOK'
  BY <1>1, <1>3, <1>4 DEF IInv, TypeOK, Maybe, InCall
<1>6. NextInv'
  BY <1>2, <1>4 DEF NextInv
<1>7. ASSUME Steady PROVE FocusInv'
  BY <1>2, <1>3, <1>4, <1>7 DEF IInv, FocusInv
<1> QED BY <1>5, <1>6, <1>7 DEF IInv

(* Both are told.                                                            *)
LEMMA ToldStep ==
  ASSUME IInv, Leave \/ Arrive
  PROVE  IInv'
<1>1. /\ UNCHANGED <<list, usable>>
      /\ UNCHANGED <<can_focus, transient, current, tabindex, clicked>>
  BY DEF Leave, Arrive, KeepFocus, mouse
<1>2. /\ controls' = controls /\ tablist' = tablist /\ usable' = usable
      /\ Size' = Size /\ cycle' \in BOOLEAN
  BY <1>1, WithinWindow DEF IInv
<1>3. \/ /\ pc = "leave" /\ pc' = "arrive" /\ told' = told \ {focus}
         /\ UNCHANGED <<motion, next, focus, control, pressed>>
      \/ /\ pc = "arrive" /\ pc' = "idle" /\ told' = told \cup {next}
         /\ motion' = "none" /\ next' = NULL /\ focus' = NULL /\ control' = NULL
         /\ pressed' \in {control, pressed}
  BY DEF Leave, Arrive, Finish, mouse
<1>4. TypeOK'
  BY <1>1, <1>2, <1>3 DEF IInv, TypeOK, Maybe, InCall, NextInv
<1>5. NextInv'
  BY <1>3 DEF IInv, NextInv
<1>6. ASSUME Steady PROVE FocusInv'
  BY <1>1, <1>3, <1>6 DEF IInv, FocusInv, NextInv
<1> QED BY <1>4, <1>5, <1>6 DEF IInv

(* The question to close the window is one to the focused control.           *)
LEMMA CloseStep ==
  ASSUME IInv, AskClose \/ AnswerClose
  PROVE  IInv'
<1>1. /\ UNCHANGED <<list, usable>>
      /\ UNCHANGED <<can_focus, transient, current, tabindex, motion, next, control, pressed,
                     clicked, told>>
  BY DEF AskClose, AnswerClose, KeepFocus, mouse
<1>2. /\ controls' = controls /\ tablist' = tablist /\ usable' = usable
      /\ Size' = Size /\ cycle' \in BOOLEAN
  BY <1>1, WithinWindow DEF IInv
<1>3. \/ pc = "idle" /\ pc' = "closing" /\ current # NULL /\ focus' = current
      \/ pc = "closing" /\ pc' = "idle" /\ focus' = NULL
  BY DEF AskClose, AnswerClose
<1>4. TypeOK'
  BY <1>1, <1>2, <1>3 DEF IInv, TypeOK, Maybe, InCall
<1>5. NextInv'
  BY <1>3 DEF NextInv
<1>6. ASSUME Steady PROVE FocusInv'
  BY <1>1, <1>3, <1>6 DEF IInv, FocusInv
<1> QED BY <1>4, <1>5, <1>6 DEF IInv

(* The mouse, where it does not begin a change.                              *)
LEMMA MouseStep ==
  ASSUME IInv,
         \/ \E c \in Controls : MouseDown(c) /\ current = c
         \/ Click \/ ClickReturns \/ ReleaseElsewhere
  PROVE  IInv'
<1>1. /\ UNCHANGED <<list, usable>>
      /\ UNCHANGED <<current, tabindex, pc, motion, next, focus, control, told>>
      /\ pressed' \in Controls \cup {NULL} /\ clicked' \in {clicked, pressed, NULL}
      /\ can_focus' \subseteq can_focus \cup ({transient} \ {NULL}) /\ transient' \in {transient, NULL}
  <2>1. CASE \E c \in Controls : MouseDown(c) /\ current = c
    BY <2>1 DEF MouseDown, KeepFocus, change
  <2>2. CASE Click
    BY <2>2 DEF Click, KeepFocus, change
  <2>3. CASE ClickReturns
    BY <2>3 DEF ClickReturns, change, Released, IInv, TypeOK, Maybe
  <2>4. CASE ReleaseElsewhere
    BY <2>4 DEF ReleaseElsewhere, KeepFocus, change
  <2> QED BY <2>1, <2>2, <2>3, <2>4, Zenon
<1>2. /\ controls' = controls /\ tablist' = tablist /\ usable' = usable
      /\ Size' = Size /\ cycle' \in BOOLEAN
  BY <1>1, WithinWindow DEF IInv
<1>3. TypeOK'
  BY <1>1, <1>2 DEF IInv, TypeOK, Maybe, InCall
<1>4. NextInv'
  BY <1>1 DEF IInv, NextInv
<1>5. ASSUME Steady PROVE FocusInv'
  BY <1>1, <1>5 DEF IInv, FocusInv
<1> QED BY <1>3, <1>4, <1>5 DEF IInv

(* What the application does to a control or to the order of the tab list.    *)
LEMMA SettingStep ==
  ASSUME IInv, (\E c \in Controls : SetUsable(c)) \/ SetCycle
  PROVE  IInv'
<1>1. /\ controls' = controls /\ tablist' = tablist /\ cycle' \in BOOLEAN
      /\ usable' \subseteq Controls
      /\ UNCHANGED <<can_focus, transient, current, tabindex, pc, motion, next, focus, control,
                     pressed, clicked, told>>
  <2>1. CASE \E c \in Controls : SetUsable(c)
    <3>1. cycle' \in BOOLEAN
      BY <2>1, Zenon DEF SetUsable, list, IInv, TypeOK
    <3> QED BY <2>1, <3>1 DEF SetUsable, KeepFocus, list, change, mouse, IInv, TypeOK
  <2>2. CASE SetCycle
    <3>1. cycle' \in BOOLEAN
      BY <2>2, Zenon DEF SetCycle
    <3> QED BY <2>2, <3>1 DEF SetCycle, KeepFocus, change, mouse, IInv, TypeOK
  <2> QED BY <2>1, <2>2, Zenon
<1>2. Size' = Size
  BY <1>1, Zenon DEF Size
<1>3. TypeOK'
  BY <1>1, <1>2 DEF IInv, TypeOK, Maybe, InCall
<1>4. NextInv'
  BY <1>1 DEF IInv, NextInv
<1>5. ASSUME Steady PROVE FocusInv'
  BY <1>1, <1>5 DEF IInv, FocusInv
<1> QED BY <1>3, <1>4, <1>5 DEF IInv

(* The window is updated: its new list has only controls of its own.         *)
LEMMA UpdateStep ==
  ASSUME IInv, NEW l \in Layouts, UpdateWindow(l)
  PROVE  IInv'
<1>1. /\ l.all \subseteq Controls /\ l.list \in Seq(l.all)
  BY TabStopAssumption DEF TabStopAssumption
<1>2. /\ Steady => {focus, next, control} \ {NULL} \subseteq l.all
      /\ controls' = l.all /\ tablist' = l.list /\ tabindex' = 0 /\ transient' = NULL
      /\ current' = IF current \in l.all THEN current ELSE NULL
      /\ told' = told \cap l.all /\ can_focus' = can_focus \cup (Controls \ l.all)
      /\ pressed' \in {pressed, NULL}
      /\ UNCHANGED <<motion, next, focus, control, pc, usable, clicked>>
  BY DEF UpdateWindow, ResetIndex, StillPresent, change
<1>3. cycle' \in BOOLEAN
  BY Zenon DEF UpdateWindow, IInv, TypeOK
<1>4. tablist' \in Seq(controls') /\ Size' \in Nat
  BY <1>1, <1>2 DEF Size
<1>5. TypeOK'
  BY <1>1, <1>2, <1>3, <1>4 DEF IInv, TypeOK, Maybe, InCall
<1>6. NextInv'
  BY <1>2 DEF IInv, NextInv
<1>7. ASSUME Steady PROVE FocusInv'
  <2>1. FocusInv /\ {focus, next} \ {NULL} \subseteq l.all /\ NULL \notin l.all
    BY <1>1, <1>2, <1>7, TabStopAssumption DEF IInv, TabStopAssumption
  <2> QED BY <1>2, <2>1 DEF IInv, FocusInv, NextInv
<1> QED BY <1>5, <1>6, <1>7 DEF IInv

(* The focus is restored to where it was, or to the first of the list.        *)
LEMMA RestoreStep == ASSUME IInv, Restore PROVE IInv'
<1>1. PICK c \in Controls :
        /\ c = (IF current # NULL THEN current ELSE tablist[1])
        /\ SetFocus(c) /\ told' = told \cup {c} /\ c # NULL
  <2>1. Size \in Nat /\ \A i \in 1 .. Size : tablist[i] \in Controls
    BY ListFacts DEF IInv
  <2>2. current # NULL => current \in Controls
    BY DEF IInv, TypeOK, Maybe
  <2>3. Size > 0 => tablist[1] \in Controls
    BY <2>1
  <2>4. CASE current # NULL
    BY <2>2, <2>4, Zenon DEF Restore
  <2>5. CASE current = NULL
    BY <2>3, <2>5, Zenon DEF Restore
  <2> QED BY <2>4, <2>5
<1>2. /\ UNCHANGED <<list, usable>> /\ (Steady => (pc = "accept" => focus # NULL))
      /\ UNCHANGED <<motion, next, focus, control, pc, pressed, clicked>>
  BY DEF Restore, change, mouse
<1>3. /\ controls' = controls /\ tablist' = tablist /\ usable' = usable
      /\ Size' = Size /\ cycle' \in BOOLEAN
  BY <1>2, WithinWindow DEF IInv
<1>4. /\ can_focus' \subseteq Controls /\ transient' = NULL /\ current' = c
      /\ tabindex' \in 0 .. Size
  BY <1>1, SetFocusTypes DEF IInv
<1>5. TypeOK'
  BY <1>1, <1>2, <1>3, <1>4 DEF IInv, TypeOK, Maybe, InCall
<1>6. NextInv'
  BY <1>2 DEF IInv, NextInv
<1>7. ASSUME Steady PROVE FocusInv'
  BY <1>1, <1>2, <1>4, <1>7 DEF IInv, FocusInv, NextInv
<1> QED BY <1>5, <1>6, <1>7 DEF IInv

(* Nothing happens. *)
LEMMA Stutter == ASSUME IInv, UNCHANGED vars PROVE IInv'
<1>1. /\ UNCHANGED <<list, usable>>
      /\ UNCHANGED <<can_focus, transient, current, tabindex, pc, motion, next, focus, control,
                     pressed, clicked, told>>
  BY Zenon DEF vars, change, mouse
<1>2. /\ controls' = controls /\ tablist' = tablist /\ usable' = usable
      /\ Size' = Size /\ cycle' \in BOOLEAN
  BY <1>1, WithinWindow DEF IInv
<1>3. TypeOK'
  BY <1>1, <1>2 DEF IInv, TypeOK, Maybe, InCall
<1>4. NextInv'
  BY <1>1 DEF IInv, NextInv
<1>5. ASSUME Steady PROVE FocusInv'
  BY <1>1, <1>5 DEF IInv, FocusInv
<1> QED BY <1>3, <1>4, <1>5 DEF IInv

(* The ways in which an input may begin a change.                            *)
LEMMA InputBegins ==
  ASSUME IInv, Input
  PROVE  \/ \E c \in controls, m \in Motions, forward \in BOOLEAN :
              Begin(c, m, forward) /\ clicked' = clicked
         \/ (\E c \in Controls : MouseDown(c) /\ current = c)
         \/ Click \/ ClickReturns \/ ReleaseElsewhere \/ AskClose
<1>1. ASSUME NEW c, NEW m, NEW forward, Begin(c, m, forward) PROVE clicked' = clicked
  BY <1>1, Zenon DEF Begin
<1>2. CASE \E from_key \in BOOLEAN : Next_(from_key) \/ Prev_(from_key)
  <2>1. PICK i \in 1 .. Size, m \in Motions \ {"click", "move"}, forward \in BOOLEAN :
          Begin(tablist[i], m, forward)
    BY <1>2, KeyStep
  <2>2. tablist[i] \in controls
    BY ListFacts DEF IInv
  <2> QED BY <1>1, <2>1, <2>2
<1>3. CASE \E c \in Controls : Move(c)
  <2>1. PICK c \in Controls : Move(c)
    BY <1>3
  <2>2. c \in controls /\ Begin(c, "move", TRUE)
    BY <2>1, Zenon DEF Move
  <2> QED BY <1>1, <2>2 DEF Motions
<1>4. CASE \E c \in Controls : MouseDown(c)
  <2>1. PICK c \in Controls : MouseDown(c)
    BY <1>4
  <2>2. CASE current # c
    <3>1. c \in controls /\ Begin(c, "click", TRUE)
      BY <2>1, <2>2, Zenon DEF MouseDown
    <3> QED BY <1>1, <3>1 DEF Motions
  <2> QED BY <2>1, <2>2
<1> QED BY <1>2, <1>3, <1>4 DEF Input

LEMMA NextIInv == ASSUME IInv, [Next]_vars PROVE IInv'
<1>1. CASE Answer
  BY <1>1, EndStep, AcceptStep, ToldStep, CloseStep DEF Answer
<1>2. CASE Input
  BY <1>2, InputBegins, BeginStep, MouseStep, CloseStep
<1>3. CASE Application
  BY <1>3, SettingStep, UpdateStep, RestoreStep DEF Application
<1>4. CASE UNCHANGED vars
  BY <1>4, Stutter
<1> QED BY <1>1, <1>2, <1>3, <1>4 DEF Next

-----------------------------------------------------------------------------
(* The inductive invariant: the types; that there is a next control where one *)
(* was chosen; and, of a Steady application, who has the focus and who was    *)
(* told so at each call of it within a change.                               *)
THEOREM Invariance == Spec => []IInv
<1>1. Init => IInv
  BY InitIInv
<1>2. IInv /\ [Next]_vars => IInv'
  BY NextIInv
<1> QED BY <1>1, <1>2, PTL DEF Spec

(* The remembered position is one of the tab list, also when the window is    *)
(* updated within a change and loses its controls.                           *)
THEOREM TypeCorrect == Spec => []TypeOK
<1>1. IInv => TypeOK
  BY DEF IInv
<1> QED BY <1>1, Invariance, PTL

(* Focus events of a Steady application come in pairs.                       *)
THEOREM EventsPaired == ASSUME Steady PROVE Spec => []FocusEvents
<1>1. IInv => FocusEvents
  BY DEF IInv, FocusInv, FocusEvents
<1> QED BY <1>1, Invariance, PTL

(* A control that does not resign keeps the focus (Changelog.md:1025), if the *)
(* application is Steady.                                                    *)
LEMMA FocusRemainsStep ==
  ASSUME Steady, IInv, [Next]_vars, pc = "resign" \/ pc = "accept", pc' = "idle"
  PROVE  current' = focus /\ transient' \in {NULL, transient, control}
<1>1. current = focus
  BY DEF IInv, FocusInv
<1>2. CASE Answer
  BY <1>1, <1>2 DEF Answer, Refuse, Resign, Reject, Accept, Leave, Arrive, AnswerClose, KeepFocus
<1>3. CASE Input
  BY <1>3 DEF Input, Next_, Prev_, Move, MouseDown, Begin, Click, ClickReturns, ReleaseElsewhere, AskClose
<1>4. CASE Application
  BY <1>4 DEF Application, SetUsable, UpdateWindow, SetCycle, Restore, change
<1>5. CASE UNCHANGED vars
  BY <1>5 DEF vars, change
<1> QED BY <1>2, <1>3, <1>4, <1>5 DEF Next

THEOREM FocusKept == ASSUME Steady PROVE Spec => FocusRemains
<1>1. IInv /\ [Next]_vars
        => [(pc = "resign" \/ pc = "accept") /\ pc' = "idle"
              => current' = focus /\ transient' \in {NULL, transient, control}]_vars
  BY FocusRemainsStep, Zenon
<1> QED BY <1>1, Invariance, PTL DEF Spec, FocusRemains
=============================================================================
