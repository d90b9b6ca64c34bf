------------------------------ MODULE MCTabStop -------------------------------
(* Instance of TabStop for TLC: an edit box, a view and two buttons, of which *)
(* the second is in the tab list of one layout only.                         *)
EXTENDS TabStop

CONSTANTS e, v, b, x

MCButtons == {b, x}
MCEntries == {e}
MCViews == {v}
MCLayouts == {[all |-> {e, v, b, x}, list |-> <<e, v, b>>],
              [all |-> {e, v, b, x}, list |-> <<x, e>>],
              [all |-> {e, b, x},    list |-> <<b>>],
              [all |-> {v, x},       list |-> <<>>]}

(* A window with two buttons outside its tab list. *)
MCTwoButtons == {[all |-> {e, b, x}, list |-> <<e>>]}
=============================================================================
