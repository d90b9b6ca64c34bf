------------------------------- MODULE MCRBTree -------------------------------
(* Instance of RBTree for TLC.  With eight keys every case of the two       *)
(* restructure functions happens on both sides, and their loops go up to    *)
(* the root.                                                                *)
EXTENDS RBTree

CONSTANT MaxKey

MCKeys == 1..MaxKey
=============================================================================
