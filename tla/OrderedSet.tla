------------------------------ MODULE OrderedSet ------------------------------
(* What core/rbtree.h promises, without saying how: a finite set of keys    *)
(* with one cursor.  A lookup, first, last, next and prev move the cursor;  *)
(* an insertion, a deletion and a failed lookup drop it.                    *)
EXTENDS Integers

CONSTANTS Keys, NULL

VARIABLES
  items,  (* the keys in the set                                            *)
  cursor, (* the key the cursor is at, NULL when it is nowhere              *)
  call,   (* the last call and its argument                                 *)
  result  (* what it returned, a key for an element or for TRUE             *)

vars == <<items, cursor, call, result>>

Init == items = {} /\ cursor = NULL /\ call = <<"create", NULL>> /\ result = NULL

Insert(k) ==
  /\ call' = <<"insert", k>>
  /\ result' = IF k \in items THEN NULL ELSE k
  /\ items' = items \cup {k}
  /\ cursor' = NULL

Delete(k) ==
  /\ call' = <<"delete", k>>
  /\ result' = IF k \in items THEN k ELSE NULL
  /\ items' = items \ {k}
  /\ cursor' = NULL

(* The cursor goes to the least, or to the greatest, of the keys K, if any. *)
MoveTo(K, best) ==
  /\ \/ K = {} /\ cursor' = NULL
     \/ \E k \in best : cursor' = k
  /\ result' = cursor'
  /\ UNCHANGED items

Least(K)    == MoveTo(K, {k \in K : \A j \in K : k <= j})
Greatest(K) == MoveTo(K, {k \in K : \A j \in K : j <= k})

Get(k)  == call' = <<"get", k>> /\ Least(items \cap {k})
GoFirst == call' = <<"first", NULL>> /\ Least(items)
GoLast  == call' = <<"last", NULL>> /\ Greatest(items)
GoNext  == call' = <<"next", NULL>> /\ cursor # NULL /\ Least({k \in items : k > cursor})
GoPrev  == call' = <<"prev", NULL>> /\ cursor # NULL /\ Greatest({k \in items : k < cursor})

Next ==
  \/ \E k \in Keys : Insert(k) \/ Delete(k) \/ Get(k)
  \/ GoFirst \/ GoLast \/ GoNext \/ GoPrev

Spec == Init /\ [][Next]_vars
=============================================================================
