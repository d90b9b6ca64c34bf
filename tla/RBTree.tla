-------------------------------- MODULE RBTree --------------------------------
(***************************************************************************)
(* The red-black tree of core/rbtree.c with its built-in iterator, an array *)
(* that holds the path from the root to the current node.                   *)
(*                                                                         *)
(* A node is named by the key it holds: keys are unique in the tree, and    *)
(* where i_delete_element copies the data of the inorder successor into the *)
(* node to be deleted, that node takes the successor's name.  The code      *)
(* writes every case twice, "right" and "left" exchanged; here the side is  *)
(* a parameter.                                                             *)
(***************************************************************************)
EXTENDS Integers, Sequences, FiniteSets, FiniteSetsExt, SequencesExt

CONSTANTS Keys, NULL

ASSUME RBTreeAssumption == Keys \subseteq Int /\ NULL \notin Keys

VARIABLES
  tree,    (* the nodes, see TreeType                                       *)
  elems,   (* tree->elems                                                   *)
  path,    (* it.path[0 .. it.path_size - 1]                                *)
  alloc,   (* it.path_alloc                                                 *)
  overrun, (* was it.path ever written or read behind its end?              *)
  call,    (* history: the last call and its argument                       *)
  result   (* what it returned: a key for an element or TRUE                *)

vars == <<tree, elems, path, alloc, overrun, call, result>>

Sides == {"L", "R"}
Other(d) == IF d = "L" THEN "R" ELSE "L"

TreeType ==
  [root : Keys \cup {NULL}, red : SUBSET Keys, kid : [Sides -> [Keys -> Keys \cup {NULL}]]]

Calls == {"insert", "delete", "get"} \X Keys
         \cup {"create", "first", "last", "next", "prev"} \X {NULL}

TypeOK ==
  /\ tree \in TreeType
  /\ elems \in Nat
  /\ path \in Seq(Keys)
  /\ alloc \in Nat
  /\ overrun \in BOOLEAN
  /\ call \in Calls
  /\ result \in Keys \cup {NULL}

IsRed(t, n) == n \in t.red
Paint(t, black, red) == [t EXCEPT !.red = (@ \ black) \cup red]

(* The side of parent p that node n, which may be NULL, is on. *)
SideOf(t, p, n) == IF t.kid["L"][p] = n THEN "L" ELSE "R"

(* Parent p, or the root when there is none, gets c in the place of n. *)
Replace(t, p, n, c) ==
  IF p = NULL THEN [t EXCEPT !.root = c] ELSE [t EXCEPT !.kid[SideOf(t, p, n)][p] = c]

-----------------------------------------------------------------------------
(* i_log2: how often v is shifted to the right until nothing is left. *)
Log2[v \in Nat] == IF v = 0 THEN 0 ELSE 1 + Log2[v \div 2]

(* Mutant: the path is as long as a perfectly balanced tree is high. *)
PathAllocShort(n) == Log2[n + 1]

(* i_update_iterator_size *)
PathAlloc(n) == 2 * (Log2[n + 1] + 1)

(* i_rotate_left (d = "L") and i_rotate_right of node n below parent p. *)
Rotate(t, n, p, d) ==
  LET up == t.kid[Other(d)][n]
  IN [Replace(t, p, n, up) EXCEPT !.kid[Other(d)][n] = t.kid[d][up], !.kid[d][up] = n]

(* The nodes from n on to where go leads from each. *)
Walk(go, n) ==
  LET from[m \in Keys] == IF go[m] = NULL THEN <<m>> ELSE <<m>> \o from[go[m]]
  IN from[n]

(* i_node_by_key: the path from n to key k, or to where it would be. *)
Descend(t, n, k) ==
  Walk([m \in Keys |-> IF m = k THEN NULL ELSE t.kid[IF k < m THEN "L" ELSE "R"][m]], n)

(* The path from n as far to side d as there are nodes. *)
Spine(t, n, d) == Walk(t.kid[d], n)

Above(p, i) == IF i > 0 THEN p[i] ELSE NULL

(* A round of the loop of i_restructure_after_insert at position s.at of path *)
(* p; once it has returned, at position 0, nothing more happens.             *)
InsertRound(p, s) ==
  LET t      == s.tree
      i      == s.at
      parent == p[i - 1]
      grand  == p[i - 2]
      d      == SideOf(t, grand, parent)
      uncle  == t.kid[Other(d)][grand]
      inner  == p[i] = t.kid[Other(d)][parent]
      upper  == IF inner THEN p[i] ELSE parent
      turned == IF inner THEN Rotate(t, parent, grand, d) ELSE t
  IN IF i = 0 THEN s
     ELSE IF i = 1 THEN [tree |-> Paint(t, {p[1]}, {}), at |-> 0]
     ELSE IF ~IsRed(t, parent) THEN [tree |-> t, at |-> 0]
     ELSE IF IsRed(t, uncle) THEN [tree |-> Paint(t, {parent, uncle}, {grand}), at |-> i - 2]
     ELSE [tree |-> Rotate(Paint(turned, {upper}, {grand}), grand, Above(p, i - 3), Other(d)),
           at   |-> 0]

(* i_restructure_after_insert of the end of path p. *)
AfterInsert(t, p) ==
  LET round[n \in 0 .. Len(p)] ==
        IF n = 0 THEN [tree |-> t, at |-> Len(p)] ELSE InsertRound(p, round[n - 1])
  IN round[Len(p)].tree

(* Case 1: a red brother is rotated up, and the path is one node longer. *)
RedBrother(s, d) ==
  LET parent  == s.path[s.at - 1]
      brother == s.tree.kid[Other(d)][parent]
  IN [tree |-> Rotate(Paint(s.tree, {brother}, {parent}), parent, Above(s.path, s.at - 2), d),
      path |-> SubSeq(s.path, 1, s.at - 2) \o <<brother, parent, s.path[s.at]>>
                 \o SubSeq(s.path, s.at + 2, Len(s.path)),
      at   |-> s.at + 1]

(* Cases 2, 3 and 4: the brother is black. *)
BlackBrother(s, d) ==
  LET t       == s.tree
      parent  == s.path[s.at - 1]
      brother == t.kid[Other(d)][parent]
      near    == t.kid[d][brother]
      far     == t.kid[Other(d)][brother]
      turned  == IF IsRed(t, far) THEN t
                 ELSE Rotate(Paint(t, {near}, {brother}), brother, parent, Other(d))
      upper   == turned.kid[Other(d)][parent]
      painted == Paint(turned, {parent, turned.kid[Other(d)][upper], upper},
                       IF IsRed(turned, parent) THEN {upper} ELSE {})
  IN IF ~IsRed(t, near) /\ ~IsRed(t, far)
     THEN [s EXCEPT !.tree = Paint(t, {}, {brother}), !.at = s.at - 1]
     ELSE [s EXCEPT !.tree = Rotate(painted, parent, Above(s.path, s.at - 2), d), !.at = 1]

(* A round of the loop of i_restructure_after_delete at position s.at of      *)
(* s.path, where a node, or nothing, is short of one black; behind the last   *)
(* one nothing happens.                                                      *)
DeleteRound(s) ==
  LET parent  == s.path[s.at - 1]
      d       == SideOf(s.tree, parent, s.path[s.at])
      brother == s.tree.kid[Other(d)][parent]
  IN IF s.at = 1 \/ IsRed(s.tree, s.path[s.at]) THEN s
     ELSE BlackBrother(IF IsRed(s.tree, brother) THEN RedBrother(s, d) ELSE s, d)

(* i_restructure_after_delete of the end of path p: the tree and the number  *)
(* of path slots it touched.                                                 *)
AfterDelete(t, p) ==
  LET round[n \in 0 .. Len(p)] ==
        IF n = 0 THEN [tree |-> t, path |-> p, at |-> Len(p)] ELSE DeleteRound(round[n - 1])
      end == round[Len(p)]
  IN [tree |-> Paint(end.tree, {end.path[end.at]}, {}), slots |-> Len(end.path)]

-----------------------------------------------------------------------------
Init ==
  /\ tree = [root |-> NULL, red |-> {}, kid |-> [d \in Sides |-> [k \in Keys |-> NULL]]]
  /\ elems = 0
  /\ path = <<>> /\ alloc = 8
  /\ overrun = FALSE
  /\ call = <<"create", NULL>> /\ result = NULL

(* i_insert_node into a tree that has a root and not the key. *)
InsertBelow(k, p) ==
  LET n    == Last(p)
      t    == [tree EXCEPT !.kid[IF k < n THEN "L" ELSE "R"][n] = k, !.red = @ \cup {k}]
  IN /\ alloc' = PathAlloc(1 + elems)
     /\ overrun' = (overrun \/ Len(p) > alloc \/ Len(p) + 1 > alloc')
     /\ tree' = AfterInsert(t, Append(p, k))

(* Mutant: the path outlives a change of the tree. *)
KeepPath == UNCHANGED path

(* An insertion and a deletion leave the iterator nowhere. *)
DropPath == path' = <<>>

(* rbtree_insert *)
Insert(k) ==
  /\ call' = <<"insert", k>>
  /\ DropPath
  /\ \/ /\ tree.root = NULL
        /\ tree' = [tree EXCEPT !.root = k]
        /\ elems' = 1 /\ result' = k
        /\ UNCHANGED <<alloc, overrun>>
     \/ /\ tree.root # NULL
        /\ LET p == Descend(tree, tree.root, k)
           IN IF Last(p) = k
              THEN /\ overrun' = (overrun \/ Len(p) > alloc)
                   /\ result' = NULL
                   /\ UNCHANGED <<tree, elems, alloc>>
              ELSE /\ InsertBelow(k, p)
                   /\ elems' = elems + 1 /\ result' = k

(* Mutant: the colour of the successor's place is lost with its name. *)
RenameBlack(t, m, s) ==
  LET To(n) == IF n = m THEN s ELSE n
  IN IF m = s THEN t
     ELSE [root |-> To(t.root),
           red  |-> t.red \ {m, s},
           kid  |-> [d \in Sides |-> [n \in Keys |-> IF n = s THEN To(t.kid[d][m])
                                                     ELSE IF n = m THEN NULL ELSE To(t.kid[d][n])]]]

(* The node m takes the data, and so the name, of the unlinked node s. *)
Rename(t, m, s) ==
  LET To(n) == IF n = m THEN s ELSE n
  IN IF m = s THEN t
     ELSE [root |-> To(t.root),
           red  |-> (t.red \ {m, s}) \cup (IF m \in t.red THEN {s} ELSE {}),
           kid  |-> [d \in Sides |-> [n \in Keys |-> IF n = s THEN To(t.kid[d][m])
                                                     ELSE IF n = m THEN NULL ELSE To(t.kid[d][n])]]]

(* The only child of a node to be unlinked, or NULL. *)
OnlyChild(t, n) == IF t.kid["L"][n] # NULL THEN t.kid["L"][n] ELSE t.kid["R"][n]

(* i_delete_element of key k found at the end of path p. *)
Unlink(k, p) ==
  LET both  == tree.kid["L"][k] # NULL /\ tree.kid["R"][k] # NULL
      q     == IF both THEN p \o Spine(tree, tree.kid["R"][k], "L") ELSE p
      s     == Last(q)
      child == OnlyChild(tree, s)
      cut   == Replace(tree, Above(q, Len(q) - 1), s, child)
      t     == Rename([cut EXCEPT !.kid["L"][s] = NULL, !.kid["R"][s] = NULL, !.red = @ \ {s}], k, s)
      route == [i \in 1..Len(q) |-> IF i = Len(q) THEN child ELSE IF q[i] = k THEN s ELSE q[i]]
      fixed == IF t.root = NULL \/ IsRed(tree, s) THEN [tree |-> t, slots |-> 0]
               ELSE AfterDelete(t, route)
  IN /\ tree' = fixed.tree
     /\ alloc' = PathAlloc(elems - 1)
     /\ overrun' = (overrun \/ Len(q) > alloc \/ fixed.slots > alloc')

(* rbtree_delete *)
Delete(k) ==
  /\ call' = <<"delete", k>>
  /\ DropPath
  /\ LET p == IF tree.root = NULL THEN <<NULL>> ELSE Descend(tree, tree.root, k)
     IN IF Last(p) = k
        THEN Unlink(k, p) /\ elems' = elems - 1 /\ result' = k
        ELSE result' = NULL /\ UNCHANGED <<tree, elems, alloc, overrun>>

-----------------------------------------------------------------------------
(* The iterator *)

(* The iterator is left on path p, and the element at its end returned. *)
Arrive(p) ==
  /\ path' = p
  /\ overrun' = (overrun \/ Len(p) > alloc)
  /\ result' = IF p = <<>> THEN NULL ELSE Last(p)
  /\ UNCHANGED <<tree, elems, alloc>>

(* Mutant: the result of i_node_by_key is not looked at. *)
GetNearest(k) ==
  /\ call' = <<"get", k>>
  /\ Arrive(IF tree.root = NULL THEN <<NULL>> ELSE Descend(tree, tree.root, k))

(* rbtree_get *)
Get(k) ==
  LET p == IF tree.root = NULL THEN <<NULL>> ELSE Descend(tree, tree.root, k)
  IN /\ call' = <<"get", k>>
     /\ Arrive(IF Last(p) = k THEN p ELSE <<>>)

(* i_first (d = "L") and i_last *)
Outermost(d) == Arrive(IF tree.root = NULL THEN <<>> ELSE Spine(tree, tree.root, d))
GoFirst == call' = <<"first", NULL>> /\ Outermost("L")
GoLast  == call' = <<"last", NULL>> /\ Outermost("R")

(* Mutant: the way up does not stop at the first parent passed. *)
StepTooFar(d) ==
  LET down == tree.kid[d][Last(path)]
      ups  == {i \in 1..(Len(path) - 1) : tree.kid[Other(d)][path[i]] = path[i + 1]}
  IN /\ path # <<>>
     /\ Arrive(IF down # NULL THEN path \o Spine(tree, down, Other(d))
               ELSE IF ups = {} THEN <<>> ELSE SubSeq(path, 1, Min(ups)))

(* i_inorder_next (d = "R") and i_inorder_prev: down into the subtree on    *)
(* side d, or up past every parent the path comes to from side d.           *)
Step(d) ==
  LET down == tree.kid[d][Last(path)]
      ups  == {i \in 1..(Len(path) - 1) : tree.kid[Other(d)][path[i]] = path[i + 1]}
  IN /\ path # <<>>
     /\ Arrive(IF down # NULL THEN path \o Spine(tree, down, Other(d))
               ELSE IF ups = {} THEN <<>> ELSE SubSeq(path, 1, Max(ups)))
GoNext == call' = <<"next", NULL>> /\ Step("R")
GoPrev == call' = <<"prev", NULL>> /\ Step("L")

Next ==
  \/ \E k \in Keys : Insert(k) \/ Delete(k) \/ Get(k)
  \/ GoFirst \/ GoLast \/ GoNext \/ GoPrev

Spec == Init /\ [][Next]_vars

-----------------------------------------------------------------------------
(* Properties                                                               *)

Nodes[n \in Keys \cup {NULL}] ==
  IF n = NULL THEN {} ELSE {n} \cup Nodes[tree.kid["L"][n]] \cup Nodes[tree.kid["R"][n]]

Elements == Nodes[tree.root]

(* The black nodes on every way down from n, -1 when two ways differ.       *)
BlackHeight[n \in Keys \cup {NULL}] ==
  IF n = NULL THEN 0
  ELSE LET l == BlackHeight[tree.kid["L"][n]]
           r == BlackHeight[tree.kid["R"][n]]
       IN IF l # r \/ l = -1 THEN -1 ELSE l + (IF n \in tree.red THEN 0 ELSE 1)

(* What rbtree_check asserts: the root is black, a red node has no red      *)
(* child, and every way down passes as many black nodes.  Besides, the keys *)
(* are in search order and elems counts them.                               *)
RedBlack ==
  /\ tree.root \notin tree.red
  /\ tree.red \subseteq Elements
  /\ \A n \in tree.red, d \in Sides : tree.kid[d][n] \notin tree.red
  /\ BlackHeight[tree.root] >= 0
  /\ \A n \in Elements : /\ \A m \in Nodes[tree.kid["L"][n]] : m < n
                         /\ \A m \in Nodes[tree.kid["R"][n]] : m > n
  /\ elems = Cardinality(Elements)

(* The iterator array, whose size follows the logarithm of the number of    *)
(* elements and not the height of the tree, is never too short: not for a   *)
(* lookup, nor for the slot a rotation adds while a deletion has already    *)
(* shrunk it.                                                               *)
PathFits == ~overrun

(* A call of rbtree_next or rbtree_prev after a lookup goes on from a path  *)
(* that is one of the present tree: no stale path survives a change.        *)
PathIsCurrent ==
  path # <<>> => tree.root # NULL /\ path = Descend(tree, tree.root, Last(path))

(* The tree is an ordered set with a cursor: what each call returns does    *)
(* not depend on the order of the insertions and deletions before it.       *)
Abstract == INSTANCE OrderedSet WITH
  items <- Elements, cursor <- IF path = <<>> THEN NULL ELSE Last(path)
ImplementsOrderedSet == Abstract!Spec
=============================================================================
