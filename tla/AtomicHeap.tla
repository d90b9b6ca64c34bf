------------------------------ MODULE AtomicHeap ------------------------------
(***************************************************************************)
(* What the callers of core/heap.c and of the osbs counters rely on when     *)
(* there is more than one thread: every call has its effect at one instant   *)
(* between its start and its return, whatever the other threads do.          *)
(***************************************************************************)
EXTENDS Naturals

CONSTANTS Threads, Blocks, NoCall

VARIABLES
  held,  (* the live blocks                                                 *)
  bytes, (* the size of them                                                *)
  count, (* the resources that were opened or closed                        *)
  call   (* the call each thread is in, with its block, until the effect    *)

avars == <<held, bytes, count, call>>

AInit == held = {} /\ bytes = 0 /\ count = 0 /\ call = [t \in Threads |-> NoCall]

(* A thread calls, and another may come to life on the same step.           *)
Invoke(t, c) ==
  /\ call[t] = NoCall
  /\ call' = [call EXCEPT ![t] = c]
  /\ UNCHANGED <<held, bytes, count>>

Takes(b)  == b \notin held /\ held' = held \cup {b} /\ bytes' = bytes + 1 /\ UNCHANGED count
Gives(b)  == b \in held /\ held' = held \ {b} /\ bytes' = bytes - 1 /\ UNCHANGED count
Moves(b)  == b \in held /\ UNCHANGED <<held, bytes, count>>
Counts    == count' = count + 1 /\ UNCHANGED <<held, bytes>>

Effect(t) ==
  /\ \/ \E b \in Blocks : call[t] = [op |-> "malloc", block |-> b] /\ Takes(b)
     \/ \E b \in Blocks : call[t] = [op |-> "free", block |-> b] /\ Gives(b)
     \/ \E b \in Blocks : call[t] = [op |-> "realloc", block |-> b] /\ Moves(b)
     \/ call[t] = [op |-> "incr"] /\ Counts
  /\ call' = [call EXCEPT ![t] = NoCall]

Calls == [op : {"malloc", "free", "realloc"}, block : Blocks] \cup [op : {"incr"}]

ANext == \E t \in Threads : Effect(t) \/ \E c \in Calls : Invoke(t, c)

ASpec == AInit /\ [][ANext]_avars
=============================================================================
