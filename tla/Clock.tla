-------------------------------- MODULE Clock ---------------------------------
(***************************************************************************)
(* The frame clock of core/clock.c, which paces the updates of an           *)
(* application (osapp.c).  clock_frame is polled and says whether a frame   *)
(* is due; it measures with the wall clock, which somebody may set.         *)
(*                                                                         *)
(* Time is counted in whole units (the code has doubles, whose rounding is  *)
(* left out).                                                               *)
(***************************************************************************)
EXTENDS Integers

CONSTANTS
  Rates,    (* the frame intervals a clock may be created with              *)
  Walls,    (* the readings that the wall clock may be set to               *)
  MaxReal,  (* bound: time that passes                                      *)
  MaxSets   (* bound: times that the wall clock or the frame clock is set   *)

ASSUME ClockAssumption ==
  Rates \subseteq Nat /\ Walls \subseteq Int /\ MaxReal \in Nat /\ MaxSets \in Nat

VARIABLES
  wall,                    (* the reading of the wall clock                 *)
  start_second,
  frame_rate,
  handling_time_stamp,
  last_event_time_stamp,
  last_update_time_stamp,
  is_running,
  must_update,             (* what the last clock_frame returned            *)
  (* What the properties compare the clock with:                            *)
  real,      (* the time that has passed                                    *)
  sets,      (* how often a clock was set                                   *)
  allowance, (* one frame for each time a clock was set forward             *)
  since,     (* the time of the last frame, or of the first call after a    *)
             (* clock was set, or of the very first call                    *)
  first,     (* the time of the very first call                             *)
  steady,    (* no clock was set since the very first call, and no call was *)
             (* more than frame_rate after the one before                   *)
  was_set    (* a clock was set since the last call                         *)

clock == <<handling_time_stamp, last_event_time_stamp, last_update_time_stamp,
           is_running, must_update>>
history == <<allowance, since, first, steady, was_set>>
vars == <<wall, start_second, frame_rate, clock, real, sets, history>>

TypeOK ==
  /\ wall \in Int /\ start_second \in Int /\ frame_rate \in Nat
  /\ handling_time_stamp \in Int
  /\ last_event_time_stamp \in Int /\ last_update_time_stamp \in Int
  /\ is_running \in BOOLEAN /\ must_update \in BOOLEAN
  /\ real \in Nat /\ sets \in Nat /\ allowance \in Nat
  /\ since \in Nat /\ first \in Nat
  /\ steady \in BOOLEAN /\ was_set \in BOOLEAN

(* clock_elapsed: it may be negative. *)
Elapsed == wall - start_second

(* clock_create. *)
Init ==
  /\ wall = 0 /\ start_second = wall
  /\ frame_rate \in Rates
  /\ handling_time_stamp = 0
  /\ last_event_time_stamp = 0 /\ last_update_time_stamp = 0
  /\ is_running = FALSE /\ must_update = FALSE
  /\ real = 0 /\ sets = 0 /\ allowance = 0 /\ since = 0 /\ first = 0
  /\ steady = TRUE /\ was_set = FALSE

-----------------------------------------------------------------------------
(* clock_frame                                                              *)

(* The first call starts the clock. *)
StartClock ==
  /\ ~is_running /\ is_running' = TRUE
  /\ last_event_time_stamp' = Elapsed
  /\ must_update' = FALSE
  /\ UNCHANGED handling_time_stamp

(* Mutant: only the time of the update is brought back. *)
RewoundHalf == last_event_time_stamp

(* The time of the last event, for a clock that was not set back since.     *)
Rewound == IF Elapsed < last_update_time_stamp THEN Elapsed ELSE last_event_time_stamp

(* The time since the last update, for a clock that was not set back since. *)
Pause == IF Elapsed < last_update_time_stamp THEN 0 ELSE Elapsed - last_update_time_stamp

Early ==
  /\ is_running /\ Elapsed - Rewound < frame_rate
  /\ last_event_time_stamp' = Rewound
  /\ must_update' = FALSE
  /\ UNCHANGED <<handling_time_stamp, is_running>>

(* Mutant: after a pause the missed frames are made up for. *)
NextEventAll == Rewound + frame_rate

(* Mutant: frames are timed from the call that launched the last one. *)
NextEventLate == Elapsed

(* The event that a frame answers: missed frames are dropped after a pause. *)
NextEvent == IF Pause > frame_rate THEN Elapsed ELSE Rewound + frame_rate

LaunchFrame ==
  /\ is_running /\ Elapsed - Rewound >= frame_rate
  /\ last_event_time_stamp' = NextEvent
  /\ handling_time_stamp' = handling_time_stamp + frame_rate
  /\ must_update' = TRUE
  /\ UNCHANGED is_running

Witness ==
  /\ since' = IF must_update' \/ was_set \/ ~is_running THEN real ELSE since
  /\ first' = IF is_running THEN first ELSE real
  /\ steady' = (is_running => steady /\ ~was_set /\ Pause <= frame_rate)
  /\ was_set' = FALSE
  /\ UNCHANGED allowance

clock_frame ==
  /\ StartClock \/ Early \/ LaunchFrame
  /\ last_update_time_stamp' = Elapsed
  /\ Witness
  /\ UNCHANGED <<wall, start_second, frame_rate, real, sets>>

-----------------------------------------------------------------------------
Tick ==
  /\ real < MaxReal
  /\ real' = real + 1 /\ wall' = wall + 1
  /\ UNCHANGED <<start_second, frame_rate, clock, sets, history>>

(* Elapsed is changed by other than the passing of time. *)
Jump ==
  /\ sets < MaxSets /\ sets' = sets + 1
  /\ allowance' = IF Elapsed' > Elapsed THEN allowance + frame_rate ELSE allowance
  /\ was_set' = TRUE
  /\ UNCHANGED <<frame_rate, clock, real, since, first, steady>>

SetWall(w) == wall' = w /\ UNCHANGED start_second /\ Jump

clock_reset == start_second' = wall /\ UNCHANGED wall /\ Jump

Next == clock_frame \/ Tick \/ clock_reset \/ \E w \in Walls : SetWall(w)

Spec == Init /\ [][Next]_vars

-----------------------------------------------------------------------------
(* Properties                                                               *)

(* The assertion at clock.c:104, whatever was done to the wall clock; and no *)
(* more than a part of a frame is ever left over for the calls to come.      *)
NoBacklog ==
  /\ last_event_time_stamp <= last_update_time_stamp
  /\ \/ last_update_time_stamp - last_event_time_stamp < frame_rate
     \/ last_update_time_stamp = last_event_time_stamp

(* The program's time does not run ahead of the real one, except by a frame  *)
(* for each time that a clock was set forward: however far it was set, and   *)
(* however often it was set back, frames come in no burst.                   *)
NoBurst == handling_time_stamp <= real + allowance

(* Nor do frames stop to come: a call that finds frame_rate passed since the *)
(* last frame launches one, and so does one that finds it passed since the   *)
(* first call that followed a change of the wall clock, however far back.    *)
NoStall ==
  [][clock_frame /\ is_running /\ ~was_set /\ real - since >= frame_rate
       => must_update']_vars

(* Called often enough the clock loses nothing: the frames launched cover    *)
(* the time since the first call but for the part of a frame.                *)
NoDrift ==
  is_running /\ steady /\ ~was_set /\ Elapsed = last_update_time_stamp
    => \/ real - first - handling_time_stamp \in 0 .. frame_rate - 1
       \/ real - first = handling_time_stamp

-----------------------------------------------------------------------------
(* The inductive invariant.                                                 *)

(* Of the time since the last update, what the next call may use. *)
Useful == IF Pause > frame_rate THEN frame_rate ELSE Pause

(* What the calls to come could turn into frames. *)
Potential ==
  IF is_running THEN last_update_time_stamp - last_event_time_stamp + Useful ELSE 0

BurstInv == handling_time_stamp + Potential <= real + allowance

(* The assertion at clock.c:91: a clock that does not run has launched no frame. *)
Unstarted == ~is_running => handling_time_stamp = 0 /\ steady

StallInv ==
  is_running /\ ~was_set
    => Elapsed >= last_update_time_stamp /\ real - since <= Elapsed - last_event_time_stamp

DriftInv ==
  is_running /\ ~was_set /\ steady
    => last_event_time_stamp = Elapsed - real + first + handling_time_stamp

IInv == TypeOK /\ NoBacklog /\ Unstarted /\ BurstInv /\ StallInv /\ DriftInv
=============================================================================
