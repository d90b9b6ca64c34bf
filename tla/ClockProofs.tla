----------------------------- MODULE ClockProofs -----------------------------
(***************************************************************************)
(* The frame clock keeps its promises for every interval, and whatever the   *)
(* wall clock is set to, however often.                                     *)
(***************************************************************************)
EXTENDS Clock, TLAPS

LEMMA InitIInv == Init => IInv
<1> SUFFICES ASSUME Init PROVE IInv
  OBVIOUS
<1>1. ~is_running /\ steady
  BY Zenon DEF Init
<1>2. is_running \in BOOLEAN /\ must_update \in BOOLEAN /\ steady \in BOOLEAN /\ was_set \in BOOLEAN
  BY Zenon DEF Init
<1>3. TypeOK
  BY <1>2, ClockAssumption DEF ClockAssumption, Init, TypeOK
<1>4. NoBacklog /\ Unstarted
  BY <1>1 DEF Init, NoBacklog, Unstarted
<1>5. BurstInv
  BY <1>1 DEF Init, BurstInv, Potential
<1> QED BY <1>1, <1>3, <1>4, <1>5 DEF IInv, StallInv, DriftInv

-----------------------------------------------------------------------------
(* What a call of clock_frame leaves, by the way it went, in plain facts.    *)

LEMMA FrameFlat ==
  ASSUME clock_frame
  PROVE  /\ is_running' /\ ~was_set'
         /\ steady' <=> (is_running => steady /\ ~was_set /\ Pause <= frame_rate)
         /\ last_update_time_stamp' = Elapsed /\ Elapsed' = Elapsed
         /\ wall' = wall /\ start_second' = start_second /\ frame_rate' = frame_rate
         /\ real' = real /\ sets' = sets /\ allowance' = allowance
         /\ first' = IF is_running THEN first ELSE real
<1>1. is_running'
  <2>1. CASE StartClock BY <2>1, Zenon DEF StartClock
  <2>2. CASE Early BY <2>2, Zenon DEF Early
  <2>3. CASE LaunchFrame BY <2>3, Zenon DEF LaunchFrame
  <2> QED BY <2>1, <2>2, <2>3, Zenon DEF clock_frame
<1>2. ~was_set'
  BY Zenon DEF clock_frame, Witness
<1>3. steady' <=> (is_running => steady /\ ~was_set /\ Pause <= frame_rate)
  BY Zenon DEF clock_frame, Witness
<1>4. first' = IF is_running THEN first ELSE real
  BY Zenon DEF clock_frame, Witness
<1> QED BY <1>1, <1>2, <1>3, <1>4, Zenon DEF clock_frame, Witness, Elapsed

(* The three ways through the call. *)
LEMMA FrameStart ==
  ASSUME clock_frame, StartClock
  PROVE  /\ ~is_running /\ ~must_update'
         /\ last_event_time_stamp' = Elapsed /\ handling_time_stamp' = handling_time_stamp
         /\ since' = real
BY Zenon DEF clock_frame, StartClock, Witness

LEMMA FrameEarly ==
  ASSUME clock_frame, Early
  PROVE  /\ is_running /\ ~must_update'
         /\ Elapsed - Rewound < frame_rate
         /\ last_event_time_stamp' = Rewound /\ handling_time_stamp' = handling_time_stamp
         /\ since' = IF was_set THEN real ELSE since
BY Zenon DEF clock_frame, Early, Witness

LEMMA FrameLaunch ==
  ASSUME clock_frame, LaunchFrame
  PROVE  /\ is_running /\ must_update'
         /\ Elapsed - Rewound >= frame_rate
         /\ last_event_time_stamp' = NextEvent
         /\ handling_time_stamp' = handling_time_stamp + frame_rate
         /\ since' = real
BY Zenon DEF clock_frame, LaunchFrame, Witness

-----------------------------------------------------------------------------
LEMMA ElapsedType == TypeOK => Elapsed \in Int
  BY DEF TypeOK, Elapsed

LEMMA FrameKeeps ==
  ASSUME IInv, clock_frame PROVE IInv'
<1>a. /\ wall \in Int /\ start_second \in Int /\ frame_rate \in Nat
      /\ handling_time_stamp \in Int
      /\ last_event_time_stamp \in Int /\ last_update_time_stamp \in Int
      /\ real \in Nat /\ sets \in Nat /\ allowance \in Nat
      /\ since \in Nat /\ first \in Nat /\ Elapsed \in Int
  BY ElapsedType DEF IInv, TypeOK
<1>b. NoBacklog /\ BurstInv /\ Unstarted /\ StallInv /\ DriftInv
  BY DEF IInv
<1>c. /\ is_running' /\ ~was_set' /\ last_update_time_stamp' = Elapsed /\ Elapsed' = Elapsed
      /\ wall' = wall /\ start_second' = start_second /\ frame_rate' = frame_rate
      /\ real' = real /\ sets' = sets /\ allowance' = allowance
      /\ first' = IF is_running THEN first ELSE real
      /\ steady' <=> (is_running => steady /\ ~was_set /\ Pause <= frame_rate)
  BY FrameFlat
<1>d. Pause' = 0
  BY <1>a, <1>c DEF Pause
<1>t. /\ is_running' \in BOOLEAN /\ must_update' \in BOOLEAN
      /\ steady' \in BOOLEAN /\ was_set' \in BOOLEAN
  <2>1. CASE StartClock BY <2>1, Zenon DEF StartClock, clock_frame, Witness
  <2>2. CASE Early BY <2>2, Zenon DEF Early, clock_frame, Witness, IInv, TypeOK
  <2>3. CASE LaunchFrame BY <2>3, Zenon DEF LaunchFrame, clock_frame, Witness, IInv, TypeOK
  <2> QED BY <2>1, <2>2, <2>3, Zenon DEF clock_frame
<1>1. CASE StartClock
  <2>1. /\ ~is_running /\ last_event_time_stamp' = Elapsed /\ since' = real
        /\ handling_time_stamp' = handling_time_stamp
    BY <1>1, FrameStart
  <2>2. TypeOK' BY <1>a, <1>c, <1>t, <2>1 DEF TypeOK
  <2>3. NoBacklog' BY <1>a, <1>c, <2>1 DEF NoBacklog
  <2>4. BurstInv' BY <1>a, <1>b, <1>c, <1>d, <2>1 DEF BurstInv, Potential, Useful
  <2>5. StallInv' BY <1>a, <1>c, <2>1 DEF StallInv
  <2>6. DriftInv' BY <1>a, <1>b, <1>c, <2>1 DEF DriftInv, Unstarted
  <2> QED BY <1>c, <2>2, <2>3, <2>4, <2>5, <2>6 DEF IInv, Unstarted
<1>2. CASE Early
  <2>1. /\ is_running /\ Elapsed - Rewound < frame_rate
        /\ last_event_time_stamp' = Rewound /\ handling_time_stamp' = handling_time_stamp
        /\ since' = IF was_set THEN real ELSE since
    BY <1>2, FrameEarly
  <2>2. TypeOK' BY <1>a, <1>c, <1>t, <2>1 DEF TypeOK, Rewound
  <2>3. NoBacklog' BY <1>a, <1>b, <1>c, <2>1 DEF NoBacklog, Rewound
  <2>4. BurstInv' BY <1>a, <1>b, <1>c, <1>d, <2>1 DEF BurstInv, Potential, Useful, Pause, Rewound, NoBacklog
  <2>5. StallInv'
    <3>1. CASE was_set BY <1>a, <1>c, <2>1, <3>1, <1>b DEF StallInv, Rewound, NoBacklog
    <3>2. CASE ~was_set BY <1>a, <1>b, <1>c, <2>1, <3>2 DEF StallInv, Rewound
    <3> QED BY <3>1, <3>2
  <2>6. DriftInv' BY <1>a, <1>b, <1>c, <2>1 DEF DriftInv, StallInv, Rewound
  <2> QED BY <1>c, <2>2, <2>3, <2>4, <2>5, <2>6 DEF IInv, Unstarted
<1>3. CASE LaunchFrame
  <2>1. /\ is_running /\ Elapsed - Rewound >= frame_rate
        /\ last_event_time_stamp' = NextEvent
        /\ handling_time_stamp' = handling_time_stamp + frame_rate
        /\ since' = real
    BY <1>3, FrameLaunch
  <2>2. TypeOK' BY <1>a, <1>c, <1>t, <2>1 DEF TypeOK, Rewound, NextEvent
  <2>3. NoBacklog' BY <1>a, <1>b, <1>c, <2>1 DEF NoBacklog, Rewound, NextEvent, Pause
  <2>4. BurstInv' BY <1>a, <1>b, <1>c, <1>d, <2>1 DEF BurstInv, Potential, Useful, Pause, Rewound, NextEvent, NoBacklog
  <2>5. StallInv'
    <3>1. last_event_time_stamp' \in Int /\ last_event_time_stamp' <= Elapsed
      BY <1>a, <1>c, <2>2, <2>3 DEF TypeOK, NoBacklog
    <3> QED BY <1>a, <1>c, <2>1, <3>1 DEF StallInv
  <2>6. DriftInv'
    BY <1>a, <1>b, <1>c, <2>1 DEF DriftInv, StallInv, Rewound, NextEvent, Pause
  <2> QED BY <1>c, <2>2, <2>3, <2>4, <2>5, <2>6 DEF IInv, Unstarted
<1> QED BY <1>1, <1>2, <1>3, Zenon DEF clock_frame

LEMMA TickKeeps ==
  ASSUME IInv, Tick PROVE IInv'
<1>a. /\ wall \in Int /\ start_second \in Int /\ frame_rate \in Nat
      /\ handling_time_stamp \in Int
      /\ last_event_time_stamp \in Int /\ last_update_time_stamp \in Int
      /\ real \in Nat /\ sets \in Nat /\ allowance \in Nat
      /\ since \in Nat /\ first \in Nat /\ Elapsed \in Int
  BY ElapsedType DEF IInv, TypeOK
<1>b. /\ wall' = wall + 1 /\ real' = real + 1 /\ start_second' = start_second
      /\ frame_rate' = frame_rate /\ handling_time_stamp' = handling_time_stamp
      /\ last_event_time_stamp' = last_event_time_stamp
      /\ last_update_time_stamp' = last_update_time_stamp
      /\ sets' = sets /\ allowance' = allowance /\ since' = since /\ first' = first
  BY DEF Tick, clock, history
<1>c. is_running' = is_running /\ must_update' = must_update /\ steady' = steady /\ was_set' = was_set
  BY Zenon DEF Tick, clock, history
<1>d. (is_running' <=> is_running) /\ (steady' <=> steady) /\ (was_set' <=> was_set)
  BY <1>c, Zenon
<1>e. Elapsed' = Elapsed + 1
  BY <1>a, <1>b DEF Elapsed
<1>1. TypeOK'
  <2>1. /\ is_running' \in BOOLEAN /\ must_update' \in BOOLEAN
        /\ steady' \in BOOLEAN /\ was_set' \in BOOLEAN
    BY <1>c, Zenon DEF IInv, TypeOK
  <2> QED BY <1>a, <1>b, <2>1 DEF TypeOK
<1>2. NoBacklog' BY <1>b DEF IInv, NoBacklog
<1>3. Unstarted' BY <1>b, <1>d DEF IInv, Unstarted
<1>4. BurstInv' BY <1>a, <1>b, <1>d, <1>e DEF IInv, BurstInv, Potential, Useful, Pause
<1>5. StallInv' BY <1>a, <1>b, <1>d, <1>e DEF IInv, StallInv
<1>6. DriftInv' BY <1>a, <1>b, <1>d, <1>e DEF IInv, DriftInv
<1> QED BY <1>1, <1>2, <1>3, <1>4, <1>5, <1>6 DEF IInv

(* The wall clock or the frame clock is set, to any reading. *)
LEMMA JumpKeeps ==
  IInv /\ Jump /\ Elapsed' \in Int /\ wall' \in Int /\ start_second' \in Int => IInv'
<1>0. SUFFICES ASSUME IInv, Jump, Elapsed' \in Int, wall' \in Int, start_second' \in Int PROVE IInv'
  OBVIOUS
<1>a. /\ frame_rate \in Nat /\ handling_time_stamp \in Int
      /\ last_event_time_stamp \in Int /\ last_update_time_stamp \in Int
      /\ real \in Nat /\ sets \in Nat /\ allowance \in Nat
      /\ since \in Nat /\ first \in Nat /\ Elapsed \in Int
  BY <1>0, ElapsedType DEF IInv, TypeOK
<1>b. /\ real' = real
      /\ frame_rate' = frame_rate /\ handling_time_stamp' = handling_time_stamp
      /\ last_event_time_stamp' = last_event_time_stamp
      /\ last_update_time_stamp' = last_update_time_stamp
      /\ sets' = sets + 1 /\ since' = since /\ first' = first
      /\ allowance' = IF Elapsed' > Elapsed THEN allowance + frame_rate ELSE allowance
  BY <1>0 DEF Jump, clock
<1>c. is_running' = is_running /\ must_update' = must_update /\ steady' = steady /\ was_set'
  BY <1>0, Zenon DEF Jump, clock
<1>d. (is_running' <=> is_running) /\ (steady' <=> steady)
  BY <1>c, Zenon
<1>1. TypeOK'
  <2>1. /\ is_running' \in BOOLEAN /\ must_update' \in BOOLEAN
        /\ steady' \in BOOLEAN /\ was_set' \in BOOLEAN
    BY <1>0, <1>c, Zenon DEF IInv, TypeOK, Jump
  <2> QED BY <1>0, <1>a, <1>b, <2>1 DEF TypeOK
<1>2. NoBacklog' BY <1>0, <1>b DEF IInv, NoBacklog
<1>3. Unstarted' BY <1>0, <1>b, <1>d DEF IInv, Unstarted
<1>4. BurstInv'
  <2>1. allowance' \in Int /\ 0 <= allowance' - allowance
    BY <1>a, <1>b
  <2>2. CASE is_running
    <3>1. /\ Useful \in Int /\ Useful' \in Int
          /\ Useful' <= Useful + (allowance' - allowance)
      <4>1. Pause \in Nat /\ Pause' \in Nat /\ (Elapsed' <= Elapsed => Pause' <= Pause)
        <5>1. Elapsed' \in Int BY <1>0
        <5>2. last_update_time_stamp' = last_update_time_stamp BY <1>b
        <5>3. Elapsed \in Int /\ last_update_time_stamp \in Int BY <1>a
        <5>4. Pause \in Nat BY <5>3 DEF Pause
        <5>5. CASE Elapsed' < last_update_time_stamp
          <6>1. Pause' = 0 BY <5>2, <5>5 DEF Pause
          <6> QED BY <5>4, <6>1
        <5>6. CASE ~(Elapsed' < last_update_time_stamp)
          <6>1. Pause' = Elapsed' - last_update_time_stamp BY <5>2, <5>6 DEF Pause
          <6>2. Elapsed' - last_update_time_stamp \in Nat 
            <7> DEFINE e == Elapsed'
            <7>1. e \in Int /\ ~(e < last_update_time_stamp) BY <5>1, <5>6
            <7> HIDE DEF e
            <7>2. e - last_update_time_stamp \in Nat BY <5>3, <7>1
            <7> QED BY <7>2 DEF e
          <6>3. Elapsed' <= Elapsed => Pause' <= Pause
            BY <5>1, <5>3, <5>6, <6>1 DEF Pause
          <6> QED BY <5>4, <6>1, <6>2, <6>3
        <5> QED BY <5>5, <5>6
      <4>2. Useful' = IF Pause' > frame_rate THEN frame_rate ELSE Pause'
        BY <1>b DEF Useful
      <4>3. CASE Elapsed' > Elapsed
        <5>1. allowance' - allowance = frame_rate BY <1>a, <1>b, <4>3
        <5> QED BY <1>a, <4>1, <4>2, <5>1 DEF Useful
      <4>4. CASE Elapsed' <= Elapsed
        <5>1. allowance' - allowance = 0 BY <1>0, <1>a, <1>b, <4>4
        <5> QED BY <1>a, <4>1, <4>2, <4>4, <5>1 DEF Useful
      <4> QED BY <1>a, <1>0, <4>3, <4>4
    <3>2. Potential = last_update_time_stamp - last_event_time_stamp + Useful
      BY <2>2 DEF Potential
    <3>3. Potential' = last_update_time_stamp - last_event_time_stamp + Useful'
      BY <1>b, <1>d, <2>2 DEF Potential
    <3>4. handling_time_stamp + (last_update_time_stamp - last_event_time_stamp + Useful)
            <= real + allowance
      BY <1>0, <3>2 DEF IInv, BurstInv
    <3>5. handling_time_stamp + (last_update_time_stamp - last_event_time_stamp + Useful')
            <= real + allowance'
      <4> DEFINE g == last_update_time_stamp - last_event_time_stamp
                 b == allowance'
                 q == Useful'
      <4>1. g \in Int BY <1>a
      <4>a. b \in Int BY <2>1
      <4>b. q \in Int /\ Useful \in Int BY <3>1
      <4>c. q <= Useful + (b - allowance) BY <3>1
      <4>2. handling_time_stamp + (g + Useful) <= real + allowance BY <3>4
      <4> HIDE DEF g, b, q
      <4>3. handling_time_stamp + (g + q) <= real + b BY <1>a, <4>1, <4>2, <4>a, <4>b, <4>c
      <4> QED BY <4>3 DEF g, b, q
    <3> QED BY <1>b, <3>3, <3>5 DEF BurstInv
  <2>3. CASE ~is_running
    <3>1. Potential = 0 /\ Potential' = 0 BY <1>d, <2>3 DEF Potential
    <3>2. handling_time_stamp + 0 <= real + allowance BY <1>0, <3>1 DEF IInv, BurstInv
    <3>3. handling_time_stamp + 0 <= real + allowance'
      <4> DEFINE b == allowance'
      <4>1. b \in Int /\ 0 <= b - allowance BY <2>1
      <4> HIDE DEF b
      <4>2. handling_time_stamp + 0 <= real + b BY <1>a, <4>1, <3>2
      <4> QED BY <4>2 DEF b
    <3> QED BY <1>b, <3>1, <3>3 DEF BurstInv
  <2> QED BY <2>2, <2>3
<1> QED BY <1>1, <1>2, <1>3, <1>4, <1>c DEF IInv, StallInv, DriftInv

LEMMA NextIInv == IInv /\ [Next]_vars => IInv'
<1> SUFFICES ASSUME IInv, [Next]_vars PROVE IInv'
  OBVIOUS
<1>1. CASE clock_frame BY <1>1, FrameKeeps
<1>2. CASE Tick BY <1>2, TickKeeps
<1>3. CASE clock_reset
  <2>1. wall' \in Int /\ start_second' \in Int /\ Jump
    BY <1>3 DEF clock_reset, IInv, TypeOK
  <2>2. Elapsed' \in Int BY <2>1 DEF Elapsed
  <2> QED BY <2>1, <2>2, JumpKeeps
<1>4. CASE \E w \in Walls : SetWall(w)
  <2>1. wall' \in Int /\ start_second' \in Int /\ Jump
    BY <1>4, ClockAssumption DEF ClockAssumption, SetWall, IInv, TypeOK
  <2>2. Elapsed' \in Int BY <2>1 DEF Elapsed
  <2> QED BY <2>1, <2>2, JumpKeeps
<1>5. CASE UNCHANGED vars
  BY <1>5, Zenon DEF vars, clock, history, IInv, TypeOK, NoBacklog, Unstarted, BurstInv, Potential, Useful,
    StallInv, DriftInv, Elapsed, Pause
<1> QED BY <1>1, <1>2, <1>3, <1>4, <1>5, Zenon DEF Next

(* The invariant holds for every interval and every way the clocks are set. *)
THEOREM Invariance == Spec => []IInv
  BY InitIInv, NextIInv, PTL DEF Spec

(* The assertion of clock.c:104 holds, and no frames are left over.          *)
THEOREM BacklogTheorem == Spec => []NoBacklog
<1>1. IInv => NoBacklog BY DEF IInv
<1> QED BY <1>1, Invariance, PTL

(* However the wall clock is set, frames come in no burst.                   *)
THEOREM BurstTheorem == Spec => []NoBurst
<1>1. IInv => NoBurst
  BY ElapsedType DEF IInv, TypeOK, NoBacklog, NoBurst, BurstInv, Potential, Useful, Pause, Unstarted
<1> QED BY <1>1, Invariance, PTL

(* A clock that is called often enough keeps pace with the real time.        *)
THEOREM DriftTheorem == Spec => []NoDrift
<1>1. IInv => NoDrift
  BY ElapsedType DEF IInv, TypeOK, NoBacklog, NoDrift, DriftInv
<1> QED BY <1>1, Invariance, PTL

(* A call that finds the interval passed launches a frame.                   *)
THEOREM StallTheorem == Spec => NoStall
<1>1. ASSUME IInv, clock_frame, is_running, ~was_set, real - since >= frame_rate
      PROVE  must_update'
  <2>1. ~StartClock BY <1>1, Zenon DEF StartClock
  <2>2. ~Early
    <3>1. Elapsed >= last_update_time_stamp /\ real - since <= Elapsed - last_event_time_stamp
      BY <1>1 DEF IInv, StallInv
    <3>2. Rewound = last_event_time_stamp
      BY <1>1, <3>1, ElapsedType DEF Rewound, IInv, TypeOK
    <3>3. ~(Elapsed - Rewound < frame_rate)
      BY <1>1, <3>1, <3>2, ElapsedType DEF IInv, TypeOK
    <3> QED BY <3>3, Zenon DEF Early
  <2> QED BY <1>1, <2>1, <2>2, FrameLaunch, Zenon DEF clock_frame
<1>2. IInv /\ [Next]_vars
        => [clock_frame /\ is_running /\ ~was_set /\ real - since >= frame_rate => must_update']_vars
  BY <1>1, Zenon
<1> QED BY <1>2, Invariance, PTL DEF Spec, NoStall
=============================================================================
