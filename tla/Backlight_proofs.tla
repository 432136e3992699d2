------------------------- MODULE Backlight_proofs --------------------------
(***************************************************************************)
(* Proofs about Backlight, for any levels the sensor reports, any timeouts *)
(* and any limits on the time that is counted, and for whatever a level    *)
(* above 7 finds past the table, within the half of an int's range.        *)
(***************************************************************************)
EXTENDS Backlight, TLAPS

\* How far the values reach.
LEMMA ReachSize ==
    Reach \in Nat /\ Reach > 255 /\ 2 * Reach + 2 = 2 * 1024 * 1024 * 1024
  BY DEF Reach

\* Where a level up to 7 leads.
LEMMA TargetRange ==
    ASSUME NEW l \in Int, l <= 7
    PROVE  Target(l) \in 45 .. 255 /\ Targets(l) = {Target(l)}
  BY DEF Target, Targets, Brightness

\* The levels are ints, and lead somewhere within reach.
LEMMA LevelInt == Levels \cup {7} \subseteq Int
  BY LevelsAssumption

LEMMA TargetsReach ==
    ASSUME NEW l \in Int
    PROVE  Targets(l) \subseteq -Reach .. Reach
  <1>1. CASE l <= 7
    <2>1. 45 .. 255 \subseteq -Reach .. Reach
      BY ReachSize
    <2>2. QED
      BY <1>1, <2>1, TargetRange
  <1>2. CASE ~(l <= 7)
    BY <1>2, GarbageAssumption DEF Targets
  <1>3. QED
    BY <1>1, <1>2

\* A step is at least one, and at most the distance unless that is one.
LEMMA StepSize ==
    ASSUME NEW d \in Nat, d > 0
    PROVE  /\ Step(d) \in Nat /\ Step(d) >= 1
           /\ d > 1 => Step(d) <= d
  <1>1. d \div 2 \in Nat /\ 2 * (d \div 2) <= d /\ d < 2 * (d \div 2) + 2
    OBVIOUS
  <1>2. QED
    BY <1>1 DEF Step

\* The value comes closer to its target and stays on its side of it.
LEMMA TowardCloser ==
    ASSUME NEW v \in Int, NEW t \in Int
    PROVE  /\ Toward(v, t) \in Int
           /\ v > t => Toward(v, t) >= t /\ Toward(v, t) < v
           /\ v < t => Toward(v, t) <= t /\ Toward(v, t) > v
           /\ v = t => Toward(v, t) = t
  <1>1. CASE v > t
    <2>1. v - t \in Nat /\ v - t > 0
      BY <1>1
    <2>2. Step(v - t) \in Nat /\ Step(v - t) >= 1
      BY <2>1, StepSize
    <2>3. QED
      BY <1>1, <2>2 DEF Toward
  <1>2. CASE v < t
    <2>1. t - v \in Nat /\ t - v > 0
      BY <1>2
    <2>2. Step(t - v) \in Nat /\ Step(t - v) >= 1
      BY <2>1, StepSize
    <2>3. QED
      BY <1>2, <2>2 DEF Toward
  <1>3. CASE v = t
    BY <1>3 DEF Toward
  <1>4. QED
    BY <1>1, <1>2, <1>3

IInv == TypeOK /\ InputsFollowLight

\* What is written is 0 for dark and a value of the screen for lit, and the
\* inputs follow it.
LEMMA LightKeeps ==
    ASSUME IInv, NEW en \in BOOLEAN, NEW value \in Int,
           Light(en, value), fd' = fd
    PROVE  /\ lastValue' \in 0 .. 255
           /\ inputsOn' \in BOOLEAN
           /\ InputsFollowLight'
  <1> DEFINE byte == value % 256
  <1>1. byte \in 0 .. 255
    OBVIOUS
  <1> HIDE DEF byte
  <1>2. Light(en, value) <=>
          IF fd
          THEN /\ lastValue' = IF en THEN byte ELSE 0
               /\ inputsOn' = IF (lastValue # 0) # ((IF en THEN byte ELSE 0) # 0)
                              THEN (IF en THEN byte ELSE 0) # 0 ELSE inputsOn
          ELSE UNCHANGED <<lastValue, inputsOn>>
    BY DEF Light, byte
  <1>3. inputsOn' \in BOOLEAN
    BY <1>2, Zenon DEF IInv, TypeOK
  <1>4. QED
    BY <1>1, <1>2, <1>3 DEF IInv, TypeOK, InputsFollowLight

\* What a call makes of the value, at any target.
LEMMA TowardSteps ==
    ASSUME NEW v, v \in Int, NEW t, t \in Int, NEW w, w = Toward(v, t)
    PROVE  /\ w \in Int
           /\ v > t => w >= t /\ w < v
           /\ v < t => w <= t /\ w > v
           /\ v = t => w = t
  BY TowardCloser

LEMMA InitIInv == Init => IInv
  <1> SUFFICES ASSUME Init PROVE IInv
    OBVIOUS
  <1>1. /\ curEn \in BOOLEAN /\ near \in BOOLEAN /\ fd \in BOOLEAN
        /\ inputsOn \in BOOLEAN /\ finger \in BOOLEAN
    BY DEF Init
  <1>2. level \in Levels \cup {7} /\ curValue \in -Reach .. Reach
    BY ReachSize DEF Init
  <1>3. lastValue \in 0 .. 255
    BY <1>1 DEF Init
  <1>4. timeout \in Timeouts \cup {Never} /\ thread \in {"run", "hold"}
    BY ClockAssumption DEF Init
  <1>5. since \in NotStarted .. ClockMax /\ held \in 0 .. HoldMax + 1
    BY ClockAssumption DEF Init, NotStarted
  <1>6. TypeOK
    BY <1>1, <1>2, <1>3, <1>4, <1>5 DEF TypeOK
  <1>7. InputsFollowLight
    BY DEF Init, InputsFollowLight
  <1>8. QED
    BY <1>6, <1>7 DEF IInv

\* The call of the timer.
LEMMA CallbackIInv == IInv /\ Callback => IInv'
  <1> SUFFICES ASSUME IInv, Callback PROVE IInv'
    OBVIOUS
  <1>1. PICK t \in Targets(level) : curValue' = Toward(curValue, t)
    BY DEF Callback
  <1>2. t \in -Reach .. Reach /\ curValue \in -Reach .. Reach
    BY <1>1, LevelInt, TargetsReach DEF IInv, TypeOK
  <1>3. curValue' \in -Reach .. Reach
    <2>1. t \in Int /\ curValue \in Int /\ Reach \in Int
      BY <1>2, ReachSize
    <2>2. /\ curValue' \in Int
          /\ curValue > t => curValue' >= t /\ curValue' < curValue
          /\ curValue < t => curValue' <= t /\ curValue' > curValue
          /\ curValue = t => curValue' = t
      BY <1>1, <2>1, TowardSteps
    <2>3. QED
      BY <1>2, <2>1, <2>2
  <1>4. curValue' \in Int
    BY <1>3, ReachSize
  <1>5. curEn' \in BOOLEAN
    BY DEF Callback, IInv, TypeOK
  <1>6. /\ lastValue' \in 0 .. 255
        /\ inputsOn' \in BOOLEAN
        /\ InputsFollowLight'
    BY <1>4, <1>5, LightKeeps DEF Callback
  <1>7. since' \in NotStarted .. ClockMax
    BY ClockAssumption DEF Callback, Clock, IInv, TypeOK, NotStarted
  <1>8. thread' \in {"run", "hold"} /\ held' \in 0 .. HoldMax + 1
    BY ClockAssumption DEF Callback, Look
  <1>9. QED
    BY <1>3, <1>5, <1>6, <1>7, <1>8 DEF Callback, IInv, TypeOK

\* Every step keeps the invariant.
LEMMA NextIInv == IInv /\ [Next]_vars => IInv'
  <1> SUFFICES ASSUME IInv, [Next]_vars PROVE IInv'
    OBVIOUS
  <1>1. CASE Callback
    BY <1>1, CallbackIInv
  <1>2. CASE Wake
    <2>1. curValue \in Int
      BY ReachSize DEF IInv, TypeOK
    <2>2. /\ lastValue' \in 0 .. 255
          /\ inputsOn' \in BOOLEAN
          /\ InputsFollowLight'
      BY <1>2, <2>1, LightKeeps DEF Wake
    <2>3. QED
      BY <1>2, <2>2, ClockAssumption DEF Wake, IInv, TypeOK
  <1> USE DEF IInv, TypeOK, InputsFollowLight, Feedback, NotStarted
  <1>3. CASE Touch
    BY <1>3, ClockAssumption DEF Touch
  <1>4. CASE PickTimeout
    BY <1>4, ClockAssumption DEF PickTimeout
  <1>5. CASE ReadLevel
    BY <1>5 DEF ReadLevel
  <1>6. CASE ReadNear
    BY <1>6 DEF ReadNear
  <1>7. CASE Finger
    BY <1>7 DEF Finger
  <1>8. CASE Tick
    <2>1. since' \in NotStarted .. ClockMax
      BY <1>8, ClockAssumption DEF Tick
    <2>2. held' \in 0 .. HoldMax + 1
      BY <1>8, ClockAssumption DEF Tick
    <2>3. QED
      BY <1>8, <2>1, <2>2 DEF Tick
  <1>9. CASE UNCHANGED vars
    BY <1>9 DEF vars
  <1>10. QED
    BY <1>1, <1>2, <1>3, <1>4, <1>5, <1>6, <1>7, <1>8, <1>9 DEF Next

LEMMA SpecIInv == Spec => []IInv
  BY InitIInv, NextIInv, PTL DEF Spec

\* The variables keep their types, whatever the sensor reports in whatever
\* order: what is written is a byte, and no difference of the values it moves
\* between leaves the range of an int.
THEOREM TypeCorrect == Spec => []TypeOK
  BY SpecIInv, PTL DEF IInv

\* LVGL reads the inputs exactly while the screen is lit.
THEOREM InputsRight == Spec => []InputsFollowLight
  BY SpecIInv, PTL DEF IInv

\* What a call makes of the value.
LEMMA CallbackApproaches ==
    ASSUME IInv, Callback
    PROVE  level <= 7 => /\ Approach(curValue, curValue', Target(level))
                         /\ curValue # Target(level) => curValue' # curValue
  <1> SUFFICES ASSUME level <= 7
               PROVE  /\ Approach(curValue, curValue', Target(level))
                      /\ curValue # Target(level) => curValue' # curValue
    OBVIOUS
  <1>0. level \in Int /\ curValue \in Int
    BY LevelInt, ReachSize DEF IInv, TypeOK
  <1>1. Target(level) \in Int /\ Targets(level) = {Target(level)}
    BY <1>0, TargetRange
  <1>2. curValue' = Toward(curValue, Target(level))
    BY <1>1 DEF Callback
  <1>3. /\ curValue' \in Int
        /\ curValue > Target(level)
           => curValue' >= Target(level) /\ curValue' < curValue
        /\ curValue < Target(level)
           => curValue' <= Target(level) /\ curValue' > curValue
        /\ curValue = Target(level) => curValue' = Target(level)
    BY <1>0, <1>1, <1>2, TowardSteps
  <1>4. QED
    BY <1>0, <1>1, <1>3 DEF Approach

\* With a level up to 7, from whatever value, no call leaves a wrong value
\* alone or swings past the right one.
THEOREM ValueApproaches == Spec => Approaches
  <1>1. ASSUME IInv, [Next]_vars
        PROVE  [level <= 7 =>
                  /\ Approach(curValue, curValue', Target(level))
                  /\ Callback /\ curValue # Target(level)
                     => curValue' # curValue]_vars
    <2>1. CASE Callback
      BY <1>1, <2>1, CallbackApproaches
    <2>2. CASE UNCHANGED curValue
      <3>1. curValue \in Int
        BY <1>1, ReachSize DEF IInv, TypeOK
      <3>2. Approach(curValue, curValue', Target(level))
        BY <2>2, <3>1 DEF Approach
      <3>3. level <= 7 /\ Callback /\ curValue # Target(level)
              => curValue' # curValue
        BY <1>1, CallbackApproaches
      <3>4. QED
        BY <3>2, <3>3
    <2>3. QED
      BY <1>1, <2>1, <2>2
         DEF Next, Wake, Touch, PickTimeout, ReadLevel, ReadNear, Finger,
             Tick, vars
  <1>2. QED
    BY <1>1, SpecIInv, PTL DEF Spec, Approaches

-----------------------------------------------------------------------------
(* Going dark: the part of DarkAtLast that needs no fairness.              *)

\* What the clock may show.
LEMMA ClockRange ==
    ASSUME IInv
    PROVE  /\ ClockMax \in Int /\ ClockMax >= 0
           /\ since \in Int /\ since >= NotStarted /\ since <= ClockMax
           /\ NotStarted = -1 /\ Never = -1
           /\ timeout # Never => timeout \in Int /\ timeout > 0 /\ timeout < ClockMax
           /\ curEn \in BOOLEAN
  <1>1. ClockMax \in Nat /\ NotStarted = -1 /\ Never = -1
    BY ClockAssumption DEF NotStarted, Never
  <1>2. timeout # Never => timeout \in 1 .. ClockMax - 1
    BY ClockAssumption DEF IInv, TypeOK
  <1>3. since \in -1 .. ClockMax /\ curEn \in BOOLEAN
    BY DEF IInv, TypeOK, NotStarted
  <1>4. QED
    BY <1>1, <1>2, <1>3

\* A call of the timer.
LEMMA CallDarkens ==
    ASSUME IInv, Callback, Idle
    PROVE  /\ UntilDark' <= UntilDark
           /\ curEn /\ (since = NotStarted \/ Expired) => UntilDark' < UntilDark
  <1> USE ClockRange
  <1>1. CASE ~curEn
    <2>1. curEn' = near /\ ~near
      BY <1>1 DEF Callback, Idle
    <2>2. QED
      BY <1>1, <2>1 DEF UntilDark
  <1>2. CASE curEn /\ Expired
    <2>1. ~curEn'
      BY <1>2 DEF Callback, Idle
    <2>2. UntilDark' = 0
      BY <2>1 DEF UntilDark
    <2>3. UntilDark > 0
      BY <1>2 DEF UntilDark
    <2>4. UntilDark \in Int
      BY DEF UntilDark
    <2>5. QED
      BY <2>2, <2>3, <2>4
  <1>3. CASE curEn /\ ~Expired
    <2>1. curEn'
      BY <1>3 DEF Callback
    <2>2. timeout > 0 /\ curEn # near
      BY <1>3 DEF Idle
    <2>3. since' = IF since = NotStarted THEN 0 ELSE since
      BY <1>3, <2>2 DEF Callback, Clock
    <2>4. QED
      BY <1>3, <2>1, <2>3 DEF UntilDark
  <1>4. QED
    BY <1>1, <1>2, <1>3

\* A tick of the clock.
LEMMA TickDarkens ==
    ASSUME IInv, Tick, Idle
    PROVE  /\ UntilDark' <= UntilDark
           /\ curEn /\ since # NotStarted /\ ~Expired => UntilDark' < UntilDark
  <1> USE ClockRange
  <1>1. curEn' = curEn
    BY DEF Tick
  <1>2. since' = IF since = NotStarted \/ since = ClockMax THEN since ELSE since + 1
    BY DEF Tick
  <1>3. since = ClockMax => Expired
    BY DEF Idle, Expired
  <1>4. QED
    BY <1>1, <1>2, <1>3 DEF UntilDark

\* Whatever else happens while nobody is there, the clock is not touched.
LEMMA RestWaits ==
    ASSUME IInv, [Next]_vars, Idle, ~Callback, ~Tick
    PROVE  UntilDark' = UntilDark
  <1>1. curEn' = curEn /\ since' = since
    BY DEF Next, Wake, Touch, PickTimeout, Feedback, ReadLevel, ReadNear, Finger, Idle, vars
  <1>2. QED
    BY <1>1 DEF UntilDark

LEMMA UntilDarkInt == IInv => UntilDark \in Int
  BY ClockRange DEF UntilDark

\* With nobody near and nothing touched the screen only comes nearer to going
\* dark, for any timeouts: a call starts the clock once, and none again.
THEOREM IdleDarkens == Spec => NearerToDark
  <1>1. ASSUME IInv, [Next]_vars
        PROVE  [Idle /\ Idle' =>
                 /\ UntilDark' <= UntilDark
                 /\ curEn /\ Callback /\ (since = NotStarted \/ Expired)
                       => UntilDark' < UntilDark
                 /\ curEn /\ Tick /\ since # NotStarted /\ ~Expired
                       => UntilDark' < UntilDark]_vars
    <2> SUFFICES ASSUME Idle
                 PROVE  /\ UntilDark' <= UntilDark
                        /\ curEn /\ Callback /\ (since = NotStarted \/ Expired)
                              => UntilDark' < UntilDark
                        /\ curEn /\ Tick /\ since # NotStarted /\ ~Expired
                              => UntilDark' < UntilDark
      OBVIOUS
    <2>1. ~Callback /\ ~Tick => UntilDark' <= UntilDark
      BY <1>1, RestWaits, UntilDarkInt
    <2>2. QED
      BY <1>1, <2>1, CallDarkens, TickDarkens
  <1>2. QED
    BY <1>1, SpecIInv, PTL DEF Spec, NearerToDark

-----------------------------------------------------------------------------
(* Liveness.  The provers know no ENABLED, so the fairness of the timer is  *)
(* GuardedFairness; that a wait and a clock get past their limits, of any  *)
(* length, is TimePasses.                                                  *)

Runs == thread = "run"

\* A wait for a release comes to its end.
LEMMA WaitsEnd == Spec /\ GuardedFairness /\ TimePasses => []<>Runs
  <1> DEFINE Waited == thread = "hold" /\ held > HoldMax
  <1>1. IInv => Runs \/ thread = "hold"
    BY DEF IInv, TypeOK, Runs
  <1>2. IInv /\ [Next]_vars /\ Waited => Waited' \/ Runs'
    BY DEF Runs, Next, Callback, Wake, Touch, PickTimeout, Feedback, ReadLevel, ReadNear,
           Finger, Tick, vars
  <1>3. Waited => WakeCan
    BY DEF WakeCan
  <1>4. <<Wake>>_vars => Runs'
    BY DEF Wake, Runs
  <1>5. (thread = "run" \/ held > HoldMax) /\ IInv => Runs \/ Waited
    BY <1>1 DEF Runs
  <1> HIDE DEF Waited
  <1>6. QED
    BY <1>2, <1>3, <1>4, <1>5, SpecIInv, PTL
       DEF Spec, GuardedFairness, TimePasses

\* Only a call of the timer starts to wait.
LEMMA OnlyCallsWait ==
    Runs /\ [Next]_vars => Runs' \/ <<Callback>>_vars
  BY DEF Runs, Next, Callback, Wake, Touch, PickTimeout, Feedback, ReadLevel, ReadNear,
         Finger, Tick, vars

\* A call takes at least the half of the distance away, and all of it at last.
LEMMA TowardHalves ==
    ASSUME NEW v \in Int, NEW t \in Int, NEW j \in Nat, NEW k \in Nat,
           k <= 2 * j \/ (k = 1 /\ j = 0), v - t <= k, t - v <= k
    PROVE  Toward(v, t) - t <= j /\ t - Toward(v, t) <= j
  <1>1. ASSUME NEW d \in Nat, d > 0, d <= k
        PROVE  /\ Step(d) \in Nat /\ Step(d) >= 1
               /\ d - Step(d) <= j
    <2>1. d \div 2 \in Nat /\ 2 * (d \div 2) <= d /\ d < 2 * (d \div 2) + 2
      OBVIOUS
    <2>2. QED
      BY <1>1, <2>1 DEF Step
  <1>2. CASE v > t
    <2>1. v - t \in Nat /\ v - t > 0 /\ v - t <= k
      BY <1>2
    <2>2. Step(v - t) \in Nat /\ (v - t) - Step(v - t) <= j
      BY <1>1, <2>1
    <2>3. QED
      BY <1>2, <2>2 DEF Toward
  <1>3. CASE v < t
    <2>1. t - v \in Nat /\ t - v > 0 /\ t - v <= k
      BY <1>3
    <2>2. Step(t - v) \in Nat /\ (t - v) - Step(t - v) <= j
      BY <1>1, <2>1
    <2>3. QED
      BY <1>3, <2>2 DEF Toward
  <1>4. CASE v = t
    BY <1>4 DEF Toward
  <1>5. QED
    BY <1>2, <1>3, <1>4

\* The sensor reports l, and the value is not there, but at most k away.
Off(l, k) ==
    /\ level = l /\ curValue # Target(l)
    /\ curValue - Target(l) <= k /\ Target(l) - curValue <= k

Settled(l) == curValue = Target(l) \/ level # l

\* What one link of the chain needs: nothing takes the value away, and a call,
\* which has something to do, brings it nearer.
Closer(l, j, k) ==
    /\ IInv /\ Off(l, k) /\ [Next]_vars => Off(l, k)' \/ Settled(l)'
    /\ IInv /\ Off(l, k) /\ <<Callback>>_vars => Off(l, j)' \/ Settled(l)'
    /\ Off(l, k) /\ Runs => CallCan

LEMMA Links ==
    ASSUME NEW l \in Levels, l <= 7, NEW j \in Nat, NEW k \in Nat,
           k <= 2 * j \/ (k = 1 /\ j = 0), j <= k
    PROVE  Closer(l, j, k)
  <1>1. l \in Int
    BY LevelsAssumption
  <1>2. Target(l) \in Int /\ Targets(l) = {Target(l)}
    BY <1>1, TargetRange
  <1>3. ASSUME IInv, Off(l, k), Callback, ~Settled(l)' PROVE Off(l, j)' /\ Off(l, k)'
    <2>1. curValue \in Int /\ level = l
      BY <1>3, ReachSize DEF IInv, TypeOK, Off
    <2>2. curValue' = Toward(curValue, Target(l)) /\ level' = l
      BY <1>2, <1>3, <2>1 DEF Callback
    <2>3. curValue' \in Int
      BY <1>2, <2>1, <2>2, TowardSteps
    <2>4. curValue' - Target(l) <= j /\ Target(l) - curValue' <= j
      BY <1>2, <1>3, <2>1, <2>2, TowardHalves DEF Off
    <2>5. curValue' - Target(l) <= k /\ Target(l) - curValue' <= k
      BY <1>2, <2>3, <2>4
    <2>6. QED
      BY <1>3, <2>2, <2>4, <2>5 DEF Off, Settled
  <1>4. ASSUME Off(l, k), [Next]_vars, ~Callback, ~Settled(l)' PROVE Off(l, k)'
    <2>1. curValue' = curValue
      BY <1>4 DEF Next, Wake, Touch, PickTimeout, Feedback, ReadLevel, ReadNear,
                  Finger, Tick, vars
    <2>2. QED
      BY <1>4, <2>1 DEF Off, Settled
  <1>5. Off(l, k) /\ Runs => CallCan
    BY <1>2 DEF Off, CallCan, Runs
  <1>6. QED
    BY <1>3, <1>4, <1>5 DEF Closer

\* Where the chain begins and ends.
LEMMA Ends ==
    ASSUME NEW l \in Levels, l <= 7
    PROVE  /\ IInv /\ level = l => Off(l, 2 * 1024 * 1024 * 1024) \/ Settled(l)
           /\ IInv => ~Off(l, 0)
  <1> SUFFICES ASSUME IInv
               PROVE  /\ level = l => Off(l, 2 * 1024 * 1024 * 1024) \/ Settled(l)
                      /\ ~Off(l, 0)
    OBVIOUS
  <1> DEFINE b == Target(l)
  <1>1. l \in Int
    BY LevelsAssumption
  <1>2. curValue \in -Reach .. Reach
    BY DEF IInv, TypeOK
  <1>3. b \in 45 .. 255
    BY <1>1, TargetRange
  <1> HIDE DEF b
  <1>4. curValue - b <= 2 * 1024 * 1024 * 1024 /\ b - curValue <= 2 * 1024 * 1024 * 1024
    <2> DEFINE K == 2 * 1024 * 1024 * 1024
    <2>1. K = 2 * Reach + 2
      BY ReachSize
    <2> HIDE DEF K
    <2>2. curValue - b <= K /\ b - curValue <= K
      BY <1>2, <1>3, <2>1, ReachSize
    <2>3. QED
      BY <2>2 DEF K
  <1>5. ~(curValue # b /\ curValue - b <= 0 /\ b - curValue <= 0)
    BY <1>2, <1>3
  <1>6. QED
    BY <1>4, <1>5 DEF Off, Settled, b

\* From anywhere the value comes within the length of the table.
LEMMA ComesNear ==
    ASSUME NEW l \in Levels, l <= 7
    PROVE  Spec /\ GuardedFairness /\ TimePasses
               => (level = l ~> Off(l, 256) \/ Settled(l))
  <1>1. /\ Closer(l, 1024 * 1024 * 1024, 2 * 1024 * 1024 * 1024)
        /\ Closer(l, 512 * 1024 * 1024, 1024 * 1024 * 1024)
        /\ Closer(l, 256 * 1024 * 1024, 512 * 1024 * 1024)
        /\ Closer(l, 128 * 1024 * 1024, 256 * 1024 * 1024)
        /\ Closer(l, 64 * 1024 * 1024, 128 * 1024 * 1024)
        /\ Closer(l, 32 * 1024 * 1024, 64 * 1024 * 1024)
        /\ Closer(l, 16 * 1024 * 1024, 32 * 1024 * 1024)
        /\ Closer(l, 8 * 1024 * 1024, 16 * 1024 * 1024)
        /\ Closer(l, 4 * 1024 * 1024, 8 * 1024 * 1024)
        /\ Closer(l, 2 * 1024 * 1024, 4 * 1024 * 1024)
        /\ Closer(l, 1024 * 1024, 2 * 1024 * 1024)
        /\ Closer(l, 512 * 1024, 1024 * 1024)
        /\ Closer(l, 256 * 1024, 512 * 1024)
        /\ Closer(l, 128 * 1024, 256 * 1024)
        /\ Closer(l, 64 * 1024, 128 * 1024) /\ Closer(l, 32 * 1024, 64 * 1024)
        /\ Closer(l, 16 * 1024, 32 * 1024) /\ Closer(l, 8 * 1024, 16 * 1024)
        /\ Closer(l, 4 * 1024, 8 * 1024) /\ Closer(l, 2 * 1024, 4 * 1024)
        /\ Closer(l, 1024, 2 * 1024) /\ Closer(l, 512, 1024)
        /\ Closer(l, 256, 512)
    BY Links
  <1>2. QED
    BY <1>1, Ends, OnlyCallsWait, WaitsEnd, SpecIInv, PTL
       DEF Closer, Spec, GuardedFairness

\* From there it arrives.
LEMMA Arrives ==
    ASSUME NEW l \in Levels, l <= 7
    PROVE  Spec /\ GuardedFairness /\ TimePasses => (Off(l, 256) ~> Settled(l))
  <1>1. /\ Closer(l, 128, 256) /\ Closer(l, 64, 128) /\ Closer(l, 32, 64)
        /\ Closer(l, 16, 32) /\ Closer(l, 8, 16) /\ Closer(l, 4, 8)
        /\ Closer(l, 2, 4) /\ Closer(l, 1, 2) /\ Closer(l, 0, 1)
    BY Links
  <1>2. QED
    BY <1>1, Ends, OnlyCallsWait, WaitsEnd, SpecIInv, PTL
       DEF Closer, Spec, GuardedFairness

\* The value arrives at one level.
LEMMA SettlesAt ==
    ASSUME NEW l \in Levels, l <= 7
    PROVE  Spec /\ GuardedFairness /\ TimePasses => (level = l ~> Settled(l))
  BY ComesNear, Arrives, PTL

\* The value arrives at every level up to 7 that the sensor keeps reporting,
\* from wherever it is, although an earlier level may have been above the
\* table: 9 calls of the timer are enough within the table's range, and 32
\* from the farthest value.
THEOREM LevelReached == Spec /\ GuardedFairness /\ TimePasses => Settles
  <1>1. ASSUME NEW l \in {k \in Levels : k <= 7}
        PROVE  Spec /\ GuardedFairness /\ TimePasses
                   => (level = l ~> (curValue = Target(l) \/ level # l))
    <2>1. l \in Levels /\ l <= 7
      OBVIOUS
    <2>2. Spec /\ GuardedFairness /\ TimePasses => (level = l ~> Settled(l))
      BY <2>1, SettlesAt
    <2>3. Settled(l) <=> (curValue = Target(l) \/ level # l)
      BY DEF Settled
    <2>4. QED
      BY <2>2, <2>3, PTL
  <1>2. QED
    BY <1>1 DEF Settles

\* A press on a dark screen, before the timer looks and while it waits.
Pressed == finger /\ ~curEn
InWait  == Pressed /\ thread = "hold"

\* Where a press on a dark screen gets to.
LEMMA PressSteps ==
    /\ IInv /\ Pressed => Runs \/ InWait
    /\ Pressed /\ Runs => CallCan
    /\ Pressed /\ <<Callback>>_vars => ~Pressed' \/ InWait'
    /\ IInv /\ InWait /\ [Next]_vars => ~Pressed' \/ InWait'
    /\ InWait => ~Runs
  <1>1. IInv /\ Pressed => Runs \/ InWait
    BY DEF IInv, TypeOK, Runs, InWait
  <1>2. Pressed /\ Runs => CallCan
    BY DEF Pressed, Runs, CallCan
  <1>3. Pressed /\ Callback => ~Pressed' \/ InWait'
    BY DEF Pressed, Callback, Look, InWait
  <1>4. IInv /\ InWait /\ [Next]_vars => ~Pressed' \/ InWait'
    BY DEF InWait, Pressed, Next, Callback, Wake, Touch, PickTimeout, Feedback, ReadLevel,
           ReadNear, Finger, Tick, vars
  <1>5. InWait => ~Runs
    BY DEF InWait, Runs
  <1>6. QED
    BY <1>1, <1>2, <1>3, <1>4, <1>5

\* A press on a dark screen lights it, for any longest wait: the timer finds
\* it, and the wait for its end comes to an end itself.
THEOREM PressLights == Spec /\ GuardedFairness /\ TimePasses => Wakes
  <1>1. Pressed \/ curEn \/ ~finger
    BY DEF Pressed
  <1>2. ~Pressed => curEn \/ ~finger
    BY DEF Pressed
  <1>3. finger /\ ~curEn => Pressed
    BY DEF Pressed
  <1>4. QED
    BY <1>2, <1>3, PressSteps, OnlyCallsWait, WaitsEnd, SpecIInv, PTL
       DEF Spec, GuardedFairness, Wakes

\* Nobody is near, nothing is touched, and the user has not chosen "never".
Alone == ~near /\ ~finger /\ timeout # Never

\* The screen of the timer that runs is dark, or its clock is stopped, runs
\* within the timeout, or has expired.
DarkNow  == Runs /\ ~curEn
Unclocked == Runs /\ curEn /\ since = NotStarted
Clocked  == Runs /\ curEn /\ since # NotStarted
Overdue  == Clocked /\ Expired

LEMMA AloneSteps ==
    ASSUME IInv, Alone, Alone', [Next]_vars
    PROVE  /\ Runs => Runs'
           /\ DarkNow => DarkNow'
           /\ Unclocked => Unclocked' \/ Clocked'
           /\ Unclocked /\ Callback => Clocked'
           /\ Clocked => DarkNow' \/ Clocked'
           /\ Clocked => ~<<ClockSet>>_vars
           /\ Overdue => Overdue' \/ DarkNow'
           /\ Overdue /\ Callback => DarkNow'
  <1> USE ClockRange DEF Alone, Runs, DarkNow, Unclocked, Clocked, Overdue, Expired,
                         ClockSet
  <1>1. CASE Callback
    <2>1. /\ since' = IF curEn = near THEN NotStarted
                      ELSE IF curEn /\ timeout > 0 /\ since = NotStarted THEN 0 ELSE since
          /\ curEn' = IF ~curEn \/ Expired THEN near ELSE TRUE
          /\ thread' = IF ~curEn' /\ finger THEN "hold" ELSE "run"
          /\ timeout' = timeout /\ thread = "run"
      BY <1>1 DEF Callback, Clock, Look
    <2>2. timeout > 0
      OBVIOUS
    <2>3. QED
      BY <2>1, <2>2
  <1>2. CASE Tick
    <2>1. /\ UNCHANGED <<curEn, thread, timeout>>
          /\ since' = IF since = NotStarted \/ since = ClockMax THEN since ELSE since + 1
      BY <1>2 DEF Tick
    <2>2. QED
      BY <1>1, <2>1
  <1>3. CASE ~Callback /\ ~Tick
    <2>1. thread = "run" => UNCHANGED <<curEn, since, thread, timeout>>
      BY <1>3 DEF Next, Wake, Touch, PickTimeout, Feedback, ReadLevel, ReadNear, Finger,
                  vars
    <2>2. QED
      BY <1>3, <2>1
  <1>4. QED
    BY <1>1, <1>2, <1>3


\* What can be done meanwhile.
LEMMA AloneCan ==
    ASSUME IInv, Alone
    PROVE  /\ Runs => DarkNow \/ Unclocked \/ Clocked
           /\ Unclocked => CallCan
           /\ Overdue => CallCan
           /\ Clocked => Overdue \/ ClockRuns
           /\ DarkNow => ~curEn
  BY ClockRange DEF Alone, Runs, DarkNow, Unclocked, Clocked, Overdue, Expired, CallCan,
                    ClockRuns

\* A screen that is left alone goes dark and stays dark, for any timeouts: its
\* clock is started once, and nothing but the end of the timeout stops it.
THEOREM ScreenGoesDark ==
    Spec /\ GuardedFairness /\ TimePasses => DarkAtLast
  <1>1. /\ IInv /\ Alone /\ Alone' /\ [Next]_vars /\ Runs => Runs'
        /\ IInv /\ Alone /\ Alone' /\ [Next]_vars /\ DarkNow => DarkNow'
        /\ IInv /\ Alone /\ Alone' /\ [Next]_vars /\ Unclocked => Unclocked' \/ Clocked'
        /\ IInv /\ Alone /\ Alone' /\ [Next]_vars /\ Unclocked /\ <<Callback>>_vars
               => Clocked'
        /\ IInv /\ Alone /\ Alone' /\ [Next]_vars /\ Clocked => DarkNow' \/ Clocked'
        /\ IInv /\ Alone /\ Alone' /\ [Next]_vars /\ Clocked => ~<<ClockSet>>_vars
        /\ IInv /\ Alone /\ Alone' /\ [Next]_vars /\ Overdue => Overdue' \/ DarkNow'
        /\ IInv /\ Alone /\ Alone' /\ [Next]_vars /\ Overdue /\ <<Callback>>_vars
               => DarkNow'
    BY AloneSteps
  <1>2. /\ IInv /\ Alone /\ Runs => DarkNow \/ Unclocked \/ Clocked
        /\ IInv /\ Alone /\ Unclocked => CallCan
        /\ IInv /\ Alone /\ Overdue => CallCan
        /\ IInv /\ Alone /\ Clocked => Overdue \/ ClockRuns
        /\ DarkNow => ~curEn
    BY AloneCan DEF DarkNow
  <1>3. ~near /\ ~finger /\ timeout # Never => Alone
    BY DEF Alone
  <1>4. QED
    BY <1>1, <1>2, <1>3, WaitsEnd, SpecIInv, PTL
       DEF Spec, GuardedFairness, TimePasses, DarkAtLast
=============================================================================
