----------------------------- MODULE Backlight -----------------------------
(***************************************************************************)
(* The backlight of a device with sensors (main.c, USE_SENSOR): the light  *)
(* sensor chooses a level, the value on the screen moves towards it, and   *)
(* the screen goes dark when nobody is near and nothing was touched for    *)
(* the time chosen on the wallpaper page.  While it is dark LVGL does not  *)
(* read the inputs: the timer that switched it off reads them itself, and  *)
(* lights the screen when it finds a press.                                *)
(*                                                                         *)
(* Everything runs on the UI thread: the timers of the two sensors and of  *)
(* the backlight, and LVGL's own reading of the inputs, in any order, with *)
(* any time between them.  The wait for the release of a press happens     *)
(* inside the backlight's timer: nothing else runs meanwhile.              *)
(*                                                                         *)
(* Time is counted in units of the model: an elapsed time is a counter     *)
(* that stops at ClockMax.  Of several inputs the model has one.           *)
(*                                                                         *)
(* The level is whatever key the driver of the sensor reports.  The table  *)
(* of the brightness has eight entries, and nothing keeps a larger level   *)
(* from being looked up: what is found past the table is one of Garbage,   *)
(* another one with every look.                                            *)
(***************************************************************************)
EXTENDS Integers

CONSTANTS
    Levels,             \* the levels the light sensor may report, any ints
    Garbage,            \* what may be found past the end of the table
    Timeouts,           \* the timeouts the user may choose, but for "never"
    FirstTimeout,       \* the timeout until then, 5000 ms
    HoldMax,            \* the longest wait for a release, 10000 ms
    ClockMax            \* bound: an elapsed time is counted up to here

\* Half the range of an int: a difference of two such values is an int.  C
\* says nothing of the difference when more than that is found.
Reach == 1024 * 1024 * 1024 - 1

ASSUME LevelsAssumption == Levels \subseteq Int

ASSUME GarbageAssumption == Garbage # {} /\ Garbage \subseteq -Reach .. Reach

ASSUME ClockAssumption ==
    /\ Timeouts \subseteq 1 .. ClockMax - 1 /\ FirstTimeout \in Timeouts
    /\ HoldMax \in Nat /\ ClockMax \in Nat

Never      == -1
NotStarted == -1

VARIABLES
    level,              \* backlight_level
    near,               \* backlight_en: somebody is near
    curEn,              \* cur_en: the screen is meant to be lit
    curValue,           \* cur_value
    fd,                 \* backlight_fd > 0
    lastValue,          \* last_value, what was written last
    inputsOn,           \* LVGL reads the inputs (lv_indev_enable)
    timeout,            \* backlight_timeout
    since,              \* the time since start_tick, or NotStarted for 0
    thread,             \* "run", or "hold" in the wait for a release
    held,               \* the time that wait has lasted
    finger              \* a finger is on the screen

vars == <<level, near, curEn, curValue, fd, lastValue, inputsOn, timeout,
          since, thread, held, finger>>

Brightness == [l \in 0 .. 7 |-> 45 + 30 * l]

\* Where a level leads that is not above the table.
Target(l) == Brightness[IF l < 0 THEN 0 ELSE l]

\* level_to_brightness: the statement that should bound a level from above has
\* no effect.
Targets(l) == IF l <= 7 THEN {Target(l)} ELSE Garbage

TypeOK ==
    /\ level \in Levels \cup {7}
    /\ near \in BOOLEAN
    /\ curEn \in BOOLEAN
    /\ curValue \in -Reach .. Reach
    /\ fd \in BOOLEAN
    /\ lastValue \in 0 .. 255
    /\ inputsOn \in BOOLEAN
    /\ timeout \in Timeouts \cup {Never}
    /\ since \in NotStarted .. ClockMax
    /\ thread \in {"run", "hold"}
    /\ held \in 0 .. HoldMax + 1
    /\ finger \in BOOLEAN

\* lvgl_init: the screen is lit, if its node could be opened, and nobody is
\* near until the sensor says so.
Init ==
    /\ level = 7 /\ near = FALSE /\ curEn = TRUE /\ curValue = 255
    /\ fd \in BOOLEAN /\ lastValue = IF fd THEN 255 ELSE 0
    /\ inputsOn = TRUE /\ timeout = FirstTimeout /\ since = NotStarted
    /\ thread = "run" /\ held = 0 /\ finger = FALSE

-----------------------------------------------------------------------------
(* The pieces of the backlight's timer.                                    *)

\* Mutant: the last unit is never made up.
StepZero(d) == d \div 2

\* Half of the difference d, but 2 when that is nothing.
Step(d) == IF d \div 2 = 0 THEN 2 ELSE d \div 2

\* Mutant: the value is not stopped at the target.
TowardPast(v, target) ==
    IF v > target THEN v - Step(v - target)
    ELSE IF v < target THEN v + Step(target - v) ELSE v

\* The value moves towards the target, and not past it.
Toward(v, target) ==
    IF v > target
    THEN IF v - Step(v - target) < target THEN target ELSE v - Step(v - target)
    ELSE IF v < target
    THEN IF v + Step(target - v) > target THEN target ELSE v + Step(target - v)
    ELSE v

\* Mutant: the inputs are compared with what has just been written.
LightLate(en, value) ==
    /\ lastValue' = IF fd THEN (IF en THEN value % 256 ELSE 0) ELSE lastValue
    /\ UNCHANGED inputsOn

\* Mutant: what is written is not cut to a byte.
LightWide(en, value) ==
    /\ lastValue' = IF fd THEN (IF en THEN value ELSE 0) ELSE lastValue
    /\ inputsOn' = IF fd THEN lastValue' # 0 ELSE inputsOn

\* update_backlight: the inputs are switched with the light.  What is written
\* is a byte: a value found past the table may well come to 0.
Light(en, value) ==
    LET final == IF en THEN value % 256 ELSE 0 IN
    IF fd
    THEN /\ lastValue' = final
         /\ inputsOn' = IF (lastValue # 0) # (final # 0) THEN final # 0
                        ELSE inputsOn
    ELSE UNCHANGED <<lastValue, inputsOn>>

Expired == timeout > 0 /\ since > timeout

\* Mutant: the clock is started by every call.
ClockAgain ==
    since' = IF curEn /\ ~near /\ timeout > 0 THEN 0 ELSE NotStarted

\* The clock is started when nobody is near, stopped when the light is as
\* the sensor wants it, and otherwise left alone.
Clock ==
    since' = IF curEn = near THEN NotStarted
             ELSE IF curEn /\ timeout > 0 /\ since = NotStarted THEN 0
             ELSE since

\* Mutant: a dark screen does not look for a press.
LookAway == UNCHANGED <<thread, held>>

\* A dark screen looks for a press, and waits for its end.
Look ==
    /\ thread' = IF ~curEn' /\ finger THEN "hold" ELSE "run"
    /\ held' = 0

-----------------------------------------------------------------------------
(* The UI thread.                                                          *)

\* backlight_cb, up to the wait for a release.
Callback ==
    /\ thread = "run"
    /\ \E t \in Targets(level) : curValue' = Toward(curValue, t)
    /\ curEn' = IF ~curEn \/ Expired THEN near ELSE TRUE
    /\ Clock
    /\ Light(curEn', curValue')
    /\ Look
    /\ UNCHANGED <<level, near, fd, timeout, finger>>

\* The rest of it: the press has ended, or lasted too long.
Wake ==
    /\ thread = "hold" /\ (~finger \/ held > HoldMax)
    /\ thread' = "run" /\ held' = 0
    /\ curEn' = TRUE /\ Light(TRUE, curValue)
    /\ UNCHANGED <<level, near, curValue, fd, timeout, since, finger>>

\* LVGL reads the finger and sends its events: touchpad_feedback.
Feedback == thread = "run" /\ inputsOn /\ finger /\ since' = 0

Touch ==
    /\ Feedback
    /\ UNCHANGED <<level, near, curEn, curValue, fd, lastValue, inputsOn,
                   timeout, thread, held, finger>>

\* screen_timeout_cb: one of the touches chooses another timeout.
PickTimeout ==
    /\ Feedback /\ timeout' \in Timeouts \cup {Never}
    /\ UNCHANGED <<level, near, curEn, curValue, fd, lastValue, inputsOn,
                   thread, held, finger>>

\* lsensor_cb: the key is not looked at.
ReadLevel ==
    /\ thread = "run" /\ level' \in Levels
    /\ UNCHANGED <<near, curEn, curValue, fd, lastValue, inputsOn, timeout,
                   since, thread, held, finger>>

\* psensor_cb.
ReadNear ==
    /\ thread = "run" /\ near' \in BOOLEAN
    /\ UNCHANGED <<level, curEn, curValue, fd, lastValue, inputsOn, timeout,
                   since, thread, held, finger>>

-----------------------------------------------------------------------------
(* The world.                                                              *)

\* A finger comes or goes.
Finger ==
    /\ finger' = ~finger
    /\ UNCHANGED <<level, near, curEn, curValue, fd, lastValue, inputsOn,
                   timeout, since, thread, held>>

\* Time passes.
Tick ==
    /\ since' = IF since = NotStarted \/ since = ClockMax THEN since
                ELSE since + 1
    /\ held' = IF thread = "run" \/ held > HoldMax THEN held ELSE held + 1
    /\ UNCHANGED <<level, near, curEn, curValue, fd, lastValue, inputsOn,
                   timeout, thread, finger>>

Next ==
    \/ Callback \/ Wake \/ Touch \/ PickTimeout \/ ReadLevel \/ ReadNear
    \/ Finger \/ Tick

Spec == Init /\ [][Next]_vars

\* The timer runs, the wait ends when it can, and time goes by.
Fairness == WF_vars(Callback) /\ WF_vars(Wake) /\ WF_vars(Tick)

FairSpec == Spec /\ Fairness

\* A call of the timer that has something to do: the value is not at the level
\* yet, a dark screen is pressed, or the clock of a screen nobody is near is
\* to be started or has expired.
CallCan ==
    /\ thread = "run"
    /\ \/ \E t \in Targets(level) : curValue # t
       \/ ~curEn /\ finger
       \/ curEn /\ ~near /\ timeout # Never /\ (since = NotStarted \/ Expired)

WakeCan == thread = "hold" /\ (~finger \/ held > HoldMax)

\* The part of Fairness about the timer with its guards written out: it
\* follows from FairSpec, and the liveness proofs start from it.
GuardedFairness ==
    /\ []<>~CallCan \/ []<><<Callback>>_vars
    /\ []<>~WakeCan \/ []<><<Wake>>_vars

\* The clock runs, and has not reached the timeout.
ClockRuns == timeout # Never /\ since # NotStarted /\ since <= timeout

\* The clock is set to its start or stopped.
ClockSet == since' # since /\ since' \in {0, NotStarted}

\* What the ticks come to, however long a wait or a timeout is: a wait for a
\* release ends or gets past its limit, and a clock that is left alone gets
\* past the timeout.  It follows from FairSpec.
TimePasses ==
    /\ []<>(thread = "run" \/ held > HoldMax)
    /\ []<>~ClockRuns \/ []<><<ClockSet>>_vars

-----------------------------------------------------------------------------

\* A screen that is lit is read by LVGL and a dark one is not, on every path
\* to update_backlight (the timer, the wake and the start): were they out of
\* step, nobody could use the screen, or a press would reach a page that
\* cannot be seen.
InputsFollowLight == fd => (inputsOn <=> lastValue # 0)

\* The value arrives at every level up to 7 the sensor keeps reporting, from
\* either side and for all of its rounding: it neither stays short of it nor
\* swings around it, even from what an earlier level found past the table.
\* Of the levels above 7 nothing is promised.
Settles ==
    \A l \in {k \in Levels : k <= 7} :
        level = l ~> (curValue = Target(l) \/ level # l)

\* Of two values of the light, the second is nowhere past the target t.
Approach(v, w, t) ==
    /\ w > v => w <= t
    /\ w < v => w >= t

\* The safety half of Settles: with a level up to 7 the value only moves
\* towards it and never past it, and no call leaves a wrong value as it is.
Approaches ==
    [][level <= 7 =>
         /\ Approach(curValue, curValue', Target(level))
         /\ Callback /\ curValue # Target(level) => curValue' # curValue]_vars

\* A press on a screen that was switched off switches it on, however long the
\* finger stays.
Wakes == finger /\ ~curEn ~> (curEn \/ ~finger)

\* The screen goes dark at last, when nobody is near and nothing is touched,
\* if the user has not chosen "never": no call starts the clock again.
DarkAtLast ==
    <>[](~near /\ ~finger /\ timeout # Never) => <>[](~curEn)

\* Nobody is there, and the screen may go dark.
Idle == thread = "run" /\ ~near /\ ~finger /\ timeout # Never

\* How far a lit screen is from going dark: the start of the clock, and the
\* time until it has surely expired.
UntilDark ==
    IF ~curEn THEN 0
    ELSE IF since = NotStarted THEN ClockMax + 2 ELSE ClockMax + 1 - since

\* The safety half of DarkAtLast: an idle screen comes nearer to the dark with
\* every call that starts the clock or finds it expired, and with the time
\* between them; no step of anybody takes it back.
NearerToDark ==
    [][Idle /\ Idle' =>
         /\ UntilDark' <= UntilDark
         /\ curEn /\ Callback /\ (since = NotStarted \/ Expired) => UntilDark' < UntilDark
         /\ curEn /\ Tick /\ since # NotStarted /\ ~Expired => UntilDark' < UntilDark]_vars

\* A press that lights the screen, with nobody near, lights it for the time
\* the user chose: wallpaper_ui.c gives the times as "5s 60s 120s 5mins never".
LitForTimeout ==
    [][thread = "hold" /\ thread' = "run" /\ ~near => ~Expired']_vars
=============================================================================
