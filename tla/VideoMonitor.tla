---------------------------- MODULE VideoMonitor ----------------------------
(***************************************************************************)
(* The video monitor page (intercom_homepage/video_monitor/ui_monitor.c):  *)
(* its buttons on the UI thread, the thread rtsp_play that creates the     *)
(* player anew for each address, and the callback of the player, which the *)
(* library calls from a thread of its own.                                 *)
(*                                                                         *)
(* The player library is external.  It is modelled from how the page uses  *)
(* it: a player that was prepared may play, pause, stop, or end by itself, *)
(* reports each of these in order, and reports nothing after it was        *)
(* destroyed.  Calls on no player do nothing; calls on a destroyed one are *)
(* undefined.  The sound, scale and address settings are left out.         *)
(*                                                                         *)
(* The threads share current_state, desired_state, video_thread and        *)
(* pPlayer without a lock: each test of one of them, each store and each   *)
(* call of the library is a step of its own.                               *)
(***************************************************************************)
EXTENDS Integers, Sequences, SequencesExt

CONSTANT EventMax   \* bound: no button is pressed while so many reports wait

ASSUME EventMaxAssumption == EventMax \in Nat

VARIABLES
    alive,          \* the process runs
    page,           \* is the page open
    ui,             \* what the UI thread is doing
    after,          \* what it does after stop_player
    video,          \* is video_thread not 0
    pt,             \* where rtsp_play is
    ptr,            \* pPlayer: NULL, a live player, or one that was destroyed
    player,         \* the state of the player
    events,         \* what it has yet to report
    cb,             \* the report whose callback has stored current_state only
    current,        \* current_state
    desired         \* desired_state, "none" for BUTT

uiVars  == <<page, ui, after>>
lib     == <<player, events>>
states  == <<current, desired>>
vars    == <<alive, uiVars, video, pt, ptr, lib, cb, states>>

Events   == {"PLAY", "PAUSED", "STOPPED", "EOF", "ERROR"}
UiPlaces == {"idle", "which", "mayPause", "mayPlay", "wantPause", "wantPlay", "pause",
             "play", "stop", "stopping", "join", "joining", "create", "creating", "leave"}
PtPlaces == {"none", "start", "destroy", "clear", "init", "prepare", "desire", "play",
             "wait", "last", "ended"}
PtPlays  == {"desire", "play", "wait"}
PtOver   == {"none", "ended"}

TypeOK ==
    /\ alive \in BOOLEAN
    /\ page \in BOOLEAN
    /\ ui \in UiPlaces
    /\ after \in {"idle", "create", "leave"}
    /\ video \in BOOLEAN
    /\ pt \in PtPlaces
    /\ ptr \in {"null", "live", "freed"}
    /\ player \in {"none", "idle", "ready", "playing", "paused", "finished", "stopped"}
    /\ ptr = "live" <=> player # "none"
    /\ events \in Seq(Events)
    /\ cb \in Events \cup {"none"}
    /\ current \in {"BUTT", "IDLE", "PLAY", "PAUSE", "STOP"}
    /\ desired \in {"none", "PLAY", "PAUSE"}

Init ==
    /\ alive = TRUE /\ page = FALSE /\ ui = "idle" /\ after = "idle"
    /\ video = FALSE /\ pt = "none" /\ ptr = "null"
    /\ player = "none" /\ events = <<>> /\ cb = "none"
    /\ current = "BUTT" /\ desired = "none"

-----------------------------------------------------------------------------
(* The player library.                                                     *)

\* A call moves the player and is reported; any call may fail, and one that
\* finds no player, or not one it suits, does.
LibCall(from, to, event) ==
    \/ player \in from /\ player' = to /\ events' = Append(events, event)
    \/ UNCHANGED lib

LibPlay  == LibCall({"ready", "paused"}, "playing", "PLAY")
LibPause == LibCall({"playing"}, "paused", "PAUSED")
LibStop  == LibCall({"ready", "playing", "paused", "finished"}, "stopped", "STOPPED")

\* Undefined behaviour of a call on a destroyed player or of a join of 0.
Risk(undefined) == alive' \in {TRUE, ~undefined}

\* The stream ends or fails.
Finish ==
    /\ alive /\ player \in {"playing", "paused"} /\ player' = "finished"
    /\ \E e \in {"EOF", "ERROR"} : events' = Append(events, e)
    /\ UNCHANGED <<alive, uiVars, video, pt, ptr, cb, states>>

StateAfter == [PLAY |-> "PLAY", PAUSED |-> "PAUSE", STOPPED |-> "STOP",
               EOF |-> "STOP", ERROR |-> "STOP"]

\* Mutant: the callback keeps the state when it is told STOPPED.
ReportNoStop ==
    /\ alive /\ cb = "none" /\ events # <<>>
    /\ cb' = Head(events) /\ events' = Tail(events)
    /\ current' = (IF cb' = "STOPPED" THEN current ELSE StateAfter[cb'])
    /\ UNCHANGED <<alive, uiVars, video, pt, ptr, player, desired>>

\* PlayerEventFnTest: current_state first, ...
Report ==
    /\ alive /\ cb = "none" /\ events # <<>>
    /\ cb' = Head(events) /\ events' = Tail(events) /\ current' = StateAfter[cb']
    /\ UNCHANGED <<alive, uiVars, video, pt, ptr, player, desired>>

\* ... then desired_state; EOF clears only a desired stop, which nobody asks for.
Reported ==
    /\ alive /\ cb # "none" /\ cb' = "none"
    /\ desired' = IF \/ cb = "PLAY" /\ desired = "PLAY"
                     \/ cb = "PAUSED" /\ desired = "PAUSE"
                     \/ cb \in {"STOPPED", "ERROR"}
                  THEN "none" ELSE desired
    /\ UNCHANGED <<alive, uiVars, video, pt, ptr, lib, current>>

-----------------------------------------------------------------------------
(* rtsp_play.                                                              *)

PtAt(from, to) == alive /\ pt = from /\ pt' = to /\ UNCHANGED uiVars

\* A player of an earlier address is stopped and destroyed.
PtStart ==
    \/ /\ ptr = "null" /\ PtAt("start", "init")
       /\ UNCHANGED <<alive, video, ptr, lib, cb, states>>
    \/ /\ ptr # "null" /\ PtAt("start", "destroy") /\ LibStop
       /\ UNCHANGED <<alive, video, ptr, cb, states>>

PtDestroy ==
    /\ PtAt("destroy", "clear") /\ ptr' = "freed" /\ player' = "none" /\ events' = <<>>
    /\ UNCHANGED <<alive, video, cb, states>>

PtClear ==
    /\ PtAt("clear", "init") /\ ptr' = "null"
    /\ UNCHANGED <<alive, video, lib, cb, states>>

\* Mutant: a pointer to no player is kept.
PtInitHalf ==
    /\ PtAt("init", "prepare")
    /\ ptr' = "live" /\ player' \in {"idle", "none"}
    /\ UNCHANGED <<alive, video, events, cb, states>>

\* rkadk_init may fail, which only SetDataSource notices.
PtInit ==
    /\ PtAt("init", "prepare")
    /\ \/ ptr' = "live" /\ player' = "idle"
       \/ UNCHANGED <<ptr, player>>
    /\ UNCHANGED <<alive, video, events, cb, states>>

\* SetDataSource and Prepare: on failure the thread returns, and video_thread
\* stays for stop_player to join.
PtPrepare ==
    /\ \/ PtAt("prepare", "ended") /\ UNCHANGED player
       \/ ptr = "live" /\ PtAt("prepare", "desire") /\ player' = "ready"
    /\ UNCHANGED <<alive, video, ptr, events, cb, states>>

PtDesire ==
    /\ PtAt("desire", "play") /\ desired' = "PLAY"
    /\ UNCHANGED <<alive, video, ptr, lib, cb, current>>

PtPlay ==
    /\ PtAt("play", "wait") /\ LibPlay
    /\ UNCHANGED <<alive, video, ptr, cb, states>>

PtWait ==
    /\ current = "STOP" /\ PtAt("wait", "last")
    /\ UNCHANGED <<alive, video, ptr, lib, cb, states>>

PtLast ==
    /\ PtAt("last", "ended") /\ video' = FALSE
    /\ UNCHANGED <<alive, ptr, lib, cb, states>>

-----------------------------------------------------------------------------
(* The UI thread.                                                          *)

UiAt(from, to) == alive /\ ui = from /\ ui' = to

OpenPage ==
    /\ UiAt("idle", "idle") /\ ~page /\ page' = TRUE
    /\ UNCHANGED <<alive, after, video, pt, ptr, lib, cb, states>>

\* Mutant: start does not stop the player it replaces.
PressStartOnly ==
    /\ page /\ \/ UiAt("idle", "stop") /\ after' \in {"idle", "leave"}
               \/ UiAt("idle", "create") /\ desired = "none" /\ UNCHANGED after
    /\ UNCHANGED <<alive, page, video, pt, ptr, lib, cb, states>>

\* A button that begins with stop_player: start, unless the player has yet to
\* reach the desired state; pause without a thread, which is the same; stop;
\* and return.
Press ==
    /\ page /\ UiAt("idle", "stop") /\ after' \in {"idle", "create", "leave"}
    /\ after' = "create" => desired = "none"
    /\ UNCHANGED <<alive, page, video, pt, ptr, lib, cb, states>>

\* Pause and play share a button: which one it is depends on current_state.
PressPause ==
    /\ page /\ video /\ Len(events) < EventMax /\ UiAt("idle", "which")
    /\ UNCHANGED <<alive, page, after, video, pt, ptr, lib, cb, states>>

Which ==
    /\ \/ current = "PLAY" /\ UiAt("which", "mayPause")
       \/ current # "PLAY" /\ UiAt("which", "mayPlay")
    /\ UNCHANGED <<alive, page, after, video, pt, ptr, lib, cb, states>>

\* What is desired already is not asked for again.
May ==
    /\ \/ UiAt("mayPause", IF desired = "PAUSE" THEN "idle" ELSE "wantPause")
       \/ UiAt("mayPlay", IF desired = "PLAY" THEN "idle" ELSE "wantPlay")
    /\ UNCHANGED <<alive, page, after, video, pt, ptr, lib, cb, states>>

Want ==
    /\ \/ UiAt("wantPause", "pause") /\ desired' = "PAUSE"
       \/ UiAt("wantPlay", "play") /\ desired' = "PLAY"
    /\ UNCHANGED <<alive, page, after, video, pt, ptr, lib, cb, current>>

Pause ==
    /\ UiAt("pause", "idle") /\ LibPause /\ Risk(ptr = "freed")
    /\ UNCHANGED <<page, after, video, pt, ptr, cb, states>>

Play ==
    /\ UiAt("play", "idle") /\ LibPlay /\ Risk(ptr = "freed")
    /\ UNCHANGED <<page, after, video, pt, ptr, cb, states>>

\* stop_player: without a thread there is nothing to stop, ...
StopPlayer ==
    /\ \/ ~video /\ UiAt("stop", after)
       \/ video /\ UiAt("stop", "stopping")
    /\ UNCHANGED <<alive, page, after, video, pt, ptr, lib, cb, states>>

\* ... else its player is stopped, whatever the thread does meanwhile.
CallStop ==
    /\ UiAt("stopping", "join") /\ LibStop /\ Risk(ptr = "freed")
    /\ UNCHANGED <<page, after, video, pt, ptr, cb, states>>

\* video_thread is read again for pthread_join; by now the thread may have
\* cleared it.
ReadThread ==
    /\ \/ video /\ UiAt("join", "joining") /\ UNCHANGED alive
       \/ ~video /\ UiAt("join", after) /\ Risk(TRUE)
    /\ UNCHANGED <<page, after, video, pt, ptr, lib, cb, states>>

Join ==
    /\ UiAt("joining", after) /\ pt \in PtOver /\ video' = FALSE
    /\ UNCHANGED <<alive, page, after, pt, ptr, lib, cb, states>>

\* The state of the player before is forgotten, ...
Forget ==
    /\ UiAt("create", "creating") /\ current' = "IDLE"
    /\ UNCHANGED <<alive, page, after, video, pt, ptr, lib, cb, desired>>

\* ... and a thread is made; pthread_create may fail, which nothing notices.
Create ==
    /\ UiAt("creating", "idle")
    /\ \/ video' = TRUE /\ pt' = "start"
       \/ UNCHANGED <<video, pt>>
    /\ UNCHANGED <<alive, page, after, ptr, lib, cb, states>>

\* Mutant: rkadk_deinit is forgotten.
LeaveKeepsPlayer ==
    /\ UiAt("leave", "idle") /\ page' = FALSE
    /\ UNCHANGED <<alive, after, video, pt, ptr, lib, cb, states>>

\* rkadk_deinit, and the page is deleted.
Leave ==
    /\ UiAt("leave", "idle") /\ page' = FALSE
    /\ ptr' = "null" /\ player' = "none" /\ events' = <<>>
    /\ UNCHANGED <<alive, after, video, pt, cb, states>>

-----------------------------------------------------------------------------
Dead == ~alive /\ UNCHANGED vars

UiStep ==
    \/ Which \/ May \/ Want \/ Pause \/ Play
    \/ StopPlayer \/ CallStop \/ ReadThread \/ Join \/ Forget \/ Create \/ Leave

PtStep ==
    \/ PtStart \/ PtDestroy \/ PtClear \/ PtInit
    \/ PtPrepare \/ PtDesire \/ PtPlay \/ PtWait \/ PtLast

CbStep == Report \/ Reported

Next == OpenPage \/ Press \/ PressPause \/ UiStep \/ PtStep \/ CbStep \/ Finish \/ Dead

Spec == Init /\ [][Next]_vars

\* The threads run, and the library delivers what it has to report; a stream
\* need not end, and the user owes nothing.
FairSpec == Spec /\ WF_vars(UiStep) /\ WF_vars(PtStep) /\ WF_vars(CbStep)

\* The same with the guards in place of ENABLED: the UI thread can go on unless
\* it joins a thread that is not over, ...
UiCan == alive /\ ui # "idle" /\ (ui = "joining" => pt \in PtOver)

\* ... and rtsp_play unless the player has not ended.
PtCan == alive /\ pt \notin PtOver /\ (pt = "wait" => current = "STOP")

GuardedFairness ==
    /\ []<>~UiCan \/ []<><<UiStep>>_vars
    /\ []<>~PtCan \/ []<><<PtStep>>_vars

\* What the delivery of the reports comes to, however many wait: as long as no
\* new ones are made, there is an end of them.  It follows from FairSpec.
NewReport == \E e \in Events : events' = Append(events, e)

ReportsArrive == []<>(events = <<>> \/ ~alive) \/ []<><<NewReport>>_vars

-----------------------------------------------------------------------------
\* What the properties below rest on: video_thread is 0 only when the thread is
\* over, and start and return act only when it is 0.
Ownership ==
    /\ ~video => pt \in PtOver
    /\ ui \in {"create", "creating", "leave"} => ~video
    /\ pt = "clear" => ptr = "freed"
    /\ pt \in PtPlays => ptr = "live"
    /\ player = "none" => events = <<>>
    /\ ~page => ui = "idle" /\ ~video /\ ptr = "null"

\* A thread is started only when the one before has nothing left to do but
\* return: two would destroy each other's player and share video_thread.
OnePlayThread == [][pt' = "start" /\ pt # "start" => pt \in PtOver]_vars

\* After btn_return_cb no thread reads the address field, which is deleted
\* with the page, and no player is left to call back.
ClosedPageQuiet ==
    alive /\ ~page => pt \in PtOver /\ ptr = "null" /\ events = <<>> /\ ~video

\* rtsp_play itself works on a live player, or on none: no one else destroys
\* the player between its creation and its end.
ThreadOwnsPlayer ==
    alive /\ pt \in PtPlays => ptr = "live"

\* A stop that reaches a playing player ends: the join returns once the
\* player has reported, whatever the report finds desired.
StopEnds ==
    (ui \in {"join", "joining"} /\ pt = "wait" /\ Contains(events, "STOPPED"))
        ~> (ui \notin {"join", "joining"} \/ ~alive)

\* The safety half of StopEnds, and of the end of a stream: the report of the
\* end is the last one, and until it has come it is still to come.  PLAY and
\* PAUSED reports of the same player come before it, and a start, which
\* forgets the state, only after the thread is over.
EndNeverMissed ==
    pt \in PtPlays /\ player \in {"stopped", "finished"} =>
        IF events = <<>> THEN current = "STOP"
        ELSE Last(events) \in {"STOPPED", "EOF", "ERROR"}

=============================================================================
