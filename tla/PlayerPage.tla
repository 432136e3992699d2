----------------------------- MODULE PlayerPage -----------------------------
(***************************************************************************)
(* The video player page (furniture_control/player_ui.c): the buttons and  *)
(* the list of files on the UI thread, and the callback of the player,     *)
(* which the library calls from a thread of its own.  The page never asks  *)
(* the player what it is doing: it remembers what the callback stored in   *)
(* play_flag and play_end.                                                 *)
(*                                                                         *)
(* The player library is external, modelled from how the page uses it: a   *)
(* call changes the player and is reported, or fails; reports are          *)
(* delivered one at a time and in order; a player that was destroyed       *)
(* reports nothing more, but a callback it has begun goes on.  The names   *)
(* of the files, the layout and the display layer are left out.            *)
(***************************************************************************)
EXTENDS Integers, Sequences

CONSTANT EventMax   \* bound: no player button while so many reports wait

ASSUME EventMaxAssumption == EventMax \in Nat

VARIABLES
    page,           \* is the page open
    ui,             \* what the UI thread is doing
    after,          \* where it goes after rkadk_deinit
    box,            \* video_list_box: NULL, the list, or a list that was deleted
    chosen,         \* does video_label name a file
    player,         \* the state of *pPlayer, "none" if pPlayer is NULL
    events,         \* what the player has yet to report
    cb,             \* the report whose callback has made its first store only
    playFlag,       \* play_flag
    playEnd         \* play_end

screen == <<page, box, chosen>>
lib    == <<player, events>>
flags  == <<playFlag, playEnd>>
vars   == <<ui, after, screen, lib, cb, flags>>

Events   == {"PREPARED", "PLAY", "PAUSED", "STOPPED", "EOF", "ERROR"}
UiPlaces == {"idle", "destroy", "clear", "create", "reset", "source", "play", "clearEnd",
             "test", "stop", "resume", "pause", "leave"}

TypeOK ==
    /\ page \in BOOLEAN
    /\ ui \in UiPlaces
    /\ after \in {"create", "leave"}
    /\ box \in {"null", "live", "freed"}
    /\ chosen \in BOOLEAN
    /\ player \in {"none", "idle", "ready", "playing", "paused", "finished", "stopped"}
    /\ events \in Seq(Events)
    /\ cb \in Events \cup {"none"}
    /\ playFlag \in BOOLEAN
    /\ playEnd \in BOOLEAN
    /\ ~page => ui = "idle"

Init ==
    /\ page = FALSE /\ ui = "idle" /\ after = "create"
    /\ box = "null" /\ chosen = FALSE
    /\ player = "none" /\ events = <<>> /\ cb = "none"
    /\ playFlag = FALSE /\ playEnd = FALSE

-----------------------------------------------------------------------------
(* The player library.                                                     *)

LibCall(from, to, event) ==
    \/ player \in from /\ player' = to /\ events' = Append(events, event)
    \/ UNCHANGED lib

LibPrepare == LibCall({"idle", "stopped"}, "ready", "PREPARED")
LibPlay    == LibCall({"ready", "paused"}, "playing", "PLAY")
LibPause   == LibCall({"playing"}, "paused", "PAUSED")
LibStop    == LibCall({"ready", "playing", "paused", "finished"}, "stopped", "STOPPED")

\* The video ends or fails.
Finish ==
    /\ player \in {"playing", "paused"} /\ player' = "finished"
    /\ \E e \in {"EOF", "ERROR"} : events' = Append(events, e)
    /\ UNCHANGED <<ui, after, screen, cb, flags>>

\* PlayerEventFnTest: the first store of the callback, ...
Report ==
    /\ cb = "none" /\ events # <<>>
    /\ cb' = Head(events) /\ events' = Tail(events)
    /\ playFlag' = (IF cb' = "PLAY" THEN TRUE
                    ELSE IF cb' \in {"EOF", "PAUSED"} THEN FALSE ELSE playFlag)
    /\ playEnd' = (playEnd /\ cb' # "PREPARED")
    /\ UNCHANGED <<ui, after, screen, player>>

\* ... and the second one.
Reported ==
    /\ cb # "none" /\ cb' = "none"
    /\ playFlag' = (playFlag /\ cb # "PREPARED")
    /\ playEnd' = (IF cb = "EOF" THEN TRUE ELSE IF cb = "PLAY" THEN FALSE ELSE playEnd)
    /\ UNCHANGED <<ui, after, screen, lib>>

-----------------------------------------------------------------------------
(* The UI thread.                                                          *)

UiAt(from, to) == ui = from /\ ui' = to

\* player_ui_init: a new label without a name.
OpenPage ==
    /\ UiAt("idle", "idle") /\ ~page /\ page' = TRUE /\ chosen' = FALSE
    /\ UNCHANGED <<after, box, lib, cb, flags>>

\* player_list_button_callback; the directory may be missing.
PressList ==
    /\ page /\ UiAt("idle", "idle")
    /\ box' \in (IF box = "null" THEN {"null", "live"} ELSE {"null"})
    /\ UNCHANGED <<after, page, chosen, lib, cb, flags>>

\* video_name_callback, up to the test of pPlayer.
Choose ==
    /\ page /\ box = "live"
    /\ UiAt("idle", IF player = "none" THEN "create" ELSE "destroy")
    /\ chosen' = TRUE /\ box' = "null" /\ after' = "create"
    /\ UNCHANGED <<page, lib, cb, flags>>

\* rkadk_deinit: the player goes, ...
Destroy ==
    /\ UiAt("destroy", "clear") /\ player' = "none" /\ events' = <<>>
    /\ UNCHANGED <<after, screen, cb, flags>>

\* ... and then play_flag is cleared.
Clear ==
    /\ UiAt("clear", after) /\ playFlag' = FALSE
    /\ UNCHANGED <<after, screen, lib, cb, playEnd>>

\* rkadk_init; the failure of RKADK_PLAYER_Create is not noticed.
Create ==
    /\ UiAt("create", "reset") /\ player' \in {"idle", "none"}
    /\ UNCHANGED <<after, screen, events, cb, flags>>

Reset ==
    /\ UiAt("reset", "source") /\ playFlag' = FALSE
    /\ UNCHANGED <<after, screen, lib, cb, playEnd>>

\* SetDataSource and Prepare: a failure is printed, and Play called all the same.
Source ==
    /\ UiAt("source", "play") /\ LibPrepare
    /\ UNCHANGED <<after, screen, cb, flags>>

Play ==
    /\ UiAt("play", "clearEnd") /\ LibPlay
    /\ UNCHANGED <<after, screen, cb, flags>>

\* Mutant: both flags are reset after the call.
ClearBoth ==
    /\ UiAt("clearEnd", "idle") /\ playEnd' = FALSE /\ playFlag' = FALSE
    /\ UNCHANGED <<after, screen, lib, cb>>

ClearEnd ==
    /\ UiAt("clearEnd", "idle") /\ playEnd' = FALSE
    /\ UNCHANGED <<after, screen, lib, cb, playFlag>>

\* player_start_button_callback reads play_flag first ...
PressStart ==
    /\ page /\ chosen /\ Len(events) < EventMax
    /\ UiAt("idle", IF playFlag THEN "stop" ELSE "test")
    /\ UNCHANGED <<after, screen, lib, cb, flags>>

\* ... and play_end after it.
TestEnd ==
    /\ UiAt("test", IF playEnd THEN "stop" ELSE "resume")
    /\ UNCHANGED <<after, screen, lib, cb, flags>>

Stop ==
    /\ UiAt("stop", "source") /\ LibStop
    /\ UNCHANGED <<after, screen, cb, flags>>

Resume ==
    /\ UiAt("resume", "idle") /\ LibPlay
    /\ UNCHANGED <<after, screen, cb, flags>>

\* player_stop_button_callback, which pauses.
PressPause ==
    /\ page /\ playFlag /\ Len(events) < EventMax /\ UiAt("idle", "pause")
    /\ UNCHANGED <<after, screen, lib, cb, flags>>

Pause ==
    /\ UiAt("pause", "idle") /\ LibPause
    /\ UNCHANGED <<after, screen, cb, flags>>

\* Mutant: the page is closed before the player.
ReturnClosed ==
    /\ page /\ UiAt("idle", "destroy") /\ after' = "leave" /\ page' = FALSE
    /\ box' = (IF box = "live" THEN "freed" ELSE box)
    /\ UNCHANGED <<chosen, lib, cb, flags>>

\* btn_return_cb: the list is deleted with the page.
Return ==
    /\ page /\ UiAt("idle", "destroy") /\ after' = "leave"
    /\ box' = (IF box = "live" THEN "freed" ELSE box)
    /\ UNCHANGED <<page, chosen, lib, cb, flags>>

\* Mutant: video_list_box is not cleared.
LeaveKeepsBox ==
    /\ UiAt("leave", "idle") /\ page' = FALSE /\ playFlag' = FALSE
    /\ UNCHANGED <<after, box, chosen, lib, cb, playEnd>>

Leave ==
    /\ UiAt("leave", "idle") /\ page' = FALSE /\ box' = "null" /\ playFlag' = FALSE
    /\ UNCHANGED <<after, chosen, lib, cb, playEnd>>

-----------------------------------------------------------------------------
Button == OpenPage \/ PressList \/ Choose \/ PressStart \/ PressPause \/ Return

UiStep ==
    \/ Destroy \/ Clear \/ Create \/ Reset \/ Source \/ Play \/ ClearEnd
    \/ TestEnd \/ Stop \/ Resume \/ Pause \/ Leave

Callback == Finish \/ Report \/ Reported

Next == Button \/ UiStep \/ Callback

Spec == Init /\ [][Next]_vars

-----------------------------------------------------------------------------
Told == events = <<>> /\ cb = "none"

\* play_flag and play_end follow the player through every order of presses,
\* reports and new players: once its reports are delivered, the stop button is
\* never deaf to a video that plays, and start resumes a paused one instead of
\* playing it from the beginning.
FlagsFollowPlayer ==
    Told => /\ player = "playing" => playFlag
            /\ player = "paused" => ~playFlag /\ ~playEnd

\* A closed page leaves no player, no report to come and no list behind, and
\* the list button never finds a list that was deleted with the page.
PageOwns ==
    /\ ~page => player = "none" /\ events = <<>> /\ box = "null"
    /\ ui = "idle" => box # "freed"

\* Why the flags follow: the last report tells what the player does, ...
LastReport(event, flag) ==
    IF events # <<>> THEN events[Len(events)] = event
    ELSE playFlag = flag /\ cb \in {"none", event}

FlagTold ==
    /\ player = "playing" => LastReport("PLAY", TRUE)
    /\ player = "paused" => LastReport("PAUSED", FALSE)

\* ... and an EOF still to be told is one of an earlier run, with the PLAY of
\* this one behind it.
EndTold == player \in {"playing", "paused"} =>
    \/ \E i \in 1 .. Len(events) :
          events[i] = "PLAY" /\ \A j \in i + 1 .. Len(events) : events[j] # "EOF"
    \/ /\ \A j \in 1 .. Len(events) : events[j] # "EOF"
       /\ cb = "PLAY" \/ (cb # "EOF" /\ ~playEnd)

\* Where the player is between two steps of the UI thread.
Between ==
    /\ player = "none" => events = <<>>
    /\ ui \in {"clear", "create", "leave"} => player = "none"
    /\ ui = "reset" => player \in {"none", "idle"}
    /\ ui \in {"destroy", "clear"} /\ after = "create" => box # "freed"
    /\ ui \notin {"destroy", "clear", "leave"} => box # "freed"
    /\ ~page => player = "none" /\ box = "null"
    /\ ui = "leave" => after = "leave"
=============================================================================
