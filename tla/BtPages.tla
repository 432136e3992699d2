------------------------------ MODULE BtPages ------------------------------
(***************************************************************************)
(* The pages that use Bluetooth, on top of its server (BtServer): the      *)
(* music player of the smart home page (smart_home/app_music.c) and the    *)
(* Bluetooth button of the settings page (setting/setting_ui.c).           *)
(*                                                                         *)
(* The UI thread runs one handler at a time, to its end: a timer, a press, *)
(* the opening or the closing of a page.  Most begin with bt_query_wait    *)
(* and go on, with what new_info then holds, to send commands they do not  *)
(* wait for.  task is the handler the thread is in; between two sends of   *)
(* one handler the server may run.  Both queries return at once, with      *)
(* new_info as it was, while the server does not listen.  (Each page has a *)
(* new_info of its own, which it reads only after a query has filled it:   *)
(* one variable stands for both.)                                          *)
(*                                                                         *)
(* Left out: the volume and mute counters, which only choose the argument  *)
(* of a BT_MEDIA command; the texts and symbols; and what last_state holds *)
(* of a Bluetooth that is not off.                                         *)
(* The Bluetooth submenu (bt_ui.c) is never opened: its button toggles.    *)
(***************************************************************************)
EXTENDS BtServer

CONSTANT ClickMax       \* bound: the commands the user clicks into the pipe

ASSUME ClickMaxAssumption == ClickMax \in Nat

VARIABLES
    page,               \* the page that is open, as far as Bluetooth goes
    task,               \* the handler the UI thread is in
    lastOff,            \* the static last_state of bt_timer_cb is OFF
    sinkEnabled,        \* bt_sink_enabled
    blue                \* the colour of ui_bt is HL_BLUE

pageVars == <<page, task, lastOff, sinkEnabled, blue>>
allVars  == <<vars, pageVars>>

Asking == {"music", "press", "position", "bt", "setting", "poll"}

PagesTypeOK ==
    /\ TypeOK
    /\ page \in {"none", "music", "setting"}
    /\ task \in Asking \cup {"none", "track"}
    /\ lastOff \in BOOLEAN
    /\ sinkEnabled \in BOOLEAN
    /\ blue \in BOOLEAN

\* RK_BT_STATE_NONE, which last_state starts with, is BT_STATE_OFF.
PagesInit ==
    /\ Init
    /\ page = "none" /\ task = "none"
    /\ lastOff = TRUE /\ sinkEnabled = FALSE /\ blue = FALSE

\* The commands one handler may send at most: its clears, or any other one.
Clears == IF Flags = {"track", "pos"} THEN 2 ELSE 1

\* The commands that may wait to be read: those of the last handler of the
\* music page, the one that closes it and the query of the next page; or the
\* clicks on the settings page and that query.
Backlog == IF ClickMax > Clears + 1 THEN ClickMax + 1 ELSE Clears + 2

\* The bound of BtServer never holds a handler back.
ASSUME RoomAssumption == QueueMax >= Backlog

-----------------------------------------------------------------------------
(* What every handler is made of.                                          *)

\* Mutant: the handlers do not wait for the answer.
BeginNoWait(t, p) ==
    /\ task = "none" /\ page = p /\ task' = t
    /\ IF listening THEN QueryNoWait ELSE UNCHANGED vars
    /\ UNCHANGED <<page, lastOff, sinkEnabled, blue>>

\* A handler begins, on a page, with its query.
Begin(t, p) ==
    /\ task = "none" /\ page = p /\ task' = t
    /\ IF listening THEN Query ELSE UNCHANGED vars
    /\ UNCHANGED <<page, lastOff, sinkEnabled, blue>>

\* It goes on when the query has returned.
Resumed(t) == task = t /\ ui = "idle"

\* bt_query, which sends nothing while the server does not listen.
Tell(c) == IF listening THEN Send(c) ELSE UNCHANGED vars

\* A flag in the answer, for the flags that are modelled.
Changed(f) == f \in Flags /\ newInfo.changed[f]

-----------------------------------------------------------------------------
(* The music player.                                                       *)

\* app_music_init, after its query.
OpenMusic ==
    /\ Resumed("music") /\ task' = "none" /\ page' = "music"
    /\ sinkEnabled' = (newInfo.state # "OFF")
    /\ IF newInfo.state = "OFF" THEN Tell("SINK_ENABLE") ELSE UNCHANGED vars
    /\ UNCHANGED <<lastOff, blue>>

\* btn_cb, after its query: one command, if a player is connected.
PressMusic ==
    /\ Resumed("press") /\ task' = "none"
    /\ IF newInfo.state \in {"OFF", "ON"} THEN UNCHANGED vars ELSE Tell("MEDIA")
    /\ UNCHANGED <<page, lastOff, sinkEnabled, blue>>

\* pos_timer_cb, after its query, up to the position.
ShowPosition ==
    /\ Resumed("position")
    /\ IF Changed("pos") THEN Tell("pos") ELSE UNCHANGED vars
    /\ task' = IF Changed("pos") \/ newInfo.state = "PLAYING"
               THEN "track" ELSE "none"
    /\ UNCHANGED <<page, lastOff, sinkEnabled, blue>>

\* The rest of pos_timer_cb: the title.
ShowTrack ==
    /\ Resumed("track") /\ task' = "none"
    /\ IF Changed("track") THEN Tell("track") ELSE UNCHANGED vars
    /\ UNCHANGED <<page, lastOff, sinkEnabled, blue>>

\* bt_timer_cb, after its query: Bluetooth that went off is switched on, once.
KeepOn ==
    /\ Resumed("bt") /\ task' = "none"
    /\ LET wentOff == ~lastOff /\ newInfo.state = "OFF" IN
        /\ IF wentOff THEN Tell("ENABLE") ELSE UNCHANGED vars
        /\ sinkEnabled' = (sinkEnabled \/ ~wentOff)
    /\ lastOff' = (newInfo.state = "OFF")
    /\ UNCHANGED <<page, blue>>

\* app_music_deinit.
CloseMusic ==
    /\ task = "none" /\ page = "music" /\ page' = "none"
    /\ IF sinkEnabled THEN Tell("MEDIA") ELSE UNCHANGED vars
    /\ sinkEnabled' = FALSE
    /\ UNCHANGED <<task, lastOff, blue>>

-----------------------------------------------------------------------------
(* The settings page.                                                      *)

\* setting_ui_init, after its query.
OpenSetting ==
    /\ Resumed("setting") /\ task' = "none" /\ page' = "setting"
    /\ blue' = (newInfo.state # "OFF")
    /\ UNCHANGED <<vars, lastOff, sinkEnabled>>

\* state_update, after its query.
Poll ==
    /\ Resumed("poll") /\ task' = "none"
    /\ blue' = (newInfo.state # "OFF")
    /\ UNCHANGED <<vars, page, lastOff, sinkEnabled>>

\* switch_toggled: the colour decides, and changes before the state does.
Toggle ==
    /\ task = "none" /\ page = "setting" /\ Len(pipe) < ClickMax
    /\ Tell(IF blue THEN "DISABLE" ELSE "ENABLE")
    /\ blue' = ~blue
    /\ UNCHANGED <<page, task, lastOff, sinkEnabled>>

\* btn_return_cb.
CloseSetting ==
    /\ task = "none" /\ page = "setting" /\ page' = "none"
    /\ UNCHANGED <<vars, task, lastOff, sinkEnabled, blue>>

-----------------------------------------------------------------------------

Begins == \/ Begin("music", "none") \/ Begin("setting", "none")
          \/ Begin("press", "music") \/ Begin("position", "music")
          \/ Begin("bt", "music") \/ Begin("poll", "setting")
Goes   == \/ OpenMusic \/ PressMusic \/ ShowPosition \/ ShowTrack \/ KeepOn
          \/ OpenSetting \/ Poll
Closes == CloseMusic \/ CloseSetting

PagesNext ==
    \/ Begins \/ Goes \/ Closes \/ Toggle
    \/ (QueryReturns \/ Server \/ Callback) /\ UNCHANGED pageVars

PagesSpec == PagesInit /\ [][PagesNext]_allVars

\* The server and its waiter as in BtServer; and a handler that has begun
\* runs on when it is not blocked.
PagesFairness ==
    /\ WF_allVars(Server /\ UNCHANGED pageVars)
    /\ WF_allVars(QueryReturns /\ UNCHANGED pageVars)
    /\ WF_allVars(Goes)

FairPages == PagesSpec /\ PagesFairness

-----------------------------------------------------------------------------

\* On the music page at most the commands of one handler and the query of the
\* next wait to be read, however long the server was busy and whatever the
\* pages before have left in the pipe: a handler that sends two commands
\* without waiting is never followed by a second one before the server has
\* read both.  (One read takes all of them and handles the first.)
MusicPipeShort == page = "music" => Len(pipe) <= Clears + 1

\* Every handler of the UI thread ends, unless the query it waits for was
\* read behind a command of the handler before it.
HandlersEnd == task # "none" ~> (task = "none" \/ Lost)

\* PagesFairness with its guards in place of ENABLED: the server can go on
\* unless it has nothing to read, ...
ServerCan == srv # "read" \/ pipe # <<>>

\* ... the waiter when its answer has been posted, ...
Answered == ui = "waiting" /\ sem > 0

\* ... and the handler when it is not blocked.
HandlerCan == task # "none" /\ ui = "idle"

GuardedFairness ==
    /\ []<>~ServerCan \/ []<><<Server /\ UNCHANGED pageVars>>_allVars
    /\ []<>~Answered \/ []<><<QueryReturns /\ UNCHANGED pageVars>>_allVars
    /\ []<>~HandlerCan \/ []<><<Goes>>_allVars

=============================================================================
