# Verification of the RK LVGL demo

The demo in `src/rk_demo` is a touch-screen program on LVGL: a home screen with
pages for smart home apps, an intercom, furniture control and settings. LVGL is
single-threaded, and so is most of the program. What is hard is the rest: the
threads that carry a call, play a video, listen and speak, or serve Bluetooth
and Wi-Fi, all of which share plain variables with the UI thread, without a
lock anywhere, and which the UI thread starts, polls, tells to stop and joins.
What the one UI thread does by itself is hard where handlers leave something to
the next one: a page that must undo what its init did, a picture that three
pages share, a clock that one timer starts, compares and stops. This directory
models both in TLA+, checks them with TLC, and proves their most important
invariants with TLAPS.

Contents: [the system](#the-system) · [the plan](#the-plan) ·
[the modules](#the-modules) · [the runs](#the-runs) · [fairness](#fairness) ·
[the proofs](#the-proofs) · [assumptions](#assumptions) ·
[what the code does not promise](#what-the-code-does-not-promise) ·
[what is not modelled](#what-is-not-modelled) · [how to run it](#how-to-run-it)

## The system

Every component runs on, or talks to, the one UI thread (LVGL's loop in
`main.c`). An event handler that blocks freezes the whole screen.

| Component | State | Operations | Talks to |
|---|---|---|---|
| Intercom call: page `intercom_call/ui_intercom_call.c`, `rockit/audio_server.c`, `audio_client.c`, `audio_in.c`, `audio_out.c` | `struct audio_server` (fd, state, client, thread), `struct audio_client` (fd, state, thread), static `last_state`, the button's label | call, hang up, poll every 100 ms, leave; listen, accept, call back, play; capture and send | the server thread, one capture thread per client, another device over TCP port 9999; cancellation and joins |
| Bluetooth server: `wifibt/bt_server.c` | `listening`, the pipe `fd`, the semaphore `sem`, `bt_content.init`, `bt_info` | `bt_query`, `bt_query_wait`; ENABLE, DISABLE, SINK_*, INFO, *_CLEAR; the state callback | UI thread (pipe, semaphore, the caller's buffer), the library's callback thread |
| Tile layout: `layout/tile_layout.c` | the bit map of a page | new item, new page | the pages that place apps: `smart_home_ui.c`, `ui_intercom_homepage.c` |
| Voice recognition: `asr/audio.c`, `asr/asr.c` | `running`, the pipe `cmd_fd`, the two thread ids, `wakeup`, `wake_update`, the icon | start, stop; listen, understand, answer; a UI timer | smart home page; two threads; a pipe between them; variables polled by the timer |
| Video monitor: `video_monitor/ui_monitor.c` | `pPlayer`, `video_thread`, `current_state`, `desired_state` | start, pause/play, stop, return; create, play, wait, destroy; player reports | play thread, the player library's callback thread |
| Video player page: `furniture_control/player_ui.c` | `pPlayer`, `play_flag`, `play_end`, `video_list_box`, the file name in a label | list, choose, start, stop (pauses), return; player reports | the player library's callback thread |
| Wi-Fi menu and server: `setting/wifi_ui.c`, `wifibt/wifi_server.c` | `wifi_state`, `rkwifi_gonff`, `wifi_result`, `waiting_scanning`, `item_label_current`, the password dialog, two lists of buttons | open, close, scan, toggle, connect, dialog, a timer every second | server thread (pipe), the Wi-Fi library's callback thread |
| Music page: `smart_home/app_music.c` | a static command and a copy of `bt_info`, `last_state`, `bt_sink_enabled` | open, close, buttons, two timers | Bluetooth server |
| Settings page: `setting/setting_ui.c` and its menus | `submenu_desc[].menu`, `cur_menu`, the mask, the poll's timer, the colour of the Bluetooth button | open, close, show a submenu, toggle Bluetooth, poll | Bluetooth and Wi-Fi servers; the wallpaper |
| Pages: `home/home_ui.c`, `smart_home_ui.c`, `furniture_control/*.c`, `ui_intercom_homepage.c` | each page's `main`, `bg_snapshot`, the date's timer, the hidden wallpaper | every init, every return, every jump, `rk_demo_bg_*` | each other |
| Button matrix: `ui_btnmatrix.c` | a map of taken cells, the pages' pointers to their buttons | create | the home, settings, furniture and player pages |
| Backlight: `main.c` | `backlight_level`, `backlight_en`, `cur_en`, `cur_value`, `last_value`, `start_tick`, LVGL's inputs | three timers, touch feedback, the choice of a timeout | two sensors, LVGL's input devices |
| Toast, local address, headers of libraries, fonts | — | — | — |

What is hard in each, and what makes it correct:

* **Intercom call.** Three kinds of threads share `state` and `client`; stores
  overwrite each other (a hang-up against `state = RUNNING`), a pointer dangles
  for two lines, the page cancels a thread that may be in a call, and one of
  two sides closes the listening socket. Correct means: the thread that calls
  and the threads that capture use nothing freed, nothing is closed or deleted
  twice, cancellation strikes between two calls, a client the server made goes
  with its call, a hang-up ends the call, the page can be left. More than that
  the code does not keep: the UI's poll and the clients of a dial are under
  [what the code does not promise](#what-the-code-does-not-promise).
* **Bluetooth server.** One `read` takes every command in the pipe and handles
  the first. A query that waits may therefore be dropped, and its sender then
  waits for ever. Correct means: a query is answered once, the answer is
  copied while the sender waits, and it is lost only in that one way.
* **Tile layout.** A macro without brackets, an edge test with `==`. Correct
  means: apps do not overlap or stick out, and the loop ends if every app fits.
* **Voice recognition.** Threads joined by the UI while they may be blocked in
  a read or busy; flags stored without order. Correct means: no thread is left
  behind or uses a closed pipe, the page can be left, the icon disappears.
* **Video monitor.** A thread that makes and destroys the player while the UI
  calls it, `video_thread` cleared by one thread and joined by the other.
  Correct means: one thread at a time, which owns its player, nothing left
  behind by a closed page, and a stop that reaches the player ends.
* **Video player page.** Flags that remember what the player last reported,
  written by both threads. Correct means: they agree with the player.
* **Wi-Fi menu.** Pointers to widgets that other callbacks delete, at moments
  that reports of a library decide. Correct means: none is used after that.

* **Bluetooth pages.** Handlers that begin with a query they wait for and end
  with up to two commands they do not. Correct means: on the music page never more
  waits than one handler's commands and the next query, and every handler ends unless its query was lost.
* **Pages.** No reference counts: a handler makes the next page, then deletes
  its own with timers and submenus, whose pointers are statics. Correct means:
  one page at a time, nothing left of another, no freed picture shown.
* **Button matrix, coffees.** First fit on a small grid; zones of a scroll
  position. Correct means: every button has its place, the coffee that is named is
  enlarged and those beside it are not.
* **Backlight.** Light, inputs and clock are kept in step by comparing with the
  last value. Correct means: a dark screen can always be woken, an idle one
  goes dark, the value arrives at every level of the table.

`PROJECT.json` lists every component with what is left out of it, every hazard
at its line, and for each the properties that would catch it.

## The plan

Modules in the order of their importance, those marked done exist:

1. `AudioServer` with the abstract `CallLine` — done.
2. `BtServer` with the abstract `QueryReply` — done.
3. `TileLayout` — done.
4. `Asr` — done.
5. `VideoMonitor` — done.
6. `WifiPage`: the Wi-Fi server composed with its only client — done.
7. `PlayerPage` — done.
8. `BtPages`: the music page and the settings page on `BtServer` — done.
9. `Pages` with `SettingsPage`, `ButtonMatrix`, `CoffeeMachine` — done.
10. `Backlight` — done.

What would come next: two `AudioServer`s calling each other, in place of the
arbitrary remote, and an abstract player that `VideoMonitor` and `PlayerPage`
share.

Every module takes its bounds as CONSTANTS with a named assumption, has one
action per step of a thread, and declares no RECURSIVE operator, so that each
can be proved about as it is checked. The invariants are conjunctions of named
parts. Definitions marked "Mutant:" in a comment are deliberate mistakes, used
to show that a property notices them; they are no part of any `Next`.

## The modules

A step of a model is one access to a variable another thread reads or writes,
or a call of a library, together with the private work around it. Places of
threads (`st`, `cap`, `srv`, `pt`, `ui`...) are named for what the thread does
next. `alive` becomes FALSE where the code ends the process or is undefined.
`map` in `PROJECT.json` gives the source lines of every definition.

**AudioServer** (`CallLine`, `MCAudioServer`, `AudioServer_proofs`). The page's
callbacks are `OpenPage`; the call button `UiPress`, `UiConnect` and `UiDial` or
`UiDisconnect` and `UiPause`; the poll `PollTest`, `PollRead` and `PollUse`, one for
each time it looks at the pointer or follows it; and `Back`/`BackNoThread`/
`UiJoined`. A poll that follows a freed client finds anything (`RunningSeen`). The server
thread runs `ThreadStart`, `Listen`, `Accept`, `ConnectBack`, `ThreadDial`,
`AoInit`, `SetRunning`, `PushTest`, `ReadData`, `PushFails`, `AoDeinit`,
`CloseRemote`, then deletes its client (`DelClient`, `JoinClient`,
`ClearClient`), resumes, and in the end closes the socket (`CloseFd`,
`ClearFd`) or is `Cancelled`. A capture thread runs the `Cap...` actions. The
media library's calls succeed or fail. `CallLine` is the abstract view: the
line is closed, listening or connected, and the speaker is on only while it is
connected; `CallLineImplemented` is the refinement, with the line read off
`remote` and `lsock`.

**BtServer** (`QueryReply`, `MCBtServer`, `BtServer_proofs`). `Send` and `Query`
are `bt_query` and `bt_query_wait` up to its `sem_wait`; `Read` empties the
pipe; one action per command; `BleInit`, `WaitSecond` and `WaitEnds` are the
three-second wait of BT_ENABLE; `InitOn`, `InitOff`, `LinkState` and
`SinkReport` are the callback. The commands that only call the library are one.
`QueryReply` is what `bt_query_wait` promises its caller: its buffer is written
once per query, with something the server knew after the question, before the
call returns; or the query is lost and never answered.

**BtPages** (`MCBtPages`, proofs in `BtServer_proofs`) extends `BtServer` with its
users. A handler of the UI thread is `Begin` (its `bt_query_wait`) and, when that
has returned, `OpenMusic`, `PressMusic`, `ShowPosition` and `ShowTrack`, `KeepOn`,
`OpenSetting` or `Poll`, which send commands with `Tell` (`bt_query`);
`CloseMusic`, `CloseSetting` and `Toggle` do not ask. What is proved of `BtServer`
for an arbitrary user holds for the pages too: each of their steps is one of that
user's, by the way they are written (lemma `PagesAreUsers`).

**TileLayout** (`MCTileLayout`, `TileLayout_proofs`). `Bit` is the macro as it
expands, `IsFreeArea` and `MarkArea` the functions that use it, `NewItem` the
search for the first free place, `NewPage` and the specification the loops of
the two callers. An app may be larger than a page: nothing looks.

**Asr** (`MCAsr`, `Asr_proofs`). `asr_audio_init` is `OpenPage`,
`asr_audio_deinit` the chain `Stop`, `Tell`, `JoinCap`, `JoinPlay`, `Close`; the
timer is `TimerWake`, `TimerTest`, `TimerReset`; docap is `CapOpen`, the `Hear...`
actions, `AnswerCmd`, `CapBye`; doplay the `Play...` actions. The stores of
`asr_update` have no order (`StoreSeen`). Which command was heard is abstracted.

**VideoMonitor** (`MCVideoMonitor`, `VideoMonitor_proofs`). `rtsp_play` is the
chain of `Pt...` actions, the callbacks are `Press`, `PressPause` and the steps
they lead to, one for each test, store and call (`StopPlayer`, `CallStop`,
`ReadThread`, `Join`, `Forget`, `Create`, `Leave`; `Which`, `May`, `Want`, `Pause`,
`Play`); any call of the player may fail. The player callback is `Report` and `Reported` with the two stores it
makes. Undefined behaviour (a call on a destroyed player, a join of thread 0)
may go well or end the process: `Risk`.

**PlayerPage** (`MCPlayerPage`, `PlayerPage_proofs`). `Choose` leads through
`Destroy`, `Clear`, `Create`, `Reset`, `Source`, `Play`, `ClearEnd`, the lines of
`video_name_callback`; `PressStart` reads the two flags one after the other and
restarts (`Stop`, `Source`, ...) or resumes; `PressPause` is the stop button.
`Report` and `Reported` are the callback's stores, in their order.

**WifiPage** (`MCWifiPage`, proofs in `Pages_proofs`). `Boot` and `Serve` are the server,
`StateReport` and `ScanReport` the library, one store in each step, the others the
menu's callbacks; `Open`, `OpenSaved` and `OpenScan` are the parts of
`menu_wifi_init`, `Update`, `UpdateState`, `UpdateScan` and `ShowFound` those of the
timer that runs every second, between which a report may come in.

**Pages** (`MCPages`, `Pages_proofs`; `ButtonMatrix`, `CoffeeMachine`,
`SettingsPage`). `ui` holds the
objects; each `...Init` and `Deleted` says what the code's calls do to it, and an
action is one handler, from the press to its end. `BgSetImg`, `Snapshot`, `BgHide`
and `BgShow` are the functions around the wallpaper. `ButtonMatrix` computes the
places of the buttons: `PlaceNext` is one turn of the loop of `ui_btnmatrix_create`
and `Placed` the loop, as a recursive function. `CoffeeMachine` has the coffees,
whose row a scroll event may move anywhere,
`SettingsPage` the submenus with their mask and the calendar and time popups.

**Backlight** (`MCBacklight`, `Backlight_proofs`). `Callback` is `backlight_cb` up to
the wait for a release, `Wake` its rest; `Toward`, `Clock`, `Light` and `Look` are
its pieces; `Targets` is `level_to_brightness`, which past the table may return
anything of `Garbage`. `Touch` and `PickTimeout` are LVGL's reading of the inputs,
`ReadLevel` and `ReadNear` the sensors' timers, `Tick` and `Finger` the world.

## The runs

| Run | Question | Bounds | States |
|---|---|---|---|
| `call_safety` | memory, socket, cancellation and refinement of the call | two clients ever allocated, as symmetric model values | 819 814 |
| `call_live` | does hanging up, does leaving end, do the clients the server makes end with their calls? | one client | 27 678 |
| `bt_pages` | do the pages keep the pipe short, lose a query only behind another command, get answers to the rest, and end? | five commands in the pipe, one click waiting, both changed flags | 1 346 866 |
| `bt_profile` | is the profile set only in an initialised stack? **No** | one command in the pipe | — |
| `tile_layout` | overlap, edge, end, for every list of five apps | 3 x 2 tiles, apps of every size and one too wide | 118 896 |
| `asr` | threads, pipe, leaving, icon | two answers in the pipe, and the stop | 14 658 |
| `video_monitor` | threads, player, closed page, stop | three reports waiting | 38 597 |
| `player_page` | flags against player, closed page | three reports waiting | 5 183 |
| `wifi_page` | deleted buttons and tags | two commands in the pipe | 9 174 |
| `backlight` | light against inputs, value, waking, going dark | a level below the table, its end, one above it with two values found there, two timeouts, a clock of four units | 229 188 |
| `backlight_early` | does a press light the screen for the chosen time? **No** | the same | — |
| `pages` | pages, timers, wallpaper, submenus, buttons, coffees | every set of parts built, both directions, two wallpapers, 300 pixels of overscroll | 363 128 |

Why the bounds are enough. *Two clients* are needed for a lost client (both
sides dial) and for a new client while a freed one is still pointed to; a third
adds nothing a pair does not show, since at most two capture threads meet in
one call. An allocation uses up a client, so the runs cover two calls at most;
the theorems hold for any number. Liveness is checked with one client, because
symmetry is not sound there and each property is about one client. *Two
commands* in the pipe is the least that loses one; in `bt_pages` the pipe has room for
whatever a handler sends, and the user of the settings page waits while a click is
unread (`ClickMax`), which on the music page nobody needs to do: there the handlers
ask before they send, and `MusicPipeShort` is what follows. With both flags a handler
of the music page sends both of its commands. *3 x 2 tiles* are the smallest grid
with an inner edge in both directions, and five apps fill more than one page of
it. *Three reports* allow the report of an old state, of a new one, and an EOF
between them. The levels -1, 7 and 8 lead to both ends of the
table and past it, where -1 and 256 are found, a value below every other and one
whose byte is 0, so that the
value moves both ways over short and long distances; a wait for a release of two
units and timeouts of one and three let a press outlast the short timeout (5 s)
and not the long one (60 s). *Two wallpapers* are enough for a picture that is not the
current one. A scroll event of the coffees may end anywhere. Each bound is a guard on the actor that adds (the user presses no
button, or sends no command, while the queue is full), so nothing that is
already under way is cut off.

Deadlock is checked, except where the code may really stop: `BtPages` (the UI
waits for a lost query while the server has nothing to read and the library
nothing to report) and `VideoMonitor` (the UI thread joins a play thread that
waits for a STOPPED nobody will report).

**The disagreements found.** `bt_profile`: `while (!bt_content.init &&
(timeout--)) sleep(1);` leaves `timeout` at -1 when the wait expires, and
`if (timeout != 0)` (bt_server.c:977) then sets the profile on a stack that is
not initialised; RkBtBase.h:955 asks to wait for RK_BT_STATE_INIT_ON after
`rk_bt_init`. Only an INIT_ON in the last of the three seconds, when `timeout`
is 0, leaves the profile unset: the test is the wrong way round for both ends.

`backlight_early`: a press that falls into the very call of `backlight_cb` that
switches the screen off is found and waited for by the same call, which then
sets `cur_en = 1` (main.c:218) and leaves `start_tick` at the tick that has
expired. The next call, 50 ms later, switches the screen off again. The times
the user may choose are "5s 60s 120s 5mins never" (wallpaper_ui.c:37). In every
other case a call without a press comes first and clears the clock.

The properties, by module:

* `AudioServer`: `ThreadsUseLive` (the server and the capture threads use no freed
  client or server, and delete none twice); `CancelledBetweenCalls`, `CloseOnce`,
  `ClosedPageLeavesLine` (what cancelling and leaving free);
  `CallLineImplemented`; over behaviours: `HangUpEndsCall`, `LeavingEnds`,
  `CalledBackDeleted` (without a dial of the user no client outlives its call);
  proved only: `HangUpKept`, `LeavingAdvances`.
* `BtServer`: `LostOnlyBehind`, `QueryReplyImplemented`; proved only: `OneAnswer`,
  `CopyOnlyForWaiter`, both part of what `QueryReply` demands, and `AnswerNears`.
* `BtPages`: `MusicPipeShort`; live: `HandlersEnd`.
* `TileLayout`: `WellLaid`; live: `AllPlaced`; proved only: `NeverStuck`,
  `StuckForEver`, `Shrinks`.
* `Asr`: `ThreadsContained`; live: `LeaveEnds`, `SleepHides`; proved only:
  `ReaderWoken`, `IconOnlyFades`.
* `VideoMonitor`: `OnePlayThread`, `ClosedPageQuiet`; live: `StopEnds`; proved
  only: `ThreadOwnsPlayer`, `EndNeverMissed`.
* `PlayerPage`: `FlagsFollowPlayer`, `PageOwns`.
* `WifiPage`: `PointersLive` (its type invariant is `WifiTypeOK`).
* `Pages`: `PictureLive`, `PageOwns`, `EveryButton`; of `CoffeeMachine`:
  `NamedIsEnlarged`; proved only: `SmallStepsKeepOne`.
* `Backlight`: `InputsFollowLight`; live: `Settles`, `Wakes`, `DarkAtLast`; proved
  only: `Approaches`, `NearerToDark`.

Those "proved only" are in no run's configuration: they are what the runs'
properties rest on, and TLC found no counterexample to them at the runs' bounds.

## Fairness

* `AudioServer`: every thread is scheduled. `ReadData` and `CapSend` being fair
  means that the other device sends, or hangs up, and the microphone delivers.
  Nobody owes a call or a press. `LeavingEnds` in addition assumes that the
  other side hangs up in the end (`OthersHangUp`): without that it is false,
  because an EXIT may be overwritten (below).
* `BtServer`: the server thread runs and a posted semaphore wakes the UI. The
  library owes no report, so INIT_ON may never come; the bounded wait is what
  makes `HandlersEnd` true. `BtPages` adds that a handler of the UI thread that
  is not blocked runs on. The user and LVGL's timers owe no new handler.
* `Asr`: all threads are scheduled; a file is played to its end. The user owes
  nothing: once `asr_audio_deinit` has begun, its thread is the UI's.
* `VideoMonitor`: threads run, and the library delivers what it has to report.
  A stream need not end.
* `TileLayout`: the loops run.
* `Backlight`: LVGL calls the timer again and again, the wait for a release ends
  when it can, and time passes. The sensors and the user owe nothing.
* `PlayerPage`, `WifiPage`, `Pages`: only safety is claimed.

## The proofs

For every value of the constants TLAPS proves the type invariant of every
module, every safety property that a passing run checks, and:

| Module | Theorems | Inductive invariant |
|---|---|---|
| `AudioServer_proofs` | `ThreadsMemorySafe`, `CancelSafe`, `SocketClosedOnce`, `ClosedPageOffLine`, `CallBackDeleted`, `Implements` | what the thread holds at each place (`CallResources`), who closes the socket (`Socket`), page against server (`PageInv`), pointer, memory and capture thread of each client (`ClientInv`) |
| | `LeavingNearsEnd`, `HangUpNotLost` | a page that waits has asked for the cancellation (`JoinInv`); the measure `Way` |
| | live: `HangUpEnds`, `LeavingReturns`, `LeavingEndsGuarded` | the same, and that a page that waits has a thread (`LeaveInv`); the chains `EndLinks`, `ThreadLinks`, `CapLinks` |
| `BtServer_proofs` | `AnswerOwedOnce`, `CopySafe`, `LostBehindOnly`, `Implements` | `OneAnswer`; that INFO and only INFO waits (`QueriesWait`); the wait places belong to ENABLE (`EnablePlaces`) |
| | `AnswerComes`, `PagesAnswerComes` | the wait of ENABLE stays within its three seconds (`CountsDown`); the measure `UntilAnswer` |
| | live: `HandlersComeToEnd` (of `BtPages`) | the same; eighteen links to the answer (`Link`) |
| the same, of `BtPages` | `PagesLoseBehind`, `PagesReply`, `PagesAnswered`, `PagesTypeCorrect`, `MusicPipeStaysShort` | which handlers a page has (`TaskOfPage`), and what may be in the pipe since the last query that was answered (`PipeSinceQuery`) |
| `TileLayout_proofs` | `LaidWell` | the marked bits are those of the placed apps of this page (`Marked`), apps on earlier pages are not on this one (`PagesPast`), and the two properties |
| | `LoopsNeverStuck`, `LoopsShrink` | a page opened for the next app is empty (`FreshIsEmpty`); the measure `Left` |
| `Asr_proofs` | `ThreadsSafe` | the life of pipe and threads against the place of the UI (`Lifetime`), the place kept for INT_MAX in the pipe (`Room`) |
| | `IconGoesOut`, `JoinNeverStuck` | docap leaves no store and no wake word behind (`Quiet`); `ReaderWoken` itself |
| | live: `PageIsLeft`, `IconHides` | the same |
| `VideoMonitor_proofs` | `ClosedPageClean`, `PlayerOwned`, `OneThread`, `EndReachesThread` | `video_thread` is 0 only when the thread is over (`Ownership`); `EndNeverMissed` itself |
| | live: `StopComesToEnd` | a player whose stop is still to be reported stays stopped (`StopKept`) |
| `PlayerPage_proofs` | `FlagsRight`, `PageClean` | the last report tells what the player does (`FlagTold`), an EOF still to come has a PLAY behind it (`EndTold`), the player between two steps of the UI (`Between`) |
| `Pages_proofs` | `NoFreedPicture`, `OnePageOnly`, `NamedLarge`, `ShortStepsKeepOne` | one page is open and holds what its init made, and nothing of another page is left (`UiInv`); mask and submenus are those of an open settings page (`SettingInv`); the named coffee is enlarged between two that are not, and inside the row the list is in its zone (`InItsZone`) |
| | `AnyMatrix`, `AllPlaced`, `ButtonsPlaced` | of the loop of the button matrix: what is placed so far shares no cell and lies on the grid (`Shared`), and as many cells are left as the rest takes (`RoomLeft`) |
| | `PointersSafe` (of `WifiPage`) | an open dialog ends the scan (`DialogEndsScan`), and the two properties |
| `Backlight_proofs` | `InputsRight`, `ValueApproaches`, `IdleDarkens` | `TypeOK` and `InputsFollowLight`; that a step of the value stays between it and the target; the measure `UntilDark` |
| | live: `LevelReached`, `PressLights`, `ScreenGoesDark` | the same; 32 links from the farthest value (`Links`) |

Hardly any of the properties is inductive on its own. `CancelledBetweenCalls`,
say, speaks of a cancelled thread, and its proof of what a thread holds at every
place at which it may still be cancelled; `FlagsFollowPlayer` speaks of a
player whose reports are all delivered, and its proof of the reports still in
the queue; `NamedIsEnlarged` speaks of the coffee nearest to the middle, and its
proof of the zones the code compares with. Each proof has the same layout: the initial states,
one lemma per group of actions with a step per conjunct that the action
disturbs, the invariant, and the theorems that follow. `Implements` adds a step
simulation: each action is a step of the abstract specification or leaves it
unchanged. The queues need only facts about `Append`, `Head` and `Tail`, stated
once in each module.

**The pages.** The handlers are proved in two layers. A lemma for each init and
each deletion says which pages, timers and pictures it leaves (`HomeMade`,
`DeletedKeeps`, ...), each from a consistent set of objects; the lemma of a handler
then composes those of the calls it makes, in the code's order. That no freed
picture is shown (`NoFreedPicture`) rests on `OnePageOnly`: the wallpaper menu
frees the picture while the settings page is the only one, which does not show it.

**The button matrix.** `AnyMatrix` holds for every list of buttons and every grid;
`AllPlaced`, for every list that begins with one button in a row and goes on with
buttons of one cell, counts the cells taken. Both are inductions over the turns
of the loop. The library's induction theorems take an operator and cannot be
used here, so the induction is on a set of numbers (`Induct`), from the
least-number principle, which follows from the well-foundedness of `<`; and that
`Placed` satisfies its own recursive equation is proved, not assumed
(`PlacedTurns`). `ButtonsPlaced` applies `AllPlaced` to the four pages, for everything
the program can be built with. `LoopsNeverStuck` (its half about apps
that fit) uses the least-number principle twice, for the first row and the first column with a free place.

**Liveness.** A liveness property says that something keeps moving, and that it
moves towards the goal. The provers know neither `ENABLED` nor `WF_`, so what
keeps moving is assumed in a form they know: `GuardedFairness` of each module says
of each fair action A

    []<>~Guard \/ []<><<A>>_vars

with a guard written out (`ServerCan`, `UiCan`, `PtCan`, ...) under which A can be
taken and changes something. It follows from the `WF_` of the specification the
run uses, because the guard implies ENABLED; TLC confirms that too, at the
run's bounds, when the formula is put under PROPERTY in the run's configuration.
That it moves towards the goal is a safety property. Where the way there has a fixed
longest length, each of its links is a fact of two states, and propositional
temporal logic joins the links (`PTL`, the backend LS4):

| Liveness | Its safety half | Proved in full from `GuardedFairness` | and from |
|---|---|---|---|
| `HandlersEnd` | each step of the server lowers `UntilAnswer`, and no report raises it: `AnswerComes`, `PagesAnswerComes` | `HandlersComeToEnd` | |
| `LeaveEnds` | doplay is never blocked in an empty pipe while it is joined: `JoinNeverStuck` | `PageIsLeft` | |
| `SleepHides` | the timer's next call hides the icon and nothing shows it again: `IconGoesOut` | `IconHides` | |
| `HangUpEndsCall` | the hang-up is not overwritten, and the call reads at most once more: `HangUpNotLost` | `HangUpEnds` | |
| `LeavingEnds` | each step of the thread lowers `Way`, or goes round a call that is still connected: `LeavingNearsEnd` | `LeavingEndsGuarded` | `HangUpsGuarded` |
| `StopEnds` | the report of the end is the last one, and is seen: `EndReachesThread` | `StopComesToEnd` | `ReportsArrive` |
| `Settles` | every step of the value goes towards the target and not past it: `ValueApproaches` | `LevelReached` | `TimePasses` |
| `Wakes` | a press that is found is waited for, and the wait lights the screen: `PressSteps` | `PressLights` | `TimePasses` |
| `DarkAtLast` | no step takes an idle screen farther from the dark; calls and ticks bring it nearer: `IdleDarkens` | `ScreenGoesDark` | `TimePasses` |
| `AllPlaced` | a turn of the loops is possible as long as an app that fits is left, and lowers `Left`, a natural number: `LoopsNeverStuck`, `LoopsShrink` | not proved | |

The theorems hold for any number of clients, any size of the pipe, any number of
reports, any levels (`Settles` speaks of those up to 7) and any timeouts. Three of them need more than the guards:

* `LeavingEnds` assumes that the other devices hang up (`OthersHangUp`, which has
  `WF_` in it). `LeavingReturns` proves its conclusion, `JoinReturns`, from
  `GuardedHangUps`, the same with the guards written out; `HangUpsGuarded` is the
  step from the one to the other, again confirmed by TLC.
* `ReportsArrive`: as long as the player makes no new report, the library comes to the end of those
  that wait. `TimePasses`: a wait for a release ends or gets past its limit, and
  a clock that is left alone gets past the timeout. Both follow from the fairness of one
  report, of one tick, by an induction over a number that no constant bounds. That induction
  is over a temporal formula, which the provers cannot do; TLC
  confirms both under the runs' `FairSpec` in the way described above.

For the same reason `AllPlaced` remains: its measure grows with the number of apps.

Only model-checked: `AllPlaced`; that the guarded formulas, `ReportsArrive`
and `TimePasses` follow from the `WF_` of the runs; and the two findings, which are
counterexamples.

## Assumptions

* Constants: the bounds are numbers; an app has at least one tile
  (`SizesAssumption`), and neither the size of the grid nor that of an app has an upper
  bound; the sensor reports any integers, and what is found past the table of
  the brightness is within half the range of an int (`GarbageAssumption`,
  `Reach`): C gives a difference of two such values a meaning, and of larger ones not.
  The wallpapers are not the values that stand for
  "no picture" (`WallpaperAssumption`); `QueueMax` has room for what one handler sends
  (`RoomAssumption`), so that the bound cuts no handler off.
* Memory: the accesses of `AudioServer` and `BtServer` to shared words are
  taken in program order, each by itself. `Asr` lets the stores of `asr_update`
  be seen in any order. `bt_info` is copied as a whole: torn strings are not
  modelled.
* The media, player, Bluetooth and Wi-Fi libraries and the recogniser are not
  in the repository. They are what their callers use of them: calls may fail, a
  report comes at any time after its cause, a player's reports come one at a
  time in order, and a destroyed player reports nothing more (a callback that
  had begun goes on).
* LVGL's input dialog is modal: while the password is asked for, the page under
  it takes no input. LVGL's timers and events run on the UI thread.
* Only BT_INFO is sent with `bt_query_wait`, and only by the UI thread; that is
  so in every caller in the repository.

## What the code does not promise

These the models contain, and the properties are worded to hold in spite of
them. No text in the repository claims the contrary.

* The UI's poll reads `server->client` and follows it without a lock: it may find
  a client that is freed, between the free and the NULL that follows it or a
  moment after it has read the pointer (audio_server.c:145-146 against 164-167).
* A client the user dialled is deleted with the next call that is accepted, if
  there is one. `pthread_cancel` at `accept` leaves it, and `audio_server_del`
  (220-242) deletes none: the closed page then keeps a connection and a capture
  thread that sends the microphone until the other side hangs up.
* When the page and the server thread dial at the same moment both make a
  client, and the first is never stopped (audio_server.c:183).
* A hang-up pressed before the call is played is overwritten by RUNNING (132).
* When `pthread_create` fails nothing notices (269), and `audio_server_del` gives
  up: the server, its socket and the port are leaked for ever.
* `do_cap` may store RUNNING over the EXIT of a deletion; the join then lasts
  until the other side hangs up (audio_client.c:53).
* A write to a connection the other side has reset raises SIGPIPE, which ends
  the process (audio_client.c:35).
* A call page opened again may show "call" in a running call until the state
  changes, because `last_state` is static (ui_intercom_call.c:79).
* A query read behind another command is lost and freezes the UI
  (bt_server.c:967); a Wi-Fi toggle read behind another is dropped.
* The recognised command's labels may be those of an earlier one, or stay after
  the icon has gone (asr.c:183).
* An app that fits on no page is never placed, and the loop over pages goes on
  for ever (smart_home_ui.c:143). With more than eight columns the rows of the map
  share bits and apps may overlap (tile_layout.c:34). Neither is looked at.
* One scroll event from 201 pixels to 0 leaves the second coffee enlarged beside
  the first, and one over 400 may pass by a zone and leave two
  (coffee_machine.c:45-57); events at most 200 pixels apart do not.
* A light level above 7 looks past the table (main.c:98-106, 236). The value then
  goes wherever what is found there leads; one whose lowest byte is 0 is written
  as 0, and the screen is dark and its inputs off while `cur_en` is 1, so that
  nobody looks for the press that would light it. `Wakes` is about `cur_en`.
* Stopping, restarting or leaving the video monitor while its player is being
  made freezes the UI (ui_monitor.c:294); `video_thread` may be 0 when it is
  joined (309); a pause wished for just before the end of a stream keeps start
  from working until the next ERROR or STOPPED (194). A stop that reaches the
  player between Prepare and the store at 292 leaves PLAY desired by a stopped
  player, with the same effect.
* A video that ends before `play_end` is cleared is not restarted by the start
  button (player_ui.c:276); one that ends by an ERROR leaves `play_flag` set.
* A scan result of an earlier page may be shown by a later one (wifi_result is
  cleared only when shown).

## What is not modelled

* The Bluetooth, display and volume menus of the settings page: the code never
  opens them. The about menu: labels, and a button that shows
  and hides a panel.
* The apps of the smart home page other than music (air conditioner, scenes,
  switches, date, weather), the keyboard and the settings box of the monitor:
  widgets whose state nothing else reads. The toast: one object with one
  animation each, which deletes it.
* The vendor and audio server callbacks and the configuration files of
  `bt_server.c`: they start and kill processes and write files.
* The Wi-Fi commands no page sends.
* A timeout of the backlight changed through a second input device: of several
  inputs the model has one.
* `local_ip.c` reads addresses; the headers in `include/` and
  `audio_algorithm/` declare libraries that are not in the repository.
* `FRAME_DETECT` in the player page: compiled out.

## How to run it

In this directory, `tlc -config <Run>.cfg MC<Module>` checks a run and
`tlapm <Module>_proofs.tla` its proofs. `PROJECT.json` names the module and the
configuration of every run, and for every property a mutated definition that
makes its run fail.
