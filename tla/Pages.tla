------------------------------- MODULE Pages -------------------------------
(***************************************************************************)
(* The pages of the program and how the user moves between them:           *)
(* home_ui.c, setting_ui.c, smart_home_ui.c, furniture_control_ui.c,       *)
(* coffee_machine.c, icebox_ui.c, ui_intercom_homepage.c, and the doors to *)
(* the player, the monitor and the call.  Every page has a static main     *)
(* that is NULL while it is closed.  A handler that leaves a page makes    *)
(* the next one first and deletes its own afterwards, with all that hangs  *)
(* on it.  No code outlives a page by a reference count: each handler      *)
(* must undo exactly what its page's init did.                             *)
(*                                                                         *)
(* Three pages show bg_snapshot, a blurred picture of the wallpaper that   *)
(* home_ui.c takes when it is asked for first, and frees when the user     *)
(* chooses another wallpaper.                                              *)
(*                                                                         *)
(* ui holds the objects; a handler applies to it what its calls do, in     *)
(* their order.  The submenus of the settings page and the coffees are     *)
(* modules of their own; the threads behind the smart home page, the       *)
(* player, the monitor and the call are those of Asr, BtPages, PlayerPage, *)
(* VideoMonitor and AudioServer.                                           *)
(***************************************************************************)
EXTENDS ButtonMatrix, CoffeeMachine, SettingsPage

CONSTANTS
    Wallpapers,         \* the wallpapers the user may choose
    MainBgPic           \* the one the program starts with

\* What a pointer to a picture may hold apart from a picture's wallpaper.
NoPicture == {"closed", "null", "freed"}

ASSUME WallpaperAssumption ==
    MainBgPic \in Wallpapers /\ Wallpapers \cap NoPicture = {}

VARIABLES
    built,              \* what the program was built with
    wide,               \* scr_dir is LV_DIR_HOR
    ui                  \* the objects of the UI

vars == <<built, wide, ui, settingVars, coffeeVars>>

Parts == {"smart", "furniture", "intercom", "radio", "media"}

AllPages == {"home", "smart", "furniture", "intercom", "setting", "icebox",
             "coffee", "player", "monitor", "call"}

\* The pages with pictures of bg_snapshot, and those with a button matrix.
Showing == {"smart", "furniture", "icebox"}
Gridded == {"home", "furniture", "setting", "player"}

PagesTypeOK ==
    /\ built \subseteq Parts
    /\ wide \in BOOLEAN
    /\ ui.open \subseteq AllPages
    /\ ui.dates \in 0 .. 1 /\ ui.polls \in 0 .. 1
    /\ ui.hidden \in BOOLEAN /\ ui.shotTimer \in BOOLEAN
    /\ ui.wall \in Wallpapers
    /\ ui.snap \in Wallpapers \cup {"null"}
    /\ ui.pics \in [Showing -> Wallpapers \cup {"closed", "null"}]
    /\ DOMAIN ui.cells = Gridded
    /\ SettingTypeOK
    /\ CoffeeTypeOK

-----------------------------------------------------------------------------
(* The button matrices.                                                    *)

\* A button that is compiled in with a part of the program.
With(part, button) == IF part \in built THEN <<button>> ELSE <<>>

\* home_btn, setting_btn, fc_btn and player_btn.
HomeButtons ==
    With("smart", "smart") \o With("furniture", "furniture")
    \o With("intercom", "intercom") \o <<"setting">>

SettingButtons ==
    With("radio", "wifi") \o With("radio", "bt")
    \o <<"wallpaper", "language", "about">>

FurnitureButtons == <<"icebox", "player", "coffee">>
PlayerButtons    == <<"list", "start", "stop">>

Small(names) == [i \in DOMAIN names |-> Button(names[i], 1, 1)]

\* The grid of the home page is as long as it needs to be.
HomeCells ==
    LET n == Len(HomeButtons) IN
    IF wide THEN Matrix(Small(HomeButtons), n, 1)
    ELSE Matrix(Small(HomeButtons), 2, (n + 1) \div 2)

\* The sliders are the first item of the settings page, two cells wide.
SettingCells ==
    Matrix(<<Button("sliders", 2, 1)>> \o Small(SettingButtons), 2, 4)

FurnitureCells == Matrix(Small(FurnitureButtons), 3, 1)

PlayerCells == Matrix(Small(PlayerButtons), 3, 1)

\* A button of page p that can be pressed.
HasButton(p, b) ==
    /\ p \in ui.open /\ popup = "none"
    /\ b \in DOMAIN ui.cells[p] /\ ui.cells[p][b] # {}

-----------------------------------------------------------------------------
(* The picture of the wallpaper.                                           *)

\* bg_pic_snapshot_blur, which finds memory for the picture or not.
Snapshot(u, found) ==
    IF u.snap = "null" /\ found THEN [u EXCEPT !.snap = u.wall] ELSE u

\* Mutant: the pointer to the freed picture is kept.
BgSetImgKeeps(u, w, found) ==
    Snapshot([u EXCEPT !.wall = w, !.snap = IF @ = "null" THEN @ ELSE "freed",
                       !.pics = [p \in Showing |->
                                   IF @[p] \in Wallpapers THEN "freed" ELSE @[p]]],
             found)

\* rk_demo_bg_set_img: the old picture is freed, for whoever shows it too.
BgSetImg(u, w, found) ==
    Snapshot([u EXCEPT !.wall = w, !.snap = "null",
                       !.pics = [p \in Showing |->
                                   IF @[p] \in Wallpapers THEN "freed" ELSE @[p]]],
             found)

\* rk_demo_bg_hide and rk_demo_bg_show.
BgHide(u) == [u EXCEPT !.hidden = TRUE]
BgShow(u) == [u EXCEPT !.hidden = FALSE]

-----------------------------------------------------------------------------
(* The making of the pages; a page that is there is not made again.        *)

Made(u, p) == [u EXCEPT !.open = @ \cup {p}]

\* home_ui_init.
HomeInit(u) ==
    IF "home" \in u.open THEN u
    ELSE [Made(u, "home") EXCEPT !.cells["home"] = HomeCells, !.dates = @ + 1]

\* smart_home_ui_init, asr_audio_init apart.
SmartInit(u, found) ==
    IF "smart" \in u.open THEN u
    ELSE LET v == Snapshot(u, found)
         IN [Made(v, "smart") EXCEPT !.pics["smart"] = v.snap]

\* furniture_control_ui_init.
FurnitureInit(u, found) ==
    IF "furniture" \in u.open THEN u
    ELSE LET v == Snapshot(u, found)
         IN [Made(v, "furniture") EXCEPT !.pics["furniture"] = v.snap,
                                         !.cells["furniture"] = FurnitureCells]

\* icebox_ui_init.
IceboxInit(u, found) ==
    IF "icebox" \in u.open THEN u
    ELSE LET v == Snapshot(u, found)
         IN [Made(v, "icebox") EXCEPT !.pics["icebox"] = v.snap]

\* coffee_machine_ui_init, with CoffeeMade.
CoffeeInit(u) == Made(u, "coffee")

\* intercom_homepage_ui_init.
IntercomInit(u) == Made(u, "intercom")

\* setting_ui_init, with MaskMade.
SettingInit(u) ==
    IF "setting" \in u.open THEN u
    ELSE [Made(u, "setting") EXCEPT !.cells["setting"] = SettingCells,
                                    !.polls = @ + 1]

\* player_ui_init and monitor_ui_init: the wallpaper is hidden before the page
\* is looked for.  intercom_call_ui_init leaves it where it is.
PlayerInit(u) ==
    [Made(BgHide(u), "player") EXCEPT !.cells["player"] = PlayerCells]
MonitorInit(u) == Made(BgHide(u), "monitor")
CallInit(u)    == Made(u, "call")

\* lv_obj_del(main) and main = NULL: the pictures of the page go with it.
Deleted(u, p) ==
    [u EXCEPT !.open = @ \ {p},
              !.pics = [q \in Showing |-> IF q = p THEN "closed" ELSE @[q]]]

\* rk_demo_init.
Init ==
    /\ built \in SUBSET Parts /\ wide \in BOOLEAN
    /\ ui = HomeInit([open |-> {}, dates |-> 0, polls |-> 0,
                      hidden |-> FALSE, shotTimer |-> TRUE,
                      wall |-> MainBgPic, snap |-> "null",
                      pics |-> [p \in Showing |-> "closed"],
                      cells |-> [p \in Gridded |-> <<>>]])
    /\ SettingStart
    /\ scroll = 0 /\ big = {1} /\ name = 1

-----------------------------------------------------------------------------
(* The handlers.                                                           *)

build == <<built, wide>>

\* Mutant: the timer of the date is left running.
LeaveHomeTimed(u) == Deleted(u, "home")

\* page_switch of the home page, after the init it was given.
LeaveHome(u) == Deleted([u EXCEPT !.dates = @ - 1], "home")

HomeToSmart ==
    /\ HasButton("home", "smart")
    /\ \E found \in BOOLEAN : ui' = LeaveHome(SmartInit(ui, found))
    /\ UNCHANGED <<build, settingVars, coffeeVars>>

HomeToFurniture ==
    /\ HasButton("home", "furniture")
    /\ \E found \in BOOLEAN : ui' = LeaveHome(FurnitureInit(ui, found))
    /\ UNCHANGED <<build, settingVars, coffeeVars>>

HomeToIntercom ==
    /\ HasButton("home", "intercom") /\ ui' = LeaveHome(IntercomInit(ui))
    /\ UNCHANGED <<build, settingVars, coffeeVars>>

HomeToSetting ==
    /\ HasButton("home", "setting") /\ ui' = LeaveHome(SettingInit(ui))
    /\ MaskMade
    /\ UNCHANGED <<build, coffeeVars>>

\* take_snapshot, once.
TakeSnapshot ==
    /\ ui.shotTimer
    /\ \E found \in BOOLEAN :
         ui' = [Snapshot(ui, found) EXCEPT !.shotTimer = FALSE]
    /\ UNCHANGED <<build, settingVars, coffeeVars>>

\* btn_return_cb of the pages that return to the home page.
SmartReturn ==
    /\ "smart" \in ui.open /\ ui' = Deleted(HomeInit(ui), "smart")
    /\ UNCHANGED <<build, settingVars, coffeeVars>>

FurnitureReturn ==
    /\ "furniture" \in ui.open /\ ui' = Deleted(HomeInit(ui), "furniture")
    /\ UNCHANGED <<build, settingVars, coffeeVars>>

IntercomReturn ==
    /\ "intercom" \in ui.open /\ ui' = Deleted(HomeInit(ui), "intercom")
    /\ UNCHANGED <<build, settingVars, coffeeVars>>

SettingReturn ==
    /\ "setting" \in ui.open /\ popup = "none"
    /\ ui' = Deleted([HomeInit(ui) EXCEPT !.polls = @ - 1], "setting")
    /\ SubmenusDestroyed
    /\ UNCHANGED <<build, coffeeVars>>

\* The jumps of the furniture page and the returns to it.
JumpIcebox ==
    /\ HasButton("furniture", "icebox")
    /\ \E found \in BOOLEAN : ui' = Deleted(IceboxInit(ui, found), "furniture")
    /\ UNCHANGED <<build, settingVars, coffeeVars>>

JumpCoffee ==
    /\ HasButton("furniture", "coffee")
    /\ ui' = Deleted(CoffeeInit(ui), "furniture")
    /\ CoffeeMade
    /\ UNCHANGED <<build, settingVars>>

JumpPlayer ==
    /\ HasButton("furniture", "player") /\ "media" \in built
    /\ ui' = Deleted(PlayerInit(ui), "furniture")
    /\ UNCHANGED <<build, settingVars, coffeeVars>>

IceboxReturn ==
    /\ "icebox" \in ui.open
    /\ \E found \in BOOLEAN : ui' = Deleted(FurnitureInit(ui, found), "icebox")
    /\ UNCHANGED <<build, settingVars, coffeeVars>>

\* The coffees are deleted with their page: what the next visit makes of them
\* is made now.
CoffeeReturn ==
    /\ "coffee" \in ui.open
    /\ \E found \in BOOLEAN : ui' = Deleted(FurnitureInit(ui, found), "coffee")
    /\ CoffeeMade
    /\ UNCHANGED <<build, settingVars>>

PlayerReturn ==
    /\ "player" \in ui.open
    /\ \E found \in BOOLEAN :
         ui' = BgShow(Deleted(FurnitureInit(ui, found), "player"))
    /\ UNCHANGED <<build, settingVars, coffeeVars>>

\* page_switch of the intercom page, and the returns to it.
IntercomToMonitor ==
    /\ "intercom" \in ui.open /\ "media" \in built
    /\ ui' = Deleted(MonitorInit(ui), "intercom")
    /\ UNCHANGED <<build, settingVars, coffeeVars>>

IntercomToCall ==
    /\ "intercom" \in ui.open /\ "media" \in built
    /\ ui' = Deleted(CallInit(ui), "intercom")
    /\ UNCHANGED <<build, settingVars, coffeeVars>>

MonitorReturn ==
    /\ "monitor" \in ui.open
    /\ ui' = BgShow(Deleted(IntercomInit(ui), "monitor"))
    /\ UNCHANGED <<build, settingVars, coffeeVars>>

CallReturn ==
    /\ "call" \in ui.open /\ ui' = Deleted(IntercomInit(ui), "call")
    /\ UNCHANGED <<build, settingVars, coffeeVars>>

\* The settings page.  (The Wi-Fi button says so and does nothing until the
\* Wi-Fi server is ready.  The Bluetooth button is that of BtPages.)
OpenSubmenu ==
    /\ \E m \in Submenus : HasButton("setting", m) /\ MenuSwitch(m)
    /\ UNCHANGED <<build, ui, coffeeVars>>

InSubmenu ==
    /\ "setting" \in ui.open
    /\ \/ MaskPressed \/ ShowCalendar \/ ShowTimeSetting
       \/ CalendarPicked \/ Confirmed
    /\ UNCHANGED <<build, ui, coffeeVars>>

\* wallpaper_cb.
PickWallpaper ==
    /\ "setting" \in ui.open /\ WallpaperPressable
    /\ \E w \in Wallpapers, found \in BOOLEAN : ui' = BgSetImg(ui, w, found)
    /\ UNCHANGED <<build, settingVars, coffeeVars>>

ScrollCoffee ==
    /\ "coffee" \in ui.open /\ Scroll
    /\ UNCHANGED <<build, ui, settingVars>>

Next ==
    \/ HomeToSmart \/ HomeToFurniture \/ HomeToIntercom \/ HomeToSetting
    \/ TakeSnapshot
    \/ SmartReturn \/ FurnitureReturn \/ IntercomReturn \/ SettingReturn
    \/ JumpIcebox \/ JumpCoffee \/ JumpPlayer
    \/ IceboxReturn \/ CoffeeReturn \/ PlayerReturn
    \/ IntercomToMonitor \/ IntercomToCall \/ MonitorReturn \/ CallReturn
    \/ OpenSubmenu \/ InSubmenu \/ PickWallpaper \/ ScrollCoffee

Spec == Init /\ [][Next]_vars

-----------------------------------------------------------------------------

\* No page shows freed memory, or the picture of a wallpaper that is gone:
\* although rk_demo_bg_set_img frees the picture without asking who shows
\* it, and any of the pages may have been the first to take it.
PictureLive ==
    /\ ui.snap \in {"null", ui.wall}
    /\ \A p \in Showing : ui.pics[p] \in {"closed", "null", ui.wall}

\* Between two handlers one page is open, and nothing of another is left:
\* each timer runs with the page whose objects it uses, the wallpaper is
\* hidden behind the two pages that show video, and the mask and the
\* submenus, whose pointers the next visit looks at, are those of this visit.
PageOwns ==
    /\ \E p \in AllPages : ui.open = {p}
    /\ ui.dates = IF "home" \in ui.open THEN 1 ELSE 0
    /\ ui.polls = IF "setting" \in ui.open THEN 1 ELSE 0
    /\ ui.hidden <=> ui.open \subseteq {"player", "monitor"}
    /\ mask # "none" <=> "setting" \in ui.open
    /\ \A m \in Submenus : menu[m] # "none" => "setting" \in ui.open
    /\ OneSubmenu

\* On a page with a button matrix every button got its place, whatever the
\* program was built with and however the screen is held: the inits go on to
\* style buttons through pointers that a button without a place leaves stale.
EveryButton ==
    /\ \A p \in Gridded \cap ui.open : WellPlaced(ui.cells[p])
    /\ "home" \in ui.open
       => DOMAIN ui.cells["home"]
          = (built \cap {"smart", "furniture", "intercom"}) \cup {"setting"}
=============================================================================
