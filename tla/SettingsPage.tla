---------------------------- MODULE SettingsPage ----------------------------
(***************************************************************************)
(* The submenus of the settings page (setting/setting_ui.c and the menus   *)
(* it opens: wallpaper_ui.c, language_and_date_ui.c, about_ui.c and the    *)
(* Wi-Fi menu).  They lie in one area on a mask that covers the page.      *)
(* The first press on a button makes its submenu, a later one shows it     *)
(* again; a press on the mask hides mask and all.  The number of the       *)
(* current submenu is a static that outlives the page.                     *)
(*                                                                         *)
(* The actions are parts of those of Pages, which opens and closes the     *)
(* page.  WifiPage models the inside of the Wi-Fi menu.                    *)
(***************************************************************************)
EXTENDS Integers

VARIABLES
    menu,               \* every submenu_desc[].menu: "none" is NULL
    cur,                \* cur_menu, or "max"
    mask,               \* submenu_mask
    popup               \* the mask of the calendar or of the time rollers

settingVars == <<menu, cur, mask, popup>>

Submenus == {"wallpaper", "language", "about", "wifi"}

SettingTypeOK ==
    /\ menu \in [Submenus -> {"none", "hidden", "shown"}]
    /\ cur \in Submenus \cup {"max"}
    /\ mask \in {"none", "hidden", "shown"}
    /\ popup \in {"none", "calendar", "time"}

SettingStart ==
    /\ menu = [m \in Submenus |-> "none"] /\ cur = "max"
    /\ mask = "none" /\ popup = "none"

\* The end of setting_ui_init: the mask and the area in it.
MaskMade == mask' = "hidden" /\ UNCHANGED <<menu, cur, popup>>

\* submenu_x, through SUBMENU_COMMON_DEFINE: a submenu that is not there is
\* made, and is visible then.
SubmenuInit(menus, m) ==
    IF menus[m] = "none" THEN [menus EXCEPT ![m] = "shown"] ELSE menus

\* What can be pressed in a submenu: menu_wallpaper_init makes a picture for
\* every wallpaper, menu_language_init the labels of the date and the time,
\* menu_about_init nothing that leads elsewhere.
WallpaperPressable == mask = "shown" /\ menu["wallpaper"] = "shown"
LanguagePressable  == mask = "shown" /\ menu["language"] = "shown"

\* Mutant: the submenu that is hidden is the new one.
MenuSwitchHidesNew(m) ==
    /\ mask = "hidden" /\ mask' = "shown" /\ cur' = m
    /\ menu' = [SubmenuInit(menu, m) EXCEPT ![m] = "shown"]
    /\ UNCHANGED popup

\* menu_switch_cb: the submenu that was shown last is hidden, if it is there.
MenuSwitch(m) ==
    LET hidden == IF cur # "max" /\ menu[cur] # "none"
                  THEN [menu EXCEPT ![cur] = "hidden"] ELSE menu
    IN /\ mask = "hidden" /\ mask' = "shown" /\ cur' = m
       /\ menu' = [SubmenuInit(hidden, m) EXCEPT ![m] = "shown"]
       /\ UNCHANGED popup

\* submenu_mask_cb.
MaskPressed ==
    /\ mask = "shown" /\ popup = "none"
    /\ mask' = "hidden" /\ UNCHANGED <<menu, cur, popup>>

\* show_calendar and show_time_setting: a mask over everything.
ShowCalendar ==
    /\ LanguagePressable /\ popup = "none"
    /\ popup' = "calendar" /\ UNCHANGED <<menu, cur, mask>>

ShowTimeSetting ==
    /\ LanguagePressable /\ popup = "none"
    /\ popup' = "time" /\ UNCHANGED <<menu, cur, mask>>

\* calendar_cb, when a date was pressed, and confirm_cb.
CalendarPicked ==
    /\ popup = "calendar" /\ popup' = "none" /\ UNCHANGED <<menu, cur, mask>>

Confirmed ==
    /\ popup = "time" /\ popup' = "none" /\ UNCHANGED <<menu, cur, mask>>

\* btn_return_cb: every submenu is destroyed, and the mask.
SubmenusDestroyed ==
    /\ mask = "hidden" /\ mask' = "none"
    /\ menu' = [m \in Submenus |-> "none"] /\ UNCHANGED <<cur, popup>>

\* What is pressed through the mask belongs to the one submenu that is
\* shown, and to the one that was asked for.
OneSubmenu ==
    /\ mask = "shown" => menu[cur] = "shown"
    /\ \A m \in Submenus : menu[m] = "shown" => m = cur
    /\ popup # "none" => mask = "shown" /\ cur = "language"
=============================================================================
