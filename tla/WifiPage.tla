------------------------------ MODULE WifiPage ------------------------------
(***************************************************************************)
(* The Wi-Fi menu of the settings (setting/wifi_ui.c), the Wi-Fi server it *)
(* sends its commands to and the state callback of the Wi-Fi library       *)
(* (wifibt/wifi_server.c).                                                 *)
(*                                                                         *)
(* The menu keeps pointers to widgets that other callbacks of the UI       *)
(* thread delete: the tag of the current network, which is deleted with    *)
(* the list of saved networks, and the button the password dialog was      *)
(* opened for, which is deleted with the list of networks found.  When the *)
(* lists are made anew depends on flags the other threads store.           *)
(*                                                                         *)
(* External: the library, which may report anything once its callback is   *)
(* registered, and LVGL, whose dialog covers the page until it is closed.  *)
(***************************************************************************)
EXTENDS Integers, Sequences

CONSTANT PipeMax    \* bound: the switch is not toggled while so many commands wait

ASSUME PipeMaxAssumption == PipeMax \in Nat \ {0}

VARIABLES
    srv,            \* the server thread: waits for wlan0, serves, or gave up
    pipe,           \* commands it has not read
    registered,     \* is the callback registered with the library
    gonff,          \* rkwifi_gonff
    connected,      \* what wifi_connected() makes of wifi_state
    result,         \* wifi_result
    page,           \* does the menu exist: init_done
    timer,          \* where menu_wifi_init or the menu's timer, wifi_update, is
    last,           \* last_state: -1 for none
    waiting,        \* waiting_scanning
    saved,          \* are there buttons in item_list_saved
    found,          \* are there buttons in item_list_scaned
    tag,            \* item_label_current
    dialog          \* the button the password dialog was opened for

server   == <<srv, pipe, registered>>
flags    == <<gonff, connected, result>>
lists    == <<saved, found, tag, dialog>>
wifiVars == <<server, flags, page, timer, last, waiting, lists>>

Commands == {"ENABLE", "DISABLE"}
Pointers == {"null", "live", "gone"}

\* Where menu_wifi_init asks wifi_enabled again.
Opening == {"openSaved", "openScan"}

WifiTypeOK ==
    /\ srv \in {"boot", "read", "gaveUp"}
    /\ pipe \in Seq(Commands) /\ Len(pipe) <= PipeMax
    /\ registered \in BOOLEAN
    /\ gonff \in BOOLEAN
    /\ connected \in {0, 1}
    /\ result \in {0, 1}
    /\ page \in BOOLEAN
    /\ timer \in {"idle", "state", "scan", "clear"} \cup Opening
    /\ last \in {-1, 0, 1}
    /\ waiting \in {0, 1}
    /\ saved \in BOOLEAN
    /\ found \in BOOLEAN
    /\ tag \in Pointers
    /\ dialog \in Pointers

WifiInit ==
    /\ srv = "boot" /\ pipe = <<>> /\ registered = FALSE
    /\ gonff = FALSE /\ connected = 0 /\ result = 0
    /\ page = FALSE /\ timer = "idle" /\ last = -1 /\ waiting = 0
    /\ saved = FALSE /\ found = FALSE /\ tag = "null" /\ dialog = "null"

-----------------------------------------------------------------------------
(* The server and the library.                                             *)

\* wlan0 appears, or the server gives up after a hundred seconds: listening
\* then stays 0 and the menu cannot be opened.
Boot ==
    /\ srv = "boot" /\ srv' \in {"read", "gaveUp"}
    /\ UNCHANGED <<pipe, registered, flags, page, timer, last, waiting, lists>>

\* One read takes all the pipe holds; only the first command is looked at.
Serve ==
    /\ srv = "read" /\ pipe # <<>> /\ pipe' = <<>>
    /\ registered' = (registered \/ pipe[1] = "ENABLE")
    /\ UNCHANGED <<srv, flags, page, timer, last, waiting, lists>>

\* Mutant: wifi_connected returns the state, not whether it is one of two.
StateReportRaw ==
    /\ registered /\ connected' \in {0, 1, 2} /\ UNCHANGED gonff
    /\ UNCHANGED <<server, result, page, timer, last, waiting, lists>>

\* rk_wifi_state_callback: only SCAN_RESULTS is no state of the connection,
\* and only OPEN and OFF, stored as states that are not connected, go on to
\* store rkwifi_gonff.
StateReport ==
    /\ registered
    /\ \/ connected' \in {0, 1} /\ UNCHANGED gonff
       \/ connected = 0 /\ gonff' \in BOOLEAN /\ UNCHANGED connected
    /\ UNCHANGED <<server, result, page, timer, last, waiting, lists>>

ScanReport ==
    /\ registered /\ result' = 1
    /\ UNCHANGED <<server, gonff, connected, page, timer, last, waiting, lists>>

-----------------------------------------------------------------------------
(* The UI thread.                                                          *)

UiIdle(p) == timer = "idle" /\ page = p /\ UNCHANGED <<timer, server, flags>>

\* What a pointer is after the widget it points to was deleted.
AfterDelete(pointer) == IF pointer = "null" THEN "null" ELSE "gone"

\* read_saved_wifi: without a saved network nothing is touched; otherwise the
\* list is made anew, with a tag on the button of the current network.
ReadSaved ==
    \/ UNCHANGED <<saved, tag>>
    \/ saved' \in BOOLEAN /\ tag' \in {"null", "live"} /\ (tag' = "live" => saved')

\* menu_wifi_init, reached only once the server listens, in its three reads
\* of rkwifi_gonff: the first sets the switch of the new page ...
Open ==
    /\ timer = "idle" /\ ~page /\ srv = "read" /\ timer' = "openSaved"
    /\ saved' = FALSE /\ found' = FALSE /\ tag' = "null"
    /\ UNCHANGED <<server, flags, page, last, waiting, dialog>>

\* ... the second lists the saved networks ...
OpenSaved ==
    /\ timer = "openSaved" /\ timer' = "openScan"
    /\ IF gonff THEN ReadSaved ELSE UNCHANGED <<saved, tag>>
    /\ UNCHANGED <<server, flags, page, last, waiting, found, dialog>>

\* ... and the third starts a scan.  init_done comes last.
OpenScan ==
    /\ timer = "openScan" /\ timer' = "idle" /\ page' = TRUE
    /\ waiting' = (IF gonff THEN 1 ELSE waiting)
    /\ UNCHANGED <<server, flags, last, lists>>

\* wifi_switch_cb: before the server listens there is only a toast.
Refuse == UiIdle(FALSE) /\ srv # "read" /\ UNCHANGED <<page, last, waiting, lists>>

\* menu_wifi_deinit deletes everything with the page.
Close ==
    /\ UiIdle(TRUE) /\ dialog = "null" /\ page' = FALSE
    /\ saved' = FALSE /\ found' = FALSE /\ tag' = AfterDelete(tag)
    /\ UNCHANGED <<last, waiting, dialog>>

\* scan_btn_cb, also reached from the switch.
Scan ==
    /\ UiIdle(TRUE) /\ dialog = "null" /\ waiting' = 1
    /\ UNCHANGED <<page, last, lists>>

\* switch_toggled.
Toggle ==
    /\ timer = "idle" /\ page /\ dialog = "null" /\ Len(pipe) < PipeMax
    /\ \E c \in Commands :
        /\ pipe' = Append(pipe, c)
        /\ waiting' = (IF c = "ENABLE" THEN 1 ELSE waiting)
    /\ UNCHANGED <<srv, registered, flags, page, timer, last, lists>>

\* connect_saved_wifi: the tag moves to the button that was pressed.
ConnectSaved ==
    /\ UiIdle(TRUE) /\ dialog = "null" /\ saved /\ tag' = "live" /\ last' = -1
    /\ UNCHANGED <<page, waiting, saved, found, dialog>>

\* Mutant: the scan goes on behind the dialog.
AskPasswordScanning ==
    /\ UiIdle(TRUE) /\ dialog = "null" /\ found /\ dialog' = "live"
    /\ UNCHANGED <<page, last, waiting, saved, found, tag>>

\* connect_wifi opens the dialog, and gives up the scan first.
AskPassword ==
    /\ UiIdle(TRUE) /\ dialog = "null" /\ found /\ dialog' = "live" /\ waiting' = 0
    /\ UNCHANGED <<page, last, saved, found, tag>>

\* event_cb: confirmed, the name is read from the button; either way the
\* dialog is closed.
Answer ==
    /\ UiIdle(TRUE) /\ dialog # "null" /\ dialog' = "null"
    /\ \/ last' = -1 /\ ReadSaved
       \/ UNCHANGED <<last, saved, tag>>
    /\ UNCHANGED <<page, waiting, found>>

\* wifi_update, part one: has the connection changed?  wifi_connected is
\* called a second time for the new last_state.
Update ==
    /\ timer = "idle" /\ page
    /\ timer' = (IF last # connected THEN "state" ELSE "scan")
    /\ UNCHANGED <<server, flags, page, last, waiting, lists>>

UpdateState ==
    /\ timer = "state" /\ timer' = "scan" /\ last' = connected
    /\ IF last' = 1 THEN ReadSaved ELSE UNCHANGED <<saved, tag>>
    /\ UNCHANGED <<server, flags, page, waiting, found, dialog>>

\* Part two: is a result awaited, and there?
UpdateScan ==
    /\ timer = "scan" /\ timer' = (IF waiting = 1 /\ result = 1 THEN "clear" ELSE "idle")
    /\ UNCHANGED <<server, flags, page, last, waiting, lists>>

\* The list of networks found is made anew, unless the library has none.
ShowFound ==
    /\ timer = "clear" /\ timer' = "idle" /\ result' = 0 /\ waiting' = 0
    /\ \/ found' \in BOOLEAN /\ dialog' = AfterDelete(dialog)
       \/ UNCHANGED <<found, dialog>>
    /\ UNCHANGED <<server, gonff, connected, page, last, saved, tag>>

-----------------------------------------------------------------------------
LibStep == StateReport \/ ScanReport

UiStep ==
    \/ Open \/ OpenSaved \/ OpenScan
    \/ Refuse \/ Close \/ Scan \/ Toggle \/ ConnectSaved \/ AskPassword \/ Answer
    \/ Update \/ UpdateState \/ UpdateScan \/ ShowFound

WifiNext == Boot \/ Serve \/ LibStep \/ UiStep

WifiSpec == WifiInit /\ [][WifiNext]_wifiVars

-----------------------------------------------------------------------------
\* Why the next property holds: the scan is given up when the dialog opens,
\* and no other starts while it is open; a new page starts without a tag.
DialogEndsScan ==
    /\ dialog # "null" => page /\ waiting = 0
    /\ timer = "clear" => waiting = 1
    /\ timer \in Opening => ~page /\ tag # "gone"

\* While the password dialog is open the button it was opened for exists: its
\* name is read when the dialog is confirmed, and no result that comes in
\* meanwhile may clear the list.
DialogButtonLive == dialog # "gone"

\* While the page exists item_label_current is NULL or an existing tag, which
\* connect_saved_wifi will delete, whatever lists were made anew since.
CurrentTagLive == page => tag # "gone"

\* The two pointers into lists that are made anew under the page, by a timer
\* and by its buttons, never outlive what they point to.
PointersLive == DialogButtonLive /\ CurrentTagLive

=============================================================================
