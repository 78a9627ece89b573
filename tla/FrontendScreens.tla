-------------------------- MODULE FrontendScreens --------------------------
(* The screens of the controller frontend (plumos_controller_ui.c): which     *)
(* screen a button leads to, the screens that are remembered to return to,    *)
(* the list that is loaded behind them, and the loop that starts and watches  *)
(* the USB Disk Mode helper.  A handler is an operator from a state of the    *)
(* interface to the states it may leave; scans, launches, helper scripts and  *)
(* power actions are run to their end inside the handler, as system() does.   *)
(* The screen that the power menu or the core menu returns to is reset when   *)
(* the menu is left: the code keeps it and overwrites it on the next opening. *)
EXTENDS Naturals, FiniteSets

CONSTANTS
    Pages,      \* settings pages of the device
    MaxDepth,   \* nesting of ROM directories
    MaxBack     \* presses of B that suffice to reach TOP

Parent == [UI_THEME |-> "UI",
           SYSTEM_DISPLAY_COLOR |-> "SYSTEM", SYSTEM_TIME |-> "SYSTEM",
           SYSTEM_INFORMATION |-> "SYSTEM", SYSTEM_FACTORY_RESET |-> "SYSTEM",
           SYSTEM_BRIGHTNESS_TEST |-> "SYSTEM", SYSTEM_TIME_MANUAL |-> "SYSTEM_TIME",
           NETWORK_SERVICE |-> "NETWORK", NETWORK_INFORMATION |-> "NETWORK"]
RootPages == {"UI", "SYSTEM", "NETWORK", "PERFORMANCE"}

ASSUME PagesAssumption ==
    /\ Pages \subseteq RootPages \cup DOMAIN Parent /\ {"UI", "NETWORK", "NETWORK_SERVICE"} \subseteq Pages
    /\ \A p \in Pages \ RootPages : Parent[p] \in Pages
\* seven screens at most lie over a directory: the menu, its pages, the power menu
ASSUME BoundsAssumption == MaxDepth \in Nat /\ MaxBack \in Nat /\ MaxBack >= MaxDepth + 7

VARIABLES
    ui,         \* struct ui_state, as far as the screens need it
    helper      \* the USB Disk Mode helper and its result file

vars == <<ui, helper>>

RomScreens == {"ROMS", "FAVORITES", "RECENT"}
Screens == RomScreens \cup
    {"TOP", "GALLERY", "CORE_SELECT", "START_MENU", "SETTINGS", "HELP", "SCRAPING",
     "THUMBNAIL_RESULTS", "WIFI_CONNECT", "USB_DISK_CONFIRM", "USB_DISK_STARTING",
     "POWER_MENU", "POWER_ACTION_RUNNING"}
Keys == {"A", "B", "X", "Y", "START", "SELECT", "POWER"}
Lists == {"none", "system", "favorites", "recent"}

\* list and empty stand for rom_entries, dir for the depth of rom_directory,
\* usb for usb_disk_start_due_ms and usb_disk_started
State ==
    [screen : Screens, back : Screens, powerBack : Screens, coreBack : Screens,
     galleryBack : Screens, romEntry : {"ROMS", "GALLERY"},
     menu : {"start", "apps"}, page : Pages,
     list : Lists, empty : BOOLEAN, dir : 0..MaxDepth,
     wifi : {"select", "password", "result"},
     usb : {"off", "due", "missing", "active"},
     overlay : BOOLEAN, exit : BOOLEAN]

TypeOK ==
    /\ ui \in State
    /\ helper \in {"idle", "runs", "answered"}

-----------------------------------------------------------------------------
(* Opening a screen.                                                          *)

Loads(u, kind) == {[u EXCEPT !.list = kind, !.empty = e] : e \in BOOLEAN}

OpenFavorites(u) == Loads([u EXCEPT !.screen = "FAVORITES", !.dir = 0], "favorites")
OpenRecent(u) == Loads([u EXCEPT !.screen = "RECENT", !.dir = 0], "recent")

\* in graphic mode the gallery is opened again when it was left for TOP
AsGallery(u) ==
    IF u.romEntry = "GALLERY" /\ ~u.empty
    THEN {u, [u EXCEPT !.screen = "GALLERY", !.galleryBack = "TOP"]}
    ELSE {u}
OpenRom(u) ==
    UNION {AsGallery(v) : v \in Loads([u EXCEPT !.screen = "ROMS", !.dir = 0], "system")}

OpenGallery(u) ==
    LET refreshed == IF u.screen = "ROMS" THEN {u} \cup Loads(u, "system") ELSE {u}
    IN  IF u.empty THEN {u}
        ELSE {[v EXCEPT !.galleryBack = u.screen, !.screen = "GALLERY"] : v \in refreshed}

OpenCoreSelect(u) ==
    IF u.empty /\ u.screen # "TOP" THEN {u}
    ELSE {u, [u EXCEPT !.coreBack = u.screen, !.screen = "CORE_SELECT"]}

OpenStartMenu(u) == [u EXCEPT !.back = u.screen, !.screen = "START_MENU", !.menu = "start"]
OpenAppsMenu(u) == [u EXCEPT !.screen = "START_MENU", !.menu = "apps"]
OpenSettings(u, page) == [u EXCEPT !.screen = "SETTINGS", !.page = page]
OpenHelp(u) == [u EXCEPT !.screen = "HELP"]
OpenScraping(u) == [u EXCEPT !.screen = "SCRAPING"]
OpenResults(u) == [u EXCEPT !.screen = "THUMBNAIL_RESULTS"]
OpenWifi(u) == [u EXCEPT !.screen = "WIFI_CONNECT", !.wifi = "select"]
OpenUsbConfirm(u) == [u EXCEPT !.screen = "USB_DISK_CONFIRM", !.usb = "off"]
OpenUsbStarting(u) == [u EXCEPT !.screen = "USB_DISK_STARTING", !.usb = "due"]

OpenPowerMenu(u) ==
    IF u.screen = "POWER_MENU" THEN u
    ELSE [u EXCEPT !.powerBack = u.screen, !.screen = "POWER_MENU"]
ClosePowerMenu(u) == [u EXCEPT !.screen = u.powerBack, !.powerBack = "TOP", !.exit = u.overlay]

\* a reboot or shutdown that was accepted shows its screen until the end
PowerOff(u) == {u, [u EXCEPT !.screen = "POWER_ACTION_RUNNING"]}

\* a directory that cannot be read leaves an empty list
OpenDirectory(u) ==
    IF u.dir = MaxDepth \/ u.list # "system" THEN {}
    ELSE Loads([u EXCEPT !.dir = @ + 1], "system") \cup {[u EXCEPT !.empty = TRUE]}
OpenParent(u) == Loads([u EXCEPT !.dir = @ - 1], "system")

\* the launched program runs to its end
Launch(u) == IF u.screen = "RECENT" THEN Loads(u, "recent") ELSE {u}

\* taking the last favourite away empties the list that shows them
ToggleFavorite(u) ==
    IF ~u.empty /\ "FAVORITES" \in {u.screen, u.galleryBack} /\ u.screen \in {"FAVORITES", "GALLERY"}
    THEN {u} \cup Loads(u, "favorites") ELSE {u}

\* What the handlers run to its end: the scraper, an application of the menu, the
\* connection to a network.  What is missing or too long for them leaves the
\* screen, a run that fails ends like one that succeeds.
RunScraping(u) == {u, OpenResults(u)}
RunApp(u) == {u, OpenResults(u)}
ConnectWifi(u) == {u, [u EXCEPT !.wifi = "result"]}

-----------------------------------------------------------------------------
(* The buttons of a screen: handle_action.  Cursor movement is left out.      *)

PowerMenuKey(u, key) ==
    CASE key = "B" -> {ClosePowerMenu(u)}
      [] key = "A" ->
            IF u.overlay THEN {u, [u EXCEPT !.exit = TRUE], ClosePowerMenu(u)}
            ELSE PowerOff(u) \cup {ClosePowerMenu(u)}   \* sleep or cancel
      [] OTHER -> {u}

CoreSelectKey(u, key) ==
    IF key = "B" THEN {[u EXCEPT !.screen = u.coreBack, !.coreBack = "TOP"]} ELSE {u}

ScrapingKey(u, key) ==
    CASE key = "A" -> RunScraping(u)
      [] key = "SELECT" -> {OpenResults(u)}
      [] key = "B" -> {OpenAppsMenu(u)}
      [] key = "START" -> {OpenStartMenu(u)}
      [] OTHER -> {u}

ThumbnailResultsKey(u, key) ==
    CASE key = "B" -> {OpenAppsMenu(u)}
      [] key = "START" -> {OpenStartMenu(u)}
      [] OTHER -> {u}

WifiConnectKey(u, key) ==
    CASE u.wifi = "result" /\ key \in {"A", "B"} -> {OpenSettings(u, "NETWORK")}
      [] u.wifi = "select" /\ key = "B" -> {OpenSettings(u, "NETWORK")}
      [] u.wifi = "select" /\ key = "A" -> ConnectWifi(u) \cup {[u EXCEPT !.wifi = "password"]}
      [] u.wifi = "password" /\ key = "B" -> {[u EXCEPT !.wifi = "select"]}
      [] u.wifi = "password" /\ key = "A" -> ConnectWifi(u)
      [] OTHER -> {u}

UsbConfirmKey(u, key) ==
    CASE key = "A" -> {OpenUsbStarting(u)}
      [] key = "B" -> {OpenSettings(u, "NETWORK_SERVICE")}
      [] key = "START" -> {OpenStartMenu(u)}
      [] OTHER -> {u}

LeaveForTop(u, entry) == [u EXCEPT !.screen = "TOP", !.romEntry = entry]

\* Mutant: B stays when the parent directory cannot be read.
MutantBackFromListStays(u, entry) ==
    IF u.screen \in {"ROMS", "GALLERY"} /\ u.dir > 0
    THEN OpenParent(u) \cup {[u EXCEPT !.empty = TRUE]}
    ELSE {LeaveForTop(u, entry)}

\* B of a list: the parent directory, else TOP, also when the parent cannot be read
BackFromList(u, entry) ==
    IF u.screen \in {"ROMS", "GALLERY"} /\ u.dir > 0
    THEN OpenParent(u) \cup {LeaveForTop([u EXCEPT !.empty = TRUE], entry)}
    ELSE {LeaveForTop(u, entry)}

\* Mutant: X of the gallery always returns to the ROM list.
MutantGalleryList(u) == "ROMS"

GalleryList(u) ==
    IF u.galleryBack \in {"FAVORITES", "RECENT"} THEN u.galleryBack ELSE "ROMS"

GalleryKey(u, key) ==
    CASE key = "B" -> BackFromList(u, "GALLERY")
      [] key = "X" -> {[u EXCEPT !.romEntry = "ROMS", !.screen = GalleryList(u)]}
      [] key = "Y" -> ToggleFavorite(u)
      [] key = "A" /\ ~u.empty -> OpenDirectory(u) \cup Launch(u)
      [] key = "START" -> {OpenStartMenu(u)}
      [] key = "SELECT" -> OpenCoreSelect(u)
      [] OTHER -> {u}

RomListKey(u, key) ==
    CASE key = "X" -> OpenGallery(u)
      [] key = "B" -> BackFromList(u, "ROMS")
      [] key = "Y" -> ToggleFavorite(u)
      [] key = "A" /\ ~u.empty -> OpenDirectory(u) \cup Launch(u)
      [] key = "START" -> {OpenStartMenu(u)}
      [] key = "SELECT" -> OpenCoreSelect(u)
      [] OTHER -> {u}

TopKey(u, key) ==
    CASE key = "A" -> OpenRom(u) \cup OpenFavorites(u) \cup OpenRecent(u)
      [] key = "START" -> {OpenStartMenu(u)}
      [] key = "SELECT" -> OpenCoreSelect(u)
      [] OTHER -> {u}

\* A starts what the entry of menus.json or apps.json names: an application may
\* end on its results
StartMenuKey(u, key) ==
    CASE key = "B" /\ u.menu = "apps" -> {[u EXCEPT !.menu = "start"]}
      [] key = "B" /\ u.menu = "start" -> {[u EXCEPT !.screen = u.back]}
      [] key = "A" ->
            {OpenSettings(u, p) : p \in Pages \cap RootPages}
              \cup RunApp(u) \cup {OpenAppsMenu(u), OpenHelp(u), OpenScraping(u)}
              \cup OpenFavorites(u) \cup OpenRecent(u) \cup OpenRom(u) \cup PowerOff(u)
      [] OTHER -> {u}

BackFromSettings(u) ==
    IF u.page \in DOMAIN Parent THEN OpenSettings(u, Parent[u.page])
    ELSE [u EXCEPT !.screen = "START_MENU"]

SettingsKey(u, key) ==
    CASE key = "B" -> {BackFromSettings(u)}
      [] key = "A" ->
            {u} \cup {OpenSettings(u, p) : p \in {q \in Pages \cap DOMAIN Parent : Parent[q] = u.page}}
              \cup (IF u.page = "NETWORK" THEN {OpenWifi(u)} ELSE {})
              \cup (IF u.page = "NETWORK_SERVICE" THEN {OpenUsbConfirm(u)} ELSE {})
              \cup (IF u.page = "SYSTEM" THEN PowerOff(u) ELSE {})   \* System Update
      [] key = "START" -> {OpenStartMenu(u)}
      [] OTHER -> {u}

HelpKey(u, key) ==
    CASE key = "B" -> {[u EXCEPT !.screen = "START_MENU"]}
      [] key = "START" -> {OpenStartMenu(u)}
      [] OTHER -> {u}

ScreenKey(u, key) ==
    CASE u.screen = "POWER_MENU" -> PowerMenuKey(u, key)
      [] u.screen = "CORE_SELECT" -> CoreSelectKey(u, key)
      [] u.screen = "SCRAPING" -> ScrapingKey(u, key)
      [] u.screen = "THUMBNAIL_RESULTS" -> ThumbnailResultsKey(u, key)
      [] u.screen = "WIFI_CONNECT" -> WifiConnectKey(u, key)
      [] u.screen = "USB_DISK_CONFIRM" -> UsbConfirmKey(u, key)
      [] u.screen = "USB_DISK_STARTING" -> {u}
      [] u.screen = "GALLERY" -> GalleryKey(u, key)
      [] u.screen = "TOP" -> TopKey(u, key)
      [] u.screen = "START_MENU" -> StartMenuKey(u, key)
      [] u.screen = "SETTINGS" -> SettingsKey(u, key)
      [] u.screen = "HELP" -> HelpKey(u, key)
      [] u.screen \in RomScreens -> RomListKey(u, key)

Handle(u, key) ==
    IF u.screen = "POWER_ACTION_RUNNING" THEN {u}
    ELSE IF key = "POWER" THEN {OpenPowerMenu(u)}
    ELSE ScreenKey(u, key)

-----------------------------------------------------------------------------
(* The event loop.                                                            *)

\* boot_resume_mode "recent" opens RECENT; the power overlay opens its menu
Init ==
    /\ LET u == [screen |-> "TOP", back |-> "TOP", powerBack |-> "TOP", coreBack |-> "TOP",
                 galleryBack |-> "TOP", romEntry |-> "ROMS", menu |-> "start", page |-> "UI",
                 list |-> "none", empty |-> TRUE, dir |-> 0, wifi |-> "select",
                 usb |-> "off", overlay |-> FALSE, exit |-> FALSE]
       IN  ui \in {u, OpenPowerMenu([u EXCEPT !.overlay = TRUE])} \cup OpenRecent(u)
    /\ helper = "idle"

\* with the helper script missing its start stays due: the loop tries again and
\* never comes to read the input
Press ==
    /\ ~ui.exit /\ ~(ui.screen = "USB_DISK_STARTING" /\ ui.usb = "missing")
    /\ \E key \in Keys : ui' \in Handle(ui, key)
    /\ UNCHANGED helper

UsbDue == ~ui.exit /\ ui.screen = "USB_DISK_STARTING"
LeaveUsb(u) == OpenSettings([u EXCEPT !.usb = "off"], "NETWORK_SERVICE")

StartHelper ==
    /\ UsbDue /\ ui.usb \in {"due", "missing"}
    /\ \/ /\ ui' = [ui EXCEPT !.usb = "active"]
          /\ helper' = "runs"
       \/ /\ ui' = [ui EXCEPT !.usb = "missing"]
          /\ UNCHANGED helper
       \/ /\ ui' = LeaveUsb(ui)             \* system() failed
          /\ helper' = "idle"

\* Mutant: a missing result file counts as an answer.
MutantPollHelper ==
    /\ UsbDue /\ ui.usb = "active"
    /\ ui' = LeaveUsb(ui)
    /\ UNCHANGED helper

PollHelper ==
    /\ UsbDue /\ ui.usb = "active" /\ helper = "answered"
    /\ ui' = LeaveUsb(ui)
    /\ helper' = "idle"

HelperEnds ==
    /\ helper = "runs"
    /\ helper' = "answered"
    /\ UNCHANGED ui

Gone == ui.exit /\ helper # "runs" /\ UNCHANGED vars

Next == Press \/ StartHelper \/ PollHelper \/ HelperEnds \/ Gone

Spec == Init /\ [][Next]_vars

-----------------------------------------------------------------------------
(* Properties.                                                                *)

MenuScreens ==
    {"START_MENU", "SETTINGS", "HELP", "SCRAPING", "THUMBNAIL_RESULTS", "WIFI_CONNECT",
     "USB_DISK_CONFIRM", "USB_DISK_STARTING"}

\* the screens that the buttons can return to without opening anything
ReturnsTo(u) ==
    LET shown == {u.screen} \cup (IF u.screen = "POWER_MENU" THEN {u.powerBack} ELSE {})
        below == IF "CORE_SELECT" \in shown THEN {u.coreBack} ELSE {}
        menu  == IF shown \cap MenuScreens # {} THEN {u.back} ELSE {}
    IN  shown \cup below \cup menu

ListOf == [ROMS |-> "system", FAVORITES |-> "favorites", RECENT |-> "recent"]

\* Whatever way the buttons lead back to a list, through menus, the power menu,
\* the core menu or the gallery, the entries loaded are those of that list: A
\* launches and Y marks what is shown (return pointers against rom_entries).
ListMatchesScreen ==
    /\ \A s \in ReturnsTo(ui) :
          /\ s \in RomScreens => ui.list = ListOf[s]
          /\ s = "GALLERY" => ui.list = ListOf[GalleryList(ui)]
    /\ ui.dir > 0 => ui.list = "system"

\* the screens that n presses of B may lead to
afterB[n \in 0..MaxBack] ==
    IF n = 0 THEN {ui} ELSE UNION {Handle(v, "B") : v \in afterB[n - 1]}

\* B pressed again and again leads from every screen to TOP, whatever loads
\* fail, unless START was pressed on a screen of the menu itself: then the menu
\* and that screen lead to each other (back_screen).
BackLeadsOut ==
    \/ ui.back \in MenuScreens
    \/ ReturnsTo(ui) \cap {"USB_DISK_STARTING", "POWER_ACTION_RUNNING"} # {}
    \/ \A v \in afterB[MaxBack] : v.screen = "TOP"

\* A started helper is watched to its end: its screen is shown, or the power
\* menu over it that returns to it, until the result is taken, so that no second
\* helper is started and the storage it took is given back to the frontend.
UsbWatched ==
    helper # "idle" =>
        \/ ui.exit
        \/ /\ ui.usb = "active"
           /\ \/ ui.screen = "USB_DISK_STARTING"
              \/ /\ ui.screen \in {"POWER_MENU", "POWER_ACTION_RUNNING"}
                 /\ ui.powerBack = "USB_DISK_STARTING"
=============================================================================
