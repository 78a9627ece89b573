---------------------------- MODULE FrontendProofs ----------------------------
(***************************************************************************)
(* Proofs about the controller frontend.  FrontendInput: for every length   *)
(* of the waits and every number of keys and unread events, the frontend    *)
(* takes keys again in time after a child, and no press that was made       *)
(* meanwhile acts in it.  FrontendScreens: for every set of settings pages and every  *)
(* depth of directories, the list that is loaded is the one shown wherever  *)
(* the buttons lead, B leads out, and a started USB Disk Mode helper is     *)
(* watched to its end.                                                      *)
(***************************************************************************)
EXTENDS FrontendInput, FrontendScreens, WellFoundedInduction, TLAPS

Whens == {"shown", "away", "held"}

EventType == [code : Codes, value : 0 .. 2, when : Whens]

(* What a step needs to know of the types.                                 *)
InputTypes ==
    /\ pc \in {"loop", "child", "settle"}
    /\ ignore \in Nat /\ left \in Nat /\ since \in Nat
    /\ opened \subseteq Devices /\ down \subseteq Codes
    /\ queue \in [Devices -> Seq(EventType)]
    /\ pressed \in [Codes -> Whens]

(* The time that has passed and the time that is left make up the wait;    *)
(* input is ignored in the loop only.                                      *)
Timed ==
    /\ pc = "settle" => since + left <= Limit
    /\ ignore > 0 => pc = "loop" /\ since + ignore <= Limit + Ignore

(* While the loop takes its input, no key that is down and no unread event *)
(* is of a press that it was away for, and an unread press was made in     *)
(* front of it.                                                            *)
Fresh ==
    Takes =>
        /\ \A c \in down : pressed[c] # "away"
        /\ \A d \in Devices : \A i \in DOMAIN queue[d] :
              /\ queue[d][i].when # "away"
              /\ queue[d][i].value = 1 => queue[d][i].when = "shown"

(* Nor is the key that repeats.                                            *)
RepeatKnown == begun \in {"shown", "held"}

InputInv == InputTypes /\ Timed /\ Fresh /\ RepeatKnown /\ StaleKeysDropped

-----------------------------------------------------------------------------

LEMMA InputInitInv == InputInit => InputInv
  BY InputAssumption
     DEF InputInit, InputInv, InputTypes, Timed, Fresh, RepeatKnown, StaleKeysDropped, Whens, Takes, Devices

(* A key that is queued while the loop takes its input is one that it      *)
(* knows of.                                                               *)
LEMMA EnqueueKeeps ==
    ASSUME InputInv, NEW c \in Codes, NEW value \in 0 .. 2, NEW when \in Whens,
           Enqueue(c, value, when),
           down' \subseteq Codes, pressed' \in [Codes -> Whens],
           Takes => /\ \A k \in down' : pressed'[k] # "away"
                    /\ when # "away"
                    /\ value = 1 => when = "shown",
           UNCHANGED <<pc, ignore, left, since, opened, begun, acted>>
    PROVE  InputInv'
<1>1. Timed' /\ RepeatKnown' /\ StaleKeysDropped' /\ (Takes' <=> Takes)
  BY DEF InputInv, Timed, RepeatKnown, StaleKeysDropped, Takes
<1>2. CASE Device(c) \notin opened
  BY <1>1, <1>2 DEF Enqueue, InputInv, InputTypes, Fresh
<1>3. CASE Device(c) \in opened
  <2> DEFINE e == Event(c, value, when)
  <2>1. e \in EventType /\ e.when = when /\ e.value = value
    BY DEF Event, EventType
  <2>2. queue' = [queue EXCEPT ![Device(c)] = Append(@, e)]
    BY <1>3 DEF Enqueue
  <2>3. Device(c) \in Devices
    BY DEF Device, Devices
  <2>4. /\ queue \in [Devices -> Seq(EventType)]
        /\ queue' \in [Devices -> Seq(EventType)]
    BY <2>1, <2>2, <2>3 DEF InputInv, InputTypes
  <2>5. InputTypes'
    BY <2>4 DEF InputInv, InputTypes
  <2>6. ASSUME Takes, NEW d \in Devices, NEW i \in DOMAIN queue'[d]
        PROVE  /\ queue'[d][i].when # "away"
               /\ queue'[d][i].value = 1 => queue'[d][i].when = "shown"
    <3>1. CASE d = Device(c)
      <4>1. queue'[d] = Append(queue[d], e)
        BY <2>2, <2>3, <2>4, <3>1
      <4>2. queue[d] \in Seq(EventType)
        BY <2>4
      <4>3. CASE i \in DOMAIN queue[d]
        <5>1. queue'[d][i] = queue[d][i]
          BY <2>1, <4>1, <4>2, <4>3
        <5> QED
          BY <5>1, <4>3, <2>6 DEF InputInv, Fresh
      <4>4. CASE i \notin DOMAIN queue[d]
        <5>1. queue'[d][i] = e
          BY <2>1, <4>1, <4>2, <4>4
        <5> QED
          BY <5>1, <2>1, <2>6
      <4> QED
        BY <4>3, <4>4
    <3>2. CASE d # Device(c)
      BY <2>2, <2>3, <2>4, <2>6, <3>2 DEF InputInv, Fresh
    <3> QED
      BY <3>1, <3>2
  <2> QED
    BY <1>1, <2>5, <2>6 DEF InputInv, Fresh
<1> QED
  BY <1>2, <1>3

LEMMA PressKeeps == ASSUME InputInv, NEW c \in Codes, PressKey(c) PROVE InputInv'
<1> DEFINE when == IF Takes THEN "shown" ELSE "away"
<1>1. /\ Enqueue(c, 1, when) /\ down' = down \cup {c}
      /\ pressed' = [pressed EXCEPT ![c] = when]
      /\ UNCHANGED <<pc, ignore, left, since, opened, begun, acted>>
  BY DEF PressKey, waiting, repeating
<1>2. when \in Whens /\ (Takes => when = "shown")
  BY DEF Whens
<1> HIDE DEF when
<1>3. down' \subseteq Codes /\ pressed' \in [Codes -> Whens]
  BY <1>1, <1>2 DEF InputInv, InputTypes
<1>4. Takes => \A k \in down' : pressed'[k] # "away"
  BY <1>1, <1>2 DEF InputInv, InputTypes, Fresh
<1> QED
  BY <1>1, <1>2, <1>3, <1>4, EnqueueKeeps

LEMMA ReleaseKeeps == ASSUME InputInv, NEW c \in Codes, Release(c) PROVE InputInv'
<1>1. /\ Enqueue(c, 0, pressed[c]) /\ c \in down /\ down' = down \ {c}
      /\ pressed' = [pressed EXCEPT ![c] = "away"]
      /\ UNCHANGED <<pc, ignore, left, since, opened, begun, acted>>
  BY DEF Release, waiting, repeating
<1>2. pressed[c] \in Whens /\ (Takes => pressed[c] # "away")
  BY <1>1 DEF InputInv, InputTypes, Fresh
<1>3. down' \subseteq Codes /\ pressed' \in [Codes -> Whens]
  BY <1>1 DEF InputInv, InputTypes, Whens
<1>4. Takes => \A k \in down' : pressed'[k] # "away"
  BY <1>1 DEF InputInv, InputTypes, Fresh
<1> QED
  BY <1>1, <1>2, <1>3, <1>4, EnqueueKeeps

LEMMA AutorepeatKeeps == ASSUME InputInv, NEW c \in Codes, Autorepeat(c) PROVE InputInv'
<1>1. /\ Enqueue(c, 2, pressed[c]) /\ c \in down /\ UNCHANGED <<down, pressed>>
      /\ UNCHANGED <<pc, ignore, left, since, opened, begun, acted>>
  BY DEF Autorepeat, waiting, repeating, keyboard
<1>2. /\ pressed[c] \in Whens /\ down' \subseteq Codes /\ pressed' \in [Codes -> Whens]
      /\ Takes => pressed[c] # "away" /\ \A k \in down' : pressed'[k] # "away"
  BY <1>1 DEF InputInv, InputTypes, Fresh
<1> QED
  BY <1>1, <1>2, EnqueueKeeps

(* With nothing unread there is nothing stale.                             *)
LEMMA NothingIsFresh ==
    /\ Nothing \in [Devices -> Seq(EventType)]
    /\ \A d \in Devices : DOMAIN Nothing[d] = {}
  BY DEF Nothing

LEMMA StillDownTypes ==
    ASSUME InputTypes
    PROVE  /\ StillDown \in [Codes -> Whens]
           /\ \A c \in down : StillDown[c] = "held"
  BY DEF StillDown, Whens, InputTypes

LEMMA TickKeeps == InputInv /\ Tick => InputInv'
<1> SUFFICES ASSUME InputInv, Tick PROVE InputInv'
  OBVIOUS
<1>1. InputTypes'
  BY StillDownTypes DEF InputInv, InputTypes, Tick, Dec
<1>2. Timed'
  BY InputAssumption DEF InputInv, InputTypes, Timed, Tick, Dec, Waits, SettleOver
<1>3. ASSUME pc = "loop" PROVE \A d \in Devices : queue'[d] = <<>>
  BY <1>3 DEF Tick, Unread, InputInv, InputTypes
<1>4. ASSUME Takes' PROVE \A c \in down' : pressed'[c] # "away"
  <2>1. down' = down /\ pc = "loop" /\ (ignore = 1 \/ Takes)
    BY <1>4 DEF Tick, Dec, Takes, InputInv, InputTypes
  <2>2. CASE ignore = 1
    BY <2>1, <2>2, StillDownTypes DEF Tick, InputInv
  <2>3. CASE Takes
    BY <2>1, <2>3 DEF Tick, InputInv, Fresh, Takes
  <2> QED
    BY <2>1, <2>2, <2>3
<1>5. Takes' => pc = "loop"
  BY DEF Takes, Tick
<1>6. Fresh' /\ RepeatKnown' /\ StaleKeysDropped'
  BY <1>3, <1>4, <1>5 DEF Fresh, InputInv, Tick, RepeatKnown, StaleKeysDropped
<1> QED
  BY <1>1, <1>2, <1>6 DEF InputInv

LEMMA RepeatKeeps ==
    ASSUME NEW code, NEW when \in {"shown", "held"}, StaleKeysDropped, Repeat(code, when)
    PROVE  RepeatKnown' /\ StaleKeysDropped' /\ pc' = pc
<1>1. CASE Repeats(code, screen)
  BY <1>1 DEF Repeat, RepeatKnown, StaleKeysDropped
<1>2. CASE ~Repeats(code, screen)
  BY <1>2 DEF Repeat, RepeatKnown, StaleKeysDropped
<1> QED
  BY <1>1, <1>2

(* The event that is read is one that was unread, or none.                 *)
KnownEvent(e) == e.when \in {"shown", "held"} /\ (e.value = 1 => e.when = "shown")

LEMMA ReadsKnown ==
    ASSUME InputInv, Takes
    PROVE  /\ \A event \in ReadEvent : KnownEvent(event)
           /\ \A held \in ReadRepeat : held.when \in {"shown", "held"}
<1>1. ASSUME NEW d \in Devices, NEW i \in DOMAIN queue[d]
      PROVE  /\ queue[d][i].when \in {"shown", "held"}
             /\ queue[d][i].value = 1 => queue[d][i].when = "shown"
  <2>1. queue[d] \in Seq(EventType)
    BY DEF InputInv, InputTypes
  <2>2. queue[d][i] \in EventType
    BY <2>1
  <2>3. queue[d][i].when \in Whens
    BY <2>2 DEF EventType
  <2> QED
    BY <2>3, <1>1 DEF InputInv, Fresh, Whens
<1>2. ASSUME NEW d \in Devices, NEW e \in LastPress(d)
      PROVE  e.when \in {"shown", "held"} /\ (e.value = 1 => e.when = "shown")
  BY <1>1, <1>2 DEF LastPress, LastOf, Pressed
<1>3. ASSUME NEW event \in ReadEvent
      PROVE  event.when \in {"shown", "held"} /\ (event.value = 1 => event.when = "shown")
  BY <1>2, <1>3 DEF ReadEvent, NoEvent, Devices
<1>4. ASSUME NEW held \in ReadRepeat PROVE held.when \in {"shown", "held"}
  <2> DEFINE read == queue["gamepad"]
             starts == LastOf({i \in Pressed("gamepad") : Repeats(read[i].code, screen)})
  <2>1. begun \in {"shown", "held"}
    BY DEF InputInv, RepeatKnown
  <2>2. ASSUME NEW i \in starts PROVE read[i].when \in {"shown", "held"}
    <3>1. i \in DOMAIN queue["gamepad"]
      BY <2>2 DEF LastOf, Pressed
    <3> QED
      BY <3>1, <1>1 DEF Devices
  <2>3. \/ held.when = "shown" \/ held.when = begun
        \/ \E i \in starts : held.when = read[i].when
    BY <1>4 DEF ReadRepeat
  <2> QED
    BY <2>1, <2>2, <2>3
<1> QED
  BY <1>3, <1>4 DEF KnownEvent

LEMMA ActsKeeps ==
    ASSUME InputInv, pc = "loop", NEW event, NEW held,
           event.when \in {"shown", "held"}, event.value = 1 => event.when = "shown",
           held.when \in {"shown", "held"}, Acts(event, held)
    PROVE  /\ pc' \in {"loop", "child"} /\ RepeatKnown' /\ StaleKeysDropped'
           /\ pressed' \in [Codes -> Whens] /\ (pc' = "loop" => UNCHANGED pressed)
<1>1. pc' = IF ActionOf[event.code] = "A" /\ screen \in {"roms", "gallery"} THEN "child" ELSE pc
  BY ZenonT(40) DEF Acts, HandleAction
<1>2. StaleKeysDropped'
  BY DEF Acts, StaleKeysDropped
<1>3. /\ RepeatKnown' /\ pressed' \in [Codes -> Whens]
      /\ pc' = "loop" => UNCHANGED pressed
  BY StillDownTypes DEF Acts, RepeatKnown, InputInv, InputTypes
<1> QED
  BY <1>1, <1>2, <1>3

LEMMA ReadsKeeps == InputInv /\ Reads => InputInv'
<1> SUFFICES ASSUME InputInv, Reads PROVE InputInv'
  OBVIOUS
<1>1. PICK event \in ReadEvent, held \in ReadRepeat :
          IF event # NoEvent /\ ActionOf[event.code] # "NONE" THEN Acts(event, held)
          ELSE /\ UNCHANGED pressed
               /\ IF held.code # NoCode /\ held.next = 0 THEN Repeat(held.code, held.when)
                  ELSE /\ repeat' = held.code /\ next' = held.next /\ begun' = held.when
                       /\ UNCHANGED <<pc, screen, acted>>
  BY DEF Reads
<1>2. /\ pc = "loop" /\ ignore = 0 /\ Takes /\ queue' = Nothing
      /\ UNCHANGED <<down, opened, ignore, left, since>>
  BY DEF Reads, waiting, Takes
<1>3. /\ event.when \in {"shown", "held"} /\ (event.value = 1 => event.when = "shown")
      /\ held.when \in {"shown", "held"}
  <2>1. KnownEvent(event) /\ held.when \in {"shown", "held"}
    BY <1>2, ReadsKnown
  <2> QED
    BY <2>1 DEF KnownEvent
<1>4. /\ pc' \in {"loop", "child"} /\ RepeatKnown' /\ StaleKeysDropped'
      /\ pressed' \in [Codes -> Whens] /\ (pc' = "loop" => UNCHANGED pressed)
  <2>1. CASE Acts(event, held)
    BY <2>1, <1>2, <1>3, ActsKeeps
  <2>2. CASE UNCHANGED pressed /\ Repeat(held.code, held.when)
    BY <2>2, <1>2, <1>3, RepeatKeeps DEF InputInv, InputTypes
  <2>3. CASE UNCHANGED <<pressed, pc, acted>> /\ begun' = held.when
    BY <2>3, <1>2, <1>3 DEF InputInv, InputTypes, RepeatKnown, StaleKeysDropped
  <2> QED
    BY <1>1, <2>1, <2>2, <2>3
<1>5. InputTypes' /\ Timed'
  BY <1>2, <1>4, NothingIsFresh DEF InputInv, InputTypes, Timed
<1>6. Fresh'
  BY <1>2, <1>4, NothingIsFresh DEF InputInv, Fresh, Takes
<1> QED
  BY <1>4, <1>5, <1>6 DEF InputInv

LEMMA InputNextKeeps == InputInv /\ [InputNext]_inputVars => InputInv'
<1> SUFFICES ASSUME InputInv, [InputNext]_inputVars PROVE InputInv'
  OBVIOUS
<1> USE DEF keyboard, repeating, waiting
<1>1. ASSUME NEW c \in Codes, PressKey(c) \/ Release(c) \/ Autorepeat(c) PROVE InputInv'
  BY <1>1, PressKeeps, ReleaseKeeps, AutorepeatKeeps
<1>2. CASE Tick
  BY <1>2, TickKeeps
<1>3. CASE RepeatFires
  <2>1. /\ Repeat(repeat, begun) /\ pc = "loop"
        /\ UNCHANGED <<down, pressed, queue, opened, ignore, left, since>>
    BY <1>3 DEF RepeatFires
  <2>2. RepeatKnown' /\ StaleKeysDropped' /\ pc' = pc
    BY <2>1, RepeatKeeps DEF InputInv, RepeatKnown
  <2> QED
    BY <2>1, <2>2 DEF InputInv, InputTypes, Timed, Fresh, Takes
<1>4. CASE Ignored
  BY <1>4, NothingIsFresh
     DEF Ignored, InputInv, InputTypes, Timed, Fresh, RepeatKnown, StaleKeysDropped, Takes
<1>5. CASE Reads
  BY <1>5, ReadsKeeps
<1>6. CASE ChildEnds
  BY <1>6, NothingIsFresh, InputAssumption
     DEF ChildEnds, InputInv, InputTypes, Timed, Fresh, RepeatKnown, StaleKeysDropped, Takes
<1>7. CASE SettleDrains
  <2>1. queue' \in [Devices -> Seq(EventType)]
    <3>1. /\ queue \in [Devices -> Seq(EventType)]
          /\ queue' = [queue EXCEPT !["gamepad"] = <<>>]
      BY <1>7 DEF SettleDrains, InputInv, InputTypes
    <3>2. <<>> \in Seq(EventType)
      OBVIOUS
    <3> QED
      BY <3>1, <3>2
  <2> QED
    BY <1>7, <2>1
       DEF SettleDrains, InputInv, InputTypes, Timed, Fresh, RepeatKnown, StaleKeysDropped, Takes
<1>8. CASE SettleEnds
  BY <1>8, InputAssumption
     DEF SettleEnds, InputInv, InputTypes, Timed, Fresh, RepeatKnown, StaleKeysDropped, Takes
<1>9. CASE UNCHANGED inputVars
  BY <1>9 DEF inputVars, InputInv, InputTypes, Timed, Fresh, RepeatKnown, StaleKeysDropped, Takes
<1> QED
  BY <1>1, <1>2, <1>3, <1>4, <1>5, <1>6, <1>7, <1>8, <1>9 DEF InputNext

LEMMA InputInvHolds == InputSpec => []InputInv
  BY InputInitInv, InputNextKeeps, PTL DEF InputSpec

(* However long the waits are and whatever is pressed, the loop takes keys *)
(* again at the latest Limit + Ignore after the end of a child             *)
(* (settle_input_after_child, ignore_input_until_ms).                      *)
THEOREM InputReturns == InputSpec => []ReactsAgain
<1>1. InputInv => ReactsAgain
  BY InputAssumption DEF InputInv, InputTypes, Timed, ReactsAgain, Waits
<1> QED
  BY <1>1, InputInvHolds, PTL

(* For every number of keys and of unread events: what was pressed while   *)
(* the frontend did not take input acts neither as a press nor in any      *)
(* other way, unless it was still held when the frontend took input again  *)
(* (settle_input_after_child, ignore_input_until_ms, read_input_actions).  *)
THEOREM StaleKeysNeverAct == InputSpec => []StaleKeysDropped
<1>1. InputInv => StaleKeysDropped
  BY DEF InputInv, StaleKeysDropped
<1> QED
  BY <1>1, InputInvHolds, PTL

-----------------------------------------------------------------------------
(* The screens.                                                             *)

(* The screen under the power menu, or the one shown.                       *)
Under(u) == IF u.screen = "POWER_MENU" THEN u.powerBack ELSE u.screen

(* The entries loaded are those of screen s.                                *)
Shows(u, s) ==
    /\ s \in RomScreens => u.list = ListOf[s]
    /\ s = "GALLERY" => u.list = ListOf[GalleryList(u)]

(* Where START opens the menu, and SELECT the core menu.                    *)
StartScreens ==
    RomScreens \cup {"TOP", "GALLERY", "SETTINGS", "HELP", "SCRAPING", "THUMBNAIL_RESULTS",
                     "USB_DISK_CONFIRM"}
CoreScreens == RomScreens \cup {"TOP", "GALLERY"}

(* Each menu returns to a screen it can be opened on, and what can be        *)
(* returned to shows the entries loaded.                                    *)
Sound(u) ==
    /\ u \in State
    /\ u.powerBack \notin {"POWER_MENU", "POWER_ACTION_RUNNING"}
    /\ u.back \in StartScreens
    /\ u.coreBack \in CoreScreens
    /\ u.dir > 0 => u.list = "system"
    /\ Shows(u, Under(u))
    /\ Under(u) = "CORE_SELECT" => Shows(u, u.coreBack)
    /\ Under(u) \in MenuScreens => Shows(u, u.back)

(* What the screens need of two states that differ in other fields.         *)
Keeps(u, v) ==
    /\ v \in State
    /\ v.back = u.back /\ v.powerBack = u.powerBack /\ v.coreBack = u.coreBack
    /\ v.galleryBack = u.galleryBack /\ v.list = u.list /\ v.dir = u.dir

(* What each operator that opens a screen leaves of the fields.             *)
LEMMA LoadsFields ==
    ASSUME NEW u \in State, NEW kind \in Lists, NEW v \in Loads(u, kind)
    PROVE  /\ v \in State /\ v.screen = u.screen /\ v.list = kind
           /\ v.back = u.back /\ v.powerBack = u.powerBack /\ v.coreBack = u.coreBack
           /\ v.galleryBack = u.galleryBack /\ v.dir = u.dir
  BY ZenonT(40) DEF Loads, State

LEMMA ScreenFields ==
    ASSUME NEW u \in State, NEW s \in Screens, NEW v, v = [u EXCEPT !.screen = s]
    PROVE  Keeps(u, v) /\ v.screen = s
  BY DEF State, Keeps

LEMMA EmptyFields ==
    ASSUME NEW u \in State, NEW v, v = [u EXCEPT !.empty = TRUE]
    PROVE  Keeps(u, v) /\ v.screen = u.screen
  BY DEF State, Keeps

LEMMA ExitFields ==
    ASSUME NEW u \in State, NEW v, v = [u EXCEPT !.exit = TRUE]
    PROVE  Keeps(u, v) /\ v.screen = u.screen
  BY DEF State, Keeps

LEMMA UsbFields ==
    ASSUME NEW u \in State, NEW s \in {"off", "due", "missing", "active"},
           NEW v, v = [u EXCEPT !.usb = s]
    PROVE  Keeps(u, v) /\ v.screen = u.screen /\ v.usb = s
  BY DEF State, Keeps

LEMMA WifiFields ==
    ASSUME NEW u \in State, NEW s \in {"select", "password", "result"},
           NEW v, v = [u EXCEPT !.wifi = s]
    PROVE  Keeps(u, v) /\ v.screen = u.screen
  BY DEF State, Keeps

LEMMA SettingsFields ==
    ASSUME NEW u \in State, NEW p \in Pages, NEW v, v = OpenSettings(u, p)
    PROVE  Keeps(u, v) /\ v.screen = "SETTINGS"
  BY DEF OpenSettings, State, Keeps, Screens

LEMMA AppsFields ==
    ASSUME NEW u \in State, NEW v, v = OpenAppsMenu(u)
    PROVE  Keeps(u, v) /\ v.screen = "START_MENU"
  BY ZenonT(40) DEF OpenAppsMenu, State, Keeps, Screens

LEMMA WifiScreenFields ==
    ASSUME NEW u \in State, NEW v, v = OpenWifi(u)
    PROVE  Keeps(u, v) /\ v.screen = "WIFI_CONNECT"
<1> DEFINE w == [u EXCEPT !.screen = "WIFI_CONNECT"]
<1>1. Keeps(u, w) /\ w.screen = "WIFI_CONNECT"
  BY ScreenFields DEF Screens
<1>2. v = [w EXCEPT !.wifi = "select"]
  BY DEF OpenWifi, State
<1> HIDE DEF w
<1>3. Keeps(w, v) /\ v.screen = w.screen
  BY <1>1, <1>2, WifiFields DEF Keeps
<1> QED
  BY <1>1, <1>3 DEF Keeps

LEMMA ConfirmFields ==
    ASSUME NEW u \in State, NEW v, v = OpenUsbConfirm(u)
    PROVE  Keeps(u, v) /\ v.screen = "USB_DISK_CONFIRM"
<1> DEFINE w == [u EXCEPT !.screen = "USB_DISK_CONFIRM"]
<1>1. Keeps(u, w) /\ w.screen = "USB_DISK_CONFIRM"
  BY ScreenFields DEF Screens
<1>2. v = [w EXCEPT !.usb = "off"]
  BY DEF OpenUsbConfirm, State
<1> HIDE DEF w
<1>3. Keeps(w, v) /\ v.screen = w.screen
  BY <1>1, <1>2, UsbFields DEF Keeps
<1> QED
  BY <1>1, <1>3 DEF Keeps

LEMMA StartingFields ==
    ASSUME NEW u \in State, NEW v, v = OpenUsbStarting(u)
    PROVE  Keeps(u, v) /\ v.screen = "USB_DISK_STARTING"
<1> DEFINE w == [u EXCEPT !.screen = "USB_DISK_STARTING"]
<1>1. Keeps(u, w) /\ w.screen = "USB_DISK_STARTING"
  BY ScreenFields DEF Screens
<1>2. v = [w EXCEPT !.usb = "due"]
  BY DEF OpenUsbStarting, State
<1> HIDE DEF w
<1>3. Keeps(w, v) /\ v.screen = w.screen
  BY <1>1, <1>2, UsbFields DEF Keeps
<1> QED
  BY <1>1, <1>3 DEF Keeps

LEMMA TopFields ==
    ASSUME NEW u \in State, NEW entry \in {"ROMS", "GALLERY"}, NEW v, v = LeaveForTop(u, entry)
    PROVE  Keeps(u, v) /\ v.screen = "TOP"
  BY ZenonT(40) DEF LeaveForTop, State, Keeps, Screens

LEMMA StartMenuFields ==
    ASSUME NEW u \in State, NEW v, v = OpenStartMenu(u)
    PROVE  /\ v \in State /\ v.screen = "START_MENU" /\ v.back = u.screen
           /\ v.powerBack = u.powerBack /\ v.coreBack = u.coreBack
           /\ v.galleryBack = u.galleryBack /\ v.list = u.list /\ v.dir = u.dir
  BY ZenonT(40) DEF OpenStartMenu, State, Screens

LEMMA CoreSelectFields ==
    ASSUME NEW u \in State, NEW v, v = [u EXCEPT !.coreBack = u.screen, !.screen = "CORE_SELECT"]
    PROVE  /\ v \in State /\ v.screen = "CORE_SELECT" /\ v.coreBack = u.screen
           /\ v.back = u.back /\ v.powerBack = u.powerBack
           /\ v.galleryBack = u.galleryBack /\ v.list = u.list /\ v.dir = u.dir
  BY ZenonT(40) DEF State, Screens

LEMMA CoreLeaveFields ==
    ASSUME NEW u \in State, NEW v, v = [u EXCEPT !.screen = u.coreBack, !.coreBack = "TOP"]
    PROVE  /\ v \in State /\ v.screen = u.coreBack /\ v.coreBack = "TOP"
           /\ v.back = u.back /\ v.powerBack = u.powerBack
           /\ v.galleryBack = u.galleryBack /\ v.list = u.list /\ v.dir = u.dir
  BY ZenonT(40) DEF State, Screens

LEMMA PowerOpenFields ==
    ASSUME NEW u \in State, NEW v,
           v = [u EXCEPT !.powerBack = u.screen, !.screen = "POWER_MENU"]
    PROVE  /\ v \in State /\ v.screen = "POWER_MENU" /\ v.powerBack = u.screen
           /\ v.back = u.back /\ v.coreBack = u.coreBack
           /\ v.galleryBack = u.galleryBack /\ v.list = u.list /\ v.dir = u.dir
  BY ZenonT(40) DEF State, Screens

LEMMA PowerCloseFields ==
    ASSUME NEW u \in State, NEW v, v = ClosePowerMenu(u)
    PROVE  /\ v \in State /\ v.screen = u.powerBack /\ v.powerBack = "TOP"
           /\ v.back = u.back /\ v.coreBack = u.coreBack
           /\ v.galleryBack = u.galleryBack /\ v.list = u.list /\ v.dir = u.dir
  BY ZenonT(40) DEF ClosePowerMenu, State, Screens

(* The gallery over screen s, and a list at directory d.                    *)
Over(u, s) == [u EXCEPT !.galleryBack = s, !.screen = "GALLERY"]
AtDir(u, s, d) == [u EXCEPT !.screen = s, !.dir = d]

LEMMA GalleryFields ==
    ASSUME NEW u \in State, NEW s \in Screens, NEW v, v = Over(u, s)
    PROVE  /\ v \in State /\ v.screen = "GALLERY" /\ v.galleryBack = s
           /\ v.back = u.back /\ v.powerBack = u.powerBack /\ v.coreBack = u.coreBack
           /\ v.list = u.list /\ v.dir = u.dir
  BY ZenonT(40) DEF Over, State, Screens

LEMMA DirFields ==
    ASSUME NEW u \in State, NEW s \in Screens, NEW d \in 0..MaxDepth, NEW v,
           v = AtDir(u, s, d)
    PROVE  /\ v \in State /\ v.screen = s /\ v.dir = d
           /\ v.back = u.back /\ v.powerBack = u.powerBack /\ v.coreBack = u.coreBack
           /\ v.galleryBack = u.galleryBack /\ v.list = u.list
  BY DEF AtDir, State

(* Where a state stays sound.                                               *)
LEMMA SoundStays ==
    ASSUME NEW u, Sound(u), NEW v, Keeps(u, v), v.screen = u.screen
    PROVE  Sound(v)
  BY DEF Sound, Keeps, Under, Shows, GalleryList

LEMMA SoundInMenus ==
    ASSUME NEW u, Sound(u), NEW v, Keeps(u, v),
           u.screen \in MenuScreens, v.screen \in MenuScreens
    PROVE  Sound(v)
  BY DEF Sound, Keeps, Under, Shows, GalleryList, MenuScreens, RomScreens

LEMMA SoundOut ==
    ASSUME NEW u, Sound(u), NEW v, Keeps(u, v), v.screen \in {"TOP", "POWER_ACTION_RUNNING"}
    PROVE  Sound(v)
  BY DEF Sound, Keeps, Under, Shows, GalleryList, MenuScreens, RomScreens

LEMMA SoundStart ==
    ASSUME NEW u, Sound(u), u.screen \in StartScreens, NEW v, v = OpenStartMenu(u)
    PROVE  Sound(v)
<1>1. u \in State
  BY DEF Sound
<1>2. /\ v \in State /\ v.screen = "START_MENU" /\ v.back = u.screen
      /\ v.powerBack = u.powerBack /\ v.coreBack = u.coreBack
      /\ v.galleryBack = u.galleryBack /\ v.list = u.list /\ v.dir = u.dir
  BY <1>1, StartMenuFields
<1> QED
  BY <1>2 DEF Sound, Under, Shows, GalleryList, MenuScreens, RomScreens, StartScreens

(* A load for the list that is shown, or for the gallery over it.           *)
LEMMA SoundLoads ==
    ASSUME NEW u, u \in State, NEW kind \in Lists, NEW v \in Loads(u, kind),
           u.powerBack \notin {"POWER_MENU", "POWER_ACTION_RUNNING"},
           u.back \in StartScreens, u.coreBack \in CoreScreens,
           u.dir > 0 => kind = "system",
           \/ u.screen \in RomScreens /\ kind = ListOf[u.screen]
           \/ u.screen = "GALLERY" /\ kind = ListOf[GalleryList(u)]
    PROVE  Sound(v)
<1>1. /\ v \in State /\ v.screen = u.screen /\ v.list = kind
      /\ v.back = u.back /\ v.powerBack = u.powerBack /\ v.coreBack = u.coreBack
      /\ v.galleryBack = u.galleryBack /\ v.dir = u.dir
  BY LoadsFields
<1> QED
  BY <1>1 DEF Sound, Under, Shows, GalleryList, MenuScreens, RomScreens

(* Favorites and Recent can be opened from anywhere.                        *)
LEMMA SoundOpenList ==
    ASSUME NEW u, Sound(u), NEW v, v \in OpenFavorites(u) \cup OpenRecent(u)
    PROVE  Sound(v)
<1>1. u \in State /\ 0 \in 0..MaxDepth
  BY BoundsAssumption DEF Sound
<1>2. CASE v \in OpenFavorites(u)
  <2> DEFINE w == AtDir(u, "FAVORITES", 0)
  <2>0. "FAVORITES" \in Screens
    BY DEF Screens, RomScreens
  <2>1. /\ w \in State /\ w.screen = "FAVORITES" /\ w.dir = 0
        /\ w.back = u.back /\ w.powerBack = u.powerBack /\ w.coreBack = u.coreBack
    BY <1>1, <2>0, DirFields
  <2>2. v \in Loads(w, "favorites")
    BY <1>2 DEF OpenFavorites, AtDir
  <2> HIDE DEF w
  <2> QED
    BY <2>1, <2>2, SoundLoads DEF Sound, Lists, RomScreens, ListOf
<1>3. CASE v \in OpenRecent(u)
  <2> DEFINE w == AtDir(u, "RECENT", 0)
  <2>0. "RECENT" \in Screens
    BY DEF Screens, RomScreens
  <2>1. /\ w \in State /\ w.screen = "RECENT" /\ w.dir = 0
        /\ w.back = u.back /\ w.powerBack = u.powerBack /\ w.coreBack = u.coreBack
    BY <1>1, <2>0, DirFields
  <2>2. v \in Loads(w, "recent")
    BY <1>3 DEF OpenRecent, AtDir
  <2> HIDE DEF w
  <2> QED
    BY <2>1, <2>2, SoundLoads DEF Sound, Lists, RomScreens, ListOf
<1> QED
  BY <1>2, <1>3

(* A gallery over a list that is shown.                                     *)
LEMMA SoundGallery ==
    ASSUME NEW u, Sound(u), NEW s \in {"TOP"} \cup RomScreens, u.list = ListOf[IF s = "TOP" THEN "ROMS" ELSE s],
           NEW v, v = Over(u, s)
    PROVE  Sound(v)
<1>1. u \in State /\ s \in Screens
  BY DEF Sound, Screens
<1>2. /\ v \in State /\ v.screen = "GALLERY" /\ v.galleryBack = s
      /\ v.back = u.back /\ v.powerBack = u.powerBack /\ v.coreBack = u.coreBack
      /\ v.list = u.list /\ v.dir = u.dir
  BY <1>1, GalleryFields
<1> QED
  BY <1>2 DEF Sound, Under, Shows, GalleryList, MenuScreens, RomScreens

LEMMA SoundOpenRom ==
    ASSUME NEW u, Sound(u), NEW v \in OpenRom(u)
    PROVE  Sound(v)
<1> DEFINE w == AtDir(u, "ROMS", 0)
<1>1. u \in State /\ 0 \in 0..MaxDepth
  BY BoundsAssumption DEF Sound
<1>0. "ROMS" \in Screens
  BY DEF Screens, RomScreens
<1>2. /\ w \in State /\ w.screen = "ROMS" /\ w.dir = 0
      /\ w.back = u.back /\ w.powerBack = u.powerBack /\ w.coreBack = u.coreBack
  BY <1>0, <1>1, DirFields
<1>3. PICK x \in Loads(w, "system") : v \in AsGallery(x)
  BY DEF OpenRom, AtDir
<1> HIDE DEF w
<1>4. Sound(x) /\ x.list = "system"
  BY <1>2, <1>3, SoundLoads, LoadsFields DEF Sound, Lists, RomScreens, ListOf
<1>5. \/ v = x
      \/ v = [x EXCEPT !.screen = "GALLERY", !.galleryBack = "TOP"]
  BY <1>3 DEF AsGallery
<1>6. CASE v = [x EXCEPT !.screen = "GALLERY", !.galleryBack = "TOP"]
  <2>1. v = Over(x, "TOP")
    BY <1>4, <1>6 DEF Sound, State, Over
  <2> QED
    BY <1>4, <2>1, SoundGallery DEF ListOf
<1> QED
  BY <1>4, <1>5, <1>6

LEMMA SoundOpenGallery ==
    ASSUME NEW u, Sound(u), u.screen \in RomScreens, NEW v \in OpenGallery(u)
    PROVE  Sound(v)
<1>1. CASE u.empty
  BY <1>1 DEF OpenGallery
<1>2. CASE ~u.empty
  <2>1. PICK x \in IF u.screen = "ROMS" THEN {u} \cup Loads(u, "system") ELSE {u} :
           v = Over(x, u.screen)
    BY <1>2, ZenonT(40) DEF OpenGallery, Over
  <2>2. Sound(x) /\ x.list = ListOf[u.screen]
    <3>1. CASE x = u
      BY <3>1 DEF Sound, Under, Shows, RomScreens
    <3>2. CASE x # u
      <4>1. u.screen = "ROMS" /\ x \in Loads(u, "system")
        BY <2>1, <3>2
      <4>2. u \in State /\ "system" \in Lists /\ ListOf[u.screen] = "system"
        BY <4>1 DEF Sound, Lists, ListOf
      <4> QED
        BY <4>1, <4>2, SoundLoads, LoadsFields DEF Sound
    <3> QED
      BY <3>1, <3>2
  <2>3. u.screen # "TOP"
    BY DEF RomScreens
  <2> QED
    BY <2>1, <2>2, <2>3, SoundGallery
<1> QED
  BY <1>1, <1>2

LEMMA SoundCoreSelect ==
    ASSUME NEW u, Sound(u), u.screen \in CoreScreens, NEW v \in OpenCoreSelect(u)
    PROVE  Sound(v)
<1>1. CASE v = u
  BY <1>1
<1>2. CASE v # u
  <2>1. v = [u EXCEPT !.coreBack = u.screen, !.screen = "CORE_SELECT"]
    BY <1>2 DEF OpenCoreSelect
  <2>2. /\ v \in State /\ v.screen = "CORE_SELECT" /\ v.coreBack = u.screen
        /\ v.back = u.back /\ v.powerBack = u.powerBack
        /\ v.galleryBack = u.galleryBack /\ v.list = u.list /\ v.dir = u.dir
    BY <2>1, CoreSelectFields, ZenonT(40) DEF Sound
  <2> QED
    BY <2>2 DEF Sound, Under, Shows, GalleryList, MenuScreens, RomScreens, CoreScreens
<1> QED
  BY <1>1, <1>2

(* What a list or the gallery over it loads again.                          *)
LEMMA SoundFavorite ==
    ASSUME NEW u, Sound(u), u.screen \in CoreScreens, NEW v \in ToggleFavorite(u)
    PROVE  Sound(v)
<1>1. CASE v = u
  BY <1>1
<1>2. CASE v # u
  <2>1. /\ "FAVORITES" \in {u.screen, u.galleryBack} /\ u.screen \in {"FAVORITES", "GALLERY"}
        /\ v \in Loads(u, "favorites")
    BY <1>2 DEF ToggleFavorite
  <2>2. u \in State /\ "favorites" \in Lists /\ u.list = "favorites"
    BY <2>1 DEF Sound, Lists, Under, Shows, GalleryList, RomScreens, ListOf
  <2>3. \/ u.screen \in RomScreens /\ ListOf[u.screen] = "favorites"
        \/ u.screen = "GALLERY" /\ ListOf[GalleryList(u)] = "favorites"
    BY <2>1 DEF RomScreens, ListOf, GalleryList
  <2> QED
    BY <2>1, <2>2, <2>3, SoundLoads DEF Sound
<1> QED
  BY <1>1, <1>2

LEMMA SoundLaunch ==
    ASSUME NEW u, Sound(u), NEW v \in Launch(u)
    PROVE  Sound(v)
<1>1. CASE v = u
  BY <1>1
<1>2. CASE v # u
  <2>1. u.screen = "RECENT" /\ v \in Loads(u, "recent")
    BY <1>2 DEF Launch
  <2>2. u \in State /\ "recent" \in Lists /\ u.list = "recent"
    BY <2>1 DEF Sound, Lists, Under, Shows, RomScreens, ListOf
  <2>3. u.screen \in RomScreens /\ ListOf[u.screen] = "recent"
    BY <2>1 DEF RomScreens, ListOf
  <2> QED
    BY <2>1, <2>2, <2>3, SoundLoads DEF Sound
<1> QED
  BY <1>1, <1>2

(* Directories are those of a system: its list is shown, or the gallery     *)
(* over it.                                                                 *)
LEMMA SystemShown ==
    ASSUME NEW u, Sound(u), u.screen \in RomScreens \cup {"GALLERY"}, u.list = "system"
    PROVE  \/ u.screen \in RomScreens /\ ListOf[u.screen] = "system"
           \/ u.screen = "GALLERY" /\ ListOf[GalleryList(u)] = "system"
  BY DEF Sound, Under, Shows, RomScreens, ListOf, GalleryList

LEMMA SoundDirectory ==
    ASSUME NEW u, Sound(u), u.screen \in RomScreens \cup {"GALLERY"},
           NEW v \in OpenDirectory(u)
    PROVE  Sound(v)
<1>1. u.dir # MaxDepth /\ u.list = "system"
  BY DEF OpenDirectory
<1>2. u \in State /\ u.dir \in 0..MaxDepth /\ u.screen \in Screens
  BY DEF Sound, State
<1>3. CASE v = [u EXCEPT !.empty = TRUE]
  BY <1>2, <1>3, EmptyFields, SoundStays
<1>4. CASE v \in Loads([u EXCEPT !.dir = @ + 1], "system")
  <2> DEFINE w == AtDir(u, u.screen, u.dir + 1)
  <2>1. v \in Loads(w, "system")
    BY <1>2, <1>4 DEF AtDir, State
  <2>2. u.dir + 1 \in 0..MaxDepth
    BY <1>1, <1>2, BoundsAssumption
  <2>3. /\ w \in State /\ w.screen = u.screen
        /\ w.back = u.back /\ w.powerBack = u.powerBack /\ w.coreBack = u.coreBack
        /\ w.galleryBack = u.galleryBack
    BY <1>2, <2>2, DirFields
  <2> HIDE DEF w
  <2>4. GalleryList(w) = GalleryList(u)
    BY <2>3 DEF GalleryList
  <2> QED
    BY <1>1, <2>1, <2>3, <2>4, SystemShown, SoundLoads DEF Sound, Lists
<1> QED
  BY <1>1, <1>3, <1>4 DEF OpenDirectory

LEMMA SoundParent ==
    ASSUME NEW u, Sound(u), u.screen \in RomScreens \cup {"GALLERY"}, u.dir > 0,
           NEW v \in OpenParent(u)
    PROVE  Sound(v)
<1>1. u.list = "system"
  BY DEF Sound
<1>2. u \in State /\ u.dir \in 0..MaxDepth /\ u.screen \in Screens
  BY DEF Sound, State
<1> DEFINE w == AtDir(u, u.screen, u.dir - 1)
<1>3. v \in Loads(w, "system")
  BY <1>2 DEF AtDir, State, OpenParent
<1>4. u.dir - 1 \in 0..MaxDepth
  BY <1>1, <1>2, BoundsAssumption
<1>5. /\ w \in State /\ w.screen = u.screen
      /\ w.back = u.back /\ w.powerBack = u.powerBack /\ w.coreBack = u.coreBack
      /\ w.galleryBack = u.galleryBack
  BY <1>2, <1>4, DirFields
<1> HIDE DEF w
<1>6. GalleryList(w) = GalleryList(u)
  BY <1>5 DEF GalleryList
<1> QED
  BY <1>1, <1>3, <1>5, <1>6, SystemShown, SoundLoads DEF Sound, Lists

LEMMA SoundBack ==
    ASSUME NEW u, Sound(u), u.screen \in RomScreens \cup {"GALLERY"},
           NEW entry \in {"ROMS", "GALLERY"}, NEW v \in BackFromList(u, entry)
    PROVE  Sound(v)
<1>1. u \in State
  BY DEF Sound
<1>2. CASE v = LeaveForTop(u, entry)
  BY <1>1, <1>2, TopFields, SoundOut
<1>3. CASE v = LeaveForTop([u EXCEPT !.empty = TRUE], entry)
  <2> DEFINE w == [u EXCEPT !.empty = TRUE]
  <2>1. Keeps(u, w) /\ w.screen = u.screen /\ Sound(w)
    BY <1>1, EmptyFields, SoundStays
  <2> HIDE DEF w
  <2>2. v = LeaveForTop(w, entry)
    BY <1>3 DEF w
  <2> QED
    BY <2>1, <2>2, TopFields, SoundOut DEF Keeps
<1>4. CASE v \in OpenParent(u) /\ u.dir > 0
  BY <1>4, SoundParent
<1> QED
  BY <1>2, <1>3, <1>4 DEF BackFromList

(* The buttons of each screen.                                              *)
LEMMA PowerMenuSound ==
    ASSUME NEW u, Sound(u), u.screen = "POWER_MENU", NEW key \in Keys,
           NEW v \in PowerMenuKey(u, key)
    PROVE  Sound(v)
<1>1. \/ v = u
      \/ v = ClosePowerMenu(u)
      \/ v = [u EXCEPT !.exit = TRUE]
      \/ v = [u EXCEPT !.screen = "POWER_ACTION_RUNNING"]
  BY DEF PowerMenuKey, PowerOff, Keys
<1>2. u \in State /\ "POWER_ACTION_RUNNING" \in Screens
  BY DEF Sound, Screens
<1>3. CASE v = ClosePowerMenu(u)
  <2>1. /\ v \in State /\ v.screen = u.powerBack /\ v.powerBack = "TOP"
        /\ v.back = u.back /\ v.coreBack = u.coreBack
        /\ v.galleryBack = u.galleryBack /\ v.list = u.list /\ v.dir = u.dir
    BY <1>2, <1>3, PowerCloseFields
  <2> QED
    BY <2>1 DEF Sound, Under, Shows, GalleryList
<1>4. CASE v = [u EXCEPT !.exit = TRUE]
  BY <1>2, <1>4, ExitFields, SoundStays
<1>5. CASE v = [u EXCEPT !.screen = "POWER_ACTION_RUNNING"]
  BY <1>2, <1>5, ScreenFields, SoundOut
<1> QED
  BY <1>1, <1>3, <1>4, <1>5

LEMMA CoreSelectSound ==
    ASSUME NEW u, Sound(u), u.screen = "CORE_SELECT", NEW key \in Keys,
           NEW v \in CoreSelectKey(u, key)
    PROVE  Sound(v)
<1>1. \/ v = u
      \/ v = [u EXCEPT !.screen = u.coreBack, !.coreBack = "TOP"]
  BY DEF CoreSelectKey
<1>2. CASE v = [u EXCEPT !.screen = u.coreBack, !.coreBack = "TOP"]
  <2>1. /\ v \in State /\ v.screen = u.coreBack /\ v.coreBack = "TOP"
        /\ v.back = u.back /\ v.powerBack = u.powerBack
        /\ v.galleryBack = u.galleryBack /\ v.list = u.list /\ v.dir = u.dir
    BY <1>2, CoreLeaveFields, ZenonT(40) DEF Sound
  <2> QED
    BY <2>1 DEF Sound, Under, Shows, GalleryList, CoreScreens, RomScreens, MenuScreens
<1> QED
  BY <1>1, <1>2

(* From a screen of the menu to another one.                                *)
LEMMA MenuMoves ==
    ASSUME NEW u, Sound(u), u.screen \in MenuScreens, NEW v,
           \/ v = OpenAppsMenu(u)
           \/ \E p \in Pages : v = OpenSettings(u, p)
           \/ v = OpenWifi(u)
           \/ v = OpenUsbConfirm(u)
           \/ v = OpenUsbStarting(u)
           \/ \E s \in MenuScreens : v = [u EXCEPT !.screen = s]
           \/ \E s \in {"select", "password", "result"} : v = [u EXCEPT !.wifi = s]
    PROVE  Sound(v)
<1>1. u \in State /\ MenuScreens \subseteq Screens
  BY DEF Sound, MenuScreens, Screens
<1>2. CASE v = OpenAppsMenu(u)
  BY <1>1, <1>2, AppsFields, SoundInMenus DEF MenuScreens
<1>3. CASE \E p \in Pages : v = OpenSettings(u, p)
  BY <1>1, <1>3, SettingsFields, SoundInMenus DEF MenuScreens
<1>4. CASE v = OpenWifi(u)
  BY <1>1, <1>4, WifiScreenFields, SoundInMenus DEF MenuScreens
<1>5. CASE v = OpenUsbConfirm(u)
  BY <1>1, <1>5, ConfirmFields, SoundInMenus DEF MenuScreens
<1>6. CASE v = OpenUsbStarting(u)
  BY <1>1, <1>6, StartingFields, SoundInMenus DEF MenuScreens
<1>7. CASE \E s \in MenuScreens : v = [u EXCEPT !.screen = s]
  BY <1>1, <1>7, ScreenFields, SoundInMenus
<1>8. CASE \E s \in {"select", "password", "result"} : v = [u EXCEPT !.wifi = s]
  BY <1>1, <1>8, WifiFields, SoundStays
<1> QED
  BY <1>2, <1>3, <1>4, <1>5, <1>6, <1>7, <1>8

LEMMA ScrapingSound ==
    ASSUME NEW u, Sound(u), u.screen = "SCRAPING", NEW key \in Keys,
           NEW v \in ScrapingKey(u, key)
    PROVE  Sound(v)
<1>1. \/ v = u \/ v = [u EXCEPT !.screen = "THUMBNAIL_RESULTS"]
      \/ v = OpenAppsMenu(u) \/ v = OpenStartMenu(u)
  BY DEF ScrapingKey, RunScraping, OpenResults, Keys
<1> QED
  BY <1>1, MenuMoves, SoundStart DEF MenuScreens, StartScreens

LEMMA ResultsSound ==
    ASSUME NEW u, Sound(u), u.screen = "THUMBNAIL_RESULTS", NEW key \in Keys,
           NEW v \in ThumbnailResultsKey(u, key)
    PROVE  Sound(v)
<1>1. v = u \/ v = OpenAppsMenu(u) \/ v = OpenStartMenu(u)
  BY DEF ThumbnailResultsKey, Keys
<1> QED
  BY <1>1, MenuMoves, SoundStart DEF MenuScreens, StartScreens

LEMMA WifiSound ==
    ASSUME NEW u, Sound(u), u.screen = "WIFI_CONNECT", NEW key \in Keys,
           NEW v \in WifiConnectKey(u, key)
    PROVE  Sound(v)
<1>1. \/ v = u \/ v = OpenSettings(u, "NETWORK")
      \/ \E s \in {"select", "password", "result"} : v = [u EXCEPT !.wifi = s]
  BY DEF WifiConnectKey, ConnectWifi, Keys
<1> QED
  BY <1>1, MenuMoves, PagesAssumption DEF MenuScreens

LEMMA UsbConfirmSound ==
    ASSUME NEW u, Sound(u), u.screen = "USB_DISK_CONFIRM", NEW key \in Keys,
           NEW v \in UsbConfirmKey(u, key)
    PROVE  Sound(v)
<1>1. \/ v = u \/ v = OpenUsbStarting(u) \/ v = OpenSettings(u, "NETWORK_SERVICE")
      \/ v = OpenStartMenu(u)
  BY DEF UsbConfirmKey, Keys
<1> QED
  BY <1>1, MenuMoves, SoundStart, PagesAssumption DEF MenuScreens, StartScreens

LEMMA GallerySound ==
    ASSUME NEW u, Sound(u), u.screen = "GALLERY", NEW key \in Keys,
           NEW v \in GalleryKey(u, key)
    PROVE  Sound(v)
<1>1. \/ v = u
      \/ v \in BackFromList(u, "GALLERY")
      \/ v = [u EXCEPT !.romEntry = "ROMS", !.screen = GalleryList(u)]
      \/ v \in ToggleFavorite(u) \/ v \in OpenDirectory(u) \/ v \in Launch(u)
      \/ v = OpenStartMenu(u) \/ v \in OpenCoreSelect(u)
  BY DEF GalleryKey, Keys
<1>2. CASE v = [u EXCEPT !.romEntry = "ROMS", !.screen = GalleryList(u)]
  <2>1. u \in State /\ GalleryList(u) \in RomScreens /\ GalleryList(u) \in Screens
    BY DEF Sound, GalleryList, RomScreens, Screens
  <2> DEFINE s == GalleryList(u)
  <2> HIDE DEF s
  <2>2. Keeps(u, v) /\ v.screen = s
    BY <1>2, <2>1 DEF Keeps, State, s
  <2> QED
    BY <2>1, <2>2 DEF Sound, Keeps, Under, Shows, MenuScreens, RomScreens, s
<1> QED
  BY <1>1, <1>2, SoundBack, SoundFavorite, SoundDirectory, SoundLaunch, SoundStart,
     SoundCoreSelect DEF StartScreens, CoreScreens

LEMMA RomListSound ==
    ASSUME NEW u, Sound(u), u.screen \in RomScreens, NEW key \in Keys,
           NEW v \in RomListKey(u, key)
    PROVE  Sound(v)
<1>1. \/ v = u
      \/ v \in OpenGallery(u)
      \/ v \in BackFromList(u, "ROMS")
      \/ v \in ToggleFavorite(u) \/ v \in OpenDirectory(u) \/ v \in Launch(u)
      \/ v = OpenStartMenu(u) \/ v \in OpenCoreSelect(u)
  BY DEF RomListKey, Keys
<1> QED
  BY <1>1, SoundBack, SoundFavorite, SoundDirectory, SoundLaunch, SoundStart,
     SoundCoreSelect, SoundOpenGallery DEF StartScreens, CoreScreens

LEMMA TopSound ==
    ASSUME NEW u, Sound(u), u.screen = "TOP", NEW key \in Keys, NEW v \in TopKey(u, key)
    PROVE  Sound(v)
<1>1. \/ v = u
      \/ v \in OpenRom(u) \/ v \in OpenFavorites(u) \/ v \in OpenRecent(u)
      \/ v = OpenStartMenu(u) \/ v \in OpenCoreSelect(u)
  BY DEF TopKey, Keys
<1> QED
  BY <1>1, SoundOpenRom, SoundOpenList, SoundStart, SoundCoreSelect DEF StartScreens, CoreScreens

LEMMA StartMenuSound ==
    ASSUME NEW u, Sound(u), u.screen = "START_MENU", NEW key \in Keys,
           NEW v \in StartMenuKey(u, key)
    PROVE  Sound(v)
<1>0. u \in State
  BY DEF Sound
<1>1. \/ v = u
      \/ v = [u EXCEPT !.menu = "start"]
      \/ v = [u EXCEPT !.screen = u.back]
      \/ \E p \in Pages : v = OpenSettings(u, p)
      \/ \E s \in MenuScreens : v = [u EXCEPT !.screen = s]
      \/ v = OpenAppsMenu(u)
      \/ v \in OpenFavorites(u) \/ v \in OpenRecent(u) \/ v \in OpenRom(u)
      \/ v = [u EXCEPT !.screen = "POWER_ACTION_RUNNING"]
  BY <1>0 DEF StartMenuKey, Keys, RunApp, OpenResults, OpenHelp, OpenScraping, PowerOff, MenuScreens, State
<1>2. CASE v = [u EXCEPT !.menu = "start"]
  <2>1. Keeps(u, v) /\ v.screen = u.screen
    BY <1>0, <1>2 DEF Keeps, State
  <2> QED
    BY <2>1, SoundStays
<1>3. CASE v = [u EXCEPT !.screen = u.back]
  <2>1. u.back \in StartScreens /\ u.back \in Screens
    BY <1>0 DEF Sound, State
  <2>2. Keeps(u, v) /\ v.screen = u.back
    BY <1>0, <1>3, <2>1, ScreenFields
  <2> QED
    BY <2>1, <2>2 DEF Sound, Keeps, Under, Shows, GalleryList, StartScreens, RomScreens, MenuScreens
<1>4. CASE v = [u EXCEPT !.screen = "POWER_ACTION_RUNNING"]
  BY <1>0, <1>4, ScreenFields, SoundOut DEF Screens
<1>5. u.screen \in MenuScreens
  BY DEF MenuScreens
<1> QED
  BY <1>1, <1>2, <1>3, <1>4, <1>5, MenuMoves, SoundOpenRom, SoundOpenList

LEMMA SettingsSound ==
    ASSUME NEW u, Sound(u), u.screen = "SETTINGS", NEW key \in Keys,
           NEW v \in SettingsKey(u, key)
    PROVE  Sound(v)
<1>0. u \in State /\ u.page \in Pages
  BY DEF Sound, State
<1>1. \/ v = u
      \/ v = BackFromSettings(u)
      \/ \E p \in Pages : v = OpenSettings(u, p)
      \/ v = OpenWifi(u) \/ v = OpenUsbConfirm(u)
      \/ v = [u EXCEPT !.screen = "POWER_ACTION_RUNNING"]
      \/ v = OpenStartMenu(u)
  BY DEF SettingsKey, Keys, PowerOff
<1>2. CASE v = BackFromSettings(u)
  <2>1. CASE u.page \in DOMAIN Parent
    <3>1. u.page \notin RootPages
      BY <2>1 DEF Parent, RootPages
    <3>2. Parent[u.page] \in Pages
      BY <1>0, <3>1, PagesAssumption
    <3>3. v = OpenSettings(u, Parent[u.page])
      BY <1>2, <2>1 DEF BackFromSettings
    <3> QED
      BY <3>2, <3>3, MenuMoves DEF MenuScreens
  <2>2. CASE u.page \notin DOMAIN Parent
    <3>1. v = [u EXCEPT !.screen = "START_MENU"]
      BY <1>2, <2>2 DEF BackFromSettings
    <3> QED
      BY <3>1, MenuMoves DEF MenuScreens
  <2> QED
    BY <2>1, <2>2
<1>3. CASE v = [u EXCEPT !.screen = "POWER_ACTION_RUNNING"]
  BY <1>0, <1>3, ScreenFields, SoundOut DEF Screens
<1> QED
  BY <1>1, <1>2, <1>3, MenuMoves, SoundStart DEF MenuScreens, StartScreens

LEMMA HelpSound ==
    ASSUME NEW u, Sound(u), u.screen = "HELP", NEW key \in Keys, NEW v \in HelpKey(u, key)
    PROVE  Sound(v)
<1>1. v = u \/ v = [u EXCEPT !.screen = "START_MENU"] \/ v = OpenStartMenu(u)
  BY DEF HelpKey, Keys
<1> QED
  BY <1>1, MenuMoves, SoundStart DEF MenuScreens, StartScreens

LEMMA OpenPowerSound ==
    ASSUME NEW u, Sound(u), u.screen # "POWER_ACTION_RUNNING"
    PROVE  Sound(OpenPowerMenu(u))
<1>1. CASE u.screen = "POWER_MENU"
  BY <1>1 DEF OpenPowerMenu
<1>2. CASE u.screen # "POWER_MENU"
  <2> DEFINE v == OpenPowerMenu(u)
  <2>1. v = [u EXCEPT !.powerBack = u.screen, !.screen = "POWER_MENU"]
    BY <1>2 DEF OpenPowerMenu
  <2> HIDE DEF v
  <2>2. /\ v \in State /\ v.screen = "POWER_MENU" /\ v.powerBack = u.screen
        /\ v.back = u.back /\ v.coreBack = u.coreBack
        /\ v.galleryBack = u.galleryBack /\ v.list = u.list /\ v.dir = u.dir
    BY <2>1, PowerOpenFields, ZenonT(40) DEF Sound
  <2>3. Sound(v)
    BY <1>2, <2>2 DEF Sound, Under, Shows, GalleryList
  <2> QED
    BY <2>3 DEF v
<1> QED
  BY <1>1, <1>2

LEMMA HandleSound ==
    ASSUME NEW u, Sound(u), NEW key \in Keys, NEW v \in Handle(u, key)
    PROVE  Sound(v)
<1>1. CASE u.screen = "POWER_ACTION_RUNNING"
  BY <1>1 DEF Handle
<1>2. CASE u.screen # "POWER_ACTION_RUNNING" /\ key = "POWER"
  BY <1>2, OpenPowerSound DEF Handle
<1>3. CASE u.screen # "POWER_ACTION_RUNNING" /\ key # "POWER"
  <2>1. v \in ScreenKey(u, key)
    BY <1>3 DEF Handle
  <2>2. u.screen \in Screens
    BY DEF Sound, State
  <2>3. \/ u.screen = "POWER_MENU" /\ v \in PowerMenuKey(u, key)
        \/ u.screen = "CORE_SELECT" /\ v \in CoreSelectKey(u, key)
        \/ u.screen = "SCRAPING" /\ v \in ScrapingKey(u, key)
        \/ u.screen = "THUMBNAIL_RESULTS" /\ v \in ThumbnailResultsKey(u, key)
        \/ u.screen = "WIFI_CONNECT" /\ v \in WifiConnectKey(u, key)
        \/ u.screen = "USB_DISK_CONFIRM" /\ v \in UsbConfirmKey(u, key)
        \/ v = u
        \/ u.screen = "GALLERY" /\ v \in GalleryKey(u, key)
        \/ u.screen = "TOP" /\ v \in TopKey(u, key)
        \/ u.screen = "START_MENU" /\ v \in StartMenuKey(u, key)
        \/ u.screen = "SETTINGS" /\ v \in SettingsKey(u, key)
        \/ u.screen = "HELP" /\ v \in HelpKey(u, key)
        \/ u.screen \in RomScreens /\ v \in RomListKey(u, key)
    BY <1>3, <2>1, <2>2 DEF ScreenKey, Screens, RomScreens
  <2> QED
    BY <2>3, PowerMenuSound, CoreSelectSound, ScrapingSound, ResultsSound, WifiSound,
       UsbConfirmSound, GallerySound, TopSound, StartMenuSound, SettingsSound, HelpSound,
       RomListSound
<1> QED
  BY <1>1, <1>2, <1>3

(* The loop.                                                                *)
ScreensInv ==
    /\ Sound(ui)
    /\ helper \in {"idle", "runs", "answered"}
    /\ UsbWatched

LEMMA LeaveUsbSound ==
    ASSUME NEW u, Sound(u), u.screen = "USB_DISK_STARTING"
    PROVE  Sound(LeaveUsb(u))
<1> DEFINE w == [u EXCEPT !.usb = "off"]
<1>1. Keeps(u, w) /\ w.screen = u.screen
  BY UsbFields DEF Sound
<1>2. Sound(w)
  BY <1>1, SoundStays
<1> HIDE DEF w
<1>3. LeaveUsb(u) = OpenSettings(w, "NETWORK_SERVICE")
  BY DEF LeaveUsb, w
<1> QED
  BY <1>1, <1>2, <1>3, MenuMoves, PagesAssumption DEF MenuScreens

LEMMA ScreensInit == Init => ScreensInv
<1> DEFINE u == [screen |-> "TOP", back |-> "TOP", powerBack |-> "TOP", coreBack |-> "TOP",
                 galleryBack |-> "TOP", romEntry |-> "ROMS", menu |-> "start", page |-> "UI",
                 list |-> "none", empty |-> TRUE, dir |-> 0, wifi |-> "select",
                 usb |-> "off", overlay |-> FALSE, exit |-> FALSE]
<1>1. u \in State
  BY PagesAssumption, BoundsAssumption DEF State, Screens, Lists
<1>2. Sound(u)
  BY <1>1 DEF Sound, Under, Shows, StartScreens, CoreScreens, RomScreens, MenuScreens
<1> DEFINE o == [u EXCEPT !.overlay = TRUE]
<1>3. o \in State /\ o.screen = "TOP" /\ o.back = "TOP" /\ o.powerBack = "TOP"
      /\ o.coreBack = "TOP" /\ o.dir = 0
  BY <1>1 DEF State
<1> HIDE DEF o
<1>4. Sound(o)
  BY <1>3 DEF Sound, Under, Shows, StartScreens, CoreScreens, RomScreens, MenuScreens
<1>5. Sound(OpenPowerMenu(o))
  BY <1>3, <1>4, OpenPowerSound
<1> HIDE DEF u
<1>6. ASSUME Init PROVE ui \in {u, OpenPowerMenu(o)} \cup OpenRecent(u) /\ helper = "idle"
  BY <1>6 DEF Init, u, o
<1>7. ASSUME NEW v \in OpenRecent(u) PROVE Sound(v)
  BY <1>2, <1>7, SoundOpenList
<1> QED
  BY <1>2, <1>5, <1>6, <1>7 DEF ScreensInv, UsbWatched

(* A button keeps the helper watched: the power menu covers its screen and  *)
(* returns to it.                                                           *)
LEMMA PressWatches ==
    ASSUME NEW u \in State, u.usb = "active", ~u.exit,
           \/ u.screen = "USB_DISK_STARTING"
           \/ /\ u.screen \in {"POWER_MENU", "POWER_ACTION_RUNNING"}
              /\ u.powerBack = "USB_DISK_STARTING",
           NEW key \in Keys, NEW v \in Handle(u, key)
    PROVE  \/ v.exit
           \/ /\ v.usb = "active"
              /\ \/ v.screen = "USB_DISK_STARTING"
                 \/ /\ v.screen \in {"POWER_MENU", "POWER_ACTION_RUNNING"}
                    /\ v.powerBack = "USB_DISK_STARTING"
<1>1. CASE u.screen = "POWER_ACTION_RUNNING"
  BY <1>1 DEF Handle
<1>2. CASE u.screen = "USB_DISK_STARTING"
  <2>1. CASE key = "POWER"
    <3>1. v = [u EXCEPT !.powerBack = u.screen, !.screen = "POWER_MENU"]
      BY <1>2, <2>1 DEF Handle, OpenPowerMenu
    <3>2. v.usb = u.usb /\ v.powerBack = u.screen /\ v.screen = "POWER_MENU"
      BY <3>1 DEF State
    <3> QED
      BY <1>2, <3>2
  <2>2. CASE key # "POWER"
    BY <1>2, <2>2 DEF Handle, ScreenKey, RomScreens
  <2> QED
    BY <2>1, <2>2
<1>3. CASE u.screen = "POWER_MENU"
  <2>1. \/ v = u
        \/ v = ClosePowerMenu(u)
        \/ v = [u EXCEPT !.exit = TRUE]
        \/ v = [u EXCEPT !.screen = "POWER_ACTION_RUNNING"]
    <3>1. CASE key = "POWER"
      BY <1>3, <3>1 DEF Handle, OpenPowerMenu
    <3>2. CASE key # "POWER"
      <4>0. v \in ScreenKey(u, key)
        BY <1>3, <3>2 DEF Handle
      <4>1. v \in PowerMenuKey(u, key)
        BY <1>3, <4>0 DEF ScreenKey, RomScreens
      <4> QED
        BY <4>1 DEF PowerMenuKey, PowerOff, Keys
    <3> QED
      BY <3>1, <3>2
  <2>2. CASE v = ClosePowerMenu(u)
    <3>1. v.screen = u.powerBack /\ v.usb = u.usb
      BY <2>2 DEF ClosePowerMenu, State
    <3> QED
      BY <1>3, <3>1
  <2>3. CASE v = [u EXCEPT !.exit = TRUE]
    BY <2>3 DEF State
  <2>4. CASE v = [u EXCEPT !.screen = "POWER_ACTION_RUNNING"]
    <3>1. v.screen = "POWER_ACTION_RUNNING" /\ v.usb = u.usb /\ v.powerBack = u.powerBack
      BY <2>4 DEF State
    <3> QED
      BY <1>3, <3>1
  <2> QED
    BY <1>3, <2>1, <2>2, <2>3, <2>4
<1> QED
  BY <1>1, <1>2, <1>3

LEMMA ScreensNext == ScreensInv /\ [Next]_vars => ScreensInv'
<1> SUFFICES ASSUME ScreensInv, [Next]_vars PROVE ScreensInv'
  OBVIOUS
<1>0. ui \in State
  BY DEF ScreensInv, Sound
<1>1. CASE Press
  <2>1. PICK key \in Keys : ui' \in Handle(ui, key)
    BY <1>1 DEF Press
  <2>2. Sound(ui') /\ helper' = helper /\ ~ui.exit
    BY <1>1, <2>1, HandleSound DEF ScreensInv, Press
  <2>3. ASSUME helper # "idle" PROVE UsbWatched'
    BY <1>0, <2>1, <2>2, <2>3, PressWatches DEF ScreensInv, UsbWatched
  <2>4. UsbWatched'
    BY <2>2, <2>3 DEF UsbWatched
  <2> QED
    BY <2>2, <2>4 DEF ScreensInv
<1>2. CASE StartHelper
  <2>0. ui.screen = "USB_DISK_STARTING"
    BY <1>2 DEF StartHelper, UsbDue
  <2>1. CASE ui' = [ui EXCEPT !.usb = "active"] /\ helper' = "runs"
    <3>1. Keeps(ui, ui') /\ ui'.screen = ui.screen /\ ui'.usb = "active"
      BY <1>0, <2>1, UsbFields
    <3>2. Sound(ui')
      BY <3>1, SoundStays DEF ScreensInv
    <3> QED
      BY <2>0, <2>1, <3>1, <3>2 DEF ScreensInv, UsbWatched
  <2>2. CASE ui' = [ui EXCEPT !.usb = "missing"] /\ helper' = helper
    <3>1. Keeps(ui, ui') /\ ui'.screen = ui.screen
      BY <1>0, <2>2, UsbFields
    <3>2. Sound(ui')
      BY <3>1, SoundStays DEF ScreensInv
    <3>3. helper = "idle"
      BY <1>2 DEF StartHelper, UsbDue, ScreensInv, UsbWatched
    <3> QED
      BY <2>2, <3>2, <3>3 DEF ScreensInv, UsbWatched
  <2>3. CASE ui' = LeaveUsb(ui) /\ helper' = "idle"
    BY <2>0, <2>3, LeaveUsbSound DEF ScreensInv, UsbWatched
  <2> QED
    BY <1>2, <2>1, <2>2, <2>3 DEF StartHelper
<1>3. CASE PollHelper
  <2>1. ui' = LeaveUsb(ui) /\ helper' = "idle" /\ ui.screen = "USB_DISK_STARTING"
    BY <1>3 DEF PollHelper, UsbDue
  <2> QED
    BY <2>1, LeaveUsbSound DEF ScreensInv, UsbWatched
<1>4. CASE HelperEnds
  BY <1>4 DEF HelperEnds, ScreensInv, UsbWatched
<1>5. CASE UNCHANGED vars
  BY <1>5 DEF vars, ScreensInv, UsbWatched
<1> QED
  BY <1>1, <1>2, <1>3, <1>4, <1>5 DEF Next, Gone

LEMMA ScreensHold == Spec => []ScreensInv
  BY ScreensInit, ScreensNext, PTL DEF Spec

(* For every set of settings pages and every depth of directories: what the *)
(* buttons can return to is the list whose entries are loaded (back_screen,  *)
(* power_back_screen, core_back_screen, gallery_back_screen against          *)
(* rom_entries).                                                            *)
THEOREM ReturnsToItsList == Spec => []ListMatchesScreen
<1>1. ScreensInv => ListMatchesScreen
  <2> SUFFICES ASSUME Sound(ui) PROVE ListMatchesScreen
    BY DEF ScreensInv
  <2>1. ASSUME NEW s \in ReturnsTo(ui) PROVE Shows(ui, s)
    BY <2>1 DEF ReturnsTo, Sound, Shows, Under, RomScreens, MenuScreens
  <2>2. ui.dir > 0 => ui.list = "system"
    BY DEF Sound
  <2> QED
    BY <2>1, <2>2 DEF ListMatchesScreen, Shows
<1> QED
  BY <1>1, ScreensHold, PTL

(* A started helper is watched until its result is taken, whatever is        *)
(* pressed meanwhile (run_usb_disk_mode, poll_usb_disk_mode).                *)
THEOREM HelperIsWatched == Spec => []UsbWatched
<1>1. ScreensInv => UsbWatched
  BY DEF ScreensInv
<1> QED
  BY <1>1, ScreensHold, PTL

(* B leads out.  The presses of B that are left over screen s: directories   *)
(* of a list, then the menu and its pages, the core menu, the power menu.    *)
OnList(u, s) == IF s = "TOP" THEN 0 ELSE u.dir + 1
PageRank(p) ==
    IF p \notin DOMAIN Parent THEN 0 ELSE IF Parent[p] \notin DOMAIN Parent THEN 1 ELSE 2
MenuRank(u, s) ==
    CASE s = "START_MENU" -> IF u.menu = "apps" THEN 2 ELSE 1
      [] s = "SETTINGS" -> 3 + PageRank(u.page)
      [] s = "WIFI_CONNECT" -> IF u.wifi = "password" THEN 5 ELSE 4
      [] s = "USB_DISK_CONFIRM" -> 5
      [] OTHER -> 3
ScreenRank(u, s) ==
    CASE s \in CoreScreens -> OnList(u, s)
      [] s = "CORE_SELECT" -> 1 + OnList(u, u.coreBack)
      [] OTHER -> OnList(u, u.back) + MenuRank(u, s)
Rank(u) ==
    IF u.screen = "POWER_MENU" THEN 1 + ScreenRank(u, u.powerBack) ELSE ScreenRank(u, u.screen)

(* The states that B leads out of.                                          *)
Leading(u) ==
    /\ Sound(u)
    /\ u.back \notin MenuScreens
    /\ Under(u) \notin {"USB_DISK_STARTING", "POWER_ACTION_RUNNING"}

LEMMA RankBounded ==
    ASSUME NEW u, Leading(u)
    PROVE  Rank(u) \in Nat /\ Rank(u) <= MaxDepth + 7
<1>1. u \in State /\ u.dir \in 0..MaxDepth
  BY DEF Leading, Sound, State
<1>2. \A s : OnList(u, s) \in 0..(MaxDepth + 1)
  BY <1>1, BoundsAssumption DEF OnList
<1>3. PageRank(u.page) \in 0..2
  BY DEF PageRank
<1>4. \A s : MenuRank(u, s) \in 1..5
  BY <1>3 DEF MenuRank
<1>5. \A s : ScreenRank(u, s) \in 0..(MaxDepth + 6)
  BY <1>2, <1>4, BoundsAssumption DEF ScreenRank
<1> QED
  BY <1>5, BoundsAssumption DEF Rank

(* The list a menu returns to does not change under B, and what a screen    *)
(* adds to it becomes less.                                                 *)
LEMMA ToTop ==
    ASSUME NEW u, Leading(u), NEW v, Sound(v), v.back = u.back, v.screen = "TOP"
    PROVE  Leading(v)
  BY DEF Leading, Under

LEMMA ToList ==
    ASSUME NEW u, Leading(u), NEW v, Sound(v), v.back = u.back, v.dir = u.dir,
           v.screen \in CoreScreens
    PROVE  Leading(v) /\ Rank(v) = OnList(u, v.screen)
  BY DEF Leading, Under, Rank, ScreenRank, OnList, CoreScreens, RomScreens

LEMMA InMenu ==
    ASSUME NEW u, Leading(u), u.screen \in MenuScreens,
           NEW v, Sound(v), v.back = u.back, v.dir = u.dir,
           v.screen \in MenuScreens \ {"USB_DISK_STARTING"},
           MenuRank(v, v.screen) < MenuRank(u, u.screen)
    PROVE  Leading(v) /\ Rank(v) < Rank(u)
<1>1. /\ Rank(u) = OnList(u, u.back) + MenuRank(u, u.screen)
      /\ Rank(v) = OnList(v, v.back) + MenuRank(v, v.screen)
  BY DEF Rank, ScreenRank, MenuScreens, CoreScreens, RomScreens
<1>2. u \in State /\ u.dir \in 0..MaxDepth
  BY DEF Leading, Sound, State
<1>3. OnList(u, u.back) \in Nat /\ OnList(v, v.back) = OnList(u, u.back)
  BY <1>2, BoundsAssumption DEF OnList
<1>4. PageRank(u.page) \in 0..2 /\ PageRank(v.page) \in 0..2
  BY DEF PageRank
<1>5. MenuRank(u, u.screen) \in Nat /\ MenuRank(v, v.screen) \in Nat
  BY <1>4 DEF MenuRank
<1>6. Leading(v)
  BY DEF Leading, Under, MenuScreens
<1> QED
  BY <1>1, <1>3, <1>5, <1>6

(* The fields that the rank of a menu depends on.                            *)
LEMMA BackFields ==
    ASSUME NEW u \in State, NEW s \in Screens, NEW v,
           v = [u EXCEPT !.screen = s]
    PROVE  v.menu = u.menu /\ v.page = u.page /\ v.wifi = u.wifi
  BY DEF State

LEMMA CloseFields ==
    ASSUME NEW u \in State, NEW v, v = ClosePowerMenu(u)
    PROVE  v.menu = u.menu /\ v.page = u.page /\ v.wifi = u.wifi
  BY DEF State, ClosePowerMenu

LEMMA PageFields ==
    ASSUME NEW u \in State, NEW p \in Pages, NEW v, v = OpenSettings(u, p)
    PROVE  v.page = p
  BY DEF State, OpenSettings

LEMMA AppsMenuFields ==
    ASSUME NEW u \in State, NEW v, v = OpenAppsMenu(u)
    PROVE  v.menu = "apps"
  BY DEF State, OpenAppsMenu

LEMMA MenuFields ==
    ASSUME NEW u \in State, NEW v, v = [u EXCEPT !.menu = "start"]
    PROVE  Keeps(u, v) /\ v.screen = u.screen /\ v.menu = "start"
  BY DEF State, Keeps

LEMMA SelectFields ==
    ASSUME NEW u \in State, NEW v, v = [u EXCEPT !.wifi = "select"]
    PROVE  v.wifi = "select"
  BY DEF State

(* What B does on each screen.                                              *)
Leads(u, v) == Leading(v) /\ (v.screen = "TOP" \/ Rank(v) < Rank(u))

LEMMA PowerMenuLeads ==
    ASSUME NEW u, Leading(u), u.screen = "POWER_MENU", NEW v \in PowerMenuKey(u, "B"), Sound(v)
    PROVE  Leads(u, v)
<1>0. u \in State
  BY DEF Leading, Sound
<1>1. v = ClosePowerMenu(u)
  BY DEF PowerMenuKey
<1>2. /\ v.screen = u.powerBack /\ v.back = u.back /\ v.coreBack = u.coreBack /\ v.dir = u.dir
      /\ v.menu = u.menu /\ v.page = u.page /\ v.wifi = u.wifi
  BY <1>0, <1>1, PowerCloseFields, CloseFields
<1>3. Leading(v)
  BY <1>2 DEF Leading, Under, Sound
<1>4. u.powerBack # "POWER_MENU"
  BY DEF Leading, Sound
<1>5. ScreenRank(v, v.screen) = ScreenRank(u, u.powerBack)
  BY <1>2 DEF ScreenRank, OnList, MenuRank
<1>6. Rank(u) = 1 + Rank(v)
  BY <1>2, <1>4, <1>5 DEF Rank
<1> QED
  BY <1>3, <1>6, RankBounded DEF Leads

LEMMA CoreSelectLeads ==
    ASSUME NEW u, Leading(u), u.screen = "CORE_SELECT", NEW v \in CoreSelectKey(u, "B"), Sound(v)
    PROVE  Leads(u, v)
<1>0. u \in State /\ u.coreBack \in CoreScreens
  BY DEF Leading, Sound
<1>1. v = [u EXCEPT !.screen = u.coreBack, !.coreBack = "TOP"]
  BY DEF CoreSelectKey
<1>2. v.screen = u.coreBack /\ v.back = u.back /\ v.dir = u.dir
  BY <1>0, <1>1, CoreLeaveFields, ZenonT(40)
<1>3. Leading(v) /\ Rank(v) = OnList(u, u.coreBack)
  BY <1>0, <1>2, ToList
<1>4. Rank(u) = 1 + OnList(u, u.coreBack)
  BY DEF Rank, ScreenRank, CoreScreens, RomScreens
<1> QED
  BY <1>3, <1>4, RankBounded DEF Leads

LEMMA StartMenuLeads ==
    ASSUME NEW u, Leading(u), u.screen = "START_MENU", NEW v \in StartMenuKey(u, "B"), Sound(v)
    PROVE  Leads(u, v)
<1>0. u \in State /\ u.menu \in {"start", "apps"} /\ u.back \in StartScreens
      /\ u.screen \in MenuScreens
  BY DEF Leading, Sound, State, MenuScreens
<1>1. CASE u.menu = "apps"
  <2>1. v = [u EXCEPT !.menu = "start"]
    BY <1>1 DEF StartMenuKey
  <2>2. Keeps(u, v) /\ v.screen = "START_MENU" /\ v.menu = "start"
    BY <1>0, <2>1, MenuFields
  <2>3. MenuRank(v, v.screen) < MenuRank(u, u.screen)
    BY <1>1, <2>2 DEF MenuRank
  <2> QED
    BY <1>0, <2>2, <2>3, InMenu DEF Leads, Keeps, MenuScreens
<1>2. CASE u.menu = "start"
  <2>1. v = [u EXCEPT !.screen = u.back]
    BY <1>2 DEF StartMenuKey
  <2>2. u.back \in CoreScreens /\ u.back \in Screens
    BY <1>0 DEF Leading, StartScreens, CoreScreens, RomScreens, MenuScreens, Screens
  <2>3. Keeps(u, v) /\ v.screen = u.back
    BY <1>0, <2>1, <2>2, ScreenFields
  <2>4. Leading(v) /\ Rank(v) = OnList(u, u.back)
    BY <2>2, <2>3, ToList DEF Keeps
  <2>5. Rank(u) = OnList(u, u.back) + 1
    BY <1>2 DEF Rank, ScreenRank, MenuRank, CoreScreens, RomScreens
  <2> QED
    BY <2>4, <2>5, RankBounded DEF Leads
<1> QED
  BY <1>0, <1>1, <1>2

LEMMA ListLeads ==
    ASSUME NEW u, Leading(u), u.screen \in RomScreens \cup {"GALLERY"},
           NEW entry \in {"ROMS", "GALLERY"}, NEW v \in BackFromList(u, entry), Sound(v)
    PROVE  Leads(u, v)
<1>0. u \in State
  BY DEF Leading, Sound
<1>1. CASE v = LeaveForTop(u, entry)
  BY <1>0, <1>1, TopFields, ToTop DEF Keeps, Leads
<1>2. CASE v = LeaveForTop([u EXCEPT !.empty = TRUE], entry)
  <2> DEFINE w == [u EXCEPT !.empty = TRUE]
  <2>1. Keeps(u, w)
    BY <1>0, EmptyFields
  <2> HIDE DEF w
  <2>2. v = LeaveForTop(w, entry)
    BY <1>2 DEF w
  <2>3. Keeps(w, v) /\ v.screen = "TOP"
    BY <2>1, <2>2, TopFields DEF Keeps
  <2> QED
    BY <2>1, <2>3, ToTop DEF Keeps, Leads
<1>3. CASE v \in OpenParent(u) /\ u.dir > 0
  <2>1. u.dir \in 0..MaxDepth /\ u.screen \in Screens
    BY <1>0 DEF State
  <2> DEFINE w == AtDir(u, u.screen, u.dir - 1)
  <2>2. v \in Loads(w, "system")
    BY <1>0, <1>3 DEF AtDir, State, OpenParent
  <2>3. u.dir - 1 \in 0..MaxDepth
    BY <1>3, <2>1, BoundsAssumption
  <2>4. w \in State /\ w.screen = u.screen /\ w.dir = u.dir - 1 /\ w.back = u.back
    BY <1>0, <2>1, <2>3, DirFields
  <2> HIDE DEF w
  <2>5. v.screen = u.screen /\ v.dir = u.dir - 1 /\ v.back = u.back
    BY <2>2, <2>4, LoadsFields DEF Lists
  <2>6. Leading(v)
    BY <2>5 DEF Leading, Under, RomScreens
  <2>7. Rank(v) = u.dir /\ Rank(u) = u.dir + 1
    BY <2>1, <2>5, BoundsAssumption DEF Rank, ScreenRank, OnList, CoreScreens, RomScreens
  <2> QED
    BY <2>1, <2>6, <2>7, BoundsAssumption DEF Leads
<1> QED
  BY <1>1, <1>2, <1>3 DEF BackFromList

LEMMA SettingsLeads ==
    ASSUME NEW u, Leading(u), u.screen = "SETTINGS", NEW v \in SettingsKey(u, "B"), Sound(v)
    PROVE  Leads(u, v)
<1>0. u \in State /\ u.page \in Pages /\ u.screen \in MenuScreens
  BY DEF Leading, Sound, State, MenuScreens
<1>1. v = BackFromSettings(u)
  BY DEF SettingsKey
<1>2. CASE u.page \in DOMAIN Parent
  <2> DEFINE p == Parent[u.page]
  <2>1. p \in Pages
    <3>1. u.page \notin RootPages
      BY <1>2 DEF Parent, RootPages
    <3> QED
      BY <1>0, <3>1, PagesAssumption
  <2>2. PageRank(p) < PageRank(u.page)
    BY <1>2 DEF PageRank, Parent
  <2>3. v = OpenSettings(u, p)
    BY <1>1, <1>2 DEF BackFromSettings
  <2> HIDE DEF p
  <2>4. Keeps(u, v) /\ v.screen = "SETTINGS" /\ v.page = p
    BY <1>0, <2>1, <2>3, SettingsFields, PageFields
  <2>5. PageRank(p) \in Nat /\ PageRank(u.page) \in Nat
    BY DEF PageRank
  <2>6. MenuRank(v, v.screen) < MenuRank(u, u.screen)
    BY <2>2, <2>4, <2>5 DEF MenuRank
  <2> QED
    BY <1>0, <2>4, <2>6, InMenu DEF Leads, Keeps, MenuScreens
<1>3. CASE u.page \notin DOMAIN Parent
  <2>1. v = [u EXCEPT !.screen = "START_MENU"]
    BY <1>1, <1>3 DEF BackFromSettings
  <2>2. Keeps(u, v) /\ v.screen = "START_MENU"
    BY <1>0, <2>1, ScreenFields DEF Screens
  <2>3. MenuRank(v, v.screen) < MenuRank(u, u.screen)
    BY <1>3, <2>2 DEF MenuRank, PageRank
  <2> QED
    BY <1>0, <2>2, <2>3, InMenu DEF Leads, Keeps, MenuScreens
<1> QED
  BY <1>2, <1>3

LEMMA WifiLeads ==
    ASSUME NEW u, Leading(u), u.screen = "WIFI_CONNECT", NEW v \in WifiConnectKey(u, "B"), Sound(v)
    PROVE  Leads(u, v)
<1>0. u \in State /\ u.wifi \in {"select", "password", "result"} /\ u.screen \in MenuScreens
  BY DEF Leading, Sound, State, MenuScreens
<1>1. CASE u.wifi = "password"
  <2>1. v = [u EXCEPT !.wifi = "select"]
    BY <1>1 DEF WifiConnectKey
  <2>2. Keeps(u, v) /\ v.screen = "WIFI_CONNECT" /\ v.wifi = "select"
    BY <1>0, <2>1, WifiFields, SelectFields
  <2>3. MenuRank(v, v.screen) < MenuRank(u, u.screen)
    BY <1>1, <2>2 DEF MenuRank
  <2> QED
    BY <1>0, <2>2, <2>3, InMenu DEF Leads, Keeps, MenuScreens
<1>2. CASE u.wifi # "password"
  <2>1. v = OpenSettings(u, "NETWORK")
    BY <1>0, <1>2 DEF WifiConnectKey
  <2>2. Keeps(u, v) /\ v.screen = "SETTINGS" /\ v.page = "NETWORK"
    BY <1>0, <2>1, SettingsFields, PageFields, PagesAssumption
  <2>3. PageRank("NETWORK") = 0
    BY DEF PageRank, Parent
  <2>4. MenuRank(v, v.screen) < MenuRank(u, u.screen)
    BY <1>2, <2>2, <2>3 DEF MenuRank
  <2> QED
    BY <1>0, <2>2, <2>4, InMenu DEF Leads, Keeps, MenuScreens
<1> QED
  BY <1>1, <1>2

LEMMA UsbConfirmLeads ==
    ASSUME NEW u, Leading(u), u.screen = "USB_DISK_CONFIRM", NEW v \in UsbConfirmKey(u, "B"), Sound(v)
    PROVE  Leads(u, v)
<1>0. u \in State /\ u.screen \in MenuScreens
  BY DEF Leading, Sound, MenuScreens
<1>1. v = OpenSettings(u, "NETWORK_SERVICE")
  BY DEF UsbConfirmKey
<1>2. Keeps(u, v) /\ v.screen = "SETTINGS" /\ v.page = "NETWORK_SERVICE"
  BY <1>0, <1>1, SettingsFields, PageFields, PagesAssumption
<1>3. PageRank("NETWORK_SERVICE") = 1
  BY DEF PageRank, Parent
<1>4. MenuRank(v, v.screen) < MenuRank(u, u.screen)
  BY <1>2, <1>3 DEF MenuRank
<1> QED
  BY <1>0, <1>2, <1>4, InMenu DEF Leads, Keeps, MenuScreens

LEMMA OverMenuLeads ==
    ASSUME NEW u, Leading(u), u.screen \in {"SCRAPING", "THUMBNAIL_RESULTS", "HELP"},
           NEW v \in ScreenKey(u, "B"), Sound(v)
    PROVE  Leads(u, v)
<1>0. u \in State /\ u.screen \in MenuScreens
  BY DEF Leading, Sound, MenuScreens
<1>1. v = OpenAppsMenu(u) \/ v = [u EXCEPT !.screen = "START_MENU"]
  BY DEF ScreenKey, ScrapingKey, ThumbnailResultsKey, HelpKey, RomScreens
<1>2. Keeps(u, v) /\ v.screen = "START_MENU"
  BY <1>0, <1>1, AppsFields, ScreenFields DEF Screens
<1>3. MenuRank(v, v.screen) < MenuRank(u, u.screen)
  BY <1>2 DEF MenuRank
<1> QED
  BY <1>0, <1>2, <1>3, InMenu DEF Leads, Keeps, MenuScreens

LEMMA HandleLeads ==
    ASSUME NEW u, Leading(u), NEW v \in Handle(u, "B")
    PROVE  Leads(u, v)
<1>1. u.screen \in Screens /\ u.screen \notin {"USB_DISK_STARTING", "POWER_ACTION_RUNNING"}
  BY DEF Leading, Sound, State, Under
<1>2. Sound(v)
  BY HandleSound DEF Leading, Keys
<1>3. v \in ScreenKey(u, "B")
  BY <1>1 DEF Handle
<1>4. CASE u.screen \in {"SCRAPING", "THUMBNAIL_RESULTS", "HELP"}
  BY <1>2, <1>3, <1>4, OverMenuLeads
<1>5. CASE u.screen \notin {"SCRAPING", "THUMBNAIL_RESULTS", "HELP"}
  <2>1. \/ u.screen = "POWER_MENU" /\ v \in PowerMenuKey(u, "B")
        \/ u.screen = "CORE_SELECT" /\ v \in CoreSelectKey(u, "B")
        \/ u.screen = "WIFI_CONNECT" /\ v \in WifiConnectKey(u, "B")
        \/ u.screen = "USB_DISK_CONFIRM" /\ v \in UsbConfirmKey(u, "B")
        \/ u.screen = "GALLERY" /\ v \in GalleryKey(u, "B")
        \/ u.screen = "TOP" /\ v \in TopKey(u, "B")
        \/ u.screen = "START_MENU" /\ v \in StartMenuKey(u, "B")
        \/ u.screen = "SETTINGS" /\ v \in SettingsKey(u, "B")
        \/ u.screen \in RomScreens /\ v \in RomListKey(u, "B")
    BY <1>1, <1>3, <1>5 DEF ScreenKey, Screens, RomScreens
  <2>2. u.screen = "GALLERY" /\ v \in GalleryKey(u, "B") => v \in BackFromList(u, "GALLERY")
    BY DEF GalleryKey
  <2>3. u.screen \in RomScreens /\ v \in RomListKey(u, "B") => v \in BackFromList(u, "ROMS")
    BY DEF RomListKey
  <2>4. u.screen = "TOP" /\ v \in TopKey(u, "B") => v = u
    BY DEF TopKey
  <2> QED
    BY <1>2, <2>1, <2>2, <2>3, <2>4, PowerMenuLeads, CoreSelectLeads, WifiLeads,
       UsbConfirmLeads, StartMenuLeads, SettingsLeads, ListLeads DEF Leads
<1> QED
  BY <1>4, <1>5

(* Every nonempty set of natural numbers has a least element.               *)
LEMMA NatMin ==
    ASSUME NEW T \in SUBSET Nat, T # {}
    PROVE  \E x \in T : \A y \in T : x <= y
<1> DEFINE R == {ss \in Nat \X Nat : ss[1] < ss[2]}
<1>1. IsWellFoundedOn(R, Nat)
  BY NatLessThanWellFounded DEF OpToRel
<1> HIDE DEF R
<1>2. PICK x \in T : \A y \in T : <<y, x>> \notin R
  BY <1>1, WFMin
<1>3. ASSUME NEW y \in T PROVE x <= y
  <2>1. <<y, x>> \notin R /\ <<y, x>> \in Nat \X Nat
    BY <1>2
  <2>2. ~(y < x)
    BY <2>1 DEF R
  <2> QED
    BY <2>2
<1> QED
  BY <1>2, <1>3

(* afterB is what its definition says: its beginnings exist, one after the   *)
(* other.                                                                   *)
AfterUpTo(k, f) ==
    f = [n \in 0..k |-> IF n = 0 THEN {ui} ELSE UNION {Handle(v, "B") : v \in f[n - 1]}]

LEMMA AfterBegins ==
    ASSUME NEW k \in Nat
    PROVE  \E f : AfterUpTo(k, f)
<1> DEFINE T == {j \in Nat : ~ \E f : AfterUpTo(j, f)}
<1>1. SUFFICES ASSUME T # {} PROVE FALSE
  OBVIOUS
<1>2. PICK j \in T : \A i \in T : j <= i
  BY <1>1, NatMin
<1>3. CASE j = 0
  <2>1. AfterUpTo(0, [n \in 0..0 |-> {ui}])
    BY DEF AfterUpTo
  <2> QED
    BY <1>2, <1>3, <2>1
<1>4. CASE j > 0
  <2>1. j - 1 \in Nat /\ j - 1 \notin T
    BY <1>2, <1>4
  <2>2. PICK f : AfterUpTo(j - 1, f)
    BY <2>1
  <2> DEFINE last == UNION {Handle(v, "B") : v \in f[j - 1]}
             g == [n \in 0..j |-> IF n = j THEN last ELSE f[n]]
  <2>3. \A n \in 0..(j - 1) : g[n] = f[n]
    BY <1>2, <1>4
  <2>4. g[j] = last
    BY <1>2
  <2>5. ASSUME NEW n \in 0..j
        PROVE  g[n] = IF n = 0 THEN {ui} ELSE UNION {Handle(v, "B") : v \in g[n - 1]}
    <3>1. CASE n = j
      <4>1. g[n - 1] = f[j - 1]
        BY <1>4, <2>1, <2>3, <3>1
      <4>2. g[n] = last
        BY <2>4, <3>1
      <4>3. n # 0
        BY <1>4, <3>1
      <4> HIDE DEF g
      <4> QED
        BY <4>1, <4>2, <4>3
    <3>2. CASE n # j
      <4>1. n \in 0..(j - 1) /\ g[n] = f[n]
        BY <2>3, <2>1, <3>2
      <4>2. f[n] = IF n = 0 THEN {ui} ELSE UNION {Handle(v, "B") : v \in f[n - 1]}
        BY <2>2, <4>1 DEF AfterUpTo
      <4>3. CASE n # 0
        <5>1. n - 1 \in 0..(j - 1)
          BY <4>1, <4>3
        <5>2. g[n - 1] = f[n - 1]
          BY <2>3, <5>1
        <5> HIDE DEF g
        <5> QED
          BY <4>1, <4>2, <4>3, <5>2
      <4> HIDE DEF g
      <4> QED
        BY <4>1, <4>2, <4>3
    <3> QED
      BY <3>1, <3>2
  <2>6. AfterUpTo(j, g)
    <3> DEFINE h == [n \in 0..j |-> IF n = 0 THEN {ui} ELSE UNION {Handle(v, "B") : v \in g[n - 1]}]
    <3>1. g = [n \in 0..j |-> g[n]]
      OBVIOUS
    <3> HIDE DEF g
    <3>2. h = [n \in 0..j |-> g[n]]
      BY <2>5
    <3> QED
      BY <3>1, <3>2 DEF AfterUpTo
  <2> QED
    BY <1>2, <2>6
<1> QED
  BY <1>2, <1>3, <1>4

LEMMA AfterMaxBack == AfterUpTo(MaxBack, afterB)
<1>1. PICK f : AfterUpTo(MaxBack, f)
  BY AfterBegins, BoundsAssumption
<1> QED
  BY <1>1 DEF AfterUpTo, afterB

LEMMA AfterNone == afterB[0] = {ui}
<1>1. 0 \in 0..MaxBack
  BY BoundsAssumption
<1> QED
  BY <1>1, AfterMaxBack DEF AfterUpTo

LEMMA AfterOneMore ==
    ASSUME NEW n \in 0..MaxBack, n # 0, NEW v \in afterB[n]
    PROVE  \E w \in afterB[n - 1] : v \in Handle(w, "B")
<1>1. afterB[n] = UNION {Handle(w, "B") : w \in afterB[n - 1]}
  BY AfterMaxBack DEF AfterUpTo
<1> QED
  BY <1>1

(* The rank falls with every press, and 0 is the rank of TOP alone.         *)
LEMMA EveryPressLeads ==
    ASSUME Leading(ui), NEW k \in 0..MaxBack
    PROVE  \A v \in afterB[k] : Leading(v) /\ (v.screen = "TOP" \/ Rank(v) + k <= Rank(ui))
<1> DEFINE Led(j) == \A v \in afterB[j] :
                        Leading(v) /\ (v.screen = "TOP" \/ Rank(v) + j <= Rank(ui))
           T == {j \in 0..MaxBack : ~ Led(j)}
<1>1. SUFFICES ASSUME T # {} PROVE FALSE
  OBVIOUS
<1>2. T \in SUBSET Nat
  BY BoundsAssumption
<1>3. PICK j \in T : \A i \in T : j <= i
  BY <1>1, <1>2, NatMin
<1>4. CASE j = 0
  <2>1. afterB[0] = {ui}
    BY AfterNone
  <2> QED
    BY <1>3, <1>4, <2>1, RankBounded
<1>5. CASE j > 0
  <2>1. j - 1 \in 0..MaxBack /\ j \in Nat
    BY <1>3, <1>5, BoundsAssumption
  <2>2. Led(j - 1)
    BY <1>3, <2>1
  <2>3. ASSUME NEW v \in afterB[j]
        PROVE  Leading(v) /\ (v.screen = "TOP" \/ Rank(v) + j <= Rank(ui))
    <3>1. PICK w \in afterB[j - 1] : v \in Handle(w, "B")
      BY <1>3, <1>5, AfterOneMore
    <3>2. Leading(w) /\ (w.screen = "TOP" \/ Rank(w) + (j - 1) <= Rank(ui))
      BY <2>2, <3>1
    <3>3. Leads(w, v)
      BY <3>1, <3>2, HandleLeads
    <3>4. w.screen = "TOP" => v = w
      <4>1. w.screen = "TOP" => ScreenKey(w, "B") = TopKey(w, "B")
        BY DEF ScreenKey, RomScreens
      <4> QED
        BY <3>1, <4>1 DEF Handle, TopKey
    <3>5. Rank(v) \in Nat /\ Rank(w) \in Nat /\ Rank(ui) \in Nat
      BY <3>2, <3>3, RankBounded DEF Leads
    <3> QED
      BY <2>1, <3>2, <3>3, <3>4, <3>5 DEF Leads
  <2> QED
    BY <1>3, <2>3
<1> QED
  BY <1>3, <1>4, <1>5, <1>2

(* For every depth of directories: MaxDepth + 7 presses of B lead to TOP     *)
(* from every screen, whatever loads fail, unless START was pressed on a     *)
(* screen of the menu itself (handle_action, back_screen).                  *)
THEOREM ButtonBLeadsOut == Spec => []BackLeadsOut
<1>1. ScreensInv => BackLeadsOut
  <2> SUFFICES ASSUME Sound(ui), ui.back \notin MenuScreens,
                      ReturnsTo(ui) \cap {"USB_DISK_STARTING", "POWER_ACTION_RUNNING"} = {},
                      NEW v \in afterB[MaxBack]
               PROVE  v.screen = "TOP"
    BY DEF ScreensInv, BackLeadsOut
  <2>1. Leading(ui)
    BY DEF Leading, Under, ReturnsTo
  <2>2. Leading(v) /\ (v.screen = "TOP" \/ Rank(v) + MaxBack <= Rank(ui))
    BY <2>1, EveryPressLeads, BoundsAssumption
  <2>3. Rank(v) \in Nat /\ Rank(ui) \in Nat /\ Rank(ui) <= MaxDepth + 7
    BY <2>1, <2>2, RankBounded
  <2>4. Rank(v) = 0 \/ v.screen = "TOP"
    BY <2>2, <2>3, BoundsAssumption
  <2>5. Rank(v) = 0 => v.screen = "TOP"
    <3>1. v.dir \in 0..MaxDepth /\ v.screen \in Screens
      BY <2>2 DEF Leading, Sound, State
    <3>2. \A s : OnList(v, s) \in Nat
      BY <3>1, BoundsAssumption DEF OnList
    <3>3. PageRank(v.page) \in Nat
      BY DEF PageRank
    <3>4. \A s : MenuRank(v, s) \in Nat \ {0}
      BY <3>3 DEF MenuRank
    <3>5. \A s : ScreenRank(v, s) \in Nat /\ (ScreenRank(v, s) = 0 => s = "TOP")
      BY <3>1, <3>2, <3>4, BoundsAssumption DEF ScreenRank, OnList
    <3> QED
      BY <3>5 DEF Rank
  <2> QED
    BY <2>4, <2>5
<1> QED
  BY <1>1, ScreensHold, PTL
=============================================================================
