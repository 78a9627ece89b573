---------------------------- MODULE HardwareKeys ----------------------------
(***************************************************************************)
(* The resident input daemon plumos-hardware-keys: one loop that reads the *)
(* gamepad, the volume keys and the Power key, opens the power menu, stops *)
(* a PortMaster port after a long Select + Start, changes volume and       *)
(* brightness and saves them later.  Its helpers are processes that the    *)
(* loop waits for, while keys keep moving.                                 *)
(*                                                                         *)
(* Time is counted in time-outs of poll.  A timer is 0 when the code's due *)
(* time is 0, 1 when it is reached at the last reading of the clock, and   *)
(* n + 1 when it is n time-outs later; `lag` is the time since then.       *)
(***************************************************************************)
EXTENDS Naturals, Sequences

CONSTANTS
    Setups,           \* devices that are tried: the keys that are used, what fails
                      \* ("helper": helpers; devices that come and go), the bound
                      \* on the unread events, and PORTMASTER_EXIT_HOLD_MS
    RepeatDelay,      \* REPEAT_DELAY_MS
    RepeatInterval,   \* REPEAT_INTERVAL_MS
    PersistDelay,     \* PERSIST_DELAY_MS
    Debounce          \* POWER_MENU_DEBOUNCE_MS

Devices == {"gamepad", "volume", "power"}

Gamepad == {"select", "start"}

Volume == {"up", "down"}

AllKeys == Gamepad \cup Volume \cup {"power"}

ASSUME ConstantsAssumption ==
    /\ Setups \subseteq [keys : SUBSET AllKeys, faults : SUBSET (Devices \cup {"helper"}),
                         queue : Nat \ {0}, hold : Nat \ {0}]
    /\ {RepeatDelay, RepeatInterval, PersistDelay, Debounce} \subseteq Nat \ {0}

VARIABLES
    setup,       \* the device; it never changes
    (* keys and kernel *)
    down,        \* keys that are pressed
    queue,       \* unread events of each device
    attached,    \* device nodes that exist
    (* the daemon *)
    pc,          \* next step of the loop
    fd,          \* open devices; "dead" when the node went away
    ready,       \* devices that the last poll reported
    seen,        \* select_down, start_down
    latched,     \* portmaster_exit_latched
    held,        \* held_direction, held_is_display
    due,         \* the timers
    lag,         \* time since `now` was read
    pending,     \* volume_pending, display_pending
    helper,      \* the helper that the loop waits for
    (* settings *)
    unsaved,     \* levels that were changed and that settings.json does not have
    (* history *)
    untold,      \* unsaved levels that only a helper that failed has changed
    holdFor,     \* how long Select + Start were down together
    disturbed,   \* the menu or a brightness change ran since then
    spent        \* this hold has stopped a port

environment == <<setup, down, queue, attached>>
timing == <<due, lag>>
input == <<fd, ready, seen, latched, held>>
settings == <<pending, unsaved, untold>>
history == <<holdFor, disturbed, spent>>
vars == <<setup, down, queue, attached, pc, fd, ready, seen, latched, held, due, lag,
          pending, helper, unsaved, untold, holdFor, disturbed, spent>>

Keys == setup.keys

Faults == setup.faults

ExitHold == setup.hold

Delays == {ExitHold, RepeatDelay, RepeatInterval, PersistDelay, Debounce}

Device(k) ==
    IF k \in Gamepad THEN "gamepad" ELSE IF k \in Volume THEN "volume" ELSE "power"

Settings == {"volume", "display"}

Timers == {"exit", "repeat", "persist", "menu"}

Longest == CHOOSE n \in Delays : \A m \in Delays : m <= n

(* `value` is 1 for a press, 2 for an autorepeat, 0 for a release; `menu`  *)
(* marks a press made while a menu that the Power key opened is shown.     *)
Event(k, value) ==
    [key |-> k, value |-> value, menu |-> k = "power" /\ helper = "menu" /\ pc = "power"]

Events == [key : AllKeys, value : 0 .. 2, menu : BOOLEAN]

NoKey == [key |-> "none", display |-> FALSE]

TypeOK ==
    /\ setup \in Setups /\ down \subseteq Keys /\ queue \in [Devices -> Seq(Events)]
    /\ attached \subseteq Devices
    /\ pc \in {"top", "poll", "request", "gamepad", "volume", "power", "exit",
               "repeat", "persist", "flush", "stopped"}
    /\ fd \in [Devices -> {"open", "closed", "dead"}] /\ ready \subseteq Devices
    /\ seen \subseteq Gamepad /\ latched \in BOOLEAN
    /\ held \in [key : Volume, display : BOOLEAN] \cup {NoKey}
    /\ due \in [Timers -> 0 .. Longest + 1] /\ lag \in 0 .. Longest
    /\ pending \subseteq Settings
    /\ helper \in {"none", "menu", "brightness", "stop", "volume", "display"}
    /\ unsaved \subseteq Settings /\ untold \subseteq Settings
    /\ holdFor \in 0 .. ExitHold /\ disturbed \in BOOLEAN /\ spent \in BOOLEAN

Init ==
    /\ setup \in Setups /\ down = {} /\ queue = [d \in Devices |-> <<>>] /\ attached = Devices
    /\ pc = "top" /\ fd = [d \in Devices |-> "closed"] /\ ready = {}
    /\ seen = {} /\ latched = FALSE /\ held = NoKey
    /\ due = [t \in Timers |-> 0] /\ lag = 0
    /\ pending = {} /\ helper = "none"
    /\ unsaved = {} /\ untold = {}
    /\ holdFor = 0 /\ disturbed = FALSE /\ spent = FALSE

-----------------------------------------------------------------------------
(* Clock *)

Smaller(a, b) == IF a <= b THEN a ELSE b

(* The timers as a new reading of the clock shows them.                    *)
Now == [t \in Timers |-> IF due[t] = 0 THEN 0 ELSE due[t] - Smaller(lag, due[t] - 1)]

ReadClock == due' = Now /\ lag' = 0

In(delay) == delay + 1

Reached(timer) == timer = 1

Chord(keys) == Gamepad \subseteq keys

(* One time-out passes, in poll or in a helper.                            *)
HoldGrows ==
    /\ holdFor' = IF Chord(down) THEN Smaller(holdFor + 1, ExitHold) ELSE holdFor
    /\ UNCHANGED <<disturbed, spent>>

-----------------------------------------------------------------------------
(* Keys, device nodes and signals *)

Enqueue(k, value) ==
    IF fd[Device(k)] # "open" THEN UNCHANGED queue
    ELSE /\ Len(queue["gamepad"]) + Len(queue["volume"]) + Len(queue["power"]) < setup.queue
         /\ queue' = [queue EXCEPT ![Device(k)] = Append(@, Event(k, value))]

(* A hold begins with the press that completes Select + Start, unless the  *)
(* daemon has not read the end of the last one.                            *)
Press(k) ==
    /\ pc # "stopped" /\ k \notin down /\ Device(k) \in attached
    /\ down' = IF k = "power" THEN down ELSE down \cup {k}
    /\ Enqueue(k, 1)
    /\ IF k \in Gamepad /\ Chord(down')
       THEN /\ spent' = FALSE
            /\ IF ~Chord(seen)
               THEN holdFor' = 0 /\ disturbed' = (helper \in {"menu", "brightness"})
               ELSE UNCHANGED <<holdFor, disturbed>>
       ELSE UNCHANGED history
    /\ UNCHANGED <<setup, attached, pc, timing, input, settings, helper>>

Release(k) ==
    /\ pc # "stopped" /\ k \in down
    /\ down' = down \ {k} /\ Enqueue(k, 0)
    /\ UNCHANGED <<setup, attached, pc, timing, input, settings, helper, history>>

Autorepeat(k) ==
    /\ pc # "stopped" /\ k \in down \cap Gamepad /\ fd["gamepad"] = "open"
    /\ Enqueue(k, 2)
    /\ UNCHANGED <<setup, down, attached, pc, timing, input, settings, helper, history>>

(* The input node goes away with what was not read, and comes back.        *)
Unplug(d) ==
    /\ pc # "stopped" /\ d \in attached \cap Faults
    /\ attached' = attached \ {d}
    /\ down' = {k \in down : Device(k) # d}
    /\ queue' = [queue EXCEPT ![d] = <<>>]
    /\ fd' = [fd EXCEPT ![d] = IF @ = "open" THEN "dead" ELSE @]
    /\ UNCHANGED <<setup, pc, ready, seen, latched, held, timing, settings, helper, history>>

Plug(d) ==
    /\ pc # "stopped" /\ d \notin attached /\ attached' = attached \cup {d}
    /\ UNCHANGED <<setup, down, queue, pc, input, timing, settings, helper, history>>

-----------------------------------------------------------------------------
(* The loop *)

At(step) == pc = step /\ helper = "none"

Go(step) == pc' = step /\ UNCHANGED helper

Begin(h) ==
    /\ helper' = h /\ UNCHANGED pc
    /\ disturbed' = (disturbed \/ h \in {"menu", "brightness"})

(* The next input device to read, the next check of the timers: those that *)
(* have nothing to do are passed over.                                     *)
FirstReady(devices) ==
    CASE "gamepad" \in devices -> "gamepad"
      [] "gamepad" \notin devices /\ "volume" \in devices -> "volume"
      [] devices = {"power"} -> "power"
      [] devices = {} -> "exit"

After(d) == FirstReady(CASE d = "gamepad" -> ready \ {d} [] d = "volume" -> ready \cap {"power"}
                         [] d = "power" -> {})

ToPersist == IF pending # {} /\ Reached(due'["persist"]) THEN "persist" ELSE "top"

ToRepeat == IF held # NoKey /\ Reached(due'["repeat"]) THEN "repeat" ELSE ToPersist

(* Missing devices are tried when one was closed and every two seconds;    *)
(* INT or TERM ends the loop.                                              *)
Top ==
    /\ At("top")
    /\ \/ /\ Go("poll")
          /\ fd' \in {fd, [d \in Devices |->
                               IF fd[d] = "closed" /\ d \in attached THEN "open" ELSE fd[d]]}
       \/ Go("flush") /\ UNCHANGED fd
    /\ UNCHANGED <<environment, ready, seen, latched, held, timing, settings, history>>

Readable == {d \in Devices : fd[d] = "dead" \/ (fd[d] = "open" /\ queue[d] # <<>>)}

PollReturns ==
    /\ At("poll") /\ Readable # {}
    /\ Go("request")
    /\ ready' = Readable /\ ReadClock
    /\ UNCHANGED <<environment, fd, seen, latched, held, settings, history>>

PollTimesOut ==
    /\ At("poll") /\ Readable = {}
    /\ Go("request")
    /\ ready' = {}
    /\ due' = [t \in Timers |-> IF Now[t] > 1 THEN Now[t] - 1 ELSE Now[t]] /\ lag' = 0
    /\ HoldGrows
    /\ UNCHANGED <<environment, fd, seen, latched, held, settings>>

(* SIGUSR1 interrupts poll, or came earlier, and shows the overlay whoever *)
(* owns the screen.                                                        *)
Interrupted ==
    /\ At("poll") /\ Readable = {}
    /\ pc' = "request" /\ ready' = {} /\ ReadClock
    /\ helper' = "menu" /\ disturbed' = TRUE
    /\ UNCHANGED <<environment, fd, seen, latched, held, settings, holdFor, spent>>

Requested ==
    /\ At("request")
    /\ Begin("menu")
    /\ UNCHANGED <<environment, input, timing, settings, holdFor, spent>>

NotRequested ==
    /\ At("request")
    /\ Go(FirstReady(ready))
    /\ UNCHANGED <<environment, input, timing, settings, history>>

(* Mutant: the Power key counts at once.                                   *)
MutantAfterMenu == ReadClock

(* The clock is read again after a menu, and the Power key ignored for a   *)
(* while.                                                                  *)
AfterMenu == due' = [Now EXCEPT !["menu"] = In(Debounce)] /\ lag' = 0

MenuEnds ==
    /\ helper = "menu" /\ helper' = "none"
    /\ pc' = IF pc = "request" THEN FirstReady(ready) ELSE pc
    /\ AfterMenu
    /\ UNCHANGED <<environment, input, settings, history>>

Drained(d) ==
    /\ At(d) /\ fd[d] # "dead" /\ queue[d] = <<>>
    /\ Go(After(d))
    /\ UNCHANGED <<environment, input, timing, settings, history>>

(* Mutants: the keys of a closed gamepad, of closed volume keys, stay.     *)
MutantClose(d) ==
    /\ At(d) /\ fd[d] = "dead"
    /\ Go(After(d))
    /\ fd' = [fd EXCEPT ![d] = "closed"]
    /\ UNCHANGED <<environment, ready, seen, latched, held, timing, settings, history>>

(* Reading a node that went away closes it and forgets its keys.           *)
Close(d) ==
    /\ At(d) /\ fd[d] = "dead"
    /\ Go(After(d))
    /\ fd' = [fd EXCEPT ![d] = "closed"]
    /\ seen' = IF d = "gamepad" THEN {} ELSE seen
    /\ latched' = (latched /\ d # "gamepad")
    /\ held' = IF d = "volume" THEN NoKey ELSE held
    /\ due' = [due EXCEPT !["exit"] = IF d = "gamepad" THEN 0 ELSE @,
                          !["repeat"] = IF d = "volume" THEN 0 ELSE @]
    /\ UNCHANGED <<environment, ready, lag, settings, history>>

(* The next event of a device.                                             *)
Reads(d, e) ==
    /\ At(d) /\ fd[d] = "open" /\ queue[d] # <<>>
    /\ e = Head(queue[d])
    /\ queue' = [queue EXCEPT ![d] = Tail(@)]
    /\ UNCHANGED <<setup, down, attached, fd, ready>>

ReadGamepad ==
    /\ \E e \in Events :
           /\ Reads("gamepad", e)
           /\ seen' = IF e.value # 0 THEN seen \cup {e.key} ELSE seen \ {e.key}
    /\ IF Chord(seen')
       THEN /\ due' = [due EXCEPT !["exit"] = IF ~latched /\ @ = 0 THEN In(ExitHold) ELSE @]
            /\ UNCHANGED latched
       ELSE due' = [due EXCEPT !["exit"] = 0] /\ latched' = FALSE
    /\ UNCHANGED <<pc, held, lag, settings, helper, history>>

(* The brightness helper stores the new level before it applies it; the    *)
(* volume is stored last.                                                  *)
StoredByFailure(s) == IF s = "display" THEN {unsaved, unsaved \cup {s}} ELSE {unsaved}

(* A level that changed is saved when no other change follows in time; at  *)
(* its limit it does not change.  A change that failed is not saved.       *)
LevelChanges(s, delay) ==
    \/ /\ pending' = pending \cup {s} /\ unsaved' \in {unsaved, unsaved \cup {s}}
       /\ untold' = untold \ {s}
       /\ due' = [due EXCEPT !["persist"] = In(PersistDelay), !["repeat"] = In(delay)]
    \/ /\ "helper" \in Faults
       /\ due' = [due EXCEPT !["repeat"] = In(delay)]
       /\ unsaved' \in StoredByFailure(s)
       /\ untold' = untold \cup ((unsaved' \cap {s}) \ pending)
       /\ UNCHANGED pending

(* apply_key_action: brightness takes a helper, volume a write to /run.    *)
Apply(display, delay, step) ==
    IF display
    THEN Begin("brightness") /\ UNCHANGED <<timing, settings, holdFor, spent>>
    ELSE /\ LevelChanges("volume", delay) /\ Go(step)
         /\ UNCHANGED <<lag, history>>

BrightnessEnds ==
    /\ helper = "brightness" /\ helper' = "none"
    /\ LevelChanges("display", IF pc = "volume" THEN RepeatDelay ELSE RepeatInterval)
    /\ pc' = IF pc = "repeat" THEN ToPersist ELSE pc
    /\ UNCHANGED <<environment, input, lag, history>>

ReadVolume ==
    /\ \E e \in Events :
           /\ Reads("volume", e)
           /\ \/ /\ e.value = 1
                 /\ held' = [key |-> e.key, display |-> "select" \in seen]
                 /\ Apply(held'.display, RepeatDelay, "volume")
              \/ /\ e.value = 0 /\ e.key = held.key
                 /\ held' = NoKey /\ due' = [due EXCEPT !["repeat"] = 0]
                 /\ UNCHANGED <<pc, helper, lag, settings, history>>
              \/ /\ e.value = 0 /\ e.key # held.key
                 /\ UNCHANGED <<pc, helper, held, timing, settings, history>>
    /\ UNCHANGED <<seen, latched>>

(* The frontend serves the Power key itself while it owns fb0, and the     *)
(* overlay is not opened twice.                                            *)
OpenPowerMenu ==
    \/ AfterMenu /\ UNCHANGED <<helper, history>>
    \/ Begin("menu") /\ UNCHANGED <<timing, holdFor, spent>>

ReadPower ==
    /\ \E e \in Events : Reads("power", e)
    /\ IF due["menu"] > 1 THEN UNCHANGED <<helper, timing, history>> ELSE OpenPowerMenu
    /\ UNCHANGED <<pc, seen, latched, held, settings>>

CheckExit ==
    /\ At("exit") /\ ReadClock
    /\ IF ~latched /\ Reached(Now["exit"])
       THEN /\ Begin("stop")
            /\ spent' = ("gamepad" \notin Readable) /\ UNCHANGED holdFor
       ELSE Go(ToRepeat) /\ UNCHANGED history
    /\ UNCHANGED <<environment, input, settings>>

(* Mutant: the hold is not latched.                                        *)
MutantStopEnds ==
    /\ helper = "stop" /\ helper' = "none"
    /\ due' = [due EXCEPT !["exit"] = 0]
    /\ pc' = ToRepeat
    /\ UNCHANGED <<environment, input, lag, settings, history>>

StopEnds ==
    /\ helper = "stop" /\ helper' = "none"
    /\ due' = [due EXCEPT !["exit"] = 0] /\ latched' = TRUE
    /\ pc' = ToRepeat
    /\ UNCHANGED <<environment, fd, ready, seen, held, lag, settings, history>>

RepeatKey ==
    /\ At("repeat")
    /\ Apply(held.display, RepeatInterval, ToPersist)
    /\ UNCHANGED <<environment, input>>

FirstSave == IF "volume" \in pending THEN "volume" ELSE "display"

Persist ==
    /\ At("persist")
    /\ Begin(FirstSave)
    /\ UNCHANGED <<environment, input, timing, settings, holdFor, spent>>

(* The last save of the process, when the loop has ended.                  *)
Flush ==
    /\ At("flush")
    /\ IF pending # {} THEN Begin(FirstSave) /\ UNCHANGED <<holdFor, spent>>
       ELSE Go("stopped") /\ UNCHANGED history
    /\ UNCHANGED <<environment, input, timing, settings>>

(* Mutant: a failed save is not tried again.                               *)
MutantAfterSave(s, left) ==
    /\ pending' = left
    /\ IF s = "volume" /\ "display" \in pending
       THEN helper' = "display" /\ UNCHANGED <<pc, due>>
       ELSE /\ helper' = "none"
            /\ pc' = IF pc = "persist" THEN "top" ELSE "stopped"
            /\ due' = [due EXCEPT !["persist"] = 0]
    /\ UNCHANGED <<environment, input, lag, untold, history>>

(* persist_pending: volume, then brightness; one that failed stays pending *)
(* and the loop tries it again later.                                      *)
AfterSave(s, left) ==
    /\ pending' = left
    /\ IF s = "volume" /\ "display" \in pending
       THEN helper' = "display" /\ UNCHANGED <<pc, due>>
       ELSE /\ helper' = "none"
            /\ pc' = IF pc = "persist" THEN "top" ELSE "stopped"
            /\ due' = [due EXCEPT !["persist"] = IF left = {} THEN 0 ELSE In(PersistDelay)]
    /\ UNCHANGED <<environment, input, lag, untold, history>>

Saved(s) ==
    /\ helper = s
    /\ unsaved' = unsaved \ {s} /\ AfterSave(s, pending \ {s})

(* persist-runtime may fail before or after it wrote settings.json.        *)
SaveFails(s) ==
    /\ "helper" \in Faults /\ helper = s
    /\ unsaved' \in {unsaved, unsaved \ {s}} /\ AfterSave(s, pending)

HelperRuns ==
    /\ helper # "none" /\ lag' = Smaller(lag + 1, Longest) /\ HoldGrows
    /\ UNCHANGED <<environment, pc, input, due, settings, helper>>

-----------------------------------------------------------------------------
Save == \E s \in Settings : Saved(s)

Daemon ==
    \/ Top \/ PollReturns \/ PollTimesOut \/ NotRequested \/ MenuEnds
    \/ \E d \in Devices : Drained(d) \/ Close(d)
    \/ ReadGamepad \/ ReadVolume \/ BrightnessEnds \/ ReadPower
    \/ CheckExit \/ StopEnds \/ RepeatKey \/ Persist \/ Flush
    \/ Save \/ \E s \in Settings : SaveFails(s)

Ended == pc = "stopped" /\ UNCHANGED vars

Next ==
    \/ \E k \in Keys : Press(k) \/ Release(k) \/ Autorepeat(k)
    \/ \E d \in Devices : Unplug(d) \/ Plug(d)
    \/ Interrupted \/ Requested \/ HelperRuns
    \/ Daemon \/ Ended

Spec == Init /\ [][Next]_vars

(* The daemon keeps running, its helpers end (the menu when the user       *)
(* answers it), and a card that is tried again and again can be written.   *)
FairSpec == Spec /\ WF_vars(Daemon) /\ SF_vars(PollTimesOut) /\ SF_vars(Save)

-----------------------------------------------------------------------------
(* Properties *)

(* When everything is read, the daemon takes no key for pressed that is    *)
(* up, so nothing repeats and no port is stopped by itself.                *)
NoPhantomKeys ==
    (pc = "poll" /\ Readable = {}) =>
        /\ seen \subseteq down
        /\ (held # NoKey => held.key \in down)
        /\ (due["repeat"] # 0 => held # NoKey)
        /\ (due["exit"] # 0 => Chord(down))

StopsPort == helper # "stop" /\ helper' = "stop"

(* One hold stops a port once.  Unless the menu or a brightness change     *)
(* kept the loop waiting, Select + Start were held together for the whole  *)
(* time.                                                                   *)
OneStopPerHold == [][StopsPort => ~spent /\ (disturbed \/ holdFor >= ExitHold)]_vars

(* A press of the Power key in a menu that this key opened does not open   *)
(* another menu when it is closed.                                         *)
MenuStaysClosed ==
    [][helper # "menu" /\ helper' = "menu" /\ pc = "power"
           => ~Head(queue["power"]).menu]_vars

(* Once no more events come, what the volume keys changed is saved, but    *)
(* for a brightness that a failing helper stored after the last change     *)
(* that succeeded was saved: the daemon does not know of it.               *)
Rest == down \cap Volume = {} /\ \A d \in Devices : d \in attached /\ queue[d] = <<>>

SettingsSaved == <>[]Rest => <>[](unsaved \subseteq untold \/ pc = "stopped")
=============================================================================
