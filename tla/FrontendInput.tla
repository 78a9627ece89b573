--------------------------- MODULE FrontendInput ---------------------------
(***************************************************************************)
(* How the loop of the controller frontend takes its input: run_event_loop *)
(* reads the gamepad and the Power key, keeps a held direction repeating,  *)
(* and runs a child (a game, an application) to its end inside a handler.  *)
(* While the child runs the keys that are meant for it are also queued for *)
(* the frontend, which throws them away when it is back: it waits until    *)
(* the gamepad is quiet and ignores its input for a while.                 *)
(*                                                                         *)
(* Time is counted in ticks.  The loop comes back to poll within a tick    *)
(* when events wait; rendering is shorter than that.                       *)
(***************************************************************************)
EXTENDS Naturals, Sequences

CONSTANTS
    Delay,       \* UI_KEY_REPEAT_DELAY_MS
    Interval,    \* UI_KEY_REPEAT_INTERVAL_MS
    Quiet,       \* settle_input_after_child: quiet for 250 ms,
    Limit,       \*   but at most 1500 ms,
    Ignore,      \*   and input ignored for 750 ms more
    QueueMax,    \* bound: unread events
    MaxPresses   \* bound: key presses

ASSUME InputAssumption ==
    /\ Delay \in Nat \ {0} /\ Interval \in Nat \ {0}
    /\ Quiet \in Nat \ {0} /\ Limit \in Nat \ {0} /\ Ignore \in Nat \ {0}
    /\ QueueMax \in Nat /\ MaxPresses \in Nat

Devices == {"gamepad", "power"}

VARIABLES
    down,       \* keys that are pressed
    queue,      \* unread events of each device
    opened,     \* devices that could be opened
    presses,    \* keys pressed
    pc,         \* "loop", "child" in system(), "settle"
    screen,     \* screen that is shown
    repeat,     \* repeat_key_code
    next,       \* time to repeat_next_ms
    ignore,     \* time to ignore_input_until_ms
    quiet,      \* time to quiet_until
    left,       \* time to the deadline
    pressed,    \* history: when a key that is down was pressed
    begun,      \* history: the same of the key that repeats
    acted,      \* history: the last action and what it came from
    since       \* history: time since the end of the child

keyboard == <<down, presses, pressed>>
repeating == <<repeat, next, begun>>
waiting == <<ignore, quiet, left>>
inputVars == <<down, queue, opened, presses, pc, screen, repeat, next, ignore, quiet, left,
               pressed, begun, acted, since>>

(* A code for each kind of action; tl stands for the keys without one.     *)
ActionOf == [down |-> "DOWN", right |-> "RIGHT", south |-> "A", east |-> "B", north |-> "X",
             tl |-> "NONE", power |-> "POWER"]

Codes == DOMAIN ActionOf

NoCode == "none"

Device(c) == IF c = "power" THEN "power" ELSE "gamepad"

(* UP and DOWN repeat on every screen, LEFT and RIGHT in the gallery.      *)
Repeats(c, s) ==
    \/ ActionOf[c] = "DOWN"
    \/ ActionOf[c] = "RIGHT" /\ s = "gallery"

(* A key is "shown" if it was pressed while the frontend took its input,   *)
(* "away" if it was pressed while it did not, and "held" if it was down    *)
(* when a child began or when the frontend took its input again.           *)
Takes == pc = "loop" /\ ignore = 0

StillDown == [c \in Codes |-> IF c \in down THEN "held" ELSE "away"]

Event(c, value, when) == [code |-> c, value |-> value, when |-> when]

InputInit ==
    /\ down = {} /\ queue = [d \in Devices |-> <<>>] /\ opened \in SUBSET Devices /\ presses = 0
    /\ pc = "loop" /\ screen = "roms"
    /\ repeat = NoCode /\ next = 0
    /\ ignore = 0 /\ quiet = 0 /\ left = 0
    /\ pressed = [c \in Codes |-> "away"] /\ begun = "shown"
    /\ acted = [code |-> NoCode, by |-> "press", when |-> "shown"]
    /\ since = 0

-----------------------------------------------------------------------------
(* Keys and time *)

Enqueue(c, value, when) ==
    IF Device(c) \notin opened THEN UNCHANGED queue
    ELSE /\ Len(queue["gamepad"]) + Len(queue["power"]) < QueueMax
         /\ queue' = [queue EXCEPT ![Device(c)] = Append(@, Event(c, value, when))]

PressKey(c) ==
    LET when == IF Takes THEN "shown" ELSE "away"
    IN /\ c \notin down /\ presses < MaxPresses /\ presses' = presses + 1
       /\ down' = down \cup {c} /\ pressed' = [pressed EXCEPT ![c] = when]
       /\ Enqueue(c, 1, when)
       /\ UNCHANGED <<opened, pc, screen, repeating, waiting, acted, since>>

Release(c) ==
    /\ c \in down /\ down' = down \ {c} /\ pressed' = [pressed EXCEPT ![c] = "away"]
    /\ Enqueue(c, 0, pressed[c])
    /\ UNCHANGED <<opened, presses, pc, screen, repeating, waiting, acted, since>>

Autorepeat(c) ==
    /\ c \in down /\ Device(c) \in opened /\ Enqueue(c, 2, pressed[c])
    /\ UNCHANGED <<keyboard, opened, pc, screen, repeating, waiting, acted, since>>

Unread == {d \in Devices : queue[d] # <<>>}

Dec(n) == IF n = 0 THEN 0 ELSE n - 1

Waits == pc = "settle" \/ ignore > 0

SettleOver == left = 0 \/ quiet = 0

Tick ==
    /\ pc = "loop" => Unread = {}
    /\ pc = "settle" => ~SettleOver /\ queue["gamepad"] = <<>>
    /\ next' = Dec(next) /\ ignore' = Dec(ignore) /\ quiet' = Dec(quiet) /\ left' = Dec(left)
    /\ since' = IF Waits THEN since + 1 ELSE since
    /\ pressed' = IF ignore = 1 THEN StillDown ELSE pressed
    /\ UNCHANGED <<down, presses, queue, opened, pc, screen, repeat, begun, acted>>

-----------------------------------------------------------------------------
(* The loop *)

Pressed(d) == {i \in DOMAIN queue[d] : queue[d][i].value # 0}

LastOf(S) == {i \in S : \A j \in S : j <= i}

NoEvent == [code |-> NoCode, value |-> 0, when |-> "shown"]

(* read_input_actions: the last press of those that wait is the action,    *)
(* also when it is that of a key without one; the Power key is read after  *)
(* the gamepad.                                                            *)
LastPress(d) == {queue[d][i] : i \in LastOf(Pressed(d))}

ReadEvent == IF Pressed("power") # {} THEN LastPress("power")
             ELSE IF Pressed("gamepad") # {} THEN LastPress("gamepad")
             ELSE {NoEvent}

(* The last press of a key that repeats starts the repeat, the release of  *)
(* that key ends it.                                                       *)
ReadRepeat ==
    LET read == queue["gamepad"]
        starts == LastOf({i \in Pressed("gamepad") : Repeats(read[i].code, screen)})
        Kept(code, i, time, when) ==
            IF \E j \in DOMAIN read : j > i /\ read[j].value = 0 /\ read[j].code = code
            THEN [code |-> NoCode, next |-> 0, when |-> "shown"]
            ELSE [code |-> code, next |-> time, when |-> when]
    IN IF starts = {} THEN {Kept(repeat, 0, next, begun)}
       ELSE {Kept(read[i].code, i, IF read[i].value = 1 THEN Delay ELSE Interval, read[i].when) :
                i \in starts}

(* handle_action, as far as it tells what the keys mean next.              *)
HandleAction(action) ==
    /\ pc' = IF action = "A" /\ screen \in {"roms", "gallery"} THEN "child" ELSE pc
    /\ screen' = CASE action = "POWER" -> "power menu"
                   [] action = "B" -> "roms"
                   [] action = "X" /\ screen = "roms" -> "gallery"
                   [] action = "X" /\ screen = "gallery" -> "roms"
                   [] OTHER -> screen

(* A due repeat acts, or ends on a screen where its key does not repeat.   *)
Repeat(code, when) ==
    /\ UNCHANGED <<pc, screen>>
    /\ IF Repeats(code, screen)
       THEN /\ repeat' = code /\ next' = Interval /\ begun' = when
            /\ acted' = [code |-> code, by |-> "repeat", when |-> when]
       ELSE repeat' = NoCode /\ next' = 0 /\ begun' = "shown" /\ UNCHANGED acted

RepeatFires ==
    /\ pc = "loop" /\ Unread = {} /\ repeat # NoCode /\ next = 0
    /\ Repeat(repeat, begun)
    /\ UNCHANGED <<keyboard, queue, opened, waiting, since>>

Nothing == [d \in Devices |-> <<>>]

Ignored ==
    /\ pc = "loop" /\ Unread # {} /\ ignore > 0
    /\ queue' = Nothing
    /\ UNCHANGED <<keyboard, opened, pc, screen, repeating, waiting, acted, since>>

(* An action; a direction that repeats goes on over the child it starts.   *)
Acts(event, held) ==
    /\ HandleAction(ActionOf[event.code])
    /\ repeat' = held.code /\ next' = held.next
    /\ acted' = [code |-> event.code, by |-> IF event.value = 1 THEN "press" ELSE "autorepeat",
                 when |-> event.when]
    /\ IF pc' = "child"
       THEN pressed' = StillDown /\ begun' = IF held.code = NoCode THEN "shown" ELSE "held"
       ELSE begun' = held.when /\ UNCHANGED pressed

Reads ==
    /\ pc = "loop" /\ Unread # {} /\ ignore = 0
    /\ queue' = Nothing
    /\ \E event \in ReadEvent, held \in ReadRepeat :
          IF event # NoEvent /\ ActionOf[event.code] # "NONE" THEN Acts(event, held)
          ELSE /\ UNCHANGED pressed
               /\ IF held.code # NoCode /\ held.next = 0 THEN Repeat(held.code, held.when)
                  ELSE /\ repeat' = held.code /\ next' = held.next /\ begun' = held.when
                       /\ UNCHANGED <<pc, screen, acted>>
    /\ UNCHANGED <<down, presses, opened, waiting, since>>

-----------------------------------------------------------------------------
(* After a child *)

(* Without a gamepad there is nothing to wait for.                         *)
ChildEnds ==
    /\ pc = "child" /\ since' = 0
    /\ IF "gamepad" \in opened
       THEN /\ pc' = "settle" /\ left' = Limit /\ quiet' = Quiet
            /\ queue' = Nothing
            /\ UNCHANGED ignore
       ELSE pc' = "loop" /\ ignore' = Ignore /\ UNCHANGED <<queue, quiet, left>>
    /\ UNCHANGED <<keyboard, opened, screen, repeating, acted>>

(* Mutant: every key starts the wait again.                                *)
MutantSettleDrains ==
    /\ pc = "settle" /\ ~SettleOver /\ queue["gamepad"] # <<>>
    /\ queue' = [queue EXCEPT !["gamepad"] = <<>>]
    /\ quiet' = Quiet /\ left' = Limit
    /\ UNCHANGED <<keyboard, opened, pc, screen, repeating, ignore, acted, since>>

SettleDrains ==
    /\ pc = "settle" /\ ~SettleOver /\ queue["gamepad"] # <<>>
    /\ queue' = [queue EXCEPT !["gamepad"] = <<>>]
    /\ quiet' = Quiet
    /\ UNCHANGED <<keyboard, opened, pc, screen, repeating, ignore, left, acted, since>>

(* Mutant: the loop takes the input at once.                               *)
MutantSettleEnds ==
    /\ pc = "settle" /\ SettleOver
    /\ pc' = "loop" /\ ignore' = 0 /\ quiet' = 0 /\ left' = 0
    /\ UNCHANGED <<keyboard, queue, opened, screen, repeating, acted, since>>

SettleEnds ==
    /\ pc = "settle" /\ SettleOver
    /\ pc' = "loop" /\ ignore' = Ignore /\ quiet' = 0 /\ left' = 0
    /\ UNCHANGED <<keyboard, queue, opened, screen, repeating, acted, since>>

InputNext ==
    \/ \E c \in Codes : PressKey(c) \/ Release(c) \/ Autorepeat(c)
    \/ Tick \/ RepeatFires \/ Ignored \/ Reads
    \/ ChildEnds \/ SettleDrains \/ SettleEnds

InputSpec == InputInit /\ [][InputNext]_inputVars

-----------------------------------------------------------------------------
(* Properties *)

(* A press acts only if it was made while the frontend took its input,     *)
(* however the presses fall between the end of the child, the wait for a   *)
(* quiet gamepad and the time after it.  What was pressed while it did not *)
(* take input acts in no other way either, unless the key was still held   *)
(* when it took input again or, a direction, repeated when the child       *)
(* began: its autorepeat and the frontend's own repeat go on.              *)
StaleKeysDropped ==
    /\ acted.when # "away"
    /\ acted.by = "press" => acted.when = "shown"

(* The frontend takes keys again at the latest Limit + Ignore after the    *)
(* end of a child, though keys are pressed all the time.                   *)
ReactsAgain == Waits => since <= Limit + Ignore
=============================================================================
