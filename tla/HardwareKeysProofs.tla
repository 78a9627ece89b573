------------------------- MODULE HardwareKeysProofs -------------------------
(***************************************************************************)
(* Proofs about HardwareKeys, for any devices, faults and unread events    *)
(* and any length of the hold, the delays and the intervals.               *)
(***************************************************************************)
EXTENDS HardwareKeys, TLAPS

\* ------------------------- what was not read yet -------------------------

\* k is down for one who took the keys of s for down and read the first i
\* events of q
SeenAfter(q, s, k, i) ==
    \/ \E j \in 1 .. i : q[j].key = k /\ q[j].value # 0 /\ \A m \in (j + 1) .. i : q[m].key # k
    \/ k \in s /\ \A m \in 1 .. i : q[m].key # k

Unread(d) == Len(queue[d])

\* the chord as the daemon sees it when it has read i more events
ChordAt(i) == \A k \in Gamepad : SeenAfter(queue["gamepad"], seen, k, i)

\* Events wait in the queue of their device while it is open.
Queues ==
    /\ \A d \in Devices : fd[d] # "open" => queue[d] = <<>>
    /\ \A d \in Devices : \A i \in 1 .. Unread(d) : Device(queue[d][i].key) = d
    /\ \A i \in 1 .. Unread("volume") : queue["volume"][i].value \in {0, 1}
    /\ fd["gamepad"] = "closed" => seen = {}
    /\ fd["volume"] = "closed" => held = NoKey

\* Of a key that is up, the daemon has the release still to read.
Releases ==
    /\ fd["gamepad"] = "open" =>
          \A k \in Gamepad \ down : ~SeenAfter(queue["gamepad"], seen, k, Unread("gamepad"))
    /\ fd["volume"] = "open" =>
          \A k \in Volume \ down : ~SeenAfter(queue["volume"], {held.key}, k, Unread("volume"))

\* Helpers run in their place of the loop, and timers for keys that are held.
Places ==
    /\ helper = "menu" => pc \in {"request", "power"}
    /\ helper = "brightness" => pc \in {"volume", "repeat"} /\ held # NoKey
    /\ helper = "stop" => pc = "exit"
    /\ helper \in Settings => pc \in {"persist", "flush"}
    /\ pc = "repeat" => held # NoKey
    /\ due["repeat"] # 0 => held # NoKey
    /\ due["exit"] # 0 => Chord(seen)

KeysInv == TypeOK /\ Queues /\ Releases /\ Places

\* ------------------------------ Power menu -------------------------------

\* Presses in a menu are read before the Power key counts again.
MenuKeys ==
    \A i \in 1 .. Unread("power") :
        queue["power"][i].menu => pc = "power" /\ (helper = "menu" \/ due["menu"] > 1)

\* ---------------------------- Select + Start -----------------------------

\* A hold that stopped a port stays latched as long as the daemon sees it.
Spent ==
    spent =>
        /\ \A i \in 0 .. Unread("gamepad") : ChordAt(i) => latched \/ helper = "stop"
        /\ \A i, j \in 0 .. Unread("gamepad") : j <= i /\ ChordAt(i) => ChordAt(j)
        /\ Chord(down) => fd["gamepad"] = "open" /\ ChordAt(Unread("gamepad"))

\* The hold has ended, and the daemon reads so before it looks at the timer.
EndUnread ==
    /\ fd["gamepad"] = "dead" \/ \E i \in 0 .. Unread("gamepad") : ~ChordAt(i)
    /\ \/ pc \in {"gamepad", "repeat", "persist", "top", "poll", "flush", "stopped"}
       \/ pc = "request" /\ "gamepad" \in ready

\* The timer of the hold is no further than the hold.
HoldTime == holdFor >= ExitHold \/ holdFor + due["exit"] >= ExitHold + 1 + lag

Holds ==
    /\ pc \in {"request", "gamepad"} /\ helper = "none" => lag = 0
    /\ helper \in {"menu", "brightness"} => disturbed
    /\ ~disturbed /\ due["exit"] # 0 /\ helper # "stop" => HoldTime \/ EndUnread

HoldInv == Spent /\ Holds

-----------------------------------------------------------------------------
LEMMA SetupTypes ==
    ASSUME setup \in Setups
    PROVE  /\ ExitHold \in Nat \ {0} /\ Keys \subseteq AllKeys
           /\ setup.queue \in Nat /\ \A m \in Delays : m \in Nat \ {0}
BY ConstantsAssumption DEF ExitHold, Keys, Delays

\* one more number has a largest one with the others
LEMMA Larger ==
    ASSUME NEW S, NEW n \in S, S \subseteq Nat, \A m \in S : m <= n, NEW x \in Nat
    PROVE  \E l \in S \cup {x} : \A m \in S \cup {x} : m <= l
<1>1. CASE x <= n
    BY <1>1
<1>2. CASE ~(x <= n)
    <2>1. \A m \in S \cup {x} : m <= x
        BY <1>2
    <2> QED BY <2>1
<1> QED BY <1>1, <1>2

LEMMA LongestIs ==
    ASSUME setup \in Setups
    PROVE  Longest \in Delays /\ Longest \in Nat /\ \A m \in Delays : m <= Longest
<1>1. ExitHold \in Nat /\ RepeatDelay \in Nat /\ RepeatInterval \in Nat
      /\ PersistDelay \in Nat /\ Debounce \in Nat
    BY SetupTypes, ConstantsAssumption
<1>2. \E l \in {ExitHold} : \A m \in {ExitHold} : m <= l
    BY <1>1
<1>3. \E l \in {ExitHold} \cup {RepeatDelay} : \A m \in {ExitHold} \cup {RepeatDelay} : m <= l
    BY <1>1, <1>2, Larger
<1>4. \E l \in {ExitHold, RepeatDelay} \cup {RepeatInterval} :
          \A m \in {ExitHold, RepeatDelay} \cup {RepeatInterval} : m <= l
    <2>1. {ExitHold} \cup {RepeatDelay} = {ExitHold, RepeatDelay}
        OBVIOUS
    <2> QED BY <1>1, <1>3, <2>1, Larger
<1>5. \E l \in {ExitHold, RepeatDelay, RepeatInterval} \cup {PersistDelay} :
          \A m \in {ExitHold, RepeatDelay, RepeatInterval} \cup {PersistDelay} : m <= l
    <2>1. {ExitHold, RepeatDelay} \cup {RepeatInterval} = {ExitHold, RepeatDelay, RepeatInterval}
        OBVIOUS
    <2> QED BY <1>1, <1>4, <2>1, Larger
<1>6. \E l \in {ExitHold, RepeatDelay, RepeatInterval, PersistDelay} \cup {Debounce} :
          \A m \in {ExitHold, RepeatDelay, RepeatInterval, PersistDelay} \cup {Debounce} : m <= l
    <2>1. {ExitHold, RepeatDelay, RepeatInterval} \cup {PersistDelay}
              = {ExitHold, RepeatDelay, RepeatInterval, PersistDelay}
        OBVIOUS
    <2> QED BY <1>1, <1>5, <2>1, Larger
<1>7. Delays = {ExitHold, RepeatDelay, RepeatInterval, PersistDelay} \cup {Debounce}
    BY DEF Delays
<1> QED BY <1>1, <1>6, <1>7 DEF Longest

LEMMA LongestStays == ASSUME setup' = setup PROVE Longest' = Longest
BY DEF Longest, Delays, ExitHold

LEMMA NowIs ==
    ASSUME TypeOK
    PROVE  /\ Now \in [Timers -> 0 .. Longest + 1]
           /\ \A t \in Timers : Now[t] <= due[t] /\ (Now[t] = 0 <=> due[t] = 0)
           /\ \A t \in Timers : due[t] # 0 => Now[t] + lag >= due[t] /\ (Now[t] > 1 => Now[t] + lag = due[t])
<1>1. Longest \in Nat
    BY LongestIs DEF TypeOK
<1>2. \A t \in Timers : due[t] \in 0 .. Longest + 1 /\ lag \in Nat
    BY <1>1 DEF TypeOK
<1> QED BY <1>1, <1>2 DEF Now, Smaller

LEMMA FirstReadyIs ==
    ASSUME NEW D \in SUBSET Devices
    PROVE  /\ "gamepad" \in D => FirstReady(D) = "gamepad"
           /\ "gamepad" \notin D => FirstReady(D) \in {"volume", "power", "exit"}
<1>1. CASE "gamepad" \in D
    <2>1. D # {"power"} /\ D # {}
        BY <1>1
    <2> QED BY <1>1, <2>1 DEF FirstReady
<1>2. CASE "gamepad" \notin D /\ "volume" \in D
    <2>1. D # {"power"} /\ D # {}
        BY <1>2
    <2> QED BY <1>2, <2>1 DEF FirstReady
<1>3. CASE D = {"power"}
    BY <1>3 DEF FirstReady
<1>4. CASE D = {}
    BY <1>4 DEF FirstReady
<1> QED BY <1>1, <1>2, <1>3, <1>4 DEF Devices

LEMMA AfterIs ==
    ASSUME TypeOK, NEW d \in Devices PROVE After(d) \in {"volume", "power", "exit"}
<1>1. CASE d = "gamepad"
    <2>1. ready \ {d} \in SUBSET Devices /\ "gamepad" \notin ready \ {d}
        BY <1>1 DEF TypeOK
    <2> QED BY <1>1, <2>1, FirstReadyIs DEF After
<1>2. CASE d = "volume"
    <2>1. ready \cap {"power"} \in SUBSET Devices /\ "gamepad" \notin ready \cap {"power"}
        BY <1>2 DEF TypeOK
    <2> QED BY <1>2, <2>1, FirstReadyIs DEF After
<1>3. CASE d = "power"
    <2>1. {} \in SUBSET Devices /\ "gamepad" \notin {}
        OBVIOUS
    <2> QED BY <1>3, <2>1, FirstReadyIs DEF After
<1> QED BY <1>1, <1>2, <1>3 DEF Devices

-----------------------------------------------------------------------------
(* What SeenAfter says of a queue that grows and of one that is read.      *)

LEMMA SeenStart == ASSUME NEW q, NEW s, NEW k PROVE SeenAfter(q, s, k, 0) <=> k \in s
BY DEF SeenAfter

LEMMA SeenSame ==
    ASSUME NEW p, NEW q, NEW s, NEW k, NEW i \in Nat, \A j \in 1 .. i : p[j] = q[j]
    PROVE  SeenAfter(p, s, k, i) <=> SeenAfter(q, s, k, i)
<1>1. \A j \in 1 .. i : \A m \in (j + 1) .. i : p[m] = q[m]
    OBVIOUS
<1> QED BY <1>1 DEF SeenAfter

LEMMA SeenStep ==
    ASSUME NEW q, NEW s, NEW k, NEW i \in Nat
    PROVE  SeenAfter(q, s, k, i + 1) <=>
               IF q[i + 1].key = k THEN q[i + 1].value # 0 ELSE SeenAfter(q, s, k, i)
<1>1. CASE q[i + 1].key = k
    <2>1. ASSUME q[i + 1].value # 0 PROVE SeenAfter(q, s, k, i + 1)
        <3>1. i + 1 \in 1 .. i + 1 /\ \A m \in (i + 1 + 1) .. i + 1 : q[m].key # k
            OBVIOUS
        <3> QED BY <1>1, <2>1, <3>1 DEF SeenAfter
    <2>2. ASSUME SeenAfter(q, s, k, i + 1) PROVE q[i + 1].value # 0
        <3>1. ~\A m \in 1 .. i + 1 : q[m].key # k
            BY <1>1
        <3>2. PICK j \in 1 .. i + 1 : q[j].value # 0 /\ \A m \in (j + 1) .. i + 1 : q[m].key # k
            BY <2>2, <3>1 DEF SeenAfter
        <3>3. j = i + 1
            BY <1>1, <3>2
        <3> QED BY <3>2, <3>3
    <2> QED BY <1>1, <2>1, <2>2
<1>2. CASE q[i + 1].key # k
    <2>1. \A j \in 1 .. i + 1 : (\A m \in j .. i + 1 : q[m].key # k) <=> \A m \in j .. i : q[m].key # k
        <3> SUFFICES ASSUME NEW j \in 1 .. i + 1, \A m \in j .. i : q[m].key # k,
                            NEW m \in j .. i + 1
                     PROVE  q[m].key # k
            OBVIOUS
        <3> QED BY <1>2
    <2>2. ASSUME SeenAfter(q, s, k, i) PROVE SeenAfter(q, s, k, i + 1)
        <3>1. CASE k \in s /\ \A m \in 1 .. i : q[m].key # k
            BY <2>1, <3>1 DEF SeenAfter
        <3>2. CASE \E j \in 1 .. i : q[j].key = k /\ q[j].value # 0
                                       /\ \A m \in (j + 1) .. i : q[m].key # k
            <4>1. PICK j \in 1 .. i : q[j].key = k /\ q[j].value # 0
                                       /\ \A m \in (j + 1) .. i : q[m].key # k
                BY <3>2
            <4>2. j + 1 \in 1 .. i + 1 /\ j \in 1 .. i + 1
                BY <4>1
            <4>3. \A m \in (j + 1) .. i + 1 : q[m].key # k
                BY <2>1, <4>1, <4>2
            <4> QED BY <4>1, <4>2, <4>3 DEF SeenAfter
        <3> QED BY <2>2, <3>1, <3>2 DEF SeenAfter
    <2>3. ASSUME SeenAfter(q, s, k, i + 1) PROVE SeenAfter(q, s, k, i)
        <3>1. CASE k \in s /\ \A m \in 1 .. i + 1 : q[m].key # k
            BY <3>1 DEF SeenAfter
        <3>2. CASE \E j \in 1 .. i + 1 : q[j].key = k /\ q[j].value # 0
                                           /\ \A m \in (j + 1) .. i + 1 : q[m].key # k
            <4>1. PICK j \in 1 .. i + 1 : q[j].key = k /\ q[j].value # 0
                                           /\ \A m \in (j + 1) .. i + 1 : q[m].key # k
                BY <3>2
            <4>2. j \in 1 .. i /\ \A m \in (j + 1) .. i : q[m].key # k
                BY <1>2, <4>1
            <4> QED BY <4>1, <4>2 DEF SeenAfter
        <3> QED BY <2>3, <3>1, <3>2 DEF SeenAfter
    <2> QED BY <1>2, <2>2, <2>3
<1> QED BY <1>1, <1>2

LEMMA SeenAppend ==
    ASSUME NEW q \in Seq(Events), NEW e \in Events, NEW p, p = Append(q, e), NEW s, NEW k
    PROVE  /\ Len(p) = Len(q) + 1
           /\ \A i \in 0 .. Len(q) : SeenAfter(p, s, k, i) <=> SeenAfter(q, s, k, i)
           /\ SeenAfter(p, s, k, Len(q) + 1) <=>
                  IF e.key = k THEN e.value # 0 ELSE SeenAfter(q, s, k, Len(q))
<1>1. Len(p) = Len(q) + 1 /\ Len(q) \in Nat
    OBVIOUS
<1>2. p[Len(q) + 1] = e /\ \A j \in 1 .. Len(q) : p[j] = q[j]
    OBVIOUS
<1>3. \A i \in 0 .. Len(q) : SeenAfter(p, s, k, i) <=> SeenAfter(q, s, k, i)
    <2> TAKE i \in 0 .. Len(q)
    <2>1. i \in Nat /\ \A j \in 1 .. i : p[j] = q[j]
        BY <1>1, <1>2
    <2> QED BY <2>1, SeenSame
<1>4. SeenAfter(p, s, k, Len(q) + 1) <=>
         IF p[Len(q) + 1].key = k THEN p[Len(q) + 1].value # 0 ELSE SeenAfter(p, s, k, Len(q))
    BY <1>1, SeenStep
<1>5. SeenAfter(p, s, k, Len(q)) <=> SeenAfter(q, s, k, Len(q))
    BY <1>1, <1>3
<1> QED BY <1>1, <1>2, <1>3, <1>4, <1>5

LEMMA SeenTail ==
    ASSUME NEW q \in Seq(Events), q # <<>>, NEW s, NEW t, NEW k, NEW i \in 0 .. Len(q) - 1
    PROVE  /\ (k \in t => IF Head(q).key = k THEN Head(q).value # 0 ELSE k \in s)
                  => (SeenAfter(Tail(q), t, k, i) => SeenAfter(q, s, k, i + 1))
           /\ ((IF Head(q).key = k THEN Head(q).value # 0 ELSE k \in s) => k \in t)
                  => (SeenAfter(q, s, k, i + 1) => SeenAfter(Tail(q), t, k, i))
<1> DEFINE p == Tail(q)
<1>1. Len(q) \in Nat \ {0} /\ Head(q) = q[1] /\ \A j \in 1 .. i : p[j] = q[j + 1]
    OBVIOUS
<1> HIDE DEF p
<1>2. (\A m \in 1 .. i + 1 : q[m].key # k) <=> (q[1].key # k /\ \A m \in 1 .. i : p[m].key # k)
    <2>1. \A m \in 1 .. i + 1 : m = 1 \/ (m - 1 \in 1 .. i /\ q[m] = p[m - 1])
        BY <1>1
    <2>2. \A m \in 1 .. i : m + 1 \in 1 .. i + 1 /\ 1 \in 1 .. i + 1
        OBVIOUS
    <2>3. 1 \in 1 .. i + 1
        OBVIOUS
    <2> QED BY <1>1, <2>1, <2>2, <2>3
<1>3. ASSUME NEW j \in 1 .. i
      PROVE  (\A m \in (j + 2) .. i + 1 : q[m].key # k) <=> \A m \in (j + 1) .. i : p[m].key # k
    <2>1. \A m \in (j + 2) .. i + 1 : m - 1 \in (j + 1) .. i /\ m - 1 \in 1 .. i /\ q[m] = p[m - 1]
        BY <1>1
    <2>2. \A m \in (j + 1) .. i : m + 1 \in (j + 2) .. i + 1 /\ p[m] = q[m + 1]
        BY <1>1
    <2> QED BY <2>1, <2>2
<1> DEFINE Last(j) == q[j].key = k /\ q[j].value # 0 /\ \A m \in (j + 1) .. i + 1 : q[m].key # k
           LastIn(j) == p[j].key = k /\ p[j].value # 0 /\ \A m \in (j + 1) .. i : p[m].key # k
<1>4. \A j \in 1 .. i : Last(j + 1) <=> LastIn(j)
    <2> TAKE j \in 1 .. i
    <2>1. (j + 1) + 1 = j + 2 /\ q[j + 1] = p[j]
        BY <1>1
    <2> QED BY <1>3, <2>1
<1>5. Last(1) <=> q[1].key = k /\ q[1].value # 0 /\ \A m \in 1 .. i : p[m].key # k
    <2>1. \A m \in 2 .. i + 1 : m - 1 \in 1 .. i /\ q[m] = p[m - 1]
        BY <1>1
    <2>2. \A m \in 1 .. i : m + 1 \in 2 .. i + 1 /\ p[m] = q[m + 1]
        BY <1>1
    <2>3. (\A m \in 2 .. i + 1 : q[m].key # k) <=> \A m \in 1 .. i : p[m].key # k
        BY <2>1, <2>2
    <2> QED BY <2>3
<1>6. SeenAfter(q, s, k, i + 1) <=>
         \/ Last(1) \/ (\E j \in 1 .. i : LastIn(j))
         \/ k \in s /\ q[1].key # k /\ \A m \in 1 .. i : p[m].key # k
    <2>1. (\E j \in 1 .. i + 1 : Last(j)) <=> Last(1) \/ \E j \in 1 .. i : Last(j + 1)
        <3>1. \A j \in 1 .. i + 1 : j = 1 \/ (j - 1 \in 1 .. i /\ j = (j - 1) + 1)
            OBVIOUS
        <3>2. 1 \in 1 .. i + 1 /\ \A j \in 1 .. i : j + 1 \in 1 .. i + 1
            OBVIOUS
        <3> HIDE DEF Last
        <3> QED BY <3>1, <3>2
    <2> QED BY <1>2, <1>4, <2>1 DEF SeenAfter
<1>7. SeenAfter(p, t, k, i) <=> (\E j \in 1 .. i : LastIn(j)) \/ (k \in t /\ \A m \in 1 .. i : p[m].key # k)
    BY DEF SeenAfter
<1> HIDE DEF LastIn
<1> QED BY <1>1, <1>5, <1>6, <1>7 DEF p

-----------------------------------------------------------------------------
(* Types *)

LEMMA DeviceIs ==
    /\ \A k \in AllKeys : Device(k) \in Devices
    /\ \A k \in AllKeys : (Device(k) = "gamepad" <=> k \in Gamepad) /\ (Device(k) = "volume" <=> k \in Volume)
BY DEF Device, Devices, AllKeys, Gamepad, Volume

LEMMA EventIs ==
    ASSUME NEW k \in AllKeys, NEW value \in 0 .. 2
    PROVE  Event(k, value) \in Events /\ Event(k, value).key = k /\ Event(k, value).value = value
BY DEF Event, Events

LEMMA EnqueueIs ==
    ASSUME TypeOK, NEW k \in Keys, NEW value \in 0 .. 2, Enqueue(k, value)
    PROVE  /\ queue' \in [Devices -> Seq(Events)] /\ Device(k) \in Devices /\ k \in AllKeys
           /\ \A d \in Devices \ {Device(k)} : queue'[d] = queue[d]
           /\ fd[Device(k)] # "open" => queue' = queue
           /\ fd[Device(k)] = "open" => queue'[Device(k)] = Append(queue[Device(k)], Event(k, value))
<1>1. k \in AllKeys /\ Device(k) \in Devices
    BY SetupTypes, DeviceIs DEF TypeOK
<1>2. Event(k, value) \in Events
    BY <1>1, EventIs
<1> HIDE DEF Events
<1>3. queue \in [Devices -> Seq(Events)]
    BY DEF TypeOK
<1>4. CASE fd[Device(k)] # "open"
    BY <1>1, <1>3, <1>4 DEF Enqueue
<1>5. CASE fd[Device(k)] = "open"
    <2>1. queue' = [queue EXCEPT ![Device(k)] = Append(@, Event(k, value))]
        BY <1>5 DEF Enqueue
    <2>2. Append(queue[Device(k)], Event(k, value)) \in Seq(Events)
        BY <1>1, <1>2, <1>3
    <2> QED BY <1>1, <1>3, <1>5, <2>1, <2>2
<1> QED BY <1>4, <1>5

\* the range of the timers, for the steps that do not change them
Clocks ==
    /\ due \in [Timers -> 0 .. Longest + 1] /\ lag \in 0 .. Longest
    /\ holdFor \in 0 .. ExitHold /\ disturbed \in BOOLEAN /\ spent \in BOOLEAN

\* the rest of the types
Steps ==
    /\ pc \in {"top", "poll", "request", "gamepad", "volume", "power", "exit",
               "repeat", "persist", "flush", "stopped"}
    /\ helper \in {"none", "menu", "brightness", "stop", "volume", "display"}
    /\ {pending, unsaved, untold} \subseteq SUBSET Settings

Inputs ==
    /\ down \subseteq Keys /\ queue \in [Devices -> Seq(Events)] /\ attached \subseteq Devices
    /\ fd \in [Devices -> {"open", "closed", "dead"}] /\ ready \subseteq Devices
    /\ seen \subseteq Gamepad /\ latched \in BOOLEAN
    /\ held \in [key : Volume, display : BOOLEAN] \cup {NoKey}

LEMMA TypeParts == TypeOK <=> setup \in Setups /\ Clocks /\ Steps /\ Inputs
BY DEF TypeOK, Clocks, Steps, Inputs

LEMMA SetupStays == ASSUME [Next]_vars PROVE setup' = setup
BY DEF Next, Press, Release, Autorepeat, Unplug, Plug, Interrupted, Requested, HelperRuns,
       Daemon, Ended, Top, PollReturns, PollTimesOut, NotRequested, MenuEnds, Drained, Close,
       ReadGamepad, ReadVolume, BrightnessEnds, ReadPower, CheckExit, StopEnds, RepeatKey,
       Persist, Flush, Save, Saved, SaveFails, AfterSave, Reads, environment, vars

LEMMA ReadClockTypes ==
    ASSUME TypeOK, setup' = setup, ReadClock PROVE (due \in [Timers -> 0 .. Longest + 1] /\ lag \in 0 .. Longest)'
BY NowIs, LongestIs, LongestStays DEF ReadClock, TypeOK

LEMMA InTypes ==
    ASSUME TypeOK, NEW n \in Delays PROVE In(n) \in 0 .. Longest + 1 /\ In(n) > 1
BY LongestIs, SetupTypes DEF In, TypeOK

LEMMA AfterMenuTypes ==
    ASSUME TypeOK, setup' = setup, AfterMenu
    PROVE  (due \in [Timers -> 0 .. Longest + 1] /\ lag \in 0 .. Longest)'
<1>1. Debounce \in Delays /\ Longest \in Nat
    BY LongestIs DEF Delays, TypeOK
<1>2. In(Debounce) \in 0 .. Longest + 1
    BY <1>1, InTypes
<1>3. [Now EXCEPT !["menu"] = In(Debounce)] \in [Timers -> 0 .. Longest + 1]
    BY <1>2, NowIs
<1> QED BY <1>1, <1>3, LongestStays DEF AfterMenu

LEMMA LevelChangesTypes ==
    ASSUME TypeOK, setup' = setup, NEW s \in Settings, NEW n \in Delays, LevelChanges(s, n)
    PROVE  /\ (due \in [Timers -> 0 .. Longest + 1])'
           /\ ({pending, unsaved, untold} \subseteq SUBSET Settings)'
<1>1. In(PersistDelay) \in 0 .. Longest + 1 /\ In(n) \in 0 .. Longest + 1
    <2>1. PersistDelay \in Delays /\ Longest \in Nat
        BY LongestIs DEF Delays, TypeOK
    <2> QED BY <2>1, InTypes
<1>2. due' \in [Timers -> 0 .. Longest + 1]
    <2>1. due \in [Timers -> 0 .. Longest + 1]
        BY DEF TypeOK
    <2>2. \/ due' = [due EXCEPT !["persist"] = In(PersistDelay), !["repeat"] = In(n)]
          \/ due' = [due EXCEPT !["repeat"] = In(n)]
        BY DEF LevelChanges
    <2> QED BY <1>1, <2>1, <2>2 DEF Timers
<1>3. ({pending, unsaved, untold} \subseteq SUBSET Settings)'
    BY DEF LevelChanges, StoredByFailure, TypeOK
<1> QED BY <1>2, <1>3, LongestStays

LEMMA HoldGrowsTypes ==
    ASSUME TypeOK, setup' = setup, HoldGrows
    PROVE  (holdFor \in 0 .. ExitHold /\ disturbed \in BOOLEAN /\ spent \in BOOLEAN)'
BY SetupTypes DEF HoldGrows, Smaller, TypeOK, ExitHold

\* The clocks of the steps, whatever the keys do.
LEMMA ClocksStay ==
    ASSUME TypeOK, setup' = setup, UNCHANGED <<due, lag, holdFor>>,
           disturbed' \in BOOLEAN, spent' \in BOOLEAN
    PROVE  Clocks'
BY LongestStays DEF TypeOK, Clocks, ExitHold

\* The next steps of the loop.
LEMMA ToIs == ToPersist \in {"persist", "top"} /\ ToRepeat \in {"repeat", "persist", "top"}
BY DEF ToPersist, ToRepeat

LEMMA KeyTypes ==
    ASSUME TypeOK, NEW k \in Keys, Press(k) \/ Release(k) \/ Autorepeat(k)
    PROVE  TypeOK'
<1>1. setup' = setup /\ setup \in Setups
    BY DEF Press, Release, Autorepeat, TypeOK
<1>2. queue' \in [Devices -> Seq(Events)]
    BY EnqueueIs DEF Press, Release, Autorepeat
<1>3. holdFor' \in 0 .. ExitHold /\ disturbed' \in BOOLEAN /\ spent' \in BOOLEAN
    <2>1. CASE Press(k)
        <3>1. holdFor' \in {0, holdFor}
            BY <2>1 DEF Press, history
        <3>2. disturbed' \in BOOLEAN
            <4>1. disturbed' = disturbed \/ disturbed' = (helper \in {"menu", "brightness"})
                BY <2>1 DEF Press, history
            <4>2. disturbed \in BOOLEAN
                BY DEF TypeOK
            <4>3. CASE disturbed' = (helper \in {"menu", "brightness"})
                BY <4>3
            <4> QED BY <4>1, <4>2, <4>3
        <3>3. ExitHold \in Nat
            BY <1>1, SetupTypes
        <3>4. holdFor' \in 0 .. ExitHold
            BY <3>1, <3>3 DEF TypeOK
        <3>5. spent' \in BOOLEAN
            BY <2>1 DEF Press, history, TypeOK
        <3> QED BY <3>2, <3>4, <3>5
    <2>2. CASE Release(k) \/ Autorepeat(k)
        BY <2>2 DEF Release, Autorepeat, history, TypeOK
    <2> QED BY <2>1, <2>2
<1>4. down' \subseteq Keys
    BY DEF Press, Release, Autorepeat, TypeOK
<1>5. UNCHANGED <<due, lag, pc, helper, pending, unsaved, untold, attached, fd, ready, seen, latched, held>>
    BY DEF Press, Release, Autorepeat, timing, input, settings
<1> HIDE DEF Events
<1> QED BY <1>1, <1>2, <1>3, <1>4, <1>5, LongestStays DEF TypeOK, ExitHold, Keys

LEMMA NodeTypes ==
    ASSUME TypeOK, NEW d \in Devices, Unplug(d) \/ Plug(d)
    PROVE  TypeOK'
<1>1. setup' = setup /\ setup \in Setups
    BY DEF Unplug, Plug, TypeOK
<1>2. UNCHANGED <<due, lag, pc, helper, pending, unsaved, untold, ready, seen, latched, held,
                  holdFor, disturbed, spent>>
    BY DEF Unplug, Plug, timing, input, settings, history
<1>3. queue' \in [Devices -> Seq(Events)] /\ down' \subseteq Keys /\ attached' \subseteq Devices
    <2>1. <<>> \in Seq(Events)
        OBVIOUS
    <2> HIDE DEF Events
    <2> QED BY <2>1 DEF Unplug, Plug, TypeOK
<1>4. fd' \in [Devices -> {"open", "closed", "dead"}]
    BY DEF Unplug, Plug, input, TypeOK
<1> HIDE DEF Events
<1> QED BY <1>1, <1>2, <1>3, <1>4, LongestStays DEF TypeOK, ExitHold, Keys

LEMMA LoopTypes ==
    ASSUME TypeOK,
           \/ Top \/ PollReturns \/ PollTimesOut \/ Interrupted \/ Requested \/ NotRequested
           \/ MenuEnds \/ HelperRuns
    PROVE  TypeOK'
<1>1. setup' = setup /\ setup \in Setups
    BY DEF Top, PollReturns, PollTimesOut, Interrupted, Requested, NotRequested, MenuEnds,
           HelperRuns, environment, TypeOK
<1>2. Inputs'
    <2>1. UNCHANGED <<down, queue, attached, seen, latched, held>> /\ ready' \subseteq Devices
        BY DEF Top, PollReturns, PollTimesOut, Interrupted, Requested, NotRequested, MenuEnds,
               HelperRuns, environment, input, Readable, TypeOK
    <2>2. fd' \in [Devices -> {"open", "closed", "dead"}]
        BY DEF Top, PollReturns, PollTimesOut, Interrupted, Requested, NotRequested, MenuEnds,
               HelperRuns, input, TypeOK
    <2> HIDE DEF Events
    <2> QED BY <1>1, <2>1, <2>2 DEF Inputs, TypeOK, Keys
<1>3. Steps'
    <2>1. UNCHANGED <<pending, unsaved, untold>>
        BY DEF Top, PollReturns, PollTimesOut, Interrupted, Requested, NotRequested, MenuEnds,
               HelperRuns, settings
    <2>2. FirstReady(ready) \in {"gamepad", "volume", "power", "exit"}
        BY FirstReadyIs DEF TypeOK
    <2>3. /\ pc' \in {pc, FirstReady(ready), "poll", "flush", "request"}
          /\ helper' \in {helper, "none", "menu"}
        BY DEF Top, PollReturns, PollTimesOut, Interrupted, Requested, NotRequested, MenuEnds,
               HelperRuns, Go, Begin
    <2> QED BY <2>1, <2>2, <2>3 DEF Steps, TypeOK
<1>4. Clocks'
    <2>1. CASE Top \/ Requested \/ NotRequested
        <3>1. UNCHANGED <<due, lag, holdFor, spent>> /\ disturbed' \in BOOLEAN
            BY <2>1 DEF Top, Requested, NotRequested, timing, history, Begin, TypeOK
        <3> QED BY <1>1, <3>1, ClocksStay DEF TypeOK
    <2>2. CASE PollReturns \/ Interrupted
        <3>1. UNCHANGED <<holdFor, spent>> /\ disturbed' \in BOOLEAN /\ ReadClock
            BY <2>2 DEF PollReturns, Interrupted, history, TypeOK
        <3> QED BY <1>1, <3>1, ReadClockTypes DEF Clocks, TypeOK, ExitHold
    <2>3. CASE PollTimesOut
        <3>1. due' \in [Timers -> 0 .. Longest + 1] /\ lag' \in 0 .. Longest
            BY <2>3, NowIs, LongestIs DEF PollTimesOut, TypeOK
        <3> QED BY <1>1, <2>3, <3>1, HoldGrowsTypes, LongestStays DEF Clocks, PollTimesOut
    <2>4. CASE MenuEnds
        BY <1>1, <2>4, AfterMenuTypes DEF MenuEnds, history, Clocks, TypeOK, ExitHold
    <2>5. CASE HelperRuns
        <3>1. lag' \in 0 .. Longest /\ due' = due
            BY <2>5, LongestIs DEF HelperRuns, Smaller, TypeOK
        <3>2. (holdFor \in 0 .. ExitHold /\ disturbed \in BOOLEAN /\ spent \in BOOLEAN)'
            BY <1>1, <2>5, HoldGrowsTypes DEF HelperRuns
        <3> QED BY <1>1, <3>1, <3>2, LongestStays DEF Clocks, TypeOK
    <2> QED BY <2>1, <2>2, <2>3, <2>4, <2>5
<1> QED BY <1>1, <1>2, <1>3, <1>4 DEF TypeOK, Clocks, Steps, Inputs

LEMMA ApplyTypes ==
    ASSUME TypeOK, setup' = setup, NEW display, NEW n \in Delays,
           NEW next \in {"volume", "persist", "top"}, Apply(display, n, next)
    PROVE  Steps' /\ Clocks'
<1>1. CASE display
    BY <1>1, ClocksStay DEF Apply, Begin, timing, settings, Steps, TypeOK
<1>2. CASE ~display
    <2>1. LevelChanges("volume", n) /\ UNCHANGED <<lag, helper, holdFor, disturbed, spent>>
          /\ pc' = next
        BY <1>2 DEF Apply, Go, history
    <2> QED BY <2>1, LevelChangesTypes, LongestStays DEF Clocks, Steps, TypeOK, ExitHold, Settings
<1> QED BY <1>1, <1>2

LEMMA HeadIs ==
    ASSUME TypeOK, Queues, NEW d \in Devices, NEW e, Reads(d, e)
    PROVE  /\ e \in Events /\ Device(e.key) = d /\ e.key \in AllKeys /\ e.value \in 0 .. 2
           /\ d = "volume" => e.value \in {0, 1}
           /\ queue[d] \in Seq(Events) /\ queue[d] # <<>> /\ e = Head(queue[d])
           /\ queue' = [queue EXCEPT ![d] = Tail(queue[d])]
           /\ Tail(queue[d]) \in Seq(Events) /\ Len(Tail(queue[d])) = Unread(d) - 1
           /\ \A i \in 1 .. Unread(d) - 1 : Tail(queue[d])[i] = queue[d][i + 1]
<1>1. queue[d] \in Seq(Events) /\ queue[d] # <<>> /\ e = Head(queue[d])
      /\ queue' = [queue EXCEPT ![d] = Tail(queue[d])]
    BY DEF Reads, TypeOK
<1>2. e = queue[d][1] /\ 1 \in 1 .. Unread(d)
    BY <1>1 DEF Unread
<1>3. Device(e.key) = d /\ (d = "volume" => e.value \in {0, 1})
    BY <1>2 DEF Queues
<1>4. e \in Events
    <2> HIDE DEF Events
    <2> QED BY <1>1
<1>5. Tail(queue[d]) \in Seq(Events) /\ Len(Tail(queue[d])) = Unread(d) - 1
      /\ \A i \in 1 .. Unread(d) - 1 : Tail(queue[d])[i] = queue[d][i + 1]
    <2> HIDE DEF Events
    <2> QED BY <1>1 DEF Unread
<1> QED BY <1>1, <1>3, <1>4, <1>5 DEF Events

LEMMA ReadTypes ==
    ASSUME TypeOK, Queues, Places,
           \/ \E d \in Devices : Drained(d) \/ Close(d)
           \/ ReadGamepad \/ ReadVolume \/ BrightnessEnds \/ ReadPower
    PROVE  TypeOK'
<1>1. setup' = setup /\ setup \in Setups
    BY DEF Drained, Close, ReadGamepad, ReadVolume, BrightnessEnds, ReadPower, Reads,
           environment, TypeOK
<1>2. Inputs'
    <2>1. down' \subseteq Keys /\ attached' \subseteq Devices /\ ready' \subseteq Devices
        BY DEF Drained, Close, ReadGamepad, ReadVolume, BrightnessEnds, ReadPower, Reads,
               environment, input, TypeOK
    <2>2. fd' \in [Devices -> {"open", "closed", "dead"}]
        BY DEF Drained, Close, ReadGamepad, ReadVolume, BrightnessEnds, ReadPower, Reads,
               input, TypeOK
    <2>3. queue' \in [Devices -> Seq(Events)]
        <3>1. ASSUME NEW d \in Devices, NEW e, Reads(d, e) PROVE queue' \in [Devices -> Seq(Events)]
            <4>1. queue[d] \in Seq(Events) /\ queue[d] # <<>>
                BY <3>1 DEF Reads, TypeOK
            <4> HIDE DEF Events
            <4>2. Tail(queue[d]) \in Seq(Events)
                BY <4>1
            <4> QED BY <3>1, <4>2 DEF Reads, TypeOK
        <3>2. CASE ReadGamepad \/ ReadVolume \/ ReadPower
            BY <3>1, <3>2 DEF ReadGamepad, ReadVolume, ReadPower, Devices
        <3>3. CASE ~(ReadGamepad \/ ReadVolume \/ ReadPower)
            BY <3>3 DEF Drained, Close, BrightnessEnds, environment, TypeOK
        <3> QED BY <3>2, <3>3
    <2>4. seen' \subseteq Gamepad /\ latched' \in BOOLEAN
        <3>1. CASE ReadGamepad
            <4>1. PICK e \in Events : /\ Reads("gamepad", e)
                                      /\ seen' = IF e.value # 0 THEN seen \cup {e.key} ELSE seen \ {e.key}
                BY <3>1 DEF ReadGamepad
            <4>2. e.key \in Gamepad
                BY <4>1, HeadIs, DeviceIs DEF Devices
            <4> QED BY <3>1, <4>1, <4>2 DEF ReadGamepad, TypeOK
        <3>2. CASE ~ReadGamepad
            BY <3>2 DEF Drained, Close, ReadVolume, BrightnessEnds, ReadPower, input, TypeOK
        <3> QED BY <3>1, <3>2
    <2>5. held' \in [key : Volume, display : BOOLEAN] \cup {NoKey}
        <3>1. CASE ReadVolume
            <4>1. PICK e \in Events :
                      /\ Reads("volume", e)
                      /\ held' \in {held, NoKey, [key |-> e.key, display |-> "select" \in seen]}
                BY <3>1 DEF ReadVolume
            <4>2. e.key \in Volume
                BY <4>1, HeadIs, DeviceIs DEF Devices
            <4>3. CASE held' = [key |-> e.key, display |-> "select" \in seen]
                <5>1. held' \in [key : Volume, display : BOOLEAN]
                    BY <4>2, <4>3
                <5> QED BY <5>1
            <4> QED BY <4>1, <4>3 DEF TypeOK
        <3>2. CASE ~ReadVolume
            BY <3>2 DEF Drained, Close, ReadGamepad, BrightnessEnds, ReadPower, input, TypeOK
        <3> QED BY <3>1, <3>2
    <2> HIDE DEF Events
    <2> QED BY <1>1, <2>1, <2>2, <2>3, <2>4, <2>5 DEF Inputs, Keys
<1>3. Steps' /\ Clocks'
    <2>1. ASSUME NEW d \in Devices, Drained(d) \/ Close(d) PROVE Steps' /\ Clocks'
        <3>1. After(d) \in {"volume", "power", "exit"}
            BY AfterIs
        <3>2. Steps'
            BY <2>1, <3>1 DEF Drained, Close, Go, settings, Steps, TypeOK
        <3>3. due' \in [Timers -> 0 .. Longest + 1] /\ UNCHANGED <<lag, holdFor, disturbed, spent>>
            <4>1. \/ due' = due
                  \/ due' = [due EXCEPT !["exit"] = 0]
                  \/ due' = [due EXCEPT !["repeat"] = 0]
                BY <2>1 DEF Drained, Close, timing, TypeOK, Timers, Devices
            <4>2. UNCHANGED <<lag, holdFor, disturbed, spent>>
                BY <2>1 DEF Drained, Close, timing, history
            <4> QED BY <4>1, <4>2, LongestIs DEF TypeOK
        <3> QED BY <1>1, <3>2, <3>3, LongestStays DEF Clocks, TypeOK, ExitHold
    <2>2. CASE ReadGamepad
        <3>1. ExitHold \in Delays
            BY DEF Delays
        <3>2. In(ExitHold) \in 0 .. Longest + 1 /\ 0 \in 0 .. Longest + 1
            BY <3>1, InTypes, LongestIs DEF TypeOK
        <3>3. due' \in [Timers -> 0 .. Longest + 1]
            BY <2>2, <3>2 DEF ReadGamepad, TypeOK, Timers
        <3>4. UNCHANGED <<lag, holdFor, disturbed, spent, pc, helper, pending, unsaved, untold>>
            BY <2>2 DEF ReadGamepad, history, settings
        <3> QED BY <1>1, <3>3, <3>4, LongestStays DEF Clocks, Steps, TypeOK, ExitHold
    <2>3. CASE ReadVolume
        <3>1. pc = "volume" /\ RepeatDelay \in Delays
            BY <2>3 DEF ReadVolume, Reads, At, Delays
        <3>2. CASE Apply(held'.display, RepeatDelay, "volume")
            BY <1>1, <3>1, <3>2, ApplyTypes
        <3>3. CASE /\ due' \in {due, [due EXCEPT !["repeat"] = 0]}
                   /\ UNCHANGED <<lag, pc, helper, pending, unsaved, untold, holdFor, disturbed, spent>>
            <4>1. due' \in [Timers -> 0 .. Longest + 1]
                BY <3>3, LongestIs DEF TypeOK
            <4> QED BY <1>1, <3>3, <4>1, LongestStays DEF Clocks, Steps, TypeOK, ExitHold
        <3> QED BY <2>3, <3>2, <3>3 DEF ReadVolume, timing, settings, history
    <2>4. CASE BrightnessEnds
        <3>1. \E n \in Delays : LevelChanges("display", n)
            BY <2>4 DEF BrightnessEnds, Delays
        <3>2. helper' = "none" /\ pc' \in {pc, ToPersist} /\ UNCHANGED <<lag, holdFor, disturbed, spent>>
            BY <2>4 DEF BrightnessEnds, history
        <3> QED BY <1>1, <3>1, <3>2, LevelChangesTypes, ToIs, LongestStays
                DEF Clocks, Steps, TypeOK, ExitHold, Settings
    <2>5. CASE ReadPower
        <3>1. \/ UNCHANGED <<helper, due, lag, holdFor, disturbed, spent>>
              \/ AfterMenu /\ UNCHANGED <<helper, holdFor, disturbed, spent>>
              \/ helper' = "menu" /\ disturbed' \in BOOLEAN /\ UNCHANGED <<due, lag, holdFor, spent>>
            BY <2>5 DEF ReadPower, OpenPowerMenu, Begin, timing, history
        <3>2. (due \in [Timers -> 0 .. Longest + 1] /\ lag \in 0 .. Longest)'
            BY <1>1, <3>1, AfterMenuTypes, LongestStays DEF TypeOK
        <3>3. UNCHANGED <<pc, pending, unsaved, untold>>
            BY <2>5 DEF ReadPower, settings
        <3> QED BY <1>1, <3>1, <3>2, <3>3 DEF Clocks, Steps, TypeOK, ExitHold
    <2> QED BY <2>1, <2>2, <2>3, <2>4, <2>5
<1> QED BY <1>1, <1>2, <1>3 DEF TypeOK, Clocks, Steps, Inputs

LEMMA TimerTypes ==
    ASSUME TypeOK,
           \/ CheckExit \/ StopEnds \/ RepeatKey \/ Persist \/ Flush
           \/ \E s \in Settings : Saved(s) \/ SaveFails(s)
    PROVE  TypeOK'
<1>1. setup' = setup /\ setup \in Setups
    BY DEF CheckExit, StopEnds, RepeatKey, Persist, Flush, Saved, SaveFails, AfterSave,
           environment, TypeOK
<1>2. Inputs'
    <2>1. UNCHANGED <<down, queue, attached, fd, ready, seen, held>> /\ latched' \in BOOLEAN
        BY DEF CheckExit, StopEnds, RepeatKey, Persist, Flush, Saved, SaveFails, AfterSave,
               environment, input, TypeOK
    <2> HIDE DEF Events
    <2> QED BY <1>1, <2>1 DEF Inputs, TypeOK, Keys
<1>3. Steps' /\ Clocks'
    <2>1. CASE CheckExit
        <3>1. ReadClock /\ UNCHANGED <<holdFor, pending, unsaved, untold>>
            BY <2>1 DEF CheckExit, history, settings
        <3>2. \/ helper' = "stop" /\ pc' = pc
              \/ helper' = helper /\ pc' = ToRepeat
            BY <2>1 DEF CheckExit, Begin, Go
        <3>3. disturbed' \in BOOLEAN /\ spent' \in BOOLEAN
            <4>1. CASE ~latched /\ Reached(Now["exit"])
                BY <2>1, <4>1 DEF CheckExit, Begin
            <4>2. CASE ~(~latched /\ Reached(Now["exit"]))
                BY <2>1, <4>2 DEF CheckExit, history, TypeOK
            <4> QED BY <4>1, <4>2
        <3> QED BY <1>1, <3>1, <3>2, <3>3, ReadClockTypes, ToIs DEF Steps, Clocks, TypeOK, ExitHold
    <2>2. CASE StopEnds
        <3>1. due' \in [Timers -> 0 .. Longest + 1] /\ UNCHANGED <<lag, holdFor, disturbed, spent>>
            <4>1. due' = [due EXCEPT !["exit"] = 0] /\ UNCHANGED <<lag, holdFor, disturbed, spent>>
                BY <2>2 DEF StopEnds, history
            <4>2. due \in [Timers -> 0 .. Longest + 1] /\ 0 \in 0 .. Longest + 1
                BY LongestIs DEF TypeOK
            <4> QED BY <4>1, <4>2
        <3>2. helper' = "none" /\ pc' \in {"repeat", "persist", "top"} /\ UNCHANGED <<pending, unsaved, untold>>
            BY <2>2, ToIs DEF StopEnds, settings
        <3> QED BY <1>1, <3>1, <3>2, LongestStays DEF Steps, Clocks, TypeOK, ExitHold
    <2>3. CASE RepeatKey
        BY <1>1, <2>3, ApplyTypes, ToIs DEF RepeatKey, Delays
    <2>4. CASE Persist \/ Flush
        <3>1. UNCHANGED <<due, lag, holdFor, spent, pending, unsaved, untold>> /\ disturbed' \in BOOLEAN
            BY <2>4 DEF Persist, Flush, Begin, timing, settings, history, TypeOK
        <3>2. helper' \in {helper, "volume", "display"} /\ pc' \in {pc, "stopped"}
            BY <2>4 DEF Persist, Flush, Begin, Go, FirstSave
        <3> QED BY <1>1, <3>1, <3>2, ClocksStay DEF Steps, TypeOK
    <2>5. ASSUME NEW s \in Settings, Saved(s) \/ SaveFails(s) PROVE Steps' /\ Clocks'
        <3>1. PICK left \in SUBSET Settings : AfterSave(s, left)
            BY <2>5 DEF Saved, SaveFails, TypeOK
        <3>2. unsaved' \subseteq Settings /\ untold' \subseteq Settings
            BY <2>5 DEF Saved, SaveFails, AfterSave, TypeOK
        <3>3. In(PersistDelay) \in 0 .. Longest + 1 /\ 0 \in 0 .. Longest + 1
            <4>1. PersistDelay \in Delays
                BY DEF Delays
            <4> QED BY <4>1, InTypes, LongestIs DEF TypeOK
        <3>4. due' \in [Timers -> 0 .. Longest + 1]
            BY <3>1, <3>3 DEF AfterSave, TypeOK
        <3>5. /\ pending' \subseteq Settings /\ helper' \in {"display", "none"}
              /\ pc' \in {pc, "top", "stopped"} /\ UNCHANGED <<lag, holdFor, disturbed, spent>>
            BY <3>1 DEF AfterSave, history
        <3> QED BY <1>1, <3>2, <3>4, <3>5, LongestStays DEF Steps, Clocks, TypeOK, ExitHold
    <2> QED BY <2>1, <2>2, <2>3, <2>4, <2>5
<1> QED BY <1>1, <1>2, <1>3 DEF TypeOK, Clocks, Steps, Inputs

LEMMA TypesNext == ASSUME TypeOK, Queues, Places, [Next]_vars PROVE TypeOK'
<1>1. CASE \E k \in Keys : Press(k) \/ Release(k) \/ Autorepeat(k)
    BY <1>1, KeyTypes
<1>2. CASE \E d \in Devices : Unplug(d) \/ Plug(d)
    BY <1>2, NodeTypes
<1>3. CASE Interrupted \/ Requested \/ HelperRuns
    BY <1>3, LoopTypes
<1>4. CASE Daemon
    BY <1>4, LoopTypes, ReadTypes, TimerTypes DEF Daemon, Save
<1>5. CASE UNCHANGED vars
    <2> HIDE DEF Events
    <2> QED BY <1>5, LongestStays DEF vars, TypeOK, ExitHold, Keys
<1> QED BY <1>1, <1>2, <1>3, <1>4, <1>5 DEF Next, Ended

-----------------------------------------------------------------------------
(* Queues *)

LEMMA QueuesStay == ASSUME Queues, UNCHANGED <<queue, fd, seen, held>> PROVE Queues'
BY DEF Queues, Unread

LEMMA EnqueueQueues ==
    ASSUME TypeOK, Queues, NEW k \in Keys, NEW value \in 0 .. 2, Enqueue(k, value),
           k \in Volume => value \in {0, 1}, UNCHANGED <<fd, seen, held>>
    PROVE  Queues'
<1> DEFINE e == Event(k, value)
<1>1. CASE queue' = queue
    BY <1>1, QueuesStay
<1>2. CASE fd[Device(k)] = "open"
    <2>1. /\ Device(k) \in Devices /\ k \in AllKeys
          /\ queue'[Device(k)] = Append(queue[Device(k)], e)
          /\ \A d \in Devices \ {Device(k)} : queue'[d] = queue[d]
        BY <1>2, EnqueueIs
    <2>2. e.key = k /\ e.value = value
        BY <2>1, EventIs
    <2>3. queue[Device(k)] \in Seq(Events)
        BY <2>1 DEF TypeOK
    <2>4. \A d \in Devices : fd'[d] # "open" => queue'[d] = <<>>
        BY <1>2, <2>1 DEF Queues
    <2> HIDE DEF e, Events
    <2>5. /\ Len(queue'[Device(k)]) = Unread(Device(k)) + 1 /\ Unread(Device(k)) \in Nat
          /\ \A i \in 1 .. Unread(Device(k)) : queue'[Device(k)][i] = queue[Device(k)][i]
          /\ queue'[Device(k)][Unread(Device(k)) + 1] = e
        BY <2>1, <2>3 DEF Unread
    <2>6. \A i \in 1 .. Len(queue'[Device(k)]) :
              i \in 1 .. Unread(Device(k)) \/ i = Unread(Device(k)) + 1
        BY <2>5
    <2>7. ASSUME NEW d \in Devices PROVE \A i \in 1 .. Len(queue'[d]) : Device(queue'[d][i].key) = d
        <3>1. CASE d = Device(k)
            BY <2>2, <2>5, <2>6, <3>1 DEF Queues
        <3>2. CASE d # Device(k)
            BY <2>1, <3>2 DEF Queues, Unread
        <3> QED BY <3>1, <3>2
    <2>8. \A i \in 1 .. Len(queue'["volume"]) : queue'["volume"][i].value \in {0, 1}
        <3>1. CASE Device(k) = "volume"
            <4>1. value \in {0, 1}
                BY <2>1, <3>1, DeviceIs
            <4> QED BY <2>2, <2>5, <2>6, <3>1, <4>1 DEF Queues
        <3>2. CASE Device(k) # "volume"
            BY <2>1, <3>2 DEF Queues, Unread, Devices
        <3> QED BY <3>1, <3>2
    <2> QED BY <2>4, <2>7, <2>8 DEF Queues, Unread
<1> QED BY <1>1, <1>2, EnqueueIs

LEMMA ReadsQueues ==
    ASSUME TypeOK, Queues, NEW d \in Devices, NEW e, Reads(d, e),
           fd' = fd, d # "gamepad" => seen' = seen, d # "volume" => held' = held
    PROVE  Queues'
<1> DEFINE r == Tail(queue[d])
           n == Unread(d)
<1>1. /\ queue' = [queue EXCEPT ![d] = r]
      /\ Len(r) = n - 1 /\ \A i \in 1 .. n - 1 : r[i] = queue[d][i + 1]
    BY HeadIs
<1>2. queue'[d] = r /\ \A x \in Devices \ {d} : queue'[x] = queue[x]
    <2> HIDE DEF r, Events
    <2> QED BY <1>1 DEF TypeOK
<1>3. n \in Nat \ {0} /\ fd[d] = "open"
    <2>1. queue[d] \in Seq(Events) /\ queue[d] # <<>>
        BY HeadIs
    <2> HIDE DEF Events
    <2> QED BY <2>1 DEF Unread, Reads
<1> HIDE DEF r, n
<1>4. ASSUME NEW i \in 1 .. Len(queue'[d]) PROVE queue'[d][i] = queue[d][i + 1] /\ i + 1 \in 1 .. n
    <2>1. i \in 1 .. n - 1
        BY <1>1, <1>2
    <2>2. queue'[d][i] = queue[d][i + 1]
        BY <1>1, <1>2, <2>1
    <2> QED BY <1>3, <2>1, <2>2
<1>5. \A x \in Devices : fd'[x] # "open" => queue'[x] = <<>>
    BY <1>2, <1>3 DEF Queues
<1>6. ASSUME NEW x \in Devices PROVE \A i \in 1 .. Len(queue'[x]) : Device(queue'[x][i].key) = x
    <2>1. \A i \in 1 .. n : Device(queue[d][i].key) = d
        BY DEF Queues, n
    <2>2. CASE x = d
        BY <1>4, <2>1, <2>2
    <2>3. CASE x # d
        BY <1>2, <2>3 DEF Queues, Unread
    <2> QED BY <2>2, <2>3
<1>7. \A i \in 1 .. Len(queue'["volume"]) : queue'["volume"][i].value \in {0, 1}
    <2>1. CASE d = "volume"
        <3>1. \A i \in 1 .. n : queue[d][i].value \in {0, 1}
            BY <2>1 DEF Queues, n
        <3> QED BY <1>4, <2>1, <3>1
    <2>2. CASE d # "volume"
        BY <1>2, <2>2 DEF Queues, Unread, Devices
    <2> QED BY <2>1, <2>2
<1>8. (fd["gamepad"] = "closed" => seen = {})' /\ (fd["volume"] = "closed" => held = NoKey)'
    BY <1>3 DEF Queues
<1> QED BY <1>5, <1>6, <1>7, <1>8 DEF Queues, Unread

LEMMA NodeQueues ==
    ASSUME TypeOK, Queues, NEW d \in Devices, Unplug(d) PROVE Queues'
<1>1. /\ queue' = [queue EXCEPT ![d] = <<>>] /\ fd' = [fd EXCEPT ![d] = IF @ = "open" THEN "dead" ELSE @]
      /\ UNCHANGED <<seen, held>>
    BY DEF Unplug
<1>2. queue'[d] = <<>> /\ \A x \in Devices \ {d} : queue'[x] = queue[x] /\ fd'[x] = fd[x]
    BY <1>1 DEF TypeOK
<1>3. fd'[d] # "open" /\ (fd'[d] = "closed" <=> fd[d] = "closed")
    BY <1>1 DEF TypeOK
<1>4. Len(queue'[d]) = 0
    BY <1>2
<1> QED BY <1>1, <1>2, <1>3, <1>4 DEF Queues, Unread, Devices

LEMMA TopQueues == ASSUME TypeOK, Queues, Top PROVE Queues'
<1>1. UNCHANGED <<queue, seen, held>>
    BY DEF Top, environment
<1>2. \A d \in Devices : fd'[d] = fd[d] \/ (fd[d] = "closed" /\ fd'[d] = "open")
    BY DEF Top, TypeOK
<1> QED BY <1>1, <1>2 DEF Queues, Unread, Devices

LEMMA CloseQueues ==
    ASSUME TypeOK, Queues, NEW d \in Devices, Close(d) PROVE Queues'
<1>1. queue' = queue /\ fd' = [fd EXCEPT ![d] = "closed"] /\ queue[d] = <<>>
    BY DEF Close, environment, Queues
<1>2. seen' = (IF d = "gamepad" THEN {} ELSE seen) /\ held' = (IF d = "volume" THEN NoKey ELSE held)
    BY DEF Close
<1> QED BY <1>1, <1>2 DEF Queues, Unread, Devices, TypeOK

\* The steps of the loop that do not touch keys or devices.
Calm == UNCHANGED <<down, queue, fd, seen, held>>

LEMMA CalmSteps ==
    ASSUME \/ PollReturns \/ PollTimesOut \/ Interrupted \/ Requested \/ NotRequested
           \/ MenuEnds \/ HelperRuns \/ BrightnessEnds \/ CheckExit \/ StopEnds \/ RepeatKey
           \/ Persist \/ Flush \/ Ended \/ UNCHANGED vars
           \/ \E d \in Devices : Drained(d) \/ Plug(d)
           \/ \E s \in Settings : Saved(s) \/ SaveFails(s)
    PROVE  Calm
BY DEF PollReturns, PollTimesOut, Interrupted, Requested, NotRequested, MenuEnds, HelperRuns,
       BrightnessEnds, CheckExit, StopEnds, RepeatKey, Persist, Flush, Ended, Drained, Plug,
       Saved, SaveFails, AfterSave, environment, input, vars, Calm

\* The others.
Stir ==
    \/ \E k \in Keys : Press(k) \/ Release(k) \/ Autorepeat(k)
    \/ \E d \in Devices : Unplug(d) \/ Close(d)
    \/ Top \/ ReadGamepad \/ ReadVolume \/ ReadPower

LEMMA CalmOrStir == ASSUME [Next]_vars PROVE Calm \/ Stir
BY CalmSteps DEF Next, Daemon, Save, Stir

LEMMA QueuesNext == ASSUME TypeOK, Queues, [Next]_vars PROVE Queues'
<1>1. CASE Calm
    BY <1>1, QueuesStay DEF Calm
<1>2. ASSUME NEW k \in Keys, Press(k) \/ Release(k) \/ Autorepeat(k) PROVE Queues'
    <2>1. UNCHANGED <<fd, seen, held>>
        BY <1>2 DEF Press, Release, Autorepeat, input
    <2>2. \E value \in 0 .. 2 : Enqueue(k, value) /\ (k \in Volume => value \in {0, 1})
        BY <1>2 DEF Press, Release, Autorepeat, Gamepad, Volume
    <2> QED BY <2>1, <2>2, EnqueueQueues
<1>3. CASE \E d \in Devices : Unplug(d) \/ Close(d)
    BY <1>3, NodeQueues, CloseQueues
<1>4. CASE Top
    BY <1>4, TopQueues
<1>5. CASE ReadGamepad \/ ReadVolume \/ ReadPower
    <2>1. \E d \in Devices, e \in Events :
              Reads(d, e) /\ (d # "gamepad" => seen' = seen) /\ (d # "volume" => held' = held)
        BY <1>5 DEF ReadGamepad, ReadVolume, ReadPower, Devices
    <2>2. fd' = fd
        BY <1>5 DEF ReadGamepad, ReadVolume, ReadPower, Reads
    <2> QED BY <2>1, <2>2, ReadsQueues
<1> QED BY <1>1, <1>2, <1>3, <1>4, <1>5, CalmOrStir DEF Stir

-----------------------------------------------------------------------------
(* Releases *)

LEMMA EnqueueSeen ==
    ASSUME TypeOK, NEW k \in Keys, NEW value \in 0 .. 2, Enqueue(k, value),
           NEW d \in Devices, fd[d] = "open", NEW s, NEW x
    PROVE  /\ d # Device(k) => queue'[d] = queue[d]
           /\ d = Device(k) =>
                 /\ Len(queue'[d]) = Unread(d) + 1
                 /\ \A i \in 0 .. Unread(d) : SeenAfter(queue'[d], s, x, i) <=> SeenAfter(queue[d], s, x, i)
                 /\ SeenAfter(queue'[d], s, x, Unread(d) + 1) <=>
                        IF x = k THEN value # 0 ELSE SeenAfter(queue[d], s, x, Unread(d))
<1>1. CASE d # Device(k)
    BY <1>1, EnqueueIs
<1>2. CASE d = Device(k)
    <2>1. queue'[d] = Append(queue[d], Event(k, value)) /\ k \in AllKeys
        BY <1>2, EnqueueIs
    <2>2. Event(k, value) \in Events /\ Event(k, value).key = k /\ Event(k, value).value = value
        BY <2>1, EventIs
    <2>3. queue[d] \in Seq(Events)
        BY DEF TypeOK
    <2> HIDE DEF Events
    <2> DEFINE e == Event(k, value)
               q == queue[d]
    <2> HIDE DEF e, q
    <2>4. q \in Seq(Events) /\ e \in Events /\ e.key = k /\ e.value = value
          /\ queue'[d] = Append(q, e) /\ Unread(d) = Len(q)
        BY <2>1, <2>2, <2>3 DEF e, q, Unread
    <2>5. /\ Len(queue'[d]) = Unread(d) + 1
          /\ \A i \in 0 .. Unread(d) : SeenAfter(queue'[d], s, x, i) <=> SeenAfter(q, s, x, i)
          /\ SeenAfter(queue'[d], s, x, Unread(d) + 1) <=>
                 IF e.key = x THEN e.value # 0 ELSE SeenAfter(q, s, x, Unread(d))
        <3>1. /\ Len(queue'[d]) = Len(q) + 1
              /\ \A i \in 0 .. Len(q) : SeenAfter(queue'[d], s, x, i) <=> SeenAfter(q, s, x, i)
              /\ SeenAfter(queue'[d], s, x, Len(q) + 1) <=>
                     IF e.key = x THEN e.value # 0 ELSE SeenAfter(q, s, x, Len(q))
            BY <2>4, SeenAppend, Zenon
        <3> QED BY <2>4, <3>1
    <2> QED BY <1>2, <2>4, <2>5 DEF q
<1> QED BY <1>1, <1>2

LEMMA UnreadNat ==
    ASSUME TypeOK, NEW d \in Devices
    PROVE  /\ Unread(d) \in Nat /\ queue[d] \in Seq(Events)
           /\ queue[d] = <<>> <=> Unread(d) = 0
<1> HIDE DEF Events
<1>1. queue[d] \in Seq(Events)
    BY DEF TypeOK
<1> QED BY <1>1 DEF Unread

LEMMA ReleasesStay == ASSUME Releases, Calm PROVE Releases'
<1>1. queue' = queue /\ fd' = fd /\ seen' = seen /\ held' = held /\ down' = down
    BY DEF Calm
<1> QED BY <1>1 DEF Releases, Unread

LEMMA KeyReleases ==
    ASSUME TypeOK, Releases, NEW k \in Keys, Press(k) \/ Release(k) \/ Autorepeat(k)
    PROVE  Releases'
<1>1. UNCHANGED <<fd, seen, held>>
    BY DEF Press, Release, Autorepeat, input
<1>2. PICK value \in 0 .. 2 :
          /\ Enqueue(k, value)
          /\ \A x \in (Gamepad \cup Volume) \ down' : IF x = k THEN value = 0 ELSE x \notin down
    <2>1. CASE Press(k)
        BY <2>1 DEF Press, Gamepad, Volume
    <2>2. CASE Release(k)
        BY <2>2 DEF Release
    <2>3. CASE Autorepeat(k)
        BY <2>3 DEF Autorepeat
    <2> QED BY <2>1, <2>2, <2>3
<1>3. ASSUME NEW d \in {"gamepad", "volume"}, fd[d] = "open", NEW s,
             NEW x \in (Gamepad \cup Volume) \ down', Device(x) = d,
             x \notin down => ~SeenAfter(queue[d], s, x, Unread(d))
      PROVE  ~SeenAfter(queue'[d], s, x, Len(queue'[d]))
    <2>1. d \in Devices
        BY DEF Devices
    <2>2. CASE d = Device(k)
        <3>1. /\ Len(queue'[d]) = Unread(d) + 1
              /\ SeenAfter(queue'[d], s, x, Unread(d) + 1) <=>
                    IF x = k THEN value # 0 ELSE SeenAfter(queue[d], s, x, Unread(d))
            BY <1>2, <1>3, <2>1, <2>2, EnqueueSeen
        <3> QED BY <1>2, <1>3, <3>1
    <2>3. CASE d # Device(k)
        <3>1. queue'[d] = queue[d]
            BY <1>2, <1>3, <2>1, <2>3, EnqueueSeen
        <3>2. x \notin down
            BY <1>2, <1>3, <2>3
        <3> QED BY <1>3, <3>1, <3>2 DEF Unread
    <2> QED BY <2>2, <2>3
<1>4. (fd["gamepad"] = "open" =>
          \A x \in Gamepad \ down : ~SeenAfter(queue["gamepad"], seen, x, Unread("gamepad")))'
    BY <1>1, <1>3 DEF Releases, Unread, Device
<1>5. (fd["volume"] = "open" =>
          \A x \in Volume \ down : ~SeenAfter(queue["volume"], {held.key}, x, Unread("volume")))'
    BY <1>1, <1>3 DEF Releases, Unread, Device, Gamepad, Volume
<1> QED BY <1>4, <1>5 DEF Releases

\* What one event read does to what will be seen.
LEMMA ReadsSeen ==
    ASSUME TypeOK, Queues, NEW d \in Devices, NEW e, Reads(d, e), NEW s, NEW t, NEW x,
           NEW i \in 0 .. Unread(d) - 1
    PROVE  /\ Len(queue'[d]) = Unread(d) - 1
           /\ (x \in t => IF e.key = x THEN e.value # 0 ELSE x \in s)
                 => (SeenAfter(queue'[d], t, x, i) => SeenAfter(queue[d], s, x, i + 1))
           /\ ((IF e.key = x THEN e.value # 0 ELSE x \in s) => x \in t)
                 => (SeenAfter(queue[d], s, x, i + 1) => SeenAfter(queue'[d], t, x, i))
<1> DEFINE q == queue[d]
<1>1. q \in Seq(Events) /\ q # <<>> /\ e = Head(q) /\ Unread(d) = Len(q)
      /\ queue' = [queue EXCEPT ![d] = Tail(q)] /\ Len(Tail(q)) = Unread(d) - 1
    BY HeadIs DEF Unread
<1>2. queue'[d] = Tail(q)
    <2> HIDE DEF q, Events
    <2> QED BY <1>1 DEF TypeOK
<1> HIDE DEF q, Events
<1>3. /\ (x \in t => IF e.key = x THEN e.value # 0 ELSE x \in s)
            => (SeenAfter(Tail(q), t, x, i) => SeenAfter(q, s, x, i + 1))
      /\ ((IF e.key = x THEN e.value # 0 ELSE x \in s) => x \in t)
            => (SeenAfter(q, s, x, i + 1) => SeenAfter(Tail(q), t, x, i))
    BY <1>1, SeenTail, Zenon
<1> QED BY <1>1, <1>2, <1>3 DEF q

LEMMA ReadsReleases ==
    ASSUME TypeOK, Queues, Releases, ReadGamepad \/ ReadVolume \/ ReadPower PROVE Releases'
<1>1. PICK d \in Devices, e \in Events : Reads(d, e)
    BY DEF ReadGamepad, ReadVolume, ReadPower, Devices
<1> HIDE DEF Events
<1>2. UNCHANGED <<down, fd>>
    BY DEF ReadGamepad, ReadVolume, ReadPower, Reads
<1>3. ASSUME NEW c \in Devices, NEW f, Reads(c, f), NEW s, NEW t, NEW x,
             x \in t => IF f.key = x THEN f.value # 0 ELSE x \in s,
             ~SeenAfter(queue[c], s, x, Unread(c))
      PROVE  ~SeenAfter(queue'[c], t, x, Len(queue'[c]))
    <2>1. Unread(c) \in Nat \ {0} /\ Len(queue'[c]) = Unread(c) - 1
        <3>1. Unread(c) \in Nat \ {0}
            BY <1>3, UnreadNat DEF Reads
        <3>2. 0 \in 0 .. Unread(c) - 1
            BY <3>1
        <3>3. Len(queue'[c]) = Unread(c) - 1
            BY <1>3, <3>2, ReadsSeen, ZenonT(30)
        <3> QED BY <3>1, <3>3
    <2>2. Unread(c) - 1 \in 0 .. Unread(c) - 1 /\ (Unread(c) - 1) + 1 = Unread(c)
        BY <2>1
    <2>3. (x \in t => IF f.key = x THEN f.value # 0 ELSE x \in s)
            => (SeenAfter(queue'[c], t, x, Unread(c) - 1) => SeenAfter(queue[c], s, x, (Unread(c) - 1) + 1))
        BY <1>3, <2>2, ReadsSeen, ZenonT(30)
    <2>4. SeenAfter(queue'[c], t, x, Unread(c) - 1) => SeenAfter(queue[c], s, x, Unread(c))
        BY <1>3, <2>2, <2>3, Zenon
    <2> QED BY <1>3, <2>1, <2>4, Zenon
<1>4. ASSUME NEW c \in Devices, NEW f, Reads(c, f) PROVE \A x \in Devices \ {c} : queue'[x] = queue[x]
    BY <1>4 DEF Reads, TypeOK
<1>5. (fd["gamepad"] = "open" =>
          \A x \in Gamepad \ down : ~SeenAfter(queue["gamepad"], seen, x, Unread("gamepad")))'
    <2>1. CASE ReadGamepad
        <3>1. PICK f \in Events : /\ Reads("gamepad", f)
                                  /\ seen' = IF f.value # 0 THEN seen \cup {f.key} ELSE seen \ {f.key}
            BY <2>1 DEF ReadGamepad
        <3>2. \A x : x \in seen' => IF f.key = x THEN f.value # 0 ELSE x \in seen
            BY <3>1
        <3> QED BY <1>2, <1>3, <3>1, <3>2 DEF Releases, Unread, Devices
    <2>2. CASE ReadVolume \/ ReadPower
        <3>1. queue'["gamepad"] = queue["gamepad"] /\ seen' = seen
            BY <1>4, <2>2 DEF ReadVolume, ReadPower, Devices
        <3> QED BY <1>2, <3>1 DEF Releases, Unread
    <2> QED BY <2>1, <2>2
<1>6. (fd["volume"] = "open" =>
          \A x \in Volume \ down : ~SeenAfter(queue["volume"], {held.key}, x, Unread("volume")))'
    <2>1. CASE ReadVolume
        <3>1. PICK f \in Events :
                  /\ Reads("volume", f)
                  /\ \/ f.value = 1 /\ held'.key = f.key
                     \/ f.value = 0 /\ f.key = held.key /\ held' = NoKey
                     \/ f.value = 0 /\ f.key # held.key /\ held' = held
            BY <2>1 DEF ReadVolume
        <3>2. \A x \in Volume : x \in {held'.key} => IF f.key = x THEN f.value # 0 ELSE x \in {held.key}
            BY <3>1 DEF NoKey, Volume
        <3> QED BY <1>2, <1>3, <3>1, <3>2 DEF Releases, Unread, Devices
    <2>2. CASE ReadGamepad \/ ReadPower
        <3>1. queue'["volume"] = queue["volume"] /\ held' = held
            BY <1>4, <2>2 DEF ReadGamepad, ReadPower, Devices
        <3> QED BY <1>2, <3>1 DEF Releases, Unread
    <2> QED BY <2>1, <2>2
<1> QED BY <1>5, <1>6 DEF Releases

LEMMA NodeReleases ==
    ASSUME TypeOK, Releases, NEW d \in Devices, Unplug(d) \/ Close(d) PROVE Releases'
<1>1. fd'[d] # "open" /\ \A x \in Devices \ {d} : fd'[x] = fd[x] /\ queue'[x] = queue[x]
    BY DEF Unplug, Close, environment, TypeOK
<1>2. \A x \in AllKeys \ down' : x \in down => Device(x) = d
    BY DEF Unplug, Close, environment
<1>3. (d # "gamepad" => seen' = seen) /\ (d # "volume" => held' = held)
    BY DEF Unplug, Close
<1> QED BY <1>1, <1>2, <1>3, DeviceIs DEF Releases, Unread, Devices, AllKeys

LEMMA TopReleases == ASSUME TypeOK, Queues, Releases, Top PROVE Releases'
<1>1. UNCHANGED <<down, queue, seen, held>>
    BY DEF Top, environment
<1>2. \A d \in Devices : fd'[d] = fd[d] \/ fd[d] = "closed"
    BY DEF Top, TypeOK
<1>3. ASSUME NEW d \in Devices, fd[d] = "closed", NEW s, NEW x, x \notin s
      PROVE  ~SeenAfter(queue[d], s, x, Unread(d))
    <2>1. queue[d] = <<>>
        BY <1>3 DEF Queues
    <2>2. Unread(d) = 0
        BY <2>1 DEF Unread
    <2> QED BY <1>3, <2>2, SeenStart
<1>4. fd["gamepad"] = "closed" => seen = {}
    BY DEF Queues
<1>5. fd["volume"] = "closed" => \A x \in Volume : x \notin {held.key}
    BY DEF Queues, NoKey, Volume
<1> QED BY <1>1, <1>2, <1>3, <1>4, <1>5 DEF Releases, Unread, Devices

LEMMA ReleasesNext == ASSUME TypeOK, Queues, Releases, [Next]_vars PROVE Releases'
BY CalmOrStir, ReleasesStay, KeyReleases, NodeReleases, TopReleases, ReadsReleases DEF Stir

-----------------------------------------------------------------------------
(* Places *)

LEMMA PlacesStay == ASSUME Places, UNCHANGED <<pc, helper, due, seen, held>> PROVE Places'
BY DEF Places

\* A timer that was 0 stays 0 when the clock is read.
LEMMA ClockZero ==
    ASSUME TypeOK, ReadClock \/ PollTimesOut
    PROVE  \A t \in Timers : due'[t] = 0 <=> due[t] = 0
<1>1. CASE ReadClock
    BY <1>1, NowIs DEF ReadClock
<1>2. CASE PollTimesOut
    <2>1. \A t \in Timers : Now[t] \in Nat /\ (Now[t] = 0 <=> due[t] = 0)
        BY NowIs, LongestIs DEF TypeOK
    <2>2. due' = [t \in Timers |-> IF Now[t] > 1 THEN Now[t] - 1 ELSE Now[t]]
        BY <1>2 DEF PollTimesOut
    <2> QED BY <2>1, <2>2
<1> QED BY <1>1, <1>2

LEMMA AfterMenuZero ==
    ASSUME TypeOK, AfterMenu PROVE \A t \in Timers \ {"menu"} : due'[t] = 0 <=> due[t] = 0
BY NowIs DEF AfterMenu, Timers

LEMMA LevelChangesKeeps ==
    ASSUME TypeOK, NEW s, NEW n, LevelChanges(s, n)
    PROVE  \A t \in Timers \ {"persist", "repeat"} : due'[t] = due[t]
BY DEF LevelChanges, Timers, TypeOK

LEMMA LoopPlaces ==
    ASSUME TypeOK, Places,
           \/ Top \/ PollReturns \/ PollTimesOut \/ Interrupted \/ Requested \/ NotRequested
           \/ MenuEnds \/ HelperRuns
    PROVE  Places'
<1>1. UNCHANGED <<seen, held>>
    BY DEF Top, PollReturns, PollTimesOut, Interrupted, Requested, NotRequested, MenuEnds,
           HelperRuns, input
<1>2. \A t \in {"exit", "repeat"} : due'[t] = 0 <=> due[t] = 0
    BY ClockZero, AfterMenuZero
       DEF Top, PollReturns, PollTimesOut, Interrupted, Requested, NotRequested, MenuEnds,
           HelperRuns, timing, Timers
<1>3. FirstReady(ready) \in {"gamepad", "volume", "power", "exit"}
    BY FirstReadyIs DEF TypeOK
<1>4. \/ helper' = "none" /\ pc' \in {"poll", "flush", "request", "gamepad", "volume", "power", "exit"}
      \/ helper' = "menu" /\ pc' = "request"
      \/ UNCHANGED <<pc, helper>>
    BY <1>3 DEF Top, PollReturns, PollTimesOut, Interrupted, Requested, NotRequested, MenuEnds,
                HelperRuns, At, Go, Begin, Places
<1> QED BY <1>1, <1>2, <1>4 DEF Places, Settings

LEMMA ReadPlaces ==
    ASSUME TypeOK, Queues, Places,
           \/ \E d \in Devices : Drained(d) \/ Close(d)
           \/ ReadGamepad \/ ReadVolume \/ BrightnessEnds \/ ReadPower
    PROVE  Places'
<1>1. ASSUME NEW d \in Devices, Drained(d) PROVE Places'
    <2>1. UNCHANGED <<due, seen, held, helper>> /\ helper = "none" /\ pc' = After(d)
        BY <1>1 DEF Drained, Go, At, input, timing
    <2> QED BY <2>1, AfterIs DEF Places, Settings
<1>2. ASSUME NEW d \in Devices, Close(d) PROVE Places'
    <2>1. helper' = "none" /\ pc' \in {"volume", "power", "exit"}
        BY <1>2, AfterIs DEF Close, Go, At
    <2>2. CASE d = "gamepad"
        <3>1. seen' = {} /\ held' = held /\ due'["exit"] = 0 /\ due'["repeat"] = due["repeat"]
            BY <1>2, <2>2 DEF Close, TypeOK, Timers
        <3> QED BY <2>1, <3>1 DEF Places, Settings
    <2>3. CASE d # "gamepad"
        <3>1. /\ seen' = seen /\ due'["exit"] = due["exit"]
              /\ (held' = held /\ due'["repeat"] = due["repeat"]) \/ due'["repeat"] = 0
            BY <1>2, <2>3 DEF Close, TypeOK, Timers, Devices
        <3> QED BY <2>1, <3>1 DEF Places, Settings
    <2> QED BY <2>2, <2>3
<1>3. CASE ReadGamepad
    <2>1. UNCHANGED <<pc, helper, held>> /\ due'["repeat"] = due["repeat"]
        BY <1>3 DEF ReadGamepad, TypeOK, Timers
    <2>2. due'["exit"] # 0 => Chord(seen')
        BY <1>3 DEF ReadGamepad, TypeOK, Timers
    <2>3. helper' = "none" /\ pc' = "gamepad"
        BY <1>3, <2>1 DEF ReadGamepad, Reads, At
    <2> QED BY <2>1, <2>2, <2>3 DEF Places, Settings, Chord
<1>4. CASE ReadVolume
    <2>1. PICK e \in Events :
              /\ Reads("volume", e)
              /\ \/ held'.key = e.key /\ Apply(held'.display, RepeatDelay, "volume")
                 \/ /\ held' = NoKey /\ due' = [due EXCEPT !["repeat"] = 0]
                    /\ UNCHANGED <<pc, helper>>
                 \/ held' = held /\ UNCHANGED <<due, pc, helper>>
        BY <1>4 DEF ReadVolume, timing
    <2>2. pc = "volume" /\ helper = "none" /\ seen' = seen
        BY <1>4, <2>1 DEF ReadVolume, Reads, At
    <2>3. CASE held'.key = e.key /\ Apply(held'.display, RepeatDelay, "volume")
        <3>1. held' # NoKey
            <4>1. e.key \in Volume
                BY <2>1, HeadIs, DeviceIs DEF Devices
            <4> QED BY <2>3, <4>1 DEF NoKey, Volume
        <3>2. due'["exit"] = due["exit"] /\ helper' \in {"brightness", "none"} /\ pc' = "volume"
            BY <2>2, <2>3, LevelChangesKeeps DEF Apply, Begin, Go, timing, Timers
        <3> QED BY <2>2, <3>1, <3>2 DEF Places, Settings
    <2>4. CASE held' = NoKey /\ due' = [due EXCEPT !["repeat"] = 0] /\ UNCHANGED <<pc, helper>>
        <3>1. due'["repeat"] = 0 /\ due'["exit"] = due["exit"]
            BY <2>4 DEF TypeOK, Timers
        <3> QED BY <2>2, <2>4, <3>1 DEF Places, Settings
    <2> QED BY <2>1, <2>2, <2>3, <2>4, PlacesStay
<1>5. CASE BrightnessEnds
    <2>1. held' = held /\ held # NoKey /\ seen' = seen /\ helper' = "none"
        BY <1>5 DEF BrightnessEnds, input, Places
    <2>2. due'["exit"] = due["exit"]
        BY <1>5, LevelChangesKeeps DEF BrightnessEnds, Timers
    <2> QED BY <2>1, <2>2 DEF Places, Settings
<1>6. CASE ReadPower
    <2>1. UNCHANGED <<pc, seen, held>> /\ pc = "power" /\ helper' \in {"none", "menu"}
        BY <1>6 DEF ReadPower, Reads, At, OpenPowerMenu, Begin
    <2>2. \A t \in {"exit", "repeat"} : due'[t] = 0 <=> due[t] = 0
        BY <1>6, AfterMenuZero DEF ReadPower, OpenPowerMenu, timing, Timers
    <2> QED BY <2>1, <2>2 DEF Places, Settings
<1> QED BY <1>1, <1>2, <1>3, <1>4, <1>5, <1>6

LEMMA TimerPlaces ==
    ASSUME TypeOK, Places,
           \/ CheckExit \/ StopEnds \/ RepeatKey \/ Persist \/ Flush
           \/ \E s \in Settings : Saved(s) \/ SaveFails(s)
    PROVE  Places'
<1>1. UNCHANGED <<seen, held>>
    BY DEF CheckExit, StopEnds, RepeatKey, Persist, Flush, Saved, SaveFails, AfterSave, input
<1>2. ToRepeat = "repeat" => held # NoKey
    BY ToIs DEF ToRepeat, ToPersist
<1>3. CASE CheckExit
    <2>1. \A t \in {"exit", "repeat"} : due'[t] = 0 <=> due[t] = 0
        BY <1>3, ClockZero DEF CheckExit, Timers
    <2>2. \/ helper' = "stop" /\ pc' = "exit"
          \/ helper' = "none" /\ pc' = ToRepeat
        BY <1>3 DEF CheckExit, Begin, Go, At
    <2> QED BY <1>1, <1>2, <2>1, <2>2 DEF Places, Settings
<1>4. CASE StopEnds
    <2>1. helper' = "none" /\ pc' = ToRepeat /\ due' = [due EXCEPT !["exit"] = 0]
        BY <1>4 DEF StopEnds
    <2>2. due'["exit"] = 0 /\ due'["repeat"] = due["repeat"]
        BY <2>1 DEF TypeOK, Timers
    <2> QED BY <1>1, <1>2, <2>1, <2>2 DEF Places, Settings
<1>5. CASE RepeatKey
    <2>1. held # NoKey /\ helper = "none" /\ pc = "repeat"
        BY <1>5 DEF RepeatKey, At, Places
    <2>2. due'["exit"] = due["exit"]
        BY <1>5, LevelChangesKeeps DEF RepeatKey, Apply, timing, Timers
    <2>3. (helper' = "brightness" /\ pc' = "repeat") \/ helper' = "none"
        BY <1>5, <2>1 DEF RepeatKey, Apply, Begin, Go
    <2> QED BY <1>1, <2>1, <2>2, <2>3 DEF Places, Settings
<1>6. CASE Persist \/ Flush
    <2>1. due' = due /\ pc \in {"persist", "flush"}
        BY <1>6 DEF Persist, Flush, timing, At
    <2>2. \/ helper' \in Settings /\ pc' = pc
          \/ helper' = "none" /\ pc' = "stopped"
        BY <1>6 DEF Persist, Flush, Begin, Go, At, FirstSave, Settings
    <2> QED BY <1>1, <2>1, <2>2 DEF Places, Settings
<1>7. ASSUME NEW s \in Settings, Saved(s) \/ SaveFails(s) PROVE Places'
    <2>1. \E left : AfterSave(s, left)
        BY <1>7 DEF Saved, SaveFails
    <2>2. due'["exit"] = due["exit"] /\ due'["repeat"] = due["repeat"]
        BY <2>1 DEF AfterSave, TypeOK, Timers
    <2>3. \/ helper' = "display" /\ pc' = pc
          \/ helper' = "none" /\ pc' \in {"top", "stopped"}
        BY <2>1 DEF AfterSave
    <2>4. pc \in {"persist", "flush"}
        BY <1>7 DEF Saved, SaveFails, Places
    <2> QED BY <1>1, <2>2, <2>3, <2>4 DEF Places, Settings
<1> QED BY <1>3, <1>4, <1>5, <1>6, <1>7

LEMMA PlacesNext == ASSUME TypeOK, Queues, Places, [Next]_vars PROVE Places'
<1>1. CASE \E k \in Keys : Press(k) \/ Release(k) \/ Autorepeat(k)
    <2>1. UNCHANGED <<pc, helper, due, seen, held>>
        BY <1>1 DEF Press, Release, Autorepeat, timing, input
    <2> QED BY <2>1, PlacesStay
<1>2. CASE (\E d \in Devices : Unplug(d) \/ Plug(d)) \/ UNCHANGED vars
    <2>1. UNCHANGED <<pc, helper, due, seen, held>>
        BY <1>2 DEF Unplug, Plug, timing, input, vars
    <2> QED BY <2>1, PlacesStay
<1>3. CASE Interrupted \/ Requested \/ HelperRuns
    BY <1>3, LoopPlaces
<1>4. CASE Daemon
    BY <1>4, LoopPlaces, ReadPlaces, TimerPlaces DEF Daemon, Save
<1> QED BY <1>1, <1>2, <1>3, <1>4 DEF Next, Ended

LEMMA KeysInit == Init => KeysInv
<1> SUFFICES ASSUME Init PROVE KeysInv
    OBVIOUS
<1>1. setup \in Setups /\ Longest \in Nat /\ ExitHold \in Nat
    BY LongestIs, SetupTypes DEF Init
<1>2. <<>> \in Seq(Events)
    OBVIOUS
<1> HIDE DEF Events
<1>3. Clocks
    <2>1. 0 \in 0 .. Longest + 1 /\ 0 \in 0 .. Longest /\ 0 \in 0 .. ExitHold
        BY <1>1
    <2>2. due \in [Timers -> 0 .. Longest + 1] /\ lag \in 0 .. Longest /\ holdFor \in 0 .. ExitHold
        BY <2>1 DEF Init
    <2> QED BY <2>2 DEF Init, Clocks
<1>4. Steps
    BY DEF Init, Steps
<1>5. Inputs
    BY <1>2 DEF Init, Inputs
<1>6. \A d \in Devices : queue[d] = <<>> /\ fd[d] = "closed" /\ Unread(d) = 0
    <2>1. \A d \in Devices : queue[d] = <<>> /\ fd[d] = "closed"
        BY DEF Init
    <2> QED BY <2>1 DEF Unread
<1>7. Queues
    BY <1>6 DEF Init, Queues, Devices
<1>8. Releases
    BY <1>6 DEF Releases, Devices
<1>9. Places
    BY DEF Init, Places, Settings, Timers
<1> QED BY <1>1, <1>3, <1>4, <1>5, <1>7, <1>8, <1>9, TypeParts DEF KeysInv

LEMMA KeysNext == ASSUME KeysInv, [Next]_vars PROVE KeysInv'
BY TypesNext, QueuesNext, ReleasesNext, PlacesNext DEF KeysInv

(* Types, queues, releases and places together are inductive: what the     *)
(* daemon believes of a key, corrected by the events that it has not read, *)
(* is never more than what is pressed.                                     *)
THEOREM KeysInvariant == Spec => []KeysInv
<1>1. Init => KeysInv
    BY KeysInit
<1>2. KeysInv /\ [Next]_vars => KeysInv'
    BY KeysNext
<1> QED BY <1>1, <1>2, PTL DEF Spec

(* The variables keep their types: the timers stay in their range however  *)
(* long a menu or a helper keeps the loop waiting.                         *)
THEOREM TypesCorrect == Spec => []TypeOK
<1>1. KeysInv => TypeOK
    BY DEF KeysInv
<1> QED BY <1>1, KeysInvariant, PTL

(* When everything is read, the daemon takes no key for pressed that is    *)
(* up, in whatever order keys are pressed, device nodes go away and come   *)
(* back and helpers run.                                                   *)
THEOREM KeysAreReal == Spec => []NoPhantomKeys
<1>1. KeysInv => NoPhantomKeys
    <2> SUFFICES ASSUME KeysInv, Readable = {} PROVE
                     /\ seen \subseteq down
                     /\ (held # NoKey => held.key \in down)
                     /\ (due["repeat"] # 0 => held # NoKey)
                     /\ (due["exit"] # 0 => Chord(down))
        BY DEF NoPhantomKeys
    <2>1. \A d \in Devices : fd[d] = "closed" \/ (fd[d] = "open" /\ Unread(d) = 0)
        BY UnreadNat DEF Readable, KeysInv, TypeOK
    <2>2. seen \subseteq down
        <3>1. CASE fd["gamepad"] = "closed"
            BY <3>1 DEF KeysInv, Queues
        <3>2. CASE fd["gamepad"] = "open" /\ Unread("gamepad") = 0
            <4>1. seen \subseteq Gamepad
                BY DEF KeysInv, TypeOK
            <4> QED BY <3>2, <4>1, SeenStart DEF KeysInv, Releases
        <3> QED BY <2>1, <3>1, <3>2 DEF Devices
    <2>3. held # NoKey => held.key \in down
        <3>1. CASE fd["volume"] = "closed"
            BY <3>1 DEF KeysInv, Queues
        <3>2. CASE fd["volume"] = "open" /\ Unread("volume") = 0
            <4>1. held # NoKey => held.key \in Volume
                BY DEF KeysInv, TypeOK
            <4> QED BY <3>2, <4>1, SeenStart DEF KeysInv, Releases
        <3> QED BY <2>1, <3>1, <3>2 DEF Devices
    <2> QED BY <2>2, <2>3 DEF KeysInv, Places, Chord
<1> QED BY <1>1, KeysInvariant, PTL

-----------------------------------------------------------------------------
(* Power menu *)

LEMMA KeyMenu ==
    ASSUME TypeOK, MenuKeys, NEW k \in Keys, Press(k) \/ Release(k) \/ Autorepeat(k)
    PROVE  MenuKeys'
<1>1. UNCHANGED <<pc, helper, due, fd>> /\ "power" \in Devices
    BY DEF Press, Release, Autorepeat, timing, input, Devices
<1>2. PICK value \in 0 .. 2 : Enqueue(k, value)
    BY DEF Press, Release, Autorepeat
<1>3. CASE queue'["power"] = queue["power"]
    BY <1>1, <1>3 DEF MenuKeys, Unread
<1>4. CASE queue'["power"] # queue["power"]
    <2>1. queue'["power"] = Append(queue["power"], Event(k, value))
        BY <1>1, <1>2, <1>4, EnqueueIs
    <2>2. queue["power"] \in Seq(Events) /\ Unread("power") \in Nat
        BY <1>1, UnreadNat
    <2>3. Event(k, value).menu => helper = "menu" /\ pc = "power"
        BY DEF Event
    <2> DEFINE e == Event(k, value)
               q == queue["power"]
    <2> HIDE DEF e, q, Events
    <2>4. q \in Seq(Events) /\ queue'["power"] = Append(q, e) /\ Unread("power") = Len(q)
        BY <2>1, <2>2 DEF e, q, Unread
    <2>5. \A i \in 1 .. Len(queue'["power"]) :
              queue'["power"][i] = e \/ (i \in 1 .. Len(q) /\ queue'["power"][i] = q[i])
        BY <2>4
    <2>6. \A i \in 1 .. Len(q) : q[i].menu => pc = "power" /\ (helper = "menu" \/ due["menu"] > 1)
        BY <2>4 DEF MenuKeys, q
    <2> QED BY <1>1, <2>3, <2>5, <2>6 DEF MenuKeys, Unread, e
<1> QED BY <1>3, <1>4

\* Where the daemon is not at the Power key, no press made in a menu waits.
LEMMA AwayMenu ==
    ASSUME MenuKeys, pc # "power", queue'["power"] = queue["power"] PROVE MenuKeys'
BY DEF MenuKeys, Unread

LEMMA PowerMenu ==
    ASSUME TypeOK, Queues, Places, MenuKeys,
           \/ MenuEnds \/ HelperRuns \/ ReadPower
           \/ \E d \in Devices : Drained(d) \/ Close(d)
    PROVE  MenuKeys'
<1>1. CASE HelperRuns
    BY <1>1 DEF HelperRuns, environment, MenuKeys, Unread
<1>2. CASE MenuEnds
    <2>1. queue' = queue /\ helper = "menu" /\ (pc = "power" => pc' = "power") /\ due'["menu"] > 1
        <3>1. Debounce \in Delays
            BY DEF Delays
        <3>2. In(Debounce) > 1
            BY <3>1, InTypes
        <3> QED BY <1>2, <3>2 DEF MenuEnds, AfterMenu, environment, Now, Timers
    <2> QED BY <2>1 DEF MenuKeys, Unread
<1>3. CASE ReadPower
    <2>1. PICK e \in Events : Reads("power", e)
        BY <1>3 DEF ReadPower
    <2>2. "power" \in Devices
        BY DEF Devices
    <2> DEFINE q == queue["power"]
               r == Tail(q)
               n == Unread("power")
    <2>3. queue' = [queue EXCEPT !["power"] = r] /\ Len(r) = n - 1
          /\ \A i \in 1 .. n - 1 : r[i] = q[i + 1]
        BY <2>1, <2>2, HeadIs
    <2>4. n \in Nat
        BY <2>2, UnreadNat
    <2> HIDE DEF r, n, Events
    <2>5. queue'["power"] = r
        BY <2>2, <2>3 DEF TypeOK
    <2>6. helper = "none" /\ pc = "power" /\ pc' = "power"
        BY <1>3, <2>1 DEF ReadPower, Reads, At
    <2>7. \A i \in 1 .. n : q[i].menu => due["menu"] > 1
        BY <2>6 DEF MenuKeys, n
    <2>8. \A i \in 1 .. Len(r) : i + 1 \in 1 .. n /\ r[i] = q[i + 1]
        BY <2>3, <2>4
    <2>9. due["menu"] > 1 => due' = due
        BY <1>3 DEF ReadPower, timing
    <2> QED BY <2>5, <2>6, <2>7, <2>8, <2>9 DEF MenuKeys, Unread
<1>4. ASSUME NEW d \in Devices, Drained(d) \/ Close(d) PROVE MenuKeys'
    <2>1. queue' = queue /\ pc = d /\ queue[d] = <<>>
        BY <1>4 DEF Drained, Close, At, environment, Queues
    <2>2. CASE d = "power"
        <3>1. Unread("power")' = 0
            BY <2>1, <2>2 DEF Unread
        <3> QED BY <3>1 DEF MenuKeys
    <2>3. CASE d # "power"
        BY <2>1, <2>3, AwayMenu
    <2> QED BY <2>2, <2>3
<1> QED BY <1>1, <1>2, <1>3, <1>4

LEMMA AwaySteps ==
    ASSUME TypeOK, Places, MenuKeys,
           \/ Interrupted \/ Requested \/ Top \/ PollReturns \/ PollTimesOut \/ NotRequested
           \/ ReadGamepad \/ ReadVolume \/ BrightnessEnds
           \/ CheckExit \/ StopEnds \/ RepeatKey \/ Persist \/ Flush
           \/ \E s \in Settings : Saved(s) \/ SaveFails(s)
    PROVE  MenuKeys'
<1>1. pc # "power"
    BY DEF Interrupted, Requested, Top, PollReturns, PollTimesOut, NotRequested, ReadGamepad,
           ReadVolume, Reads, BrightnessEnds, CheckExit, StopEnds, RepeatKey, Persist, Flush,
           Saved, SaveFails, At, Places
<1>2. queue'["power"] = queue["power"]
    BY DEF Interrupted, Requested, Top, PollReturns, PollTimesOut, NotRequested, ReadGamepad,
           ReadVolume, Reads, BrightnessEnds, CheckExit, StopEnds, RepeatKey, Persist, Flush,
           Saved, SaveFails, AfterSave, environment, Devices, TypeOK
<1> QED BY <1>1, <1>2, AwayMenu

LEMMA MenuNext == ASSUME KeysInv, MenuKeys, [Next]_vars PROVE MenuKeys'
<1> USE DEF KeysInv
<1>1. CASE \E k \in Keys : Press(k) \/ Release(k) \/ Autorepeat(k)
    BY <1>1, KeyMenu
<1>2. CASE (\E d \in Devices : Unplug(d) \/ Plug(d)) \/ UNCHANGED vars
    <2>1. UNCHANGED <<pc, helper, due>>
        BY <1>2 DEF Unplug, Plug, timing, vars
    <2>2. queue'["power"] \in {queue["power"], <<>>}
        BY <1>2 DEF Unplug, Plug, vars, Devices, TypeOK
    <2>3. CASE queue'["power"] = <<>>
        <3>1. Unread("power")' = 0
            BY <2>3 DEF Unread
        <3> QED BY <3>1 DEF MenuKeys
    <2> QED BY <2>1, <2>2, <2>3 DEF MenuKeys, Unread
<1>3. CASE Interrupted \/ Requested \/ HelperRuns
    BY <1>3, PowerMenu, AwaySteps
<1>4. CASE Daemon
    BY <1>4, PowerMenu, AwaySteps DEF Daemon, Save
<1> QED BY <1>1, <1>2, <1>3, <1>4 DEF Next, Ended

(* A press of the Power key in a menu that this key opened does not open   *)
(* another menu: the ignored time outlasts the reading of the events that  *)
(* came while the loop waited.                                             *)
THEOREM MenuIsClosedOnce == Spec => MenuStaysClosed
<1>1. Init => MenuKeys
    <2> SUFFICES ASSUME Init PROVE MenuKeys
        OBVIOUS
    <2>1. queue["power"] = <<>>
        BY DEF Init, Devices
    <2>2. Unread("power") = 0
        BY <2>1 DEF Unread
    <2> QED BY <2>2 DEF MenuKeys
<1>2. KeysInv /\ MenuKeys /\ [Next]_vars => MenuKeys'
    BY MenuNext
<1>3. KeysInv /\ MenuKeys /\ [Next]_vars
          => [helper # "menu" /\ helper' = "menu" /\ pc = "power" => ~Head(queue["power"]).menu]_vars
    <2> SUFFICES ASSUME KeysInv, MenuKeys, Next, helper # "menu", helper' = "menu", pc = "power"
                 PROVE  ~Head(queue["power"]).menu
        OBVIOUS
    <2>1. ReadPower
        BY DEF Next, Press, Release, Autorepeat, Unplug, Plug, Interrupted, Requested, HelperRuns,
               Daemon, Ended, Top, PollReturns, PollTimesOut, NotRequested, MenuEnds, Drained,
               Close, ReadGamepad, ReadVolume, BrightnessEnds, CheckExit, StopEnds, RepeatKey,
               Persist, Flush, Save, Saved, SaveFails, AfterSave, Apply, Reads, At, Go, Begin, vars
    <2>2. ~(due["menu"] > 1) /\ \E e : Reads("power", e)
        BY <2>1 DEF ReadPower
    <2>3. queue["power"] \in Seq(Events) /\ queue["power"] # <<>>
        <3>1. queue["power"] # <<>>
            BY <2>2 DEF Reads
        <3> QED BY <3>1, UnreadNat DEF KeysInv, Devices
    <2>4. Head(queue["power"]) = queue["power"][1] /\ 1 \in 1 .. Unread("power")
        <3> HIDE DEF Events
        <3> QED BY <2>3 DEF Unread
    <2> QED BY <2>2, <2>4 DEF MenuKeys
<1> QED BY <1>1, <1>2, <1>3, KeysInvariant, PTL DEF Spec, MenuStaysClosed

-----------------------------------------------------------------------------
(* Select + Start *)

LEMMA ChordNow == (ChordAt(0) <=> Chord(seen)) /\ (ChordAt(0)' <=> Chord(seen'))
BY SeenStart DEF ChordAt, Chord

LEMMA ChordDown ==
    ASSUME Releases, fd["gamepad"] = "open", ChordAt(Unread("gamepad")) PROVE Chord(down)
BY DEF Releases, ChordAt, Chord

LEMMA ChordStays ==
    ASSUME queue'["gamepad"] = queue["gamepad"], seen' = seen
    PROVE  Unread("gamepad")' = Unread("gamepad") /\ \A i : ChordAt(i)' <=> ChordAt(i)
BY DEF ChordAt, Unread

LEMMA ChordGrows ==
    ASSUME TypeOK, NEW k \in Keys, NEW value \in 0 .. 2, Enqueue(k, value), seen' = seen,
           fd["gamepad"] = "open", k \in Gamepad, NEW n, n = Unread("gamepad")
    PROVE  /\ Unread("gamepad")' = n + 1
           /\ \A i \in 0 .. n : ChordAt(i)' <=> ChordAt(i)
           /\ value # 0 /\ ChordAt(n) => ChordAt(n + 1)'
<1>1. "gamepad" \in Devices /\ Device(k) = "gamepad"
    BY DEF Devices, Device
<1>2. /\ Len(queue'["gamepad"]) = n + 1
      /\ \A x \in Gamepad : \A i \in 0 .. n :
            SeenAfter(queue'["gamepad"], seen, x, i) <=> SeenAfter(queue["gamepad"], seen, x, i)
      /\ \A x \in Gamepad : SeenAfter(queue'["gamepad"], seen, x, n + 1) <=>
            IF x = k THEN value # 0 ELSE SeenAfter(queue["gamepad"], seen, x, n)
    BY <1>1, EnqueueSeen
<1>3. Unread("gamepad")' = n + 1
    BY <1>2 DEF Unread
<1>4. \A i \in 0 .. n : ChordAt(i)' <=> ChordAt(i)
    BY <1>2 DEF ChordAt
<1>5. value # 0 /\ ChordAt(n) => ChordAt(n + 1)'
    BY <1>2 DEF ChordAt
<1> QED BY <1>3, <1>4, <1>5

LEMMA ChordReads ==
    ASSUME TypeOK, Queues, ReadGamepad, NEW n, n = Unread("gamepad")
    PROVE  /\ n \in Nat \ {0} /\ Unread("gamepad")' = n - 1
           /\ \A i \in 0 .. n - 1 : ChordAt(i)' <=> ChordAt(i + 1)
<1>1. PICK e \in Events : /\ Reads("gamepad", e)
                          /\ seen' = IF e.value # 0 THEN seen \cup {e.key} ELSE seen \ {e.key}
    BY DEF ReadGamepad
<1>2. "gamepad" \in Devices
    BY DEF Devices
<1>3. n \in Nat \ {0}
    BY <1>1, <1>2, UnreadNat DEF Reads
<1>4. \A x : x \in seen' <=> IF e.key = x THEN e.value # 0 ELSE x \in seen
    BY <1>1
<1> HIDE DEF Events
<1>5. ASSUME NEW i \in 0 .. n - 1, NEW x \in Gamepad
      PROVE  /\ Len(queue'["gamepad"]) = n - 1
             /\ SeenAfter(queue'["gamepad"], seen', x, i) <=> SeenAfter(queue["gamepad"], seen, x, i + 1)
    <2>1. i \in 0 .. Unread("gamepad") - 1
        BY <1>5
    <2>2. /\ x \in seen' => IF e.key = x THEN e.value # 0 ELSE x \in seen
          /\ (IF e.key = x THEN e.value # 0 ELSE x \in seen) => x \in seen'
        BY <1>4
    <2>3. /\ Len(queue'["gamepad"]) = Unread("gamepad") - 1
          /\ SeenAfter(queue'["gamepad"], seen', x, i) => SeenAfter(queue["gamepad"], seen, x, i + 1)
          /\ SeenAfter(queue["gamepad"], seen, x, i + 1) => SeenAfter(queue'["gamepad"], seen', x, i)
        BY <1>1, <1>2, <2>1, <2>2, ReadsSeen, ZenonT(30)
    <2> QED BY <2>3
<1>6. 0 \in 0 .. n - 1 /\ Gamepad # {}
    BY <1>3 DEF Gamepad
<1>7. Unread("gamepad")' = n - 1
    BY <1>5, <1>6 DEF Unread
<1>8. \A i \in 0 .. n - 1 : ChordAt(i)' <=> ChordAt(i + 1)
    BY <1>5 DEF ChordAt
<1> QED BY <1>3, <1>7, <1>8

LEMMA SpentStays ==
    ASSUME Spent, Calm, UNCHANGED <<latched, spent>>, helper = "stop" => helper' = "stop"
    PROVE  Spent'
<1>1. UNCHANGED <<down, queue, fd, seen>>
    BY DEF Calm
<1>2. Unread("gamepad")' = Unread("gamepad") /\ \A i : ChordAt(i)' <=> ChordAt(i)
    BY <1>1, ChordStays
<1> QED BY <1>1, <1>2 DEF Spent

LEMMA KeySpent ==
    ASSUME KeysInv, KeysInv', Spent, NEW k \in Keys, Press(k) \/ Release(k) \/ Autorepeat(k)
    PROVE  Spent'
<1> PICK n \in Nat : n = Unread("gamepad")
    BY UnreadNat DEF KeysInv, Devices
<1>1. UNCHANGED <<fd, seen, latched, helper>>
    BY DEF Press, Release, Autorepeat, input
<1>2. PICK value \in 0 .. 2 : Enqueue(k, value) /\ (Autorepeat(k) => value = 2)
    BY DEF Press, Release, Autorepeat
<1>3. n \in Nat /\ n = Unread("gamepad")
    OBVIOUS
<1>4. CASE k \notin Gamepad
    <2>1. queue'["gamepad"] = queue["gamepad"]
        BY <1>2, <1>4, EnqueueIs, DeviceIs DEF KeysInv, Devices
    <2>2. Chord(down') <=> Chord(down)
        BY <1>4 DEF Press, Release, Autorepeat, Chord
    <2>3. spent' = spent
        BY <1>4 DEF Press, Release, Autorepeat, history
    <2> QED BY <1>1, <2>1, <2>2, <2>3, ChordStays DEF Spent
<1>5. CASE k \in Gamepad /\ fd["gamepad"] # "open"
    <2>1. queue' = queue
        BY <1>2, <1>5, EnqueueIs DEF KeysInv, Device
    <2>2. spent' => spent /\ (~Chord(down') \/ down' = down)
        BY <1>5 DEF Press, Release, Autorepeat, history, Chord
    <2> QED BY <1>1, <1>5, <2>1, <2>2, ChordStays DEF Spent
<1>6. CASE k \in Gamepad /\ fd["gamepad"] = "open"
    <2>1. /\ Unread("gamepad")' = n + 1
          /\ \A i \in 0 .. n : ChordAt(i)' <=> ChordAt(i)
          /\ value # 0 /\ ChordAt(n) => ChordAt(n + 1)'
        BY <1>1, <1>2, <1>6, ChordGrows DEF KeysInv
    <2>2. ChordAt(n + 1)' => Chord(down')
        <3>1. Releases' /\ fd'["gamepad"] = "open"
            BY <1>1, <1>6 DEF KeysInv
        <3>2. ChordAt(Unread("gamepad"))' => Chord(down')
            BY <3>1 DEF Releases, ChordAt, Chord
        <3> QED BY <2>1, <3>2
    <2>3. spent' /\ Chord(down') => spent /\ Autorepeat(k) /\ down' = down
        BY <1>6 DEF Press, Release, Autorepeat, history, Chord
    <2>4. spent' => spent
        BY DEF Press, Release, Autorepeat, history
    <2>5. ASSUME spent' PROVE Spent'
        <3>1. CASE Chord(down')
            <4>1. ChordAt(n) /\ ChordAt(n + 1)'
                BY <1>2, <2>1, <2>3, <2>5, <3>1 DEF Spent
            <4>2. \A i \in 0 .. n + 1 : i \in 0 .. n \/ i = n + 1
                BY <1>3
            <4>3. \A i \in 0 .. n : ChordAt(i)
                BY <1>3, <2>4, <2>5, <4>1 DEF Spent
            <4>4. \A i \in 0 .. n + 1 : ChordAt(i)'
                BY <2>1, <4>1, <4>2, <4>3
            <4>5. latched \/ helper = "stop"
                BY <1>3, <2>4, <2>5, <4>1 DEF Spent
            <4> QED BY <1>1, <1>3, <1>6, <2>1, <4>4, <4>5 DEF Spent
        <3>2. CASE ~Chord(down')
            <4>1. ~ChordAt(n + 1)'
                BY <2>2, <3>2
            <4>2. \A i \in 0 .. n + 1 : i \in 0 .. n \/ i = n + 1
                BY <1>3
            <4>3. \A i \in 0 .. n + 1 : ChordAt(i)' => i \in 0 .. n /\ ChordAt(i)
                BY <2>1, <4>1, <4>2
            <4>4. \A i \in 0 .. n + 1 : ChordAt(i)' => latched \/ helper = "stop"
                BY <2>4, <2>5, <4>3 DEF Spent
            <4>5. \A i, j \in 0 .. n + 1 : j <= i /\ ChordAt(i)' => ChordAt(j)'
                <5> SUFFICES ASSUME NEW i \in 0 .. n + 1, NEW j \in 0 .. n + 1, j <= i, ChordAt(i)'
                             PROVE  ChordAt(j)'
                    OBVIOUS
                <5>1. i \in 0 .. n /\ ChordAt(i) /\ j \in 0 .. n
                    BY <1>3, <4>3
                <5>2. ChordAt(j)
                    BY <2>4, <2>5, <5>1 DEF Spent
                <5> QED BY <2>1, <5>1, <5>2
            <4> QED BY <1>1, <2>1, <3>2, <4>4, <4>5 DEF Spent
        <3> QED BY <3>1, <3>2
    <2> QED BY <2>5 DEF Spent
<1> QED BY <1>4, <1>5, <1>6

LEMMA NodeSpent ==
    ASSUME KeysInv, Spent, NEW d \in Devices, Unplug(d) \/ Close(d) PROVE Spent'
<1>1. UNCHANGED <<helper, spent>>
    BY DEF Unplug, Close, Go, history
<1>2. CASE d # "gamepad"
    <2>1. /\ queue'["gamepad"] = queue["gamepad"] /\ fd'["gamepad"] = fd["gamepad"]
          /\ UNCHANGED <<seen, latched>>
        BY <1>2 DEF Unplug, Close, environment, KeysInv, TypeOK, Devices
    <2>2. Chord(down') => Chord(down)
        BY DEF Unplug, Close, environment, Chord
    <2> QED BY <1>1, <2>1, <2>2, ChordStays DEF Spent
<1>3. CASE d = "gamepad"
    <2>1. queue'["gamepad"] = <<>>
        BY <1>3 DEF Unplug, Close, environment, KeysInv, Queues, TypeOK, Devices
    <2>2. Unread("gamepad")' = 0 /\ (ChordAt(0)' <=> Chord(seen'))
        BY <2>1, ChordNow DEF Unread
    <2>3. CASE Unplug(d)
        <3>1. UNCHANGED <<seen, latched>> /\ ~Chord(down')
            BY <1>3, <2>3 DEF Unplug, Chord, Device, Gamepad
        <3>2. Unread("gamepad") \in Nat
            BY UnreadNat DEF KeysInv, Devices
        <3>3. spent /\ Chord(seen) => latched \/ helper = "stop"
            BY <3>2, ChordNow DEF Spent
        <3> QED BY <1>1, <2>2, <3>1, <3>3 DEF Spent
    <2>4. CASE Close(d)
        <3>1. seen' = {} /\ down' = down /\ fd["gamepad"] = "dead"
            BY <1>3, <2>4 DEF Close, environment
        <3>2. ~Chord(seen')
            BY <3>1 DEF Chord, Gamepad
        <3>3. spent => ~Chord(down)
            BY <3>1 DEF Spent
        <3> QED BY <1>1, <2>2, <3>1, <3>2, <3>3 DEF Spent
    <2> QED BY <2>3, <2>4
<1> QED BY <1>2, <1>3

LEMMA LoopSpent ==
    ASSUME KeysInv, Spent, Top \/ ReadVolume \/ ReadPower PROVE Spent'
<1>1. /\ queue'["gamepad"] = queue["gamepad"]
      /\ fd["gamepad"] = "open" => fd'["gamepad"] = "open"
      /\ UNCHANGED <<down, seen, latched, spent>>
    BY DEF Top, ReadVolume, ReadPower, OpenPowerMenu, Reads, Apply, Begin, environment, history,
           KeysInv, TypeOK, Devices
<1>2. helper = "none"
    BY DEF Top, ReadVolume, ReadPower, Reads, At
<1>3. Unread("gamepad")' = Unread("gamepad") /\ \A i : ChordAt(i)' <=> ChordAt(i)
    BY <1>1, ChordStays
<1>4. Chord(down') => Chord(down)
    BY <1>1
<1> QED BY <1>1, <1>2, <1>3, <1>4 DEF Spent

LEMMA ReadSpent == ASSUME KeysInv, Spent, ReadGamepad PROVE Spent'
<1> PICK n \in Nat : n = Unread("gamepad")
    BY UnreadNat DEF KeysInv, Devices
<1>1. /\ n \in Nat \ {0} /\ Unread("gamepad")' = n - 1
      /\ \A i \in 0 .. n - 1 : ChordAt(i)' <=> ChordAt(i + 1)
    BY ChordReads DEF KeysInv
<1>2. UNCHANGED <<down, fd, helper, spent>> /\ helper = "none"
    BY DEF ReadGamepad, Reads, At, history
<1>3. Chord(seen') => latched' = latched
    BY DEF ReadGamepad
<1>4. ChordAt(0)' <=> Chord(seen')
    BY ChordNow
<1> SUFFICES ASSUME spent PROVE Spent'
    BY <1>2 DEF Spent
<1>5. \A i \in 0 .. n - 1 : i + 1 \in 0 .. n
    OBVIOUS
<1>6. ASSUME NEW i \in 0 .. n - 1, ChordAt(i)' PROVE latched'
    <2>1. ChordAt(i + 1) /\ i + 1 \in 0 .. n /\ 1 \in 0 .. n /\ 1 <= i + 1 /\ 0 \in 0 .. n - 1
        BY <1>1, <1>5, <1>6
    <2>2. ChordAt(1) /\ latched
        BY <1>2, <2>1 DEF Spent
    <2>3. ChordAt(0)'
        BY <1>1, <2>1, <2>2
    <2> QED BY <1>3, <1>4, <2>2, <2>3
<1>7. ASSUME NEW i \in 0 .. n - 1, NEW j \in 0 .. n - 1, j <= i, ChordAt(i)' PROVE ChordAt(j)'
    <2>1. ChordAt(i + 1) /\ i + 1 \in 0 .. n /\ j + 1 \in 0 .. n /\ j + 1 <= i + 1
        BY <1>1, <1>5, <1>7
    <2>2. ChordAt(j + 1)
        BY <2>1 DEF Spent
    <2> QED BY <1>1, <2>2
<1>8. Chord(down') => fd'["gamepad"] = "open" /\ ChordAt(n - 1)'
    <2>1. n - 1 \in 0 .. n - 1 /\ (n - 1) + 1 = n
        BY <1>1
    <2>2. Chord(down) => fd["gamepad"] = "open" /\ ChordAt(n)
        BY DEF Spent
    <2> QED BY <1>1, <1>2, <2>1, <2>2
<1>9. Spent' <=> (spent' =>
          /\ \A i \in 0 .. n - 1 : ChordAt(i)' => latched' \/ helper' = "stop"
          /\ \A i, j \in 0 .. n - 1 : j <= i /\ ChordAt(i)' => ChordAt(j)'
          /\ Chord(down') => fd'["gamepad"] = "open" /\ ChordAt(n - 1)')
    BY <1>1 DEF Spent
<1> QED BY <1>6, <1>7, <1>8, <1>9

\* A port is stopped for a hold that has not stopped one.
LEMMA StopIsFirst ==
    ASSUME KeysInv, Spent, CheckExit, ~latched, Reached(Now["exit"])
    PROVE  ~spent /\ due["exit"] # 0 /\ Chord(seen)
<1>1. due["exit"] # 0
    BY NowIs DEF Reached, KeysInv, Timers
<1>2. Chord(seen)
    BY <1>1 DEF KeysInv, Places
<1>3. Unread("gamepad") \in Nat
    BY UnreadNat DEF KeysInv, Devices
<1>4. helper = "none"
    BY DEF CheckExit, At
<1>5. 0 \in 0 .. Unread("gamepad") /\ ChordAt(0)
    BY <1>2, <1>3, ChordNow
<1> QED BY <1>1, <1>2, <1>4, <1>5 DEF Spent

LEMMA ExitSpent == ASSUME KeysInv, Spent, CheckExit PROVE Spent'
<1>1. Calm /\ latched' = latched
    BY DEF CheckExit, environment, input, Calm
<1>2. CASE ~(~latched /\ Reached(Now["exit"]))
    <2>1. UNCHANGED <<spent, helper>>
        BY <1>2 DEF CheckExit, Go, history
    <2> QED BY <1>1, <2>1, SpentStays
<1>3. CASE ~latched /\ Reached(Now["exit"])
    <2>1. helper' = "stop" /\ (spent' <=> "gamepad" \notin Readable)
        BY <1>3 DEF CheckExit, Begin
    <2>2. due["exit"] # 0 /\ Chord(seen)
        BY <1>3, StopIsFirst
    <2>3. CASE "gamepad" \notin Readable
        <3>1. fd["gamepad"] \in {"open", "closed", "dead"} /\ "gamepad" \in Devices
            BY DEF KeysInv, TypeOK, Devices
        <3>2. fd["gamepad"] # "closed"
            BY <2>2 DEF KeysInv, Queues, Chord, Gamepad
        <3>3. fd["gamepad"] = "open" /\ Unread("gamepad") = 0
            BY <2>3, <3>1, <3>2, UnreadNat DEF Readable, KeysInv
        <3>4. ChordAt(0)
            BY <2>2, ChordNow
        <3>5. Unread("gamepad")' = 0 /\ ChordAt(0)' /\ fd'["gamepad"] = "open"
            BY <1>1, <3>3, <3>4, ChordStays DEF Calm
        <3> QED BY <2>1, <3>5 DEF Spent
    <2>4. CASE "gamepad" \in Readable
        BY <2>1, <2>4 DEF Spent
    <2> QED BY <2>3, <2>4
<1> QED BY <1>2, <1>3

LEMMA SpentNext == ASSUME KeysInv, Spent, [Next]_vars PROVE Spent'
<1>1. KeysInv'
    BY KeysNext
<1>2. CASE Stir
    BY <1>1, <1>2, KeySpent, NodeSpent, LoopSpent, ReadSpent DEF Stir
<1>3. CASE CheckExit
    BY <1>3, ExitSpent
<1>4. CASE StopEnds
    <2>1. Calm /\ latched' = TRUE /\ spent' = spent
        BY <1>4, CalmSteps DEF StopEnds, history
    <2>2. UNCHANGED <<down, queue, fd, seen>>
        BY <2>1 DEF Calm
    <2> QED BY <2>1, <2>2, ChordStays DEF Spent
<1>5. CASE Calm /\ UNCHANGED <<latched, spent>> /\ (helper = "stop" => helper' = "stop")
    BY <1>5, SpentStays
<1>6. CASE \/ PollReturns \/ PollTimesOut \/ Interrupted \/ Requested \/ NotRequested
           \/ MenuEnds \/ HelperRuns \/ BrightnessEnds \/ RepeatKey
           \/ Persist \/ Flush \/ UNCHANGED vars
           \/ \E d \in Devices : Drained(d) \/ Plug(d)
           \/ \E s \in Settings : Saved(s) \/ SaveFails(s)
    <2>1. Calm
        BY <1>6, CalmSteps
    <2>2. latched' = latched
        BY <1>6 DEF PollReturns, PollTimesOut, Interrupted, Requested, NotRequested, MenuEnds,
               HelperRuns, BrightnessEnds, RepeatKey, Persist, Flush, Drained, Plug, Saved,
               SaveFails, AfterSave, input, vars
    <2>3. spent' = spent
        BY <1>6 DEF PollReturns, PollTimesOut, Interrupted, Requested, NotRequested, MenuEnds,
               HelperRuns, BrightnessEnds, RepeatKey, Apply, Persist, Flush, Drained, Plug, Saved,
               SaveFails, AfterSave, HoldGrows, history, vars
    <2>4. helper = "stop" => helper' = "stop"
        BY <1>6 DEF PollReturns, PollTimesOut, Interrupted, Requested, NotRequested, MenuEnds,
               HelperRuns, BrightnessEnds, RepeatKey, Persist, Flush, Drained, Plug, Saved,
               SaveFails, Settings, At, vars, KeysInv, Places
    <2> QED BY <1>5, <2>1, <2>2, <2>3, <2>4
<1> QED BY <1>2, <1>3, <1>4, <1>6 DEF Next, Daemon, Save, Ended, Stir

\* ------------------------- the time of the hold --------------------------

LEMMA HoldTypes ==
    ASSUME TypeOK
    PROVE  /\ ExitHold \in Nat \ {0} /\ holdFor \in Nat /\ lag \in Nat /\ due["exit"] \in Nat
           /\ Now["exit"] \in Nat
           /\ due["exit"] # 0 => Now["exit"] + lag >= due["exit"]
<1>1. Longest \in Nat /\ ExitHold \in Nat \ {0}
    BY LongestIs, SetupTypes DEF TypeOK
<1>2. "exit" \in Timers
    BY DEF Timers
<1>3. holdFor \in Nat /\ lag \in Nat /\ due["exit"] \in Nat
    BY <1>1, <1>2 DEF TypeOK
<1>4. Now["exit"] \in Nat /\ (due["exit"] # 0 => Now["exit"] + lag >= due["exit"])
    BY <1>1, <1>2, NowIs
<1> QED BY <1>1, <1>3, <1>4

LEMMA HoldTimeSame ==
    ASSUME HoldTime, UNCHANGED <<setup, holdFor, lag>>, due'["exit"] = due["exit"] PROVE HoldTime'
BY DEF HoldTime, ExitHold

LEMMA HoldTimeClock ==
    ASSUME TypeOK, HoldTime, due["exit"] # 0, UNCHANGED <<setup, holdFor>>,
           due'["exit"] = Now["exit"], lag' = 0
    PROVE  HoldTime'
<1>1. ExitHold' = ExitHold
    BY DEF ExitHold
<1> QED BY <1>1, HoldTypes DEF HoldTime

LEMMA EndSame ==
    ASSUME EndUnread, queue'["gamepad"] = queue["gamepad"], seen' = seen,
           fd'["gamepad"] = fd["gamepad"],
           \/ pc' \in {"gamepad", "repeat", "persist", "top", "poll", "flush", "stopped"}
           \/ UNCHANGED <<pc, ready>>
    PROVE  EndUnread'
BY ChordStays DEF EndUnread

\* The end of a hold that the timer still counts is an event to read.
LEMMA EndWaits ==
    ASSUME KeysInv, EndUnread, due["exit"] # 0
    PROVE  fd["gamepad"] = "dead" \/ (fd["gamepad"] = "open" /\ queue["gamepad"] # <<>>)
<1>1. Chord(seen) /\ ChordAt(0) /\ "gamepad" \in Devices
    BY ChordNow DEF KeysInv, Places, Devices
<1>2. CASE \E i \in 0 .. Unread("gamepad") : ~ChordAt(i)
    <2>1. Unread("gamepad") \in Nat /\ Unread("gamepad") # 0
        BY <1>1, <1>2, UnreadNat DEF KeysInv
    <2>2. queue["gamepad"] # <<>>
        BY <1>1, <2>1, UnreadNat DEF KeysInv
    <2> QED BY <1>1, <2>2 DEF KeysInv, Queues
<1> QED BY <1>2 DEF EndUnread

LEMMA KeyHolds ==
    ASSUME KeysInv, Holds, NEW k \in Keys, Press(k) \/ Release(k) \/ Autorepeat(k)
    PROVE  Holds'
<1>1. UNCHANGED <<setup, pc, fd, ready, seen, helper, due, lag>>
    BY DEF Press, Release, Autorepeat, input, timing
<1>2. helper \in {"menu", "brightness"} => disturbed'
    BY DEF Press, Release, Autorepeat, history, Holds
<1>3. Chord(seen) /\ ~disturbed' => ~disturbed /\ holdFor' = holdFor
    BY DEF Press, Release, Autorepeat, history
<1>4. PICK value \in 0 .. 2 : Enqueue(k, value)
    BY DEF Press, Release, Autorepeat
<1>5. EndUnread => EndUnread'
    <2>1. CASE k \in Gamepad /\ fd["gamepad"] = "open"
        <3> PICK n \in Nat : n = Unread("gamepad")
            BY UnreadNat DEF KeysInv, Devices
        <3>1. Unread("gamepad")' = n + 1 /\ \A i \in 0 .. n : ChordAt(i)' <=> ChordAt(i)
            BY <1>1, <1>4, <2>1, ChordGrows DEF KeysInv
        <3>2. \A i \in 0 .. n : i \in 0 .. n + 1
            OBVIOUS
        <3> QED BY <1>1, <3>1, <3>2 DEF EndUnread
    <2>2. CASE ~(k \in Gamepad /\ fd["gamepad"] = "open")
        <3>1. queue'["gamepad"] = queue["gamepad"]
            BY <1>4, <2>2, EnqueueIs, DeviceIs DEF KeysInv, Devices
        <3> QED BY <1>1, <3>1, EndSame
    <2> QED BY <2>1, <2>2
<1>6. due["exit"] # 0 => Chord(seen)
    BY DEF KeysInv, Places
<1> QED BY <1>1, <1>2, <1>3, <1>5, <1>6, HoldTimeSame DEF Holds

LEMMA NodeHolds ==
    ASSUME KeysInv, Holds, NEW d \in Devices, Unplug(d) \/ Plug(d) PROVE Holds'
<1>1. UNCHANGED <<setup, pc, ready, seen, helper, due, lag, holdFor, disturbed>>
    BY DEF Unplug, Plug, input, timing, history
<1>2. EndUnread /\ due["exit"] # 0 => EndUnread'
    <2>1. CASE Unplug(d) /\ d = "gamepad"
        <3>1. fd'["gamepad"] = IF fd["gamepad"] = "open" THEN "dead" ELSE fd["gamepad"]
            BY <2>1 DEF Unplug, KeysInv, TypeOK
        <3>2. EndUnread /\ due["exit"] # 0 => fd'["gamepad"] = "dead"
            BY <3>1, EndWaits
        <3> QED BY <1>1, <3>2 DEF EndUnread
    <2>2. CASE ~(Unplug(d) /\ d = "gamepad")
        <3>1. queue'["gamepad"] = queue["gamepad"] /\ fd'["gamepad"] = fd["gamepad"]
            BY <2>2 DEF Unplug, Plug, input, KeysInv, TypeOK, Devices
        <3> QED BY <1>1, <3>1, EndSame
    <2> QED BY <2>1, <2>2
<1> QED BY <1>1, <1>2, HoldTimeSame DEF Holds

LEMMA PollHolds ==
    ASSUME KeysInv, Holds, PollReturns \/ PollTimesOut \/ Interrupted PROVE Holds'
<1>1. lag' = 0 /\ setup' = setup /\ Calm /\ pc' = "request" /\ helper = "none" /\ pc = "poll"
    BY CalmSteps DEF PollReturns, PollTimesOut, Interrupted, ReadClock, environment, Go, At
<1>2. CASE Interrupted
    BY <1>1, <1>2 DEF Interrupted, Holds
<1>3. CASE PollReturns
    <2>1. UNCHANGED <<helper, holdFor, disturbed>> /\ due' = Now /\ ready' = Readable
        BY <1>3 DEF PollReturns, Go, history, ReadClock
    <2>2. EndUnread /\ due["exit"] # 0 => EndUnread'
        <3>1. EndUnread /\ due["exit"] # 0 => "gamepad" \in ready'
            BY <2>1, EndWaits DEF Readable, Devices
        <3> QED BY <1>1, <3>1, ChordStays DEF EndUnread, Calm
    <2>3. due'["exit"] # 0 => due["exit"] # 0
        BY <2>1, NowIs DEF KeysInv, Timers
    <2> QED BY <1>1, <2>1, <2>2, <2>3, HoldTimeClock DEF Holds, KeysInv
<1>4. CASE PollTimesOut
    <2>1. UNCHANGED <<helper, disturbed>> /\ Readable = {}
          /\ due' = [t \in Timers |-> IF Now[t] > 1 THEN Now[t] - 1 ELSE Now[t]]
          /\ holdFor' = IF Chord(down) THEN Smaller(holdFor + 1, ExitHold) ELSE holdFor
        BY <1>4 DEF PollTimesOut, Go, HoldGrows
    <2>2. ASSUME ~disturbed, due'["exit"] # 0 PROVE HoldTime'
        <3>1. due["exit"] # 0
            BY <1>4, <2>2, ClockZero DEF KeysInv, Timers
        <3>2. ~EndUnread
            BY <2>1, <3>1, EndWaits DEF Readable, Devices
        <3>3. HoldTime
            BY <1>1, <2>2, <3>1, <3>2 DEF Holds
        <3>4. Chord(down)
            <4>1. Chord(seen) /\ "gamepad" \in Devices
                BY <3>1 DEF KeysInv, Places, Devices
            <4>2. fd["gamepad"] = "open" /\ Unread("gamepad") = 0
                BY <2>1, <4>1, UnreadNat DEF Readable, KeysInv, TypeOK, Queues, Chord, Gamepad
            <4> QED BY <4>1, <4>2, ChordNow, ChordDown DEF KeysInv
        <3>5. due'["exit"] = IF Now["exit"] > 1 THEN Now["exit"] - 1 ELSE Now["exit"]
            BY <2>1 DEF Timers
        <3>6. holdFor' = IF holdFor + 1 <= ExitHold THEN holdFor + 1 ELSE ExitHold
            BY <2>1, <3>4 DEF Smaller
        <3>7. ExitHold' = ExitHold
            BY <1>1 DEF ExitHold
        <3>8. holdFor >= ExitHold => holdFor' >= ExitHold
            BY <3>6, HoldTypes DEF KeysInv
        <3>9. CASE holdFor + due["exit"] >= ExitHold + 1 + lag
            <4>1. holdFor + Now["exit"] >= ExitHold + 1
                BY <3>1, <3>9, HoldTypes DEF KeysInv
            <4>2. holdFor' >= ExitHold \/ holdFor' + due'["exit"] >= ExitHold + 1
                BY <3>5, <3>6, <4>1, HoldTypes DEF KeysInv
            <4>3. ExitHold \in Nat
                BY HoldTypes DEF KeysInv
            <4> QED BY <1>1, <3>7, <4>2, <4>3 DEF HoldTime
        <3> QED BY <3>3, <3>7, <3>8, <3>9 DEF HoldTime
    <2> QED BY <1>1, <2>1, <2>2 DEF Holds
<1> QED BY <1>2, <1>3, <1>4

LEMMA LoopHolds ==
    ASSUME KeysInv, Holds, Top \/ Requested \/ NotRequested \/ MenuEnds \/ HelperRuns
    PROVE  Holds'
<1>1. CASE Top
    <2>1. /\ UNCHANGED <<setup, queue, seen, due, lag, holdFor, disturbed, ready>>
          /\ pc' \in {"poll", "flush"} /\ helper' = "none" /\ helper = "none"
        BY <1>1 DEF Top, Go, At, environment, timing, history
    <2>2. due["exit"] # 0 => fd'["gamepad"] = fd["gamepad"]
        <3>1. due["exit"] # 0 => fd["gamepad"] # "closed"
            BY DEF KeysInv, Places, Queues, Chord, Gamepad
        <3> QED BY <1>1, <3>1 DEF Top, Devices, KeysInv, TypeOK
    <2> QED BY <2>1, <2>2, EndSame, HoldTimeSame DEF Holds
<1>2. CASE Requested
    <2>1. disturbed' /\ helper' = "menu"
        BY <1>2 DEF Requested, Begin
    <2> QED BY <2>1 DEF Holds
<1>3. CASE NotRequested
    <2>1. /\ UNCHANGED <<setup, queue, fd, ready, seen, due, lag, holdFor, disturbed>>
          /\ helper' = "none" /\ helper = "none" /\ pc = "request" /\ pc' = FirstReady(ready)
        BY <1>3 DEF NotRequested, Go, At, environment, input, timing, history
    <2>2. EndUnread => pc' = "gamepad"
        BY <2>1, FirstReadyIs DEF EndUnread, KeysInv, TypeOK
    <2> QED BY <2>1, <2>2, EndSame, HoldTimeSame DEF Holds
<1>4. CASE MenuEnds
    <2>1. disturbed' = disturbed /\ disturbed /\ lag' = 0 /\ helper' = "none"
        BY <1>4 DEF MenuEnds, history, AfterMenu, Holds
    <2> QED BY <2>1 DEF Holds
<1>5. CASE HelperRuns
    <2>1. /\ UNCHANGED <<setup, down, queue, fd, seen, pc, ready, due, helper, disturbed>>
          /\ helper # "none" /\ lag' = Smaller(lag + 1, Longest)
          /\ holdFor' = IF Chord(down) THEN Smaller(holdFor + 1, ExitHold) ELSE holdFor
        BY <1>5 DEF HelperRuns, HoldGrows, environment, input
    <2>2. ASSUME ~disturbed, due["exit"] # 0, helper # "stop" PROVE HoldTime' \/ EndUnread'
        <3>1. pc \in {"persist", "flush"} /\ Chord(seen) /\ "gamepad" \in Devices
            BY <2>1, <2>2 DEF KeysInv, TypeOK, Places, Holds, Settings, Devices
        <3>2. CASE EndUnread
            BY <2>1, <3>2, EndSame
        <3>3. CASE HoldTime /\ Chord(down)
            <4>1. lag' \in Nat /\ lag' <= lag + 1
                <5>1. Longest \in Nat /\ lag \in Nat
                    BY LongestIs, HoldTypes DEF KeysInv, TypeOK
                <5> QED BY <2>1, <5>1 DEF Smaller
            <4>2. holdFor' = IF holdFor + 1 <= ExitHold THEN holdFor + 1 ELSE ExitHold
                BY <2>1, <3>3 DEF Smaller
            <4>3. ExitHold' = ExitHold /\ due' = due
                BY <2>1 DEF ExitHold
            <4> QED BY <3>3, <4>1, <4>2, <4>3, HoldTypes DEF HoldTime, KeysInv
        <3>4. CASE ~Chord(down)
            <4>1. fd["gamepad"] # "closed"
                BY <3>1 DEF KeysInv, Queues, Chord, Gamepad
            <4>2. fd["gamepad"] = "open" => ~ChordAt(Unread("gamepad"))
                BY <3>4, ChordDown DEF KeysInv
            <4>3. Unread("gamepad") \in 0 .. Unread("gamepad")
                BY <3>1, UnreadNat DEF KeysInv
            <4>4. EndUnread
                BY <3>1, <4>1, <4>2, <4>3 DEF EndUnread, KeysInv, TypeOK
            <4> QED BY <2>1, <4>4, EndSame
        <3> QED BY <2>2, <3>2, <3>3, <3>4 DEF Holds
    <2> QED BY <2>1, <2>2 DEF Holds
<1> QED BY <1>1, <1>2, <1>3, <1>4, <1>5

\* After the gamepad is read, nothing of the hold is unread up to the timer.
LEMMA AfterGamepad ==
    ASSUME Holds, pc \in {"volume", "power", "exit"}, ~disturbed, due["exit"] # 0, helper # "stop"
    PROVE  HoldTime
BY DEF Holds, EndUnread

LEMMA ReadHolds ==
    ASSUME KeysInv, Holds,
           \/ \E d \in Devices : Drained(d) \/ Close(d)
           \/ ReadGamepad \/ ReadVolume \/ BrightnessEnds \/ ReadPower
    PROVE  Holds'
<1>1. ASSUME NEW d \in Devices, Drained(d) \/ Close(d) PROVE Holds'
    <2>1. /\ helper = "none" /\ helper' = "none" /\ pc = d /\ pc' \in {"volume", "power", "exit"}
          /\ UNCHANGED <<setup, lag, holdFor, disturbed>>
        BY <1>1, AfterIs DEF Drained, Close, Go, At, environment, timing, history, KeysInv
    <2>2. due'["exit"] # 0 => due'["exit"] = due["exit"]
        BY <1>1 DEF Drained, Close, timing, KeysInv, TypeOK, Timers
    <2>3. ASSUME ~disturbed, due'["exit"] # 0 PROVE HoldTime
        <3>1. CASE d = "gamepad"
            <4>1. due'["exit"] # 0 => Drained(d)
                BY <1>1, <3>1 DEF Close, KeysInv, TypeOK, Timers
            <4>2. fd["gamepad"] # "dead" /\ queue["gamepad"] = <<>>
                BY <2>3, <3>1, <4>1 DEF Drained
            <4> QED BY <2>1, <2>2, <2>3, <4>2, EndWaits DEF Holds
        <3>2. CASE d # "gamepad"
            BY <2>1, <2>2, <2>3, <3>2, AfterGamepad DEF Devices
        <3> QED BY <3>1, <3>2
    <2> QED BY <2>1, <2>2, <2>3, HoldTimeSame DEF Holds
<1>2. CASE ReadGamepad
    <2>1. /\ UNCHANGED <<setup, fd, pc, lag, helper, holdFor, disturbed>>
          /\ helper = "none" /\ pc = "gamepad" /\ fd["gamepad"] = "open"
        BY <1>2 DEF ReadGamepad, Reads, At, history
    <2>2. lag = 0
        BY <2>1 DEF Holds
    <2>3. ASSUME ~disturbed, due["exit"] # 0, due'["exit"] # 0 PROVE HoldTime' \/ EndUnread'
        <3>1. due'["exit"] = due["exit"]
            BY <1>2, <2>3 DEF ReadGamepad, KeysInv, TypeOK, Timers
        <3>2. CASE HoldTime
            BY <2>1, <3>1, <3>2, HoldTimeSame
        <3>3. CASE EndUnread
            <4> PICK n \in Nat : n = Unread("gamepad")
                BY UnreadNat DEF KeysInv, Devices
            <4>1. PICK i \in 0 .. n : ~ChordAt(i)
                BY <2>1, <3>3 DEF EndUnread
            <4>2. i # 0
                BY <2>3, <4>1, ChordNow DEF KeysInv, Places
            <4>3. i - 1 \in 0 .. n - 1 /\ (i - 1) + 1 = i
                BY <4>1, <4>2
            <4>4. Unread("gamepad")' = n - 1 /\ ~ChordAt(i - 1)'
                BY <1>2, <4>1, <4>3, ChordReads DEF KeysInv
            <4> QED BY <2>1, <4>3, <4>4 DEF EndUnread
        <3> QED BY <2>1, <2>3, <3>2, <3>3 DEF Holds
    <2>4. ASSUME due["exit"] = 0, due'["exit"] # 0 PROVE HoldTime'
        <3>1. due'["exit"] = ExitHold + 1
            BY <1>2, <2>4 DEF ReadGamepad, In, KeysInv, TypeOK, Timers
        <3>2. ExitHold' = ExitHold
            BY <2>1 DEF ExitHold
        <3> QED BY <2>1, <2>2, <3>1, <3>2, HoldTypes DEF HoldTime, KeysInv
    <2> QED BY <2>1, <2>2, <2>3, <2>4 DEF Holds
<1>3. CASE ReadVolume
    <2>1. pc = "volume" /\ helper = "none" /\ pc' = "volume" /\ UNCHANGED <<setup, lag, holdFor>>
        BY <1>3 DEF ReadVolume, Reads, At, Apply, Begin, Go, timing, history
    <2>2. \/ helper' = "brightness" /\ disturbed'
          \/ helper' = "none" /\ disturbed' = disturbed
        BY <1>3, <2>1 DEF ReadVolume, Apply, Begin, Go, history
    <2>3. due'["exit"] = due["exit"]
        BY <1>3, LevelChangesKeeps DEF ReadVolume, Apply, timing, KeysInv, TypeOK, Timers
    <2> QED BY <2>1, <2>2, <2>3, AfterGamepad, HoldTimeSame DEF Holds
<1>4. CASE BrightnessEnds
    <2>1. disturbed' = disturbed /\ disturbed /\ helper' = "none"
        BY <1>4 DEF BrightnessEnds, history, Holds
    <2>2. pc' \notin {"request", "gamepad"}
        BY <1>4, ToIs DEF BrightnessEnds, KeysInv, Places
    <2> QED BY <2>1, <2>2 DEF Holds
<1>5. CASE ReadPower
    <2>1. pc = "power" /\ helper = "none" /\ pc' = "power" /\ UNCHANGED <<setup, holdFor>>
        BY <1>5 DEF ReadPower, Reads, At, OpenPowerMenu, Begin, history
    <2>2. \/ helper' = "menu" /\ disturbed'
          \/ helper' = "none" /\ disturbed' = disturbed /\ UNCHANGED <<due, lag>>
          \/ helper' = "none" /\ disturbed' = disturbed /\ due'["exit"] = Now["exit"] /\ lag' = 0
        BY <1>5, <2>1 DEF ReadPower, OpenPowerMenu, Begin, AfterMenu, timing, history, Now, Timers
    <2>3. due'["exit"] = Now["exit"] /\ due'["exit"] # 0 => due["exit"] # 0
        BY NowIs DEF KeysInv, Timers
    <2> QED BY <2>1, <2>2, <2>3, AfterGamepad, HoldTimeSame, HoldTimeClock DEF Holds, KeysInv
<1> QED BY <1>1, <1>2, <1>3, <1>4, <1>5

LEMMA TimerHolds ==
    ASSUME KeysInv, Holds,
           \/ CheckExit \/ StopEnds \/ RepeatKey \/ Persist \/ Flush
           \/ \E s \in Settings : Saved(s) \/ SaveFails(s)
    PROVE  Holds'
<1>1. CASE CheckExit
    <2>1. pc = "exit" /\ helper = "none" /\ due' = Now /\ lag' = 0 /\ UNCHANGED <<setup, holdFor>>
        BY <1>1 DEF CheckExit, At, ReadClock, environment, history
    <2>2. \/ helper' = "stop" /\ pc' = "exit"
          \/ helper' = "none" /\ disturbed' = disturbed /\ pc' = ToRepeat
        BY <1>1, <2>1 DEF CheckExit, Begin, Go, history
    <2>3. due'["exit"] # 0 => due["exit"] # 0
        BY <2>1, NowIs DEF KeysInv, Timers
    <2> QED BY <2>1, <2>2, <2>3, ToIs, AfterGamepad, HoldTimeClock DEF Holds, KeysInv
<1>2. CASE StopEnds
    <2>1. helper' = "none" /\ pc' = ToRepeat /\ due'["exit"] = 0
        BY <1>2 DEF StopEnds, KeysInv, TypeOK, Timers
    <2> QED BY <2>1, ToIs DEF Holds
<1>3. CASE RepeatKey \/ Persist \/ Flush \/ \E s \in Settings : Saved(s) \/ SaveFails(s)
    <2>1. Calm /\ UNCHANGED <<setup, lag, holdFor>> /\ helper # "stop"
        BY <1>3, CalmSteps DEF RepeatKey, Persist, Flush, Saved, SaveFails, AfterSave, Apply, Begin,
               environment, timing, history, At, Settings
    <2>2. due'["exit"] = due["exit"]
        BY <1>3, LevelChangesKeeps
           DEF RepeatKey, Persist, Flush, Saved, SaveFails, AfterSave, Apply, timing, KeysInv, TypeOK, Timers
    <2>3. pc' \in {"repeat", "persist", "top", "flush", "stopped"}
        <3>1. pc \in {"repeat", "persist", "flush"}
            BY <1>3 DEF RepeatKey, Persist, Flush, Saved, SaveFails, At, KeysInv, Places
        <3> QED BY <1>3, <3>1, ToIs DEF RepeatKey, Persist, Flush, Saved, SaveFails, AfterSave, Apply, Begin, Go
    <2>4. \/ helper' = "brightness" /\ disturbed'
          \/ helper' \notin {"menu", "brightness"} /\ disturbed' = disturbed
        <3>1. CASE RepeatKey
            BY <3>1 DEF RepeatKey, At, Apply, Begin, Go, history
        <3>2. CASE Persist \/ Flush
            BY <3>2 DEF Persist, Flush, At, Begin, Go, FirstSave, history, KeysInv, TypeOK
        <3>3. CASE \E s \in Settings : Saved(s) \/ SaveFails(s)
            BY <3>3 DEF Saved, SaveFails, AfterSave, history
        <3> QED BY <1>3, <3>1, <3>2, <3>3
    <2>5. EndUnread => EndUnread'
        BY <2>1, <2>3, EndSame DEF Calm
    <2> QED BY <2>1, <2>2, <2>3, <2>4, <2>5, HoldTimeSame DEF Holds
<1> QED BY <1>1, <1>2, <1>3

LEMMA HoldsNext == ASSUME KeysInv, Holds, [Next]_vars PROVE Holds'
<1>1. CASE UNCHANGED vars
    <2>1. UNCHANGED <<setup, queue, pc, fd, ready, seen, due, lag, helper, holdFor, disturbed>>
        BY <1>1 DEF vars
    <2> QED BY <2>1, EndSame, HoldTimeSame DEF Holds
<1>2. CASE Next
    BY <1>1, <1>2, KeyHolds, NodeHolds, PollHolds, LoopHolds, ReadHolds, TimerHolds
       DEF Next, Daemon, Save, Ended
<1> QED BY <1>1, <1>2

(* One hold of Select + Start stops a port once, and unless the menu or a  *)
(* brightness change kept the loop waiting, no port is stopped before they *)
(* were held together for PORTMASTER_EXIT_HOLD_MS.                         *)
THEOREM PortStopsOnce == Spec => OneStopPerHold
<1>1. Init => HoldInv
    <2> SUFFICES ASSUME Init PROVE HoldInv
        OBVIOUS
    <2> QED BY DEF Init, HoldInv, Spent, Holds, Timers
<1>2. KeysInv /\ HoldInv /\ [Next]_vars => HoldInv'
    BY SpentNext, HoldsNext DEF HoldInv
<1>3. KeysInv /\ HoldInv /\ [Next]_vars
          => [StopsPort => ~spent /\ (disturbed \/ holdFor >= ExitHold)]_vars
    <2> SUFFICES ASSUME KeysInv, HoldInv, Next, StopsPort
                 PROVE  ~spent /\ (disturbed \/ holdFor >= ExitHold)
        OBVIOUS
    <2>1. CheckExit
        BY DEF StopsPort, Next, Press, Release, Autorepeat, Unplug, Plug, Interrupted, Requested,
               HelperRuns, Daemon, Ended, Top, PollReturns, PollTimesOut, NotRequested, MenuEnds,
               Drained, Close, ReadGamepad, ReadVolume, BrightnessEnds, ReadPower, OpenPowerMenu,
               StopEnds, RepeatKey, Persist, Flush, FirstSave, Save, Saved, SaveFails, AfterSave,
               Apply, Reads, At, Go, Begin, vars
    <2>2. ~latched /\ Now["exit"] = 1 /\ pc = "exit" /\ helper = "none"
        BY <2>1 DEF CheckExit, At, Go, Reached, StopsPort
    <2>3. ~spent /\ due["exit"] # 0
        BY <2>1, <2>2, StopIsFirst DEF HoldInv, Reached
    <2>4. ASSUME ~disturbed PROVE holdFor >= ExitHold
        <3>1. HoldTime
            BY <2>2, <2>3, <2>4, AfterGamepad DEF HoldInv
        <3>2. 1 + lag >= due["exit"]
            BY <2>2, <2>3, HoldTypes DEF KeysInv
        <3> QED BY <3>1, <3>2, HoldTypes DEF HoldTime, KeysInv
    <2> QED BY <2>3, <2>4
<1> QED BY <1>1, <1>2, <1>3, KeysInvariant, PTL DEF Spec, OneStopPerHold
=============================================================================
