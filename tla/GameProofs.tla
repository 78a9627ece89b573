------------------------------ MODULE GameProofs -----------------------------
(***************************************************************************)
(* Proofs about GameLaunch with DeviceSettings, and about RomBrowser: for  *)
(* any games, profiles, levels, limits and number of launches, keys and    *)
(* power losses; for any ROMs, directories, orders of the titles, size of  *)
(* the cursor memory and number of changes of the card and the files.      *)
(***************************************************************************)
EXTENDS GameLaunch, RomBrowser, FiniteSetTheorems, SequenceTheorems, WellFoundedInduction, TLAPS

\* ----------------------------- settings.json -----------------------------

\* a whole settings file, its switch on or off
Content == {f \in [Keys -> Nat] : f["other"] \in {0, 1}}

\* what the settings screen and a helper hold in their hands
Saving == {Idle} \cup [step : {"copied"}, key : Keys, value : Nat, copy : Content]
                \cup [step : {"saved"}, key : Keys]
Helpers == {Idle} \cup [step : {"read"}, kind : Kinds, level : Nat]
                  \cup [step : {"copied"}, kind : Kinds, level : Nat, copy : Content]
                  \cup [step : {"replaced"}, kind : Kinds, level : Nat]

\* Every file on the card, and every copy that may become one, is whole.
WholeFiles ==
    /\ file \in Content /\ versions \subseteq Content /\ device \in Content
    /\ runtime \in [Kinds -> Nat \cup {NoValue}]
    /\ saving \in Saving
    /\ saving.step = "copied" /\ saving.key = "other" => saving.value \in {0, 1}
    /\ helper \in [Writers -> Helpers]

\* -------------------------- launches and recents --------------------------

Entry == [game : Games, profile : Profiles]

Types ==
    /\ listed \subseteq Profiles
    /\ recents \in Seq(Entry) /\ Len(recents) <= MaxRecents
    /\ saves \in Seq(Games)
    /\ step = "recents" => [game |-> launch.game, profile |-> launch.profile] \in Entry

IsHead == recents # <<>> /\ recents[1].game = launch.game

\* From the save of the recent list to the end of the game its head is the
\* game that is launched; boot resume takes it from there.
Launching ==
    /\ step \in {"session", "start", "playing"} =>
          IsHead /\ recents[1].profile = launch.profile
    /\ step \in {"resume", "resumed"} =>
          IsHead /\ (recents[1].profile \in listed => recents[1].profile = launch.profile)
    /\ running # NoLaunch => step \in {"playing", "resumed"} /\ running = launch

\* the last save of game g
LastAt(g, m) ==
    /\ m \in 1 .. Len(saves) /\ saves[m] = g
    /\ \A j \in 1 .. Len(saves) : j > m => saves[j] # g

Saved(g) == \E m \in 1 .. Len(saves) : saves[m] = g

Among(g, i) == \E j \in 1 .. i : recents[j].game = g

Distinct == \A i, j \in 1 .. Len(recents) : recents[i].game = recents[j].game => i = j

Ordered ==
    /\ Distinct
    /\ \A g \in Games : Saved(g) => \E m \in 1 .. Len(saves) : LastAt(g, m)
    /\ \A i \in 1 .. Len(recents) : Saved(recents[i].game)
    /\ \A i \in 1 .. Len(recents), g \in Games, m, n \in 1 .. Len(saves) :
          LastAt(recents[i].game, m) /\ LastAt(g, n) /\ ~Among(g, i) => m > n
    /\ Len(recents) < MaxRecents => \A g \in Games : Saved(g) => Among(g, Len(recents))

Inv == WholeFiles /\ Types /\ Launching /\ Ordered

-----------------------------------------------------------------------------
LEMMA ClampNat ==
    ASSUME NEW k \in Kinds, NEW v \in Int PROVE Clamp(k, v) \in Nat
BY LevelsAssumption DEF Clamp

LEMMA LevelNat ==
    ASSUME WholeFiles, NEW k \in Kinds PROVE Level(k) \in Nat
BY DEF WholeFiles, Level, Content, Keys, NoValue

LEMMA DeviceInitWhole == DeviceInit => WholeFiles
<1> SUFFICES ASSUME DeviceInit PROVE WholeFiles
    OBVIOUS
<1>1. file \in Content
    BY LevelsAssumption DEF DeviceInit, Content, Keys, Kinds
<1>2. runtime \in [Kinds -> Nat \cup {NoValue}]
    BY <1>1 DEF DeviceInit, Content, Keys, Kinds
<1> QED BY <1>1, <1>2 DEF DeviceInit, WholeFiles, Saving, Helpers, Idle

LEMMA PressWhole ==
    ASSUME WholeFiles, NEW k \in Kinds, NEW d \in {1, -1}, Press(k, d) PROVE WholeFiles'
<1>1. Clamp(k, Level(k) + d) \in Nat
    BY LevelNat, ClampNat
<1>2. runtime' \in [Kinds -> Nat \cup {NoValue}]
    BY <1>1 DEF Press, WholeFiles
<1> QED BY <1>2 DEF Press, WholeFiles

LEMMA EditedWhole ==
    ASSUME WholeFiles, NEW k \in Kinds, NEW level \in Nat PROVE Edited(k, level) \in Content
BY DEF WholeFiles, Edited, Content, Keys, Kinds, NoValue

LEMMA HelperReadsWhole ==
    ASSUME WholeFiles, NEW w \in Writers, NEW k \in Kinds, HelperReads(w, k) PROVE WholeFiles'
<1>1. helper' \in [Writers -> Helpers]
    BY LevelNat DEF HelperReads, WholeFiles, Helpers
<1> QED BY <1>1 DEF HelperReads, WholeFiles

LEMMA HelperWhole ==
    ASSUME WholeFiles, NEW w \in Writers, Helper(w) PROVE WholeFiles'
<1>1. helper[w] \in Helpers
    BY DEF WholeFiles
<1>2. CASE HelperCopies(w)
    <2>1. helper[w].kind \in Kinds /\ helper[w].level \in Nat
        BY <1>1, <1>2 DEF HelperCopies, Helpers, Idle
    <2>2. helper' \in [Writers -> Helpers]
        BY <1>2, <2>1, EditedWhole DEF HelperCopies, WholeFiles, Helpers
    <2> QED BY <1>2, <2>2 DEF HelperCopies, WholeFiles
<1>3. CASE HelperReplaces(w)
    <2>1. helper[w].kind \in Kinds /\ helper[w].level \in Nat /\ helper[w].copy \in Content
        BY <1>1, <1>3 DEF HelperReplaces, Helpers, Idle
    <2>2. helper' \in [Writers -> Helpers]
        BY <1>3, <2>1 DEF HelperReplaces, WholeFiles, Helpers
    <2> QED BY <1>3, <2>1, <2>2 DEF HelperReplaces, WholeFiles
<1>4. CASE HelperWritesBack(w)
    <2>1. helper[w].kind \in Kinds /\ helper[w].level \in Nat
        BY <1>1, <1>4 DEF HelperWritesBack, Helpers, Idle
    <2>2. helper' \in [Writers -> Helpers]
        BY <1>4 DEF HelperWritesBack, WholeFiles, Helpers
    <2>3. runtime' \in [Kinds -> Nat \cup {NoValue}]
        BY <1>4, <2>1 DEF HelperWritesBack, WholeFiles
    <2> QED BY <1>4, <2>2, <2>3 DEF HelperWritesBack, WholeFiles
<1>5. CASE HelperFails(w)
    BY <1>5 DEF HelperFails, WholeFiles, Helpers
<1> QED BY <1>2, <1>3, <1>4, <1>5 DEF Helper

LEMMA SaveBeginsWhole ==
    ASSUME WholeFiles, NEW k \in Keys, NEW d \in {1, -1}, SaveBegins(k, d) PROVE WholeFiles'
<1> DEFINE value == IF k \in Kinds THEN NextLevel(k, d) ELSE NextChoice(k)
<1>1. value \in Nat /\ (k = "other" => value \in {0, 1})
    <2>1. CASE k \in Kinds
        <3>1. device[k] + d \in Int
            BY <2>1 DEF WholeFiles, Content, Keys
        <3> QED BY <2>1, <3>1, ClampNat DEF NextLevel, Kinds
    <2>2. CASE k = "other"
        BY <2>2 DEF WholeFiles, Content, NextChoice, Kinds
    <2> QED BY <2>1, <2>2 DEF Keys
<1>2. [file EXCEPT ![k] = value] \in Content
    BY <1>1 DEF WholeFiles, Content, Keys
<1>3. saving' = [step |-> "copied", key |-> k, value |-> value, copy |-> [file EXCEPT ![k] = value]]
    BY DEF SaveBegins
<1>4. saving' \in Saving /\ (saving'.key = "other" => saving'.value \in {0, 1})
    BY <1>1, <1>2, <1>3 DEF Saving
<1> QED BY <1>4 DEF SaveBegins, WholeFiles

LEMMA ScreenWhole ==
    ASSUME WholeFiles, SaveReplaces \/ SaveApplies \/ SaveFails \/ Reload \/ ApplyBrightness
    PROVE  WholeFiles'
<1>1. CASE SaveReplaces
    <2>1. saving.key \in Keys /\ saving.value \in Nat /\ saving.copy \in Content
          /\ (saving.key = "other" => saving.value \in {0, 1})
        BY <1>1 DEF SaveReplaces, WholeFiles, Saving, Idle
    <2>2. device' \in Content
        BY <1>1, <2>1 DEF SaveReplaces, WholeFiles, Content, Keys
    <2>3. saving' \in Saving /\ saving'.step = "saved"
        BY <1>1, <2>1 DEF SaveReplaces, Saving
    <2> QED BY <1>1, <2>1, <2>2, <2>3 DEF SaveReplaces, WholeFiles
<1>2. CASE SaveApplies
    <2>1. runtime' \in [Kinds -> Nat \cup {NoValue}]
        BY <1>2 DEF SaveApplies, VolumeApplied, WholeFiles, Content, Kinds, Keys
    <2> QED BY <1>2, <2>1 DEF SaveApplies, WholeFiles, Saving, Idle
<1>3. CASE SaveFails
    BY <1>3 DEF SaveFails, WholeFiles, Saving, Idle
<1>4. CASE Reload
    BY <1>4 DEF Reload, WholeFiles
<1>5. CASE ApplyBrightness
    BY <1>5 DEF ApplyBrightness, WholeFiles
<1> QED BY <1>1, <1>2, <1>3, <1>4, <1>5

LEMMA RestartWhole ==
    ASSUME WholeFiles, NEW saved \in versions, RestartWith(saved) PROVE WholeFiles'
<1>1. saved \in Content
    BY DEF WholeFiles
<1>2. runtime' \in [Kinds -> Nat \cup {NoValue}]
    BY <1>1 DEF RestartWith, Content, Keys, Kinds
<1> QED BY <1>1, <1>2 DEF RestartWith, WholeFiles, Saving, Helpers, Idle

LEMMA UnchangedWhole == ASSUME WholeFiles, UNCHANGED settings PROVE WholeFiles'
BY DEF WholeFiles, settings

\* Every step of the system is one of these for settings.json.
LEMMA NextWhole == ASSUME WholeFiles, [Next]_vars PROVE WholeFiles'
<1>1. CASE UNCHANGED vars
    BY <1>1, UnchangedWhole DEF vars, settings
<1>2. CASE Launch
    <2>1. CASE Stop
        BY <2>1, HelperReadsWhole DEF Stop, Writers, Kinds
    <2>2. CASE Return
        BY <2>2, ScreenWhole DEF Return
    <2>3. ASSUME NEW g, NEW p, Begin(g, p) PROVE WholeFiles'
        BY <2>3, UnchangedWhole DEF Begin
    <2> QED BY <1>2, <2>1, <2>2, <2>3, UnchangedWhole
            DEF Launch, LaunchGame, LaunchRecent, SaveRecents, SaveSession, SaveDenied, Start, ClearSession
<1>3. CASE User
    <2>1. ASSUME NEW t, NEW f, NEW v, Choose(t, f, v) PROVE WholeFiles'
        BY <2>1, UnchangedWhole DEF Choose
    <2>2. ASSUME NEW k \in Keys, NEW d \in {1, -1}, ChangeSetting(k, d) PROVE WholeFiles'
        BY <2>2, SaveBeginsWhole DEF ChangeSetting
    <2> QED BY <1>3, <2>1, <2>2 DEF User, ChooseProfile, ChoosePolicy, ChooseOption
<1>4. CASE Screen
    BY <1>4, ScreenWhole DEF Screen
<1>5. CASE Daemon
    BY <1>5, PressWhole, HelperReadsWhole, HelperWhole DEF Daemon, Writers
<1>6. CASE VolumeSave
    BY <1>6, HelperWhole DEF VolumeSave, Writers
<1>7. CASE PowerCut
    BY <1>7, RestartWhole DEF PowerCut
<1>8. CASE Boot
    BY <1>8, UnchangedWhole DEF Boot
<1>9. CASE Restore
    BY <1>9, ScreenWhole DEF Restore
<1> QED BY <1>1, <1>2, <1>3, <1>4, <1>5, <1>6, <1>7, <1>8, <1>9 DEF Next

(* No file of the settings, on the card now or after a power loss, lacks   *)
(* one of them, whatever the key daemon, the launcher and the settings     *)
(* screen save and in whatever order.                                      *)
THEOREM SettingsKept == Spec => []KeysKept
<1>1. Init => WholeFiles
    BY DeviceInitWhole DEF Init
<1>2. WholeFiles /\ [Next]_vars => WholeFiles'
    BY NextWhole
<1>3. WholeFiles => KeysKept
    BY DEF WholeFiles, Content, KeysKept, NoValue
<1> QED BY <1>1, <1>2, <1>3, PTL DEF Spec

-----------------------------------------------------------------------------
LEMMA ListingsTypes == \A l \in Listings : l \subseteq Profiles
BY LaunchAssumption DEF Listings, Listing

LEMMA MinOfOne == ASSUME NEW S, NEW k \in Int, S = {k} PROVE Min(S) = k
BY DEF Min

LEMMA OneMore ==
    ASSUME NEW len \in Nat, NEW max \in Nat \ {0}, len <= max
    PROVE  LET n == IF len < max THEN len + 1 ELSE len
           IN n \in 1 .. max /\ len <= n /\ n <= len + 1 /\ (n <= len => n = max)
OBVIOUS

LEMMA FunctionIsSeq ==
    ASSUME NEW S, NEW n \in Nat, NEW s \in [1 .. n -> S] PROVE s \in Seq(S) /\ Len(s) = n
OBVIOUS

\* What Added does to a list in which every game is there once: the place
\* `at` of the game is taken out, and what was before it moves one on.
MovedToHead(before, new, at, e) ==
    /\ new \in Seq(Entry) /\ Len(new) = Size(before, e.game)
    /\ Len(new) \in 1 .. MaxRecents /\ at \in 1 .. Len(new)
    /\ Len(before) <= Len(new) /\ Len(new) <= Len(before) + 1
    /\ new[1] = e
    /\ \A i \in 2 .. Len(new) : new[i] = IF i <= at THEN before[i - 1] ELSE before[i]
    /\ \A i \in 1 .. Len(before) : before[i].game = e.game => i = at
    /\ Len(new) > Len(before) => at = Len(new)
    /\ at <= Len(before) => before[at].game = e.game \/ (at = MaxRecents /\ Found(before, e.game) = {})

LEMMA AddedList ==
    ASSUME NEW before \in Seq(Entry), Len(before) <= MaxRecents,
           \A i, j \in 1 .. Len(before) : before[i].game = before[j].game => i = j,
           NEW e \in Entry
    PROVE  MovedToHead(before, Added(before, e), Position(before, e.game), e)
<1> DEFINE n == Size(before, e.game)
           at == Position(before, e.game)
           new == Added(before, e)
<1>1. Len(before) \in Nat /\ MaxRecents \in Nat \ {0} /\ DOMAIN before = 1 .. Len(before)
    BY LaunchAssumption
<1>2. /\ n \in 1 .. MaxRecents /\ at \in 1 .. n /\ Len(before) <= n /\ n <= Len(before) + 1
      /\ \A i \in 1 .. Len(before) : before[i].game = e.game => i = at
      /\ n > Len(before) => at = n
      /\ at <= Len(before) => before[at].game = e.game \/ (at = MaxRecents /\ Found(before, e.game) = {})
    <2>1. CASE Found(before, e.game) = {}
        <3>1. \A i \in 1 .. Len(before) : before[i].game # e.game
            BY <1>1, <2>1 DEF Found
        <3>2. n = IF Len(before) < MaxRecents THEN Len(before) + 1 ELSE Len(before)
            BY <2>1 DEF Size
        <3>3. at = n
            BY <2>1 DEF Position
        <3> HIDE DEF n, at
        <3>4. n \in 1 .. MaxRecents /\ Len(before) <= n /\ n <= Len(before) + 1 /\ (n <= Len(before) => n = MaxRecents)
            BY <1>1, <3>2, OneMore
        <3> QED BY <1>1, <2>1, <3>1, <3>3, <3>4
    <2>2. CASE Found(before, e.game) # {}
        <3>1. PICK k \in 1 .. Len(before) : before[k].game = e.game
            BY <1>1, <2>2 DEF Found
        <3>2. Found(before, e.game) = {k}
            BY <1>1, <3>1 DEF Found
        <3>3. at = Min(Found(before, e.game))
            BY <2>2 DEF Position
        <3>4. at = k
            BY <1>1, <3>2, <3>3, MinOfOne
        <3>5. n = Len(before)
            BY <2>2 DEF Size
        <3> HIDE DEF n, at
        <3>6. \A i \in 1 .. Len(before) : before[i].game = e.game => i = k
            BY <3>1, Zenon
        <3>7. /\ n \in 1 .. MaxRecents /\ k \in 1 .. n /\ Len(before) <= n /\ n <= Len(before) + 1
              /\ ~(n > Len(before)) /\ before[k].game = e.game
            BY <1>1, <3>1, <3>5
        <3> QED BY <3>4, <3>6, <3>7
    <2> QED BY <2>1, <2>2
<1>3. new = [i \in 1 .. n |-> IF i = 1 THEN e ELSE IF i <= at THEN before[i - 1] ELSE before[i]]
    BY DEF Added
<1> HIDE DEF n, at, new
<1>4. \A i \in 2 .. n : (i <= at => i - 1 \in 1 .. Len(before)) /\ (i > at => i \in 1 .. Len(before))
    BY <1>1, <1>2
<1>5. \A i \in 1 .. Len(before) : before[i] \in Entry
    BY <1>1
<1>6. new \in [1 .. n -> Entry]
    <2>1. SUFFICES ASSUME NEW i \in 1 .. n
                   PROVE  (IF i = 1 THEN e ELSE IF i <= at THEN before[i - 1] ELSE before[i]) \in Entry
        BY <1>3
    <2>2. CASE i = 1
        BY <2>2
    <2>3. CASE i # 1
        <3>1. i \in 2 .. n
            BY <1>2, <2>3
        <3> QED BY <1>2, <1>4, <1>5, <2>3, <3>1
    <2> QED BY <2>2, <2>3
<1>7. new \in Seq(Entry) /\ Len(new) = n
    BY <1>2, <1>6, FunctionIsSeq
<1>8. MovedToHead(before, new, at, e)
    BY <1>2, <1>3, <1>7 DEF MovedToHead, n, at
<1> QED BY <1>8 DEF at, new

LEMMA InitInv == Init => Types /\ Launching /\ Ordered
<1> SUFFICES ASSUME Init PROVE Types /\ Launching /\ Ordered
    OBVIOUS
<1>1. recents = <<>> /\ saves = <<>> /\ step = "idle" /\ running = NoLaunch /\ listed \in Listings
    BY DEF Init
<1>2. Types
    BY <1>1, ListingsTypes, LaunchAssumption DEF Types
<1>3. Launching
    BY <1>1 DEF Launching
<1>4. Ordered
    BY <1>1, LaunchAssumption DEF Ordered, Distinct, Saved
<1> QED BY <1>2, <1>3, <1>4

\* The histories do not change where the lists do not.
LEMMA OrderedStays ==
    ASSUME Ordered, UNCHANGED <<recents, saves>> PROVE Ordered'
<1>1. recents' = recents /\ saves' = saves
    OBVIOUS
<1>2. \A g : Saved(g)' <=> Saved(g)
    BY <1>1 DEF Saved
<1>3. \A g, m : LastAt(g, m)' <=> LastAt(g, m)
    BY <1>1 DEF LastAt
<1>4. \A g, i : Among(g, i)' <=> Among(g, i)
    BY <1>1 DEF Among
<1>5. Distinct'
    BY <1>1 DEF Ordered, Distinct
<1> QED BY <1>1, <1>2, <1>3, <1>4, <1>5, ZenonT(30) DEF Ordered

LEMMA BeginInv ==
    ASSUME NEW g, NEW p, Types, Launching, Ordered, Begin(g, p)
    PROVE  Types' /\ Launching' /\ Ordered'
<1>1. UNCHANGED <<listed, recents, saves, running>> /\ step = "idle"
    BY DEF Begin
<1>2. Ordered'
    BY <1>1, OrderedStays
<1>3. CASE UNCHANGED <<step, launch>>
    BY <1>1, <1>2, <1>3 DEF Types, Launching, IsHead
<1>4. CASE InCache(g) /\ IsListed(p) /\ step' = "recents" /\ launch' = Plan(g, p)
    <2>1. [game |-> launch'.game, profile |-> launch'.profile] \in Entry
        BY <1>4 DEF Types, InCache, Entries, IsListed, Plan, Entry
    <2> QED BY <1>1, <1>2, <1>4, <2>1 DEF Types, Launching
<1> QED BY <1>3, <1>4 DEF Begin

LEMMA SaveRecentsTypes ==
    ASSUME Types, Launching, Ordered, SaveRecents
    PROVE  Types' /\ Launching'
<1> DEFINE e == [game |-> launch.game, profile |-> launch.profile]
<1>1. e \in Entry /\ recents' = Added(recents, e) /\ saves' = Append(saves, launch.game)
    BY DEF SaveRecents, Types
<1> HIDE DEF e
<1>2. recents' \in Seq(Entry) /\ Len(recents') \in 1 .. MaxRecents /\ recents'[1] = e
    <2>1. /\ recents \in Seq(Entry) /\ Len(recents) <= MaxRecents
          /\ \A i, j \in 1 .. Len(recents) : recents[i].game = recents[j].game => i = j
        BY Zenon DEF Types, Ordered, Distinct
    <2> QED BY <1>1, <2>1, AddedList DEF MovedToHead
<1>3. Types'
    BY <1>1, <1>2, LaunchAssumption DEF SaveRecents, Types, Entry, e
<1>4. Launching'
    BY <1>2 DEF e, SaveRecents, Launching, IsHead
<1> QED BY <1>3, <1>4

\* What one more save, of game h, does to the history.
LEMMA SavesGrow ==
    ASSUME Types, SaveRecents, NEW h, h = launch.game
    PROVE  /\ Len(saves) \in Nat /\ Len(saves') = Len(saves) + 1
           /\ LastAt(h, Len(saves))' /\ Saved(h)'
           /\ \A m \in 1 .. Len(saves') : LastAt(h, m)' => m = Len(saves')
           /\ \A g : g # h =>
                 /\ Saved(g)' <=> Saved(g)
                 /\ \A m \in 1 .. Len(saves') : LastAt(g, m)' <=> LastAt(g, m)
<1> DEFINE n == Len(saves)
<1>1. saves \in Seq(Games) /\ h \in Games /\ saves' = Append(saves, h)
    BY DEF SaveRecents, Types, Entry
<1>2. /\ n \in Nat /\ Len(saves') = n + 1 /\ saves'[n + 1] = h
      /\ \A j \in 1 .. n : saves'[j] = saves[j]
    BY <1>1
<1>3. LastAt(h, Len(saves))' /\ Saved(h)'
    BY <1>1, <1>2 DEF LastAt, Saved
<1>4. ASSUME NEW m \in 1 .. n + 1, LastAt(h, m)' PROVE m = n + 1
    BY <1>1, <1>2, <1>4 DEF LastAt
<1>5. ASSUME NEW g, g # h PROVE Saved(g)' <=> Saved(g)
    BY <1>2, <1>5 DEF Saved
<1>6. ASSUME NEW g, g # h, NEW m \in 1 .. n + 1 PROVE LastAt(g, m)' <=> LastAt(g, m)
    BY <1>2, <1>6 DEF LastAt
<1> QED BY <1>2, <1>3, <1>4, <1>5, <1>6

\* The save of the list keeps its order: every entry but the head was an
\* entry before it, at the place Old, and no other entry is lost than the
\* last one of a full list.
LEMMA SaveRecentsOrdered ==
    ASSUME Types, Ordered, SaveRecents PROVE Ordered'
<1> DEFINE e == [game |-> launch.game, profile |-> launch.profile]
           at == Position(recents, e.game)
           k == Len(recents)
           top == Len(recents')
           Old(i) == IF i <= at THEN i - 1 ELSE i
           New(j) == IF j < at THEN j + 1 ELSE j
           n == Len(saves)
<1>1. e \in Entry /\ e.game = launch.game /\ recents' = Added(recents, e)
    BY DEF SaveRecents, Types, Entry
<1>h. PICK h \in Games : h = launch.game
    BY <1>1 DEF Entry
<1>2. /\ recents \in Seq(Entry) /\ Len(recents) <= MaxRecents
      /\ \A i, j \in 1 .. Len(recents) : recents[i].game = recents[j].game => i = j
    BY DEF Types, Ordered, Distinct
<1>3. k \in Nat /\ MaxRecents \in Nat \ {0}
    BY <1>2, LaunchAssumption
<1> HIDE DEF e, at
<1>4. /\ top \in 1 .. MaxRecents /\ at \in 1 .. top /\ k <= top /\ top <= k + 1
      /\ recents'[1].game = h
      /\ \A i \in 2 .. top : recents'[i] = IF i <= at THEN recents[i - 1] ELSE recents[i]
      /\ \A i \in 1 .. k : recents[i].game = h => i = at
      /\ top > k => at = top
      /\ at <= k => recents[at].game = h \/ at = MaxRecents
    <2> DEFINE new == Added(recents, e)
    <2>1. /\ Len(new) = Size(recents, e.game)
          /\ Len(new) \in 1 .. MaxRecents /\ at \in 1 .. Len(new)
          /\ k <= Len(new) /\ Len(new) <= k + 1
          /\ new[1] = e
          /\ \A i \in 2 .. Len(new) : new[i] = IF i <= at THEN recents[i - 1] ELSE recents[i]
          /\ \A i \in 1 .. k : recents[i].game = e.game => i = at
          /\ Len(new) > k => at = Len(new)
          /\ at <= k => recents[at].game = e.game \/ (at = MaxRecents /\ Found(recents, e.game) = {})
        <3>1. MovedToHead(recents, new, Position(recents, e.game), e)
            BY <1>1, <1>2, AddedList
        <3> HIDE DEF new
        <3> QED BY <3>1 DEF MovedToHead, at, k
    <2> HIDE DEF new
    <2> QED BY <1>1, <1>h, <2>1 DEF new
<1>5. /\ n \in Nat /\ Len(saves') = n + 1
      /\ LastAt(h, Len(saves))' /\ Saved(h)'
      /\ \A m \in 1 .. Len(saves') : LastAt(h, m)' => m = Len(saves')
      /\ \A g : g # h =>
            /\ Saved(g)' <=> Saved(g)
            /\ \A m \in 1 .. Len(saves') : LastAt(g, m)' <=> LastAt(g, m)
    BY <1>h, SavesGrow
<1> HIDE DEF k, top, n
<1>16. Len(recents') = top
    BY DEF top
<1>6. \A i \in 2 .. top : /\ Old(i) \in 1 .. k /\ Old(i) # at
                          /\ recents'[i] = recents[Old(i)]
                          /\ recents'[i].game # h
    <2> TAKE i \in 2 .. top
    <2>1. Old(i) \in 1 .. k /\ Old(i) # at
        BY <1>3, <1>4
    <2>2. recents'[i] = recents[Old(i)]
        BY <1>4
    <2> QED BY <1>4, <2>1, <2>2
<1>7. \A j \in 1 .. k : j # at =>
          /\ New(j) \in 2 .. top /\ Old(New(j)) = j /\ recents'[New(j)] = recents[j]
    <2> SUFFICES ASSUME NEW j \in 1 .. k, j # at
                 PROVE  New(j) \in 2 .. top /\ Old(New(j)) = j /\ recents'[New(j)] = recents[j]
        OBVIOUS
    <2>1. New(j) \in 2 .. top /\ Old(New(j)) = j
        BY <1>3, <1>4
    <2> QED BY <1>6, <2>1
<1>8. \A i \in 2 .. top, j \in 1 .. k : j <= Old(i) /\ j # at => New(j) <= i
    BY <1>3, <1>4
<1>9. Among(h, 1)' /\ \A i \in 1 .. top : Among(h, i)'
    BY <1>1, <1>3, <1>4 DEF Among
<1>10. ASSUME NEW i \in 2 .. top, NEW g, g # h, Among(g, Old(i)) PROVE Among(g, i)'
    <2>1. PICK j \in 1 .. Old(i) : recents[j].game = g
        BY <1>10 DEF Among
    <2>2. j \in 1 .. k
        BY <1>3, <1>6
    <2>3. j # at
        BY <1>3, <1>4, <1>10, <2>1, <2>2
    <2>4. New(j) \in 1 .. i /\ recents'[New(j)].game = g
        BY <1>3, <1>4, <1>7, <1>8, <2>1, <2>2, <2>3
    <2> QED BY <2>4 DEF Among
<1>11. Distinct'
    <2> SUFFICES ASSUME NEW i \in 1 .. top, NEW j \in 1 .. top, recents'[i].game = recents'[j].game
                 PROVE  i = j
        BY DEF Distinct, top
    <2>1. CASE i = 1 \/ j = 1
        BY <1>1, <1>3, <1>4, <1>6, <2>1
    <2>2. CASE i # 1 /\ j # 1
        <3>1. i \in 2 .. top /\ j \in 2 .. top
            BY <1>3, <1>4, <2>2
        <3>2. Old(i) = Old(j)
            BY <1>2, <1>6, <3>1 DEF k
        <3> QED BY <1>3, <1>4, <3>1, <3>2
    <2> QED BY <2>1, <2>2
<1>12. ASSUME NEW i \in 1 .. top PROVE Saved(recents[i].game)'
    <2>1. CASE i = 1
        BY <1>1, <1>4, <1>5, <2>1
    <2>2. CASE i # 1
        <3>1. i \in 2 .. top
            BY <1>3, <1>4, <2>2
        <3>2. Saved(recents[Old(i)].game)
            BY <1>6, <3>1 DEF Ordered, k
        <3>3. Saved(recents'[i].game)
            BY <1>6, <3>1, <3>2
        <3> QED BY <1>5, <1>6, <3>1, <3>3
    <2> QED BY <2>1, <2>2
<1>13. ASSUME NEW i \in 1 .. top, NEW g \in Games, NEW m \in 1 .. Len(saves'), NEW l \in 1 .. Len(saves'),
              LastAt(recents[i].game, m)', LastAt(g, l)', ~Among(g, i)'
       PROVE  m > l
    <2>1. g # h
        BY <1>9, <1>13
    <2>2. LastAt(g, l) /\ l \in 1 .. n
        BY <1>5, <1>13, <2>1 DEF LastAt, n
    <2>3. CASE i = 1
        <3>1. m = Len(saves')
            BY <1>1, <1>4, <1>5, <1>13, <2>3
        <3> QED BY <1>5, <2>2, <3>1
    <2>4. CASE i # 1
        <3>1. i \in 2 .. top
            BY <1>3, <1>4, <2>4
        <3>2. LastAt(recents'[i].game, m)
            BY <1>5, <1>6, <1>13, <3>1
        <3>3. LastAt(recents[Old(i)].game, m) /\ Old(i) \in 1 .. Len(recents)
            BY <1>6, <3>1, <3>2 DEF k
        <3>4. ~Among(g, Old(i))
            BY <1>10, <1>13, <2>1, <3>1
        <3>5. m \in 1 .. Len(saves) /\ l \in 1 .. Len(saves)
            BY <2>2, <3>3 DEF LastAt
        <3> QED BY <2>2, <3>3, <3>4, <3>5 DEF Ordered
    <2> QED BY <2>3, <2>4
<1>14. ASSUME top < MaxRecents, NEW g \in Games, Saved(g)' PROVE Among(g, Len(recents))'
    <2>1. CASE g = h
        BY <1>3, <1>4, <1>9, <2>1, <1>16
    <2>2. CASE g # h
        <3>1. Among(g, k)
            BY <1>3, <1>4, <1>5, <1>14, <2>2 DEF Ordered, k
        <3>2. PICK j \in 1 .. k : recents[j].game = g
            BY <3>1 DEF Among
        <3>3. j # at
            BY <1>3, <1>4, <1>14, <2>2, <3>2
        <3>4. New(j) \in 1 .. top /\ recents'[New(j)].game = g
            BY <1>3, <1>4, <1>7, <3>2, <3>3
        <3> QED BY <3>4, <1>16 DEF Among
    <2> QED BY <2>1, <2>2
<1>15. \A g \in Games : Saved(g)' => \E m \in 1 .. Len(saves') : LastAt(g, m)'
    <2> SUFFICES ASSUME NEW g \in Games, Saved(g)' PROVE \E m \in 1 .. Len(saves') : LastAt(g, m)'
        OBVIOUS
    <2>1. CASE g = h
        BY <1>5, <2>1
    <2>2. CASE g # h
        BY <1>5, <2>2 DEF Ordered, n
    <2> QED BY <2>1, <2>2
<1>17. \A i \in 1 .. Len(recents') : Saved(recents[i].game)'
    BY <1>12, <1>16
<1> QED BY <1>11, <1>13, <1>14, <1>15, <1>16, <1>17 DEF Ordered

LEMMA BootInv ==
    ASSUME Types, Launching, Boot PROVE Types' /\ Launching'
<1>1. UNCHANGED <<listed, recents, saves, running>> /\ step = "boot"
    BY DEF Boot
<1>2. CASE step' = "restore" /\ UNCHANGED launch
    BY <1>1, <1>2 DEF Types, Launching, IsHead
<1>3. CASE /\ recents # <<>> /\ step' = "resume"
           /\ launch' = Plan(Head(recents).game, BootProfile(Head(recents)))
    <2>1. Head(recents) = recents[1]
        BY <1>3 DEF Types
    <2>2. launch'.game = recents[1].game /\ launch'.profile = BootProfile(recents[1])
        BY <1>3, <2>1 DEF Plan
    <2>3. recents[1].profile \in listed => launch'.profile = recents[1].profile
        BY <2>2 DEF BootProfile, IsListed
    <2> QED BY <1>1, <1>3, <2>2, <2>3 DEF Types, Launching, IsHead
<1> QED BY <1>2, <1>3 DEF Boot

\* The steps that leave the lists and the profiles alone.
LEMMA LauncherInv ==
    ASSUME Types, Launching, UNCHANGED <<listed, recents, saves>>,
           \/ SaveSession \/ SaveDenied \/ Start \/ Stop \/ ClearSession \/ Return \/ Restore
           \/ UNCHANGED launcher
    PROVE  Types' /\ Launching'
<1>1. CASE SaveSession
    BY <1>1 DEF SaveSession, Types, Launching, IsHead
<1>2. CASE SaveDenied
    BY <1>2 DEF SaveDenied, Types, Launching
<1>3. CASE Start
    BY <1>3 DEF Start, Types, Launching, IsHead
<1>4. CASE Stop
    BY <1>4 DEF Stop, Types, Launching
<1>5. CASE ClearSession
    BY <1>5 DEF ClearSession, Types, Launching
<1>6. CASE Return
    BY <1>6 DEF Return, Types, Launching
<1>7. CASE Restore
    BY <1>7 DEF Restore, Types, Launching
<1>8. CASE UNCHANGED launcher
    BY <1>8 DEF launcher, Types, Launching, IsHead
<1> QED BY <1>1, <1>2, <1>3, <1>4, <1>5, <1>6, <1>7, <1>8

LEMMA NextInv ==
    ASSUME Types, Launching, Ordered, [Next]_vars PROVE Types' /\ Launching' /\ Ordered'
<1>1. CASE Launch
    <2>1. CASE SaveRecents
        BY <2>1, SaveRecentsTypes, SaveRecentsOrdered
    <2>2. CASE SaveSession \/ SaveDenied \/ Start \/ Stop \/ ClearSession \/ Return
        <3>1. UNCHANGED <<listed, recents, saves>>
            BY <2>2 DEF SaveSession, SaveDenied, Start, Stop, ClearSession, Return
        <3> QED BY <2>2, <3>1, LauncherInv, OrderedStays
    <2> QED BY <1>1, <2>1, <2>2, BeginInv DEF Launch, LaunchGame, LaunchRecent
<1>2. CASE User \/ Screen \/ Daemon \/ VolumeSave \/ UNCHANGED vars
    <2>1. UNCHANGED <<listed, recents, saves, launcher>>
        <3>1. CASE User
            <4>1. \A t, f, v : Choose(t, f, v) => UNCHANGED <<listed, recents, saves, launcher>>
                BY DEF Choose
            <4>2. \A k, d : ChangeSetting(k, d) => UNCHANGED <<listed, recents, saves, launcher>>
                BY DEF ChangeSetting
            <4> QED BY <3>1, <4>1, <4>2 DEF User, ChooseProfile, ChoosePolicy, ChooseOption
        <3>2. CASE Screen \/ Daemon \/ VolumeSave
            BY <3>2 DEF Screen, Daemon, VolumeSave, Rest
        <3>3. CASE UNCHANGED vars
            BY <3>3 DEF vars, launcher
        <3> QED BY <1>2, <3>1, <3>2, <3>3
    <2> QED BY <2>1, LauncherInv, OrderedStays DEF launcher
<1>3. CASE PowerCut
    <2>1. /\ listed' \subseteq Profiles /\ step' = "boot" /\ running' = NoLaunch
          /\ UNCHANGED <<recents, saves>>
        BY <1>3, ListingsTypes DEF PowerCut
    <2> QED BY <2>1, OrderedStays DEF Types, Launching
<1>4. CASE Boot
    <2>1. UNCHANGED <<recents, saves>>
        BY <1>4 DEF Boot
    <2> QED BY <1>4, <2>1, BootInv, OrderedStays
<1>5. CASE Restore
    <2>1. UNCHANGED <<listed, recents, saves>>
        BY <1>5 DEF Restore
    <2> QED BY <1>5, <2>1, LauncherInv, OrderedStays
<1> QED BY <1>1, <1>2, <1>3, <1>4, <1>5 DEF Next

\* What every launch keeps: the types, what is known at each step of a launch, and
\* the two lists that add_recent_result and play_log_append write kept in order.
THEOREM Invariance == Spec => [](Types /\ Launching /\ Ordered)
<1>1. Init => Types /\ Launching /\ Ordered
    BY InitInv
<1>2. Types /\ Launching /\ Ordered /\ [Next]_vars => (Types /\ Launching /\ Ordered)'
    BY NextInv
<1> QED BY <1>1, <1>2, PTL DEF Spec

(* The game that the emulator runs is the head of the recent list on the    *)
(* card, with its profile: a power loss brings this game back, no other.   *)
THEOREM HeadRuns == Spec => []RunningIsRecent
<1>1. Types /\ Launching /\ Ordered => RunningIsRecent
    <2> SUFFICES ASSUME Types, Launching, running # NoLaunch
                 PROVE  /\ recents # <<>> /\ Head(recents).game = running.game
                        /\ Head(recents).profile \in listed => Head(recents).profile = running.profile
        BY DEF RunningIsRecent
    <2>1. recents # <<>> => Head(recents) = recents[1]
        BY DEF Types
    <2> QED BY <2>1 DEF Launching, IsHead
<1> QED BY <1>1, Invariance, PTL

\* where SelectLastInSeq looks for the last save of a game
At(g) == {i \in 1 .. Len(saves) : saves[i] = g}

LEMMA LatestIsLast ==
    ASSUME Types, NEW g, NEW m, LastAt(g, m)
    PROVE  At(g) # {} /\ Max(At(g)) = m
<1>1. Len(saves) \in Nat /\ m \in At(g) /\ \A i \in At(g) : i <= m
    BY DEF LastAt, Types, At
<1>2. \A x \in At(g) : (\A y \in At(g) : x >= y) => x = m
    BY <1>1 DEF At
<1>3. \A y \in At(g) : m >= y
    BY <1>1 DEF At
<1> QED BY <1>1, <1>2, <1>3 DEF Max

(* The recent list never has a game twice, never more than MaxRecents, and  *)
(* its entries are the games launched last, latest first, whatever was     *)
(* launched again, refused, interrupted by a power loss or resumed.        *)
THEOREM LatestFirst == Spec => []RecentOrder
<1>1. Types /\ Launching /\ Ordered => RecentOrder
    <2> SUFFICES ASSUME Types, Ordered PROVE RecentOrder
        OBVIOUS
    <2> DEFINE names == [i \in DOMAIN recents |-> recents[i].game]
               k == Len(recents)
               latest(g) == SelectLastInSeq(saves, LAMBDA x : x = g)
    <2>1. k \in Nat /\ DOMAIN recents = 1 .. k /\ k <= MaxRecents
          /\ \A i \in 1 .. k : recents[i].game \in Games
        <3>1. \A i \in 1 .. Len(recents) : recents[i] \in Entry
            BY DEF Types
        <3>2. \A i \in 1 .. Len(recents) : recents[i].game \in Games
            BY <3>1 DEF Entry
        <3> QED BY <3>2 DEF Types
    <2>2. DOMAIN names = 1 .. k /\ Len(names) = k /\ \A i \in 1 .. k : names[i] = recents[i].game
        <3>1. names \in [1 .. k -> Games]
            BY <2>1
        <3> QED BY <2>1, <3>1, FunctionIsSeq
    <2>3. ToSet(saves) = {g \in Games : Saved(g)} /\ DOMAIN saves = 1 .. Len(saves)
        BY DEF ToSet, Saved, Types
    <2>4. ToSet(names) = {g \in Games : Among(g, k)}
        BY <2>1, <2>2 DEF ToSet, Among
    <2> HIDE DEF names, k
    <2>5. IsInjective(names)
        BY <2>2 DEF IsInjective, Ordered, Distinct, k
    <2>6. ASSUME NEW i \in DOMAIN names, NEW g \in ToSet(saves) \ {names[j] : j \in 1 .. i}
          PROVE  latest(names[i]) > latest(g)
        <3>1. g \in Games /\ Saved(g) /\ ~Among(g, i) /\ i \in 1 .. k
            BY <2>2, <2>3, <2>6, <2>1 DEF Among
        <3>2. PICK n \in 1 .. Len(saves) : LastAt(g, n)
            BY <3>1 DEF Ordered
        <3>3. names[i] \in Games /\ Saved(names[i]) /\ names[i] = recents[i].game
            BY <2>1, <2>2, <3>1 DEF Ordered, k
        <3>4. PICK m \in 1 .. Len(saves) : LastAt(names[i], m)
            BY <3>3 DEF Ordered
        <3>5. i \in 1 .. Len(recents) /\ LastAt(recents[i].game, m)
            BY <3>1, <3>3, <3>4 DEF k
        <3>6. m > n
            <4>1. \A x \in 1 .. Len(recents), h \in Games, a, b \in 1 .. Len(saves) :
                     LastAt(recents[x].game, a) /\ LastAt(h, b) /\ ~Among(h, x) => a > b
                BY DEF Ordered
            <4> QED BY <3>1, <3>2, <3>4, <3>5, <4>1, ZenonT(30)
        <3>7. latest(names[i]) = IF At(names[i]) # {} THEN Max(At(names[i])) ELSE 0
            BY DEF SelectLastInSeq, At
        <3>8. latest(g) = IF At(g) # {} THEN Max(At(g)) ELSE 0
            BY DEF SelectLastInSeq, At
        <3>9. latest(names[i]) = m
            BY <3>4, <3>7, LatestIsLast
        <3>10. latest(g) = n
            BY <3>2, <3>8, LatestIsLast
        <3> QED BY <3>6, <3>9, <3>10
    <2>7. k < MaxRecents => ToSet(names) = ToSet(saves)
        <3>1. \A g \in Games : Among(g, k) => Saved(g)
            BY <2>1 DEF Among, Ordered, k
        <3> QED BY <2>3, <2>4, <3>1 DEF Ordered, k
    <2> QED BY <2>1, <2>2, <2>5, <2>6, <2>7 DEF RecentOrder, names, k
<1> QED BY <1>1, Invariance, PTL

-----------------------------------------------------------------------------
(***************************************************************************)
(* RomBrowser.  The lists hold each game once and with the star of the     *)
(* file; the directories of a list are below the one shown; the memory has *)
(* one place per directory, and in the directories above the one shown it  *)
(* is the entry that leads to it.                                          *)
(***************************************************************************)

(* Every nonempty set of natural numbers has a least element.               *)
LEMMA LeastOf ==
    ASSUME NEW T \in SUBSET Nat, T # {}
    PROVE  \E x \in T : \A y \in T : x <= y
<1> DEFINE R == {ss \in Nat \X Nat : ss[1] < ss[2]}
<1>1. IsWellFoundedOn(R, Nat)
  BY NatLessThanWellFounded DEF OpToRel
<1> HIDE DEF R
<1>2. PICK x \in T : \A y \in T : <<y, x>> \notin R
  BY <1>1, WFMin
<1>3. ASSUME NEW y \in T PROVE x <= y
  <2>1. <<y, x>> \notin R /\ <<y, x>> \in Nat \X Nat
    BY <1>2
  <2>2. ~(y < x)
    BY <2>1 DEF R
  <2> QED
    BY <2>2
<1> QED
  BY <1>3

-----------------------------------------------------------------------------
(* Places in a list.                                                          *)

\* An entry that is in the list is found.
LEMMA EntryFound ==
    ASSUME NEW l, Len(l) \in Nat, DOMAIN l = 1..Len(l), NEW path, Has(l, path)
    PROVE  IndexOf(l, path) + 1 \in DOMAIN l /\ l[IndexOf(l, path) + 1].path = path
<1> DEFINE I == {i \in 1..Len(l) : l[i].path = path}
<1>1. I # {} /\ I \in SUBSET Nat
  BY DEF Has
<1>2. Min(I) \in I
  <2> HIDE DEF I
  <2> QED BY <1>1, LeastOf DEF Min
<1>3. IndexOf(l, path) = Min(I) - 1
  BY <1>1 DEF IndexOf, SelectInSeq
<1> QED
  BY <1>2, <1>3

UpTo(places, i) == {j \in places : j <= i}

LEMMA UpToCounts ==
    ASSUME NEW m \in Nat, NEW places \in SUBSET (1..m)
    PROVE  /\ IsFiniteSet(places) /\ Cardinality(places) \in Nat
           /\ \A i : IsFiniteSet(UpTo(places, i)) /\ Cardinality(UpTo(places, i)) \in Nat
<1>1. IsFiniteSet(1..m)
  BY FS_Interval
<1>2. ASSUME NEW S \in SUBSET (1..m) PROVE IsFiniteSet(S) /\ Cardinality(S) \in Nat
  <2>1. IsFiniteSet(S)
    BY <1>1, FS_Subset
  <2> QED BY <2>1, FS_CardinalityType
<1>3. \A i : UpTo(places, i) \in SUBSET (1..m)
  BY DEF UpTo
<1> QED
  BY <1>2, <1>3

\* From one number to the next the count grows by one, at a member only.
LEMMA UpToGrows ==
    ASSUME NEW m \in Nat, NEW places \in SUBSET (1..m), NEW i \in 1..m
    PROVE  Cardinality(UpTo(places, i)) =
             IF i \in places THEN Cardinality(UpTo(places, i - 1)) + 1 ELSE Cardinality(UpTo(places, i - 1))
<1>1. \A j \in places : j <= i <=> j <= i - 1 \/ j = i
  OBVIOUS
<1>0. ~(i <= i - 1)
  OBVIOUS
<1>2. CASE i \in places
  <2>1. UpTo(places, i) = UpTo(places, i - 1) \cup {i} /\ i \notin UpTo(places, i - 1)
    BY <1>0, <1>1, <1>2 DEF UpTo
  <2>2. IsFiniteSet(UpTo(places, i - 1))
    BY UpToCounts
  <2> QED
    BY <2>1, <2>2, <1>2, FS_AddElement
<1>3. CASE i \notin places
  <2>1. UpTo(places, i) = UpTo(places, i - 1)
    BY <1>1, <1>3 DEF UpTo
  <2> QED
    BY <2>1, <1>3
<1> QED
  BY <1>2, <1>3

\* The members of a finite set of numbers can be counted through.
LEMMA NthIsThere ==
    ASSUME NEW m \in Nat, NEW places \in SUBSET (1..m), NEW n \in 1..Cardinality(places)
    PROVE  Nth(places, n) \in places /\ Cardinality(UpTo(places, Nth(places, n))) = n
<1> DEFINE c(i) == Cardinality(UpTo(places, i))
           T == {i \in 0..m : c(i) >= n}
<1>1. Cardinality(places) \in Nat /\ \A i : c(i) \in Nat
  BY UpToCounts
<1>2. UpTo(places, 0) = {} /\ UpTo(places, m) = places
  <2>1. \A j \in places : ~(j <= 0) /\ j <= m
    OBVIOUS
  <2> QED BY <2>1 DEF UpTo
<1>3. c(0) = 0
  BY <1>2, FS_EmptySet
<1>4. \A i \in 1..m : c(i) = IF i \in places THEN c(i - 1) + 1 ELSE c(i - 1)
  BY UpToGrows
<1>5. c(m) >= n /\ n \in Nat \ {0}
  BY <1>1, <1>2
<1> HIDE DEF c
<1>6. m \in T /\ T \in SUBSET Nat
  BY <1>5
<1>7. PICK i \in T : \A j \in T : i <= j
  <2> HIDE DEF T
  <2> QED BY <1>6, LeastOf
<1>8. i \in 1..m /\ c(i) >= n
  BY <1>3, <1>5, <1>7
<1>9. i - 1 \in 0..m /\ i - 1 \notin T
  BY <1>7, <1>8
<1>10. c(i - 1) < n
  BY <1>9, <1>1, <1>5
<1>11. i \in places /\ c(i) = n
  BY <1>4, <1>8, <1>10, <1>1, <1>5
<1> QED
  BY <1>11 DEF Nth, c, UpTo

\* Sorted keeps to the paths it is given, and lists none twice.
LEMMA SortedOnce ==
    ASSUME NEW paths, NEW byPath \in BOOLEAN
    PROVE  /\ Len(Sorted(paths, byPath)) \in Nat
           /\ DOMAIN Sorted(paths, byPath) = 1..Len(Sorted(paths, byPath))
           /\ \A n \in DOMAIN Sorted(paths, byPath) : Sorted(paths, byPath)[n] \in paths \cap Path
           /\ EachOnce(Sorted(paths, byPath))
<1> DEFINE order == IF byPath THEN PathOrder ELSE NameOrder
           places == {i \in DOMAIN order : order[i] \in paths}
<1>1. order \in Seq(Path) /\ EachOnce(order)
  BY PathsAssumption
<1> HIDE DEF order
<1>2. Len(order) \in Nat /\ DOMAIN order = 1..Len(order) /\ \A i \in DOMAIN order : order[i] \in Path
  BY <1>1
<1>3. places \in SUBSET (1..Len(order)) /\ Cardinality(places) \in Nat
  <2>1. places \in SUBSET (1..Len(order))
    BY <1>2
  <2> HIDE DEF places
  <2> QED BY <1>2, <2>1, UpToCounts
<1>4. Sorted(paths, byPath) = [n \in 1..Cardinality(places) |-> order[Nth(places, n)]]
  BY DEF Sorted, order
<1>5. \A n \in 1..Cardinality(places) :
        Nth(places, n) \in places /\ Cardinality(UpTo(places, Nth(places, n))) = n
  <2> HIDE DEF places
  <2> QED BY <1>2, <1>3, NthIsThere
<1>6. Len(Sorted(paths, byPath)) = Cardinality(places) /\ DOMAIN Sorted(paths, byPath) = 1..Cardinality(places)
  <2> HIDE DEF places
  <2> QED BY <1>3, <1>4
<1>7. ASSUME NEW n \in 1..Cardinality(places), NEW k \in 1..Cardinality(places),
             Sorted(paths, byPath)[n] = Sorted(paths, byPath)[k] PROVE n = k
  <2>1. order[Nth(places, n)] = order[Nth(places, k)]
    BY <1>4, <1>7
  <2>2. Nth(places, n) = Nth(places, k)
    BY <2>1, <1>1, <1>5 DEF EachOnce
  <2> QED BY <2>2, <1>5
<1>8. \A n \in 1..Cardinality(places) : Sorted(paths, byPath)[n] \in paths \cap Path
  BY <1>4, <1>5, <1>2
<1> QED
  BY <1>3, <1>6, <1>7, <1>8 DEF EachOnce

LEMMA Counting ==
    /\ \A n \in Nat : (n >= 2 => n = 2 \/ n > 2) /\ (n # 0 /\ n # 1 => n >= 2)
    /\ \A n, k \in Nat : /\ n - (k + 1) + 1 = n - k /\ (k <= n /\ ~(k + 1 <= n) => n - k = 0)
                        /\ \A i \in 1..n - k : (k + 1) + i - 1 = k + i
OBVIOUS

\* x is in the list f.
Holds(f, x) == \E i \in DOMAIN f : f[i] = x

\* The first occurrence of e goes, everything else stays in its order.
LEMMA Removed ==
    ASSUME NEW S, NEW f \in Seq(S), EachOnce(f), NEW e
    PROVE  /\ RemoveFirst(f, e) \in Seq(S) /\ EachOnce(RemoveFirst(f, e))
           /\ \A x : Holds(RemoveFirst(f, e), x) <=> x # e /\ Holds(f, x)
<1>0. Len(f) \in Nat /\ DOMAIN f = 1..Len(f) /\ \A i \in 1..Len(f) : f[i] \in S
  BY ElementOfSeq
<1>1. CASE ~\E i \in 1..Len(f) : f[i] = e
  BY <1>0, <1>1 DEF RemoveFirst, Holds
<1>2. CASE \E i \in 1..Len(f) : f[i] = e
  <2> DEFINE I == {i \in 1..Len(f) : f[i] = e}
             k == Min(I)
             a == SubSeq(f, 1, k - 1)
             b == SubSeq(f, k + 1, Len(f))
             g == a \o b
  <2>1. I # {} /\ I \in SUBSET Nat
    BY <1>0, <1>2
  <2>2. k \in I
    <3> HIDE DEF I
    <3> QED BY <2>1, LeastOf DEF Min
  <2>3. k \in 1..Len(f) /\ f[k] = e
    BY <2>2
  <2>4. RemoveFirst(f, e) = g
    BY <1>2, <2>1 DEF RemoveFirst, RemoveAt, SelectInSeq
  <2> HIDE DEF k
  <2>5. a \in Seq(S) /\ Len(a) = k - 1 /\ \A i \in 1..k - 1 : a[i] = f[i]
    <3>1. \A i \in 1..k - 1 : f[i] \in S
      BY <1>0, <2>3
    <3>2. k - 1 \in Int /\ 1 \in Int /\ (1 <= k - 1 => k - 1 - 1 + 1 = k - 1) /\ (~(1 <= k - 1) => k - 1 = 0)
      BY <2>3
    <3>3. /\ a \in Seq(S)
          /\ Len(a) = IF 1 <= k - 1 THEN k - 1 - 1 + 1 ELSE 0
          /\ \A i \in 1..k - 1 - 1 + 1 : a[i] = f[1 + i - 1]
      BY <3>1, <3>2, SubSeqProperties
    <3> HIDE DEF a
    <3> QED BY <3>2, <3>3, <2>3
  <2>6. b \in Seq(S) /\ Len(b) = Len(f) - k /\ \A i \in 1..Len(f) - k : b[i] = f[k + i]
    <3>1. \A i \in k + 1..Len(f) : f[i] \in S
      BY <1>0, <2>3
    <3>2. k + 1 \in Int /\ Len(f) \in Int
      BY <1>0, <2>3
    <3>3. /\ b \in Seq(S)
          /\ Len(b) = IF k + 1 <= Len(f) THEN Len(f) - (k + 1) + 1 ELSE 0
          /\ \A i \in 1..Len(f) - (k + 1) + 1 : b[i] = f[(k + 1) + i - 1]
      BY <3>1, <3>2, SubSeqProperties
    <3>4. /\ Len(f) - (k + 1) + 1 = Len(f) - k /\ (~(k + 1 <= Len(f)) => Len(f) - k = 0)
          /\ \A i \in 1..Len(f) - k : (k + 1) + i - 1 = k + i
      <4>1. k \in Nat /\ k <= Len(f) /\ Len(f) \in Nat
        BY <2>3, <1>0
      <4> QED BY <4>1, Counting
    <3> HIDE DEF b
    <3>5. Len(b) = Len(f) - k
      BY <3>3, <3>4
    <3> QED BY <3>3, <3>4, <3>5
  <2> HIDE DEF a, b
  <2>7. /\ g \in Seq(S) /\ Len(g) = Len(f) - 1
        /\ \A i \in 1..Len(f) - 1 : g[i] = IF i < k THEN f[i] ELSE f[i + 1]
    <3>1. /\ g \in Seq(S) /\ Len(g) = Len(a) + Len(b)
          /\ \A i \in 1..Len(a) + Len(b) : g[i] = IF i <= Len(a) THEN a[i] ELSE b[i - Len(a)]
      BY <2>5, <2>6, ConcatProperties
    <3> HIDE DEF g
    <3>2. Len(a) + Len(b) = Len(f) - 1
      BY <2>5, <2>6, <2>3, <1>0
    <3>3. ASSUME NEW i \in 1..Len(f) - 1 PROVE g[i] = IF i < k THEN f[i] ELSE f[i + 1]
      <4>1. CASE i < k
        <5>1. i \in 1..k - 1 /\ i <= Len(a)
          BY <4>1, <2>3, <2>5
        <5> QED BY <5>1, <4>1, <3>1, <3>2, <2>5
      <4>2. CASE ~(i < k)
        <5>1. i - Len(a) \in 1..Len(f) - k /\ ~(i <= Len(a)) /\ k + (i - Len(a)) = i + 1
          BY <4>2, <2>3, <2>5, <1>0
        <5> QED BY <5>1, <4>2, <3>1, <3>2, <2>6
      <4> QED BY <4>1, <4>2
    <3> QED BY <3>1, <3>2, <3>3
  <2> HIDE DEF g
  <2>8. DOMAIN g = 1..Len(f) - 1
    BY <2>7
  <2>9. EachOnce(g)
    <3>1. ASSUME NEW i \in DOMAIN g, NEW j \in DOMAIN g, g[i] = g[j] PROVE i = j
      <4> DEFINE up(n) == IF n < k THEN n ELSE n + 1
      <4>1. up(i) \in DOMAIN f /\ up(j) \in DOMAIN f /\ g[i] = f[up(i)] /\ g[j] = f[up(j)]
        BY <2>7, <2>8, <2>3, <1>0
      <4>2. up(i) = up(j)
        BY <4>1, <3>1 DEF EachOnce
      <4> QED BY <4>2, <2>8, <2>3, <1>0
    <3> QED BY <3>1 DEF EachOnce
  <2>10. ASSUME NEW i \in DOMAIN g PROVE g[i] # e /\ \E j \in DOMAIN f : f[j] = g[i]
    <3> DEFINE up == IF i < k THEN i ELSE i + 1
    <3>1. up \in DOMAIN f /\ g[i] = f[up] /\ up # k
      BY <2>7, <2>8, <2>3, <1>0
    <3> QED BY <3>1, <2>3, <1>0 DEF EachOnce
  <2>11. ASSUME NEW i \in DOMAIN f, f[i] # e PROVE \E j \in DOMAIN g : g[j] = f[i]
    <3>1. i # k
      BY <2>11, <2>3
    <3>2. CASE i < k
      <4>1. i \in DOMAIN g /\ g[i] = f[i]
        BY <3>2, <2>7, <2>8, <2>3, <1>0
      <4> QED BY <4>1
    <3>3. CASE i > k
      <4>1. i - 1 \in DOMAIN g /\ g[i - 1] = f[i]
        BY <3>3, <2>7, <2>8, <2>3, <1>0
      <4> QED BY <4>1
    <3> QED BY <3>1, <3>2, <3>3, <2>3, <1>0
  <2>12. ASSUME NEW x PROVE Holds(g, x) <=> x # e /\ Holds(f, x)
    BY <2>10, <2>11 DEF Holds
  <2> QED BY <2>4, <2>7, <2>9, <2>12
<1> QED
  BY <1>1, <1>2

-----------------------------------------------------------------------------
(* Paths.                                                                     *)

\* a leads to b: b is a or below it.
Leads(a, b) == Len(a) <= Len(b) /\ \A k \in 1..Len(a) : a[k] = b[k]

LEMMA Prefix ==
    ASSUME NEW S, NEW p \in Seq(S), NEW n \in 0..Len(p)
    PROVE  /\ SubSeq(p, 1, n) \in Seq(S) /\ Len(SubSeq(p, 1, n)) = n
           /\ \A k \in 1..n : SubSeq(p, 1, n)[k] = p[k]
<1>0. Len(p) \in Nat /\ n \in Int /\ \A k \in 1..n : p[k] \in S
  BY ElementOfSeq
<1>1. /\ SubSeq(p, 1, n) \in Seq(S)
      /\ Len(SubSeq(p, 1, n)) = IF 1 <= n THEN n - 1 + 1 ELSE 0
      /\ \A k \in 1..n - 1 + 1 : SubSeq(p, 1, n)[k] = p[1 + k - 1]
  BY <1>0, SubSeqProperties
<1> DEFINE s == SubSeq(p, 1, n)
<1> HIDE DEF s
<1>2. /\ s \in Seq(S) /\ Len(s) = IF 1 <= n THEN n - 1 + 1 ELSE 0
      /\ \A k \in 1..n - 1 + 1 : s[k] = p[1 + k - 1]
  BY <1>1 DEF s
<1>3. s \in Seq(S) /\ Len(s) = n /\ \A k \in 1..n : s[k] = p[k]
  BY <1>2, <1>0
<1> QED
  BY <1>3 DEF s

LEMMA SamePath ==
    ASSUME NEW p \in Seq(STRING), NEW q \in Seq(STRING), Len(p) = Len(q), \A k \in 1..Len(p) : p[k] = q[k]
    PROVE  p = q
BY SeqEqual

LEMMA ParentLeads ==
    ASSUME NEW p \in Seq(STRING), Len(p) >= 2
    PROVE  /\ Parent(p) \in Seq(STRING) /\ Len(Parent(p)) # 1 /\ Leads(Parent(p), p)
           /\ Len(Parent(p)) = IF Len(p) = 2 THEN 0 ELSE Len(p) - 1
<1>0. Len(p) \in Nat /\ Len(p) - 1 \in 0..Len(p)
  OBVIOUS
<1>1. CASE Len(p) = 2
  <2>1. Parent(p) = <<>>
    BY <1>1 DEF Parent
  <2> QED BY <2>1, <1>1, EmptySeq DEF Leads
<1>2. CASE Len(p) > 2
  <2> DEFINE s == SubSeq(p, 1, Len(p) - 1)
  <2>1. Parent(p) = s
    BY <1>2 DEF Parent, Front
  <2>2. s \in Seq(STRING) /\ Len(s) = Len(p) - 1 /\ \A k \in 1..Len(p) - 1 : s[k] = p[k]
    BY <1>0, Prefix
  <2> HIDE DEF s
  <2> QED BY <2>1, <2>2, <1>0, <1>2 DEF Leads
<1>3. Len(p) = 2 \/ Len(p) > 2
  BY <1>0, Counting
<1> QED
  BY <1>1, <1>2, <1>3

\* What a directory of d leads to is below d, and d is where B leads from it.
LEMMA ChildLeads ==
    ASSUME NEW p \in Seq(STRING), NEW d \in Seq(STRING), Len(d) # 1, InDir(p, d), IsDir(p, d)
    PROVE  /\ Child(p, d) \in Path /\ Len(Child(p, d)) >= 2
           /\ Parent(Child(p, d)) = d /\ Leads(d, Child(p, d))
<1>0. Len(p) \in Nat /\ Len(d) \in Nat /\ (Len(d) = 0 <=> d = <<>>)
  BY EmptySeq
<1>1. CASE d = <<>>
  <2>1. Len(p) > 1
    BY <1>0, <1>1 DEF IsDir, Base
  <2>2. Base(p, d) = <<p[1]>> /\ Len(<<p[1]>>) = 1
    BY <1>1, <2>1 DEF Base
  <2>3. Len(p) > 2
    BY <2>2, <1>0 DEF IsDir
  <2> DEFINE s == SubSeq(p, 1, 2)
  <2>4. Child(p, d) = s
    BY <2>2, <2>3 DEF Child, IsDir
  <2>5. s \in Seq(STRING) /\ Len(s) = 2
    BY <1>0, <2>3, Prefix
  <2> HIDE DEF s
  <2>6. s # <<>> /\ Parent(s) = <<>>
    BY <2>5 DEF Parent
  <2> QED BY <2>4, <2>5, <2>6, <1>1 DEF Path, Leads
<1>2. CASE d # <<>>
  <2>1. Base(p, d) = d
    BY <1>2 DEF Base
  <2>2. Len(p) > Len(d) + 1 /\ Len(d) >= 2
    <3>1. Len(p) > Len(d) + 1
      BY <2>1 DEF IsDir
    <3>2. Len(d) # 0 /\ Len(d) # 1
      BY <1>0, <1>2
    <3> QED BY <3>1, <3>2, <1>0, Counting
  <2> DEFINE s == SubSeq(p, 1, Len(d) + 1)
  <2>3. Child(p, d) = s
    BY <2>1, <2>2 DEF Child, IsDir
  <2>4. s \in Seq(STRING) /\ Len(s) = Len(d) + 1 /\ \A k \in 1..Len(d) + 1 : s[k] = p[k]
    BY <1>0, <2>2, Prefix
  <2>5. \A k \in 1..Len(d) : d[k] = p[k]
    <3>1. SubSeq(d, 1, Len(d)) = SubSeq(p, 1, Len(d))
      BY <2>1 DEF InDir, IsStrictPrefix, IsPrefix
    <3>2. \A k \in 1..Len(d) : SubSeq(d, 1, Len(d))[k] = d[k]
      BY <1>0, Prefix
    <3>3. \A k \in 1..Len(d) : SubSeq(p, 1, Len(d))[k] = p[k]
      BY <1>0, <2>2, Prefix
    <3> QED BY <3>1, <3>2, <3>3
  <2> HIDE DEF s
  <2>6. Leads(d, s) /\ s # <<>>
    BY <2>4, <2>5, <1>0 DEF Leads
  <2>7. Parent(s) = SubSeq(s, 1, Len(d))
    BY <2>4, <2>2, <1>0 DEF Parent, Front
  <2>8. Parent(s) = d
    <3>1. /\ SubSeq(s, 1, Len(d)) \in Seq(STRING) /\ Len(SubSeq(s, 1, Len(d))) = Len(d)
          /\ \A k \in 1..Len(d) : SubSeq(s, 1, Len(d))[k] = s[k]
      BY <2>4, <1>0, Prefix
    <3>2. \A k \in 1..Len(d) : SubSeq(s, 1, Len(d))[k] = d[k]
      BY <3>1, <2>6 DEF Leads
    <3> QED BY <2>7, <3>1, <3>2, SamePath
  <2> QED BY <2>3, <2>4, <2>6, <2>8, <2>2, <1>0 DEF Path
<1> QED
  BY <1>1, <1>2

EntryType == [sys : STRING, path : Path, dir : BOOLEAN, star : BOOLEAN]
Dirs == {d \in Seq(STRING) : Len(d) # 1}

\* The stars of l are those of favorites.json.
StarsIn(l) == \A i \in DOMAIN l : ~l[i].dir => l[i].star = Starred(l[i].sys, l[i].path)
\* l has no game twice.
GamesOnce(l) ==
    \A i, j \in DOMAIN l :
        ~l[i].dir /\ ~l[j].dir /\ l[i].sys = l[j].sys /\ l[i].path = l[j].path => i = j
\* The directories of l are those of a system, below d.
DirsOf(l, s, d) ==
    \A i \in DOMAIN l : l[i].dir =>
        /\ s \in Systems /\ Len(l[i].path) >= 2
        /\ Parent(l[i].path) = d /\ Leads(d, l[i].path)
GoodList(l, s, d) == l \in Seq(EntryType) /\ StarsIn(l) /\ GamesOnce(l) /\ DirsOf(l, s, d)

LEMMA ListedBy ==
    ASSUME NEW S, NEW n \in Nat, NEW f \in [1..n -> S]
    PROVE  f \in Seq(S) /\ Len(f) = n /\ DOMAIN f = 1..n
OBVIOUS

LEMMA ListIs ==
    ASSUME NEW S, NEW l \in Seq(S)
    PROVE  Len(l) \in Nat /\ DOMAIN l = 1..Len(l) /\ \A i \in DOMAIN l : l[i] \in S
BY ElementOfSeq

LEMMA EmptyList == \A s, d : GoodList(<<>>, s, d)
  BY EmptySeq DEF GoodList, StarsIn, GamesOnce, DirsOf

\* load_rom_entries: what it lists of a directory.
LEMMA ViewIsGood ==
    ASSUME NEW s \in Systems, NEW d \in Dirs, NEW roms \in SUBSET Seq(STRING), NEW byPath \in BOOLEAN
    PROVE  GoodList(View(s, d, roms, byPath), s, d)
<1> DEFINE inDir == {p \in roms : InDir(p, d)}
           subdirs == {Child(p, d) : p \in {q \in inDir : IsDir(q, d)}}
           files == {p \in inDir : ~IsDir(p, d)}
           top == Sorted(subdirs, byPath)
           rest == Sorted(files, byPath)
           x == [i \in DOMAIN top |-> DirEntry(s, top[i])]
           y == [i \in DOMAIN rest |-> RomEntry(s, rest[i])]
           l == x \o y
<1>1. View(s, d, roms, byPath) = l
  BY DEF View
<1>2. \A p \in subdirs : Len(p) >= 2 /\ Parent(p) = d /\ Leads(d, p)
  <2>1. ASSUME NEW q \in roms, InDir(q, d), IsDir(q, d)
        PROVE  Len(Child(q, d)) >= 2 /\ Parent(Child(q, d)) = d /\ Leads(d, Child(q, d))
    <3>1. q \in Seq(STRING) /\ d \in Seq(STRING) /\ Len(d) # 1
      BY DEF Dirs
    <3> QED BY <3>1, <2>1, ChildLeads
  <2> QED BY <2>1
<1> HIDE DEF subdirs, files
<1>3. /\ Len(top) \in Nat /\ DOMAIN top = 1..Len(top) /\ \A i \in DOMAIN top : top[i] \in subdirs \cap Path
  BY SortedOnce
<1>4. /\ Len(rest) \in Nat /\ DOMAIN rest = 1..Len(rest) /\ \A i \in DOMAIN rest : rest[i] \in Path
      /\ EachOnce(rest)
  BY SortedOnce
<1> HIDE DEF top, rest
<1>5. s \in STRING
  BY SystemsAssumption
<1>6. x \in Seq(EntryType) /\ Len(x) = Len(top) /\ \A i \in 1..Len(top) : x[i] = DirEntry(s, top[i])
  <2>1. x \in [1..Len(top) -> EntryType]
    BY <1>3, <1>5 DEF DirEntry, EntryType
  <2>2. \A i \in 1..Len(top) : x[i] = DirEntry(s, top[i])
    BY <1>3
  <2> HIDE DEF x
  <2> QED BY <2>1, <2>2, <1>3, ListedBy
<1>7. y \in Seq(EntryType) /\ Len(y) = Len(rest) /\ \A i \in 1..Len(rest) : y[i] = RomEntry(s, rest[i])
  <2>1. y \in [1..Len(rest) -> EntryType]
    BY <1>4, <1>5 DEF RomEntry, EntryType, Starred
  <2>2. \A i \in 1..Len(rest) : y[i] = RomEntry(s, rest[i])
    BY <1>4
  <2> HIDE DEF y
  <2> QED BY <2>1, <2>2, <1>4, ListedBy
<1> HIDE DEF x, y
<1>8. /\ l \in Seq(EntryType) /\ Len(l) = Len(top) + Len(rest)
      /\ \A i \in 1..Len(top) + Len(rest) : l[i] = IF i <= Len(top) THEN x[i] ELSE y[i - Len(top)]
  <2>1. /\ l \in Seq(EntryType) /\ Len(l) = Len(x) + Len(y)
        /\ \A i \in 1..Len(x) + Len(y) : l[i] = IF i <= Len(x) THEN x[i] ELSE y[i - Len(x)]
    <3>1. x \in Seq(EntryType) /\ y \in Seq(EntryType)
      BY <1>6, <1>7
    <3> QED BY <3>1, ConcatProperties
  <2> HIDE DEF l
  <2>2. Len(x) = Len(top) /\ Len(y) = Len(rest)
    BY <1>6, <1>7
  <2> QED BY <2>1, <2>2
<1> HIDE DEF l
<1>9. DOMAIN l = 1..Len(top) + Len(rest)
  BY <1>8
<1>10. \A i \in DOMAIN l : \/ i \in 1..Len(top) /\ l[i] = DirEntry(s, top[i])
                           \/ i - Len(top) \in 1..Len(rest) /\ l[i] = RomEntry(s, rest[i - Len(top)])
  <2>1. ASSUME NEW i \in DOMAIN l, i <= Len(top) PROVE i \in 1..Len(top) /\ l[i] = DirEntry(s, top[i])
    BY <2>1, <1>3, <1>6, <1>8, <1>9
  <2>2. ASSUME NEW i \in DOMAIN l, ~(i <= Len(top))
        PROVE  i - Len(top) \in 1..Len(rest) /\ l[i] = RomEntry(s, rest[i - Len(top)])
    <3>1. i - Len(top) \in 1..Len(rest)
      BY <2>2, <1>3, <1>4, <1>9
    <3> QED BY <3>1, <2>2, <1>7, <1>8, <1>9
  <2> QED BY <2>1, <2>2
<1>11. StarsIn(l)
  BY <1>10 DEF StarsIn, DirEntry, RomEntry
<1>12. DirsOf(l, s, d)
  BY <1>2, <1>3, <1>10 DEF DirsOf, DirEntry, RomEntry
<1>13. GamesOnce(l)
  <2> SUFFICES ASSUME NEW i \in DOMAIN l, NEW j \in DOMAIN l, ~l[i].dir, ~l[j].dir, l[i].path = l[j].path
               PROVE  i = j
    BY DEF GamesOnce
  <2>1. i - Len(top) \in 1..Len(rest) /\ l[i].path = rest[i - Len(top)]
    BY <1>10 DEF DirEntry, RomEntry
  <2>2. j - Len(top) \in 1..Len(rest) /\ l[j].path = rest[j - Len(top)]
    BY <1>10 DEF DirEntry, RomEntry
  <2>3. i - Len(top) = j - Len(top)
    BY <2>1, <2>2, <1>4 DEF EachOnce
  <2> QED BY <2>3, <1>3, <1>9
<1> QED
  BY <1>1, <1>8, <1>11, <1>12, <1>13 DEF GoodList

\* A list of the games of a file, each with a star or without.
LEMMA FileListIs ==
    ASSUME NEW games \in Seq(STRING \X Path), EachOnce(games), NEW l, NEW s, NEW d, DOMAIN l = DOMAIN games,
           l = [i \in DOMAIN l |-> l[i]],
           \A i \in DOMAIN games : /\ l[i] \in EntryType /\ ~l[i].dir
                                  /\ l[i].sys = games[i][1] /\ l[i].path = games[i][2]
    PROVE  l \in Seq(EntryType) /\ GamesOnce(l) /\ DirsOf(l, s, d)
<1>1. Len(games) \in Nat /\ DOMAIN games = 1..Len(games) /\ \A i \in DOMAIN games : games[i] \in STRING \X Path
  BY ListIs
<1>2. l \in Seq(EntryType)
  <2>1. l \in [1..Len(games) -> EntryType]
    BY <1>1
  <2> QED BY <2>1, <1>1, ListedBy
<1>3. DirsOf(l, s, d)
  BY DEF DirsOf
<1>4. GamesOnce(l)
  <2> SUFFICES ASSUME NEW i \in DOMAIN l, NEW j \in DOMAIN l, l[i].sys = l[j].sys, l[i].path = l[j].path
               PROVE  i = j
    BY DEF GamesOnce
  <2>1. games[i][1] = games[j][1] /\ games[i][2] = games[j][2]
    OBVIOUS
  <2>2. games[i] = games[j]
    BY <2>1, <1>1
  <2> QED BY <2>2 DEF EachOnce
<1> QED
  BY <1>2, <1>3, <1>4

\* load_favorite_entries, load_recent_entries.
LEMMA FileViewIsGood ==
    ASSUME NEW games \in Seq(STRING \X Path), EachOnce(games), NEW s, NEW d
    PROVE  GoodList(FileView(games), s, d)
<1> DEFINE l == FileView(games)
<1>1. \A i \in DOMAIN games : games[i] \in STRING \X Path
  BY ListIs
<1>2. \A i \in DOMAIN games : games[i][1] \in STRING /\ games[i][2] \in Path
  BY <1>1
<1>3. l = [i \in DOMAIN games |-> RomEntry(games[i][1], games[i][2])]
  BY DEF FileView
<1> HIDE DEF l
<1>4. DOMAIN l = DOMAIN games /\ l = [i \in DOMAIN l |-> l[i]] /\ \A i \in DOMAIN games :
        /\ l[i] \in EntryType /\ ~l[i].dir /\ l[i].sys = games[i][1] /\ l[i].path = games[i][2]
        /\ l[i].star = Starred(games[i][1], games[i][2])
  BY <1>2, <1>3 DEF RomEntry, EntryType, Starred
<1>5. l \in Seq(EntryType) /\ GamesOnce(l) /\ DirsOf(l, s, d)
  BY <1>4, FileListIs
<1>6. StarsIn(l)
  BY <1>4 DEF StarsIn
<1> QED
  BY <1>5, <1>6 DEF GoodList, l

SysIds == STRING \cup {"favorites", "recent", "none"}

FilesOnce ==
    /\ favoriteFile \in Seq(STRING \X Path) /\ EachOnce(favoriteFile)
    /\ recentFile \in Seq(STRING \X Path) /\ EachOnce(recentFile)

Scans ==
    /\ card \in [Systems -> SUBSET Seq(STRING)] /\ cache \in [Systems -> SUBSET Seq(STRING)]
    /\ scan \in [sys : Systems, state : {"running", "ok", "failed"}] \cup {NoScan}
    /\ romSettings \in [graphic : BOOLEAN, wrap : BOOLEAN, byPath : BOOLEAN]

\* A list or gallery of a system is one of a system, also below a menu.
Shown == IF screen = "MENU" THEN menuBack ELSE screen
ScreensAgree ==
    /\ screen = "MENU" => menuBack # "MENU"
    /\ Shown = "ROMS" \/ (Shown = "GALLERY" /\ galleryBack \notin {"FAVORITES", "RECENT"}) => sys \in Systems
    /\ sys \in SysIds /\ dir \in Dirs /\ (dir # <<>> => sys \in Systems /\ Len(dir) >= 2)

Cursors == cursor \in Nat /\ move \in Nat \cup {NoMove} /\ queued \in Nat \cup {NoMove}

\* The memory has one place per directory; in the directories above d it is
\* the entry that leads to d.
Trail(m, s, d) ==
    \A i \in DOMAIN m : m[i].sys = s /\ m[i].dir # d /\ Leads(m[i].dir, d) =>
        Len(m[i].path) >= 2 /\ Leads(m[i].path, d) /\ Parent(m[i].path) = m[i].dir
PlaceType == [sys : SysIds, dir : Dirs, path : Path]
Memory(m) ==
    /\ m \in Seq(PlaceType)
    /\ \A i, j \in DOMAIN m : m[i].sys = m[j].sys /\ m[i].dir = m[j].dir => i = j

BrowserInv ==
    /\ FilesOnce /\ Scans /\ ScreensAgree /\ Cursors /\ GoodList(list, sys, dir)
    /\ Memory(memory) /\ Trail(memory, sys, dir)

LEMMA BrowserStarts == BrowserInit => BrowserInv
<1> SUFFICES ASSUME BrowserInit PROVE BrowserInv
  OBVIOUS
<1> USE DEF BrowserInit
<1>1. FilesOnce
  BY FilesAssumption DEF FilesOnce
<1>2. Scans
  <2>1. card \in [Systems -> SUBSET Seq(STRING)]
    BY PathsAssumption DEF Path
  <2>2. cache \in [Systems -> SUBSET Seq(STRING)]
    BY EmptySeq DEF NoCache
  <2>3. romSettings \in [graphic : BOOLEAN, wrap : BOOLEAN, byPath : BOOLEAN]
    BY SettingsAssumption
  <2> QED BY <2>1, <2>2, <2>3 DEF Scans
<1>3. <<>> \in Dirs /\ Len(<<>>) = 0
  BY EmptySeq DEF Dirs
<1>4. ScreensAgree
  <2>1. screen = "TOP" /\ sys = "none" /\ dir = <<>>
    BY DEF NoSys
  <2> HIDE DEF BrowserInit
  <2>2. Shown = "TOP"
    BY <2>1 DEF Shown
  <2>3. sys \in SysIds
    BY <2>1 DEF SysIds
  <2> QED BY <1>3, <2>1, <2>2, <2>3 DEF ScreensAgree
<1>5. Cursors
  BY DEF Cursors
<1>6. GoodList(list, sys, dir)
  BY EmptyList
<1>7. Memory(memory) /\ Trail(memory, sys, dir)
  BY EmptySeq DEF Memory, Trail
<1> QED
  BY <1>1, <1>2, <1>4, <1>5, <1>6, <1>7 DEF BrowserInv

-----------------------------------------------------------------------------
(* The cursor and its memory.                                                 *)

LEMMA Wrapped == ASSUME NEW x \in Int, NEW n \in Nat, n > 1 PROVE x % n \in Nat
OBVIOUS

LEMMA AfterIsNat ==
    ASSUME Scans, list \in Seq(EntryType), NEW base \in Nat, NEW d \in Int
    PROVE  After(base, d) \in Nat
<1> DEFINE n == Len(list)
           b == Least(base, n - 1)
<1>1. n \in Nat
  BY ListIs
<1>2. CASE n = 0
  BY <1>2 DEF After
<1>3. CASE n # 0 /\ romSettings.wrap /\ n > 1
  <2>1. b + d \in Int
    BY <1>1 DEF Least
  <2>2. After(base, d) = (b + d) % n
    BY <1>3 DEF After
  <2> HIDE DEF n, b
  <2> QED BY <2>1, <2>2, <1>1, <1>3, Wrapped
<1>4. CASE n # 0 /\ ~(romSettings.wrap /\ n > 1)
  <2>1. After(base, d) = Most(0, Least(b + d, n - 1))
    BY <1>4 DEF After
  <2>2. n - 1 \in Int
    BY <1>1
  <2> HIDE DEF n
  <2> QED BY <2>1, <2>2, <1>1 DEF Most, Least
<1> QED
  BY <1>2, <1>3, <1>4

LEMMA IndexIsNat ==
    ASSUME NEW l \in Seq(EntryType), NEW path, Has(l, path)
    PROVE  IndexOf(l, path) \in Nat /\ IndexOf(l, path) + 1 \in DOMAIN l /\ l[IndexOf(l, path) + 1].path = path
<1>1. Len(l) \in Nat /\ DOMAIN l = 1..Len(l)
  BY ListIs
<1>2. IndexOf(l, path) + 1 \in DOMAIN l /\ l[IndexOf(l, path) + 1].path = path
  BY <1>1, EntryFound
<1> DEFINE I == {i \in 1..Len(l) : l[i].path = path}
<1>3. I # {} /\ I \in SUBSET Nat
  BY <1>1 DEF Has
<1>4. Min(I) \in I
  <2> HIDE DEF I
  <2> QED BY <1>3, LeastOf DEF Min
<1>5. IndexOf(l, path) = Min(I) - 1
  BY <1>3 DEF IndexOf, SelectInSeq
<1> QED
  BY <1>2, <1>4, <1>5

LEMMA RestoredIsNat ==
    ASSUME NEW l \in Seq(EntryType), NEW m, NEW s, NEW d PROVE Restored(m, s, d, l) \in Nat
BY IndexIsNat DEF Restored

LEMMA ReselectedIsNat ==
    ASSUME NEW l \in Seq(EntryType) PROVE Reselected(l) \in Nat
BY IndexIsNat DEF Reselected

\* The place found in the memory, if there is one.
PlacesOf(m, s, d) == {j \in 1..Len(m) : m[j].sys = s /\ m[j].dir = d}
PlaceOf(m, s, d) == IF PlacesOf(m, s, d) # {} THEN Min(PlacesOf(m, s, d)) ELSE 0

LEMMA SlotIs ==
    ASSUME NEW m \in Seq(PlaceType), NEW s, NEW d
    PROVE  \/ PlaceOf(m, s, d) = 0 /\ \A j \in DOMAIN m : ~(m[j].sys = s /\ m[j].dir = d)
           \/ /\ PlaceOf(m, s, d) \in DOMAIN m /\ PlaceOf(m, s, d) > 0
              /\ m[PlaceOf(m, s, d)].sys = s /\ m[PlaceOf(m, s, d)].dir = d
<1> DEFINE I == PlacesOf(m, s, d)
           k == PlaceOf(m, s, d)
<1>1. Len(m) \in Nat /\ DOMAIN m = 1..Len(m)
  BY ListIs
<1>2. k = IF I # {} THEN Min(I) ELSE 0
  BY DEF PlaceOf
<1>3. CASE I = {}
  BY <1>1, <1>2, <1>3 DEF PlacesOf
<1>4. CASE I # {}
  <2>1. Min(I) \in I
    <3>1. I \in SUBSET Nat
      BY <1>1 DEF PlacesOf
    <3> HIDE DEF I
    <3> QED BY <3>1, <1>4, LeastOf DEF Min
  <2> QED BY <2>1, <1>1, <1>2, <1>4 DEF PlacesOf
<1> QED
  BY <1>3, <1>4

\* remember_current_rom_cursor: afterwards a place is either the present one or
\* one of before, of another directory.
LEMMA RememberedIs ==
    ASSUME Memory(memory), list \in Seq(EntryType), sys \in SysIds, dir \in Dirs, NEW c \in Nat
    PROVE  /\ Memory(Remembered(c))
           /\ \A i \in DOMAIN Remembered(c) :
                \/ /\ c < Len(list) /\ Remembered(c)[i] = Place(sys, dir, list[c + 1].path)
                \/ /\ c < Len(list) => ~(Remembered(c)[i].sys = sys /\ Remembered(c)[i].dir = dir)
                   /\ \E j \in DOMAIN memory : Remembered(c)[i] = memory[j]
<1> DEFINE m == Remembered(c)
           k == Slot(sys, dir)
           here == Place(sys, dir, list[c + 1].path)
           old == IF Len(memory) >= MemoryMax THEN Tail(memory) ELSE memory
<1>1. CASE c >= Len(list)
  <2>1. m = memory /\ ~(c < Len(list))
    BY <1>1, ListIs DEF Remembered
  <2> QED BY <2>1
<1>2. CASE c < Len(list)
  <2>0. Len(memory) \in Nat /\ DOMAIN memory = 1..Len(memory) /\ \A i \in DOMAIN memory : memory[i] \in PlaceType
    BY ListIs DEF Memory
  <2>1. here \in PlaceType /\ here.sys = sys /\ here.dir = dir
    <3>1. c + 1 \in DOMAIN list
      BY <1>2, ListIs
    <3>2. list[c + 1] \in EntryType
      BY <3>1, ListIs
    <3> QED BY <3>2 DEF Place, PlaceType, EntryType
  <2>2. \/ k = 0 /\ \A j \in DOMAIN memory : ~(memory[j].sys = sys /\ memory[j].dir = dir)
        \/ k \in DOMAIN memory /\ k > 0 /\ memory[k].sys = sys /\ memory[k].dir = dir
    <3>1. k = PlaceOf(memory, sys, dir)
      BY DEF Slot, SelectInSeq, PlaceOf, PlacesOf
    <3>2. memory \in Seq(PlaceType)
      BY DEF Memory
    <3> HIDE DEF k
    <3> QED BY <3>1, <3>2, SlotIs
  <2>3. ~(c >= Len(list))
    BY <1>2, ListIs
  <2>4. m = IF k > 0 THEN [memory EXCEPT ![k] = here] ELSE Append(old, here)
    BY <2>3 DEF Remembered
  <2> HIDE DEF here, k
  <2>5. CASE k \in DOMAIN memory /\ k > 0 /\ memory[k].sys = sys /\ memory[k].dir = dir
    <3>1. m = [memory EXCEPT ![k] = here]
      BY <2>4, <2>5
    <3>2. m \in Seq(PlaceType) /\ DOMAIN m = DOMAIN memory
      <4>1. m \in [1..Len(memory) -> PlaceType]
        BY <3>1, <2>0, <2>1, <2>5
      <4> HIDE DEF m
      <4> QED BY <4>1, <2>0, ListedBy
    <3>3. \A i \in DOMAIN memory : m[i] = IF i = k THEN here ELSE memory[i]
      BY <3>1
    <3> HIDE DEF m
    <3>4. Memory(m)
      <4> SUFFICES ASSUME NEW i \in DOMAIN m, NEW j \in DOMAIN m, m[i].sys = m[j].sys, m[i].dir = m[j].dir
                   PROVE  i = j
        BY <3>2 DEF Memory
      <4>1. memory[i].sys = m[i].sys /\ memory[i].dir = m[i].dir
        BY <3>2, <3>3, <2>1, <2>5
      <4>2. memory[j].sys = m[j].sys /\ memory[j].dir = m[j].dir
        BY <3>2, <3>3, <2>1, <2>5
      <4> QED BY <4>1, <4>2, <3>2 DEF Memory
    <3>5. \A i \in DOMAIN m : i # k => ~(memory[i].sys = sys /\ memory[i].dir = dir)
      BY <3>2, <2>5 DEF Memory
    <3> QED BY <3>2, <3>3, <3>4, <3>5, <1>2 DEF m, here
  <2>6. CASE k = 0 /\ \A j \in DOMAIN memory : ~(memory[j].sys = sys /\ memory[j].dir = dir)
    <3>0. m = Append(old, here)
      BY <2>4, <2>6
    <3>1. /\ old \in Seq(PlaceType)
          /\ \A i \in DOMAIN old : \E j \in DOMAIN memory : old[i] = memory[j]
          /\ \A i, j \in DOMAIN old : old[i].sys = old[j].sys /\ old[i].dir = old[j].dir => i = j
      <4>1. CASE Len(memory) >= MemoryMax
        <5>1. memory # <<>> /\ memory \in Seq(PlaceType)
          <6>1. Len(memory) # 0
            BY <4>1, <2>0, SettingsAssumption
          <6> QED BY <6>1, EmptySeq DEF Memory
        <5>2. /\ Tail(memory) \in Seq(PlaceType) /\ Len(Tail(memory)) = Len(memory) - 1
              /\ \A i \in 1..Len(Tail(memory)) : Tail(memory)[i] = memory[i + 1]
          BY <5>1, HeadTailProperties
        <5>3. old = Tail(memory) /\ DOMAIN old = 1..Len(memory) - 1
          BY <4>1, <5>2, ListIs
        <5>4. \A i \in DOMAIN old : i + 1 \in DOMAIN memory /\ old[i] = memory[i + 1]
          <6> DEFINE n == Len(memory)
          <6>1. n \in Nat /\ DOMAIN memory = 1..n /\ DOMAIN old = 1..n - 1
            BY <5>3, <2>0
          <6>2. \A i \in 1..n - 1 : old[i] = memory[i + 1]
            BY <5>2, <5>3
          <6> HIDE DEF n, old
          <6>3. \A i \in 1..n - 1 : i + 1 \in 1..n
            BY <6>1
          <6> QED BY <6>1, <6>2, <6>3
        <5> HIDE DEF old
        <5>5. ASSUME NEW i \in DOMAIN old, NEW j \in DOMAIN old, old[i].sys = old[j].sys, old[i].dir = old[j].dir
              PROVE  i = j
          <6>1. i + 1 = j + 1
            BY <5>4, <5>5 DEF Memory
          <6> QED BY <6>1, <5>3, <2>0
        <5> QED BY <5>2, <5>3, <5>4, <5>5
      <4>2. CASE ~(Len(memory) >= MemoryMax)
        BY <4>2 DEF Memory
      <4> QED BY <4>1, <4>2
    <3> HIDE DEF old
    <3>2. Len(old) \in Nat /\ DOMAIN old = 1..Len(old)
      BY <3>1, ListIs
    <3>3. /\ m \in Seq(PlaceType) /\ Len(m) = Len(old) + 1
          /\ \A i \in 1..Len(old) : m[i] = old[i]
          /\ m[Len(old) + 1] = here
      BY <3>0, <3>1, <2>1, AppendProperties
    <3> HIDE DEF m
    <3>4. DOMAIN m = 1..Len(old) + 1
      BY <3>3, <3>2, ListIs
    <3>5. \A i \in DOMAIN m : \/ i = Len(old) + 1 /\ m[i] = here
                              \/ i \in DOMAIN old /\ m[i] = old[i] /\ ~(old[i].sys = sys /\ old[i].dir = dir)
      BY <3>1, <3>2, <3>3, <3>4, <2>6
    <3>6. Memory(m)
      <4>1. ASSUME NEW i \in DOMAIN m, NEW j \in DOMAIN m, m[i].sys = m[j].sys, m[i].dir = m[j].dir PROVE i = j
        <5>1. CASE i = Len(old) + 1 /\ j = Len(old) + 1
          BY <5>1
        <5>2. CASE i \in DOMAIN old /\ j \in DOMAIN old /\ m[i] = old[i] /\ m[j] = old[j]
          BY <3>1, <4>1, <5>2
        <5> QED BY <3>5, <4>1, <5>1, <5>2, <2>1
      <4> QED BY <3>3, <4>1 DEF Memory
    <3> QED BY <3>1, <3>5, <3>6, <1>2 DEF m, here
  <2> QED BY <2>2, <2>5, <2>6
<1> QED
  BY <1>1, <1>2, ListIs

-----------------------------------------------------------------------------
(* Parts of a step.                                                           *)

LEMMA ListStays ==
    ASSUME GoodList(list', sys', dir'), favoriteFile' = favoriteFile
    PROVE  GoodList(list, sys, dir)'
<1>1. \A s, p : Starred(s, p)' = Starred(s, p)
  BY DEF Starred
<1> QED
  BY <1>1 DEF GoodList, StarsIn, GamesOnce, DirsOf

LEMMA LoadIsGood ==
    ASSUME Scans, NEW s \in Systems, NEW d \in Dirs, NEW suppressed \in BOOLEAN, NEW ok \in BOOLEAN,
           NEW byPath \in BOOLEAN, Load(s, d, suppressed, ok, byPath)
    PROVE  /\ cache' \in [Systems -> SUBSET Seq(STRING)]
           /\ scan' \in [sys : Systems, state : {"running", "ok", "failed"}] \cup {NoScan}
           /\ GoodList(list', s, d) /\ (~ok => list' = <<>>)
<1>1. cache' \in [Systems -> SUBSET Seq(STRING)]
  BY DEF Load, ScanNow, Scans
<1>2. scan' \in [sys : Systems, state : {"running", "ok", "failed"}] \cup {NoScan}
  <2>1. scan' = scan \/ scan' = Background(s)
    BY DEF Load, Triggered
  <2>2. Background(s) \in [sys : Systems, state : {"running", "ok", "failed"}]
    BY DEF Background
  <2> QED BY <2>1, <2>2 DEF Scans
<1>3. CASE ok
  <2>1. list' = View(s, d, cache'[s], byPath)
    BY <1>3 DEF Load
  <2>2. cache'[s] \in SUBSET Seq(STRING)
    BY <1>1
  <2> QED BY <1>1, <1>2, <1>3, <2>1, <2>2, ViewIsGood
<1>4. CASE ~ok
  <2>1. list' = <<>>
    BY <1>4 DEF Load
  <2> QED BY <1>1, <1>2, <2>1, EmptyList
<1> QED
  BY <1>3, <1>4

\* Places of other directories, and of this one, do not lead anywhere new.
LEMMA TrailStays ==
    ASSUME BrowserInv, NEW c \in Nat
    PROVE  Memory(Remembered(c)) /\ Trail(Remembered(c), sys, dir)
<1> DEFINE m == Remembered(c)
<1>0. Memory(memory) /\ list \in Seq(EntryType) /\ sys \in SysIds /\ dir \in Dirs
  BY DEF BrowserInv, GoodList, ScreensAgree
<1>1. /\ Memory(m)
      /\ \A i \in DOMAIN m : m[i] = Place(sys, dir, list[c + 1].path) \/ \E j \in DOMAIN memory : m[i] = memory[j]
  BY <1>0, RememberedIs
<1> HIDE DEF m
<1>2. Trail(m, sys, dir)
  BY <1>1 DEF Trail, BrowserInv, Place
<1> QED
  BY <1>1, <1>2 DEF m

\* What no step of moving in a list, of a menu or of the scanner changes.
LEMMA FilesStay ==
    ASSUME FilesOnce, UNCHANGED <<favoriteFile, recentFile>> PROVE FilesOnce'
BY DEF FilesOnce

LEMMA ScreensStay ==
    ASSUME ScreensAgree, UNCHANGED <<screen, menuBack, galleryBack, sys>>,
           dir' \in Dirs, dir' # <<>> => sys \in Systems /\ Len(dir') >= 2
    PROVE  ScreensAgree'
BY DEF ScreensAgree, Shown

-----------------------------------------------------------------------------
(* Moving.                                                                    *)

LEMMA Moving ==
    ASSUME BrowserInv, cursor' \in Nat, move' \in Nat \cup {NoMove}, queued' \in Nat \cup {NoMove},
           memory' = memory \/ memory' = Remembered(cursor'),
           NoScanChange, Fixed, UNCHANGED <<World, screen, sys, dir, list>>
    PROVE  BrowserInv'
<1>0. UNCHANGED <<favoriteFile, recentFile, card, cache, scan, romSettings, screen, menuBack, galleryBack, sys, dir, list>>
  BY DEF NoScanChange, Fixed, World
<1>1. FilesOnce' /\ Scans' /\ ScreensAgree' /\ Cursors'
  BY <1>0 DEF BrowserInv, FilesOnce, Scans, ScreensAgree, Shown, Cursors
<1>2. GoodList(list, sys, dir)'
  BY <1>0, ListStays DEF BrowserInv
<1>3. Memory(memory') /\ Trail(memory', sys, dir)
  BY TrailStays DEF BrowserInv
<1> QED
  BY <1>0, <1>1, <1>2, <1>3 DEF BrowserInv

LEMMA MoveInListKeeps == ASSUME BrowserInv, MoveInList PROVE BrowserInv'
<1>0. Scans /\ list \in Seq(EntryType) /\ cursor \in Nat /\ Len(list) \in Nat
      /\ move \in Nat \cup {NoMove} /\ queued \in Nat \cup {NoMove} /\ Window \in Nat
  BY ListIs, SettingsAssumption DEF BrowserInv, GoodList, Cursors
<1>1. \A d \in {-1, 1} : After(cursor, d) \in Nat
  <2>1. \A d \in Int : After(cursor, d) \in Nat
    BY <1>0, AfterIsNat
  <2>2. {-1, 1} \subseteq Int
    OBVIOUS
  <2> QED BY <2>1, <2>2
<1>2. PageDown \in Nat
  <2>1. CASE list = <<>>
    BY <2>1, <1>0 DEF PageDown
  <2>2. CASE list # <<>>
    <3> DEFINE n == Len(list)
    <3>1. n \in Nat \ {0}
      BY <1>0, <2>2, EmptySeq
    <3>2. PageDown = Least(cursor + Window, n - 1)
      BY <2>2 DEF PageDown
    <3> HIDE DEF n
    <3> QED BY <3>1, <3>2, <1>0 DEF Least
  <2> QED BY <2>1, <2>2
<1>3. PageUp \in Nat
  BY <1>0 DEF PageUp, Most
<1>4. cursor' \in Nat /\ (memory' = memory \/ memory' = Remembered(cursor'))
  BY <1>1, <1>2, <1>3 DEF MoveInList, MoveTo
<1>5. /\ UNCHANGED <<move, queued>> /\ NoScanChange /\ Fixed /\ UNCHANGED <<World, screen, sys, dir, list>>
  BY DEF MoveInList, KeepMoves
<1> QED
  BY <1>0, <1>4, <1>5, Moving

LEMMA MoveInGalleryKeeps == ASSUME BrowserInv, MoveInGallery PROVE BrowserInv'
<1>0. Scans /\ list \in Seq(EntryType) /\ cursor \in Nat
      /\ move \in Nat \cup {NoMove} /\ queued \in Nat \cup {NoMove}
  BY DEF BrowserInv, GoodList, Cursors
<1>1. \A d \in {-5, -1, 1, 5} : After(cursor, d) \in Nat /\ (move # NoMove => After(move, d) \in Nat)
  <2>1. \A d \in Int : After(cursor, d) \in Nat
    BY <1>0, AfterIsNat
  <2>2. move \in Nat => \A d \in Int : After(move, d) \in Nat
    BY <1>0, AfterIsNat
  <2>3. {-5, -1, 1, 5} \subseteq Int
    OBVIOUS
  <2> QED BY <1>0, <2>1, <2>2, <2>3
<1>2. /\ cursor' \in Nat /\ (memory' = memory \/ memory' = Remembered(cursor'))
      /\ move' \in Nat \cup {NoMove} /\ queued' \in Nat \cup {NoMove}
  BY <1>0, <1>1 DEF MoveInGallery, MoveTo, StopMoves, KeepMoves
<1>3. NoScanChange /\ Fixed /\ UNCHANGED <<World, screen, sys, dir, list>>
  BY DEF MoveInGallery
<1> QED
  BY <1>2, <1>3, Moving

LEMMA RenderGalleryKeeps == ASSUME BrowserInv, RenderGallery PROVE BrowserInv'
<1>0. list \in Seq(EntryType) /\ cursor \in Nat
      /\ move \in Nat \cup {NoMove} /\ queued \in Nat \cup {NoMove}
  BY DEF BrowserInv, GoodList, Cursors
<1>1. ASSUME StartPending
      PROVE  /\ cursor' \in Nat /\ (memory' = memory \/ memory' = Remembered(cursor'))
             /\ move' \in Nat \cup {NoMove} /\ queued' \in Nat \cup {NoMove}
  <2> DEFINE n == Len(list)
  <2>1. n \in Nat \ {0} /\ queued \in Nat
    BY <1>0, <1>1, EmptySeq DEF StartPending
  <2>2. Least(queued, n - 1) \in Nat
    <3> HIDE DEF n
    <3> QED BY <2>1 DEF Least
  <2> QED BY <1>1, <2>2 DEF StartPending, MoveTo
<1>2. /\ cursor' \in Nat /\ (memory' = memory \/ memory' = Remembered(cursor'))
      /\ move' \in Nat \cup {NoMove} /\ queued' \in Nat \cup {NoMove}
  BY <1>0, <1>1 DEF RenderGallery
<1>3. NoScanChange /\ Fixed /\ UNCHANGED <<World, screen, sys, dir, list>>
  BY DEF RenderGallery
<1> QED
  BY <1>2, <1>3, Moving

-----------------------------------------------------------------------------
(* Opening lists, and the scans.                                              *)

LEMMA TopIsDir == <<>> \in Dirs /\ Len(<<>>) = 0 /\ \A m, s : Memory(m) => Trail(m, s, <<>>)
<1>1. <<>> \in Dirs /\ Len(<<>>) = 0
  BY EmptySeq DEF Dirs
<1>2. ASSUME NEW m, NEW s, Memory(m), NEW i \in DOMAIN m, Leads(m[i].dir, <<>>) PROVE m[i].dir = <<>>
  <2>1. m[i].dir \in Seq(STRING)
    <3>1. m \in Seq(PlaceType)
      BY <1>2 DEF Memory
    <3>2. m[i] \in PlaceType
      BY <3>1, ListIs
    <3> QED BY <3>2 DEF PlaceType, Dirs
  <2>2. Len(m[i].dir) \in Nat /\ Len(m[i].dir) <= 0
    BY <2>1, <1>1, <1>2 DEF Leads
  <2>3. Len(m[i].dir) = 0
    BY <2>2
  <2> QED BY <2>1, <2>3, EmptySeq
<1> QED
  BY <1>1, <1>2 DEF Trail

LEMMA OpenSystemKeeps ==
    ASSUME BrowserInv, NEW s \in Systems, NEW ok \in BOOLEAN, OpenSystem(s, ok) PROVE BrowserInv'
<1>0. /\ UNCHANGED <<card, favoriteFile, recentFile, romSettings, memory>> /\ sys' = s /\ dir' = <<>>
      /\ move' = NoMove /\ queued' = NoMove /\ Load(s, <<>>, FALSE, ok, romSettings.byPath)
      /\ screen' \in {"GALLERY", "ROMS"}
  BY DEF OpenSystem, World, StopMoves
<1>1. Scans /\ romSettings.byPath \in BOOLEAN
  BY DEF BrowserInv, Scans
<1>2. /\ cache' \in [Systems -> SUBSET Seq(STRING)]
      /\ scan' \in [sys : Systems, state : {"running", "ok", "failed"}] \cup {NoScan}
      /\ GoodList(list', s, <<>>)
  BY <1>0, <1>1, TopIsDir, LoadIsGood
<1>3. FilesOnce' /\ Scans'
  BY <1>0, <1>2 DEF BrowserInv, FilesOnce, Scans
<1>4. ScreensAgree'
  BY <1>0, TopIsDir, SystemsAssumption DEF ScreensAgree, Shown, SysIds
<1>5. Cursors'
  <2>1. cursor' = IF ok THEN Restored(memory, s, <<>>, list') ELSE 0
    BY DEF OpenSystem
  <2>2. list' \in Seq(EntryType)
    BY <1>2 DEF GoodList
  <2>3. Restored(memory, s, <<>>, list') \in Nat
    BY <2>2, RestoredIsNat
  <2> QED BY <2>1, <2>3, <1>0 DEF Cursors
<1>6. GoodList(list, sys, dir)'
  BY <1>0, <1>2, ListStays
<1>7. Memory(memory') /\ Trail(memory', sys', dir')
  BY <1>0, TopIsDir DEF BrowserInv
<1> QED
  BY <1>3, <1>4, <1>5, <1>6, <1>7 DEF BrowserInv

LEMMA OpenFileKeeps ==
    ASSUME BrowserInv, NEW name \in {"favorites", "recent"}, NEW games \in {favoriteFile, recentFile},
           NEW target \in {"FAVORITES", "RECENT"}, OpenFile(name, games, target)
    PROVE  BrowserInv'
<1>0. /\ UNCHANGED <<card, cache, scan, favoriteFile, recentFile, romSettings, memory>>
      /\ sys' = name /\ dir' = <<>> /\ screen' = target /\ list' = FileView(games)
      /\ move' = NoMove /\ queued' = NoMove /\ cursor' = Restored(memory, name, <<>>, list')
  BY DEF OpenFile, World, StopMoves, NoScanChange
<1>1. games \in Seq(STRING \X Path) /\ EachOnce(games)
  BY DEF BrowserInv, FilesOnce
<1>2. GoodList(list', sys', dir')
  BY <1>0, <1>1, FileViewIsGood
<1>3. FilesOnce' /\ Scans'
  BY <1>0 DEF BrowserInv, FilesOnce, Scans
<1>4. ScreensAgree'
  BY <1>0, TopIsDir DEF ScreensAgree, Shown, SysIds
<1>5. Cursors'
  <2>1. list' \in Seq(EntryType)
    BY <1>2 DEF GoodList
  <2>2. cursor' \in Nat
    BY <2>1, <1>0, RestoredIsNat
  <2> QED BY <2>2, <1>0 DEF Cursors
<1>6. GoodList(list, sys, dir)'
  BY <1>0, <1>2, ListStays
<1>7. Memory(memory') /\ Trail(memory', sys', dir')
  BY <1>0, TopIsDir DEF BrowserInv
<1> QED
  BY <1>3, <1>4, <1>5, <1>6, <1>7 DEF BrowserInv

\* Where the list is loaded again, or stays, in the directory inDir.
LEMMA Refreshing ==
    ASSUME BrowserInv, Scans', GoodList(list', sys, dir), cursor' \in Nat, ScreensAgree',
           move' \in Nat \cup {NoMove}, queued' \in Nat \cup {NoMove},
           UNCHANGED <<favoriteFile, recentFile, sys, dir, memory>>
    PROVE  BrowserInv'
<1>1. FilesOnce' /\ Cursors'
  BY DEF BrowserInv, FilesOnce, Cursors
<1>2. GoodList(list, sys, dir)'
  BY ListStays
<1>3. Memory(memory') /\ Trail(memory', sys', dir')
  BY DEF BrowserInv
<1> QED
  BY <1>1, <1>2, <1>3 DEF BrowserInv

LEMMA OpenGalleryKeeps == ASSUME BrowserInv, NEW ok \in BOOLEAN, OpenGallery(ok) PROVE BrowserInv'
<1>0. /\ UNCHANGED <<card, favoriteFile, recentFile, romSettings, scan, sys, dir, memory>>
      /\ screen \in Lists /\ screen' = "GALLERY" /\ galleryBack' = screen
      /\ move' = NoMove /\ queued' = NoMove
  BY DEF OpenGallery, World, StopMoves
<1>1. ScreensAgree'
  BY <1>0 DEF BrowserInv, ScreensAgree, Shown, Lists
<1>2. CASE UNCHANGED <<cache, list, cursor>>
  BY <1>0, <1>1, <1>2, Refreshing DEF BrowserInv, Scans, Cursors
<1>3. CASE /\ screen = "ROMS"
           /\ cache' = [cache EXCEPT ![sys] = card[sys]]
           /\ list' = IF ok THEN View(sys, dir, cache'[sys], romSettings.byPath) ELSE <<>>
           /\ cursor' = Reselected(list')
  <2>1. sys \in Systems /\ dir \in Dirs /\ romSettings.byPath \in BOOLEAN
    BY <1>3 DEF BrowserInv, ScreensAgree, Shown, Scans
  <2>2. Scans' /\ cache'[sys] \in SUBSET Seq(STRING)
    BY <1>0, <1>3, <2>1 DEF BrowserInv, Scans
  <2>3. GoodList(list', sys, dir)
    BY <1>3, <2>1, <2>2, ViewIsGood, EmptyList
  <2>4. cursor' \in Nat
    <3>1. list' \in Seq(EntryType)
      BY <2>3 DEF GoodList
    <3> QED BY <3>1, <1>3, ReselectedIsNat
  <2> QED BY <1>0, <1>1, <2>2, <2>3, <2>4, Refreshing
<1> QED
  BY <1>2, <1>3 DEF OpenGallery

LEMMA SaveSortRomsKeeps == ASSUME BrowserInv, NEW ok \in BOOLEAN, SaveSortRoms(ok) PROVE BrowserInv'
<1>0. /\ UNCHANGED <<card, favoriteFile, recentFile, screen, menuBack, galleryBack, sys, dir, memory, move, queued>>
      /\ romSettings' = [romSettings EXCEPT !.byPath = ~@]
  BY DEF SaveSortRoms, KeepMoves, Fixed
<1>1. ScreensAgree' /\ romSettings' \in [graphic : BOOLEAN, wrap : BOOLEAN, byPath : BOOLEAN]
      /\ (~romSettings.byPath) \in BOOLEAN /\ dir \in Dirs
  BY <1>0 DEF BrowserInv, ScreensAgree, Shown, Scans
<1>2. CASE sys \in Systems
  <2>1. Load(sys, dir, FALSE, ok, ~romSettings.byPath) /\ cursor' = IF ok THEN Reselected(list') ELSE 0
    BY <1>2 DEF SaveSortRoms
  <2>2. /\ cache' \in [Systems -> SUBSET Seq(STRING)]
        /\ scan' \in [sys : Systems, state : {"running", "ok", "failed"}] \cup {NoScan}
        /\ GoodList(list', sys, dir)
    <3> DEFINE byPath == ~romSettings.byPath
    <3>1. byPath \in BOOLEAN /\ dir \in Dirs /\ Load(sys, dir, FALSE, ok, byPath)
      BY <1>1, <2>1
    <3>2. Scans
      BY DEF BrowserInv
    <3> HIDE DEF byPath
    <3> QED BY <1>2, <3>1, <3>2, LoadIsGood
  <2>3. cursor' \in Nat
    <3>1. list' \in Seq(EntryType)
      BY <2>2 DEF GoodList
    <3>2. Reselected(list') \in Nat
      BY <3>1, ReselectedIsNat
    <3> QED BY <2>1, <3>2
  <2>4. Scans'
    BY <1>0, <1>1, <2>2 DEF BrowserInv, Scans
  <2> QED BY <1>0, <1>1, <2>2, <2>3, <2>4, Refreshing DEF BrowserInv, Cursors
<1>3. CASE sys \notin Systems
  <2>1. UNCHANGED <<cache, scan, list, cursor>>
    BY <1>3 DEF SaveSortRoms, NoScanChange
  <2>2. Scans'
    BY <1>0, <1>1, <2>1 DEF BrowserInv, Scans
  <2> QED BY <1>0, <1>1, <2>1, <2>2, Refreshing DEF BrowserInv, Cursors
<1> QED
  BY <1>2, <1>3

LEMMA ScannerEndsKeeps == ASSUME BrowserInv, ScannerEnds PROVE BrowserInv'
<1>0. /\ UNCHANGED <<card, favoriteFile, recentFile, romSettings, screen, menuBack, galleryBack, sys, dir, memory,
                     move, queued, list, cursor>>
      /\ scan.state = "running"
  BY DEF ScannerEnds, KeepMoves, Fixed, World
<1>1. scan \in [sys : Systems, state : {"running", "ok", "failed"}]
  BY <1>0 DEF BrowserInv, Scans, NoScan
<1>2. scan' \in [sys : Systems, state : {"running", "ok", "failed"}]
  BY <1>1 DEF ScannerEnds
<1>3. cache' \in [Systems -> SUBSET Seq(STRING)]
  BY <1>1 DEF ScannerEnds, BrowserInv, Scans
<1>4. Scans' /\ ScreensAgree'
  BY <1>0, <1>2, <1>3 DEF BrowserInv, Scans, ScreensAgree, Shown
<1> QED
  BY <1>0, <1>4, Refreshing DEF BrowserInv, Cursors

LEMMA PollScanKeeps == ASSUME BrowserInv, NEW ok \in BOOLEAN, PollScan(ok) PROVE BrowserInv'
<1>0. /\ UNCHANGED <<card, cache, favoriteFile, recentFile, romSettings, screen, menuBack, galleryBack, sys, dir,
                     memory, move, queued>>
      /\ scan' = NoScan /\ scan.state \in {"ok", "failed"}
  BY DEF PollScan, KeepMoves, Fixed, World
<1>1. Scans' /\ ScreensAgree'
  BY <1>0 DEF BrowserInv, Scans, ScreensAgree, Shown
<1>2. CASE UNCHANGED <<list, cursor>>
  BY <1>0, <1>1, <1>2, Refreshing DEF BrowserInv, Cursors
<1>3. CASE /\ sys = scan.sys
           /\ list' = IF ok THEN View(sys, dir, cache[sys], romSettings.byPath) ELSE <<>>
           /\ cursor' = IF ok THEN Reselected(list') ELSE 0
  <2>1. scan \in [sys : Systems, state : {"running", "ok", "failed"}]
    BY <1>0 DEF BrowserInv, Scans, NoScan
  <2>2. sys \in Systems /\ dir \in Dirs /\ romSettings.byPath \in BOOLEAN /\ cache[sys] \in SUBSET Seq(STRING)
    BY <1>3, <2>1 DEF BrowserInv, ScreensAgree, Scans
  <2>3. GoodList(list', sys, dir)
    BY <1>3, <2>2, ViewIsGood, EmptyList
  <2>4. cursor' \in Nat
    <3>1. list' \in Seq(EntryType)
      BY <2>3 DEF GoodList
    <3>2. Reselected(list') \in Nat
      BY <3>1, ReselectedIsNat
    <3> QED BY <1>3, <3>2
  <2> QED BY <1>0, <1>1, <2>3, <2>4, Refreshing DEF BrowserInv, Cursors
<1> QED
  BY <1>2, <1>3 DEF PollScan

\* Steps that leave the list and what is behind it alone.
LEMMA AroundKeeps ==
    ASSUME BrowserInv, CloseGallery \/ OpenMenu \/ CloseMenu \/ CardChanges \/ UNCHANGED browserVars
    PROVE  BrowserInv'
<1>0. /\ UNCHANGED <<favoriteFile, recentFile, romSettings, cache, scan, sys, dir, memory, list, cursor>>
      /\ move' \in {move, NoMove} /\ queued' \in {queued, NoMove}
  BY DEF CloseGallery, OpenMenu, CloseMenu, CardChanges, browserVars, World, NoScanChange, Fixed, StopMoves, KeepMoves
<1>1. card' \in [Systems -> SUBSET Seq(STRING)]
  <2>1. CASE card' = card
    BY <2>1 DEF BrowserInv, Scans
  <2>2. CASE CardChanges
    <3>1. PICK s \in Systems : \E p \in Roms[s] : card' = [card EXCEPT ![s] = IF p \in @ THEN @ \ {p} ELSE @ \cup {p}]
      BY <2>2 DEF CardChanges
    <3>2. Roms[s] \subseteq Seq(STRING)
      BY PathsAssumption DEF Path
    <3> QED BY <3>1, <3>2 DEF BrowserInv, Scans
  <2> QED BY <2>1, <2>2 DEF CloseGallery, OpenMenu, CloseMenu, browserVars, World
<1>2. Scans'
  BY <1>0, <1>1 DEF BrowserInv, Scans
<1>3. ScreensAgree'
  <2>1. CASE CloseGallery
    BY <1>0, <2>1 DEF CloseGallery, BrowserInv, ScreensAgree, Shown
  <2>2. CASE OpenMenu
    BY <1>0, <2>2 DEF OpenMenu, BrowserInv, ScreensAgree, Shown
  <2>3. CASE CloseMenu
    BY <1>0, <2>3 DEF CloseMenu, BrowserInv, ScreensAgree, Shown
  <2>4. CASE UNCHANGED <<screen, menuBack, galleryBack>>
    BY <1>0, <2>4 DEF BrowserInv, ScreensAgree, Shown
  <2> QED BY <2>1, <2>2, <2>3, <2>4 DEF CardChanges, Fixed, browserVars
<1> QED
  BY <1>0, <1>2, <1>3, Refreshing DEF BrowserInv, Cursors

-----------------------------------------------------------------------------
(* Directories.                                                               *)

LEMMA NotOne == \A p \in Seq(STRING) : Len(p) >= 2 => Len(p) \in Nat /\ Len(p) # 1
<1> SUFFICES ASSUME NEW p \in Seq(STRING), Len(p) >= 2 PROVE Len(p) \in Nat /\ Len(p) # 1
  OBVIOUS
<1> DEFINE n == Len(p)
<1>1. n \in Nat /\ n >= 2
  OBVIOUS
<1> HIDE DEF n
<1>2. n # 1
  BY <1>1
<1> QED
  BY <1>1, <1>2 DEF n

LEMMA LeadsOn ==
    ASSUME NEW a \in Seq(STRING), NEW b \in Seq(STRING), NEW c \in Seq(STRING), Leads(a, b), Leads(b, c)
    PROVE  Leads(a, c)
<1> DEFINE n == Len(a)
           k == Len(b)
<1>1. n \in Nat /\ k \in Nat /\ Len(c) \in Nat /\ n <= k /\ k <= Len(c)
  BY DEF Leads
<1>2. (\A i \in 1..n : a[i] = b[i]) /\ \A i \in 1..k : b[i] = c[i]
  BY DEF Leads
<1> HIDE DEF n, k
<1>3. n <= Len(c) /\ \A i \in 1..n : a[i] = c[i]
  BY <1>1, <1>2
<1> QED
  BY <1>3 DEF Leads, n

\* What leads to d and is not d leads to where B goes from d.
LEMMA LeadsToParent ==
    ASSUME NEW a \in Seq(STRING), NEW d \in Seq(STRING), Len(d) >= 2, Len(a) # 1, Leads(a, d), a # d
    PROVE  Leads(a, Parent(d)) /\ Len(a) <= Len(Parent(d))
<1> DEFINE p == Parent(d)
           n == Len(a)
           k == Len(d)
<1>1. p \in Seq(STRING) /\ Leads(p, d) /\ Len(p) = IF k = 2 THEN 0 ELSE k - 1
  BY ParentLeads
<1>2. n \in Nat /\ k \in Nat /\ n <= k /\ (\A i \in 1..n : a[i] = d[i]) /\ k >= 2 /\ n # 1
  BY DEF Leads
<1>3. n # k
  BY <1>2, SamePath
<1>4. \A i \in 1..Len(p) : p[i] = d[i]
  BY <1>1 DEF Leads
<1> HIDE DEF n, k, p
<1>5. n <= Len(p)
  BY <1>1, <1>2, <1>3
<1>6. Len(p) \in Nat
  BY <1>1, <1>2
<1>7. \A i \in 1..n : a[i] = p[i]
  BY <1>2, <1>4, <1>5, <1>6
<1> QED
  BY <1>5, <1>7 DEF Leads, n, p

\* Of what leads to d, only d has the parent of d.
LEMMA OneOfParent ==
    ASSUME NEW q \in Seq(STRING), NEW d \in Seq(STRING), Len(d) >= 2, Len(q) >= 2, Leads(q, d),
           Parent(q) = Parent(d)
    PROVE  q = d
<1> SUFFICES ASSUME q # d PROVE FALSE
  OBVIOUS
<1> DEFINE n == Len(q)
           k == Len(Parent(q))
<1>1. n \in Nat /\ n >= 2 /\ n # 1
  BY NotOne
<1>2. n <= k
  BY <1>1, LeadsToParent
<1>3. k = IF n = 2 THEN 0 ELSE n - 1
  BY ParentLeads
<1> HIDE DEF n, k
<1> QED
  BY <1>1, <1>2, <1>3

LEMMA Dirs2 == \A d \in Dirs : d # <<>> => Len(d) >= 2
<1> SUFFICES ASSUME NEW d \in Dirs, d # <<>> PROVE Len(d) >= 2
  OBVIOUS
<1>1. Len(d) \in Nat /\ Len(d) # 0 /\ Len(d) # 1
  BY EmptySeq DEF Dirs
<1> QED
  BY <1>1, Counting

\* One directory down, the place of the one left leads there.
LEMMA TrailDown ==
    ASSUME BrowserInv, HasSelection, Selected.dir
    PROVE  /\ sys \in Systems /\ Selected.path \in Dirs /\ Len(Selected.path) >= 2
           /\ Memory(Remembered(cursor)) /\ Trail(Remembered(cursor), sys, Selected.path)
<1> DEFINE m == Remembered(cursor)
           d == Selected.path
<1>1. Memory(memory) /\ Trail(memory, sys, dir) /\ list \in Seq(EntryType) /\ sys \in SysIds /\ dir \in Dirs
      /\ cursor \in Nat
  BY DEF BrowserInv, GoodList, ScreensAgree, Cursors
<1>2. cursor + 1 \in DOMAIN list
  BY <1>1, ListIs DEF HasSelection
<1>3. sys \in Systems /\ Len(d) >= 2 /\ Parent(d) = dir /\ Leads(dir, d) /\ d \in Seq(STRING)
  <2>1. Selected \in EntryType
    BY <1>1, <1>2, ListIs DEF Selected
  <2> QED BY <2>1, <1>2 DEF BrowserInv, GoodList, DirsOf, Selected, EntryType, Path
<1>4. /\ Memory(m)
      /\ \A i \in DOMAIN m :
            \/ m[i] = Place(sys, dir, d)
            \/ ~(m[i].sys = sys /\ m[i].dir = dir) /\ \E j \in DOMAIN memory : m[i] = memory[j]
  BY <1>1, RememberedIs DEF HasSelection, Selected
<1> HIDE DEF m, d
<1>5. Leads(d, d)
  <2>1. Len(d) \in Nat
    BY <1>3
  <2> QED BY <2>1 DEF Leads
<1>6. ASSUME NEW i \in DOMAIN m, m[i].sys = sys, m[i].dir # d, Leads(m[i].dir, d)
      PROVE  Len(m[i].path) >= 2 /\ Leads(m[i].path, d) /\ Parent(m[i].path) = m[i].dir
  <2>1. CASE m[i] = Place(sys, dir, d)
    BY <2>1, <1>3, <1>5 DEF Place
  <2>2. CASE ~(m[i].sys = sys /\ m[i].dir = dir) /\ \E j \in DOMAIN memory : m[i] = memory[j]
    <3>1. PICK j \in DOMAIN memory : m[i] = memory[j]
      BY <2>2
    <3>2. m[i].dir \in Seq(STRING) /\ Len(m[i].dir) # 1 /\ m[i].path \in Seq(STRING)
      <4>1. memory \in Seq(PlaceType)
        BY <1>1 DEF Memory
      <4>2. memory[j] \in PlaceType
        BY <4>1, ListIs
      <4> QED BY <4>2, <3>1 DEF PlaceType, Dirs, Path
    <3>3. Leads(m[i].dir, dir)
      BY <3>2, <1>3, <1>6, LeadsToParent
    <3>4. m[i].dir # dir
      BY <2>2, <1>6
    <3>5. Len(m[i].path) >= 2 /\ Leads(m[i].path, dir) /\ Parent(m[i].path) = m[i].dir
      BY <3>1, <3>3, <3>4, <1>1, <1>6 DEF Trail
    <3>6. dir \in Seq(STRING)
      BY <1>1 DEF Dirs
    <3> QED BY <3>2, <3>5, <3>6, <1>3, LeadsOn
  <2> QED BY <2>1, <2>2, <1>4
<1>7. d \in Dirs
  BY <1>3, NotOne DEF Dirs
<1> QED
  BY <1>3, <1>4, <1>6, <1>7 DEF Trail, m, d

\* One directory up, what led to the one left and is above the parent leads to it.
LEMMA TrailUp ==
    ASSUME BrowserInv, dir # <<>>
    PROVE  /\ sys \in Systems /\ Parent(dir) \in Dirs /\ dir \in Seq(STRING) /\ Len(dir) >= 2
           /\ Memory(Remembered(cursor)) /\ Trail(Remembered(cursor), sys, Parent(dir))
<1> DEFINE m == Remembered(cursor)
           p == Parent(dir)
<1>1. sys \in Systems /\ Len(dir) >= 2 /\ dir \in Seq(STRING) /\ Memory(m) /\ Trail(m, sys, dir)
  <2>1. cursor \in Nat
    BY DEF BrowserInv, Cursors
  <2> QED BY <2>1, TrailStays DEF BrowserInv, ScreensAgree, Dirs
<1>2. p \in Seq(STRING) /\ Len(p) # 1 /\ Leads(p, dir) /\ Len(p) = IF Len(dir) = 2 THEN 0 ELSE Len(dir) - 1
  BY <1>1, ParentLeads
<1> HIDE DEF m
<1>3. ASSUME NEW i \in DOMAIN m, m[i].sys = sys, m[i].dir # p, Leads(m[i].dir, p)
      PROVE  Len(m[i].path) >= 2 /\ Leads(m[i].path, p) /\ Parent(m[i].path) = m[i].dir
  <2> DEFINE a == m[i].dir
             q == m[i].path
  <2>1. a \in Seq(STRING) /\ q \in Seq(STRING)
    <3>1. m \in Seq(PlaceType)
      BY <1>1 DEF Memory
    <3>2. m[i] \in PlaceType
      BY <3>1, ListIs
    <3> QED BY <3>2 DEF PlaceType, Dirs, Path
  <2>2. Leads(a, dir)
    BY <2>1, <1>1, <1>2, <1>3, LeadsOn
  <2>3. a # dir
    <3>1. Len(a) <= Len(p)
      BY <1>3 DEF Leads
    <3>2. Len(dir) \in Nat /\ Len(p) < Len(dir)
      <4> DEFINE n == Len(dir)
                 k == Len(p)
      <4>1. n \in Nat /\ n >= 2 /\ k = IF n = 2 THEN 0 ELSE n - 1
        BY <1>1, <1>2
      <4> HIDE DEF n, k
      <4>2. n \in Nat /\ k < n
        BY <4>1
      <4> QED BY <4>2 DEF n, k
    <3>3. Len(a) \in Nat /\ Len(p) \in Nat
      BY <2>1, <1>2
    <3> QED BY <3>1, <3>2, <3>3
  <2>4. Len(q) >= 2 /\ Leads(q, dir) /\ Parent(q) = a
    BY <1>1, <1>3, <2>2, <2>3 DEF Trail
  <2>5. q # dir
    BY <2>4, <1>3
  <2>6. Len(q) # 1
    BY <2>1, <2>4, NotOne
  <2>7. Leads(q, p)
    BY <2>1, <2>4, <2>5, <2>6, <1>1, LeadsToParent
  <2> QED BY <2>4, <2>7
<1>4. p \in Dirs
  BY <1>2 DEF Dirs
<1> QED
  BY <1>1, <1>3, <1>4 DEF Trail, m

\* reload_rom_directory_no_scan
LEMMA Reloading ==
    ASSUME BrowserInv, NEW d \in Dirs, NEW ok \in BOOLEAN, ReloadDirectory(d, ok), sys \in Systems,
           ok => Trail(Remembered(cursor), sys, d), ScreensAgree',
           move' \in {move, NoMove}, queued' \in {queued, NoMove},
           UNCHANGED <<card, favoriteFile, recentFile, romSettings, sys>>
    PROVE  BrowserInv'
<1>0. dir \in Dirs /\ cursor \in Nat /\ romSettings.byPath \in BOOLEAN /\ Scans
  BY DEF BrowserInv, ScreensAgree, Cursors, Scans
<1>1. /\ memory' = Remembered(cursor) /\ Load(sys, d, TRUE, ok, romSettings.byPath)
      /\ dir' = IF ok THEN d ELSE dir
      /\ cursor' = IF ok THEN Restored(memory', sys, d, list') ELSE 0
  BY DEF ReloadDirectory
<1>2. /\ cache' \in [Systems -> SUBSET Seq(STRING)]
      /\ scan' \in [sys : Systems, state : {"running", "ok", "failed"}] \cup {NoScan}
      /\ GoodList(list', sys, d) /\ (~ok => list' = <<>>)
  BY <1>0, <1>1, LoadIsGood
<1>3. FilesOnce' /\ Scans'
  BY <1>2 DEF BrowserInv, FilesOnce, Scans
<1>4. GoodList(list', sys', dir')
  BY <1>1, <1>2, EmptyList
<1>5. GoodList(list, sys, dir)'
  BY <1>4, ListStays
<1>6. Cursors'
  <2>1. Restored(memory', sys, d, list') \in Nat
    BY <1>2, RestoredIsNat DEF GoodList
  <2>2. cursor' \in Nat
    BY <1>1, <2>1
  <2> QED BY <2>2 DEF BrowserInv, Cursors
<1>7. Memory(memory') /\ Trail(memory', sys', dir')
  BY <1>0, <1>1, TrailStays
<1> QED
  BY <1>3, <1>5, <1>6, <1>7 DEF BrowserInv

LEMMA OpenDirectoryKeeps == ASSUME BrowserInv, NEW ok \in BOOLEAN, OpenDirectory(ok) PROVE BrowserInv'
<1>0. /\ ReloadDirectory(Selected.path, ok) /\ HasSelection /\ Selected.dir
      /\ UNCHANGED <<card, favoriteFile, recentFile, romSettings, screen, menuBack, galleryBack, sys, move, queued>>
  BY DEF OpenDirectory, World, Fixed, KeepMoves
<1>1. /\ sys \in Systems /\ Selected.path \in Dirs /\ Len(Selected.path) >= 2
      /\ Trail(Remembered(cursor), sys, Selected.path)
  BY <1>0, TrailDown
<1>2. dir' \in Dirs /\ (dir' # <<>> => Len(dir') >= 2)
  BY <1>0, <1>1 DEF ReloadDirectory, BrowserInv, ScreensAgree
<1>3. ScreensAgree'
  BY <1>0, <1>1, <1>2, ScreensStay DEF BrowserInv
<1> QED
  BY <1>0, <1>1, <1>3, Reloading

LEMMA OpenParentKeeps == ASSUME BrowserInv, OpenParent PROVE BrowserInv'
<1>0. /\ ReloadDirectory(Parent(dir), TRUE) /\ dir # <<>>
      /\ UNCHANGED <<card, favoriteFile, recentFile, romSettings, screen, menuBack, galleryBack, sys, move, queued>>
  BY DEF OpenParent, InSubdirectory, World, Fixed, KeepMoves
<1>1. sys \in Systems /\ Parent(dir) \in Dirs /\ Trail(Remembered(cursor), sys, Parent(dir))
  BY <1>0, TrailUp
<1>2. dir' \in Dirs /\ (dir' # <<>> => Len(dir') >= 2)
  BY <1>0, <1>1, Dirs2 DEF ReloadDirectory
<1>3. ScreensAgree'
  BY <1>0, <1>1, <1>2, ScreensStay DEF BrowserInv
<1> QED
  BY <1>0, <1>1, <1>3, Reloading

LEMMA LeaveListKeeps == ASSUME BrowserInv, LeaveList PROVE BrowserInv'
<1>0. /\ UNCHANGED <<card, favoriteFile, recentFile, romSettings, menuBack, sys>>
      /\ screen' = "TOP" /\ move' = NoMove /\ queued' = NoMove
  BY DEF LeaveList, World, StopMoves
<1>1. CASE memory' = Remembered(cursor) /\ NoScanChange /\ UNCHANGED <<dir, list, cursor>>
  <2>1. FilesOnce' /\ Scans' /\ Cursors'
    BY <1>0, <1>1 DEF BrowserInv, FilesOnce, Scans, Cursors, NoScanChange
  <2>2. ScreensAgree'
    BY <1>0, <1>1 DEF BrowserInv, ScreensAgree, Shown
  <2>3. GoodList(list, sys, dir)'
    BY <1>0, <1>1, ListStays DEF BrowserInv
  <2>4. cursor \in Nat
    BY DEF BrowserInv, Cursors
  <2>5. Memory(memory') /\ Trail(memory', sys', dir')
    BY <1>0, <1>1, <2>4, TrailStays
  <2> QED BY <2>1, <2>2, <2>3, <2>5 DEF BrowserInv
<1>2. CASE InSubdirectory /\ ReloadDirectory(Parent(dir), FALSE)
  <2>1. sys \in Systems /\ Parent(dir) \in Dirs
    BY <1>2, TrailUp DEF InSubdirectory
  <2>2. dir' = dir
    BY <1>2 DEF ReloadDirectory
  <2>3. ScreensAgree'
    BY <1>0, <2>2 DEF BrowserInv, ScreensAgree, Shown
  <2> QED BY <1>0, <1>2, <2>1, <2>3, Reloading
<1> QED
  BY <1>1, <1>2 DEF LeaveList

-----------------------------------------------------------------------------
(* Stars and games.                                                           *)

\* Of the list inDir, the entry that a step is about.
LEMMA SelectedIs ==
    ASSUME BrowserInv, HasSelection
    PROVE  cursor + 1 \in DOMAIN list /\ Selected = list[cursor + 1] /\ Selected \in EntryType
<1>1. list \in Seq(EntryType) /\ cursor \in Nat
  BY DEF BrowserInv, GoodList, Cursors
<1>2. cursor + 1 \in DOMAIN list
  BY <1>1, ListIs DEF HasSelection
<1> QED
  BY <1>1, <1>2, ListIs DEF Selected

\* The star of the selected game alone changes in the list and in the file.
LEMMA StarChanges ==
    ASSUME BrowserInv, HasSelection, ~Selected.dir, NEW b \in BOOLEAN,
           list' = [list EXCEPT ![cursor + 1].star = b], UNCHANGED <<sys, dir>>,
           \A s, p : Starred(s, p)' = IF s = Selected.sys /\ p = Selected.path THEN b ELSE Starred(s, p)
    PROVE  GoodList(list, sys, dir)'
<1> DEFINE c == cursor + 1
<1>1. list \in Seq(EntryType) /\ StarsIn(list) /\ GamesOnce(list) /\ DirsOf(list, sys, dir)
  BY DEF BrowserInv, GoodList
<1>2. c \in DOMAIN list /\ Selected = list[c]
  BY SelectedIs
<1> HIDE DEF c
<1>3. list' = [list EXCEPT ![c].star = b]
  BY DEF c
<1>4. Len(list) \in Nat /\ DOMAIN list = 1..Len(list) /\ \A i \in DOMAIN list : list[i] \in EntryType
  BY <1>1, ListIs
<1>5. /\ DOMAIN list' = DOMAIN list
      /\ \A i \in DOMAIN list : /\ list'[i] \in EntryType /\ list'[i].sys = list[i].sys
                                /\ list'[i].path = list[i].path /\ list'[i].dir = list[i].dir
                                /\ list'[i].star = IF i = c THEN b ELSE list[i].star
  BY <1>2, <1>3, <1>4 DEF EntryType
<1>6. list' \in Seq(EntryType)
  <2>1. list' \in [1..Len(list) -> EntryType]
    BY <1>3, <1>4, <1>5
  <2> QED BY <2>1, <1>4, ListedBy
<1>7. GamesOnce(list') /\ DirsOf(list', sys, dir)
  BY <1>1, <1>5 DEF GamesOnce, DirsOf
<1>8. ASSUME NEW i \in DOMAIN list, ~list[i].dir
      PROVE  list'[i].star = Starred(list[i].sys, list[i].path)'
  <2>1. CASE i = c
    BY <2>1, <1>2, <1>5
  <2>2. CASE i # c
    <3>1. ~(list[i].sys = Selected.sys /\ list[i].path = Selected.path)
      BY <2>2, <1>1, <1>2, <1>8 DEF GamesOnce
    <3> QED BY <2>2, <3>1, <1>1, <1>5, <1>8 DEF StarsIn
  <2> QED BY <2>1, <2>2
<1>9. (StarsIn(list))'
  BY <1>5, <1>8 DEF StarsIn
<1> QED
  BY <1>6, <1>7, <1>9 DEF GoodList, GamesOnce, DirsOf

LEMMA ToggleFavoriteKeeps == ASSUME BrowserInv, ToggleFavorite PROVE BrowserInv'
<1> DEFINE e == <<Selected.sys, Selected.path>>
<1>0. /\ UNCHANGED <<card, recentFile, romSettings, screen, menuBack, galleryBack, sys, dir, memory, move, queued,
                     cache, scan>>
      /\ HasSelection /\ ~Selected.dir
  BY DEF ToggleFavorite, NoScanChange, Fixed, KeepMoves
<1>1. e \in STRING \X Path /\ cursor \in Nat
  <2>1. Selected \in EntryType
    BY <1>0, SelectedIs
  <2> QED BY <2>1 DEF EntryType, BrowserInv, Cursors
<1>2. favoriteFile \in Seq(STRING \X Path) /\ EachOnce(favoriteFile)
  BY DEF BrowserInv, FilesOnce
<1>3. Scans' /\ ScreensAgree' /\ Memory(memory') /\ Trail(memory', sys', dir')
  BY <1>0 DEF BrowserInv, Scans, ScreensAgree, Shown
<1>4. \A s, p : <<s, p>> = e <=> s = Selected.sys /\ p = Selected.path
  OBVIOUS
<1>5. CASE Starred(e[1], e[2]) /\ favoriteFile' = RemoveFirst(favoriteFile, e)
  <2>1. /\ favoriteFile' \in Seq(STRING \X Path) /\ EachOnce(favoriteFile')
        /\ \A x : Holds(favoriteFile', x) <=> x # e /\ Holds(favoriteFile, x)
    <3> DEFINE r == RemoveFirst(favoriteFile, e)
    <3>1. r \in Seq(STRING \X Path) /\ EachOnce(r) /\ \A x : Holds(r, x) <=> x # e /\ Holds(favoriteFile, x)
      <4> HIDE DEF e
      <4> QED BY <1>2, Removed
    <3>2. favoriteFile' = r
      BY <1>5
    <3> HIDE DEF r, e
    <3> QED BY <3>1, <3>2
  <2>2. \A s, p : Starred(s, p)' = IF s = Selected.sys /\ p = Selected.path THEN FALSE ELSE Starred(s, p)
    BY <1>4, <2>1 DEF Starred, Holds
  <2>3. FilesOnce'
    BY <1>0, <2>1 DEF BrowserInv, FilesOnce
  <2>4. CASE /\ list' = [i \in DOMAIN favoriteFile' |->
                            [RomEntry(favoriteFile'[i][1], favoriteFile'[i][2]) EXCEPT !.star = TRUE]]
             /\ cursor' = AfterRemoval(list')
    <3>1. \A i \in DOMAIN favoriteFile' : favoriteFile'[i] \in STRING \X Path
      BY <2>1, ListIs
    <3>2. DOMAIN list' = DOMAIN favoriteFile' /\ list' = [i \in DOMAIN list' |-> list'[i]]
          /\ \A i \in DOMAIN favoriteFile' :
                /\ list'[i] \in EntryType /\ ~list'[i].dir /\ list'[i].star = TRUE
                /\ list'[i].sys = favoriteFile'[i][1] /\ list'[i].path = favoriteFile'[i][2]
      BY <2>4, <3>1 DEF RomEntry, EntryType, Starred
    <3>3. list' \in Seq(EntryType) /\ GamesOnce(list') /\ DirsOf(list', sys, dir)
      BY <2>1, <3>2, FileListIs
    <3>4. (StarsIn(list))'
      <4> SUFFICES ASSUME NEW i \in DOMAIN list' PROVE list'[i].star = (\E j \in DOMAIN favoriteFile' :
                                favoriteFile'[j] = <<list'[i].sys, list'[i].path>>)
        BY DEF StarsIn, Starred
      <4>1. favoriteFile'[i] = <<list'[i].sys, list'[i].path>>
        BY <3>1, <3>2
      <4> QED BY <4>1, <3>2
    <3>5. GoodList(list, sys, dir)'
      BY <1>0, <3>3, <3>4 DEF GoodList, GamesOnce, DirsOf
    <3>6. cursor' \in Nat
      <4>1. list' \in Seq(EntryType)
        BY <3>5 DEF GoodList
      <4>2. CASE list' = <<>>
        BY <2>4, <4>2 DEF AfterRemoval
      <4>3. CASE list' # <<>>
        <5> DEFINE n == Len(list')
        <5>1. n \in Nat /\ n # 0
          BY <4>1, <4>3, EmptySeq
        <5>2. cursor' = Least(cursor, n - 1)
          BY <2>4, <4>3 DEF AfterRemoval
        <5> HIDE DEF n
        <5> QED BY <5>1, <5>2, <1>1 DEF Least
      <4> QED BY <4>2, <4>3
    <3> QED BY <1>0, <1>3, <2>3, <3>5, <3>6 DEF BrowserInv, Cursors
  <2>5. CASE list' = [list EXCEPT ![cursor + 1].star = FALSE] /\ UNCHANGED cursor
    <3>1. GoodList(list, sys, dir)'
      BY <1>0, <2>2, <2>5, StarChanges
    <3> QED BY <1>0, <1>3, <2>3, <2>5, <3>1 DEF BrowserInv, Cursors
  <2>6. \/ /\ list' = [i \in DOMAIN favoriteFile' |->
                            [RomEntry(favoriteFile'[i][1], favoriteFile'[i][2]) EXCEPT !.star = TRUE]]
           /\ cursor' = AfterRemoval(list')
        \/ list' = [list EXCEPT ![cursor + 1].star = FALSE] /\ UNCHANGED cursor
    BY <1>5 DEF ToggleFavorite
  <2> QED BY <2>4, <2>5, <2>6
<1>6. CASE /\ ~Starred(e[1], e[2]) /\ favoriteFile' = Append(favoriteFile, e)
           /\ list' = [list EXCEPT ![cursor + 1].star = TRUE] /\ UNCHANGED cursor
  <2>1. /\ Len(favoriteFile) \in Nat /\ DOMAIN favoriteFile = 1..Len(favoriteFile)
        /\ favoriteFile' \in Seq(STRING \X Path) /\ Len(favoriteFile') = Len(favoriteFile) + 1
        /\ \A i \in 1..Len(favoriteFile) : favoriteFile'[i] = favoriteFile[i]
        /\ favoriteFile'[Len(favoriteFile) + 1] = e
    BY <1>1, <1>2, <1>6, AppendProperties, ListIs
  <2>2. DOMAIN favoriteFile' = 1..Len(favoriteFile) + 1
    BY <2>1, ListIs
  <2>3. \A i \in DOMAIN favoriteFile : favoriteFile[i] # e
    BY <1>6 DEF Starred
  <2>4. EachOnce(favoriteFile')
    BY <1>2, <2>1, <2>2, <2>3 DEF EachOnce
  <2>5. \A x : (\E i \in DOMAIN favoriteFile' : favoriteFile'[i] = x)
                 <=> x = e \/ \E i \in DOMAIN favoriteFile : favoriteFile[i] = x
    <3> HIDE DEF e
    <3> DEFINE n == Len(favoriteFile)
               f == favoriteFile'
    <3>1. /\ n \in Nat /\ DOMAIN favoriteFile = 1..n /\ DOMAIN f = 1..n + 1
          /\ (\A i \in 1..n : f[i] = favoriteFile[i]) /\ f[n + 1] = e
      BY <2>1, <2>2
    <3> HIDE DEF n, f
    <3>2. \A i \in 1..n + 1 : i \in 1..n \/ i = n + 1
      BY <3>1
    <3>3. n + 1 \in 1..n + 1 /\ \A i \in 1..n : i \in 1..n + 1
      BY <3>1
    <3>4. \A x : (\E i \in DOMAIN f : f[i] = x) <=> x = e \/ \E i \in DOMAIN favoriteFile : favoriteFile[i] = x
      BY <3>1, <3>2, <3>3
    <3> QED BY <3>4 DEF f
  <2>6. \A s, p : Starred(s, p)' = IF s = Selected.sys /\ p = Selected.path THEN TRUE ELSE Starred(s, p)
    BY <1>4, <2>5 DEF Starred
  <2>7. FilesOnce'
    BY <1>0, <2>1, <2>4 DEF BrowserInv, FilesOnce, EachOnce
  <2>8. GoodList(list, sys, dir)'
    BY <1>0, <1>6, <2>6, StarChanges
  <2> QED BY <1>0, <1>3, <1>6, <2>7, <2>8 DEF BrowserInv, Cursors
<1> QED
  BY <1>5, <1>6 DEF ToggleFavorite, SaveFavorites

LEMMA HeadOfFile ==
    ASSUME NEW S, NEW f \in Seq(S), EachOnce(f), NEW e \in S, ~Holds(f, e), NEW n \in Nat
    PROVE  /\ SubSeq(<<e>> \o f, 1, Least(Len(<<e>> \o f), n)) \in Seq(S)
           /\ EachOnce(SubSeq(<<e>> \o f, 1, Least(Len(<<e>> \o f), n)))
<1> DEFINE g == <<e>> \o f
           k == Least(Len(g), n)
           h == SubSeq(g, 1, k)
<1>1. Len(f) \in Nat /\ DOMAIN f = 1..Len(f)
  BY ListIs
<1>2. <<e>> \in Seq(S) /\ Len(<<e>>) = 1 /\ <<e>>[1] = e
  OBVIOUS
<1>3. /\ g \in Seq(S) /\ Len(g) = 1 + Len(f)
      /\ \A i \in 1..1 + Len(f) : g[i] = IF i <= 1 THEN <<e>>[i] ELSE f[i - 1]
  BY <1>2, ConcatProperties
<1> HIDE DEF g
<1>4. k \in 0..Len(g)
  BY <1>1, <1>3 DEF Least
<1> HIDE DEF k
<1>5. h \in Seq(S) /\ Len(h) = k /\ \A i \in 1..k : h[i] = g[i]
  BY <1>3, <1>4, Prefix
<1> HIDE DEF h
<1>6. DOMAIN h = 1..k
  BY <1>5, ListIs
<1>7. \A i \in 1..k : (i = 1 /\ h[i] = e) \/ (i - 1 \in DOMAIN f /\ h[i] = f[i - 1])
  <2> SUFFICES ASSUME NEW i \in 1..k PROVE (i = 1 /\ h[i] = e) \/ (i - 1 \in DOMAIN f /\ h[i] = f[i - 1])
    OBVIOUS
  <2>1. i \in 1..1 + Len(f) /\ h[i] = g[i]
    BY <1>1, <1>3, <1>4, <1>5
  <2>2. CASE i = 1
    <3>1. g[i] = <<e>>[1]
      BY <2>1, <2>2, <1>3
    <3>2. h[i] = e
      BY <2>1, <3>1
    <3> QED BY <2>2, <3>2
  <2>3. CASE i # 1
    <3>1. i - 1 \in 1..Len(f) /\ ~(i <= 1)
      BY <2>1, <2>3, <1>1
    <3> QED BY <3>1, <2>1, <1>1, <1>3
  <2> QED BY <2>2, <2>3
<1>8. \A j \in DOMAIN f : f[j] # e
  BY DEF Holds
<1>9. ASSUME NEW i \in 1..k, NEW j \in 1..k, h[i] = h[j] PROVE i = j
  <2>1. CASE i = 1 \/ j = 1
    BY <2>1, <1>7, <1>8, <1>9
  <2>2. CASE i # 1 /\ j # 1
    <3>1. i - 1 = j - 1
      BY <2>2, <1>7, <1>9 DEF EachOnce
    <3>2. k \in Nat
      BY <1>3, <1>4, <1>1
    <3> QED BY <3>1, <3>2
  <2> QED BY <2>1, <2>2
<1>10. h \in Seq(S) /\ EachOnce(h)
  BY <1>5, <1>6, <1>9 DEF EachOnce
<1> QED
  BY <1>10 DEF h, k, g

LEMMA LaunchRomEntryKeeps == ASSUME BrowserInv, LaunchRomEntry PROVE BrowserInv'
<1> DEFINE e == <<Selected.sys, Selected.path>>
           r == RemoveFirst(recentFile, e)
<1>0. /\ UNCHANGED <<card, favoriteFile, romSettings, screen, menuBack, galleryBack, sys, dir, move, queued,
                     cache, scan>>
      /\ HasSelection /\ memory' = Remembered(cursor)
  BY DEF LaunchRomEntry, NoScanChange, Fixed, KeepMoves
<1>1. e \in STRING \X Path /\ cursor \in Nat
  <2>1. Selected \in EntryType
    BY <1>0, SelectedIs
  <2> QED BY <2>1 DEF EntryType, BrowserInv, Cursors
<1>2. recentFile' \in Seq(STRING \X Path) /\ EachOnce(recentFile')
  <2>1. recentFile \in Seq(STRING \X Path) /\ EachOnce(recentFile)
    BY DEF BrowserInv, FilesOnce
  <2>2. \/ recentFile' = recentFile
        \/ recentFile' = SubSeq(<<e>> \o r, 1, Least(Len(<<e>> \o r), RecentsKept))
    BY DEF LaunchRomEntry
  <2>3. r \in Seq(STRING \X Path) /\ EachOnce(r) /\ ~Holds(r, e)
    <3> HIDE DEF e
    <3> QED BY <2>1, Removed
  <2>4. RecentsKept \in Nat
    BY SettingsAssumption
  <2> HIDE DEF e, r
  <2>5. /\ SubSeq(<<e>> \o r, 1, Least(Len(<<e>> \o r), RecentsKept)) \in Seq(STRING \X Path)
        /\ EachOnce(SubSeq(<<e>> \o r, 1, Least(Len(<<e>> \o r), RecentsKept)))
    BY <1>1, <2>3, <2>4, HeadOfFile
  <2> QED BY <2>1, <2>2, <2>5
<1>3. Scans' /\ ScreensAgree'
  BY <1>0 DEF BrowserInv, Scans, ScreensAgree, Shown
<1>4. Memory(memory') /\ Trail(memory', sys', dir')
  BY <1>0, <1>1, TrailStays
<1>5. FilesOnce'
  BY <1>0, <1>2 DEF BrowserInv, FilesOnce, EachOnce
<1>6. CASE list' = FileView(recentFile') /\ cursor' = 0
  <2>1. GoodList(list', sys', dir')
    BY <1>2, <1>6, FileViewIsGood
  <2>2. GoodList(list, sys, dir)'
    BY <1>0, <2>1, ListStays
  <2> QED BY <1>0, <1>3, <1>4, <1>5, <1>6, <2>2 DEF BrowserInv, Cursors
<1>7. CASE UNCHANGED <<list, cursor>>
  <2>1. GoodList(list, sys, dir)'
    BY <1>0, <1>7, ListStays DEF BrowserInv
  <2> QED BY <1>0, <1>3, <1>4, <1>5, <1>7, <2>1 DEF BrowserInv, Cursors
<1> QED
  BY <1>6, <1>7 DEF LaunchRomEntry

-----------------------------------------------------------------------------
LEMMA BrowserKeeps == BrowserInv /\ [BrowserNext]_browserVars => BrowserInv'
<1> SUFFICES ASSUME BrowserInv, [BrowserNext]_browserVars PROVE BrowserInv'
  OBVIOUS
<1>1. ASSUME NEW ok \in BOOLEAN, NEW s \in Systems, OpenSystem(s, ok) PROVE BrowserInv'
  BY <1>1, OpenSystemKeeps
<1>2. ASSUME NEW ok \in BOOLEAN, OpenGallery(ok) PROVE BrowserInv'
  BY <1>2, OpenGalleryKeeps
<1>3. ASSUME NEW ok \in BOOLEAN, OpenDirectory(ok) PROVE BrowserInv'
  BY <1>3, OpenDirectoryKeeps
<1>4. ASSUME NEW ok \in BOOLEAN, SaveSortRoms(ok) PROVE BrowserInv'
  BY <1>4, SaveSortRomsKeeps
<1>5. ASSUME NEW ok \in BOOLEAN, PollScan(ok) PROVE BrowserInv'
  BY <1>5, PollScanKeeps
<1>6. CASE OpenFavorites \/ OpenRecent
  BY <1>6, OpenFileKeeps DEF OpenFavorites, OpenRecent
<1>7. CASE MoveInList \/ MoveInGallery \/ RenderGallery
  BY <1>7, MoveInListKeeps, MoveInGalleryKeeps, RenderGalleryKeeps
<1>8. CASE OpenParent \/ LeaveList
  BY <1>8, OpenParentKeeps, LeaveListKeeps
<1>9. CASE ToggleFavorite \/ LaunchRomEntry
  BY <1>9, ToggleFavoriteKeeps, LaunchRomEntryKeeps
<1>10. CASE CloseGallery \/ OpenMenu \/ CloseMenu \/ CardChanges \/ UNCHANGED browserVars
  BY <1>10, AroundKeeps
<1>11. CASE ScannerEnds
  BY <1>11, ScannerEndsKeeps
<1> QED
  BY <1>1, <1>2, <1>3, <1>4, <1>5, <1>6, <1>7, <1>8, <1>9, <1>10, <1>11 DEF BrowserNext

LEMMA BrowserHolds == BrowserSpec => []BrowserInv
  BY BrowserStarts, BrowserKeeps, PTL DEF BrowserSpec

(* The stars of every list are those of favorites.json, however it was loaded *)
(* and whatever was starred since (mark_favorite_flags,                       *)
(* toggle_current_favorite): GoodList.                                        *)
THEOREM StarsAreTrue == BrowserSpec => []StarsTrue
<1>1. BrowserInv => StarsTrue
  BY DEF BrowserInv, GoodList, StarsIn, StarsTrue
<1> QED
  BY <1>1, BrowserHolds, PTL

(* A list that a scan or a new order replaces keeps the selection, as long as *)
(* it lists it (refresh_current_rom_entries_preserve_cursor): the path is      *)
(* found where the list has it.                                                *)
THEOREM SelectionStays == BrowserSpec => SelectionKept
<1>1. ASSUME BrowserInv', NEW ok \in BOOLEAN, PollScan(ok) \/ SaveSortRoms(ok),
             HasSelection, Has(list', Selected.path)
      PROVE  list'[cursor' + 1].path = Selected.path
  <2>0. list' \in Seq(EntryType)
    BY <1>1 DEF BrowserInv, GoodList
  <2>1. CASE UNCHANGED <<list, cursor>>
    BY <2>1, <1>1 DEF Selected
  <2>2. CASE list' = <<>>
    BY <2>2, <1>1 DEF Has
  <2>3. CASE cursor' = Reselected(list')
    <3>1. cursor' = IndexOf(list', Selected.path)
      BY <2>3, <1>1 DEF Reselected
    <3> QED BY <3>1, <2>0, <1>1, IndexIsNat
  <2> QED BY <2>1, <2>2, <2>3, <1>1 DEF PollScan, SaveSortRoms, Load
<1>2. BrowserInv' => [\A ok \in BOOLEAN :
          (PollScan(ok) \/ SaveSortRoms(ok)) /\ HasSelection /\ Has(list', Selected.path)
            => list'[cursor' + 1].path = Selected.path]_browserVars
  BY <1>1
<1> QED
  BY <1>2, BrowserHolds, PTL DEF SelectionKept

(* B out of a directory selects that directory (open_parent_directory): by     *)
(* Trail the place remembered for the parent is the entry that leads there.    *)
THEOREM BackToPlace == BrowserSpec => ReturnToPlace
<1>1. ASSUME BrowserInv, BrowserInv', OpenParent, Has(list', dir),
             \E i \in DOMAIN memory' : memory'[i].sys = sys /\ memory'[i].dir = dir'
      PROVE  list'[cursor' + 1].path = dir
  <2> DEFINE p == Parent(dir)
             m == memory'
             k == PlaceOf(m, sys, p)
  <2>1. dir # <<>> /\ m = Remembered(cursor) /\ dir' = p /\ cursor' = Restored(m, sys, p, list')
    BY <1>1 DEF OpenParent, InSubdirectory, ReloadDirectory
  <2>2. /\ p \in Dirs /\ dir \in Seq(STRING) /\ Len(dir) >= 2
        /\ Memory(m) /\ Trail(m, sys, dir)
    <3>1. cursor \in Nat
      BY <1>1 DEF BrowserInv, Cursors
    <3> QED BY <1>1, <2>1, <3>1, TrailUp, TrailStays
  <2>3. p \in Seq(STRING) /\ Leads(p, dir) /\ p # dir
    <3>1. p \in Seq(STRING) /\ Leads(p, dir) /\ Len(p) = IF Len(dir) = 2 THEN 0 ELSE Len(dir) - 1
      BY <2>2, ParentLeads
    <3>2. Len(p) # Len(dir)
      <4> DEFINE n == Len(dir)
                 j == Len(p)
      <4>1. n \in Nat /\ n >= 2 /\ j = IF n = 2 THEN 0 ELSE n - 1
        BY <2>2, <3>1
      <4> HIDE DEF n, j
      <4>2. j # n
        BY <4>1
      <4> QED BY <4>2 DEF n, j
    <3> QED BY <3>1, <3>2
  <2>4. m \in Seq(PlaceType)
    BY <2>2 DEF Memory
  <2>5. k \in DOMAIN m /\ k > 0 /\ m[k].sys = sys /\ m[k].dir = p
    <3> HIDE DEF m, p
    <3> QED BY <1>1, <2>1, <2>4, SlotIs DEF m
  <2>6. m[k].path = dir
    <3> DEFINE q == m[k].path
    <3>1. m[k] \in PlaceType
      BY <2>4, <2>5, ListIs
    <3>2. q \in Seq(STRING)
      BY <3>1 DEF PlaceType, Path
    <3>3. Len(q) >= 2 /\ Leads(q, dir) /\ Parent(q) = p
      BY <2>2, <2>3, <2>5 DEF Trail
    <3> QED BY <3>2, <3>3, <2>2, OneOfParent
  <2>7. k = SelectInSeq(m, LAMBDA x : x.sys = sys /\ x.dir = p)
    BY DEF PlaceOf, PlacesOf, SelectInSeq
  <2>8. cursor' = IndexOf(list', dir)
    BY <1>1, <2>1, <2>5, <2>6, <2>7 DEF Restored
  <2>9. list' \in Seq(EntryType)
    BY <1>1 DEF BrowserInv, GoodList
  <2> QED BY <1>1, <2>8, <2>9, IndexIsNat
<1>2. BrowserInv /\ BrowserInv' =>
        [OpenParent /\ Has(list', dir) /\ (\E i \in DOMAIN memory' : memory'[i].sys = sys /\ memory'[i].dir = dir')
           => list'[cursor' + 1].path = dir]_browserVars
  BY <1>1
<1> QED
  BY <1>2, BrowserHolds, PTL DEF ReturnToPlace
=============================================================================
