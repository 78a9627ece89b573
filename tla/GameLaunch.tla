----------------------------- MODULE GameLaunch -----------------------------
(***************************************************************************)
(* Starting a game: the frontend runs plumos-text-ui launch, which takes   *)
(* the game from the library cache, resolves its launch profile, saves the *)
(* recent list and the resume session, runs the emulator, saves the volume *)
(* that the keys left, and clears the session.  At boot, with boot resume  *)
(* on, plumos-text-ui boot runs the head of the recent list again.         *)
(* Profiles and CPU policies are chosen per system and per game, and an    *)
(* update may change which profiles are listed.                            *)
(*                                                                         *)
(* Recents, session and overrides are each replaced by fflush, fsync,      *)
(* rename, fsync of the directory: one durable step here.                  *)
(***************************************************************************)
EXTENDS DeviceSettings, Sequences, SequencesExt

CONSTANTS
    Games,             \* games of one system that are in its library cache
    Missing,           \* a game that is in a list, but not in the cache
    Profiles,          \* launch profiles of the system
    Releases,          \* the sets of profiles that a release may list
    Companion,         \* RetroArch profile -> the PicoArch profile of its core
    Policies,          \* CPU policies
    Options,           \* content suffix, audio and DOSBox options of a game
    Default,           \* default_launch_profile
    BootResume,        \* boot_resume_mode is "on"
    MaxRecents,        \* MAX_RECENTS
    MaxRomOverrides,   \* MAX_ROM_CORE_OVERRIDES
    MaxOrders,         \* bound: launches, choices and saves by the user
    MaxCuts            \* bound: power losses

Unset == "unset"

ASSUME LaunchAssumption ==
    /\ Missing \notin Games /\ Default \in Profiles \cup {Unset}
    /\ Releases \subseteq SUBSET Profiles /\ Releases # {}
    /\ \A p \in DOMAIN Companion : p \in Profiles /\ Companion[p] \in Profiles
    /\ MaxRecents \in Nat \ {0} /\ MaxRomOverrides \in Nat
    /\ MaxOrders \in Nat /\ MaxCuts \in Nat /\ BootResume \in BOOLEAN

NoGame == "no game"

System == "system"

Targets == Games \cup {System}

VARIABLES
    listed,      \* launch_profiles of the system, by the release
    recents,     \* recent.json: [game, profile], latest first
    session,     \* resume-session.json: the pending game
    overrides,   \* core-overrides.json: [profile, cpu, option] of each target
    step,        \* where the launcher is
    launch,      \* the game that it launches, and its profile
    running,     \* the game that the emulator runs
    saves,       \* history: the games saved as recent, in order
    orders, cuts

launcher == <<step, launch, running>>
vars == <<settings, listed, recents, session, overrides, step, launch, running, saves, orders, cuts>>

NoLaunch == [game |-> NoGame, profile |-> Unset, cpu |-> Unset, option |-> Unset]

Empty == [profile |-> Unset, cpu |-> Unset, option |-> Unset]

(* The profiles of the release with the default one, and those that        *)
(* PicoArch has for the same cores while its adapter is installed.         *)
Listing(release, adapter) ==
    LET own == release \cup ({Default} \ {Unset})
    IN own \cup {Companion[p] : p \in {q \in DOMAIN Companion \cap own : adapter}}

Listings == {Listing(release, adapter) : release \in Releases, adapter \in BOOLEAN}

Init ==
    /\ DeviceInit
    /\ listed \in Listings /\ recents = <<>> /\ session = NoGame
    /\ overrides = [t \in Targets |-> Empty]
    /\ step = "idle" /\ launch = NoLaunch /\ running = NoLaunch
    /\ saves = <<>> /\ orders = 0 /\ cuts = 0

Order == orders < MaxOrders /\ orders' = orders + 1

-----------------------------------------------------------------------------
(* Launch profile *)

IsListed(profile) == profile \in listed

(* The choice for the game, else for the system, else the default, of      *)
(* those that are listed; "auto" runs nothing.                             *)
Resolve(g) ==
    LET choice == SelectSeq(<<overrides[g].profile, overrides[System].profile, Default>>, IsListed)
    IN IF choice = <<>> THEN Unset ELSE Head(choice)

Policy(g) == IF overrides[g].cpu # Unset THEN overrides[g].cpu ELSE overrides[System].cpu

Option(g) == overrides[g].option

Plan(g, profile) == [game |-> g, profile |-> profile, cpu |-> Policy(g), option |-> Option(g)]

(* --no-scan: the entries are those of the cache as it is.                 *)
Entries == Games

InCache(g) == g \in Entries

(* Launches from a list of games resolve; those from RECENT ask for the    *)
(* profile of the entry, which must be listed.  The plan is refused when   *)
(* the runtime, the core or the content is not there.                      *)
Begin(g, profile) ==
    /\ step = "idle" /\ saving = Idle /\ Order
    /\ \/ /\ InCache(g) /\ IsListed(profile)
          /\ step' = "recents" /\ launch' = Plan(g, profile)
       \/ UNCHANGED <<step, launch>>
    /\ UNCHANGED <<settings, listed, recents, session, overrides, running, saves, cuts>>

LaunchGame(g) == Begin(g, IF InCache(g) THEN Resolve(g) ELSE Unset)

LaunchRecent(i) == Begin(recents[i].game, recents[i].profile)

-----------------------------------------------------------------------------
(* Recents, session, emulator *)

Found(list, game) == {i \in DOMAIN list : list[i].game = game}

(* The length of the list with this game.                                  *)
Size(list, game) == IF Found(list, game) = {} /\ Len(list) < MaxRecents THEN Len(list) + 1 ELSE Len(list)

(* Mutant: the entries before the found one are moved one short.           *)
MutantPosition(list, game) ==
    IF Found(list, game) = {} THEN Size(list, game) ELSE Min(Found(list, game)) - 1

(* Where the entry of the game is, or the end of the list for a new game.  *)
Position(list, game) == IF Found(list, game) = {} THEN Size(list, game) ELSE Min(Found(list, game))

(* The entries before this place move one on, and the new one comes first: *)
(* a new game pushes the last one out of a full list.                      *)
Added(list, entry) ==
    LET at == Position(list, entry.game)
    IN [i \in 1 .. Size(list, entry.game) |->
            IF i = 1 THEN entry ELSE IF i <= at THEN list[i - 1] ELSE list[i]]

(* Mutant: the session is started with the list as it was.                 *)
MutantSaveRecents ==
    /\ step = "recents" /\ step' = "session"
    /\ saves' = Append(saves, launch.game)
    /\ UNCHANGED <<settings, listed, recents, session, overrides, launch, running, orders, cuts>>

SaveRecents ==
    /\ step = "recents" /\ step' = "session"
    /\ recents' = Added(recents, [game |-> launch.game, profile |-> launch.profile]) /\ saves' = Append(saves, launch.game)
    /\ UNCHANGED <<settings, listed, session, overrides, launch, running, orders, cuts>>

SaveSession ==
    /\ step = "session" /\ step' = "start"
    /\ session' = launch.game
    /\ UNCHANGED <<settings, listed, recents, overrides, launch, running, saves, orders, cuts>>

(* Neither launches without its save.                                      *)
SaveDenied ==
    /\ step \in {"recents", "session"} /\ step' = "back"
    /\ UNCHANGED <<settings, listed, recents, session, overrides, launch, running, saves, orders, cuts>>

Start ==
    /\ step \in {"start", "resume"} /\ running' = launch
    /\ step' = IF step = "start" THEN "playing" ELSE "resumed"
    /\ UNCHANGED <<settings, listed, recents, session, overrides, launch, saves, orders, cuts>>

Stop ==
    /\ step \in {"playing", "resumed"} /\ running # NoLaunch /\ running' = NoLaunch
    /\ HelperReads("launcher", "volume")
    /\ step' = IF step = "playing" THEN "persist" ELSE "restore"
    /\ UNCHANGED <<listed, recents, session, overrides, launch, saves, orders, cuts>>

(* The cleared session may fail to be written: a warning.                  *)
ClearSession ==
    /\ step = "persist" /\ helper["launcher"] = Idle /\ step' = "back"
    /\ session' \in {NoGame, session}
    /\ UNCHANGED <<settings, listed, recents, overrides, launch, running, saves, orders, cuts>>

(* The frontend goes on: it reads the settings that the game may have      *)
(* changed.                                                                *)
Return ==
    /\ step = "back" /\ Reload /\ step' = "idle" /\ launch' = NoLaunch
    /\ UNCHANGED <<listed, recents, session, overrides, running, saves, orders, cuts>>

-----------------------------------------------------------------------------
(* Power loss and boot *)

(* An update may come with the restart: `listed` is that of any release.   *)
PowerCut ==
    /\ step # "boot" /\ cuts < MaxCuts /\ cuts' = cuts + 1
    /\ \E saved \in versions : RestartWith(saved)
    /\ listed' \in Listings
    /\ step' = "boot" /\ launch' = NoLaunch /\ running' = NoLaunch
    /\ UNCHANGED <<recents, session, overrides, saves, orders>>

(* The profile of the entry, or the choice of now when it is not listed.   *)
BootProfile(entry) == IF IsListed(entry.profile) THEN entry.profile ELSE Resolve(entry.game)

Boot ==
    /\ step = "boot"
    /\ \/ /\ BootResume /\ recents # <<>> /\ BootProfile(Head(recents)) # Unset
          /\ step' = "resume" /\ launch' = Plan(Head(recents).game, BootProfile(Head(recents)))
       \/ step' = "restore" /\ UNCHANGED launch
    /\ UNCHANGED <<settings, listed, recents, session, overrides, running, saves, orders, cuts>>

(* The frontend shows its first screen.                                    *)
Restore ==
    /\ step = "restore" /\ helper["launcher"] = Idle /\ ApplyBrightness
    /\ step' = "idle" /\ launch' = NoLaunch
    /\ UNCHANGED <<listed, recents, session, overrides, running, saves, orders, cuts>>

-----------------------------------------------------------------------------
(* Core selector and settings screen *)

Full(t) == t # System /\ overrides[t] = Empty
           /\ Cardinality({g \in Games : overrides[g] # Empty}) >= MaxRomOverrides

Chosen(t, field, value) == [overrides EXCEPT ![t][field] = value]

(* The file is replaced, or the save fails.                                *)
SavedAs(new) == overrides' \in {new, overrides}

(* One core command: a profile must be listed, and none is added beyond    *)
(* the limit.  An empty choice is not kept as an entry.                    *)
Choose(t, field, value) ==
    /\ step = "idle" /\ saving = Idle /\ Order
    /\ value # Unset => ~Full(t)
    /\ SavedAs(Chosen(t, field, value))
    /\ UNCHANGED <<settings, listed, recents, session, launcher, saves, cuts>>

(* LEFT and RIGHT go round the listed profiles, A takes the choice back.   *)
ChooseProfile(t) ==
    \/ \E p \in listed : Cardinality(listed) > 1 /\ Choose(t, "profile", p)
    \/ Choose(t, "profile", Unset)

ChoosePolicy(t) == \E p \in Policies : Choose(t, "cpu", p)

(* Options are those of a game, never of the system.                       *)
ChooseOption(g) == \E o \in Options \cup {Unset} : Choose(g, "option", o)

ChangeSetting(k, direction) ==
    /\ step = "idle" /\ SaveBegins(k, direction) /\ Order
    /\ UNCHANGED <<listed, recents, session, overrides, launcher, saves, cuts>>

Rest == <<listed, recents, session, overrides, launcher, saves, orders, cuts>>

Screen == step = "idle" /\ (SaveReplaces \/ SaveApplies \/ SaveFails \/ Reload) /\ UNCHANGED Rest

Daemon ==
    /\ step # "boot"
    /\ \/ \E k \in Kinds, direction \in {1, -1} : Press(k, direction)
       \/ \E k \in Kinds : HelperReads("keys", k)
       \/ Helper("keys")
    /\ UNCHANGED Rest

VolumeSave == Helper("launcher") /\ UNCHANGED Rest

Launch ==
    \/ \E g \in Games \cup {Missing} : LaunchGame(g)
    \/ \E i \in DOMAIN recents : LaunchRecent(i)
    \/ SaveRecents \/ SaveSession \/ SaveDenied \/ Start \/ Stop \/ ClearSession \/ Return

User ==
    \/ \E t \in Targets : ChooseProfile(t) \/ ChoosePolicy(t)
    \/ \E g \in Games : ChooseOption(g)
    \/ \E k \in Keys, direction \in {1, -1} : ChangeSetting(k, direction)

Next == Launch \/ User \/ Screen \/ Daemon \/ VolumeSave \/ PowerCut \/ Boot \/ Restore

Spec == Init /\ [][Next]_vars

-----------------------------------------------------------------------------
(* The game that runs is the head of the recent list, so a power loss or   *)
(* boot resume brings back this game and no other; its profile is that of  *)
(* the entry while the release lists it.                                   *)
RunningIsRecent ==
    running # NoLaunch =>
        /\ recents # <<>> /\ Head(recents).game = running.game
        /\ Head(recents).profile \in listed => Head(recents).profile = running.profile

(* The recent list has every launched game once, the latest launch first,  *)
(* and leaves out only those that were launched before all of its own.     *)
RecentOrder ==
    LET latest(g) == SelectLastInSeq(saves, LAMBDA x : x = g)
        names == [i \in DOMAIN recents |-> recents[i].game]
    IN /\ Len(names) <= MaxRecents /\ IsInjective(names)
       /\ \A i \in DOMAIN names : \A g \in ToSet(saves) \ {names[j] : j \in 1 .. i} :
              latest(names[i]) > latest(g)
       /\ Len(names) < MaxRecents => ToSet(names) = ToSet(saves)
=============================================================================
