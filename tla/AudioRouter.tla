---------------------------- MODULE AudioRouter ----------------------------
(* The ALSA plug-in plumos_hotplug: the PCM that every program plays to, and  *)
(* that passes its frames on to the internal DAC or to a USB DAC, whichever   *)
(* is there.  The plug-in is called by alsa-lib (ioplug) in the thread of the *)
(* program; a frame here is a period of the code's arithmetic, positions are  *)
(* taken modulo the buffer as in the code.                                    *)
EXTENDS Integers, FiniteSets, FiniteSetsExt

CONSTANTS
    UsbCards,       \* card numbers that a USB DAC can get
    Buffer,         \* io.buffer_size
    HwBuffer,       \* buffer of the physical PCM
    Period,         \* its start threshold
    ProbeInterval,  \* USB_PROBE_INTERVAL
    FastStreak, NormalStreak,  \* quick or normal transfers before the speed is believed
    Slack           \* frames of the buffer that the program always leaves free

Internal == 0
NoCard == -1
Cards == {Internal} \cup UsbCards

ASSUME CardAssumption == UsbCards \subseteq 1..15 /\ IsFiniteSet(UsbCards)
ASSUME BufferAssumption ==
    /\ Buffer \in Nat /\ HwBuffer \in Nat /\ Period \in 1..Min({Buffer, HwBuffer})
    /\ Slack \in 0..Buffer - Period
    /\ ProbeInterval \in Nat /\ FastStreak \in Nat \ {0} /\ NormalStreak \in Nat \ {0}

VARIABLES
    io,         \* state of the PCM that the program sees
    lastHw,     \* alsa-lib's last position of the plug-in
    queued,     \* frames between the program's position and that one
    plugged,    \* USB cards with a playback node
    busy,       \* cards that another program has open
    refusing,   \* cards that do not take the program's rate or mixer setting
    dev, dq,    \* state and queue of the physical PCM
    physical, submitted, countdown, resync,   \* plumos_pcm_t
    timed, fast, streak,                      \* producer speed; normal streaks count down
    drops,      \* allow_fast_drop, also the non-blocking open
    call,       \* the transfer in progress
    playing     \* the program has decided to play on: no stop, drain or close

client == <<io, lastHw, queued>>
cards == <<plugged, busy, refusing>>
pcm == <<dev, dq>>
speed == <<timed, fast, streak>>
route == <<physical, countdown>>
vars == <<client, cards, pcm, route, submitted, resync, speed, drops, call, playing>>

NoCall == [size |-> 0, done |-> 0, again |-> FALSE, mixed |-> FALSE]
Idle == call = NoCall
Appl == (lastHw + queued) % Buffer

TypeOK ==
    /\ io \in {"setup", "prepared", "running", "xrun", "closed"}
    /\ lastHw \in 0..Buffer - 1 /\ queued \in -Buffer..Buffer
    /\ plugged \subseteq UsbCards /\ busy \subseteq Cards /\ refusing \subseteq Cards \ busy
    /\ dev \in {"none", "setup", "prepared", "running", "xrun", "suspended", "gone"}
    /\ dq \in 0..HwBuffer /\ submitted \in 0..Buffer - 1
    /\ physical \in Cards \cup {NoCard} /\ (physical = NoCard <=> dev = "none")
    /\ countdown \in 0..ProbeInterval /\ streak \in -NormalStreak..FastStreak
    /\ {resync, timed, fast, drops, playing} \subseteq BOOLEAN
    /\ call \in [size : 0..Buffer, done : 0..Buffer, again : BOOLEAN, mixed : BOOLEAN]

Init ==
    /\ io = "setup" /\ lastHw = 0 /\ queued = 0
    /\ plugged \in SUBSET UsbCards /\ busy = {} /\ refusing = {}
    /\ dev = "none" /\ dq = 0
    /\ physical = NoCard /\ submitted = 0 /\ countdown = 0 /\ resync = FALSE
    /\ timed = FALSE /\ fast = FALSE /\ streak = 0
    /\ drops \in BOOLEAN
    /\ call = NoCall /\ playing = FALSE

-----------------------------------------------------------------------------
(* The physical PCM and the cards.                                            *)

Play ==
    /\ dev = "running"
    /\ dq' = dq - 1
    /\ dev' = IF dq = 1 THEN "xrun" ELSE dev
    /\ UNCHANGED <<client, cards, route, submitted, resync, speed, drops, call, playing>>

Suspend ==
    /\ dev = "running"
    /\ dev' = "suspended"
    /\ UNCHANGED <<client, cards, dq, route, submitted, resync, speed, drops, call, playing>>

Unplug(c) ==
    /\ c \in plugged
    /\ plugged' = plugged \ {c}
    /\ busy' = busy \ {c} /\ UNCHANGED refusing
    /\ IF physical = c THEN dev' = "gone" /\ dq' = 0 ELSE UNCHANGED <<dev, dq>>
    /\ UNCHANGED <<client, route, submitted, resync, speed, drops, call, playing>>

Plug(c) ==
    /\ c \in UsbCards \ plugged
    /\ plugged' = plugged \cup {c}
    /\ UNCHANGED <<client, busy, refusing, pcm, route, submitted, resync, speed, drops, call, playing>>

OtherProgram(c) ==
    /\ c \in plugged \cup {Internal} /\ (physical # c \/ dev = "gone") /\ c \notin refusing
    /\ busy' = IF c \in busy THEN busy \ {c} ELSE busy \cup {c}
    /\ UNCHANGED <<client, plugged, refusing, pcm, route, submitted, resync, speed, drops, call, playing>>

\* What a card takes depends on the card, on the program and on the moment.
Refuses(c) ==
    /\ c \notin busy
    /\ refusing' = IF c \in refusing THEN refusing \ {c} ELSE refusing \cup {c}
    /\ UNCHANGED <<client, plugged, busy, pcm, route, submitted, resync, speed, drops, call, playing>>

-----------------------------------------------------------------------------
(* Routes.  A blocking open of a card in use waits, the open of a program     *)
(* with fast-forward drop fails; so does one that the card refuses.           *)

FindCard == IF plugged = {} THEN Internal ELSE Min(plugged)
Held(c) == c \in busy \/ (physical = c /\ dev # "gone")

Fails(c) == IF Held(c) THEN drops ELSE c \in refusing
Failed == [card |-> NoCard, new |-> FALSE]

\* open_physical: no result while it waits.
OpenPhysical(c) ==
    IF Fails(c) THEN {Failed} ELSE IF Held(c) THEN {} ELSE {[card |-> c, new |-> TRUE]}

\* The results switch_route can return: the route it keeps or opens, or ENODEV.
\* Only the first USB card is tried, then the internal one.
SwitchRoute(force) ==
    LET keeps(c) == ~force /\ physical = c
        tries(c) == IF keeps(c) THEN {[card |-> c, new |-> FALSE]} ELSE OpenPhysical(c)
    IN  IF FindCard # Internal /\ ~keeps(FindCard) /\ Fails(FindCard)
        THEN tries(Internal) ELSE tries(FindCard)

\* What a result other than ENODEV leaves of handle and queue.
Adopt(r) ==
    /\ physical' = r.card
    /\ IF r.new
       THEN dev' = "prepared" /\ dq' = 0
       ELSE UNCHANGED pcm

\* snd_pcm_recover: an empty, prepared PCM.  The mixer write that follows succeeds.
Recoverable == dev \in {"xrun", "suspended"}
RecoverPhysical ==
    /\ dev' = "prepared" /\ dq' = 0 /\ resync' = TRUE

ResyncDue == resync /\ io = "running" /\ dev = "prepared"
ResyncPrepared ==
    IF ResyncDue
    THEN /\ submitted' = Appl /\ resync' = FALSE
         /\ timed' = FALSE /\ fast' = FALSE /\ streak' = 0
    ELSE UNCHANGED <<submitted, resync, speed>>

-----------------------------------------------------------------------------
(* The callbacks that do not move frames.  A program that plays on prepares    *)
(* only after an error.                                                       *)

\* plumos_prepare and plumos_stop that keep the old position.
MutantRewind == submitted' = submitted /\ resync' = FALSE
Rewind == submitted' = 0 /\ resync' = FALSE

\* alsa-lib resets its own positions and calls plumos_prepare.
Prepare ==
    /\ Idle /\ io # "closed"
    /\ playing => io \in {"setup", "xrun"}
    /\ \E r \in SwitchRoute(FALSE) :
         /\ lastHw' = 0 /\ queued' = 0
         /\ IF r.card = NoCard
            THEN io' = "setup" /\ UNCHANGED <<route, submitted, resync, pcm>>
            ELSE /\ physical' = r.card
                 /\ countdown' = IF r.new THEN ProbeInterval ELSE countdown
                 /\ Rewind
                 /\ IF ~r.new /\ dev = "gone"
                    THEN io' = "setup" /\ UNCHANGED pcm
                    ELSE io' = "prepared" /\ dev' = "prepared" /\ dq' = 0
    /\ UNCHANGED <<cards, speed, drops, call, playing>>

Start ==
    /\ Idle /\ io = "prepared" /\ queued > 0
    /\ io' = "running"
    /\ UNCHANGED <<lastHw, queued, cards, pcm, route, submitted, resync, speed, drops, call, playing>>

Stop ==
    /\ Idle /\ ~playing /\ io \in {"prepared", "running", "xrun"}
    /\ io' = "setup" /\ resync' = FALSE
    /\ dq' = 0 /\ dev' = IF dev = "gone" THEN dev ELSE "setup"
    /\ UNCHANGED <<lastHw, queued, cards, route, submitted, speed, drops, call, playing>>

Drain ==
    /\ Idle /\ ~playing /\ io = "running"
    /\ io' = "setup"
    /\ dq' = 0 /\ dev' = IF dev = "gone" THEN dev ELSE "setup"
    /\ UNCHANGED <<lastHw, queued, cards, route, submitted, resync, speed, drops, call, playing>>

\* plumos_pointer, and what alsa-lib makes of its result.
Position(delay) == (submitted' + Buffer - delay) % Buffer
Advance(hw) ==
    /\ lastHw' = hw
    /\ queued' = queued - ((hw + Buffer - lastHw) % Buffer)

Pointer ==
    /\ Idle /\ io \in {"prepared", "running"}
    /\ \/ /\ dev = "gone"
          /\ io' = "xrun"
          /\ UNCHANGED <<lastHw, queued, pcm, submitted, resync, speed>>
       \/ /\ Recoverable
          /\ RecoverPhysical
          /\ UNCHANGED <<io, submitted, speed>>
          /\ Advance(Position(0))
       \/ /\ dev \in {"prepared", "running"}
          /\ ResyncPrepared
          /\ Advance(Position(dq))
          /\ UNCHANGED <<io, pcm>>
    /\ UNCHANGED <<cards, route, drops, call, playing>>

PollRevents ==
    /\ Idle /\ io \in {"prepared", "running"}
    /\ \/ ResyncDue /\ ResyncPrepared /\ UNCHANGED pcm
       \/ Recoverable /\ RecoverPhysical /\ UNCHANGED <<submitted, speed>>
    /\ UNCHANGED <<client, cards, route, drops, call, playing>>

-----------------------------------------------------------------------------
(* plumos_transfer: size frames, written one by one.                          *)

UpdateSpeed(quick) ==
    /\ timed' = TRUE
    /\ streak' = IF ~timed THEN streak
                 ELSE IF quick THEN Min({Max({streak, 0}) + 1, FastStreak})
                 ELSE Max({Min({streak, 0}) - 1, -NormalStreak})
    /\ fast' = CASE ~timed -> FALSE
                 [] timed /\ streak' >= FastStreak -> TRUE
                 [] timed /\ streak' <= -NormalStreak -> FALSE
                 [] OTHER -> fast

Convert(size, again) ==
    call' = [size |-> size, done |-> 0, again |-> again, mixed |-> physical' = Internal]

ProbeDue == countdown = 0 \/ physical = NoCard

\* The countdown is started again by each transfer and never runs out.
MutantNextCountdown == ProbeInterval
NextCountdown == IF ProbeDue THEN ProbeInterval ELSE countdown - 1

Transfer(size, quick) ==
    /\ Idle /\ io \in {"prepared", "running"}
    /\ size <= Buffer - queued - Slack
    /\ UpdateSpeed(quick)
    /\ \E r \in IF ProbeDue THEN SwitchRoute(physical = NoCard)
                ELSE {[card |-> physical, new |-> FALSE]} :
         IF r.card = NoCard
         THEN UNCHANGED <<pcm, route, call>>
         ELSE /\ Adopt(r)
              /\ Convert(size, FALSE)
              /\ countdown' = NextCountdown
    /\ UNCHANGED <<client, cards, submitted, resync, drops, playing>>

Writing == ~Idle /\ call.done < call.size

WriteFrame ==
    /\ Writing
    /\ dev \in {"prepared", "running"} /\ dq < HwBuffer
    /\ dq' = dq + 1
    /\ dev' = IF dq' >= Period THEN "running" ELSE dev
    /\ call' = [call EXCEPT !.done = @ + 1]
    /\ UNCHANGED <<client, cards, route, submitted, resync, speed, drops, playing>>

DropExcess ==
    /\ Writing
    /\ dev = "running" /\ dq = HwBuffer
    /\ drops /\ fast
    /\ call' = [call EXCEPT !.done = call.size]
    /\ UNCHANGED <<client, cards, pcm, route, submitted, resync, speed, drops, playing>>

\* The write is tried again on a PCM that is still in XRUN.
MutantWriteRecovers == Writing /\ Recoverable /\ UNCHANGED vars
WriteRecovers ==
    /\ Writing
    /\ Recoverable
    /\ RecoverPhysical
    /\ UNCHANGED <<client, cards, route, submitted, speed, drops, call, playing>>

\* The card is gone: another route and the whole transfer once more.
WriteFails ==
    /\ Writing /\ dev = "gone"
    /\ \E r \in IF call.again THEN {} ELSE SwitchRoute(TRUE) :
         /\ r.card # NoCard
         /\ Adopt(r)
         /\ countdown' = ProbeInterval
         /\ Convert(call.size, TRUE)
    /\ UNCHANGED <<client, cards, submitted, resync, speed, drops, playing>>

TransferFails ==
    /\ Writing /\ dev = "gone"
    /\ call.again \/ Failed \in SwitchRoute(TRUE)
    /\ call' = NoCall
    /\ UNCHANGED <<client, cards, pcm, route, submitted, resync, speed, drops, playing>>

TransferReturns ==
    /\ ~Idle /\ call.done = call.size
    /\ submitted' = (submitted + call.size) % Buffer
    /\ queued' = queued + call.size
    /\ call' = NoCall
    /\ UNCHANGED <<io, lastHw, cards, pcm, route, resync, speed, drops, playing>>

WriteStep == WriteFrame \/ DropExcess \/ WriteRecovers \/ WriteFails \/ TransferFails \/ TransferReturns

Close ==
    /\ Idle /\ ~playing /\ io # "closed"
    /\ io' = "closed" /\ lastHw' = 0 /\ queued' = 0
    /\ dev' = "none" /\ dq' = 0 /\ physical' = NoCard
    /\ submitted' = 0 /\ resync' = FALSE /\ countdown' = 0
    /\ timed' = FALSE /\ fast' = FALSE /\ streak' = 0
    /\ UNCHANGED <<cards, drops, call, playing>>

\* A new program, or the same one again: plumos_hotplug's open function.
Open ==
    /\ io = "closed" /\ io' = "setup" /\ drops' \in BOOLEAN
    /\ UNCHANGED <<lastHw, queued, cards, pcm, route, submitted, resync, speed, call, playing>>

-----------------------------------------------------------------------------
PlaysOn ==
    /\ ~playing /\ io # "closed" /\ playing' = TRUE
    /\ UNCHANGED <<client, cards, pcm, route, submitted, resync, speed, drops, call>>

Environment == Suspend \/ (\E c \in Cards : Unplug(c) \/ Plug(c) \/ OtherProgram(c) \/ Refuses(c))
Transfers == \E size \in 1..Buffer, quick \in BOOLEAN : Transfer(size, quick)

Next ==
    \/ Play \/ Environment
    \/ PlaysOn \/ Open \/ Prepare \/ Start \/ Stop \/ Drain \/ Close
    \/ Pointer \/ PollRevents
    \/ Transfers \/ WriteStep

Spec == Init /\ [][Next]_vars

\* A program that plays keeps calling: it prepares after an error, asks for the
\* position and writes what fits; the clock of the card runs.  A suspend does not
\* hit every single write.
FairSpec ==
    /\ Spec
    /\ WF_vars(Play) /\ WF_vars(Start) /\ WF_vars(Pointer)
    /\ WF_vars(Prepare /\ io \in {"setup", "xrun"})
    /\ SF_vars(Transfers) /\ WF_vars(WriteStep) /\ SF_vars(WriteFrame)

-----------------------------------------------------------------------------
(* Properties.                                                                *)

\* The position that alsa-lib computes modulo the buffer never passes the
\* program's own, and what the card still holds is part of what is not reported
\* as played: no route change, recovery, dropped excess or repeated transfer
\* lets submitted_ptr drift from the frames that were handed over.
PositionBounds ==
    Idle /\ io \in {"prepared", "running"} =>
        /\ queued \in 0..Buffer - Slack
        /\ dq <= queued
        /\ submitted = Appl

\* A card that came back under its number while the dead handle of it was open:
\* the route is kept by the number.
DeadHandle == dev = "gone" /\ physical \in plugged

LeftAlone == playing /\ busy = {} /\ Internal \notin refusing /\ ~DeadHandle

\* Whichever USB cards come, go, are used by others or refuse the program: if the
\* internal card takes it at last, the playback goes on without a new program.
PlaybackGoesOn ==
    <>[]LeftAlone => []<>(call.size > 0 /\ call.done = call.size)

\* The route follows the cards: if the first USB card, or the internal one without
\* any, stays and takes the program, the playback is on that card at last.
RouteFollowsCards ==
    \A c \in Cards :
        <>[](LeftAlone /\ FindCard = c /\ c \notin refusing)
            => <>[](physical = c /\ dev # "gone")
=============================================================================
