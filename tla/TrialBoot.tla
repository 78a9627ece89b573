----------------------------- MODULE TrialBoot -----------------------------
(***************************************************************************)
(* What a System update promises (docs/plumos-v90s-update-contract.md,     *)
(* "System SquashFS Update"): a candidate is booted at most once on trial, *)
(* a running and ready trial is the only way it becomes the active system, *)
(* and every other boot runs the active one.  A staging that fails when    *)
(* its candidate is on record already keeps less: the candidate may become *)
(* active at once, and its trial may replace itself by another one.        *)
(***************************************************************************)
CONSTANTS Versions, None

VARIABLES
    active,    \* the system version that untried boots run
    candidate, \* the staged version, or None
    trial,     \* "none"; "due"; "begun" by this boot; "spent" by an earlier one
    running,   \* the version that runs, or None
    fault      \* "none"; "late": the staging of the candidate failed after it was
               \* recorded; "overrun": a trial has replaced what it runs from

vars == <<active, candidate, trial, running, fault>>

TypeOK ==
    /\ active \in Versions
    /\ candidate \in Versions \cup {None}
    /\ running \in Versions \cup {None}
    /\ trial \in {"none", "due", "begun", "spent"}
    /\ fault \in {"none", "late", "overrun"}

Init ==
    /\ active \in Versions
    /\ candidate = None /\ trial = "none" /\ running = None
    /\ fault = "none"

Stage(v) ==
    /\ running = active /\ candidate = None /\ v # active
    /\ candidate' = v /\ trial' = "due"
    /\ UNCHANGED <<active, running, fault>>

FailLate ==
    /\ running = active /\ trial = "due"
    /\ fault' = "late"
    /\ UNCHANGED <<active, candidate, trial, running>>

BeginTrial ==
    /\ running = None /\ trial = "due"
    /\ trial' = "begun"
    /\ UNCHANGED <<active, candidate, running, fault>>

BootTrial ==
    /\ running = None /\ trial = "begun"
    /\ running' = candidate
    /\ UNCHANGED <<active, candidate, trial, fault>>

BootActive ==
    /\ running = None /\ candidate = None
    /\ running' = active
    /\ UNCHANGED <<active, candidate, trial, fault>>

Decided == candidate' = None /\ trial' = "none" /\ fault' = "none"

Reject ==
    /\ running = None /\ candidate # None
    /\ Decided
    /\ UNCHANGED <<active, running>>

Promote ==
    /\ trial = "begun" /\ running = candidate
    /\ active' = candidate /\ Decided
    /\ UNCHANGED running

\* the readiness of the system that staged the candidate
PromoteUntried ==
    /\ fault = "late" /\ trial = "due" /\ running = active
    /\ active' = candidate /\ Decided
    /\ UNCHANGED running

Overrun ==
    /\ fault = "late" /\ trial = "begun" /\ running = candidate
    /\ fault' = "overrun"

PowerOff ==
    /\ running' = None
    /\ trial' = IF trial = "begun" THEN "spent" ELSE trial
    /\ UNCHANGED <<active, candidate, fault>>

\* no promise after an overrun, until the trial is rejected
Broken == fault = "overrun" /\ UNCHANGED fault

Next ==
    \/ \E v \in Versions : Stage(v)
    \/ FailLate
    \/ BeginTrial \/ BootTrial \/ BootActive \/ Reject \/ Promote \/ PowerOff
    \/ PromoteUntried \/ Overrun \/ Broken

Spec == Init /\ [][Next]_vars
=============================================================================
