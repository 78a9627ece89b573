------------------------- MODULE SystemUpdateProofs -------------------------
(***************************************************************************)
(* Proofs about SystemUpdate for any versions and packages, two slots of   *)
(* any name, and apply_system that fails anywhere.  The inductive          *)
(* invariant says what each place in the boot and in the session may rely  *)
(* on: Safe as long as no running image was replaced, Spared while the     *)
(* slot of a replaced one is still on trial.                               *)
(***************************************************************************)
EXTENDS SystemUpdate, TLAPS

Good(s) == image[s] \in Versions /\ digest[s] = image[s]

\* a slot is staged and is not the active one
Staged == pending \notin {None, active}

\* the steps of apply_system before system-pending, and after it
Writing == pc \in {"copy", "digest", "publish", "pend"}
Recorded == pc \in {"unmark", "consume", "reboot"}

\* the session of a trial, and the one that follows a staging that failed late
Trial == attempted /\ tried /\ slot = pending
Leftover == late /\ ~tried /\ slot = active /\ Good(pending)

\* mark-healthy and the request run in the session only.
Control ==
    /\ Writing => request # None
    /\ frontend # "down" => pc = "session"
    /\ lock = "ui" => pc = "session"
    /\ confirm \in {"promote", "unpend", "unmark"} => pc = "session"
    /\ confirm = "promote" => pending # None

\* The slot that boots when everything else fails is whole.
ActiveGood == Good(active)

\* A boot has a slot once it has selected one: the staged slot if there is one.
Chosen ==
    /\ pc \in {"off", "inspect", "select"} => slot = None
    /\ pc \in {"markers", "verify"} => slot = IF pending = None THEN active ELSE pending
    /\ pc = "forget" => pending = None
    /\ pc = "drop" => pending # None

\* A fast boot has nothing staged.
NoFastTrial ==
    pc \in {"select", "drop", "forget", "markers", "verify"} /\ fast => pending = None

\* A boot with a staged slot that came past the selection is its trial; a session
\* with one may also be that of the system that staged it and failed.
OnTrial ==
    /\ Staged => digest[pending] \in Versions /\ (tried => attempted)
    /\ pc \in {"markers", "verify", "apply", "copy"} /\ Staged => Trial
    /\ pc \in {"launch", "session"} /\ Staged => Trial \/ Leftover
    /\ Running => Good(slot)
    /\ pc = "apply" /\ ~Staged => slot = active

\* A request outlives its staging only as the request for the staged version, which
\* the trial boot finds incompatible; unless a session followed a late failure.
Consumed ==
    Staged /\ ~late /\ (~attempted \/ pc \in {"markers", "verify", "apply"}) =>
        request = None \/ request.version = digest[pending]

\* apply_system writes the slot that neither runs nor boots.  A trial system only
\* comes to the copy with the request of a session that followed a late failure.
Apart ==
    /\ Writing => (slot = active /\ ~Staged) \/ (pc = "copy" /\ Staged /\ late)
    /\ Writing /\ ~Staged => request.version # digest[active]
    /\ pc \in {"digest", "publish", "pend"} =>
          \A s \in Slots \ {active} : image[s] = request.version
    /\ pc \in {"publish", "pend"} =>
          \A s \in Slots \ {active} : digest[s] = request.version
    /\ Recorded => slot = active /\ Staged /\ ~tried /\ Good(pending)
    /\ pc \in {"unmark", "consume"} => request # None /\ request.version = digest[pending]
    /\ pc = "unmark" => request.version # digest[active]

\* mark-healthy first promotes, then forgets the pending slot.
Confirming ==
    /\ confirm = "unpend" => pending = active
    /\ confirm = "unmark" => pending = None

Safe ==
    /\ ActiveGood /\ Chosen /\ NoFastTrial /\ OnTrial /\ Consumed
    /\ Apart /\ Confirming /\ pc # "recovery"

\* A trial system that replaced its own image has spared the active one.
Spared ==
    /\ ActiveGood /\ Chosen /\ NoFastTrial /\ Staged
    /\ confirm \notin {"unpend", "unmark"} /\ pc # "recovery"

Inv ==
    /\ TypeOK /\ Control
    /\ overrun = "no" => Safe
    /\ overrun = "trial" => Spared

-----------------------------------------------------------------------------
\* apply_system's slot is the one that system-active does not name.
LEMMA InactiveSlot ==
    ASSUME active \in Slots
    PROVE  /\ Inactive \in Slots /\ Inactive # active
           /\ Slots = {active, Inactive} /\ None \notin Slots
<1>1. \E s \in Slots : s # active
  BY SlotsAssumption
<1>2. Inactive \in Slots /\ Inactive # active
  BY <1>1 DEF Inactive
<1> QED
  BY <1>2, SlotsAssumption

LEMMA InitInv == Init => Inv
  BY SlotsAssumption, ValuesAssumption, PackagesAssumption
  DEF Init, Inv, TypeOK, Control, Safe, ActiveGood, Good, Chosen, NoFastTrial, OnTrial,
      Trial, Leftover, Consumed, Apart, Confirming, Staged, Writing, Recorded, Running,
      BootSteps

LEMMA PowerOffInv ==
    ASSUME Inv, PowerOff
    PROVE  Inv'
<1>1. TypeOK'
  BY InactiveSlot DEF PowerOff, Off, state, history, Inv, TypeOK, BootSteps
<1>2. Control'
  BY DEF PowerOff, Off, state, history, Inv, Control, Writing
<1>3. overrun' = "no" => Safe'
  BY InactiveSlot, ValuesAssumption
  DEF PowerOff, Off, state, history, Inv, TypeOK, Control, Safe, ActiveGood, Good,
      Chosen, NoFastTrial, OnTrial, Trial, Leftover, Consumed, Apart, Confirming,
      Staged, Writing, Recorded, Running
<1>4. overrun' = "trial" => Spared'
  BY InactiveSlot
  DEF PowerOff, Off, state, history, Inv, TypeOK, Control, Spared, ActiveGood, Good,
      Chosen, NoFastTrial, Staged, Writing
<1> QED
  BY <1>1, <1>2, <1>3, <1>4 DEF Inv

LEMMA DamageCandidateInv ==
    ASSUME Inv, DamageCandidate
    PROVE  Inv'
<1>1. TypeOK'
  BY DEF DamageCandidate, state, boot, session, history, Inv, TypeOK, BootSteps
<1>2. Control'
  BY DEF DamageCandidate, state, boot, session, history, Inv, Control, Writing
<1>3. overrun' = "no" => Safe'
  BY ValuesAssumption
  DEF DamageCandidate, state, boot, session, history, Inv, TypeOK, Control, Safe,
      ActiveGood, Good, Chosen, NoFastTrial, OnTrial, Trial, Leftover, Consumed,
      Apart, Confirming, Staged, Writing, Recorded, Running
<1>4. overrun' = "trial" => Spared'
  BY DEF DamageCandidate, state, boot, session, history, Inv, TypeOK, Control, Spared,
         ActiveGood, Good, Chosen, NoFastTrial, Staged, Writing
<1> QED
  BY <1>1, <1>2, <1>3, <1>4 DEF Inv

LEMMA PowerOnInv ==
    ASSUME Inv, PowerOn
    PROVE  Inv'
<1>1. TypeOK'
  BY DEF PowerOn, slots, state, session, history, Inv, TypeOK, BootSteps
<1>2. Control'
  BY DEF PowerOn, slots, state, session, history, Inv, Control, Writing
<1>3. overrun' = "no" => Safe'
  BY ValuesAssumption
  DEF PowerOn, slots, state, session, history, Inv, TypeOK, Control, Safe,
      ActiveGood, Good, Chosen, NoFastTrial, OnTrial, Trial, Leftover, Consumed,
      Apart, Confirming, Staged, Writing, Recorded, Running
<1>4. overrun' = "trial" => Spared'
  BY DEF PowerOn, slots, state, session, history, Inv, TypeOK, Control, Spared,
         ActiveGood, Good, Chosen, NoFastTrial, Staged, Writing
<1> QED
  BY <1>1, <1>2, <1>3, <1>4 DEF Inv

LEMMA PowerActionInv ==
    ASSUME Inv, PowerAction
    PROVE  Inv'
<1>1. TypeOK'
  BY DEF PowerAction, Off, slots, history, Inv, TypeOK, BootSteps
<1>2. Control'
  BY DEF PowerAction, Off, slots, history, Inv, Control, Writing
<1>3. overrun' = "no" => Safe'
  BY ValuesAssumption
  DEF PowerAction, Off, slots, history, Inv, TypeOK, Control, Safe, ActiveGood,
      Good, Chosen, NoFastTrial, OnTrial, Trial, Leftover, Consumed, Apart,
      Confirming, Staged, Writing, Recorded, Running
<1>4. overrun' = "trial" => Spared'
  BY DEF PowerAction, Off, slots, history, Inv, TypeOK, Control, Spared, ActiveGood,
         Good, Chosen, NoFastTrial, Staged, Writing
<1> QED
  BY <1>1, <1>2, <1>3, <1>4 DEF Inv

LEMMA InspectFastBootInv ==
    ASSUME Inv, InspectFastBoot
    PROVE  Inv'
<1>1. TypeOK'
  BY DEF InspectFastBoot, slots, state, session, history, Inv, TypeOK, BootSteps
<1>2. Control'
  BY DEF InspectFastBoot, slots, state, session, history, Inv, Control, Writing
<1>3. overrun' = "no" => Safe'
  BY ValuesAssumption
  DEF InspectFastBoot, slots, state, session, history, Inv, TypeOK, Control, Safe,
      ActiveGood, Good, Chosen, NoFastTrial, OnTrial, Trial, Leftover, Consumed,
      Apart, Confirming, Staged, Writing, Recorded, Running
<1>4. overrun' = "trial" => Spared'
  BY DEF InspectFastBoot, slots, state, session, history, Inv, TypeOK, Control,
         Spared, ActiveGood, Good, Chosen, NoFastTrial, Staged, Writing
<1> QED
  BY <1>1, <1>2, <1>3, <1>4 DEF Inv

LEMMA SelectActiveInv ==
    ASSUME Inv, SelectActive
    PROVE  Inv'
<1>1. TypeOK'
  BY DEF SelectActive, slots, state, session, history, Inv, TypeOK, BootSteps
<1>2. Control'
  BY DEF SelectActive, slots, state, session, history, Inv, Control, Writing
<1>3. overrun' = "no" => Safe'
  BY ValuesAssumption
  DEF SelectActive, slots, state, session, history, Inv, TypeOK, Control, Safe,
      ActiveGood, Good, Chosen, NoFastTrial, OnTrial, Trial, Leftover, Consumed,
      Apart, Confirming, Staged, Writing, Recorded, Running
<1>4. overrun' = "trial" => Spared'
  BY DEF SelectActive, slots, state, session, history, Inv, TypeOK, Control, Spared,
         ActiveGood, Good, Chosen, NoFastTrial, Staged, Writing
<1> QED
  BY <1>1, <1>2, <1>3, <1>4 DEF Inv

LEMMA SelectTrialInv ==
    ASSUME Inv, SelectTrial
    PROVE  Inv'
<1>1. TypeOK'
  BY DEF SelectTrial, slots, session, Inv, TypeOK, BootSteps
<1>2. Control'
  BY DEF SelectTrial, slots, session, Inv, Control, Writing
<1>3. overrun' = "no" => Safe'
  BY ValuesAssumption
  DEF SelectTrial, slots, session, Inv, TypeOK, Control, Safe, ActiveGood, Good,
      Chosen, NoFastTrial, OnTrial, Trial, Leftover, Consumed, Apart, Confirming,
      Staged, Writing, Recorded, Running
<1>4. overrun' = "trial" => Spared'
  BY DEF SelectTrial, slots, session, Inv, TypeOK, Control, Spared, ActiveGood, Good,
         Chosen, NoFastTrial, Staged, Writing
<1> QED
  BY <1>1, <1>2, <1>3, <1>4 DEF Inv

LEMMA SelectRollbackInv ==
    ASSUME Inv, SelectRollback
    PROVE  Inv'
<1>1. TypeOK'
  BY DEF SelectRollback, slots, state, session, history, Inv, TypeOK, BootSteps
<1>2. Control'
  BY DEF SelectRollback, slots, state, session, history, Inv, Control, Writing
<1>3. overrun' = "no" => Safe'
  BY ValuesAssumption
  DEF SelectRollback, slots, state, session, history, Inv, TypeOK, Control, Safe,
      ActiveGood, Good, Chosen, NoFastTrial, OnTrial, Trial, Leftover, Consumed,
      Apart, Confirming, Staged, Writing, Recorded, Running
<1>4. overrun' = "trial" => Spared'
  BY DEF SelectRollback, slots, state, session, history, Inv, TypeOK, Control, Spared,
         ActiveGood, Good, Chosen, NoFastTrial, Staged, Writing
<1> QED
  BY <1>1, <1>2, <1>3, <1>4 DEF Inv

LEMMA DropPendingInv ==
    ASSUME Inv, DropPending
    PROVE  Inv'
<1>1. TypeOK'
  BY DEF DropPending, slots, session, Inv, TypeOK, BootSteps
<1>2. Control'
  BY DEF DropPending, slots, session, Inv, Control, Writing
<1>3. overrun' = "no" => Safe'
  BY ValuesAssumption
  DEF DropPending, slots, session, Inv, TypeOK, Control, Safe, ActiveGood, Good,
      Chosen, NoFastTrial, OnTrial, Trial, Leftover, Consumed, Apart, Confirming,
      Staged, Writing, Recorded, Running, Spared
<1>4. overrun' = "trial" => Spared'
  BY DEF DropPending, slots, session, Inv, TypeOK, Control, Spared, ActiveGood, Good,
         Chosen, NoFastTrial, Staged, Writing
<1> QED
  BY <1>1, <1>2, <1>3, <1>4 DEF Inv

LEMMA ForgetAttemptInv ==
    ASSUME Inv, ForgetAttempt
    PROVE  Inv'
<1>1. TypeOK'
  <2>1. attempted' \in BOOLEAN
    BY DEF ForgetAttempt
  <2> QED
    BY <2>1 DEF ForgetAttempt, slots, session, history, Inv, TypeOK, BootSteps
<1>2. Control'
  BY DEF ForgetAttempt, slots, session, history, Inv, Control, Writing
<1>3. overrun' = "no" => Safe'
  BY ValuesAssumption
  DEF ForgetAttempt, slots, session, history, Inv, TypeOK, Control, Safe,
      ActiveGood, Good, Chosen, NoFastTrial, OnTrial, Trial, Leftover, Consumed,
      Apart, Confirming, Staged, Writing, Recorded, Running
<1>4. overrun' = "trial" => Spared'
  BY DEF ForgetAttempt, slots, session, history, Inv, TypeOK, Control, Spared,
         ActiveGood, Good, Chosen, NoFastTrial, Staged, Writing
<1> QED
  BY <1>1, <1>2, <1>3, <1>4 DEF Inv

LEMMA RemoveCleanMarkersInv ==
    ASSUME Inv, RemoveCleanMarkers
    PROVE  Inv'
<1>1. TypeOK'
  <2>1. clean' \in BOOLEAN
    BY DEF RemoveCleanMarkers
  <2> QED
    BY <2>1 DEF RemoveCleanMarkers, slots, session, history, Inv, TypeOK, BootSteps
<1>2. Control'
  BY DEF RemoveCleanMarkers, slots, session, history, Inv, Control, Writing
<1>3. overrun' = "no" => Safe'
  BY ValuesAssumption
  DEF RemoveCleanMarkers, slots, session, history, Inv, TypeOK, Control, Safe,
      ActiveGood, Good, Chosen, NoFastTrial, OnTrial, Trial, Leftover, Consumed,
      Apart, Confirming, Staged, Writing, Recorded, Running
<1>4. overrun' = "trial" => Spared'
  BY DEF RemoveCleanMarkers, slots, session, history, Inv, TypeOK, Control, Spared,
         ActiveGood, Good, Chosen, NoFastTrial, Staged, Writing
<1> QED
  BY <1>1, <1>2, <1>3, <1>4 DEF Inv

LEMMA VerifyPassesInv ==
    ASSUME Inv, VerifyPasses
    PROVE  Inv'
<1>1. TypeOK'
  <2>1. verified' \in [Slots -> Versions \cup {Absent}]
    BY DEF VerifyPasses, Inv, TypeOK
  <2> QED
    BY <2>1
    DEF VerifyPasses, state, boot, history, Complete, Intact, Inv, TypeOK, BootSteps
<1>2. Control'
  BY DEF VerifyPasses, state, boot, history, Complete, Intact, Inv, Control, Writing
<1>3. overrun' = "no" => Safe'
  BY ValuesAssumption
  DEF VerifyPasses, state, boot, history, Complete, Intact, Inv, TypeOK, Control,
      Safe, ActiveGood, Good, Chosen, NoFastTrial, OnTrial, Trial, Leftover,
      Consumed, Apart, Confirming, Staged, Writing, Recorded, Running
<1>4. overrun' = "trial" => Spared'
  BY DEF VerifyPasses, state, boot, history, Complete, Intact, Inv, TypeOK, Control,
         Spared, ActiveGood, Good, Chosen, NoFastTrial, Staged, Writing
<1> QED
  BY <1>1, <1>2, <1>3, <1>4 DEF Inv

LEMMA VerifyFailsInv ==
    ASSUME Inv, VerifyFails
    PROVE  Inv'
<1>1. TypeOK'
  BY DEF VerifyFails, slots, state, session, history, Complete, Intact, Inv, TypeOK,
         BootSteps
<1>2. Control'
  BY DEF VerifyFails, slots, state, session, history, Complete, Intact, Inv, Control,
         Writing
<1>3. overrun' = "no" => Safe'
  BY ValuesAssumption
  DEF VerifyFails, slots, state, session, history, Complete, Intact, Inv, TypeOK,
      Control, Safe, ActiveGood, Good, Chosen, NoFastTrial, OnTrial, Trial,
      Leftover, Consumed, Apart, Confirming, Staged, Writing, Recorded, Running
<1>4. overrun' = "trial" => Spared'
  BY DEF VerifyFails, slots, state, session, history, Complete, Intact, Inv, TypeOK,
         Control, Spared, ActiveGood, Good, Chosen, NoFastTrial, Staged, Writing
<1> QED
  BY <1>1, <1>2, <1>3, <1>4 DEF Inv

LEMMA NothingToApplyInv ==
    ASSUME Inv, NothingToApply
    PROVE  Inv'
<1>1. TypeOK'
  BY DEF NothingToApply, slots, state, session, history, Inv, TypeOK, BootSteps
<1>2. Control'
  BY DEF NothingToApply, slots, state, session, history, Inv, Control, Writing
<1>3. overrun' = "no" => Safe'
  BY ValuesAssumption
  DEF NothingToApply, slots, state, session, history, Inv, TypeOK, Control, Safe,
      ActiveGood, Good, Chosen, NoFastTrial, OnTrial, Trial, Leftover, Consumed,
      Apart, Confirming, Staged, Writing, Recorded, Running
<1>4. overrun' = "trial" => Spared'
  BY DEF NothingToApply, slots, state, session, history, Inv, TypeOK, Control, Spared,
         ActiveGood, Good, Chosen, NoFastTrial, Staged, Writing
<1> QED
  BY <1>1, <1>2, <1>3, <1>4 DEF Inv

LEMMA AcceptRequestInv ==
    ASSUME Inv, AcceptRequest
    PROVE  Inv'
<1>1. TypeOK'
  BY PackagesAssumption
  DEF AcceptRequest, slots, state, session, history, Compatible, Packages, Inv,
      TypeOK, BootSteps
<1>2. Control'
  BY DEF AcceptRequest, slots, state, session, history, Compatible, Packages, Inv,
         Control, Writing
<1>3. overrun' = "no" => Safe'
  BY ValuesAssumption, PackagesAssumption
  DEF AcceptRequest, slots, state, session, history, Compatible, Packages, Inv,
      TypeOK, Control, Safe, ActiveGood, Good, Chosen, NoFastTrial, OnTrial, Trial,
      Leftover, Consumed, Apart, Confirming, Staged, Writing, Recorded, Running
<1>4. overrun' = "trial" => Spared'
  BY DEF AcceptRequest, slots, state, session, history, Compatible, Packages, Inv,
         TypeOK, Control, Spared, ActiveGood, Good, Chosen, NoFastTrial, Staged,
         Writing
<1> QED
  BY <1>1, <1>2, <1>3, <1>4 DEF Inv

LEMMA ReplaceImageInv ==
    ASSUME Inv, ReplaceImage
    PROVE  Inv'
<1>1. TypeOK'
  BY InactiveSlot, PackagesAssumption
  DEF ReplaceImage, state, session, Packages, Inv, TypeOK, Control, Writing,
      BootSteps
<1>2. Control'
  BY DEF ReplaceImage, state, session, Packages, Inv, Control, Writing
<1>3. overrun' = "no" => Safe'
  BY InactiveSlot, ValuesAssumption, PackagesAssumption
  DEF ReplaceImage, state, session, Packages, Inv, TypeOK, Control, Safe,
      ActiveGood, Good, Chosen, NoFastTrial, OnTrial, Trial, Leftover, Consumed,
      Apart, Confirming, Staged, Writing, Recorded, Running
<1>4. overrun' = "trial" => Spared'
  BY InactiveSlot
  DEF ReplaceImage, state, session, Packages, Inv, TypeOK, Control, Spared,
      ActiveGood, Good, Chosen, NoFastTrial, Staged, Writing, Safe, Apart
<1> QED
  BY <1>1, <1>2, <1>3, <1>4 DEF Inv

LEMMA WriteDigestInv ==
    ASSUME Inv, WriteDigest
    PROVE  Inv'
<1>1. TypeOK'
  BY InactiveSlot, PackagesAssumption
  DEF WriteDigest, state, session, history, Packages, Inv, TypeOK, Control, Writing,
      BootSteps
<1>2. Control'
  BY DEF WriteDigest, state, session, history, Packages, Inv, Control, Writing
<1>3. overrun' = "no" => Safe'
  BY InactiveSlot, ValuesAssumption, PackagesAssumption
  DEF WriteDigest, state, session, history, Packages, Inv, TypeOK, Control, Safe,
      ActiveGood, Good, Chosen, NoFastTrial, OnTrial, Trial, Leftover, Consumed,
      Apart, Confirming, Staged, Writing, Recorded, Running
<1>4. overrun' = "trial" => Spared'
  BY InactiveSlot
  DEF WriteDigest, state, session, history, Packages, Inv, TypeOK, Control, Spared,
      ActiveGood, Good, Chosen, NoFastTrial, Staged, Writing
<1> QED
  BY <1>1, <1>2, <1>3, <1>4 DEF Inv

LEMMA PublishInv ==
    ASSUME Inv, Publish
    PROVE  Inv'
<1>1. TypeOK'
  BY DEF Publish, slots, state, session, history, Inv, TypeOK, BootSteps
<1>2. Control'
  BY DEF Publish, slots, state, session, history, Inv, Control, Writing
<1>3. overrun' = "no" => Safe'
  BY ValuesAssumption
  DEF Publish, slots, state, session, history, Inv, TypeOK, Control, Safe,
      ActiveGood, Good, Chosen, NoFastTrial, OnTrial, Trial, Leftover, Consumed,
      Apart, Confirming, Staged, Writing, Recorded, Running
<1>4. overrun' = "trial" => Spared'
  BY DEF Publish, slots, state, session, history, Inv, TypeOK, Control, Spared,
         ActiveGood, Good, Chosen, NoFastTrial, Staged, Writing
<1> QED
  BY <1>1, <1>2, <1>3, <1>4 DEF Inv

LEMMA SetPendingInv ==
    ASSUME Inv, SetPending
    PROVE  Inv'
<1>1. TypeOK'
  BY InactiveSlot, ValuesAssumption, PackagesAssumption
  DEF SetPending, slots, session, Inv, TypeOK, Control, Writing, BootSteps
<1>2. Control'
  BY DEF SetPending, slots, session, Inv, Control, Writing
<1>3. overrun' = "no" => Safe'
  <2> SUFFICES ASSUME overrun = "no" PROVE Safe'
    BY DEF SetPending
  <2>1. /\ active \in Slots /\ Inactive \in Slots \ {active} /\ None \notin Slots
        /\ UNCHANGED <<image, digest, active, request, slot, confirm>>
        /\ pc = "pend" /\ pc' = "unmark" /\ pending' = Inactive /\ ~tried'
    BY InactiveSlot DEF SetPending, slots, session, Inv, TypeOK
  <2>2. /\ ActiveGood /\ Good(slot) /\ slot = active
        /\ request # None /\ request.version \in Versions
        /\ request.version # digest[active]
    BY <2>1, PackagesAssumption
    DEF Inv, TypeOK, Safe, Control, Apart, Writing, OnTrial, Running, Packages
  <2>3. image[Inactive] = request.version /\ digest[Inactive] = request.version
    BY <2>1 DEF Inv, Safe, Apart
  <2>4. Staged' /\ Good(pending)' /\ digest'[pending'] = request.version
    BY <2>1, <2>2, <2>3 DEF Staged, Good
  <2>5. ActiveGood' /\ Chosen' /\ NoFastTrial' /\ pc' # "recovery"
    BY <2>1, <2>2 DEF ActiveGood, Good, Chosen, NoFastTrial
  <2>6. OnTrial' /\ Consumed'
    BY <2>1, <2>2, <2>3, <2>4 DEF OnTrial, Consumed, Good
  <2>7. Apart'
    BY <2>1, <2>2, <2>4 DEF Apart, Writing, Recorded
  <2>8. Confirming'
    BY <2>1 DEF Confirming, Inv, Control
  <2> QED
    BY <2>5, <2>6, <2>7, <2>8 DEF Safe
<1>4. overrun' = "trial" => Spared'
  BY InactiveSlot
  DEF SetPending, slots, session, Inv, TypeOK, Control, Spared, ActiveGood, Good,
      Chosen, NoFastTrial, Staged, Writing
<1> QED
  BY <1>1, <1>2, <1>3, <1>4 DEF Inv

LEMMA ClearAttemptedInv ==
    ASSUME Inv, ClearAttempted
    PROVE  Inv'
<1>1. TypeOK'
  <2>1. attempted' \in BOOLEAN
    BY DEF ClearAttempted
  <2> QED
    BY <2>1 DEF ClearAttempted, slots, session, history, Inv, TypeOK, BootSteps
<1>2. Control'
  BY DEF ClearAttempted, slots, session, history, Inv, Control, Writing
<1>3. overrun' = "no" => Safe'
  BY ValuesAssumption
  DEF ClearAttempted, slots, session, history, Inv, TypeOK, Control, Safe,
      ActiveGood, Good, Chosen, NoFastTrial, OnTrial, Trial, Leftover, Consumed,
      Apart, Confirming, Staged, Writing, Recorded, Running
<1>4. overrun' = "trial" => Spared'
  BY DEF ClearAttempted, slots, session, history, Inv, TypeOK, Control, Spared,
         ActiveGood, Good, Chosen, NoFastTrial, Staged, Writing
<1> QED
  BY <1>1, <1>2, <1>3, <1>4 DEF Inv

LEMMA ConsumeRequestInv ==
    ASSUME Inv, ConsumeRequest
    PROVE  Inv'
<1>1. TypeOK'
  BY DEF ConsumeRequest, slots, session, history, Inv, TypeOK, BootSteps
<1>2. Control'
  BY DEF ConsumeRequest, slots, session, history, Inv, Control, Writing
<1>3. overrun' = "no" => Safe'
  BY ValuesAssumption
  DEF ConsumeRequest, slots, session, history, Inv, TypeOK, Control, Safe,
      ActiveGood, Good, Chosen, NoFastTrial, OnTrial, Trial, Leftover, Consumed,
      Apart, Confirming, Staged, Writing, Recorded, Running
<1>4. overrun' = "trial" => Spared'
  BY DEF ConsumeRequest, slots, session, history, Inv, TypeOK, Control, Spared,
         ActiveGood, Good, Chosen, NoFastTrial, Staged, Writing
<1> QED
  BY <1>1, <1>2, <1>3, <1>4 DEF Inv

LEMMA StageFailsInv ==
    ASSUME Inv, StageFails
    PROVE  Inv'
<1>1. TypeOK'
  BY DEF StageFails, slots, state, session, Inv, TypeOK, BootSteps
<1>2. Control'
  BY DEF StageFails, slots, state, session, Inv, Control, Writing
<1>3. overrun' = "no" => Safe'
  BY ValuesAssumption
  DEF StageFails, slots, state, session, Inv, TypeOK, Control, Safe, ActiveGood,
      Good, Chosen, NoFastTrial, OnTrial, Trial, Leftover, Consumed, Apart,
      Confirming, Staged, Writing, Recorded, Running
<1>4. overrun' = "trial" => Spared'
  BY DEF StageFails, slots, state, session, Inv, TypeOK, Control, Spared, ActiveGood,
         Good, Chosen, NoFastTrial, Staged, Writing
<1> QED
  BY <1>1, <1>2, <1>3, <1>4 DEF Inv

LEMMA LaunchFrontendInv ==
    ASSUME Inv, LaunchFrontend
    PROVE  Inv'
<1>1. TypeOK'
  BY DEF LaunchFrontend, slots, state, history, Inv, TypeOK, BootSteps
<1>2. Control'
  BY DEF LaunchFrontend, slots, state, history, Inv, Control, Writing
<1>3. overrun' = "no" => Safe'
  BY ValuesAssumption
  DEF LaunchFrontend, slots, state, history, Inv, TypeOK, Control, Safe, ActiveGood,
      Good, Chosen, NoFastTrial, OnTrial, Trial, Leftover, Consumed, Apart,
      Confirming, Staged, Writing, Recorded, Running
<1>4. overrun' = "trial" => Spared'
  BY DEF LaunchFrontend, slots, state, history, Inv, TypeOK, Control, Spared,
         ActiveGood, Good, Chosen, NoFastTrial, Staged, Writing
<1> QED
  BY <1>1, <1>2, <1>3, <1>4 DEF Inv

LEMMA FrontendReadyInv ==
    ASSUME Inv, FrontendReady
    PROVE  Inv'
<1>1. TypeOK'
  BY DEF FrontendReady, slots, state, boot, history, Inv, TypeOK, BootSteps
<1>2. Control'
  BY DEF FrontendReady, slots, state, boot, history, Inv, Control, Writing
<1>3. overrun' = "no" => Safe'
  BY ValuesAssumption
  DEF FrontendReady, slots, state, boot, history, Inv, TypeOK, Control, Safe,
      ActiveGood, Good, Chosen, NoFastTrial, OnTrial, Trial, Leftover, Consumed,
      Apart, Confirming, Staged, Writing, Recorded, Running
<1>4. overrun' = "trial" => Spared'
  BY DEF FrontendReady, slots, state, boot, history, Inv, TypeOK, Control, Spared,
         ActiveGood, Good, Chosen, NoFastTrial, Staged, Writing
<1> QED
  BY <1>1, <1>2, <1>3, <1>4 DEF Inv

LEMMA ConfirmStartInv ==
    ASSUME Inv, ConfirmStart
    PROVE  Inv'
<1>1. TypeOK'
  BY DEF ConfirmStart, slots, state, boot, history, Inv, TypeOK, BootSteps
<1>2. Control'
  BY DEF ConfirmStart, slots, state, boot, history, Inv, Control, Writing
<1>3. overrun' = "no" => Safe'
  BY ValuesAssumption
  DEF ConfirmStart, slots, state, boot, history, Inv, TypeOK, Control, Safe,
      ActiveGood, Good, Chosen, NoFastTrial, OnTrial, Trial, Leftover, Consumed,
      Apart, Confirming, Staged, Writing, Recorded, Running
<1>4. overrun' = "trial" => Spared'
  BY DEF ConfirmStart, slots, state, boot, history, Inv, TypeOK, Control, Spared,
         ActiveGood, Good, Chosen, NoFastTrial, Staged, Writing
<1> QED
  BY <1>1, <1>2, <1>3, <1>4 DEF Inv

LEMMA ConfirmBusyInv ==
    ASSUME Inv, ConfirmBusy
    PROVE  Inv'
<1>1. TypeOK'
  BY DEF ConfirmBusy, slots, state, boot, history, Inv, TypeOK, BootSteps
<1>2. Control'
  BY DEF ConfirmBusy, slots, state, boot, history, Inv, Control, Writing
<1>3. overrun' = "no" => Safe'
  BY ValuesAssumption
  DEF ConfirmBusy, slots, state, boot, history, Inv, TypeOK, Control, Safe,
      ActiveGood, Good, Chosen, NoFastTrial, OnTrial, Trial, Leftover, Consumed,
      Apart, Confirming, Staged, Writing, Recorded, Running
<1>4. overrun' = "trial" => Spared'
  BY DEF ConfirmBusy, slots, state, boot, history, Inv, TypeOK, Control, Spared,
         ActiveGood, Good, Chosen, NoFastTrial, Staged, Writing
<1> QED
  BY <1>1, <1>2, <1>3, <1>4 DEF Inv

LEMMA ConfirmTimeoutInv ==
    ASSUME Inv, ConfirmTimeout
    PROVE  Inv'
<1>1. TypeOK'
  BY DEF ConfirmTimeout, slots, state, boot, history, Inv, TypeOK, BootSteps
<1>2. Control'
  BY DEF ConfirmTimeout, slots, state, boot, history, Inv, Control, Writing
<1>3. overrun' = "no" => Safe'
  BY ValuesAssumption
  DEF ConfirmTimeout, slots, state, boot, history, Inv, TypeOK, Control, Safe,
      ActiveGood, Good, Chosen, NoFastTrial, OnTrial, Trial, Leftover, Consumed,
      Apart, Confirming, Staged, Writing, Recorded, Running
<1>4. overrun' = "trial" => Spared'
  BY DEF ConfirmTimeout, slots, state, boot, history, Inv, TypeOK, Control, Spared,
         ActiveGood, Good, Chosen, NoFastTrial, Staged, Writing
<1> QED
  BY <1>1, <1>2, <1>3, <1>4 DEF Inv

LEMMA ConfirmPromoteInv ==
    ASSUME Inv, ConfirmPromote
    PROVE  Inv'
<1>1. TypeOK'
  BY DEF ConfirmPromote, slots, boot, Inv, TypeOK, Control, Writing, BootSteps
<1>2. Control'
  BY DEF ConfirmPromote, slots, boot, Inv, Control, Writing
<1>3. overrun' = "no" => Safe'
  BY ValuesAssumption
  DEF ConfirmPromote, slots, boot, Inv, TypeOK, Control, Safe, ActiveGood, Good,
      Chosen, NoFastTrial, OnTrial, Trial, Leftover, Consumed, Apart, Confirming,
      Staged, Writing, Recorded, Running
<1>4. overrun' = "trial" => Spared'
  BY DEF ConfirmPromote, slots, boot, Inv, TypeOK, Control, Spared, ActiveGood, Good,
         Chosen, NoFastTrial, Staged, Writing
<1> QED
  BY <1>1, <1>2, <1>3, <1>4 DEF Inv

LEMMA ConfirmUnpendInv ==
    ASSUME Inv, ConfirmUnpend
    PROVE  Inv'
<1>1. TypeOK'
  BY DEF ConfirmUnpend, slots, boot, history, Inv, TypeOK, BootSteps
<1>2. Control'
  BY DEF ConfirmUnpend, slots, boot, history, Inv, Control, Writing
<1>3. overrun' = "no" => Safe'
  BY ValuesAssumption
  DEF ConfirmUnpend, slots, boot, history, Inv, TypeOK, Control, Safe, ActiveGood,
      Good, Chosen, NoFastTrial, OnTrial, Trial, Leftover, Consumed, Apart,
      Confirming, Staged, Writing, Recorded, Running
<1>4. overrun' = "trial" => Spared'
  BY DEF ConfirmUnpend, slots, boot, history, Inv, TypeOK, Control, Spared,
         ActiveGood, Good, Chosen, NoFastTrial, Staged, Writing
<1> QED
  BY <1>1, <1>2, <1>3, <1>4 DEF Inv

LEMMA ConfirmUnmarkInv ==
    ASSUME Inv, ConfirmUnmark
    PROVE  Inv'
<1>1. TypeOK'
  <2>1. attempted' \in BOOLEAN
    BY DEF ConfirmUnmark
  <2> QED
    BY <2>1 DEF ConfirmUnmark, slots, boot, history, Inv, TypeOK, BootSteps
<1>2. Control'
  BY DEF ConfirmUnmark, slots, boot, history, Inv, Control, Writing
<1>3. overrun' = "no" => Safe'
  BY ValuesAssumption
  DEF ConfirmUnmark, slots, boot, history, Inv, TypeOK, Control, Safe, ActiveGood,
      Good, Chosen, NoFastTrial, OnTrial, Trial, Leftover, Consumed, Apart,
      Confirming, Staged, Writing, Recorded, Running
<1>4. overrun' = "trial" => Spared'
  BY DEF ConfirmUnmark, slots, boot, history, Inv, TypeOK, Control, Spared,
         ActiveGood, Good, Chosen, NoFastTrial, Staged, Writing
<1> QED
  BY <1>1, <1>2, <1>3, <1>4 DEF Inv

LEMMA ConfirmFailsInv ==
    ASSUME Inv, ConfirmFails
    PROVE  Inv'
<1>1. TypeOK'
  BY DEF ConfirmFails, slots, state, boot, history, Inv, TypeOK, BootSteps
<1>2. Control'
  BY DEF ConfirmFails, slots, state, boot, history, Inv, Control, Writing
<1>3. overrun' = "no" => Safe'
  BY ValuesAssumption
  DEF ConfirmFails, slots, state, boot, history, Inv, TypeOK, Control, Safe,
      ActiveGood, Good, Chosen, NoFastTrial, OnTrial, Trial, Leftover, Consumed,
      Apart, Confirming, Staged, Writing, Recorded, Running
<1>4. overrun' = "trial" => Spared'
  BY DEF ConfirmFails, slots, state, boot, history, Inv, TypeOK, Control, Spared,
         ActiveGood, Good, Chosen, NoFastTrial, Staged, Writing
<1> QED
  BY <1>1, <1>2, <1>3, <1>4 DEF Inv

LEMMA RequestStartInv ==
    ASSUME Inv, RequestStart
    PROVE  Inv'
<1>1. TypeOK'
  BY DEF RequestStart, slots, state, boot, history, Inv, TypeOK, BootSteps
<1>2. Control'
  BY DEF RequestStart, slots, state, boot, history, Inv, Control, Writing
<1>3. overrun' = "no" => Safe'
  BY ValuesAssumption
  DEF RequestStart, slots, state, boot, history, Inv, TypeOK, Control, Safe,
      ActiveGood, Good, Chosen, NoFastTrial, OnTrial, Trial, Leftover, Consumed,
      Apart, Confirming, Staged, Writing, Recorded, Running
<1>4. overrun' = "trial" => Spared'
  BY DEF RequestStart, slots, state, boot, history, Inv, TypeOK, Control, Spared,
         ActiveGood, Good, Chosen, NoFastTrial, Staged, Writing
<1> QED
  BY <1>1, <1>2, <1>3, <1>4 DEF Inv

LEMMA RequestNoneInv ==
    ASSUME Inv, RequestNone
    PROVE  Inv'
<1>1. TypeOK'
  BY DEF RequestNone, slots, state, boot, history, Inv, TypeOK, BootSteps
<1>2. Control'
  BY DEF RequestNone, slots, state, boot, history, Inv, Control, Writing
<1>3. overrun' = "no" => Safe'
  BY ValuesAssumption
  DEF RequestNone, slots, state, boot, history, Inv, TypeOK, Control, Safe,
      ActiveGood, Good, Chosen, NoFastTrial, OnTrial, Trial, Leftover, Consumed,
      Apart, Confirming, Staged, Writing, Recorded, Running
<1>4. overrun' = "trial" => Spared'
  BY DEF RequestNone, slots, state, boot, history, Inv, TypeOK, Control, Spared,
         ActiveGood, Good, Chosen, NoFastTrial, Staged, Writing
<1> QED
  BY <1>1, <1>2, <1>3, <1>4 DEF Inv

LEMMA RequestLatestInv ==
    ASSUME Inv, NEW p \in Packages, RequestLatest(p)
    PROVE  Inv'
<1>1. TypeOK'
  BY PackagesAssumption
  DEF RequestLatest, slots, boot, history, Packages, Inv, TypeOK, BootSteps
<1>2. Control'
  BY DEF RequestLatest, slots, boot, history, Packages, Inv, Control, Writing
<1>3. overrun' = "no" => Safe'
  BY ValuesAssumption, PackagesAssumption
  DEF RequestLatest, slots, boot, history, Packages, Inv, TypeOK, Control, Safe,
      ActiveGood, Good, Chosen, NoFastTrial, OnTrial, Trial, Leftover, Consumed,
      Apart, Confirming, Staged, Writing, Recorded, Running
<1>4. overrun' = "trial" => Spared'
  BY DEF RequestLatest, slots, boot, history, Packages, Inv, TypeOK, Control, Spared,
         ActiveGood, Good, Chosen, NoFastTrial, Staged, Writing
<1> QED
  BY <1>1, <1>2, <1>3, <1>4 DEF Inv

LEMMA StutterInv == Inv /\ UNCHANGED vars => Inv'
  BY DEF vars, Inv, TypeOK, Control, Safe, Spared, ActiveGood, Good, Chosen, NoFastTrial,
         OnTrial, Trial, Leftover, Consumed, Apart, Confirming, Staged, Writing, Recorded,
         Running

LEMMA NextInv == Inv /\ [Next]_vars => Inv'
<1> SUFFICES ASSUME Inv, [Next]_vars PROVE Inv'
  OBVIOUS
<1>1. CASE PowerOff \/ DamageCandidate \/ PowerOn \/ PowerAction
  BY <1>1, PowerOffInv, DamageCandidateInv, PowerOnInv, PowerActionInv
<1>2. CASE Initramfs
  BY <1>2, InspectFastBootInv, SelectActiveInv, SelectTrialInv, SelectRollbackInv,
     DropPendingInv, ForgetAttemptInv, RemoveCleanMarkersInv, VerifyPassesInv,
     VerifyFailsInv DEF Initramfs
<1>3. CASE ApplySystem
  BY <1>3, NothingToApplyInv, AcceptRequestInv, ReplaceImageInv, WriteDigestInv,
     PublishInv, SetPendingInv, ClearAttemptedInv, ConsumeRequestInv, StageFailsInv
  DEF ApplySystem
<1>4. CASE LaunchFrontend \/ FrontendReady
  BY <1>4, LaunchFrontendInv, FrontendReadyInv
<1>5. CASE MarkHealthy
  BY <1>5, ConfirmStartInv, ConfirmBusyInv, ConfirmTimeoutInv, ConfirmPromoteInv,
     ConfirmUnpendInv, ConfirmUnmarkInv, ConfirmFailsInv DEF MarkHealthy
<1>6. CASE Request
  BY <1>6, RequestStartInv, RequestLatestInv, RequestNoneInv DEF Request
<1>7. CASE UNCHANGED vars
  BY <1>7, StutterInv
<1> QED
  BY <1>1, <1>2, <1>3, <1>4, <1>5, <1>6, <1>7 DEF Next

LEMMA SpecInv == Spec => []Inv
<1>1. Init => Inv
  BY InitInv
<1>2. Inv /\ [Next]_vars => Inv'
  BY NextInv
<1> QED
  BY <1>1, <1>2, PTL DEF Spec

\* The types of the slots, of the state files and of the session.
THEOREM TypesCorrect == Spec => []TypeOK
<1>1. Inv => TypeOK
  BY DEF Inv
<1> QED
  BY <1>1, SpecInv, PTL

\* With every write of apply_system free to fail, power cut at any step and staged
\* images lost or damaged, the initramfs never drops to recovery: the active slot is
\* whole whenever it is the one to boot.  The exception, named by overrun, is a trial
\* system that replaced its own image and was promoted all the same.
THEOREM AlwaysBoots == Spec => []NeverRecovery
<1>1. Inv => NeverRecovery
  BY DEF Inv, TypeOK, Safe, Spared, NeverRecovery
<1> QED
  BY <1>1, SpecInv, PTL

\* Only whole images run, although a fast boot checks no digest, until a trial
\* system replaces its own image.
THEOREM OnlyIntactRuns == Spec => []RunsIntact
<1>1. Inv => RunsIntact
  BY DEF Inv, Safe, OnTrial, Good, RunsIntact
<1> QED
  BY <1>1, SpecInv, PTL

-----------------------------------------------------------------------------
(* The refinement                                                           *)

CTrial ==
    IF Candidate = None THEN "none"
    ELSE IF ~tried THEN "due"
    ELSE IF slot = pending THEN "begun" ELSE "spent"

CRunning == IF Running THEN digest[slot] ELSE None

CFault ==
    IF overrun # "no" THEN "overrun"
    ELSE IF Candidate # None /\ late THEN "late" ELSE "none"

Step == [Contract!Next]_(Contract!vars)

LEMMA Mapped ==
    /\ Contract!vars = <<digest[active], Candidate, CTrial, CRunning, CFault>>
    /\ (Contract!vars)' = <<digest'[active'], Candidate', CTrial', CRunning', CFault'>>
  BY DEF Contract!vars, CTrial, CRunning, CFault

\* once a running image was replaced, until the trial is rejected
LEMMA NoPromise ==
    ASSUME overrun # "no", overrun' # "no"
    PROVE  Step
<1>1. Contract!Broken
  BY DEF Contract!Broken, CFault
<1> QED
  BY <1>1 DEF Step, Contract!Next

\* a step that the contract does not see
LEMMA Unseen ==
    ASSUME UNCHANGED <<digest[active], Candidate, CTrial, CRunning, CFault>>
    PROVE  Step
  BY Mapped DEF Step

\* Only the rejection of the trial ends an overrun.
LEMMA StaysOverrun ==
    ASSUME Inv, [Next]_vars, ~DropPending, overrun # "no"
    PROVE  overrun' # "no"
<1>1. CASE PowerOff \/ DamageCandidate \/ PowerOn \/ PowerAction
  BY <1>1 DEF PowerOff, DamageCandidate, PowerOn, PowerAction, history
<1>2. CASE Initramfs
  BY <1>2
  DEF Initramfs, InspectFastBoot, SelectActive, SelectTrial, SelectRollback,
      ForgetAttempt, RemoveCleanMarkers, VerifyPasses, VerifyFails, history
<1>3. CASE ApplySystem
  BY <1>3
  DEF ApplySystem, NothingToApply, AcceptRequest, ReplaceImage, WriteDigest, Publish,
      SetPending, ClearAttempted, ConsumeRequest, StageFails, history
<1>4. CASE LaunchFrontend \/ FrontendReady
  BY <1>4 DEF LaunchFrontend, FrontendReady, history
<1>5. CASE MarkHealthy
  BY <1>5
  DEF MarkHealthy, ConfirmStart, ConfirmBusy, ConfirmTimeout, ConfirmPromote,
      ConfirmUnpend, ConfirmUnmark, ConfirmFails, history
<1>6. CASE Request
  BY <1>6 DEF Request, RequestStart, RequestLatest, RequestNone, history
<1>7. CASE UNCHANGED vars
  BY <1>7 DEF vars
<1> QED
  BY <1>1, <1>2, <1>3, <1>4, <1>5, <1>6, <1>7 DEF Next

LEMMA SameFiles ==
    ASSUME UNCHANGED <<digest, active, pending, slot, history>>,
        Running' <=> Running
    PROVE  Step
<1>1. UNCHANGED <<digest[active], Candidate, CTrial, CRunning, CFault>>
  BY DEF history, Candidate, CTrial, CRunning, CFault
<1> QED
  BY <1>1, Unseen

\* what the proofs of the single steps take from the invariant
LEMMA SafeFacts ==
    ASSUME Inv, overrun = "no"
    PROVE  /\ active \in Slots /\ Safe /\ None \notin Slots
           /\ Candidate # None <=> Staged
           /\ Staged => Candidate = digest[pending]
           /\ CFault = IF Staged /\ late THEN "late" ELSE "none"
  BY SlotsAssumption, ValuesAssumption
  DEF Inv, TypeOK, Safe, OnTrial, Candidate, Staged, CFault

LEMMA PowerOffStep ==
    ASSUME Inv, PowerOff \/ PowerAction, overrun = "no"
    PROVE  Step
<1>1. digest'[active'] = digest[active] /\ active' = active
  BY InactiveSlot DEF PowerOff, PowerAction, slots, state, Inv, TypeOK
<1>2. UNCHANGED <<pending, history>>
  BY DEF PowerOff, PowerAction, state, history
<1>3. Candidate' = Candidate
  <2>1. CASE digest' = digest
    BY <1>1, <1>2, <2>1 DEF Candidate
  <2>2. CASE digest' # digest
    <3>1. ~Staged
      BY <2>2, SafeFacts DEF PowerOff, PowerAction, slots, Safe, Apart, Writing, Staged
    <3> QED
      BY <1>1, <1>2, <3>1 DEF Candidate, Staged
  <2> QED
    BY <2>1, <2>2
<1>4. CRunning' = None
  BY DEF PowerOff, PowerAction, Off, CRunning, Running
<1>5. CTrial' = IF CTrial = "begun" THEN "spent" ELSE CTrial
  BY <1>1, <1>2, <1>3, SlotsAssumption
  DEF PowerOff, PowerAction, Off, CTrial, Candidate, Inv, TypeOK, history
<1>6. CFault' = CFault
  BY <1>2, <1>3 DEF CFault, history
<1>7. Contract!PowerOff
  BY <1>1, <1>3, <1>4, <1>5, <1>6 DEF Contract!PowerOff, CTrial, CRunning, CFault
<1> QED
  BY <1>7 DEF Step, Contract!Next

LEMMA SelectStep ==
    ASSUME Inv, SelectActive \/ SelectTrial \/ SelectRollback, overrun = "no"
    PROVE  Step
<1>1. CRunning' = CRunning /\ CRunning = None
  BY DEF SelectActive, SelectTrial, SelectRollback, CRunning, Running
<1>2. /\ UNCHANGED <<digest, active, pending, late, overrun>>
      /\ slot = None /\ slot' \in Slots /\ None \notin Slots
  BY SafeFacts
  DEF SelectActive, SelectTrial, SelectRollback, state, slots, history, Inv, TypeOK,
      Safe, Chosen
<1>3. Candidate' = Candidate /\ CFault' = CFault
  BY <1>2 DEF Candidate, CFault
<1>4. CASE SelectActive \/ SelectRollback \/ ~Staged
  <2>1. CTrial' = CTrial
    BY <1>2, <1>3, <1>4
    DEF SelectActive, SelectTrial, SelectRollback, history, Candidate, CTrial, Staged
  <2> QED
    BY <1>1, <1>2, <1>3, <2>1, Unseen
<1>5. CASE SelectTrial /\ Staged
  <2>1. Candidate # None
    BY <1>5, SafeFacts
  <2>2. CTrial' = "begun"
    BY <1>2, <1>3, <1>5, <2>1 DEF SelectTrial, CTrial
  <2>3. CTrial = "due" \/ CTrial = "spent"
    BY <1>2, <1>5, <2>1 DEF CTrial, Staged
  <2>4. CTrial = "due"
    BY <1>5, <2>1, <2>3, SafeFacts DEF SelectTrial, CTrial, Safe, OnTrial
  <2>5. Contract!BeginTrial
    BY <1>1, <1>2, <1>3, <2>2, <2>4 DEF Contract!BeginTrial, CTrial, CRunning, CFault
  <2> QED
    BY <2>5 DEF Step, Contract!Next
<1> QED
  BY <1>4, <1>5

LEMMA DropStep ==
    ASSUME Inv, DropPending, overrun # "active"
    PROVE  Step
<1>1. CRunning' = CRunning /\ CRunning = None
  BY DEF DropPending, CRunning, Running
<1>2. UNCHANGED <<digest, active>> /\ pending' = None
  BY DEF DropPending, slots
<1>3. Candidate' = None /\ CTrial' = "none"
  BY <1>2 DEF Candidate, CTrial
<1>4. CFault' = "none"
  BY <1>3 DEF DropPending, CFault, Inv, TypeOK
<1>5. CASE overrun = "no" /\ Candidate = None
  <2>1. CFault = "none" /\ CTrial = "none"
    BY <1>5 DEF CFault, CTrial
  <2> QED
    BY <1>1, <1>2, <1>3, <1>4, <1>5, <2>1, Unseen
<1>6. CASE Candidate # None
  <2>1. Contract!Reject
    BY <1>1, <1>2, <1>3, <1>4, <1>6
    DEF Contract!Reject, Contract!Decided, CTrial, CRunning, CFault
  <2> QED
    BY <2>1 DEF Step, Contract!Next
<1>7. overrun = "trial" => Candidate # None
  BY ValuesAssumption DEF Inv, TypeOK, Spared, Staged, Candidate
<1> QED
  BY <1>5, <1>6, <1>7 DEF Inv, TypeOK

LEMMA ForgetStep ==
    ASSUME Inv, ForgetAttempt, overrun = "no"
    PROVE  Step
<1>1. pending = None /\ UNCHANGED <<digest, active, pending, history>>
  BY SafeFacts DEF ForgetAttempt, slots, Safe, Chosen
<1>2. ~Running /\ ~Running'
  BY DEF ForgetAttempt, Running
<1> QED
  BY <1>1, <1>2, Unseen DEF history, Candidate, CTrial, CRunning, CFault

LEMMA BootStep ==
    ASSUME Inv, VerifyPasses, overrun = "no"
    PROVE  Step
<1>1. UNCHANGED <<digest, active, pending, slot, history>>
  BY DEF VerifyPasses, state
<1>2. Candidate' = Candidate /\ CTrial' = CTrial /\ CFault' = CFault
  BY <1>1 DEF history, Candidate, CTrial, CFault
<1>3. CRunning = None /\ CRunning' = digest[slot]
  BY <1>1 DEF VerifyPasses, CRunning, Running
<1>4. CASE Staged
  <2>1. tried /\ slot = pending
    BY <1>4, SafeFacts DEF VerifyPasses, Safe, OnTrial, Trial
  <2>2. Candidate = digest[pending] /\ Candidate # None /\ CTrial = "begun"
    BY <1>4, <2>1, SafeFacts DEF CTrial
  <2>3. Contract!BootTrial
    BY <1>1, <1>2, <1>3, <2>1, <2>2 DEF Contract!BootTrial, CTrial, CRunning, CFault
  <2> QED
    BY <2>3 DEF Step, Contract!Next
<1>5. CASE ~Staged
  <2>1. slot = active /\ Candidate = None
    BY <1>5, SafeFacts DEF VerifyPasses, Safe, Chosen, Staged
  <2>2. Contract!BootActive
    BY <1>1, <1>2, <1>3, <2>1 DEF Contract!BootActive, CTrial, CRunning, CFault
  <2> QED
    BY <2>2 DEF Step, Contract!Next
<1> QED
  BY <1>4, <1>5

\* the first file of the staging: a trial system replaces its own image
LEMMA ReplaceStep ==
    ASSUME Inv, ReplaceImage, overrun = "no"
    PROVE  Step
<1>1. UNCHANGED <<digest, active, pending, slot, tried, late>> /\ Running /\ Running'
  BY DEF ReplaceImage, state, Running
<1>2. Candidate' = Candidate /\ CTrial' = CTrial /\ CRunning' = CRunning
  BY <1>1 DEF Candidate, CTrial, CRunning
<1>3. CASE overrun' = "no"
  BY <1>1, <1>2, <1>3, Unseen DEF CFault
<1>4. CASE overrun' # "no"
  <2>1. Staged /\ late /\ tried /\ slot = pending
    BY <1>4, SafeFacts, InactiveSlot
    DEF ReplaceImage, Safe, Apart, OnTrial, Trial, Writing
  <2>2. CFault = "late" /\ CTrial = "begun" /\ CRunning = Candidate
    BY <1>1, <2>1, SafeFacts DEF CTrial, CRunning
  <2>3. CFault' = "overrun"
    BY <1>4 DEF CFault
  <2>4. Contract!Overrun
    BY <2>2, <2>3 DEF Contract!Overrun, CTrial, CRunning, CFault
  <2> QED
    BY <2>4 DEF Step, Contract!Next
<1> QED
  BY <1>3, <1>4

LEMMA WriteDigestStep ==
    ASSUME Inv, WriteDigest, overrun = "no"
    PROVE  Step
<1>1. UNCHANGED <<active, pending, slot, history>> /\ Running' = Running
  BY DEF WriteDigest, state, Running
<1>2. slot = active /\ ~Staged /\ ~Staged'
  BY <1>1, SafeFacts DEF WriteDigest, Safe, Apart, Writing, Staged
<1>3. digest'[active'] = digest[active]
  BY <1>1, InactiveSlot DEF WriteDigest, Inv, TypeOK
<1> QED
  BY <1>1, <1>2, <1>3, Unseen DEF history, Candidate, CTrial, CRunning, CFault, Staged

LEMMA StageStep ==
    ASSUME Inv, SetPending, overrun = "no"
    PROVE  Step
<1>1. /\ UNCHANGED <<digest, active, slot, overrun>> /\ Running' /\ Running
      /\ pending' = Inactive /\ ~tried' /\ ~late'
  BY DEF SetPending, slots, Running
<1>2. slot = active /\ ~Staged /\ Candidate = None
  BY SafeFacts DEF SetPending, Safe, Apart, Writing
<1>3. digest[Inactive] \in Versions /\ digest[Inactive] # digest[active]
  BY <1>2, SafeFacts, InactiveSlot, PackagesAssumption
  DEF SetPending, Inv, TypeOK, Control, Safe, Apart, Writing, Packages
<1>4. Candidate' = digest[Inactive] /\ Candidate' # None
  BY <1>1, <1>3, SafeFacts, InactiveSlot, ValuesAssumption DEF Candidate
<1>5. CTrial' = "due" /\ CFault' = "none" /\ CTrial = "none" /\ CFault = "none"
  BY <1>1, <1>2, <1>4 DEF CTrial, CFault
<1>6. Contract!Stage(digest[Inactive])
  BY <1>1, <1>2, <1>3, <1>4, <1>5 DEF Contract!Stage, CTrial, CRunning, CFault
<1> QED
  BY <1>3, <1>6 DEF Step, Contract!Next

LEMMA FailStep ==
    ASSUME Inv, StageFails, overrun = "no"
    PROVE  Step
<1>1. /\ UNCHANGED <<digest, active, pending, slot, tried, overrun>>
      /\ Running /\ Running'
  BY DEF StageFails, slots, state, Running
<1>2. Candidate' = Candidate /\ CTrial' = CTrial /\ CRunning' = CRunning
  BY <1>1 DEF Candidate, CTrial, CRunning
<1>3. CASE late' = late
  BY <1>1, <1>2, <1>3, Unseen DEF CFault
<1>4. CASE late' # late
  <2>1. late' /\ Staged /\ ~tried /\ slot = active
    BY <1>4, SafeFacts DEF StageFails, Safe, Apart, Recorded, Inv, TypeOK
  <2>2. CTrial = "due" /\ CRunning = digest[active] /\ Candidate # None
    BY <1>1, <2>1, SafeFacts DEF CTrial, CRunning
  <2>3. CFault' = "late"
    BY <1>1, <1>2, <2>1, <2>2 DEF CFault
  <2>4. Contract!FailLate
    BY <1>1, <1>2, <2>2, <2>3 DEF Contract!FailLate, CTrial, CRunning, CFault
  <2> QED
    BY <2>4 DEF Step, Contract!Next
<1> QED
  BY <1>3, <1>4

LEMMA PromoteStep ==
    ASSUME Inv, ConfirmPromote, overrun = "no"
    PROVE  Step
<1>1. /\ UNCHANGED <<digest, pending, slot, tried, late, overrun>> /\ active' = pending
      /\ Running /\ Running' /\ pc = "session"
  BY DEF ConfirmPromote, slots, boot, Inv, TypeOK, Control, Running
<1>2. Candidate' = None /\ CTrial' = "none" /\ CFault' = "none" /\ CRunning' = CRunning
  BY <1>1 DEF Candidate, CTrial, CRunning, CFault
<1>3. CASE ~Staged
  <2>1. pending = active
    BY <1>3 DEF ConfirmPromote, Inv, Control, Staged
  <2>2. CTrial = "none" /\ CFault = "none" /\ Candidate = None
    BY <1>3, SafeFacts DEF CTrial
  <2> QED
    BY <1>1, <1>2, <2>1, <2>2, Unseen
<1>4. CASE Staged
  <2>1. digest'[active'] = Candidate /\ Candidate # None
    BY <1>1, <1>4, SafeFacts
  <2>2. Trial \/ Leftover
    BY <1>1, <1>4, SafeFacts DEF Safe, OnTrial
  <2>3. CASE Trial
    <3>1. CTrial = "begun" /\ CRunning = Candidate
      BY <1>1, <1>4, <2>1, <2>3, SafeFacts DEF Trial, CTrial, CRunning
    <3>2. Contract!Promote
      BY <1>2, <2>1, <3>1
      DEF Contract!Promote, Contract!Decided, CTrial, CRunning, CFault
    <3> QED
      BY <3>2 DEF Step, Contract!Next
  <2>4. CASE Leftover
    <3>1. CTrial = "due" /\ CRunning = digest[active] /\ CFault = "late"
      BY <1>1, <1>4, <2>1, <2>4, SafeFacts DEF Leftover, CTrial, CRunning
    <3>2. Contract!PromoteUntried
      BY <1>2, <2>1, <3>1
      DEF Contract!PromoteUntried, Contract!Decided, CTrial, CRunning, CFault
    <3> QED
      BY <3>2 DEF Step, Contract!Next
  <2> QED
    BY <2>2, <2>3, <2>4
<1> QED
  BY <1>3, <1>4

LEMMA UnpendStep ==
    ASSUME Inv, ConfirmUnpend \/ ConfirmUnmark, overrun = "no"
    PROVE  Step
<1>1. UNCHANGED <<digest, active, slot, history>> /\ ~Staged /\ ~Staged'
      /\ Running' = Running
  BY SafeFacts
  DEF ConfirmUnpend, ConfirmUnmark, slots, boot, Safe, Confirming, Staged, Running
<1> QED
  BY <1>1, Unseen DEF history, Candidate, CTrial, CRunning, CFault, Staged

LEMMA NextStep ==
    ASSUME Inv, [Next]_vars
    PROVE  Step
<1>0. Inv'
  BY NextInv
<1>1. CASE DropPending
  <2>1. CASE overrun = "active"
    <3>1. overrun' # "no"
      BY <1>1, <2>1 DEF DropPending
    <3> QED
      BY <2>1, <3>1, NoPromise
  <2> QED
    BY <1>1, <2>1, DropStep
<1>2. CASE ~DropPending /\ overrun # "no"
  <2>1. overrun' # "no"
    BY <1>2, StaysOverrun
  <2> QED
    BY <1>2, <2>1, NoPromise
<1>3. CASE ~DropPending /\ overrun = "no"
  <2>1. CASE PowerOff \/ PowerAction
    BY <1>3, <2>1, PowerOffStep
  <2>2. CASE DamageCandidate \/ PowerOn \/ LaunchFrontend \/ FrontendReady
    BY <2>2, SameFiles
    DEF DamageCandidate, PowerOn, LaunchFrontend, FrontendReady, slots, state, boot,
        Running
  <2>3. CASE Initramfs
    <3>1. CASE InspectFastBoot \/ RemoveCleanMarkers \/ VerifyFails
      <4>1. ~Running /\ ~Running'
        BY <3>1 DEF InspectFastBoot, RemoveCleanMarkers, VerifyFails, Running
      <4>2. UNCHANGED <<digest, active, pending, slot, history>>
        BY <3>1 DEF InspectFastBoot, RemoveCleanMarkers, VerifyFails, slots, state
      <4> QED
        BY <4>1, <4>2, SameFiles
    <3> QED
      BY <1>3, <2>3, <3>1, SelectStep, ForgetStep, BootStep DEF Initramfs
  <2>4. CASE ApplySystem
    <3>1. CASE NothingToApply \/ AcceptRequest \/ Publish \/ ClearAttempted
               \/ ConsumeRequest
      BY <3>1, SameFiles
      DEF NothingToApply, AcceptRequest, Publish, ClearAttempted, ConsumeRequest,
          slots, state, Running
    <3> QED
      BY <1>3, <2>4, <3>1, ReplaceStep, WriteDigestStep, StageStep, FailStep
      DEF ApplySystem
  <2>5. CASE MarkHealthy
    <3>1. CASE ConfirmStart \/ ConfirmBusy \/ ConfirmTimeout \/ ConfirmFails
      BY <3>1, SameFiles
      DEF ConfirmStart, ConfirmBusy, ConfirmTimeout, ConfirmFails, slots, state, boot,
          Running
    <3> QED
      BY <1>3, <2>5, <3>1, PromoteStep, UnpendStep DEF MarkHealthy
  <2>6. CASE Request
    BY <2>6, SameFiles
    DEF Request, RequestStart, RequestLatest, RequestNone, slots, state, boot, Running
  <2>7. CASE UNCHANGED vars
    BY <2>7, SameFiles DEF vars, history, Running
  <2> QED
    BY <1>3, <2>1, <2>2, <2>3, <2>4, <2>5, <2>6, <2>7 DEF Next
<1> QED
  BY <1>1, <1>2, <1>3

\* The slots, markers and requests implement the contract of an update: one trial
\* of a candidate, promotion by a ready trial only, every other boot the active
\* system; after a staging that failed late, what TrialBoot still grants.
THEOREM KeepsContract == Spec => ImplementsTrialBoot
<1>1. Init => Contract!Init
  BY SlotsAssumption DEF Init, Contract!Init, Candidate, Running
<1>2. Inv /\ [Next]_vars => [Contract!Next]_(Contract!vars)
  BY NextStep DEF Step
<1> QED
  BY <1>1, <1>2, SpecInv, PTL DEF Spec, ImplementsTrialBoot, Contract!Spec
=============================================================================
