------------------------- MODULE BootManager_proofs -------------------------
(***************************************************************************)
(* For any number of boot options, and whichever services fail: the front  *)
(* page runs with the settings unlocked, a press that is cleared is acted  *)
(* on once, and a sealed boot sequence stays as it is, whether or not a    *)
(* reset keeps the variables.                                              *)
(***************************************************************************)
EXTENDS BootManager, TLAPS

\* Before the priority boot is decided nothing has been locked.
EarlyUnlocked ==
    /\ stage \in {"reset", "entry", "beforeConsole", "afterConsole", "fwUi", "priority"}
         => ~readyToBoot /\ locked = {} /\ ~sealed
    /\ sealed => readyToBoot

\* Programs run at three stages, and at the first only the front page.
RunningAt ==
    /\ running # "none" => stage \in {"fwUi", "order", "boot"}
    /\ running # "none" /\ stage = "fwUi" => running = "frontPage"

\* The requests have been cleared by the time one was acted on, if they could be.
PressCleared == clearFailed \/ (presses <= 1 /\ (presses = 1 => latch = {}))

\* A sealed boot sequence is locked, and the event that locks it is gone.
SealIsTight == sealed => BootVariables \subseteq locked /\ preEvent = "closed"

Inv == /\ TypeOK /\ EarlyUnlocked /\ RunningAt /\ FrontPageUnlocked
       /\ PressCleared /\ SealIsTight

LEMMA FailsIsBoolean == \A service : Fails(service) \subseteq BOOLEAN
  BY DEF Fails

LEMMA InitInv == Init => Inv
<1> SUFFICES ASSUME Init PROVE Inv
  OBVIOUS
<1>1. TypeOK
  <2>1. presses \in 0..MostPresses
    BY DEF Init, MostPresses
  <2>2. boot \in [Numbers -> {"none", "shell", "other"}] /\ bootOrder \subseteq Numbers
    BY DEF Init
  <2>3. /\ stage \in Stages /\ running \in Programs \cup {"none"}
        /\ latch \subseteq {"up", "down"} /\ preEvent \in {"none", "armed", "closed"}
        /\ optionsFailed \in BOOLEAN /\ clearFailed \in BOOLEAN
    BY DEF Init, Stages, Programs
  <2> QED
    BY <2>1, <2>2, <2>3 DEF Init, TypeOK
<1>2. EarlyUnlocked /\ RunningAt /\ FrontPageUnlocked /\ SealIsTight
  BY DEF Init, EarlyUnlocked, RunningAt, FrontPageUnlocked, SealIsTight
<1>3. PressCleared
  BY DEF Init, PressCleared
<1> QED
  BY <1>1, <1>2, <1>3 DEF Inv

\* Every kind of reset puts the volatile state back.
LEMMA ResetClears ==
    ASSUME Inv, NEW asked \in BOOLEAN, Reset(asked), shellInFv' \in BOOLEAN,
           latch' \subseteq {"up", "down"}, clearFailed' \in BOOLEAN,
           presses' \in 0..MostPresses, PressCleared'
    PROVE  Inv'
<1>1. /\ bootOrder' \subseteq Numbers /\ boot' \in [Numbers -> {"none", "shell", "other"}]
      /\ bootNext' \in Numbers \cup {NoNumber}
      /\ osIndications' \in BOOLEAN /\ lockSetting' \in BOOLEAN
  BY DEF Reset, VariablesLost, Inv, TypeOK
<1>2. TypeOK'
  BY <1>1 DEF Reset, TypeOK, Stages, Programs
<1>3. EarlyUnlocked' /\ RunningAt' /\ FrontPageUnlocked' /\ SealIsTight'
  BY DEF Reset, EarlyUnlocked, RunningAt, FrontPageUnlocked, SealIsTight
<1> QED
  BY <1>2, <1>3 DEF Inv

LEMMA RebootClears == ASSUME Inv, RebootToFrontPage PROVE Inv'
<1>1. PICK failed \in Fails("indications") : Reset(~failed)
  BY DEF RebootToFrontPage
<1>2. UNCHANGED <<shellInFv, latch, clearFailed, presses>>
  BY DEF RebootToFrontPage, pressVars
<1>3. /\ shellInFv' \in BOOLEAN /\ latch' \subseteq {"up", "down"}
      /\ clearFailed' \in BOOLEAN /\ presses' \in 0..MostPresses /\ PressCleared'
  BY <1>2 DEF Inv, TypeOK, PressCleared
<1> QED
  BY <1>1, <1>3, ResetClears

\* What the lock leaves: everything it locks is a boot variable, and a seal is
\* only put on a sequence that is locked.
LEMMA LockSeals ==
    ASSUME Inv, PreReadyToBoot, UNCHANGED bootOrder
    PROVE  /\ preEvent' \in {"none", "armed", "closed"}
           /\ locked' \subseteq {"BootOrder", "BootNext"} \cup Numbers
           /\ bootNext' \in Numbers \cup {NoNumber}
           /\ sealed' \in BOOLEAN
           /\ sealed' => BootVariables \subseteq locked' /\ preEvent' = "closed"
<1>1. CASE preEvent = "armed"
  <2>1. BdsBootLockBootVariables /\ preEvent' = "closed"
    BY <1>1 DEF PreReadyToBoot
  <2>2. CASE UNCHANGED <<locked, bootNext, sealed>>
    BY <2>1, <2>2 DEF Inv, TypeOK, SealIsTight
  <2>3. CASE ~UNCHANGED <<locked, bootNext, sealed>>
    <3>1. PICK kept \in Fails("delete"),
               got \in IF "policy" \in MayFail THEN SUBSET BootVariables
                                               ELSE {BootVariables} :
            /\ locked' = locked \cup got
            /\ bootNext' = IF kept THEN bootNext ELSE NoNumber
            /\ sealed' = (got = BootVariables)
      BY <2>1, <2>3 DEF BdsBootLockBootVariables
    <3>2. got \subseteq BootVariables
      BY <3>1
    <3>3. BootVariables \subseteq {"BootOrder", "BootNext"} \cup Numbers
      BY DEF BootVariables, Inv, TypeOK
    <3> QED
      BY <2>1, <3>1, <3>2, <3>3 DEF Inv, TypeOK
  <2> QED
    BY <2>2, <2>3
<1>2. CASE preEvent # "armed"
  BY <1>2 DEF PreReadyToBoot, Inv, TypeOK, SealIsTight
<1> QED
  BY <1>1, <1>2

\* Starting a program keeps what it must: the front page only where nothing is
\* locked.
LEMMA StartKeeps ==
    ASSUME Inv, NEW program \in {"frontPage", "app", "option"}, Start(program),
           UNCHANGED <<bootOrder, boot, osIndications, lockSetting, shellInFv,
                       msBootNext, optionsFailed>>,
           stage' \in {"fwUi", "order", "boot"},
           stage' = "fwUi" => program = "frontPage" /\ stage = "fwUi",
           program = "frontPage" => ~readyToBoot /\ locked = {} /\ ~sealed,
           next' \in Numbers \cup {NoNumber}, fwUi' \in BOOLEAN,
           todo' \subseteq Numbers,
           latch' \subseteq {"up", "down"}, clearFailed' \in BOOLEAN,
           presses' \in 0..MostPresses, PressCleared'
    PROVE  Inv'
<1>1. running' = program
  BY DEF Start
<1>2. CASE program = "frontPage"
  <2>1. UNCHANGED <<preEvent, readyToBoot, locked, sealed, bootNext>>
    BY <1>2 DEF Start, rtbVars
  <2>2. TypeOK'
    BY <1>1, <1>2, <2>1 DEF Inv, TypeOK, Stages, Programs
  <2>3. EarlyUnlocked' /\ RunningAt' /\ FrontPageUnlocked'
    BY <1>1, <1>2, <2>1 DEF EarlyUnlocked, RunningAt, FrontPageUnlocked
  <2>4. PressCleared' /\ SealIsTight'
    BY <1>1, <1>2, <2>1 DEF PressCleared, SealIsTight
  <2> QED
    BY <2>2, <2>3, <2>4 DEF Inv
<1>3. CASE program # "frontPage"
  <2>1. readyToBoot' = TRUE /\ PreReadyToBoot
    BY <1>3 DEF Start
  <2>2. /\ preEvent' \in {"none", "armed", "closed"}
        /\ locked' \subseteq {"BootOrder", "BootNext"} \cup Numbers
        /\ bootNext' \in Numbers \cup {NoNumber}
        /\ sealed' \in BOOLEAN
        /\ sealed' => BootVariables \subseteq locked' /\ preEvent' = "closed"
    BY <2>1, LockSeals
  <2>3. BootVariables' = BootVariables
    BY DEF BootVariables
  <2>4. TypeOK'
    BY <1>1, <2>1, <2>2 DEF Inv, TypeOK, Stages, Programs
  <2>5. EarlyUnlocked' /\ RunningAt' /\ FrontPageUnlocked'
    BY <1>1, <1>3, <2>1 DEF EarlyUnlocked, RunningAt, FrontPageUnlocked
  <2>6. PressCleared' /\ SealIsTight'
    BY <1>1, <2>2, <2>3 DEF PressCleared, SealIsTight
  <2> QED
    BY <2>4, <2>5, <2>6 DEF Inv
<1> QED
  BY <1>2, <1>3

LEMMA NextInv == Inv /\ [Next]_vars => Inv'
<1> SUFFICES ASSUME Inv, [Next]_vars PROVE Inv'
  OBVIOUS
<1> USE DEF nvVars, rtbVars, bdsVars, pressVars
<1>1. ASSUME UNCHANGED <<locked, sealed, readyToBoot, bootOrder, running,
                         latch, clearFailed, presses>>,
             TypeOK', running = "none", preEvent' # preEvent => stage = "reset",
             \/ stage \in {"reset", "entry", "beforeConsole", "afterConsole", "fwUi",
                           "priority"}
             \/ stage' \in {"order", "boot", "unable", "off", "dead"}
      PROVE  Inv'
  <2>1. EarlyUnlocked' /\ RunningAt' /\ FrontPageUnlocked'
    BY <1>1 DEF Inv, EarlyUnlocked, RunningAt, FrontPageUnlocked
  <2>2. PressCleared' /\ SealIsTight'
    BY <1>1 DEF Inv, EarlyUnlocked, PressCleared, SealIsTight, BootVariables
  <2> QED
    BY <1>1, <2>1, <2>2 DEF Inv
<1>2. CASE DeviceBootManagerConstructor
  <2>1. TypeOK'
    <3>1. PICK failed \in Fails("event") : preEvent' = IF failed THEN "none" ELSE "armed"
      BY <1>2 DEF DeviceBootManagerConstructor
    <3> QED
      BY <1>2, <3>1 DEF DeviceBootManagerConstructor, Inv, TypeOK, Stages
  <2> QED
    BY <1>1, <1>2, <2>1
    DEF DeviceBootManagerConstructor, Inv, RunningAt
<1>3. CASE BdsEntry
  <2>1. /\ next' = bootNext /\ bootNext' = NoNumber
        /\ fwUi' = osIndications /\ osIndications' = FALSE
        /\ stage' = "beforeConsole"
    BY <1>3 DEF BdsEntry
  <2>2. UNCHANGED <<running, bootOrder, boot, lockSetting, shellInFv, latch, msBootNext,
                    preEvent, readyToBoot, locked, todo, sealed, optionsFailed,
                    clearFailed, presses>>
    BY <1>3 DEF BdsEntry
  <2>3. TypeOK'
    BY <2>1, <2>2, ZenonT(60) DEF Inv, TypeOK, Stages
  <2> QED
    BY <1>1, <1>3, <2>3 DEF BdsEntry, Inv, RunningAt
<1>4. CASE DeviceBootManagerBeforeConsole
  \* The only step that changes BootOrder without a program: nothing is sealed.
  <2>1. /\ bootOrder' \subseteq Numbers /\ boot' \in [Numbers -> {"none", "shell", "other"}]
        /\ stage' \in {"afterConsole", "dead"} /\ optionsFailed' \in BOOLEAN
    <3>1. bootOrder \subseteq Numbers /\ boot \in [Numbers -> {"none", "shell", "other"}]
      BY DEF Inv, TypeOK
    <3>2. ASSUME NotAdded PROVE stage' \in {"afterConsole", "dead"}
      BY <3>2 DEF NotAdded
    <3> QED
      BY <1>4, <3>1, <3>2
      DEF DeviceBootManagerBeforeConsole, MsBootOptionsLibRegisterDefaultBootOptions,
          AddShell, NotAdded
  <2>2. /\ stage = "beforeConsole"
        /\ UNCHANGED <<running, bootNext, osIndications, lockSetting, shellInFv, preEvent,
                       readyToBoot, locked, sealed, next, fwUi, todo, latch, clearFailed,
                       presses, msBootNext>>
    BY <1>4 DEF DeviceBootManagerBeforeConsole
  <2>3. TypeOK'
    BY <2>1, <2>2 DEF Inv, TypeOK, Stages
  <2>4. EarlyUnlocked' /\ RunningAt' /\ FrontPageUnlocked'
    BY <2>1, <2>2 DEF Inv, EarlyUnlocked, RunningAt, FrontPageUnlocked
  <2>5. PressCleared' /\ SealIsTight'
    BY <2>2 DEF Inv, EarlyUnlocked, PressCleared, SealIsTight
  <2> QED
    BY <2>3, <2>4, <2>5 DEF Inv
<1>5. CASE DeviceBootManagerAfterConsole
  <2>1. TypeOK'
    <3>1. stage' \in Stages /\ optionsFailed' \in BOOLEAN
      BY <1>5 DEF DeviceBootManagerAfterConsole, Stages
    <3> QED
      BY <1>5, <3>1 DEF DeviceBootManagerAfterConsole, Inv, TypeOK
  <2> QED
    BY <1>1, <1>5, <2>1 DEF DeviceBootManagerAfterConsole, Inv, RunningAt
<1>6. CASE BootFwUi
  <2>1. CASE fwUi
    <3>1. /\ Start("frontPage") /\ stage' = "fwUi" /\ fwUi' = FALSE
          /\ UNCHANGED <<bootOrder, boot, osIndications, lockSetting, shellInFv,
                         msBootNext, next, todo, latch, clearFailed, presses,
                         optionsFailed>>
      BY <1>6, <2>1 DEF BootFwUi
    <3>2. stage = "fwUi" /\ ~readyToBoot /\ locked = {} /\ ~sealed
      BY <1>6 DEF BootFwUi, Inv, EarlyUnlocked
    <3> QED
      BY <3>1, <3>2, StartKeeps DEF Inv, TypeOK, PressCleared
  <2>2. CASE ~fwUi
    <3>1. TypeOK'
      BY <1>6, <2>2, ZenonT(60) DEF BootFwUi, Inv, TypeOK, Stages
    <3> QED
      BY <1>1, <1>6, <2>2, <3>1 DEF BootFwUi, Inv
  <2> QED
    BY <2>1, <2>2
<1>7. CASE DeviceBootManagerPriorityBoot
  <2>1. /\ stage = "priority" /\ stage' = "order" /\ running = "none"
        /\ MsBootPolicyLibClearBootRequests
        /\ UNCHANGED <<bootOrder, boot, osIndications, lockSetting, shellInFv,
                       next, fwUi, todo, msBootNext, optionsFailed>>
    BY <1>7 DEF DeviceBootManagerPriorityBoot
  <2>2. ~readyToBoot /\ locked = {} /\ ~sealed
    BY <2>1 DEF Inv, EarlyUnlocked
  \* A press that is acted on is cleared, or known not to be.
  <2>3. /\ latch' \subseteq {"up", "down"} /\ clearFailed' \in BOOLEAN
        /\ clearFailed => clearFailed'
        /\ clearFailed' \/ latch' = {}
    <3>1. PICK failed \in Fails("clear") : /\ latch' = IF failed THEN latch ELSE {}
                                          /\ clearFailed' = (clearFailed \/ failed)
      BY <2>1 DEF MsBootPolicyLibClearBootRequests
    <3>2. failed \in BOOLEAN
      BY <3>1, FailsIsBoolean
    <3>3. CASE failed
      BY <3>1, <3>3 DEF Inv, TypeOK
    <3>4. CASE ~failed
      BY <3>1, <3>4 DEF Inv, TypeOK
    <3> QED
      BY <3>2, <3>3, <3>4
  <2>4. CASE StartNone
    <3>1. TypeOK'
      BY <2>1, <2>3, <2>4 DEF StartNone, Inv, TypeOK, Stages
    <3>2. EarlyUnlocked' /\ RunningAt' /\ FrontPageUnlocked'
      BY <2>1, <2>2, <2>4 DEF StartNone, EarlyUnlocked, RunningAt, FrontPageUnlocked
    <3>3. PressCleared' /\ SealIsTight'
      BY <2>2, <2>3, <2>4 DEF StartNone, Inv, PressCleared, SealIsTight
    <3> QED
      BY <3>1, <3>2, <3>3 DEF Inv
  <2>5. CASE ~StartNone
    <3>1. PICK front \in MsBootPolicyLibIsSettingsBoot, alt \in MsBootPolicyLibIsAltBoot :
            StartRequested(front, alt)
      BY <1>7, <2>5 DEF DeviceBootManagerPriorityBoot
    <3>2. latch # {}
      BY <3>1 DEF StartRequested, MsBootPolicyLibIsSettingsBoot, MsBootPolicyLibIsAltBoot
    <3>3. presses \in 0..MostPresses /\ PressCleared
      BY DEF Inv, TypeOK
    <3>4. presses' = IF presses = MostPresses THEN presses ELSE presses + 1
      BY <3>1 DEF StartRequested
    <3>5. presses' \in 0..MostPresses
      BY <3>3, <3>4 DEF MostPresses
    <3>6. PressCleared'
      BY <2>3, <3>2, <3>3, <3>4 DEF PressCleared, MostPresses
    <3>7. PICK program \in {"app", "frontPage"} : Start(program)
      BY <3>1 DEF StartRequested
    <3> QED
      BY <2>1, <2>2, <2>3, <3>5, <3>6, <3>7, StartKeeps DEF Inv, TypeOK
  <2> QED
    BY <2>4, <2>5
<1>8. CASE NoButtonService
  <2>1. TypeOK'
    BY <1>8 DEF NoButtonService, Inv, TypeOK, Stages
  <2> QED
    BY <1>1, <1>8, <2>1 DEF NoButtonService, Inv
<1>9. CASE ListBootOptions
  <2>1. TypeOK'
    BY <1>9 DEF ListBootOptions, Inv, TypeOK, Stages
  <2> QED
    BY <1>1, <1>9, <2>1 DEF ListBootOptions, Inv
<1>10. ASSUME NEW n \in Numbers, BootOption(n)
       PROVE  Inv'
  <2>1. /\ stage = "boot" /\ stage' = "boot" /\ running = "none"
        /\ next' = NoNumber /\ todo' = todo \ {n}
        /\ UNCHANGED <<bootOrder, boot, osIndications, lockSetting, shellInFv, fwUi,
                       latch, clearFailed, presses, msBootNext, optionsFailed>>
    BY <1>10 DEF BootOption
  <2>2. CASE boot[n] = "none"
    <3>1. UNCHANGED <<running, preEvent, readyToBoot, locked, sealed, bootNext>>
      BY <1>10, <2>2 DEF BootOption
    <3>2. TypeOK'
      BY <2>1, <3>1 DEF Inv, TypeOK
    <3> QED
      BY <1>1, <2>1, <3>1, <3>2
  <2>3. CASE boot[n] # "none"
    <3>1. Start("option")
      BY <1>10, <2>3 DEF BootOption
    <3> QED
      BY <2>1, <3>1, StartKeeps DEF Inv, TypeOK, PressCleared
  <2> QED
    BY <2>2, <2>3
<1>11. CASE GiveUp
  <2>1. TypeOK'
    BY <1>11 DEF GiveUp, Inv, TypeOK, Stages
  <2> QED
    BY <1>1, <1>11, <2>1 DEF GiveUp, Inv
<1>12. CASE DeviceBootManagerUnableToBoot
  BY <1>12, RebootClears DEF DeviceBootManagerUnableToBoot
<1>13. CASE WriteVariable
  \* A program may change BootOrder, but not once it is locked.
  <2>1. /\ running # "none"
        /\ UNCHANGED <<stage, running, shellInFv, preEvent, readyToBoot, locked, sealed,
                       next, fwUi, todo, latch, clearFailed, presses, optionsFailed>>
    BY <1>13 DEF WriteVariable
  <2>2. /\ bootOrder' \subseteq Numbers /\ bootNext' \in Numbers \cup {NoNumber}
        /\ boot' \in [Numbers -> {"none", "shell", "other"}]
        /\ osIndications' \in BOOLEAN /\ msBootNext' \in BOOLEAN
        /\ lockSetting' \in BOOLEAN
    BY <1>13 DEF WriteVariable, Inv, TypeOK
  <2>3. TypeOK'
    BY <2>1, <2>2 DEF Inv, TypeOK
  <2>4. "BootOrder" \in locked => bootOrder' = bootOrder
    BY <1>13 DEF WriteVariable
  <2>5. EarlyUnlocked' /\ RunningAt' /\ FrontPageUnlocked'
    BY <2>1 DEF Inv, EarlyUnlocked, RunningAt, FrontPageUnlocked
  <2>6. PressCleared' /\ SealIsTight'
    BY <2>1, <2>4 DEF Inv, PressCleared, SealIsTight, BootVariables
  <2> QED
    BY <2>3, <2>5, <2>6 DEF Inv
<1>14. CASE ExitBootServices
  <2>1. TypeOK'
    BY <1>14 DEF ExitBootServices, Inv, TypeOK, Programs
  <2>2. EarlyUnlocked' /\ RunningAt' /\ FrontPageUnlocked'
    BY <1>14 DEF ExitBootServices, Inv, EarlyUnlocked, RunningAt, FrontPageUnlocked
  <2>3. PressCleared' /\ SealIsTight'
    BY <1>14 DEF ExitBootServices, Inv, PressCleared, SealIsTight,
                 BootVariables
  <2> QED
    BY <2>1, <2>2, <2>3 DEF Inv
<1>15. CASE ProgramResets
  <2>1. Reset(FALSE) /\ UNCHANGED <<shellInFv, latch, clearFailed, presses>>
    BY <1>15 DEF ProgramResets
  <2>2. PressCleared'
    BY <2>1 DEF Inv, PressCleared
  <2> QED
    BY <2>1, <2>2, ResetClears DEF Inv, TypeOK
<1>16. ASSUME NEW success \in BOOLEAN, DeviceBootManagerProcessBootCompletion(success)
       PROVE  Inv'
  <2>1. running # "none"
    BY <1>16 DEF DeviceBootManagerProcessBootCompletion
  <2>2. CASE msBootNext
    BY <1>16, <2>2, RebootClears DEF DeviceBootManagerProcessBootCompletion
  <2>3. CASE ~msBootNext
    <3>1. /\ running' = "none" /\ stage' \in {stage, "order"}
          /\ (stage' # stage => stage = "boot")
          /\ UNCHANGED <<nvVars, rtbVars, bdsVars, pressVars, msBootNext, optionsFailed>>
      BY <1>16, <2>3 DEF DeviceBootManagerProcessBootCompletion
    <3>2. TypeOK'
      BY <3>1 DEF Inv, TypeOK, Stages
    <3>3. EarlyUnlocked' /\ RunningAt' /\ FrontPageUnlocked'
      BY <3>1 DEF Inv, EarlyUnlocked, RunningAt, FrontPageUnlocked
    <3>4. PressCleared' /\ SealIsTight'
      BY <2>1, <3>1 DEF Inv, PressCleared, SealIsTight, BootVariables
    <3> QED
      BY <3>2, <3>3, <3>4 DEF Inv
  <2> QED
    BY <2>2, <2>3
<1>17. CASE PowerCycle
  <2>1. /\ Reset(FALSE) /\ shellInFv' \in BOOLEAN /\ latch' \subseteq {"up", "down"}
        /\ clearFailed' = FALSE /\ presses' = 0
    BY <1>17 DEF PowerCycle
  <2>2. PressCleared' /\ presses' \in 0..MostPresses
    BY <2>1 DEF PressCleared, MostPresses
  <2> QED
    BY <2>1, <2>2, ResetClears
<1>18. CASE UNCHANGED vars
  <2>1. TypeOK'
    BY <1>18 DEF vars, Inv, TypeOK
  <2>2. EarlyUnlocked' /\ RunningAt' /\ FrontPageUnlocked'
    BY <1>18 DEF vars, Inv, EarlyUnlocked, RunningAt, FrontPageUnlocked
  <2>3. PressCleared' /\ SealIsTight'
    BY <1>18 DEF vars, Inv, PressCleared, SealIsTight, BootVariables
  <2> QED
    BY <2>1, <2>2, <2>3 DEF Inv
<1>19. CASE BdsSteps
  BY <1>2, <1>3, <1>4, <1>5, <1>6, <1>7, <1>8, <1>9, <1>10, <1>11, <1>12, <1>19, Zenon
  DEF BdsSteps
<1>20. CASE ProgramSteps
  BY <1>13, <1>14, <1>15, <1>16, <1>20, Zenon DEF ProgramSteps
<1> QED
  BY <1>17, <1>18, <1>19, <1>20, Zenon DEF Next

LEMMA Inductive == Spec => []Inv
  BY InitInv, NextInv, PTL DEF Spec

\* The values are of their types, and variables are locked only in a boot whose
\* ReadyToBoot has been signalled.
THEOREM TypeCorrect == Spec => []TypeOK
<1>1. Inv => TypeOK
  BY DEF Inv
<1> QED
  BY Inductive, <1>1, PTL

\* The front page runs only where ReadyToBoot has not locked the settings.
THEOREM FrontPageUnlockedHolds == Spec => []FrontPageUnlocked
<1>1. Inv => FrontPageUnlocked
  BY DEF Inv
<1> QED
  BY Inductive, <1>1, PTL

\* A press of the buttons starts one program, however many reboots follow, unless
\* clearing it failed.
THEOREM PressActedOnceHolds == Spec => []PressActedOnce
<1>1. Inv => PressActedOnce
  BY DEF Inv, PressCleared, PressActedOnce
<1> QED
  BY Inductive, <1>1, PTL

\* Once the console is connected the shell's option is there exactly when the image has
\* the shell: registration settles it in that very step, whatever options the previous
\* boot and its programs left, and no program runs between it and the console.
THEOREM ShellRegisteredHolds == Spec => []ShellRegistered
<1>1. Init => ShellRegistered
  BY DEF Init, ShellRegistered
<1>2. Inv /\ ShellRegistered /\ [Next]_vars => ShellRegistered'
  <2> SUFFICES ASSUME Inv, ShellRegistered, [Next]_vars,
                      stage' = "afterConsole", ~optionsFailed'
               PROVE  IF shellInFv' THEN Shells' # {} \/ bootOrder' = Numbers
                                    ELSE Shells' = {}
    BY DEF ShellRegistered
  <2> USE DEF nvVars, rtbVars, bdsVars, pressVars
  <2>1. CASE UNCHANGED <<stage, shellInFv, bootOrder, boot, optionsFailed>>
    BY <2>1 DEF ShellRegistered, Shells
  <2>2. CASE DeviceBootManagerBeforeConsole
    <3>1. PICK created \in CreateFvBootOption, unadded \in Fails("add"),
               unremoved \in IF "remove" \in MayFail THEN SUBSET Shells ELSE {{}} :
            /\ optionsFailed' = \/ shellInFv /\ ~created
                                \/ created /\ Shells = {} /\ unadded
                                \/ ~created /\ unremoved # {}
            /\ \/ created /\ Shells = {} /\ ~unadded /\ AddShell
               \/ created /\ Shells = {} /\ (unadded \/ bootOrder = Numbers) /\ NotAdded
               \/ created /\ Shells # {} /\ UNCHANGED <<bootOrder, boot>>
               \/ /\ ~created
                  /\ bootOrder' = bootOrder \ (Shells \ unremoved)
                  /\ boot' = [n \in Numbers |->
                               IF n \in Shells \ unremoved THEN "none" ELSE boot[n]]
      BY <2>2 DEF DeviceBootManagerBeforeConsole, MsBootOptionsLibRegisterDefaultBootOptions
    <3>2. created => shellInFv
      BY <3>1 DEF CreateFvBootOption
    <3>3. /\ shellInFv' = shellInFv /\ bootOrder \subseteq Numbers
          /\ boot \in [Numbers -> {"none", "shell", "other"}]
      BY <2>2 DEF DeviceBootManagerBeforeConsole, Inv, TypeOK
    <3>4. CASE created /\ AddShell
      <4>1. PICK n \in Numbers \ bootOrder : /\ bootOrder' = bootOrder \cup {n}
                                            /\ boot' = [boot EXCEPT ![n] = "shell"]
        BY <3>4 DEF AddShell
      <4>2. n \in Shells'
        BY <3>3, <4>1 DEF Shells
      <4> QED
        BY <3>2, <3>3, <3>4, <4>2
    <3>5. CASE created /\ Shells = {} /\ (unadded \/ bootOrder = Numbers) /\ NotAdded
      <4>1. ~unadded
        BY <3>1, <3>5
      <4> QED
        BY <3>2, <3>3, <3>5, <4>1 DEF NotAdded
    <3>6. CASE created /\ Shells # {} /\ UNCHANGED <<bootOrder, boot>>
      BY <3>2, <3>3, <3>6 DEF Shells
    <3>7. CASE /\ ~created
               /\ bootOrder' = bootOrder \ (Shells \ unremoved)
               /\ boot' = [n \in Numbers |->
                            IF n \in Shells \ unremoved THEN "none" ELSE boot[n]]
      <4>1. unremoved = {} /\ ~shellInFv
        BY <3>1, <3>7
      <4>2. Shells' = {}
        BY <3>3, <3>7, <4>1 DEF Shells
      <4> QED
        BY <3>3, <4>1, <4>2
    <3> QED
      BY <3>1, <3>4, <3>5, <3>6, <3>7
  <2>3. ~(\/ DeviceBootManagerConstructor \/ BdsEntry \/ DeviceBootManagerAfterConsole
          \/ BootFwUi \/ DeviceBootManagerPriorityBoot \/ NoButtonService
          \/ ListBootOptions \/ GiveUp \/ \E n \in Numbers : BootOption(n))
    BY DEF DeviceBootManagerConstructor, BdsEntry, DeviceBootManagerAfterConsole, BootFwUi,
       DeviceBootManagerPriorityBoot, NoButtonService, ListBootOptions, GiveUp, BootOption
  <2>4. ~(WriteVariable \/ ExitBootServices)
    BY DEF WriteVariable, ExitBootServices, Inv, RunningAt
  <2>5. /\ \A asked : ~Reset(asked)
        /\ ~\E success \in BOOLEAN :
               ~msBootNext /\ DeviceBootManagerProcessBootCompletion(success)
    BY DEF Reset, DeviceBootManagerProcessBootCompletion, Inv, RunningAt
  <2>6. ~(DeviceBootManagerUnableToBoot \/ ProgramResets \/ PowerCycle)
    BY <2>5 DEF DeviceBootManagerUnableToBoot, RebootToFrontPage, ProgramResets, PowerCycle
  <2>7. ~\E success \in BOOLEAN : DeviceBootManagerProcessBootCompletion(success)
    BY <2>5 DEF DeviceBootManagerProcessBootCompletion, RebootToFrontPage
  <2>8. CASE UNCHANGED vars
    BY <2>1, <2>8 DEF vars
  <2> QED
    BY <2>2, <2>3, <2>4, <2>6, <2>7, <2>8, Zenon DEF Next, BdsSteps, ProgramSteps
<1> QED
  BY Inductive, <1>1, <1>2, PTL DEF Spec

\* A boot sequence all of whose locks were placed stays as it is.
THEOREM SequenceSealedHolds == Spec => SequenceSealed
<1> DEFINE Kept == sealed /\ sealed' =>
                     /\ bootOrder' = bootOrder /\ bootNext' = bootNext
                     /\ \A n \in bootOrder : boot'[n] = boot[n]
<1>1. Inv /\ [Next]_vars => [Kept]_vars
  <2> SUFFICES ASSUME Inv, Next, sealed, sealed'
               PROVE  /\ bootOrder' = bootOrder /\ bootNext' = bootNext
                      /\ \A n \in bootOrder : boot'[n] = boot[n]
    BY DEF Kept
  <2> USE DEF nvVars, rtbVars, bdsVars, pressVars
  <2>1. /\ "BootOrder" \in locked /\ "BootNext" \in locked /\ bootOrder \subseteq locked
        /\ stage \in {"order", "boot", "unable", "off", "dead"}
    BY DEF Inv, SealIsTight, BootVariables, EarlyUnlocked, TypeOK, Stages
  <2>2. \A asked : ~Reset(asked)
    BY DEF Reset
  <2>3. preEvent = "closed"
    BY DEF Inv, SealIsTight
  <2>4. ASSUME NEW program, Start(program)
        PROVE  bootNext' = bootNext
    BY <2>3, <2>4 DEF Start, PreReadyToBoot
  <2>5. CASE ListBootOptions \/ GiveUp
    BY <2>5 DEF ListBootOptions, GiveUp
  <2>6. CASE \E n \in Numbers : BootOption(n)
    BY <2>4, <2>6 DEF BootOption
  <2>7. CASE WriteVariable
    BY <2>1, <2>7 DEF WriteVariable, Inv, TypeOK
  <2>8. CASE ExitBootServices
    BY <2>8 DEF ExitBootServices
  <2>9. CASE \E success \in BOOLEAN : DeviceBootManagerProcessBootCompletion(success)
    BY <2>2, <2>9 DEF DeviceBootManagerProcessBootCompletion, RebootToFrontPage
  <2>10. ~(\/ DeviceBootManagerConstructor \/ BdsEntry
           \/ DeviceBootManagerBeforeConsole \/ DeviceBootManagerAfterConsole
           \/ BootFwUi \/ DeviceBootManagerPriorityBoot \/ NoButtonService)
    BY <2>1 DEF DeviceBootManagerConstructor, BdsEntry, DeviceBootManagerBeforeConsole,
       DeviceBootManagerAfterConsole, BootFwUi, DeviceBootManagerPriorityBoot,
       NoButtonService
  <2>11. ~(DeviceBootManagerUnableToBoot \/ ProgramResets \/ PowerCycle)
    BY <2>2 DEF DeviceBootManagerUnableToBoot, RebootToFrontPage, ProgramResets, PowerCycle
  <2> QED
    BY <2>5, <2>6, <2>7, <2>8, <2>9, <2>10, <2>11 DEF Next, BdsSteps, ProgramSteps
<1> QED
  BY Inductive, <1>1, PTL DEF Spec, SequenceSealed, Kept
=============================================================================
