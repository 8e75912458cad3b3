---------------------------- MODULE BootManager ----------------------------
(***************************************************************************)
(* The platform's part of the boot manager (DeviceBootManagerLib with its  *)
(* policy and options libraries) over any number of resets: the requests   *)
(* made with the volume buttons, the registered boot options, the lock on  *)
(* the boot variables at the first ReadyToBoot, and the reboots into the   *)
(* front page.                                                             *)
(*                                                                         *)
(* The driver that calls the library (BdsDxe) and the programs that run    *)
(* are external: they are here as far as the library depends on them.      *)
(***************************************************************************)
EXTENDS Integers, FiniteSets

CONSTANTS
    Numbers,        \* the numbers of boot options
    NoNumber,       \* none of them
    MayFail,        \* the services whose failure is considered
    VariablesKept,  \* whether a reset may keep the variables, and may lose them
    Builds          \* "debug", whose failing ASSERTs stop it, and "release"

\* Creating an event; creating the shell's load option, adding it, removing one, or
\* creating a program's; reading the lock setting or finding the policy protocol;
\* placing one lock; deleting BootNext; writing OsIndications; reading the buttons,
\* and clearing them.
Services == {"event", "create", "add", "remove", "build", "setting", "policy", "delete",
             "indications", "buttons", "clear"}

ASSUME ConstantsAssumption ==
    /\ NoNumber \notin Numbers
    /\ Numbers \cap {"BootOrder", "BootNext"} = {}
    /\ MayFail \subseteq Services
    /\ VariablesKept \subseteq BOOLEAN
    /\ Builds \subseteq {"debug", "release"}

Fails(service) == IF service \in MayFail THEN BOOLEAN ELSE {FALSE}

VARIABLES
    stage,          \* where BdsDxe is
    running,        \* what it has started: "frontPage", "app", "option", "os"
    \* variables, a setting, the image, the buttons
    bootOrder,      \* the numbers in BootOrder, in no particular order
    boot,           \* what Boot#### loads: "none", "shell", "other"
    bootNext,       \* BootNext
    osIndications,  \* OsIndications asks for the front page
    lockSetting,    \* the setting BOOT_ORDER_LOCK
    shellInFv,      \* this firmware image contains the shell
    latch,          \* volume buttons held when the power button was pressed
    \* lost at reset
    msBootNext,     \* MsBootNext
    preEvent,       \* mPreReadyToBootEvent: "none", "armed", "closed"
    readyToBoot,    \* ReadyToBoot has been signalled, and settings are locked
    locked,         \* variables with a lock-now policy
    next, fwUi,     \* BdsDxe's copies of bootNext and osIndications
    todo,           \* boot options it has yet to try
    \* history
    sealed,         \* every lock of this boot has been placed
    optionsFailed,  \* the shell's option could just not be created, added or removed
    clearFailed,    \* the latest press could not be cleared
    presses         \* programs started for it, to MostPresses

nvVars   == <<bootOrder, boot, bootNext, osIndications, lockSetting, shellInFv>>
rtbVars  == <<preEvent, readyToBoot, locked, sealed>>
bdsVars  == <<next, fwUi, todo>>
pressVars == <<latch, clearFailed, presses>>
vars == <<stage, running, nvVars, rtbVars, bdsVars, pressVars, msBootNext, optionsFailed>>

MostPresses == 2

Programs == {"frontPage", "app", "option", "os"}
Shells == {n \in bootOrder : boot[n] = "shell"}

----------------------------------------------------------------------------
(* Resets.                                                                 *)

\* The variable store is emulated in memory, and lost when the firmware is loaded
\* anew: nothing is left in it then, and the setting is back at its default.
VariablesLost ==
    /\ bootOrder' = {} /\ boot' = [n \in Numbers |-> "none"]
    /\ bootNext' = NoNumber /\ osIndications' = FALSE
    /\ lockSetting' \in BOOLEAN

\* What every reset leaves of a boot, with the front page asked for just before or not.
Reset(asked) ==
    /\ stage' = "reset" /\ running' = "none"
    /\ preEvent' = "none" /\ readyToBoot' = FALSE /\ locked' = {} /\ sealed' = FALSE
    /\ next' = NoNumber /\ fwUi' = FALSE /\ todo' = {}
    /\ msBootNext' = FALSE /\ optionsFailed' = FALSE
    /\ \/ /\ TRUE \in VariablesKept
          /\ osIndications' = (osIndications \/ asked)
          /\ UNCHANGED <<bootOrder, boot, bootNext, lockSetting>>
       \/ FALSE \in VariablesKept /\ VariablesLost

Init ==
    /\ stage = "reset" /\ running = "none"
    /\ bootOrder \in SUBSET Numbers
    /\ boot \in [Numbers -> {"none", "shell", "other"}]
    /\ TRUE \in VariablesKept \/ (bootOrder = {} /\ boot = [n \in Numbers |-> "none"])
    /\ bootNext = NoNumber /\ osIndications = FALSE
    /\ lockSetting \in BOOLEAN /\ shellInFv \in BOOLEAN
    /\ latch \in SUBSET {"up", "down"}
    /\ preEvent = "none" /\ readyToBoot = FALSE /\ locked = {} /\ sealed = FALSE
    /\ next = NoNumber /\ fwUi = FALSE /\ todo = {}
    /\ msBootNext = FALSE
    /\ optionsFailed = FALSE /\ clearFailed = FALSE /\ presses = 0

\* Power is lost, and comes back with buttons held; the firmware may have been
\* updated.
PowerCycle ==
    /\ Reset(FALSE)
    /\ latch' \in SUBSET {"up", "down"} /\ clearFailed' = FALSE /\ presses' = 0
    /\ shellInFv' \in BOOLEAN

\* The reset follows whether or not OsIndications could be written.
RebootToFrontPage ==
    /\ \E failed \in Fails("indications") : Reset(~failed)
    /\ UNCHANGED <<shellInFv, pressVars>>

----------------------------------------------------------------------------
(* What ReadyToBoot does to the variables.                                 *)

BootVariables == {"BootOrder", "BootNext"} \cup bootOrder

\* Mutant: only the two variables with fixed names are locked.
LockWithoutOptions ==
    \E unset \in Fails("setting"), kept \in Fails("delete"),
       got \in IF "policy" \in MayFail THEN SUBSET BootVariables ELSE {BootVariables} :
      IF lockSetting /\ ~unset
        THEN /\ locked' = locked \cup (got \ Numbers)
             /\ bootNext' = IF kept THEN bootNext ELSE NoNumber
             /\ sealed' = (got = BootVariables)
        ELSE UNCHANGED <<locked, bootNext, sealed>>

\* When the setting can be read and is on, BootOrder is locked, BootNext is
\* deleted and locked, and then every option in BootOrder is; each failure is
\* only logged.
BdsBootLockBootVariables ==
    \E unset \in Fails("setting"), kept \in Fails("delete"),
       got \in IF "policy" \in MayFail THEN SUBSET BootVariables ELSE {BootVariables} :
      IF lockSetting /\ ~unset
        THEN /\ locked' = locked \cup got
             /\ bootNext' = IF kept THEN bootNext ELSE NoNumber
             /\ sealed' = (got = BootVariables)
        ELSE UNCHANGED <<locked, bootNext, sealed>>

\* The event is closed by its first notification.
PreReadyToBoot ==
    IF preEvent = "armed"
      THEN BdsBootLockBootVariables /\ preEvent' = "closed"
      ELSE UNCHANGED <<locked, bootNext, sealed, preEvent>>

----------------------------------------------------------------------------
(* From reset to the boot options.                                         *)

\* The event that locks the variables may be missing: the constructor only
\* logs its failure.
DeviceBootManagerConstructor ==
    /\ stage = "reset"
    /\ \E failed \in Fails("event") :
         preEvent' = IF failed THEN "none" ELSE "armed"
    /\ stage' = "entry"
    /\ UNCHANGED <<running, nvVars, readyToBoot, locked, sealed, bdsVars, pressVars,
                   msBootNext, optionsFailed>>

\* BdsDxe takes its copies of the two one-time requests and deletes them.
BdsEntry ==
    /\ stage = "entry"
    /\ next' = bootNext /\ bootNext' = NoNumber
    /\ fwUi' = osIndications /\ osIndications' = FALSE
    /\ stage' = "beforeConsole"
    /\ UNCHANGED <<running, bootOrder, boot, lockSetting, shellInFv, rtbVars, todo,
                   pressVars, msBootNext, optionsFailed>>

AddShell ==
    \E n \in Numbers \ bootOrder :
        /\ bootOrder' = bootOrder \cup {n}
        /\ boot' = [boot EXCEPT ![n] = "shell"]

\* The shell's option can be created when a firmware volume has the shell.
CreateFvBootOption == {shellInFv /\ ~failed : failed \in Fails("create")}

\* Adding fails without a free number too. The ASSERT that it did not stops a debug
\* build.
NotAdded ==
    /\ stage' \in {IF b = "debug" THEN "dead" ELSE "afterConsole" : b \in Builds}
    /\ UNCHANGED <<bootOrder, boot>>

\* Mutant: a shell that is not in the image keeps its boot option.
RegisterWithoutCleanup ==
    \E created \in CreateFvBootOption, unadded \in Fails("add") :
      /\ optionsFailed' = ((shellInFv /\ ~created) \/ (created /\ Shells = {} /\ unadded))
      /\ IF created /\ Shells = {}
           THEN \/ ~unadded /\ AddShell /\ stage' = "afterConsole"
                \/ (unadded \/ bootOrder = Numbers) /\ NotAdded
           ELSE stage' = "afterConsole" /\ UNCHANGED <<bootOrder, boot>>

\* Of the default options only the shell's is registered: it is added unless there is
\* one, and every one is deleted when it cannot be created; whether a deletion
\* succeeds is not looked at.
MsBootOptionsLibRegisterDefaultBootOptions ==
    \E created \in CreateFvBootOption, unadded \in Fails("add"),
       unremoved \in IF "remove" \in MayFail THEN SUBSET Shells ELSE {{}} :
      /\ optionsFailed' = \/ shellInFv /\ ~created
                          \/ created /\ Shells = {} /\ unadded
                          \/ ~created /\ unremoved # {}
      /\ \/ created /\ Shells = {} /\ ~unadded /\ AddShell /\ stage' = "afterConsole"
         \/ created /\ Shells = {} /\ (unadded \/ bootOrder = Numbers) /\ NotAdded
         \/ /\ created /\ Shells # {}
            /\ stage' = "afterConsole"
            /\ UNCHANGED <<bootOrder, boot>>
         \/ /\ ~created
            /\ bootOrder' = bootOrder \ (Shells \ unremoved)
            /\ boot' = [n \in Numbers |-> IF n \in Shells \ unremoved THEN "none" ELSE boot[n]]
            /\ stage' = "afterConsole"

DeviceBootManagerBeforeConsole ==
    /\ stage = "beforeConsole"
    /\ MsBootOptionsLibRegisterDefaultBootOptions
    /\ UNCHANGED <<running, bootNext, osIndications, lockSetting, shellInFv, rtbVars,
                   bdsVars, pressVars, msBootNext>>

\* The power and thermal checks let the machine boot or shut it down.
DeviceBootManagerAfterConsole ==
    /\ stage = "afterConsole"
    /\ stage' \in {"fwUi", "off"}
    /\ optionsFailed' = FALSE
    /\ UNCHANGED <<running, nvVars, rtbVars, bdsVars, pressVars, msBootNext>>

----------------------------------------------------------------------------
(* What is started.                                                        *)

\* BdsDxe signals ReadyToBoot before every program but the front page.
Start(program) ==
    /\ running' = program
    /\ IF program = "frontPage"
         THEN UNCHANGED <<rtbVars, bootNext>>
         ELSE PreReadyToBoot /\ readyToBoot' = TRUE

\* The request in OsIndications goes before everything else.
BootFwUi ==
    /\ stage = "fwUi" /\ running = "none"
    /\ IF fwUi
         THEN /\ Start("frontPage") /\ fwUi' = FALSE /\ stage' = stage
              /\ UNCHANGED <<next, todo>>
         ELSE /\ stage' = "priority"
              /\ UNCHANGED <<running, rtbVars, bootNext, bdsVars>>
    /\ UNCHANGED <<bootOrder, boot, osIndications, lockSetting, shellInFv, pressVars,
                   msBootNext, optionsFailed>>

\* The service that clears the buttons may fail: nobody looks at its status.
MsBootPolicyLibClearBootRequests ==
    \E failed \in Fails("clear") :
        /\ latch' = IF failed THEN latch ELSE {}
        /\ clearFailed' = (clearFailed \/ failed)

\* What the two questions about the buttons may answer: a press is missed when
\* its reading fails, and that of volume down when ALT_BOOT is disabled.
MsBootPolicyLibIsSettingsBoot == {"up" \in latch /\ ~failed : failed \in Fails("buttons")}
MsBootPolicyLibIsAltBoot == {"down" \in latch, FALSE}

\* The program the buttons ask for: the front page for volume up, the boot policy
\* application for volume down, alone or with it.
StartRequested(front, alt) ==
    /\ front \/ alt
    /\ Start(IF alt THEN "app" ELSE "frontPage")
    /\ presses' = IF presses = MostPresses THEN presses ELSE presses + 1

StartNone == UNCHANGED <<running, rtbVars, bootNext, presses>>

\* Mutant: the requests are cleared only when there was none.
PriorityBootKeepsRequests ==
    /\ stage = "priority" /\ running = "none"
    /\ \E front \in MsBootPolicyLibIsSettingsBoot, alt \in MsBootPolicyLibIsAltBoot,
          unbuilt \in Fails("build") :
         /\ IF front \/ alt THEN UNCHANGED <<latch, clearFailed>>
                           ELSE MsBootPolicyLibClearBootRequests
         /\ IF (front \/ alt) /\ ~unbuilt THEN StartRequested(front, alt) ELSE StartNone
    /\ stage' = "order"
    /\ UNCHANGED <<bootOrder, boot, osIndications, lockSetting, shellInFv, bdsVars,
                   msBootNext, optionsFailed>>

\* The requests are cleared before the program runs, and even when it cannot be
\* built.
DeviceBootManagerPriorityBoot ==
    /\ stage = "priority" /\ running = "none"
    /\ \E front \in MsBootPolicyLibIsSettingsBoot, alt \in MsBootPolicyLibIsAltBoot,
          unbuilt \in Fails("build") :
         IF (front \/ alt) /\ ~unbuilt THEN StartRequested(front, alt) ELSE StartNone
    /\ MsBootPolicyLibClearBootRequests
    /\ stage' = "order"
    /\ UNCHANGED <<bootOrder, boot, osIndications, lockSetting, shellInFv, bdsVars,
                   msBootNext, optionsFailed>>

\* Without the button service there are no presses, and none is cleared.
NoButtonService ==
    /\ stage = "priority" /\ running = "none" /\ "buttons" \in MayFail
    /\ stage' = "order"
    /\ UNCHANGED <<running, nvVars, rtbVars, bdsVars, pressVars, msBootNext, optionsFailed>>

\* BdsDxe lists the boot options, and again after one that succeeded.
ListBootOptions ==
    /\ stage = "order" /\ running = "none"
    /\ todo' = bootOrder
    /\ stage' = "boot"
    /\ UNCHANGED <<running, nvVars, rtbVars, next, fwUi, pressVars, msBootNext,
                   optionsFailed>>

\* BdsDxe tries the option of BootNext, then those of BootOrder.
BootOption(n) ==
    /\ stage = "boot" /\ running = "none"
    /\ IF next # NoNumber THEN n = next ELSE n \in todo
    /\ next' = NoNumber /\ todo' = todo \ {n}
    /\ IF boot[n] = "none"
         THEN UNCHANGED <<running, rtbVars, bootNext>>
         ELSE Start("option")
    /\ UNCHANGED <<stage, bootOrder, boot, osIndications, lockSetting, shellInFv, fwUi,
                   pressVars, msBootNext, optionsFailed>>

\* No option is left.
GiveUp ==
    /\ stage = "boot" /\ running = "none" /\ next = NoNumber /\ todo = {}
    /\ stage' = "unable"
    /\ UNCHANGED <<running, nvVars, rtbVars, bdsVars, pressVars, msBootNext, optionsFailed>>

\* Mutant: the front page is started at once.
UnableToBootStartsFrontPage ==
    /\ stage = "unable" /\ running = "none"
    /\ Start("frontPage") /\ stage' = "order"
    /\ UNCHANGED <<bootOrder, boot, osIndications, lockSetting, shellInFv, bdsVars,
                   pressVars, msBootNext, optionsFailed>>

DeviceBootManagerUnableToBoot ==
    /\ stage = "unable"
    /\ RebootToFrontPage

----------------------------------------------------------------------------
(* Programs, and their return.                                             *)

\* A program writes variables: those without a lock, and MsBootNext and the
\* settings only before an operating system runs.
WriteVariable ==
    /\ running # "none"
    /\ \/ /\ "BootOrder" \notin locked
          /\ bootOrder' \in SUBSET Numbers
          /\ UNCHANGED <<boot, bootNext, osIndications, msBootNext, lockSetting>>
       \/ /\ \E n \in Numbers \ locked, c \in {"none", "shell", "other"} :
               boot' = [boot EXCEPT ![n] = c]
          /\ UNCHANGED <<bootOrder, bootNext, osIndications, msBootNext, lockSetting>>
       \/ /\ "BootNext" \notin locked
          /\ bootNext' \in Numbers
          /\ UNCHANGED <<bootOrder, boot, osIndications, msBootNext, lockSetting>>
       \/ /\ osIndications' = TRUE
          /\ UNCHANGED <<bootOrder, boot, bootNext, msBootNext, lockSetting>>
       \/ /\ running # "os" /\ msBootNext' = TRUE
          /\ UNCHANGED <<bootOrder, boot, bootNext, osIndications, lockSetting>>
       \/ /\ running = "frontPage" /\ ~readyToBoot
          /\ lockSetting' = ~lockSetting
          /\ UNCHANGED <<bootOrder, boot, bootNext, osIndications, msBootNext>>
    /\ UNCHANGED <<stage, running, shellInFv, rtbVars, bdsVars, pressVars, optionsFailed>>

\* A program ends boot services.
ExitBootServices ==
    /\ running \in {"app", "option"}
    /\ running' = "os"
    /\ UNCHANGED <<stage, nvVars, rtbVars, bdsVars, pressVars, msBootNext, optionsFailed>>

\* A program resets the machine.
ProgramResets ==
    /\ running # "none"
    /\ Reset(FALSE)
    /\ UNCHANGED <<shellInFv, pressVars>>

\* A program returns to BdsDxe, which starts over after an option that succeeded.
DeviceBootManagerProcessBootCompletion(success) ==
    /\ running \in {"frontPage", "app", "option"}
    /\ IF msBootNext
         THEN RebootToFrontPage
         ELSE /\ running' = "none"
              /\ stage' = IF stage = "boot" /\ success THEN "order" ELSE stage
              /\ UNCHANGED <<nvVars, rtbVars, bdsVars, pressVars, msBootNext, optionsFailed>>

----------------------------------------------------------------------------
BdsSteps ==
    \/ DeviceBootManagerConstructor \/ BdsEntry
    \/ DeviceBootManagerBeforeConsole \/ DeviceBootManagerAfterConsole
    \/ BootFwUi \/ DeviceBootManagerPriorityBoot \/ NoButtonService
    \/ ListBootOptions \/ GiveUp \/ DeviceBootManagerUnableToBoot
    \/ \E n \in Numbers : BootOption(n)

ProgramSteps ==
    \/ WriteVariable \/ ExitBootServices \/ ProgramResets
    \/ \E success \in BOOLEAN : DeviceBootManagerProcessBootCompletion(success)

Next == BdsSteps \/ ProgramSteps \/ PowerCycle

Spec == Init /\ [][Next]_vars

----------------------------------------------------------------------------
Stages == {"reset", "entry", "beforeConsole", "afterConsole", "fwUi", "priority",
           "order", "boot", "unable", "off", "dead"}

TypeOK ==
    /\ stage \in Stages
    /\ running \in Programs \cup {"none"}
    /\ bootOrder \subseteq Numbers
    /\ boot \in [Numbers -> {"none", "shell", "other"}]
    /\ bootNext \in Numbers \cup {NoNumber} /\ next \in Numbers \cup {NoNumber}
    /\ osIndications \in BOOLEAN /\ lockSetting \in BOOLEAN /\ shellInFv \in BOOLEAN
    /\ latch \subseteq {"up", "down"}
    /\ preEvent \in {"none", "armed", "closed"}
    /\ readyToBoot \in BOOLEAN /\ msBootNext \in BOOLEAN /\ fwUi \in BOOLEAN
    /\ locked \subseteq {"BootOrder", "BootNext"} \cup Numbers
    /\ (locked # {} => readyToBoot)
    /\ todo \subseteq Numbers
    /\ sealed \in BOOLEAN /\ optionsFailed \in BOOLEAN /\ clearFailed \in BOOLEAN
    /\ presses \in 0..MostPresses

\* The front page never runs in a boot in which ReadyToBoot was signalled, so
\* that it always finds the settings unlocked, whichever of its four ways in is
\* taken and whatever ran before.
FrontPageUnlocked == running = "frontPage" => ~readyToBoot

\* A press of the volume buttons starts at most one program, also across the
\* reboots that follow it, as long as the service clears the buttons when told to.
PressActedOnce == clearFailed \/ presses <= 1

\* After the console is connected the boot options include the shell exactly when
\* this firmware image contains it, whatever options the programs of earlier boots
\* left, unless no number is free for one or a service failed.
ShellRegistered ==
    stage = "afterConsole" /\ ~optionsFailed =>
        IF shellInFv THEN Shells # {} \/ bootOrder = Numbers ELSE Shells = {}

\* From the first ReadyToBoot of a boot with the boot order lock on, if every
\* lock was placed, no program changes what the next boot will try until the
\* machine resets: not BootOrder, not an option in it, not BootNext.
SequenceSealed ==
    [][sealed /\ sealed' =>
         /\ bootOrder' = bootOrder /\ bootNext' = bootNext
         /\ \A n \in bootOrder : boot'[n] = boot[n]]_vars
=============================================================================
